------------------------ MODULE MCCollectionPipeline ------------------------
(* Two collectors of one host: outputs of two tools, one of them broken.      *)
EXTENDS CollectionPipeline, TLC

CONSTANTS w1, r1, r2, c1, c2, cpu1, cpu2, disk, host

MCWorkers    == {w1}
MCRuns       == {r1, r2}
MCCollectors == {c1, c2}
MCItems      == {cpu1, cpu2, disk}
MCAssets     == {host}
MCAssetFor   == [i \in Items |-> host]
MCToolOf     == [i \in Items |-> IF i = disk THEN "lsblk" ELSE "lscpu"]
=============================================================================
