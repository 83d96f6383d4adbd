------------------------- MODULE MCNormalizerWorker -------------------------
(* Two items of one host and an item of a tool that has no parser.          *)
EXTENDS NormalizerWorker

CONSTANTS w1, r1, cpu, disk, cloud, host

MCAssetFor == [i \in Items |-> IF i = cloud THEN NoAsset ELSE host]
============================================================================
