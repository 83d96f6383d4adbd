------------------------ MODULE MCEvidenceIngestion ------------------------
(* Two API processes, two runs, a bundle of two items and one of one item.  *)
EXTENDS EvidenceIngestion, TLC

CONSTANTS s1, s2, r1, r2, i1, i2, i3, b1, b2

MCServers  == {s1, s2}
MCRuns     == {r1, r2}
MCItems    == {i1, i2, i3}
MCBundles  == {b1, b2}
MCManifest == (b1 :> <<i1, i2>>) @@ (b2 :> <<i3>>)
============================================================================
