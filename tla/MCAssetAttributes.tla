------------------------- MODULE MCAssetAttributes --------------------------
(* Two items of one host whose parsers, as those of lscpu and hwprobe, share *)
(* a key, which the first may give no value.                                 *)
EXTENDS AssetAttributes, TLC

CONSTANTS w1, w2, r1, r2, cpu, probe, host

MCAssetFor == [i \in Items |-> host]
MCHint == (cpu :> [numa_nodes |-> "null", model |-> "x", l3 |-> Absent])
            @@ (probe :> [numa_nodes |-> "2", model |-> Absent, l3 |-> "16"])
=============================================================================
