---------------------------- MODULE MCRunReaders ----------------------------
(* One run of a host with one item, two commands at once and one reader.    *)
EXTENDS RunReaders

CONSTANTS c1, c2, r1, cpu, host, hardware, p1

MCCategoryOf == [i \in Items |-> "inventory"]
MCAgentFor   == [k \in Categories |-> hardware]
MCAssetFor   == [i \in Items |-> host]
=============================================================================
