--------------------------- MODULE AssetAttributes ---------------------------
(***************************************************************************)
(* The attributes of assets. The statement that upserts an item's asset    *)
(* also merges what the item's parser extracted into the asset's JSON      *)
(* document, key by key, so items of one host meet in its attributes in    *)
(* the order in which the workers upsert them, and again when a drain      *)
(* repeats them.                                                           *)
(***************************************************************************)
EXTENDS NormalizerWorker

CONSTANTS Keys,    \* names of attributes
          Values,  \* their values, the JSON null among them
          Absent,  \* a key that a document does not have
          Hint     \* what the parser of each item extracts

ASSUME AttributesAssumption ==
  /\ Hint \in [Items -> [Keys -> Values \cup {Absent}]]
  /\ Absent \notin Values

VARIABLE attributes  \* assets.attributes

AttributesInit == Init /\ attributes = [a \in Assets |-> [k \in Keys |-> Absent]]

\* Mutant: the new document takes the old one's place.
Replace(old, new) == new

\* assets.attributes || EXCLUDED.attributes: a key of the new document wins, with
\* null too.
Merge(old, new) == [k \in Keys |-> IF new[k] = Absent THEN old[k] ELSE new[k]]

\* The item whose asset this step upserts.
Upserted == {i \in Items : \E w \in Workers : stage[w][i] = "upsert" /\ stage'[w][i] = "write"}

AttributesNext ==
  /\ Next
  /\ \/ Upserted = {} /\ UNCHANGED attributes
     \/ \E i \in Upserted : attributes' = [a \in Assets |->
          IF a = AssetFor[i] THEN Merge(attributes[a], Hint[i]) ELSE attributes[a]]

AttributesSpec == AttributesInit /\ [][AttributesNext]_<<vars, attributes>>

----------------------------------------------------------------------------
\* No attribute is lost and none is invented, however the items of a host interleave
\* or are repeated: its document has every key of every normalized item of the host,
\* each with the value that evidence of the host gives it. Which one, when parsers
\* share a key, is left to the order.
AttributesOfEvidence ==
  /\ \A i \in Items, k \in Keys :
       parsed[i] /\ AssetFor[i] # NoAsset /\ Hint[i][k] # Absent =>
         attributes[AssetFor[i]][k] # Absent
  /\ \A a \in Assets, k \in Keys :
       attributes[a][k] # Absent =>
         \E i \in Items : AssetFor[i] = a /\ runOf[i] # NoRun /\ Hint[i][k] = attributes[a][k]
=============================================================================
