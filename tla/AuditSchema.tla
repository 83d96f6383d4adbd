---------------------------- MODULE AuditSchema ----------------------------
(***************************************************************************)
(* The Postgres tables the services of AuditCore share: what a run, an     *)
(* evidence item and an asset are, for every module of this project.       *)
(* Rows are keyed by constants; a column is a function of its key, and a   *)
(* row that does not exist yet has NoRun in its run column.                *)
(***************************************************************************)

CONSTANTS Runs,      \* runs.id
          Items,     \* evidence_items.id, chosen by the collector
          Assets,    \* assets.natural_key, unique per tenant
          NoRun,     \* the run column of a row that has not been inserted
          NoAsset    \* SQL NULL in an asset column

ASSUME SchemaAssumption == NoRun \notin Runs /\ NoAsset \notin Assets

\* runs.status, and "absent" for a run that has not been created. The code
\* never writes "planning" or "failed".
RunStatus == {"absent", "planning", "collecting", "normalizing",
              "discovering", "reporting", "complete", "failed"}

\* A run column, and an asset column, of a table that may lack the row.
RunColumn(K)   == [K -> Runs \cup {NoRun}]
AssetColumn(K) == [K -> Assets \cup {NoAsset}]
============================================================================
