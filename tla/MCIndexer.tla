----------------------------- MODULE MCIndexer -----------------------------
(***************************************************************************)
(* Instances of Indexer for TLC; the constants are in the .cfg files.      *)
(***************************************************************************)
EXTENDS IndexerClaims

(* An empty database, and one that a former version was configured to      *)
(* start at block 1; a completed one is reached by a restart.              *)
MCInitialRows ==
  {NoRow, [latest |-> 1, start |-> 1, backfilling |-> TRUE, cursor |-> NULL]}

(* With an offset beyond the head of the chain the cursor is negative.     *)
MCCursors == (-2 .. 2) \cup {NULL}
=============================================================================
