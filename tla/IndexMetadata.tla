--------------------------- MODULE IndexMetadata ---------------------------
(***************************************************************************)
(* The row of index_metadata and what its columns mean to the program:     *)
(*   latest       current_latest_block_number                              *)
(*   start        indexing_starting_block_number                           *)
(*   backfilling  is_backfilling                                           *)
(*   cursor       backfilling_block_number, which is nullable              *)
(***************************************************************************)
EXTENDS Integers

CONSTANTS
  NULL,        \* the SQL NULL of a nullable column, Rust's None, no answer
  NoRow,       \* index_metadata is empty
  InitialRows  \* what a process may find in index_metadata

MetaRow == [latest : Int, start : Int, backfilling : BOOLEAN,
            cursor : Int \cup {NULL}]

ASSUME NullAssumption  == NULL \notin Int
ASSUME NoRowAssumption == NoRow \notin MetaRow
ASSUME InitialRowsAssumption == InitialRows \subseteq MetaRow \cup {NoRow}

(* The range the batch indexer scans when it reads row m.                  *)
BackfillEnd(m) == IF m.cursor = NULL THEN m.latest ELSE m.cursor

BackfillRange(m) == m.start .. BackfillEnd(m)

(* The blocks up to the watermark that are neither stored nor in that      *)
(* range: no service looks for them.                                       *)
Unaccounted(stored, m) == (0 .. m.latest) \ (stored \cup BackfillRange(m))
=============================================================================
