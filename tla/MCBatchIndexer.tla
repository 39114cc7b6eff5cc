--------------------------- MODULE MCBatchIndexer ---------------------------
(***************************************************************************)
(* Instances of BatchIndexer for TLC; the constants are in the .cfg files. *)
(***************************************************************************)
EXTENDS BatchIndexer
=============================================================================
