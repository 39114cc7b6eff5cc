--------------------------- MODULE MCQuickIndexer ---------------------------
(***************************************************************************)
(* Instances of QuickIndexer for TLC; the constants are in the .cfg files. *)
(***************************************************************************)
EXTENDS QuickIndexer
=============================================================================
