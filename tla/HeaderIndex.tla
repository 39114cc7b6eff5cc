---------------------------- MODULE HeaderIndex ----------------------------
(***************************************************************************)
(* What the indexer promises the readers of its two tables, as an abstract *)
(* specification: the watermark advances over blocks that become visible   *)
(* with it, older blocks are filled in, the row says that the backfill is  *)
(* complete only when it is, and every block up to the watermark is        *)
(* stored, pending, or was stepped over, within a margin below the head of *)
(* the chain, when the last process claimed the range.                     *)
(***************************************************************************)
EXTENDS IndexMetadata

CONSTANTS
  MaxLag,  \* how far behind the chain a node may answer
  Margins  \* how far below the head of the chain a claim may begin

VARIABLES
  headers,    \* the block numbers stored
  meta,       \* the row of index_metadata, or NoRow
  finalized,  \* the latest finalized block
  skipped     \* the blocks the last claim stepped over

indexVars == <<headers, meta, finalized, skipped>>

TypeOK ==
  /\ headers \subseteq Int
  /\ meta \in MetaRow \cup {NoRow}
  /\ finalized \in Nat

Complete == BackfillRange(meta) \subseteq headers

(* While the row says that no backfill is pending, the range it describes  *)
(* is stored, across restarts and also while a NULL cursor makes that      *)
(* range grow with the quick indexer's watermark.                          *)
FlagHonest == meta # NoRow /\ ~meta.backfilling => Complete

(* Every block up to the watermark is stored, or in the range the batch    *)
(* indexer scans for the present row, or was stepped over by the write that *)
(* made the present claim, no earlier one: neither service, no interleaving of the two, no crash between    *)
(* two transactions and no lost acknowledgement lets a block fall out of   *)
(* both services' reach.                                                   *)
NoBlockLost == meta # NoRow => Unaccounted(headers, meta) \subseteq skipped

Init ==
  /\ headers \subseteq Nat
  /\ meta \in InitialRows
  /\ FlagHonest
  /\ skipped = IF meta = NoRow THEN {} ELSE Unaccounted(headers, meta)
  /\ finalized \in Nat

(* The next blocks become visible together with the watermark.             *)
Publish ==
  /\ meta # NoRow
  /\ \E n \in meta.latest + 1 .. finalized :
       /\ headers' = headers \cup (meta.latest + 1 .. n)
       /\ meta' = [meta EXCEPT !.latest = n]
  /\ UNCHANGED <<finalized, skipped>>

(* Pending blocks become visible.                                          *)
Fill ==
  /\ meta # NoRow
  /\ \E found \in SUBSET BackfillRange(meta) : headers' = headers \cup found
  /\ UNCHANGED <<meta, finalized, skipped>>

(* The row reports a completed backfill, one column at a time.             *)
Report ==
  /\ meta # NoRow
  /\ Complete
  /\ \/ /\ meta.start <= BackfillEnd(meta)
        /\ meta' = [meta EXCEPT !.cursor = meta.start]
     \/ meta' = [meta EXCEPT !.backfilling = FALSE]
  /\ UNCHANGED <<headers, finalized, skipped>>

(* A starting process claims the blocks up to the head of the chain that a *)
(* node named, and the range to backfill.  What lies outside of it is      *)
(* stepped over: no block further than a margin below what that node named. *)
Claim ==
  /\ meta' \in MetaRow
  /\ \E tip \in 0 .. finalized, margin \in Margins :
       /\ meta # NoRow => meta.latest - MaxLag <= tip
       /\ meta'.latest = IF meta # NoRow /\ meta.latest > tip THEN meta.latest ELSE tip
       /\ \A n \in Unaccounted(headers, meta') : n > tip - margin
  /\ meta'.start = 0 /\ meta'.backfilling
  /\ BackfillEnd(meta') <= meta'.latest
  /\ skipped' = Unaccounted(headers, meta')
  /\ UNCHANGED <<headers, finalized>>

Extend ==
  /\ finalized' \in Nat /\ finalized' > finalized
  /\ UNCHANGED <<headers, meta, skipped>>

Next == Publish \/ Fill \/ Report \/ Claim \/ Extend

Spec == Init /\ [][Next]_indexVars
=============================================================================
