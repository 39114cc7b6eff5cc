------------------------ MODULE IndexMetadataProofs ------------------------
(***************************************************************************)
(* What the ways in which the program changes the row and the stored       *)
(* headers do to the two ranges the row describes: the range to backfill,  *)
(* and the blocks that are left to nobody.                                 *)
(***************************************************************************)
EXTENDS IndexMetadata, TLAPS

(* Moving the watermark leaves the other columns alone.                    *)
LEMMA AdvanceRow ==
  ASSUME NEW m \in MetaRow, NEW n \in Int, NEW m2, m2 = [m EXCEPT !.latest = n]
  PROVE  /\ m2 \in MetaRow /\ m2.latest = n /\ m2.start = m.start
         /\ m2.cursor = m.cursor /\ m2.backfilling = m.backfilling
         /\ m.latest \in Int /\ m.start \in Int
BY DEF MetaRow

(* Advancing the watermark extends the range of a NULL cursor, but only by *)
(* what the watermark passes.                                              *)
LEMMA AdvanceRange ==
  ASSUME NEW m \in MetaRow, NEW n \in Int, n > m.latest,
         NEW m2, m2 = [m EXCEPT !.latest = n]
  PROVE  /\ BackfillRange(m) \subseteq BackfillRange(m2)
         /\ BackfillRange(m2) \subseteq BackfillRange(m) \cup (m.latest + 1 .. n)
<1>1. /\ m2 \in MetaRow /\ m2.latest = n /\ m2.start = m.start
      /\ m2.cursor = m.cursor /\ m.latest \in Int /\ m.start \in Int
  BY AdvanceRow
<1> QED
  BY <1>1 DEF BackfillRange, BackfillEnd, MetaRow

(* A backfill that reports its progress shrinks the range to one block:    *)
(* all of the range is stored then, so no block is left to nobody.         *)
LEMMA ProgressKeeps ==
  ASSUME NEW m \in MetaRow, NEW h, BackfillRange(m) \subseteq h,
         m.start <= BackfillEnd(m), NEW m2, m2 = [m EXCEPT !.cursor = m.start]
  PROVE  /\ m2 \in MetaRow /\ m2.latest = m.latest
         /\ m2.backfilling = m.backfilling
         /\ BackfillRange(m2) \subseteq h
         /\ Unaccounted(h, m2) \subseteq Unaccounted(h, m)
<1>1. /\ m2 \in MetaRow /\ m2.latest = m.latest /\ m2.start = m.start
      /\ m2.cursor = m.start /\ m2.backfilling = m.backfilling
  BY DEF MetaRow
<1>2. m.start \in h
  BY DEF BackfillRange, BackfillEnd, MetaRow
<1>3. BackfillRange(m2) = {m.start}
  BY <1>1, NullAssumption DEF BackfillRange, BackfillEnd, MetaRow
<1> QED
  BY <1>1, <1>2, <1>3 DEF Unaccounted

(* Marking the backfill complete changes neither range.                    *)
LEMMA MarkKeeps ==
  ASSUME NEW m \in MetaRow, NEW h, NEW m2, m2 = [m EXCEPT !.backfilling = FALSE]
  PROVE  /\ m2 \in MetaRow /\ m2.latest = m.latest
         /\ BackfillRange(m2) = BackfillRange(m)
         /\ Unaccounted(h, m2) = Unaccounted(h, m)
<1>1. /\ m2 \in MetaRow /\ m2.latest = m.latest /\ m2.start = m.start
      /\ m2.cursor = m.cursor
  BY DEF MetaRow
<1> QED
  BY <1>1 DEF BackfillRange, BackfillEnd, Unaccounted
=============================================================================
