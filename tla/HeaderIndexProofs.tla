------------------------- MODULE HeaderIndexProofs -------------------------
(***************************************************************************)
(* FlagHonest and NoBlockLost hold of every behaviour of the abstract      *)
(* specification.  Together with the row's type they are inductive.        *)
(***************************************************************************)
EXTENDS HeaderIndex, IndexMetadataProofs

IndexInv == TypeOK /\ FlagHonest /\ NoBlockLost

LEMMA IndexInit == Init => IndexInv
BY InitialRowsAssumption DEF Init, IndexInv, TypeOK, NoBlockLost

LEMMA PublishInv == IndexInv /\ Publish => IndexInv'
<1> SUFFICES ASSUME IndexInv, Publish PROVE IndexInv'
  OBVIOUS
<1>1. PICK n \in meta.latest + 1 .. finalized :
        /\ headers' = headers \cup (meta.latest + 1 .. n)
        /\ meta' = [meta EXCEPT !.latest = n]
  BY DEF Publish
<1>2. /\ meta \in MetaRow /\ meta.latest \in Int /\ n \in Int /\ n > meta.latest
      /\ meta # NoRow /\ finalized' = finalized /\ skipped' = skipped
  BY DEF Publish, IndexInv, TypeOK, MetaRow
<1>3. meta' \in MetaRow /\ meta'.backfilling = meta.backfilling /\ meta'.latest = n
  BY <1>1, <1>2, AdvanceRow
<1>4. /\ BackfillRange(meta) \subseteq BackfillRange(meta')
      /\ BackfillRange(meta') \subseteq BackfillRange(meta) \cup (meta.latest + 1 .. n)
  BY <1>1, <1>2, AdvanceRange
<1>5. Unaccounted(headers', meta') \subseteq Unaccounted(headers, meta)
  BY <1>1, <1>2, <1>3, <1>4 DEF Unaccounted
<1>6. headers' \subseteq Int
  BY <1>1, <1>2 DEF IndexInv, TypeOK
<1> QED
  BY <1>1, <1>2, <1>3, <1>4, <1>5, <1>6
     DEF IndexInv, TypeOK, FlagHonest, Complete, NoBlockLost

LEMMA FillInv == IndexInv /\ Fill => IndexInv'
BY NoRowAssumption DEF IndexInv, TypeOK, FlagHonest, Complete, NoBlockLost,
   Unaccounted, BackfillRange, BackfillEnd, Fill, MetaRow

LEMMA ReportInv == IndexInv /\ Report => IndexInv'
<1> SUFFICES ASSUME IndexInv, Report PROVE IndexInv'
  OBVIOUS
<1>1. /\ meta \in MetaRow /\ meta # NoRow /\ BackfillRange(meta) \subseteq headers
      /\ headers' = headers /\ finalized' = finalized /\ skipped' = skipped
  BY DEF Report, Complete, IndexInv, TypeOK
<1>2. /\ meta' \in MetaRow
      /\ BackfillRange(meta') \subseteq headers
      /\ Unaccounted(headers, meta') \subseteq Unaccounted(headers, meta)
  BY <1>1, ProgressKeeps, MarkKeeps DEF Report
<1> QED
  BY <1>1, <1>2 DEF IndexInv, TypeOK, FlagHonest, Complete, NoBlockLost

LEMMA ClaimInv == IndexInv /\ Claim => IndexInv'
<1> SUFFICES ASSUME IndexInv, Claim PROVE IndexInv'
  OBVIOUS
<1>1. meta' \in MetaRow
  BY DEF Claim
<1>2. meta'.backfilling = TRUE
  BY <1>1 DEF Claim, MetaRow
<1>3. meta'.start = 0
  BY DEF Claim
<1> QED
  BY <1>1, <1>2, <1>3 DEF Claim, IndexInv, TypeOK, FlagHonest, NoBlockLost

LEMMA ExtendInv == IndexInv /\ Extend => IndexInv'
BY DEF IndexInv, TypeOK, FlagHonest, Complete, NoBlockLost, Extend

LEMMA IndexStep == IndexInv /\ [Next]_indexVars => IndexInv'
<1> SUFFICES ASSUME IndexInv, [Next]_indexVars PROVE IndexInv'
  OBVIOUS
<1>1. CASE Next
  BY <1>1, PublishInv, FillInv, ReportInv, ClaimInv, ExtendInv DEF Next
<1>2. CASE UNCHANGED indexVars
  BY <1>2 DEF indexVars, IndexInv, TypeOK, FlagHonest, Complete, NoBlockLost
<1> QED
  BY <1>1, <1>2

(* In every behaviour of the abstract specification, whatever the rows a   *)
(* process finds, the row never claims a backfill complete that is not,    *)
(* and every block up to the watermark is stored, pending or was stepped   *)
(* over by a claim.                                                        *)
THEOREM IndexSafety == Spec => [](FlagHonest /\ NoBlockLost)
<1>1. IndexInv => FlagHonest /\ NoBlockLost
  BY DEF IndexInv
<1> QED
  BY <1>1, IndexInit, IndexStep, PTL DEF Spec
=============================================================================
