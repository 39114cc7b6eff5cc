------------------------- MODULE BatchIndexerProofs -------------------------
(***************************************************************************)
(* The safety properties of the batch indexer, for every chain, chunk      *)
(* size, batch size, number of retries and set of faults.  None of them is *)
(* inductive: the invariant follows a range from the read that fixes it,   *)
(* through the scans and the chunks, to the two transactions that report   *)
(* it, while the quick indexer moves the end of the range that the row     *)
(* describes.                                                              *)
(***************************************************************************)
EXTENDS BatchIndexer, FiniteSetTheorems, WellFoundedInduction, TLAPS

InCycle == Filling \/ bpc \in {"scan", "progress", "mark"}

(* What the row describes is the range of the cycle, and what the quick    *)
(* indexer published since; it ends earlier only once the cursor moved.    *)
CycleInv ==
  InCycle => /\ meta.start = bstart
             /\ BackfillRange(meta) \subseteq (bstart .. bend) \cup headers
             /\ bpc # "mark" => bend <= BackfillEnd(meta)

(* What the scan has passed is stored or noted as missing.                 *)
ScanInv ==
  bpc = "scan" =>
    /\ bstart <= bnext
    /\ bmissing \subseteq bstart .. bend
    /\ \A b \in bstart .. bend : b < bnext => b \in headers \cup bmissing
    /\ bpass = "check" => bstart <= bend

FillInv ==
  /\ Filling => bstart <= bend /\ btodo \subseteq bstart .. bend
  /\ bpc = "store" => /\ Received(banswer) \subseteq bstart .. bend
                      /\ Received(banswer) \subseteq Blocks

ReportInv ==
  /\ bpc \in {"progress", "mark"} => bstart .. bend \subseteq headers
  /\ bpc = "progress" => bstart <= bend

BatchInv ==
  /\ BatchTypeOK
  /\ bpc # "down" => meta # NoRow
  /\ CycleInv /\ ScanInv /\ FillInv /\ ReportInv
  /\ BatchDoneMeansComplete

LEMMA BatchInitInv == BatchInit => BatchInv
<1> SUFFICES ASSUME BatchInit PROVE BatchInv
  OBVIOUS
<1>1. headers \subseteq Int /\ finalized \in Nat /\ faults \in Nat
  BY BoundAssumption DEF BatchInit, Blocks
<1>2. meta \in MetaRow \cup {NoRow}
  BY InitialRowsAssumption DEF BatchInit
<1>3. shouldTerminate \in BOOLEAN
  BY DEF BatchInit
<1> QED
  BY <1>1, <1>2, <1>3
     DEF BatchInit, BatchIdle, BatchInv, BatchTypeOK, StoreTypeOK, BatchPCs,
         CycleInv, InCycle, Filling, ScanInv, FillInv, ReportInv,
         BatchDoneMeansComplete

-----------------------------------------------------------------------------
LEMMA BatchOutcomeType ==
  ASSUME faults \in Nat, NEW ok \in BOOLEAN, NEW kind, Outcome(ok, kind)
  PROVE  /\ faults' \in Nat
         /\ IF ok THEN faults' = faults ELSE faults' = faults + 1
BY DEF Outcome, Fault

LEMMA TransactionType ==
  ASSUME StoreTypeOK, NEW h \in SUBSET Int, NEW m \in MetaRow, NEW ok \in BOOLEAN,
         Transaction(h, m, ok), UNCHANGED <<finalized, shouldTerminate>>
  PROVE  /\ StoreTypeOK'
         /\ \/ headers' = h /\ meta' = m
            \/ ~ok /\ UNCHANGED <<headers, meta>>
<1>1. faults' \in Nat
  BY BatchOutcomeType DEF Transaction, Fault, StoreTypeOK
<1>2. shouldTerminate' \in BOOLEAN
  BY DEF StoreTypeOK
<1>3. \/ headers' = h /\ meta' = m
      \/ ~ok /\ UNCHANGED <<headers, meta>>
  BY DEF Transaction
<1> QED
  BY <1>1, <1>2, <1>3 DEF StoreTypeOK

LEMMA StoreHeadersType ==
  ASSUME StoreTypeOK, NEW new \in SUBSET Int, meta \in MetaRow, NEW ok \in BOOLEAN,
         StoreHeaders(new, meta, ok), UNCHANGED <<finalized, shouldTerminate>>
  PROVE  /\ StoreTypeOK' /\ meta' = meta
         /\ headers' \in {headers, headers \cup new}
<1>1. CASE Transaction(headers \cup new, meta, ok)
  <2>1. headers \cup new \in SUBSET Int
    BY DEF StoreTypeOK
  <2> QED
    BY <1>1, <2>1, TransactionType
<1>2. CASE UNCHANGED <<headers, meta, faults>>
  BY <1>2 DEF StoreTypeOK
<1> QED
  BY <1>1, <1>2 DEF StoreHeaders

(* A query leaves the tables alone.                                        *)
LEMMA QueryType ==
  ASSUME StoreTypeOK, NEW ok \in BOOLEAN, NEW kind, Outcome(ok, kind),
         UNCHANGED <<headers, meta, finalized, shouldTerminate>>
  PROVE  StoreTypeOK'
<1>1. faults' \in Nat
  BY BatchOutcomeType DEF StoreTypeOK
<1>2. shouldTerminate' \in BOOLEAN
  BY DEF StoreTypeOK
<1> QED
  BY <1>1, <1>2 DEF StoreTypeOK

(* Returning from a cycle, other than to "done", keeps the invariant.      *)
LEMMA BatchReturnInv ==
  ASSUME BatchInv, StoreTypeOK', meta' # NoRow,
         NEW pc \in {"loop", "failed", "panicked"}, BatchReturn(pc)
  PROVE  BatchInv'
BY DEF BatchInv, BatchReturn, BatchTypeOK, BatchPCs, CycleInv, InCycle, Filling,
       ScanInv, FillInv, ReportInv, BatchDoneMeansComplete, NoHeaders

-----------------------------------------------------------------------------
(* Steps between cycles.                                                   *)
LEMMA OutsideInv ==
  BatchInv /\ (BatchInitialRead \/ BatchLoop \/ BatchSleep) => BatchInv'
<1> SUFFICES ASSUME BatchInv, BatchInitialRead \/ BatchLoop \/ BatchSleep
             PROVE  BatchInv'
  OBVIOUS
<1>1. StoreTypeOK
  BY DEF BatchInv, BatchTypeOK
<1>2. CASE BatchInitialRead
  <2>1. PICK ok \in BOOLEAN :
          /\ Query(ok)
          /\ bpc' = IF ok /\ meta # NoRow THEN "loop" ELSE "failed"
    BY <1>2 DEF BatchInitialRead
  <2>2. StoreTypeOK'
    BY <1>1, <1>2, <2>1, QueryType DEF Query, BatchInitialRead
  <2> QED
    BY <1>2, <2>1, <2>2
       DEF BatchInitialRead, BatchInv, BatchTypeOK, BatchPCs, CycleInv, InCycle,
           Filling, ScanInv, FillInv, ReportInv, BatchDoneMeansComplete
<1>3. CASE BatchLoop
  BY <1>3
     DEF BatchLoop, BatchInv, BatchTypeOK, BatchPCs, CycleInv, InCycle, storeVars,
         Filling, ScanInv, FillInv, ReportInv, BatchDoneMeansComplete, StoreTypeOK
<1>4. CASE BatchSleep
  <2>1. StoreTypeOK' /\ meta' # NoRow
    BY <1>1, <1>4 DEF BatchSleep, BatchInv, storeVars, StoreTypeOK
  <2> QED
    BY <1>4, <2>1, BatchReturnInv DEF BatchSleep
<1> QED
  BY <1>2, <1>3, <1>4

(* The read that fixes the range: it is the range the row describes.       *)
LEMMA BatchReadInv == BatchInv /\ BatchRead => BatchInv'
<1> SUFFICES ASSUME BatchInv, BatchRead PROVE BatchInv'
  OBVIOUS
<1>1. /\ StoreTypeOK /\ meta # NoRow /\ meta \in MetaRow /\ bpc = "read"
      /\ UNCHANGED <<headers, meta, finalized, shouldTerminate>>
  BY DEF BatchRead, BatchInv, BatchTypeOK, StoreTypeOK
<1>2. PICK ok \in BOOLEAN :
        /\ Query(ok)
        /\ IF ok /\ meta # NoRow
           THEN /\ bstart' = meta.start
                /\ bend' = BackfillEnd(meta)
                /\ BeginScan(meta.start, "find")
                /\ UNCHANGED <<btodo, battempt, banswer>>
           ELSE BatchReturn("failed")
  BY DEF BatchRead
<1>3. StoreTypeOK'
  BY <1>1, <1>2, QueryType DEF Query
<1>4. CASE ok
  <2>1. meta.start \in Int /\ BackfillEnd(meta) \in Int
    BY <1>1 DEF MetaRow, BackfillEnd
  <2>2. /\ bpc' = "scan" /\ bpass' = "find" /\ bmissing' = {}
        /\ bstart' = meta.start /\ bend' = BackfillEnd(meta) /\ bnext' = bstart'
        /\ UNCHANGED <<btodo, battempt, banswer>>
    BY <1>1, <1>2, <1>4 DEF BeginScan
  <2>3. BatchTypeOK'
    BY <1>3, <2>1, <2>2 DEF BatchInv, BatchTypeOK, BatchPCs
  <2>4. BackfillRange(meta') = bstart' .. bend'
    BY <1>1, <2>2 DEF BackfillRange
  <2>5. CycleInv' /\ ScanInv'
    BY <1>1, <2>1, <2>2, <2>4 DEF CycleInv, ScanInv
  <2> QED
    BY <1>1, <2>2, <2>3, <2>5
       DEF BatchInv, Filling, FillInv, ReportInv, BatchDoneMeansComplete
<1>5. CASE ~ok
  BY <1>1, <1>2, <1>3, <1>5, BatchReturnInv
<1> QED
  BY <1>4, <1>5

(* One SELECT: what it passes is stored or noted.                          *)
LEMMA ScanStepInv == BatchInv /\ BatchScan => BatchInv'
<1> SUFFICES ASSUME BatchInv, BatchScan PROVE BatchInv'
  OBVIOUS
<1> DEFINE last == IF bnext + ChunkSize - 1 < bend THEN bnext + ChunkSize - 1 ELSE bend
<1>1. /\ StoreTypeOK /\ meta # NoRow /\ bpc = "scan" /\ bnext <= bend
      /\ bnext \in Int /\ bend \in Int /\ bstart \in Int /\ bmissing \subseteq Int
      /\ UNCHANGED <<headers, meta, finalized, shouldTerminate>>
  BY DEF BatchScan, BatchInv, BatchTypeOK
<1>2. last \in Int /\ last <= bend
  BY <1>1, BatchConfigAssumption
<1> HIDE DEF last
<1>3. CASE /\ Query(TRUE)
           /\ bmissing' = bmissing \cup Missing(bnext, last)
           /\ bnext' = last + 1
           /\ UNCHANGED <<bpc, bstart, bend, btodo, bpass, battempt, banswer>>
  <2>1. StoreTypeOK'
    BY <1>1, <1>3, QueryType DEF Query
  <2>2. bmissing' = bmissing \cup ((bnext .. last) \ headers)
    BY <1>3 DEF Missing
  <2>3. bnext' \in Int /\ bmissing' \subseteq Int /\ bnext <= bnext'
    <3>1. last + 1 \in Int /\ bnext <= last + 1
      BY <1>1, <1>2, BatchConfigAssumption DEF last
    <3>2. bnext .. last \subseteq Int
      BY <1>1, <1>2
    <3>3. bmissing' \subseteq Int
      BY <1>1, <2>2, <3>2
    <3> QED
      BY <1>3, <3>1, <3>3
  <2>4. BatchTypeOK'
    BY <1>3, <2>1, <2>3 DEF BatchInv, BatchTypeOK
  <2>5. ScanInv'
    <3>1. /\ bstart <= bnext /\ bmissing \subseteq bstart .. bend
          /\ \A b \in bstart .. bend : b < bnext => b \in headers \cup bmissing
      BY <1>1 DEF BatchInv, ScanInv
    <3>2. bmissing' \subseteq bstart .. bend
      <4>1. bnext .. last \subseteq bstart .. bend
        BY <1>1, <1>2, <3>1
      <4> QED
        BY <2>2, <3>1, <4>1
    <3>3. \A b \in bstart .. bend : b < last + 1 => b \in headers \cup bmissing'
      <4> SUFFICES ASSUME NEW b \in bstart .. bend, b < last + 1
                   PROVE  b \in headers \cup bmissing'
        OBVIOUS
      <4>1. CASE b < bnext
        BY <2>2, <3>1, <4>1
      <4>2. CASE ~(b < bnext)
        <5>1. b \in bnext .. last
          BY <1>1, <1>2, <4>2
        <5> QED
          BY <2>2, <5>1
      <4> QED
        BY <4>1, <4>2
    <3> QED
      BY <1>1, <1>3, <2>3, <3>1, <3>2, <3>3 DEF BatchInv, ScanInv
  <2> QED
    BY <1>1, <1>3, <2>4, <2>5
       DEF BatchInv, CycleInv, InCycle, Filling, FillInv, ReportInv,
           BatchDoneMeansComplete
<1>4. CASE Query(FALSE) /\ BatchReturn("failed")
  <2>1. StoreTypeOK'
    BY <1>1, <1>4, QueryType DEF Query
  <2> QED
    BY <1>1, <1>4, <2>1, BatchReturnInv
<1> QED
  BY <1>3, <1>4 DEF BatchScan, last

(* A finished scan has passed the whole range.                             *)
LEMMA ScannedInv == BatchInv /\ BatchScanned => BatchInv'
<1> SUFFICES ASSUME BatchInv, BatchScanned PROVE BatchInv'
  OBVIOUS
<1>1. /\ StoreTypeOK /\ meta # NoRow /\ bpc = "scan" /\ bnext > bend
      /\ bnext \in Int /\ bend \in Int /\ bstart \in Int
      /\ bmissing \subseteq bstart .. bend /\ bmissing \subseteq Int
      /\ bpass \in {"find", "check"}
      /\ bpass = "check" => bstart <= bend
      /\ \A b \in bstart .. bend : b < bnext => b \in headers \cup bmissing
  BY DEF BatchScanned, BatchInv, BatchTypeOK, ScanInv
<1>2. bmissing = {} => bstart .. bend \subseteq headers
  BY <1>1
<1>3. ASSUME bmissing # {} PROVE bstart <= bend
  <2>1. PICK b \in bmissing : b \in bstart .. bend
    BY <1>1, <1>3
  <2> QED
    BY <1>1, <2>1
<1>4. /\ bpc' \in {"mark", "chunks", "progress", "sleep"}
      /\ bpc' = "chunks" => bmissing # {} /\ bpass = "find"
      /\ bpc' \in {"mark", "progress"} => bmissing = {}
      /\ bpc' = "progress" => bpass = "check"
      /\ btodo' = (IF bpass = "find" THEN bmissing ELSE {})
      /\ bmissing' = {}
      /\ UNCHANGED <<storeVars, bstart, bend, bnext, bpass, battempt, banswer>>
  BY <1>1 DEF BatchScanned
<1>5. StoreTypeOK' /\ UNCHANGED <<headers, meta, shouldTerminate>>
  BY <1>1, <1>4 DEF StoreTypeOK, storeVars
<1>6. BatchTypeOK'
  BY <1>1, <1>4, <1>5 DEF BatchInv, BatchTypeOK, BatchPCs
<1>7. CycleInv'
  BY <1>1, <1>4, <1>5 DEF BatchInv, CycleInv, InCycle, Filling
<1>8. FillInv' /\ ReportInv'
  BY <1>1, <1>2, <1>3, <1>4, <1>5 DEF FillInv, ReportInv, Filling
<1> QED
  BY <1>1, <1>4, <1>5, <1>6, <1>7, <1>8
     DEF BatchInv, ScanInv, BatchDoneMeansComplete

(* The chunk loop goes on, or the second scan of the range begins.         *)
LEMMA ChunkInv == BatchInv /\ BatchChunk => BatchInv'
<1> SUFFICES ASSUME BatchInv, BatchChunk PROVE BatchInv'
  OBVIOUS
<1>1. /\ StoreTypeOK /\ meta # NoRow /\ bpc = "chunks"
      /\ bstart \in Int /\ bend \in Int /\ bstart <= bend
      /\ btodo \subseteq bstart .. bend
  BY DEF BatchChunk, BatchInv, BatchTypeOK, FillInv, Filling
<1>2. StoreTypeOK' /\ UNCHANGED <<headers, meta, shouldTerminate>>
  BY <1>1 DEF StoreTypeOK, storeVars, BatchChunk
<1>3. UNCHANGED <<bstart, bend, btodo, banswer>>
  BY DEF BatchChunk
<1>4. CASE btodo = {} \/ shouldTerminate
  <2>1. /\ bpc' = "scan" /\ bnext' = bstart /\ bmissing' = {} /\ bpass' = "check"
        /\ UNCHANGED battempt
    BY <1>4 DEF BatchChunk, BeginScan
  <2> QED
    BY <1>1, <1>2, <1>3, <2>1
       DEF BatchInv, BatchTypeOK, BatchPCs, CycleInv, InCycle, Filling, ScanInv,
           FillInv, ReportInv, BatchDoneMeansComplete
<1>5. CASE ~(btodo = {} \/ shouldTerminate)
  <2>1. /\ bpc' = "retry" /\ battempt' = 0 /\ UNCHANGED <<bnext, bmissing, bpass>>
    BY <1>5 DEF BatchChunk
  <2> QED
    BY <1>1, <1>2, <1>3, <2>1
       DEF BatchInv, BatchTypeOK, BatchPCs, CycleInv, InCycle, Filling, ScanInv,
           FillInv, ReportInv, BatchDoneMeansComplete
<1> QED
  BY <1>4, <1>5

(* The retry loop stays within the chunk.                                  *)
LEMMA BatchRetryInv == BatchInv /\ (BatchRetry \/ BatchBackoff) => BatchInv'
<1> SUFFICES ASSUME BatchInv, BatchRetry \/ BatchBackoff PROVE BatchInv'
  OBVIOUS
<1>1. /\ StoreTypeOK /\ meta # NoRow /\ bpc \in {"retry", "backoff"}
      /\ UNCHANGED storeVars /\ battempt \in Nat
  BY DEF BatchRetry, BatchBackoff, BatchInv, BatchTypeOK
<1>2. StoreTypeOK' /\ meta' # NoRow /\ UNCHANGED <<headers, meta, shouldTerminate>>
  BY <1>1 DEF StoreTypeOK, storeVars
<1>3. CASE BatchReturn("failed") \/ BatchReturn("panicked")
  BY <1>2, <1>3, BatchReturnInv
<1>4. CASE /\ bpc' \in {"fetch", "retry"} /\ battempt' \in {battempt, battempt + 1}
           /\ UNCHANGED <<bstart, bend, bnext, bmissing, btodo, bpass, banswer>>
  <2>1. battempt' \in Nat
    BY <1>1, <1>4
  <2> QED
    BY <1>1, <1>2, <1>4, <2>1
       DEF BatchInv, BatchTypeOK, BatchPCs, CycleInv, InCycle, Filling, ScanInv,
           FillInv, ReportInv, BatchDoneMeansComplete
<1> QED
  BY <1>3, <1>4 DEF BatchRetry, BatchBackoff

(* A chunk is kept only when every header carries the requested number.    *)
LEMMA BatchFetchInv == BatchInv /\ BatchFetch => BatchInv'
<1> SUFFICES ASSUME BatchInv, BatchFetch PROVE BatchInv'
  OBVIOUS
<1>1. /\ StoreTypeOK /\ meta # NoRow /\ bpc = "fetch"
      /\ bstart \in Int /\ bend \in Int /\ bstart <= bend
      /\ btodo \subseteq bstart .. bend
      /\ UNCHANGED <<headers, meta, finalized, shouldTerminate>>
  BY DEF BatchFetch, BatchInv, BatchTypeOK, FillInv, Filling
<1>2. PICK answer \in HeaderAnswers(NextChunk) :
        /\ Outcome(Honest(answer), "rpcBlock")
        /\ \/ /\ \A b \in NextChunk : validate_block_header(answer[b], b)
              /\ bpc' = "store" /\ banswer' = answer
              /\ UNCHANGED <<bstart, bend, bnext, bmissing, btodo, bpass, battempt>>
           \/ /\ bpc' = "backoff"
              /\ UNCHANGED <<bstart, bend, bnext, bmissing, btodo, bpass, battempt, banswer>>
           \/ BatchReturn("failed")
  BY DEF BatchFetch
<1>3. StoreTypeOK' /\ meta' # NoRow
  <2>1. Honest(answer) \in BOOLEAN
    BY DEF Honest
  <2> QED
    BY <1>1, <1>2, <2>1, QueryType
<1>4. CASE /\ \A b \in NextChunk : validate_block_header(answer[b], b)
           /\ bpc' = "store" /\ banswer' = answer
           /\ UNCHANGED <<bstart, bend, bnext, bmissing, btodo, bpass, battempt>>
  <2>1. Received(answer) \subseteq btodo
    BY <1>2, <1>4 DEF Received, HeaderAnswers, NextChunk, validate_block_header
  <2>2. Received(banswer') \subseteq bstart .. bend
    BY <1>1, <1>4, <2>1
  <2>3. Received(answer) \subseteq Blocks
    <3>1. NextChunk \subseteq Int
      BY DEF NextChunk, BatchInv, BatchTypeOK
    <3> QED
      BY <1>2, <1>4, <3>1, NullAssumption
         DEF Received, HeaderAnswers, validate_block_header
  <2>4. Received(banswer') \subseteq Blocks
    BY <1>4, <2>3
  <2>5. FillInv'
    BY <1>1, <1>4, <2>2, <2>4 DEF FillInv, Filling, Received, Blocks
  <2> QED
    BY <1>1, <1>3, <1>4, <2>5
       DEF BatchInv, BatchTypeOK, BatchPCs, CycleInv, InCycle, Filling, ScanInv,
           ReportInv, BatchDoneMeansComplete
<1>5. CASE /\ bpc' = "backoff"
           /\ UNCHANGED <<bstart, bend, bnext, bmissing, btodo, bpass, battempt, banswer>>
  BY <1>1, <1>3, <1>5
     DEF BatchInv, BatchTypeOK, BatchPCs, CycleInv, InCycle, Filling, ScanInv,
         FillInv, ReportInv, BatchDoneMeansComplete
<1>6. CASE BatchReturn("failed")
  BY <1>3, <1>6, BatchReturnInv
<1> QED
  BY <1>2, <1>4, <1>5, <1>6

(* The chunk is stored, and taken off the list.                            *)
LEMMA BatchStoreInv == BatchInv /\ BatchStore => BatchInv'
<1> SUFFICES ASSUME BatchInv, BatchStore PROVE BatchInv'
  OBVIOUS
<1>1. /\ StoreTypeOK /\ meta # NoRow /\ meta \in MetaRow /\ bpc = "store"
      /\ bstart \in Int /\ bend \in Int /\ bstart <= bend
      /\ btodo \subseteq bstart .. bend /\ Received(banswer) \subseteq bstart .. bend
      /\ headers \subseteq Int
      /\ UNCHANGED <<finalized, shouldTerminate>>
  BY DEF BatchStore, BatchInv, BatchTypeOK, FillInv, Filling, StoreTypeOK
<1>2. PICK ok \in BOOLEAN :
        /\ StoreHeaders(Received(banswer), meta, ok)
        /\ \/ /\ bpc' = "chunks" /\ btodo' = btodo \ NextChunk
              /\ banswer' = NoHeaders /\ battempt' = 0
              /\ UNCHANGED <<bstart, bend, bnext, bmissing, bpass>>
           \/ BatchReturn("failed")
  BY DEF BatchStore
<1>3. Received(banswer) \in SUBSET Int
  <2>1. bstart .. bend \subseteq Int
    BY <1>1
  <2> QED
    BY <1>1, <2>1
<1>4. StoreTypeOK' /\ meta' = meta /\ headers \subseteq headers'
  BY <1>1, <1>2, <1>3, StoreHeadersType
<1>5. CASE /\ bpc' = "chunks" /\ btodo' = btodo \ NextChunk
           /\ banswer' = NoHeaders /\ battempt' = 0
           /\ UNCHANGED <<bstart, bend, bnext, bmissing, bpass>>
  <2>1. BatchTypeOK'
    BY <1>4, <1>5 DEF BatchInv, BatchTypeOK, BatchPCs
  <2>2. CycleInv' /\ FillInv'
    BY <1>1, <1>4, <1>5 DEF BatchInv, CycleInv, InCycle, Filling, FillInv
  <2> QED
    BY <1>1, <1>4, <1>5, <2>1, <2>2 DEF BatchInv, ScanInv, ReportInv, BatchDoneMeansComplete
<1>6. CASE BatchReturn("failed")
  BY <1>1, <1>4, <1>6, BatchReturnInv
<1> QED
  BY <1>2, <1>5, <1>6

(* The cursor moves to the start of a range that is stored.                *)
LEMMA ProgressInv == BatchInv /\ BatchProgress => BatchInv'
<1> SUFFICES ASSUME BatchInv, BatchProgress PROVE BatchInv'
  OBVIOUS
<1> DEFINE m == [meta EXCEPT !.cursor = bstart]
<1>1. /\ StoreTypeOK /\ meta # NoRow /\ meta \in MetaRow /\ bpc = "progress"
      /\ bstart \in Int /\ bend \in Int /\ bstart <= bend
      /\ bstart .. bend \subseteq headers /\ headers \in SUBSET Int
      /\ UNCHANGED <<finalized, shouldTerminate>>
      /\ meta.start = bstart
  BY DEF BatchProgress, BatchInv, BatchTypeOK, ReportInv, StoreTypeOK, CycleInv, InCycle
<1>2. PICK ok \in BOOLEAN :
        /\ Transaction(headers, m, ok)
        /\ \/ /\ bpc' = "mark"
              /\ UNCHANGED <<bstart, bend, bnext, bmissing, btodo, bpass, battempt, banswer>>
           \/ BatchReturn("failed")
  BY DEF BatchProgress
<1>3. m \in MetaRow /\ m.start = bstart /\ m.cursor = bstart
  BY <1>1 DEF MetaRow
<1> HIDE DEF m
<1>4. StoreTypeOK' /\ headers' = headers /\ meta' \in {m, meta}
  BY <1>1, <1>2, <1>3, TransactionType
<1>5. meta' # NoRow
  BY <1>1, <1>3, <1>4, NoRowAssumption
<1>6. CASE /\ bpc' = "mark"
           /\ UNCHANGED <<bstart, bend, bnext, bmissing, btodo, bpass, battempt, banswer>>
  <2>1. BackfillRange(m) \subseteq bstart .. bend
    <3>1. BackfillRange(m) = bstart .. bstart
      BY <1>1, <1>3, NullAssumption DEF BackfillRange, BackfillEnd
    <3> QED
      BY <1>1, <3>1
  <2>2. BackfillRange(meta) \subseteq (bstart .. bend) \cup headers
    BY <1>1 DEF BatchInv, CycleInv, InCycle
  <2>3. CycleInv'
    <3>1. BackfillRange(meta') \subseteq (bstart .. bend) \cup headers
      BY <1>4, <2>1, <2>2
    <3> QED
      BY <1>1, <1>3, <1>4, <1>6, <3>1 DEF CycleInv
  <2> QED
    BY <1>1, <1>4, <1>5, <1>6, <2>3
       DEF BatchInv, BatchTypeOK, BatchPCs, Filling, ScanInv, FillInv, ReportInv,
           BatchDoneMeansComplete
<1>7. CASE BatchReturn("failed")
  BY <1>4, <1>5, <1>7, BatchReturnInv
<1> QED
  BY <1>2, <1>6, <1>7

(* The service ends; the row it leaves describes stored blocks only.       *)
LEMMA MarkInv == BatchInv /\ BatchMark => BatchInv'
<1> SUFFICES ASSUME BatchInv, BatchMark PROVE BatchInv'
  OBVIOUS
<1> DEFINE m == [meta EXCEPT !.backfilling = FALSE]
<1>1. /\ StoreTypeOK /\ meta # NoRow /\ meta \in MetaRow /\ bpc = "mark"
      /\ bstart .. bend \subseteq headers /\ headers \in SUBSET Int
      /\ BackfillRange(meta) \subseteq (bstart .. bend) \cup headers
      /\ UNCHANGED <<finalized, shouldTerminate>>
  BY DEF BatchMark, BatchInv, BatchTypeOK, ReportInv, StoreTypeOK, CycleInv, InCycle
<1>2. PICK ok \in BOOLEAN :
        /\ Transaction(headers, m, ok)
        /\ BatchReturn(IF ok THEN "done" ELSE "failed")
  BY DEF BatchMark
<1>3. /\ m \in MetaRow /\ m.backfilling = FALSE
      /\ m.start = meta.start /\ m.latest = meta.latest /\ m.cursor = meta.cursor
  BY <1>1 DEF MetaRow
<1> HIDE DEF m
<1>4. /\ StoreTypeOK'
      /\ \/ headers' = headers /\ meta' = m
         \/ ~ok /\ UNCHANGED <<headers, meta>>
  BY <1>1, <1>2, <1>3, TransactionType
<1>5. meta' # NoRow
  BY <1>1, <1>3, <1>4, NoRowAssumption
<1>6. CASE ok
  <2>1. BackfillRange(meta') = BackfillRange(meta) /\ ~meta'.backfilling
    BY <1>3, <1>4, <1>6 DEF BackfillRange, BackfillEnd
  <2>2. BackfillRange(meta') \subseteq headers'
    BY <1>1, <1>4, <2>1
  <2> QED
    BY <1>2, <1>4, <1>5, <1>6, <2>1, <2>2
       DEF BatchReturn, BatchInv, BatchTypeOK, BatchPCs, CycleInv, InCycle, Filling,
           ScanInv, FillInv, ReportInv, BatchDoneMeansComplete
<1>7. CASE ~ok
  BY <1>2, <1>4, <1>5, <1>7, BatchReturnInv
<1> QED
  BY <1>6, <1>7

-----------------------------------------------------------------------------
(* The quick indexer may move the end of the range the row describes, but  *)
(* only over blocks it stores.                                             *)
LEMMA BatchPeerInv == BatchInv /\ BatchPeerStep => BatchInv'
<1> SUFFICES ASSUME BatchInv, BatchPeerStep PROVE BatchInv'
  OBVIOUS
<1>1. /\ StoreTypeOK /\ meta # NoRow /\ meta \in MetaRow
      /\ faults' \in Nat /\ UNCHANGED <<finalized, shouldTerminate, batchVars>>
  BY BoundAssumption DEF BatchPeerStep, BatchInv, BatchTypeOK, StoreTypeOK, FaultsElsewhere
<1>2. /\ UNCHANGED batchVars /\ UNCHANGED shouldTerminate
      /\ shouldTerminate' \in BOOLEAN
  BY <1>1 DEF StoreTypeOK
<1>3. CASE UNCHANGED <<headers, meta>>
  <2>1. StoreTypeOK'
    BY <1>1, <1>2, <1>3 DEF StoreTypeOK
  <2> QED
    BY <1>2, <1>3, <2>1
       DEF batchVars, BatchInv, BatchTypeOK, CycleInv, InCycle, Filling, ScanInv,
           FillInv, ReportInv, BatchDoneMeansComplete, Received
<1>4. CASE \E w \in Watermarks :
             /\ w > meta.latest
             /\ headers' = headers \cup (meta.latest + 1 .. w)
             /\ meta' = [meta EXCEPT !.latest = w]
  <2>1. PICK w \in Watermarks :
          /\ w > meta.latest
          /\ headers' = headers \cup (meta.latest + 1 .. w)
          /\ meta' = [meta EXCEPT !.latest = w]
    BY <1>4
  <2>2. w \in Int /\ meta.latest \in Int /\ meta.start \in Int
    BY <1>1, BatchConfigAssumption DEF MetaRow
  <2>3. /\ meta' \in MetaRow /\ meta'.latest = w /\ meta'.start = meta.start
        /\ meta'.cursor = meta.cursor /\ meta'.backfilling = meta.backfilling
    BY <1>1, <2>1, <2>2 DEF MetaRow
  <2>4. headers \subseteq headers' /\ headers' \subseteq Int
    <3>1. meta.latest + 1 .. w \subseteq Int
      BY <2>2
    <3> QED
      BY <1>1, <2>1, <3>1 DEF StoreTypeOK
  <2>5. StoreTypeOK'
    BY <1>1, <1>2, <2>3, <2>4 DEF StoreTypeOK
  <2>6. BackfillRange(meta') \subseteq BackfillRange(meta) \cup headers'
    <3>1. CASE meta.cursor = NULL
      <4>1. BackfillRange(meta') = meta.start .. w /\ BackfillRange(meta) = meta.start .. meta.latest
        BY <2>3, <3>1 DEF BackfillRange, BackfillEnd
      <4>2. meta.start .. w \subseteq (meta.start .. meta.latest) \cup (meta.latest + 1 .. w)
        BY <2>2
      <4> QED
        BY <2>1, <4>1, <4>2
    <3>2. CASE meta.cursor # NULL
      BY <2>3, <3>2 DEF BackfillRange, BackfillEnd
    <3> QED
      BY <3>1, <3>2
  <2>7. meta' # NoRow
    BY <2>3, NoRowAssumption
  <2>8. BatchTypeOK'
    BY <1>2, <2>5 DEF batchVars, BatchInv, BatchTypeOK
  <2>9. CycleInv' /\ BatchDoneMeansComplete'
    <3>1. ASSUME bend <= BackfillEnd(meta) PROVE bend <= BackfillEnd(meta')
      BY <1>1, <2>1, <2>2, <2>3, <3>1 DEF BackfillEnd, BatchInv, BatchTypeOK
    <3>2. CycleInv'
      BY <1>2, <2>3, <2>4, <2>6, <3>1
         DEF batchVars, BatchInv, CycleInv, InCycle, Filling
    <3> QED
      BY <1>2, <2>3, <2>4, <2>6, <3>2
         DEF batchVars, BatchInv, BatchDoneMeansComplete
  <2>10. ScanInv' /\ FillInv' /\ ReportInv'
    BY <1>2, <2>4
       DEF batchVars, BatchInv, ScanInv, FillInv, ReportInv, Filling, Received
  <2> QED
    BY <2>7, <2>8, <2>9, <2>10 DEF BatchInv
<1> QED
  BY <1>3, <1>4 DEF BatchPeerStep

(* The startup code, the process and the runtime.                          *)
LEMMA RestInv ==
  BatchInv /\ (BatchStartupStep \/ BatchProcessStep) => BatchInv'
<1> SUFFICES ASSUME BatchInv, BatchStartupStep \/ BatchProcessStep PROVE BatchInv'
  OBVIOUS
<1>1. /\ StoreTypeOK /\ faults' \in Nat
      /\ headers' = headers /\ finalized' = finalized
  <2>1. /\ StoreTypeOK /\ FaultsElsewhere
        /\ headers' = headers /\ finalized' = finalized
    BY DEF BatchStartupStep, BatchProcessStep, BatchInv, BatchTypeOK
  <2> QED
    BY <2>1, BoundAssumption DEF FaultsElsewhere, StoreTypeOK
<1>2. shouldTerminate' \in BOOLEAN
  BY <1>1 DEF BatchStartupStep, BatchProcessStep, StoreTypeOK
<1>3. CASE BatchStartupStep
  <2>1. meta' \in MetaRow \cup {NoRow}
    BY <1>1, <1>3, BatchConfigAssumption, CursorAssumption
       DEF BatchStartupStep, StoreTypeOK, MetaRow
  <2>2. StoreTypeOK'
    BY <1>1, <1>2, <2>1 DEF StoreTypeOK
  <2>3. bpc = "down" /\ UNCHANGED batchVars
    BY <1>3 DEF BatchStartupStep
  <2> QED
    BY <2>2, <2>3
       DEF batchVars, BatchInv, BatchTypeOK, CycleInv, InCycle, Filling, ScanInv,
           FillInv, ReportInv, BatchDoneMeansComplete
<1>4. CASE BatchProcessStep
  <2>1. StoreTypeOK' /\ meta' = meta
    BY <1>1, <1>2, <1>4 DEF BatchProcessStep, StoreTypeOK
  <2>2. CASE BatchSpawn
    BY <2>1, <2>2
       DEF BatchSpawn, BatchInv, BatchTypeOK, BatchPCs, CycleInv, InCycle, Filling,
           ScanInv, FillInv, ReportInv, BatchDoneMeansComplete
  <2>3. CASE BatchReturn("down")
    BY <2>1, <2>3
       DEF BatchReturn, BatchInv, BatchTypeOK, BatchPCs, CycleInv, InCycle, Filling,
           ScanInv, FillInv, ReportInv, BatchDoneMeansComplete
  <2> QED
    BY <1>4, <2>2, <2>3 DEF BatchProcessStep
<1> QED
  BY <1>3, <1>4

(* The chain grows, or Ctrl-C is pressed.                                  *)
LEMMA OutsideWorldInv ==
  BatchInv /\ (FinalizeBlock \/ CtrlC) /\ UNCHANGED batchVars => BatchInv'
<1> SUFFICES ASSUME BatchInv, FinalizeBlock \/ CtrlC, UNCHANGED batchVars
             PROVE  BatchInv'
  OBVIOUS
<1>1. StoreTypeOK /\ UNCHANGED <<headers, meta>>
  BY DEF FinalizeBlock, CtrlC, BatchInv, BatchTypeOK
<1>2. finalized' \in Nat /\ faults' \in Nat
  BY <1>1 DEF FinalizeBlock, CtrlC, StoreTypeOK
<1>3. shouldTerminate' \in BOOLEAN /\ (shouldTerminate => shouldTerminate')
  BY <1>1 DEF FinalizeBlock, CtrlC, StoreTypeOK
<1>4. StoreTypeOK'
  BY <1>1, <1>2, <1>3 DEF StoreTypeOK
<1> QED
  BY <1>1, <1>3, <1>4
     DEF batchVars, BatchInv, BatchTypeOK, CycleInv, InCycle, Filling, ScanInv,
         FillInv, ReportInv, BatchDoneMeansComplete, Received

LEMMA BatchNextInv == BatchInv /\ [BatchNext]_batchSpecVars => BatchInv'
<1> SUFFICES ASSUME BatchInv, [BatchNext]_batchSpecVars PROVE BatchInv'
  OBVIOUS
<1>1. CASE BatchStep
  BY <1>1, OutsideInv, BatchReadInv, ScanStepInv, ScannedInv, ChunkInv, BatchRetryInv,
     BatchFetchInv, BatchStoreInv, ProgressInv, MarkInv
     DEF BatchStep
<1>2. CASE BatchEnvironment
  BY <1>2, BatchPeerInv, RestInv, OutsideWorldInv DEF BatchEnvironment
<1>3. CASE UNCHANGED batchSpecVars
  BY <1>3
     DEF batchSpecVars, storeVars, batchVars, BatchInv, BatchTypeOK, StoreTypeOK,
         CycleInv, InCycle, Filling, ScanInv, FillInv, ReportInv,
         BatchDoneMeansComplete, Received
<1> QED
  BY <1>1, <1>2, <1>3 DEF BatchNext

LEMMA BatchInvariance == BatchSafetySpec => []BatchInv
  BY BatchInitInv, BatchNextInv, PTL DEF BatchSafetySpec

-----------------------------------------------------------------------------
(* The variables of the service keep their types: no step of any actor     *)
(* leaves an ill-formed row or an ill-formed set of headers.               *)
THEOREM BatchTypeCorrect == BatchSafetySpec => []BatchTypeOK
<1>1. BatchInv => BatchTypeOK
  BY DEF BatchInv
<1> QED
  BY <1>1, BatchInvariance, PTL

(* A service that ended by itself has left a row that marks the backfill   *)
(* complete and describes stored blocks only, at every later moment.       *)
THEOREM BatchLeavesHonestRow == BatchSafetySpec => []BatchDoneMeansComplete
<1>1. BatchInv => BatchDoneMeansComplete
  BY DEF BatchInv
<1> QED
  BY <1>1, BatchInvariance, PTL

(* The steps that neither report nor store anything.                       *)
LEMMA OtherStepsKeepTables ==
  ASSUME \/ BatchInitialRead \/ BatchLoop \/ BatchRead \/ BatchScan \/ BatchScanned
         \/ BatchChunk \/ BatchRetry \/ BatchFetch \/ BatchBackoff \/ BatchSleep
         \/ BatchProcessStep \/ FinalizeBlock \/ CtrlC
  PROVE  UNCHANGED <<headers, meta>>
BY DEF BatchInitialRead, BatchLoop, BatchRead, BatchScan, BatchScanned, BatchChunk,
       BatchRetry, BatchFetch, BatchBackoff, BatchSleep, BatchProcessStep,
       FinalizeBlock, CtrlC, storeVars

(* The cursor and is_backfilling change, while the service runs, only when *)
(* the whole range of the cycle is stored.                                 *)
THEOREM BatchReportsOnlyStored == BatchSafetySpec => BatchReportsHonestly
<1> DEFINE Reports ==
      /\ bpc # "down" /\ meta # NoRow
      /\ <<meta'.backfilling, meta'.cursor>> # <<meta.backfilling, meta.cursor>>
<1>1. BatchInv /\ [BatchNext]_batchSpecVars
        => [Reports => bstart .. bend \subseteq headers]_batchSpecVars
  <2> SUFFICES ASSUME BatchInv, BatchNext, Reports
               PROVE  bstart .. bend \subseteq headers
    OBVIOUS
  <2>1. meta \in MetaRow /\ meta' # meta
    BY DEF BatchInv, BatchTypeOK, StoreTypeOK
  <2>2. CASE BatchProgress \/ BatchMark
    BY <2>2 DEF BatchProgress, BatchMark, BatchInv, ReportInv
  <2>3. CASE BatchStore
    BY <2>1, <2>3 DEF BatchStore, StoreHeaders, Transaction
  <2>4. CASE BatchPeerStep
    BY <2>1, <2>4 DEF BatchPeerStep, MetaRow
  <2>5. CASE BatchStartupStep
    BY <2>5 DEF BatchStartupStep
  <2> QED
    BY <2>1, <2>2, <2>3, <2>4, <2>5, OtherStepsKeepTables
       DEF BatchNext, BatchStep, BatchEnvironment
<1> QED
  BY <1>1, BatchInvariance, PTL DEF BatchSafetySpec, BatchReportsHonestly

(* Whatever numbers the nodes answer with, what the service stores lies in *)
(* the range it read.                                                      *)
THEOREM BatchKeepsToRange == BatchSafetySpec => BatchStaysInRange
<1>1. BatchInv /\ [BatchNext]_batchSpecVars
        => [bpc = "store" /\ meta' = meta
              => headers' \ headers \subseteq bstart .. bend]_batchSpecVars
  <2> SUFFICES ASSUME BatchInv, BatchNext, bpc = "store", meta' = meta
               PROVE  headers' \ headers \subseteq bstart .. bend
    OBVIOUS
  <2>1. CASE BatchStore
    <3>1. headers' \in {headers, headers \cup Received(banswer)}
      BY <2>1 DEF BatchStore, StoreHeaders, Transaction
    <3> QED
      BY <3>1 DEF BatchInv, FillInv
  <2>2. CASE BatchPeerStep
    <3>1. meta \in MetaRow
      BY <2>2 DEF BatchPeerStep, BatchInv, BatchTypeOK, StoreTypeOK
    <3>2. ASSUME NEW w \in Watermarks, w > meta.latest,
                 meta' = [meta EXCEPT !.latest = w]
          PROVE  FALSE
      BY <3>1, <3>2, BatchConfigAssumption DEF MetaRow
    <3> QED
      BY <2>2, <3>2 DEF BatchPeerStep
  <2>3. CASE BatchStartupStep \/ BatchProgress \/ BatchMark
    BY <2>3 DEF BatchStartupStep, BatchProgress, BatchMark
  <2> QED
    BY <2>1, <2>2, <2>3, OtherStepsKeepTables DEF BatchNext, BatchStep, BatchEnvironment
<1> QED
  BY <1>1, BatchInvariance, PTL DEF BatchSafetySpec, BatchStaysInRange

-----------------------------------------------------------------------------
(* Each attempt at a chunk is paid for by a fault.                         *)
BatchAttemptInv ==
  /\ bpc \in {"retry", "fetch"} => battempt <= faults
  /\ bpc = "backoff" => battempt < faults /\ battempt < MaxRetries - 1

AttemptsFit == MaxRetries <= 8 \/ ~OverflowChecks

(* No delay overflows in so few attempts.                                  *)
LEMMA DelayFits ==
  ASSUME NEW n \in Nat, n < 7
  PROVE  (n + 1) * (n + 1) * 5 <= U8Max
<1>1. n \in 0 .. 6
  OBVIOUS
<1>2. \A k \in 0 .. 6 : (k + 1) * (k + 1) * 5 <= 255
  <2> SUFFICES ASSUME NEW k \in 0 .. 6 PROVE (k + 1) * (k + 1) * 5 <= 255
    OBVIOUS
  <2>1. k = 0 \/ k = 1 \/ k = 2 \/ k = 3 \/ k = 4 \/ k = 5 \/ k = 6
    OBVIOUS
  <2> QED
    BY <2>1
<1> QED
  BY <1>1, <1>2 DEF U8Max

(* A fetch succeeds, or a fault was spent on it.                           *)
LEMMA FetchCounts ==
  ASSUME BatchTypeOK, BatchAttemptInv, BatchFetch
  PROVE  /\ battempt <= faults
         /\ \/ bpc' = "store"
            \/ /\ faults' = faults + 1 /\ battempt < MaxRetries - 1
               /\ bpc' = "backoff" /\ battempt' = battempt
            \/ /\ faults' = faults + 1 /\ battempt = MaxRetries - 1
               /\ bpc' = "failed"
<1>1. PICK answer \in HeaderAnswers(NextChunk) :
       LET complete == \A b \in NextChunk : validate_block_header(answer[b], b)
       IN  /\ Outcome(Honest(answer), "rpcBlock")
           /\ \/ /\ complete
                 /\ bpc' = "store" /\ banswer' = answer
                 /\ UNCHANGED <<bstart, bend, bnext, bmissing, btodo, bpass, battempt>>
              \/ /\ ~complete /\ battempt < MaxRetries - 1
                 /\ bpc' = "backoff"
                 /\ UNCHANGED <<bstart, bend, bnext, bmissing, btodo, bpass, battempt, banswer>>
              \/ /\ ~complete /\ battempt = MaxRetries - 1
                 /\ BatchReturn("failed")
  BY DEF BatchFetch
<1>2. (\A b \in NextChunk : validate_block_header(answer[b], b)) <=> Honest(answer)
  BY DEF HeaderAnswers, Honest, validate_block_header
<1>3. ~Honest(answer) => faults' = faults + 1
  BY <1>1 DEF Outcome, Fault
<1>4. battempt <= faults
  BY DEF BatchFetch, BatchAttemptInv
<1> QED
  BY <1>1, <1>2, <1>3, <1>4 DEF BatchReturn

LEMMA BatchAttemptStep == BatchInv /\ BatchAttemptInv /\ BatchStep => BatchAttemptInv'
<1> SUFFICES ASSUME BatchInv, BatchAttemptInv, BatchStep PROVE BatchAttemptInv'
  OBVIOUS
<1>1. BatchTypeOK /\ faults \in Nat /\ battempt \in Nat
  BY DEF BatchInv, BatchTypeOK, StoreTypeOK
<1>2. CASE BatchFetch
  <2>1. /\ battempt <= faults
        /\ bpc' = "backoff" => /\ faults' = faults + 1 /\ battempt < MaxRetries - 1
                               /\ battempt' = battempt
        /\ bpc' \in {"store", "backoff", "failed"}
    BY <1>1, <1>2, FetchCounts
  <2> QED
    BY <1>1, <2>1 DEF BatchAttemptInv
<1>3. CASE BatchChunk
  BY <1>1, <1>3 DEF BatchChunk, BeginScan, storeVars, BatchAttemptInv
<1>4. CASE BatchRetry
  BY <1>1, <1>4 DEF BatchRetry, BatchReturn, storeVars, BatchAttemptInv
<1>5. CASE BatchBackoff
  BY <1>1, <1>5 DEF BatchBackoff, BatchReturn, storeVars, BatchAttemptInv
<1>6. CASE bpc' \notin {"retry", "fetch", "backoff"}
  BY <1>6 DEF BatchAttemptInv
<1>7. BatchFetch \/ BatchChunk \/ BatchRetry \/ BatchBackoff
        \/ bpc' \notin {"retry", "fetch", "backoff"}
  BY DEF BatchStep, BatchInitialRead, BatchLoop, BatchRead, BeginScan, BatchScan,
     BatchScanned, BatchStore, BatchProgress, BatchMark, BatchSleep, BatchReturn
<1> QED
  BY <1>2, <1>3, <1>4, <1>5, <1>6, <1>7

LEMMA BatchAttemptEnvironment ==
  BatchInv /\ BatchAttemptInv /\ BatchEnvironment => BatchAttemptInv'
<1> SUFFICES ASSUME BatchInv, BatchAttemptInv, BatchEnvironment PROVE BatchAttemptInv'
  OBVIOUS
<1>1. faults \in Nat /\ battempt \in Nat
  BY DEF BatchInv, BatchTypeOK, StoreTypeOK
<1>2. FaultsElsewhere => faults' \in Nat /\ faults' >= faults
  BY <1>1, BoundAssumption DEF FaultsElsewhere
<1>3. CASE BatchPeerStep \/ BatchStartupStep
  <2>1. FaultsElsewhere /\ bpc' = bpc /\ battempt' = battempt
    BY <1>3 DEF BatchPeerStep, BatchStartupStep, batchVars
  <2> QED
    BY <1>1, <1>2, <2>1 DEF BatchAttemptInv
<1>4. CASE BatchProcessStep
  BY <1>4 DEF BatchProcessStep, BatchSpawn, BatchReturn, BatchAttemptInv
<1>5. CASE (FinalizeBlock \/ CtrlC) /\ UNCHANGED batchVars
  BY <1>1, <1>5 DEF FinalizeBlock, CtrlC, batchVars, BatchAttemptInv
<1> QED
  BY <1>3, <1>4, <1>5 DEF BatchEnvironment

LEMMA BatchAttemptInvariance == BatchSafetySpec => []BatchAttemptInv
<1>1. BatchInit => BatchAttemptInv
  BY DEF BatchInit, BatchIdle, BatchAttemptInv
<1>2. BatchInv /\ BatchAttemptInv /\ [BatchNext]_batchSpecVars => BatchAttemptInv'
  <2>1. BatchAttemptInv /\ UNCHANGED batchSpecVars => BatchAttemptInv'
    BY DEF batchSpecVars, batchVars, storeVars, BatchAttemptInv
  <2> QED
    BY <2>1, BatchAttemptStep, BatchAttemptEnvironment DEF BatchNext
<1> QED
  BY <1>1, <1>2, BatchInvariance, PTL DEF BatchSafetySpec

(* With at most 8 attempts, or where arithmetic wraps, no chunk is given   *)
(* up before max_retries faults have hit the service or it was told to     *)
(* stop: the bound is that of (retry_attempt + 1)^2 * 5 in u8.             *)
THEOREM BatchNeverGivesUpEarly ==
  ASSUME AttemptsFit
  PROVE  BatchSafetySpec => BatchAbsorbsFaults
<1>1. BatchInv /\ BatchAttemptInv /\ [BatchNext]_batchSpecVars
        => [bpc' \in {"failed", "panicked"} /\ bpc \in {"retry", "fetch", "backoff"}
              => shouldTerminate \/ faults' >= MaxRetries]_batchSpecVars
  <2> SUFFICES ASSUME BatchInv, BatchAttemptInv, BatchNext, ~shouldTerminate,
                      bpc' \in {"failed", "panicked"},
                      bpc \in {"retry", "fetch", "backoff"}
               PROVE  faults' >= MaxRetries
    OBVIOUS
  <2>1. BatchTypeOK /\ faults \in Nat /\ battempt \in Nat
    BY DEF BatchInv, BatchTypeOK, StoreTypeOK
  <2>2. CASE BatchRetry
    BY <2>1, <2>2, ConfigAssumption DEF BatchRetry, BatchReturn, storeVars, BatchAttemptInv
  <2>3. CASE BatchFetch
    BY <2>1, <2>3, FetchCounts, ConfigAssumption
  <2>4. CASE BatchBackoff
    <3>1. /\ OverflowChecks /\ (battempt + 1) * (battempt + 1) * 5 > U8Max
          /\ battempt < MaxRetries - 1
      BY <2>4 DEF BatchBackoff, BatchAttemptInv
    <3>2. battempt < 7
      BY <2>1, <3>1, ConfigAssumption, AttemptsFit DEF AttemptsFit
    <3> QED
      BY <2>1, <3>1, <3>2, DelayFits DEF U8Max
  <2> QED
    BY <2>2, <2>3, <2>4
       DEF BatchNext, BatchStep, BatchInitialRead, BatchLoop, BatchRead, BatchScan,
           BatchScanned, BatchChunk, BatchStore, BatchProgress, BatchMark, BatchSleep,
           BatchEnvironment, BatchPeerStep, BatchStartupStep, BatchProcessStep,
           BatchSpawn, BatchReturn, FinalizeBlock, CtrlC, batchVars
<1> QED
  BY <1>1, BatchInvariance, BatchAttemptInvariance, PTL
     DEF BatchSafetySpec, BatchAbsorbsFaults

-----------------------------------------------------------------------------
(* What is still to be done: the blocks of the range that are not stored   *)
(* are on the list, a chunk that is being filled is not empty and has an   *)
(* attempt left, and the scan that checks finds nothing unless the chunks  *)
(* were left because of a termination request.                             *)
AtChunk == bpc \in {"retry", "fetch", "store", "backoff"}

BatchWorkInv ==
  /\ Filling => (bstart .. bend) \ headers \subseteq btodo
  /\ AtChunk => btodo # {} /\ battempt < MaxRetries
  /\ bpc = "backoff" => battempt < MaxRetries - 1
  /\ bpc = "store" => NextChunk \subseteq Received(banswer)
  /\ bpc = "scan" /\ bpass = "check" =>
       shouldTerminate \/ (bmissing = {} /\ bstart .. bend \subseteq headers)
  /\ BatchOneCycle

LEMMA WorkScan == BatchInv /\ BatchWorkInv /\ BatchScan => BatchWorkInv'
<1> SUFFICES ASSUME BatchInv, BatchWorkInv, BatchScan PROVE BatchWorkInv'
  OBVIOUS
<1>1. bpc' = "failed" => BatchWorkInv'
  BY DEF BatchWorkInv, AtChunk, Filling, BatchOneCycle
<1>2. CASE bpc' # "failed"
  <2> DEFINE last == IF bnext + ChunkSize - 1 < bend THEN bnext + ChunkSize - 1 ELSE bend
  <2>1. /\ bpc' = "scan" /\ bpass' = bpass /\ bstart' = bstart /\ bend' = bend
        /\ headers' = headers /\ shouldTerminate' = shouldTerminate
        /\ bmissing' = bmissing \cup Missing(bnext, last)
    BY <1>2 DEF BatchScan, BatchReturn
  <2>2. bstart <= bnext /\ last <= bend /\ last \in Int /\ bnext \in Int /\ bstart \in Int
        /\ bend \in Int
    BY BatchConfigAssumption DEF BatchScan, BatchInv, BatchTypeOK, ScanInv
  <2>3. bnext .. last \subseteq bstart .. bend
    BY <2>2
  <2>4. bstart .. bend \subseteq headers => Missing(bnext, last) = {}
    BY <2>3 DEF Missing
  <2> HIDE DEF last
  <2> QED
    BY <2>1, <2>4 DEF BatchWorkInv, AtChunk, Filling, BatchOneCycle, BatchScan
<1> QED
  BY <1>1, <1>2

LEMMA WorkScanned == BatchInv /\ BatchWorkInv /\ BatchScanned => BatchWorkInv'
<1> SUFFICES ASSUME BatchInv, BatchWorkInv, BatchScanned PROVE BatchWorkInv'
  OBVIOUS
<1>1. /\ bpc = "scan" /\ bnext > bend /\ bstart' = bstart /\ bend' = bend
      /\ headers' = headers /\ shouldTerminate' = shouldTerminate
  BY DEF BatchScanned, storeVars
<1>2. CASE bpass = "find" /\ bmissing # {} /\ bpc' = "chunks"
  <2>1. btodo' = bmissing
    BY <1>2 DEF BatchScanned
  <2>2. (bstart .. bend) \ headers \subseteq bmissing
    BY <1>1 DEF BatchInv, BatchTypeOK, ScanInv
  <2> QED
    BY <1>1, <1>2, <2>1, <2>2 DEF BatchWorkInv, AtChunk, Filling, BatchOneCycle
<1>3. CASE bpass = "check" /\ bmissing # {} /\ bpc' = "sleep"
  BY <1>1, <1>3 DEF BatchWorkInv, AtChunk, Filling, BatchOneCycle
<1>4. CASE bpc' \in {"mark", "progress"}
  BY <1>4 DEF BatchWorkInv, AtChunk, Filling, BatchOneCycle
<1> QED
  BY <1>2, <1>3, <1>4 DEF BatchScanned

LEMMA WorkChunk == BatchInv /\ BatchWorkInv /\ BatchChunk => BatchWorkInv'
<1> SUFFICES ASSUME BatchInv, BatchWorkInv, BatchChunk PROVE BatchWorkInv'
  OBVIOUS
<1>1. /\ (bstart .. bend) \ headers \subseteq btodo /\ bstart' = bstart /\ bend' = bend
      /\ headers' = headers /\ shouldTerminate' = shouldTerminate /\ btodo' = btodo
  BY DEF BatchChunk, storeVars, BatchWorkInv, Filling
<1>2. CASE btodo = {} \/ shouldTerminate
  <2>1. bpc' = "scan" /\ bmissing' = {}
    BY <1>2 DEF BatchChunk, BeginScan
  <2> QED
    BY <1>1, <1>2, <2>1 DEF BatchWorkInv, AtChunk, Filling, BatchOneCycle
<1>3. CASE ~(btodo = {} \/ shouldTerminate)
  <2>1. bpc' = "retry" /\ battempt' = 0
    BY <1>3 DEF BatchChunk
  <2> QED
    BY <1>1, <1>3, <2>1, ConfigAssumption
       DEF BatchWorkInv, AtChunk, Filling, BatchOneCycle
<1> QED
  BY <1>2, <1>3

LEMMA WorkAttempt ==
  BatchInv /\ BatchWorkInv /\ (BatchRetry \/ BatchBackoff) => BatchWorkInv'
<1> SUFFICES ASSUME BatchInv, BatchWorkInv, BatchRetry \/ BatchBackoff PROVE BatchWorkInv'
  OBVIOUS
<1>1. CASE bpc' \in {"failed", "panicked"}
  BY <1>1 DEF BatchWorkInv, AtChunk, Filling, BatchOneCycle
<1>2. CASE bpc' \notin {"failed", "panicked"}
  <2>1. /\ UNCHANGED <<headers, shouldTerminate, bstart, bend, btodo>>
        /\ \/ bpc = "retry" /\ bpc' = "fetch" /\ battempt' = battempt
           \/ bpc = "backoff" /\ bpc' = "retry" /\ battempt' = battempt + 1
    BY <1>2 DEF BatchRetry, BatchBackoff, BatchReturn, storeVars
  <2>2. battempt \in Nat
    BY DEF BatchInv, BatchTypeOK
  <2> QED
    BY <2>1, <2>2, ConfigAssumption DEF BatchWorkInv, AtChunk, Filling, BatchOneCycle
<1> QED
  BY <1>1, <1>2

LEMMA WorkFetch == BatchInv /\ BatchWorkInv /\ BatchFetch => BatchWorkInv'
<1> SUFFICES ASSUME BatchInv, BatchWorkInv, BatchFetch PROVE BatchWorkInv'
  OBVIOUS
<1>1. CASE bpc' = "failed"
  BY <1>1 DEF BatchWorkInv, AtChunk, Filling, BatchOneCycle
<1>2. CASE bpc' = "backoff"
  <2>1. /\ UNCHANGED <<headers, shouldTerminate, bstart, bend, btodo, battempt>>
        /\ bpc = "fetch" /\ battempt < MaxRetries - 1
    BY <1>2 DEF BatchFetch, BatchReturn
  <2> QED
    BY <1>2, <2>1 DEF BatchWorkInv, AtChunk, Filling, BatchOneCycle
<1>3. CASE bpc' = "store"
  <2>1. PICK answer \in HeaderAnswers(NextChunk) :
          /\ \A b \in NextChunk : validate_block_header(answer[b], b)
          /\ banswer' = answer /\ btodo' = btodo /\ battempt' = battempt
          /\ bstart' = bstart /\ bend' = bend
    BY <1>3 DEF BatchFetch, BatchReturn
  <2>2. NextChunk' = NextChunk
    BY <2>1 DEF NextChunk
  <2>3. ASSUME NEW b \in NextChunk PROVE b \in Received(banswer')
    <3>1. b \in DOMAIN answer /\ answer[b] = b
      BY <2>1, <2>3 DEF HeaderAnswers, validate_block_header
    <3> QED
      BY <2>1, <3>1 DEF Received
  <2>4. bpc = "fetch" /\ headers' = headers /\ shouldTerminate' = shouldTerminate
    BY DEF BatchFetch
  <2>5. Received(banswer)' = Received(banswer')
    BY DEF Received
  <2> QED
    BY <1>3, <2>1, <2>2, <2>3, <2>4, <2>5 DEF BatchWorkInv, AtChunk, Filling, BatchOneCycle
<1> QED
  BY <1>1, <1>2, <1>3 DEF BatchFetch, BatchReturn

LEMMA WorkStore == BatchInv /\ BatchWorkInv /\ BatchStore => BatchWorkInv'
<1> SUFFICES ASSUME BatchInv, BatchWorkInv, BatchStore PROVE BatchWorkInv'
  OBVIOUS
<1>1. PICK ok \in BOOLEAN :
        /\ StoreHeaders(Received(banswer), meta, ok)
        /\ IF ok
           THEN /\ bpc' = "chunks" /\ btodo' = btodo \ NextChunk
                /\ UNCHANGED <<bstart, bend>>
           ELSE bpc' = "failed"
  BY DEF BatchStore, BatchReturn
<1>2. CASE ok
  <2>1. headers' = headers \cup Received(banswer)
    BY <1>1, <1>2 DEF StoreHeaders, Transaction
  <2>2. (bstart .. bend) \ headers \subseteq btodo /\ NextChunk \subseteq Received(banswer)
    BY DEF BatchStore, BatchWorkInv, Filling
  <2>3. (bstart .. bend) \ headers' \subseteq btodo \ NextChunk
    BY <2>1, <2>2
  <2> QED
    BY <1>1, <1>2, <2>3 DEF BatchWorkInv, AtChunk, Filling, BatchOneCycle
<1>3. CASE ~ok
  BY <1>1, <1>3 DEF BatchWorkInv, AtChunk, Filling, BatchOneCycle
<1> QED
  BY <1>2, <1>3

LEMMA WorkStep == BatchInv /\ BatchWorkInv /\ BatchStep => BatchWorkInv'
<1>1. BatchRead => bpc' = "failed" \/ (bpc' = "scan" /\ bpass' = "find")
  BY DEF BatchRead, BeginScan, BatchReturn
<1>2. BatchRead => BatchWorkInv'
  BY <1>1 DEF BatchWorkInv, AtChunk, Filling, BatchOneCycle
<1>3. BatchInitialRead \/ BatchLoop \/ BatchProgress \/ BatchMark \/ BatchSleep
        => bpc' \in {"loop", "read", "mark", "done", "failed"}
  BY DEF BatchInitialRead, BatchLoop, BatchProgress, BatchMark, BatchSleep, BatchReturn
<1>4. bpc' \in {"loop", "read", "mark", "done", "failed"} => BatchWorkInv'
  BY DEF BatchWorkInv, AtChunk, Filling, BatchOneCycle
<1> QED
  BY <1>2, <1>3, <1>4, WorkScan, WorkScanned, WorkChunk, WorkAttempt, WorkFetch, WorkStore
     DEF BatchStep

(* The others only add headers, and set the flag while the service lives.  *)
LEMMA WorkEnvironment == BatchInv /\ BatchWorkInv /\ BatchEnvironment => BatchWorkInv'
<1> SUFFICES ASSUME BatchInv, BatchWorkInv, BatchEnvironment PROVE BatchWorkInv'
  OBVIOUS
<1> DEFINE Beside == BatchPeerStep \/ ((FinalizeBlock \/ CtrlC) /\ UNCHANGED batchVars)
<1>1. CASE Beside
  <2>1. UNCHANGED batchVars
    BY <1>1 DEF BatchPeerStep
  <2>2. headers \subseteq headers'
    BY <1>1 DEF BatchPeerStep, FinalizeBlock, CtrlC
  <2>3. shouldTerminate => shouldTerminate'
    BY <1>1 DEF BatchPeerStep, FinalizeBlock, CtrlC
  <2>4. /\ UNCHANGED <<bpc, bstart, bend, bmissing, btodo, bpass, battempt, banswer>>
        /\ NextChunk' = NextChunk /\ Received(banswer)' = Received(banswer)
    BY <2>1 DEF batchVars, NextChunk, Received
  <2> QED
    BY <2>2, <2>3, <2>4 DEF BatchWorkInv, AtChunk, Filling, BatchOneCycle
<1>2. CASE BatchStartupStep \/ BatchProcessStep
  <2>1. bpc' \in {"down", "init"}
    BY <1>2 DEF BatchStartupStep, BatchProcessStep, BatchSpawn, BatchReturn, batchVars
  <2> QED
    BY <2>1 DEF BatchWorkInv, AtChunk, Filling, BatchOneCycle
<1> QED
  BY <1>1, <1>2 DEF BatchEnvironment

LEMMA BatchWorkInvariance == BatchSafetySpec => []BatchWorkInv
<1>1. BatchInit => BatchWorkInv
  BY DEF BatchInit, BatchIdle, BatchWorkInv, AtChunk, Filling, BatchOneCycle
<1>2. BatchInv /\ BatchWorkInv /\ [BatchNext]_batchSpecVars => BatchWorkInv'
  <2>1. BatchWorkInv /\ UNCHANGED batchSpecVars => BatchWorkInv'
    BY DEF batchSpecVars, batchVars, storeVars, BatchWorkInv, AtChunk, Filling,
       BatchOneCycle, NextChunk, Received
  <2> QED
    BY <2>1, WorkStep, WorkEnvironment DEF BatchNext
<1> QED
  BY <1>1, <1>2, BatchInvariance, PTL DEF BatchSafetySpec

(* One cycle is enough: whatever else writes the tables and whichever      *)
(* requests and commits fail, the service goes to sleep only when it was   *)
(* told to stop in the middle of its range.                                *)
THEOREM BatchNeedsOneCycle == BatchSafetySpec => []BatchOneCycle
<1>1. BatchWorkInv => BatchOneCycle
  BY DEF BatchWorkInv
<1> QED
  BY <1>1, BatchWorkInvariance, PTL

-----------------------------------------------------------------------------
(* The measure of BatchWorkDrops.  A chunk is not empty, since there is a  *)
(* lowest block among those that are left.                                 *)
LEMMA LowestBlock ==
  ASSUME NEW a \in Int, NEW b \in Int, NEW S \in SUBSET (a .. b), S # {}
  PROVE  \E x \in S : \A y \in S : x <= y
<1> DEFINE less == OpToRel(<, Nat)
           T == {x - a : x \in S}
<1>1. IsWellFoundedOn(less, Nat)
  BY NatLessThanWellFounded
<1>2. \A x, y \in Nat : x < y => <<x, y>> \in less
  BY DEF OpToRel
<1>3. \A x \in S : x \in Int /\ x - a \in Nat /\ x - a \in T
  OBVIOUS
<1>4. T \subseteq Nat /\ T # {}
  BY <1>3
<1> HIDE DEF less
<1>5. PICK t \in T : \A u \in T : ~(<<u, t>> \in less)
  BY <1>1, <1>4, WFMin
<1>6. PICK x \in S : t = x - a
  OBVIOUS
<1>7. ASSUME NEW y \in S PROVE x <= y
  <2>1. ~(y - a < x - a)
    BY <1>2, <1>3, <1>4, <1>5, <1>6
  <2> QED
    BY <1>3, <2>1
<1> QED
  BY <1>7

LEMMA ChunkTaken ==
  ASSUME BatchInv, Filling
  PROVE  /\ IsFiniteSet(btodo) /\ Cardinality(btodo) \in Nat
         /\ btodo # {} =>
              /\ Cardinality(btodo \ NextChunk) \in Nat
              /\ Cardinality(btodo \ NextChunk) < Cardinality(btodo)
<1>1. bstart \in Int /\ bend \in Int /\ btodo \in SUBSET (bstart .. bend)
  BY DEF BatchInv, BatchTypeOK, FillInv
<1>2. IsFiniteSet(btodo) /\ Cardinality(btodo) \in Nat
  BY <1>1, FS_Interval, FS_Subset, FS_CardinalityType
<1>3. ASSUME btodo # {}
      PROVE  /\ Cardinality(btodo \ NextChunk) \in Nat
             /\ Cardinality(btodo \ NextChunk) < Cardinality(btodo)
  <2>1. PICK x \in btodo : \A y \in btodo : x <= y
    BY <1>1, <1>3, LowestBlock
  <2>2. {c \in btodo : c < x} = {}
    <3>1. ASSUME NEW c \in btodo PROVE ~(c < x)
      <4>1. c \in Int /\ x \in Int /\ x <= c
        BY <1>1, <2>1
      <4> QED
        BY <4>1
    <3> QED
      BY <3>1
  <2>3. x \in NextChunk
    BY <2>2, FS_EmptySet, ConfigAssumption DEF NextChunk
  <2>4. btodo \ NextChunk \in SUBSET btodo /\ btodo \ NextChunk # btodo
    BY <2>1, <2>3
  <2>5. /\ IsFiniteSet(btodo \ NextChunk)
        /\ Cardinality(btodo \ NextChunk) <= Cardinality(btodo)
        /\ Cardinality(btodo) # Cardinality(btodo \ NextChunk)
    BY <1>2, <2>4, FS_Subset
  <2>6. Cardinality(btodo \ NextChunk) \in Nat
    BY <2>5, FS_CardinalityType
  <2> QED
    BY <1>2, <2>5, <2>6
<1> QED
  BY <1>2, <1>3

LEMMA WorkType == BatchInv /\ BatchWorkInv => work \in Nat \X Nat \X Nat
<1> SUFFICES ASSUME BatchInv, BatchWorkInv
             PROVE  StageLeft \in Nat /\ BlocksLeft \in Nat /\ AttemptsLeft \in Nat
  BY DEF work
<1>1. BatchTypeOK /\ MaxRetries \in Nat
  BY ConfigAssumption DEF BatchInv
<1>2. StageLeft \in Nat
  BY DEF StageLeft
<1>3. BlocksLeft \in Nat
  BY <1>1, ChunkTaken DEF BlocksLeft, BatchTypeOK
<1>4. AttemptsLeft \in Nat
  BY <1>1 DEF AttemptsLeft, BatchTypeOK, BatchWorkInv, AtChunk
<1> QED
  BY <1>2, <1>3, <1>4

(* The steps to another stage of the cycle.                                *)
LEMMA StageDrops ==
  ASSUME BatchInv, BatchWorkInv,
         \/ BatchInitialRead \/ BatchLoop \/ BatchRead \/ BatchScanned
         \/ BatchProgress \/ BatchMark \/ BatchSleep
  PROVE  StageLeft' < StageLeft
<1>1. CASE BatchInitialRead
  BY <1>1 DEF BatchInitialRead, StageLeft, Filling
<1>2. CASE BatchLoop
  BY <1>2 DEF BatchLoop, StageLeft, Filling, storeVars
<1>3. CASE BatchRead
  BY <1>3 DEF BatchRead, BeginScan, BatchReturn, StageLeft, Filling
<1>4. CASE BatchScanned
  BY <1>4 DEF BatchScanned, StageLeft, Filling
<1>5. CASE BatchProgress
  BY <1>5 DEF BatchProgress, BatchReturn, StageLeft, Filling
<1>6. CASE BatchMark
  BY <1>6 DEF BatchMark, BatchReturn, StageLeft, Filling
<1>7. CASE BatchSleep
  <2>1. shouldTerminate' /\ bpc = "sleep" /\ bpc' = "loop"
    BY <1>7 DEF BatchSleep, BatchReturn, storeVars, BatchWorkInv, BatchOneCycle
  <2> QED
    BY <2>1 DEF StageLeft, Filling
<1> QED
  BY <1>1, <1>2, <1>3, <1>4, <1>5, <1>6, <1>7

(* A service that has ended has nothing left to do.                        *)
LEMMA EndDrops ==
  ASSUME bpc \in {"scan", "chunks", "retry", "fetch", "store", "backoff"},
         bpc' \in {"done", "failed", "panicked"}
  PROVE  StageLeft' < StageLeft
BY DEF StageLeft, Filling

LEMMA ScanDrops ==
  ASSUME BatchInv, BatchScan, bpc' # "failed"
  PROVE  StageLeft' = StageLeft /\ BlocksLeft' < BlocksLeft
<1> DEFINE last == IF bnext + ChunkSize - 1 < bend THEN bnext + ChunkSize - 1 ELSE bend
<1>1. /\ bpc = "scan" /\ bpc' = "scan" /\ bpass' = bpass /\ bend' = bend
      /\ bnext' = last + 1 /\ bnext <= bend
  BY DEF BatchScan, BatchReturn
<1>2. bnext \in Int /\ bend \in Int /\ last \in Int /\ bnext <= last
  BY <1>1, BatchConfigAssumption DEF BatchInv, BatchTypeOK
<1>3. BlocksLeft = bend - bnext + 1
  BY <1>1 DEF BlocksLeft
<1>4. BlocksLeft' = IF last + 1 <= bend THEN bend - last ELSE 0
  BY <1>1, <1>2 DEF BlocksLeft, Filling
<1>5. StageLeft' = StageLeft
  BY <1>1 DEF StageLeft
<1> HIDE DEF last
<1> QED
  BY <1>1, <1>2, <1>3, <1>4, <1>5

(* The steps at a chunk: the next attempt, or the chunk is taken off.      *)
LEMMA FillDrops ==
  ASSUME BatchInv, BatchWorkInv,
         BatchChunk \/ BatchRetry \/ BatchFetch \/ BatchStore \/ BatchBackoff,
         bpc' \notin {"scan", "failed", "panicked"}
  PROVE  /\ StageLeft' = StageLeft
         /\ \/ BlocksLeft' < BlocksLeft
            \/ BlocksLeft' = BlocksLeft /\ AttemptsLeft' < AttemptsLeft
<1>1. Filling /\ battempt \in Nat /\ MaxRetries \in Nat
  BY ConfigAssumption
     DEF BatchChunk, BatchRetry, BatchFetch, BatchStore, BatchBackoff, Filling,
         BatchInv, BatchTypeOK
<1>2. CASE BatchStore
  <2>1. bpc' = "chunks" /\ btodo' = btodo \ NextChunk /\ btodo # {}
    BY <1>2 DEF BatchStore, BatchReturn, BatchWorkInv, AtChunk
  <2>2. BlocksLeft = Cardinality(btodo) /\ BlocksLeft' = Cardinality(btodo \ NextChunk)
    BY <1>2, <2>1 DEF BatchStore, BlocksLeft, Filling
  <2>3. StageLeft' = StageLeft
    BY <1>2, <2>1 DEF BatchStore, StageLeft, Filling
  <2> QED
    BY <1>1, <2>1, <2>2, <2>3, ChunkTaken
<1>3. CASE BatchChunk \/ BatchRetry \/ BatchFetch \/ BatchBackoff
  <2>1. /\ btodo' = btodo
        /\ \/ bpc = "chunks" /\ bpc' = "retry" /\ battempt' = 0
           \/ bpc = "retry" /\ bpc' = "fetch" /\ battempt' = battempt
           \/ bpc = "fetch" /\ bpc' \in {"store", "backoff"} /\ battempt' = battempt
           \/ bpc = "backoff" /\ bpc' = "retry" /\ battempt' = battempt + 1
    BY <1>3 DEF BatchChunk, BatchRetry, BatchFetch, BatchBackoff, BeginScan, BatchReturn
  <2>2. BlocksLeft' = BlocksLeft
    BY <2>1 DEF BlocksLeft, Filling
  <2>3. StageLeft' = StageLeft
    BY <2>1 DEF StageLeft, Filling
  <2>4. AttemptsLeft' < AttemptsLeft
    BY <1>1, <2>1 DEF AttemptsLeft
  <2> QED
    BY <2>2, <2>3, <2>4
<1> QED
  BY <1>2, <1>3

LEMMA StepDrops ==
  ASSUME BatchInv, BatchWorkInv, BatchStep, work' \in Nat \X Nat \X Nat
  PROVE  WorkDrops
<1>1. CASE BatchScan
  <2>1. bpc = "scan"
    BY <1>1 DEF BatchScan
  <2> QED
    BY <1>1, <2>1, ScanDrops, EndDrops DEF WorkDrops
<1>2. CASE BatchChunk \/ BatchRetry \/ BatchFetch \/ BatchStore \/ BatchBackoff
  <2>1. bpc \in {"chunks", "retry", "fetch", "store", "backoff"}
    BY <1>2 DEF BatchChunk, BatchRetry, BatchFetch, BatchStore, BatchBackoff
  <2>2. bpc' = "scan" => bpc = "chunks" /\ bpass' = "check"
    BY <1>2 DEF BatchChunk, BatchRetry, BatchFetch, BatchStore, BatchBackoff, BeginScan,
       BatchReturn
  <2>3. bpc' = "scan" => StageLeft' < StageLeft
    BY <2>2 DEF StageLeft, Filling
  <2> QED
    BY <1>2, <2>1, <2>3, FillDrops, EndDrops DEF WorkDrops
<1>3. CASE ~(BatchScan \/ BatchChunk \/ BatchRetry \/ BatchFetch \/ BatchStore \/ BatchBackoff)
  BY <1>3, StageDrops DEF WorkDrops, BatchStep
<1> QED
  BY <1>1, <1>2, <1>3

(* Beside a running service only a termination request matters: it takes   *)
(* the loop to its end.                                                    *)
LEMMA OthersDrop ==
  ASSUME BatchInv, BatchWorkInv, BatchEnvironment, bpc # "down", bpc' # "down",
         work' \in Nat \X Nat \X Nat
  PROVE  WorkDrops \/ work' = work
<1>1. /\ UNCHANGED batchVars /\ shouldTerminate \in BOOLEAN /\ shouldTerminate' \in BOOLEAN
      /\ shouldTerminate => shouldTerminate'
  BY DEF BatchEnvironment, BatchPeerStep, BatchStartupStep, BatchProcessStep, BatchSpawn,
     BatchReturn, FinalizeBlock, CtrlC, BatchInv, BatchTypeOK, StoreTypeOK
<1>2. BlocksLeft' = BlocksLeft /\ AttemptsLeft' = AttemptsLeft
  BY <1>1 DEF batchVars, BlocksLeft, Filling, AttemptsLeft
<1>3. StageLeft' = StageLeft \/ StageLeft' < StageLeft
  BY <1>1 DEF batchVars, StageLeft, Filling
<1> QED
  BY <1>2, <1>3 DEF WorkDrops, work

(* The service takes finitely many steps, for every range, chunk size,     *)
(* batch size and number of retries and whatever fails: each lowers a      *)
(* measure that is well-founded and that nobody else raises.               *)
THEOREM BatchRunsOut == BatchSafetySpec => BatchWorkDrops
<1>1. BatchInv /\ BatchWorkInv /\ (work \in Nat \X Nat \X Nat)' /\ [BatchNext]_batchSpecVars
        => [/\ BatchStep => WorkDrops
            /\ bpc # "down" /\ bpc' # "down" => WorkDrops \/ work' = work]_batchSpecVars
  BY StepDrops, OthersDrop DEF BatchNext
<1> QED
  BY <1>1, BatchInvariance, BatchWorkInvariance, WorkType, PTL
     DEF BatchSafetySpec, BatchWorkDrops
=============================================================================
