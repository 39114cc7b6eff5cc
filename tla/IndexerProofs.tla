--------------------------- MODULE IndexerProofs ---------------------------
(***************************************************************************)
(* The composition, for every value of the constants: each step of the     *)
(* process is a step each service allows for, so what is proved of a       *)
(* service alone holds inside of the process; and it is a step of          *)
(* HeaderIndex, so no block is lost and the row is honest, across crashes  *)
(* and restarts.  The invariant joins those of the services with what the  *)
(* startup code knows between two of its transactions.                     *)
(***************************************************************************)
EXTENDS Indexer, QuickIndexerProofs, BatchIndexerProofs, IndexMetadataProofs

(* The bounds on what a service expects others to write are not binding.   *)
AnyRow == Cursors = Int \cup {NULL} /\ Watermarks = Nat

MainTypeOK ==
  /\ phase \in Phases
  /\ tip \in Nat /\ cursorFrom \in Int
  /\ router \in {"down", "up", "done", "failed"}
  /\ joined \in 0 .. 3
  /\ hasErrors \in BOOLEAN
  /\ exitCode \in {"none", "ok", "error", "crashed"}
  /\ skipped \subseteq Nat

(* Nothing is ahead of the chain.                                          *)
BoundInv ==
  /\ headers \subseteq Blocks /\ finalized \in Blocks
  /\ meta # NoRow => meta.latest <= finalized
  /\ tip <= finalized
  /\ faults <= MaxFaults

(* The services live exactly while the process is past its startup, which  *)
(* ends with a row; between the two transactions of a new database the row *)
(* is the one the first of them wrote.  The tip the startup code goes by   *)
(* is no older than a lagging node may answer.                             *)
StartInv ==
  /\ phase # "running" =>
       QuickIdle /\ BatchIdle /\ router = "down" /\ joined = 0
  /\ phase = "running" => qpc # "down" /\ bpc # "down"
  /\ phase \in {"cursor", "setup", "spawn", "running"} => meta # NoRow
  /\ phase = "insert" => meta = NoRow
  /\ phase \in {"lookup", "setup"} /\ meta # NoRow => meta.latest - MaxLag <= tip
  /\ phase = "cursor" =>
       /\ \E margin \in Margins : tip - margin <= cursorFrom
       /\ meta.latest = tip /\ meta.start = 0 /\ meta.backfilling
       /\ cursorFrom <= tip

(* A handle that was joined stays finished.                                *)
JoinInv ==
  /\ joined >= 2 => Finished(qpc)
  /\ joined = 3 => Finished(bpc)

(* NoBlockLost and FlagHonest, in the terms of this module.                *)
TablesInv ==
  meta # NoRow => /\ Unaccounted(headers, meta) \subseteq skipped
                  /\ ~meta.backfilling => BackfillRange(meta) \subseteq headers

IndexerInv ==
  /\ MainTypeOK /\ QuickInv /\ BatchInv
  /\ BoundInv /\ StartInv /\ JoinInv /\ TablesInv

LEMMA IndexerInitInv == Init => IndexerInv
<1> SUFFICES ASSUME Init PROVE IndexerInv
  OBVIOUS
<1>1. headers \subseteq Blocks /\ finalized \in Blocks /\ headers \in SUBSET Blocks
  BY StartupAssumption DEF Init
<1>2. QuickInv /\ BatchInv
  BY <1>1, QuickInitInv, BatchInitInv DEF Init, QuickInit, BatchInit
<1>3. TablesInv
  BY DEF Init, TablesInv, Index!FlagHonest, Index!Complete, Index!BackfillRange,
     Index!BackfillEnd, BackfillRange, BackfillEnd
<1>4. skipped \subseteq Nat
  <2>1. meta # NoRow => meta.latest \in Int
    BY InitialRowsAssumption DEF Init, MetaRow
  <2> QED
    BY <2>1 DEF Init, Unaccounted
<1>5. MainTypeOK
  <2>1. /\ phase = "down" /\ tip = 0 /\ cursorFrom = 0 /\ router = "down"
        /\ joined = 0 /\ exitCode = "none"
    BY DEF Init
  <2>2. hasErrors \in BOOLEAN
    BY DEF Init
  <2> QED
    BY <1>4, <2>1, <2>2 DEF MainTypeOK, Phases
<1>6. BoundInv
  BY <1>1, BoundAssumption DEF Init, BoundInv, Blocks
<1> QED
  BY <1>2, <1>3, <1>5, <1>6 DEF Init, IndexerInv, StartInv, JoinInv

-----------------------------------------------------------------------------
(* A step of any part of the program spends the budget of faults.          *)
LEMMA FaultSpends ==
  ASSUME faults \in Nat, faults <= MaxFaults
  PROVE  /\ UNCHANGED faults => FaultsElsewhere
         /\ \A kind : Fault(kind) => FaultsElsewhere
         /\ \A kind : \A ok \in BOOLEAN : Outcome(ok, kind) => FaultsElsewhere
BY BoundAssumption DEF FaultsElsewhere, Fault, Outcome

LEMMA TransactionSpends ==
  ASSUME faults \in Nat, faults <= MaxFaults,
         NEW h, NEW m, NEW ok \in BOOLEAN, Transaction(h, m, ok)
  PROVE  /\ FaultsElsewhere
         /\ \/ headers' = h /\ meta' = m
            \/ UNCHANGED <<headers, meta>>
BY FaultSpends DEF Transaction

LEMMA StoreHeadersSpends ==
  ASSUME faults \in Nat, faults <= MaxFaults,
         NEW new, NEW m, NEW ok \in BOOLEAN, StoreHeaders(new, m, ok)
  PROVE  /\ FaultsElsewhere
         /\ \/ headers' = headers \cup new /\ meta' = m
            \/ UNCHANGED <<headers, meta>>
<1>1. CASE Transaction(headers \cup new, m, ok)
  BY <1>1, TransactionSpends
<1>2. CASE UNCHANGED <<headers, meta, faults>>
  BY <1>2, FaultSpends
<1> QED
  BY <1>1, <1>2 DEF StoreHeaders

-----------------------------------------------------------------------------
(* What a step of the quick indexer does to the tables: nothing, or the    *)
(* blocks that follow the watermark become visible with it.                *)
Publishes ==
  \E n \in Blocks :
    /\ n > meta.latest /\ n <= finalized
    /\ meta.latest + 1 .. n \subseteq Blocks
    /\ headers' = headers \cup (meta.latest + 1 .. n)
    /\ meta' = [meta EXCEPT !.latest = n]

LEMMA QuickEffect ==
  ASSUME QuickInv, faults <= MaxFaults, QuickStep
  PROVE  /\ FaultsElsewhere /\ UNCHANGED <<finalized, shouldTerminate>>
         /\ Publishes \/ UNCHANGED <<headers, meta>>
         /\ qpc \notin {"down", "done", "failed"} /\ qpc' # "down"
<1>1. /\ faults \in Nat /\ qlast \in Int /\ qend \in Int /\ qbase \in Int
      /\ meta # NoRow => meta \in MetaRow
  BY DEF QuickInv, QuickTypeOK, StoreTypeOK
<1>2. CASE QuickStore
  <2>1. PICK ok \in BOOLEAN :
          StoreHeaders(Received(qanswer), [meta EXCEPT !.latest = qend], ok)
    BY <1>2 DEF QuickStore
  <2>2. /\ qpc = "store" /\ meta \in MetaRow
        /\ qbase <= qlast /\ qlast < qend /\ qend <= finalized
        /\ meta.latest = qlast \/ meta.latest = qend
        /\ Received(qanswer) = qlast + 1 .. qend
        /\ Received(qanswer) \subseteq Blocks
        /\ qbase + 1 .. meta.latest \subseteq headers
    BY <1>1, <1>2 DEF QuickStore, QuickInv, RangeInv, InRange, AnswerInv,
       QuickContiguous
  <2>3. /\ FaultsElsewhere
        /\ \/ /\ headers' = headers \cup Received(qanswer)
              /\ meta' = [meta EXCEPT !.latest = qend]
           \/ UNCHANGED <<headers, meta>>
    BY <1>1, <2>1, StoreHeadersSpends
  <2>4. ASSUME headers' = headers \cup Received(qanswer),
               meta' = [meta EXCEPT !.latest = qend]
        PROVE  Publishes \/ UNCHANGED <<headers, meta>>
    <3>1. CASE meta.latest = qlast
      <4>1. qend \in Received(qanswer)
        BY <1>1, <2>2
      <4> QED
        BY <1>1, <2>2, <2>4, <3>1, <4>1 DEF Publishes
    <3>2. CASE meta.latest = qend
      <4>1. Received(qanswer) \subseteq headers
        BY <1>1, <2>2, <3>2
      <4>2. meta' = meta
        BY <2>2, <2>4, <3>2 DEF MetaRow
      <4> QED
        BY <2>4, <4>1, <4>2
    <3> QED
      BY <2>2, <3>1, <3>2
  <2> QED
    BY <1>2, <2>2, <2>3, <2>4 DEF QuickStore
<1>3. CASE ~QuickStore
  <2>1. FaultsElsewhere
    BY <1>1, <1>3, FaultSpends
       DEF QuickStep, QuickLoop, QuickRead, QuickPoll, QuickPollFails, QuickPolled,
           QuickSleep, QuickRetry, QuickFetch, Honest, QuickVerify, QuickBackoff,
           Query, storeVars
  <2> QED
    BY <1>3, <2>1
       DEF QuickStep, QuickLoop, QuickRead, QuickPoll, QuickPollFails, QuickPolled,
           QuickSleep, QuickRetry, QuickFetch, QuickVerify, QuickBackoff,
           QuickReturn, storeVars
<1> QED
  BY <1>2, <1>3

(* What a step of the batch indexer does to the tables: nothing, or blocks *)
(* of the range become stored, or a complete range is reported.            *)
Fills ==
  /\ meta' = meta
  /\ \E found \in SUBSET Blocks : /\ found \subseteq BackfillRange(meta)
                                  /\ headers' = headers \cup found

Reports ==
  /\ headers' = headers
  /\ BackfillRange(meta) \subseteq headers
  /\ \/ /\ meta.start <= BackfillEnd(meta)
        /\ meta' = [meta EXCEPT !.cursor = meta.start]
     \/ meta' = [meta EXCEPT !.backfilling = FALSE]

LEMMA BatchEffect ==
  ASSUME BatchInv, faults <= MaxFaults, BatchStep
  PROVE  /\ FaultsElsewhere /\ UNCHANGED <<finalized, shouldTerminate>>
         /\ Fills \/ Reports \/ UNCHANGED <<headers, meta>>
         /\ bpc \notin {"down", "done", "failed", "panicked"} /\ bpc' # "down"
<1>1. /\ faults \in Nat /\ bstart \in Int /\ bend \in Int
      /\ meta # NoRow => meta \in MetaRow
  BY DEF BatchInv, BatchTypeOK, StoreTypeOK
<1>2. CASE BatchStore
  <2>1. PICK ok \in BOOLEAN : StoreHeaders(Received(banswer), meta, ok)
    BY <1>2 DEF BatchStore
  <2>2. /\ meta \in MetaRow /\ meta.start = bstart /\ bend <= BackfillEnd(meta)
        /\ Received(banswer) \subseteq bstart .. bend
        /\ Received(banswer) \subseteq Blocks
    BY <1>1, <1>2 DEF BatchStore, BatchInv, CycleInv, InCycle, Filling, FillInv
  <2>3. Received(banswer) \subseteq BackfillRange(meta)
    BY <1>1, <2>2 DEF BackfillRange, BackfillEnd, MetaRow
  <2>4. /\ FaultsElsewhere
        /\ \/ headers' = headers \cup Received(banswer) /\ meta' = meta
           \/ UNCHANGED <<headers, meta>>
    BY <1>1, <2>1, StoreHeadersSpends
  <2>5. Fills \/ UNCHANGED <<headers, meta>>
    BY <2>2, <2>3, <2>4 DEF Fills
  <2> QED
    BY <1>2, <2>4, <2>5 DEF BatchStore, BatchReturn
<1>3. ASSUME BatchProgress \/ BatchMark
      PROVE  meta \in MetaRow /\ BackfillRange(meta) \subseteq headers
  BY <1>1, <1>3 DEF BatchProgress, BatchMark, BatchInv, CycleInv, InCycle, ReportInv
<1>4. CASE BatchProgress
  <2>1. PICK ok \in BOOLEAN : Transaction(headers, [meta EXCEPT !.cursor = bstart], ok)
    BY <1>4 DEF BatchProgress
  <2>2. /\ FaultsElsewhere
        /\ \/ headers' = headers /\ meta' = [meta EXCEPT !.cursor = bstart]
           \/ UNCHANGED <<headers, meta>>
    BY <1>1, <2>1, TransactionSpends
  <2>3. BackfillEnd(meta) \in Int
    BY <1>3, <1>4 DEF BackfillEnd, MetaRow
  <2>4. meta.start = bstart /\ meta.start <= BackfillEnd(meta)
    BY <1>1, <1>4, <2>3 DEF BatchProgress, BatchInv, CycleInv, InCycle, ReportInv
  <2>5. Reports \/ UNCHANGED <<headers, meta>>
    BY <1>3, <1>4, <2>2, <2>4 DEF Reports
  <2> QED
    BY <1>4, <2>2, <2>5 DEF BatchProgress, BatchReturn
<1>5. CASE BatchMark
  <2>1. PICK ok \in BOOLEAN :
          Transaction(headers, [meta EXCEPT !.backfilling = FALSE], ok)
    BY <1>5 DEF BatchMark
  <2>2. /\ FaultsElsewhere
        /\ \/ headers' = headers /\ meta' = [meta EXCEPT !.backfilling = FALSE]
           \/ UNCHANGED <<headers, meta>>
    BY <1>1, <2>1, TransactionSpends
  <2>3. Reports \/ UNCHANGED <<headers, meta>>
    BY <1>3, <1>5, <2>2 DEF Reports
  <2> QED
    BY <1>5, <2>2, <2>3 DEF BatchMark, BatchReturn
<1>6. CASE ~BatchStore /\ ~BatchProgress /\ ~BatchMark
  <2>1. FaultsElsewhere
    BY <1>1, <1>6, FaultSpends
       DEF BatchStep, BatchInitialRead, BatchLoop, BatchRead, BatchScan, BatchScanned,
           BatchChunk, BatchRetry, BatchFetch, Honest, BatchBackoff, BatchSleep,
           Query, storeVars
  <2> QED
    BY <1>6, <2>1
       DEF BatchStep, BatchInitialRead, BatchLoop, BatchRead, BeginScan, BatchScan,
           BatchScanned, BatchChunk, BatchRetry, BatchFetch, BatchBackoff, BatchSleep,
           BatchReturn, storeVars
<1> QED
  BY <1>2, <1>4, <1>5, <1>6

-----------------------------------------------------------------------------
(* The distances below the head at which a range to backfill may end.      *)
LEMMA MarginsType == 1 \in Margins /\ Margins \subseteq Nat
<1>1. StartOffsets \ {NULL} \subseteq Nat
  BY StartupAssumption
<1>2. {1, SafetyOffset} \subseteq Nat
  BY StartupAssumption
<1> QED
  BY <1>1, <1>2 DEF Margins

(* What a startup write does to the tables: nothing, or the row claims the *)
(* blocks up to a finalized one, and what it leaves outside of the range   *)
(* to backfill is noted as skipped.                                        *)
Claim(row) ==
  /\ row \in MetaRow
  /\ row.latest \in Blocks /\ row.latest <= finalized
  /\ meta # NoRow => row.latest >= meta.latest
  /\ row.latest = IF meta # NoRow /\ meta.latest > tip THEN meta.latest ELSE tip
  /\ meta # NoRow => meta.latest - MaxLag <= tip
  /\ row.cursor # NULL => \E margin \in Margins : tip - margin <= row.cursor
  /\ row.start = 0 /\ row.backfilling = TRUE
  /\ row.cursor # NULL => row.cursor <= row.latest

Claims ==
  /\ headers' = headers
  /\ skipped' = Unaccounted(headers, meta')
  /\ \E row \in MetaRow : Claim(row) /\ meta' = row

LEMMA StartWriteEffect ==
  ASSUME IndexerInv, NEW row, NEW next, StartWrite(row, next)
  PROVE  /\ FaultsElsewhere /\ UNCHANGED <<finalized, shouldTerminate, tip>>
         /\ headers' = headers
         /\ meta' \in {meta, row}
         /\ meta' = meta => skipped' = skipped
         /\ meta' # meta /\ meta' # NoRow
              => skipped' = Unaccounted(headers, meta')
         /\ phase' \in {next, "down"}
         /\ phase' = next /\ next # "down" => meta' = row
         /\ UNCHANGED <<quickVars, batchVars, router, joined, hasErrors>>
         /\ exitCode' \in {exitCode, "error"}
<1>1. faults \in Nat /\ faults <= MaxFaults
  BY DEF IndexerInv, QuickInv, QuickTypeOK, StoreTypeOK, BoundInv
<1>2. PICK ok \in BOOLEAN : Transaction(headers, row, ok) /\ Advance(ok, next)
  BY DEF StartWrite
<1>3. /\ FaultsElsewhere /\ headers' = headers /\ meta' \in {meta, row}
      /\ ok => meta' = row
  BY <1>1, <1>2, TransactionSpends DEF Transaction
<1>4. meta' = meta => skipped' = skipped
  BY <1>3 DEF StartWrite, RecordSkipped, IndexerInv, TablesInv
<1>5. meta' # meta /\ meta' # NoRow
        => skipped' = Unaccounted(headers, meta')
  BY <1>3 DEF StartWrite, RecordSkipped
<1> QED
  BY <1>2, <1>3, <1>4, <1>5 DEF StartWrite, Advance

StartWrites == StartInsert \/ StartCursor \/ StartSetup

LEMMA ClaimEffect ==
  ASSUME IndexerInv, NEW row, NEW next, StartWrite(row, next), Claim(row)
  PROVE  Claims \/ UNCHANGED <<headers, meta, skipped>>
<1>1. row \in MetaRow /\ row # NoRow
  BY NoRowAssumption DEF Claim
<1>2. /\ headers' = headers /\ meta' \in {meta, row}
      /\ meta' = meta => skipped' = skipped
      /\ meta' # meta => skipped' = Unaccounted(headers, meta')
  BY <1>1, StartWriteEffect
<1>3. CASE meta' = meta
  BY <1>2, <1>3
<1>4. CASE meta' # meta
  BY <1>1, <1>2, <1>4 DEF Claims
<1> QED
  BY <1>3, <1>4

LEMMA StartWritesEffect ==
  ASSUME IndexerInv, StartWrites
  PROVE  /\ FaultsElsewhere /\ UNCHANGED <<finalized, shouldTerminate, tip>>
         /\ Claims \/ UNCHANGED <<headers, meta, skipped>>
         /\ UNCHANGED <<quickVars, batchVars, router, joined, hasErrors>>
         /\ exitCode' \in {exitCode, "error"} /\ cursorFrom' \in Int
         /\ phase \in {"insert", "cursor", "setup"}
         /\ phase' \in {"cursor", "reread", "spawn", "down"}
         /\ phase' = "spawn" => meta' # NoRow
         /\ phase' = "cursor" =>
              /\ meta' # NoRow /\ meta'.latest = tip /\ meta'.start = 0
              /\ meta'.backfilling /\ cursorFrom' <= tip
              /\ \E margin \in Margins : tip - margin <= cursorFrom'
<1>1. /\ tip \in Nat /\ tip \in Blocks /\ tip <= finalized /\ cursorFrom \in Int
      /\ finalized \in Nat
      /\ meta # NoRow => meta \in MetaRow /\ meta.latest \in Int
      /\ Margins \subseteq Nat
  <2>1. /\ MainTypeOK /\ BoundInv /\ finalized \in Nat
        /\ meta \in MetaRow \cup {NoRow}
    BY DEF IndexerInv, QuickInv, QuickTypeOK, StoreTypeOK
  <2>2. tip \in Nat /\ cursorFrom \in Int
    BY <2>1 DEF MainTypeOK
  <2>3. tip <= finalized /\ tip \in Blocks
    BY <2>1, <2>2, BoundAssumption DEF BoundInv, Blocks
  <2>4. Margins \subseteq Nat
    BY MarginsType
  <2> QED
    BY <2>1, <2>2, <2>3, <2>4 DEF MetaRow
<1>2. CASE StartInsert
  <2>1. PICK offset \in StartOffsets :
          LET from == backfill_from_new(offset)
          IN  /\ StartWrite([latest |-> tip, start |-> 0,
                             backfilling |-> TRUE, cursor |-> NULL],
                            IF from > 0 THEN "cursor" ELSE "reread")
              /\ cursorFrom' = IF phase' = "cursor" THEN from ELSE 0
    BY <1>2 DEF StartInsert
  <2> DEFINE row == [latest |-> tip, start |-> 0, backfilling |-> TRUE, cursor |-> NULL]
             from == backfill_from_new(offset)
             next == IF from > 0 THEN "cursor" ELSE "reread"
  <2>2. StartWrite(row, next) /\ cursorFrom' = IF phase' = "cursor" THEN from ELSE 0
    BY <2>1
  <2>3. from \in Int /\ from <= tip
    BY <1>1, StartupAssumption DEF backfill_from_new
  <2>10. from > 0 => \E margin \in Margins : tip - margin <= from
    BY <1>1, StartupAssumption DEF backfill_from_new, Margins
  <2>4. phase = "insert" /\ meta = NoRow
    BY <1>2 DEF StartInsert, IndexerInv, StartInv
  <2>5. /\ row \in MetaRow
        /\ row.latest = tip /\ row.start = 0 /\ row.cursor = NULL
    BY <1>1 DEF MetaRow
  <2>6. row.backfilling = TRUE
    OBVIOUS
  <2> HIDE DEF row, from
  <2>7. Claim(row)
    BY <1>1, <2>4, <2>5, <2>6 DEF Claim
  <2>8. row # NoRow
    BY <2>5, NoRowAssumption
  <2>9. Claims \/ UNCHANGED <<headers, meta, skipped>>
    BY <2>2, <2>7, ClaimEffect
  <2> QED
    BY <2>2, <2>3, <2>4, <2>5, <2>6, <2>8, <2>9, <2>10, StartWriteEffect
<1>3. CASE StartCursor
  <2> DEFINE row == [meta EXCEPT !.cursor = cursorFrom]
  <2>1. StartWrite(row, "reread") /\ cursorFrom' = 0 /\ phase = "cursor"
    BY <1>3 DEF StartCursor
  <2>2. /\ meta # NoRow /\ meta.latest = tip /\ meta.start = 0
        /\ meta.backfilling /\ cursorFrom <= tip
        /\ \E margin \in Margins : tip - margin <= cursorFrom
    BY <2>1 DEF IndexerInv, StartInv
  <2>3. Claim(row)
    BY <1>1, <2>2, BoundAssumption DEF Claim, MetaRow
  <2> HIDE DEF row
  <2>4. Claims \/ UNCHANGED <<headers, meta, skipped>>
    BY <2>1, <2>3, ClaimEffect
  <2> QED
    BY <2>1, <2>4, StartWriteEffect
<1>4. CASE StartSetup
  <2>1. PICK offset \in StartOffsets :
          StartWrite([latest |-> IF tip > meta.latest THEN tip ELSE meta.latest,
                      start |-> 0, backfilling |-> TRUE,
                      cursor |-> backfill_from_existing(offset)], "spawn")
    BY <1>4 DEF StartSetup
  <2> DEFINE latest == IF tip > meta.latest THEN tip ELSE meta.latest
             cursor == backfill_from_existing(offset)
             row == [latest |-> latest, start |-> 0, backfilling |-> TRUE,
                     cursor |-> cursor]
  <2>2. /\ meta # NoRow /\ meta.latest <= finalized /\ phase = "setup"
        /\ UNCHANGED cursorFrom /\ meta.latest - MaxLag <= tip
    BY <1>4 DEF StartSetup, IndexerInv, StartInv, BoundInv
  <2>3. latest \in Blocks /\ latest <= finalized /\ latest >= meta.latest
    BY <1>1, <2>2, BoundAssumption DEF Blocks, IndexerInv, BoundInv
  <2>4. cursor \in Int /\ cursor <= latest
    BY <1>1, <2>2, StartupAssumption DEF backfill_from_existing
  <2>5. StartWrite(row, "spawn")
    BY <2>1
  <2>11. \E margin \in Margins : tip - margin <= cursor
    BY <1>1, StartupAssumption DEF backfill_from_existing, Margins
  <2>12. latest = IF meta # NoRow /\ meta.latest > tip THEN meta.latest ELSE tip
    BY <1>1, <2>2
  <2> HIDE DEF latest, cursor
  <2>6. /\ row \in MetaRow
        /\ row.latest = latest /\ row.start = 0 /\ row.cursor = cursor
    BY <2>3, <2>4 DEF MetaRow, Blocks
  <2>7. row.backfilling = TRUE
    OBVIOUS
  <2> HIDE DEF row
  <2>8. Claim(row)
    BY <2>2, <2>3, <2>4, <2>6, <2>7, <2>11, <2>12 DEF Claim
  <2>9. row # NoRow
    BY <2>6, NoRowAssumption
  <2>10. Claims \/ UNCHANGED <<headers, meta, skipped>>
    BY <2>5, <2>8, ClaimEffect
  <2> QED
    BY <1>1, <2>2, <2>5, <2>9, <2>10, StartWriteEffect
<1> QED
  BY <1>2, <1>3, <1>4 DEF StartWrites

-----------------------------------------------------------------------------
(* The steps that leave the tables alone.                                  *)
Quiet == StartProcess \/ StartTip \/ StartLookup \/ StartReread

LEMMA QuietEffect ==
  ASSUME IndexerInv, Quiet
  PROVE  /\ FaultsElsewhere /\ shouldTerminate' \in {shouldTerminate, FALSE}
         /\ UNCHANGED <<headers, meta, finalized, skipped>>
         /\ UNCHANGED <<quickVars, batchVars, router, joined, hasErrors>>
         /\ tip' \in Nat /\ tip' <= finalized /\ cursorFrom' \in Int
         /\ exitCode' \in {exitCode, "error"}
         /\ phase \in {"down", "tip", "lookup", "reread"}
         /\ phase' \in {"down", "tip", "lookup", "insert", "setup", "spawn"}
         /\ phase' \in {"setup", "spawn"} => meta # NoRow
         /\ phase' = "insert" => meta = NoRow
         /\ phase' \in {"lookup", "setup"} /\ meta # NoRow => meta.latest - MaxLag <= tip'
<1>1. /\ faults \in Nat /\ faults <= MaxFaults /\ finalized \in Nat
      /\ tip \in Nat /\ tip <= finalized /\ cursorFrom \in Int
      /\ meta # NoRow => meta.latest \in Int /\ meta.latest <= finalized
      /\ phase = "lookup" /\ meta # NoRow => meta.latest - MaxLag <= tip
  BY DEF IndexerInv, MainTypeOK, BoundInv, StartInv, QuickInv, QuickTypeOK, StoreTypeOK,
     MetaRow
<1>2. FaultsElsewhere
  BY <1>1, FaultSpends DEF Quiet, StartProcess, StartTip, StartLookup, StartReread, Query
<1>3. CASE StartTip
  <2>1. PICK ok \in BOOLEAN, answer \in TipAnswers :
          /\ tip' = IF ok THEN answer ELSE 0
          /\ Advance(ok, "lookup")
    BY <1>3 DEF StartTip
  <2>2. answer \in Nat /\ answer <= finalized /\ finalized - MaxLag <= answer
    BY <1>1 DEF TipAnswers
  <2>3. phase' \in {"lookup", "setup"} /\ meta # NoRow => meta.latest - MaxLag <= tip'
    BY <1>1, <2>1, <2>2, BoundAssumption DEF Advance
  <2> QED
    BY <1>1, <1>2, <1>3, <2>1, <2>2, <2>3 DEF StartTip, Advance
<1>4. CASE StartProcess \/ StartLookup \/ StartReread
  BY <1>1, <1>2, <1>4 DEF StartProcess, StartLookup, StartReread, Advance
<1> QED
  BY <1>3, <1>4 DEF Quiet

Supervision == RouterStop \/ RouterFail \/ JoinNext

LEMMA SupervisionEffect ==
  ASSUME IndexerInv, Supervision
  PROVE  /\ FaultsElsewhere
         /\ UNCHANGED <<headers, meta, finalized, shouldTerminate, skipped>>
         /\ UNCHANGED <<quickVars, batchVars, phase, tip, cursorFrom, exitCode>>
         /\ phase = "running"
         /\ router' \in {"down", "up", "done", "failed"}
         /\ joined' \in 0 .. 3 /\ hasErrors' \in BOOLEAN /\ JoinInv'
<1>1. faults \in Nat /\ faults <= MaxFaults
  BY DEF IndexerInv, BoundInv, QuickInv, QuickTypeOK, StoreTypeOK
<1>2. FaultsElsewhere
  BY <1>1, FaultSpends DEF Supervision, RouterStop, RouterFail, JoinNext, storeVars
<1>3. MainTypeOK /\ JoinInv /\ StartInv
  BY DEF IndexerInv
<1>4. CASE JoinNext
  <2>1. /\ joined' = joined + 1 /\ joined \in 0 .. 2
        /\ Finished(handles[joined + 1]) /\ UNCHANGED <<quickVars, batchVars>>
    BY <1>3, <1>4 DEF JoinNext, MainTypeOK
  <2>2. joined' \in 0 .. 3
    BY <2>1
  <2>3. joined = 1 => Finished(qpc)
    BY <2>1 DEF handles
  <2>4. joined = 2 => Finished(bpc)
    BY <2>1 DEF handles
  <2>5. joined >= 2 => Finished(qpc)
    BY <1>3 DEF JoinInv
  <2>6. qpc' = qpc /\ bpc' = bpc
    BY <2>1 DEF quickVars, batchVars
  <2>7. /\ joined' >= 2 => Finished(qpc')
        /\ joined' = 3 => Finished(bpc')
    BY <2>1, <2>3, <2>4, <2>5, <2>6
  <2>8. JoinInv'
    BY <2>7 DEF JoinInv, Finished
  <2>9. hasErrors' \in BOOLEAN
    BY <1>4 DEF JoinNext
  <2>10. router' = router
    BY <1>4 DEF JoinNext
  <2> QED
    BY <1>2, <1>3, <1>4, <2>2, <2>8, <2>9, <2>10 DEF JoinNext, storeVars, MainTypeOK
<1>5. CASE RouterStop \/ RouterFail
  <2>1. JoinInv'
    BY <1>3, <1>5 DEF RouterStop, RouterFail, JoinInv, Finished, quickVars, batchVars
  <2>2. hasErrors' \in BOOLEAN
    BY <1>3, <1>5 DEF RouterStop, RouterFail, MainTypeOK
  <2> QED
    BY <1>2, <1>3, <1>5, <2>1, <2>2
       DEF RouterStop, RouterFail, storeVars, StartInv, MainTypeOK
<1> QED
  BY <1>4, <1>5 DEF Supervision

(* The process ends only by itself, its services having ended, or crashes. *)
Ends == Exit \/ Crash

LEMMA EndsEffect ==
  ASSUME IndexerInv, Ends
  PROVE  /\ FaultsElsewhere
         /\ UNCHANGED <<headers, meta, finalized, shouldTerminate, skipped>>
         /\ QuickKill /\ BatchReturn("down")
         /\ (~QuickRunning /\ ~BatchRunning) \/ "crash" \in Faults
         /\ phase' = "down" /\ tip' = 0 /\ cursorFrom' = 0
         /\ router' = "down" /\ joined' = 0 /\ hasErrors' = FALSE
         /\ exitCode' \in {"ok", "error", "crashed"}
<1>1. faults \in Nat /\ faults <= MaxFaults
  BY DEF IndexerInv, BoundInv, QuickInv, QuickTypeOK, StoreTypeOK
<1>2. FaultsElsewhere
  BY <1>1, FaultSpends DEF Ends, Exit, Crash, storeVars
<1>3. Exit => ~QuickRunning /\ ~BatchRunning
  BY DEF Exit, IndexerInv, JoinInv, Finished, QuickRunning, BatchRunning,
     QuickInv, QuickTypeOK, QuickPCs
<1>4. Crash => "crash" \in Faults
  BY DEF Crash, Fault
<1> QED
  BY <1>2, <1>3, <1>4 DEF Ends, Exit, Crash, ProcessEnds, storeVars

QuickMoves == QuickStep /\ UNCHANGED <<batchVars, mainVars>>
BatchMoves == BatchStep /\ UNCHANGED <<quickVars, mainVars>>
WorldMoves == /\ FinalizeBlock \/ CtrlC
              /\ UNCHANGED <<quickVars, batchVars, mainVars>>

LEMMA NextCases ==
  ASSUME Next
  PROVE  \/ Quiet \/ StartWrites \/ StartSpawn \/ Supervision \/ Ends
         \/ QuickMoves \/ BatchMoves \/ WorldMoves
BY DEF Next, Startup, StartDatabase, Services, Supervise, Operator, Quiet, StartWrites,
   Supervision, Ends, QuickMoves, BatchMoves, WorldMoves

-----------------------------------------------------------------------------
(* What the quick indexer sees of a step: its own, or one of those its     *)
(* environment may take.                                                   *)
LEMMA QuickView ==
  ASSUME AnyRow, IndexerInv, Next PROVE QuickNext
<1>1. /\ faults \in Nat /\ faults <= MaxFaults
      /\ meta # NoRow => meta \in MetaRow
      /\ StartInv /\ QuickInv /\ BatchInv
  BY DEF IndexerInv, BoundInv, QuickInv, QuickTypeOK, StoreTypeOK
<1>2. CASE Quiet
  <2>1. qpc = "down"
    BY <1>1, <1>2, QuietEffect DEF StartInv, QuickIdle
  <2> QED
    BY <1>2, <2>1, QuietEffect DEF QuickStartupStep, QuickNext, QuickEnvironment
<1>3. CASE StartWrites
  <2>1. qpc = "down"
    BY <1>1, <1>3, StartWritesEffect DEF StartInv, QuickIdle
  <2>2. Claims => \E latest \in Blocks, flag \in BOOLEAN, cursor \in Cursors :
          meta' = [latest |-> latest, start |-> 0,
                   backfilling |-> flag, cursor |-> cursor]
    <3> SUFFICES ASSUME Claims
                 PROVE  \E latest \in Blocks, flag \in BOOLEAN, cursor \in Cursors :
                          meta' = [latest |-> latest, start |-> 0,
                                   backfilling |-> flag, cursor |-> cursor]
      OBVIOUS
    <3>1. /\ meta' \in MetaRow /\ meta'.latest \in Blocks /\ meta'.start = 0
      BY DEF Claims, Claim
    <3>2. meta'.backfilling \in BOOLEAN /\ meta'.cursor \in Cursors
      BY <3>1, AnyRow DEF AnyRow, MetaRow
    <3>3. meta' = [latest |-> meta'.latest, start |-> 0,
                   backfilling |-> meta'.backfilling, cursor |-> meta'.cursor]
      BY <3>1 DEF MetaRow
    <3> QED
      BY <3>1, <3>2, <3>3
  <2>3. /\ FaultsElsewhere /\ UNCHANGED <<headers, finalized, quickVars>>
        /\ shouldTerminate' = shouldTerminate
        /\ Claims \/ UNCHANGED meta
    BY <1>3, StartWritesEffect DEF Claims
  <2> QED
    BY <2>1, <2>2, <2>3 DEF QuickStartupStep, QuickNext, QuickEnvironment
<1>4. CASE StartSpawn
  <2>1. UNCHANGED storeVars /\ QuickSpawn
    BY <1>4 DEF StartSpawn
  <2>2. FaultsElsewhere
    BY <1>1, <2>1, FaultSpends DEF storeVars
  <2> QED
    BY <2>1, <2>2 DEF storeVars, QuickProcessStep, QuickNext, QuickEnvironment
<1>5. CASE Supervision
  <2>1. /\ FaultsElsewhere
        /\ UNCHANGED <<headers, meta, finalized, shouldTerminate, quickVars>>
        /\ phase = "running"
    BY <1>5, SupervisionEffect
  <2>2. meta \in MetaRow /\ meta # NoRow
    BY <1>1, <2>1 DEF StartInv
  <2>3. /\ meta.backfilling \in BOOLEAN /\ meta.cursor \in Cursors
        /\ meta' = [meta EXCEPT !.backfilling = meta.backfilling, !.cursor = meta.cursor]
    BY <2>1, <2>2, AnyRow DEF AnyRow, MetaRow
  <2>4. headers' = headers \cup {} /\ {} \in SUBSET Blocks
    BY <2>1
  <2> QED
    BY <2>1, <2>2, <2>3, <2>4 DEF QuickPeerStep, QuickNext, QuickEnvironment
<1>6. CASE Ends
  <2>1. /\ FaultsElsewhere /\ QuickKill
        /\ UNCHANGED <<headers, meta, finalized, shouldTerminate>>
        /\ QuickRunning => "crash" \in Faults
    BY <1>6, EndsEffect
  <2>2. CASE qpc # "down"
    BY <2>1, <2>2 DEF QuickProcessStep, QuickNext, QuickEnvironment
  <2>3. CASE qpc = "down"
    <3>1. QuickIdle
      BY <1>1, <2>3 DEF StartInv
    <3>2. UNCHANGED quickVars
      BY <2>1, <3>1 DEF QuickIdle, QuickKill, quickVars
    <3> QED
      BY <2>1, <2>3, <3>2 DEF QuickStartupStep, QuickNext, QuickEnvironment
  <2> QED
    BY <2>2, <2>3
<1>7. CASE QuickMoves
  BY <1>7 DEF QuickMoves, QuickNext
<1>8. CASE BatchMoves
  <2>1. /\ FaultsElsewhere /\ UNCHANGED <<finalized, shouldTerminate>>
        /\ Fills \/ Reports \/ UNCHANGED <<headers, meta>>
        /\ bpc # "down" /\ UNCHANGED quickVars
    BY <1>1, <1>8, BatchEffect DEF BatchMoves
  <2>2. meta \in MetaRow /\ meta # NoRow
    BY <1>1, <2>1 DEF StartInv, BatchIdle
  <2>3. \E new \in SUBSET Blocks : headers' = headers \cup new
    <3>1. headers' = headers => headers' = headers \cup {}
      OBVIOUS
    <3> QED
      BY <2>1, <3>1 DEF Fills, Reports
  <2>4. \E flag \in BOOLEAN, cursor \in Cursors :
          meta' = [meta EXCEPT !.backfilling = flag, !.cursor = cursor]
    <3>1. /\ meta.backfilling \in BOOLEAN /\ meta.cursor \in Cursors
          /\ meta.start \in Cursors
      BY <2>2, AnyRow DEF AnyRow, MetaRow
    <3>2. meta = [meta EXCEPT !.backfilling = meta.backfilling, !.cursor = meta.cursor]
      BY <2>2 DEF MetaRow
    <3>3. [meta EXCEPT !.cursor = meta.start]
            = [meta EXCEPT !.backfilling = meta.backfilling, !.cursor = meta.start]
      BY <2>2 DEF MetaRow
    <3>4. [meta EXCEPT !.backfilling = FALSE]
            = [meta EXCEPT !.backfilling = FALSE, !.cursor = meta.cursor]
      BY <2>2 DEF MetaRow
    <3> QED
      BY <2>1, <3>1, <3>2, <3>3, <3>4 DEF Fills, Reports
  <2> QED
    BY <2>1, <2>2, <2>3, <2>4 DEF QuickPeerStep, QuickNext, QuickEnvironment
<1>9. CASE WorldMoves
  BY <1>9 DEF WorldMoves, QuickNext, QuickEnvironment
<1> QED
  BY <1>2, <1>3, <1>4, <1>5, <1>6, <1>7, <1>8, <1>9, NextCases

(* What the batch indexer sees of a step.                                  *)
LEMMA BatchView ==
  ASSUME AnyRow, IndexerInv, Next PROVE BatchNext
<1>1. /\ faults \in Nat /\ faults <= MaxFaults
      /\ meta # NoRow => meta \in MetaRow
      /\ StartInv /\ QuickInv /\ BatchInv
  BY DEF IndexerInv, BoundInv, QuickInv, QuickTypeOK, StoreTypeOK
<1>2. CASE Quiet
  <2>1. bpc = "down"
    BY <1>1, <1>2, QuietEffect DEF StartInv, BatchIdle
  <2> QED
    BY <1>2, <2>1, QuietEffect DEF BatchStartupStep, BatchNext, BatchEnvironment
<1>3. CASE StartWrites
  <2>1. bpc = "down"
    BY <1>1, <1>3, StartWritesEffect DEF StartInv, BatchIdle
  <2>2. Claims => \E w \in Watermarks, flag \in BOOLEAN, cursor \in Cursors :
          meta' = [latest |-> w, start |-> 0,
                   backfilling |-> flag, cursor |-> cursor]
    <3> SUFFICES ASSUME Claims
                 PROVE  \E w \in Watermarks, flag \in BOOLEAN, cursor \in Cursors :
                          meta' = [latest |-> w, start |-> 0,
                                   backfilling |-> flag, cursor |-> cursor]
      OBVIOUS
    <3>1. /\ meta' \in MetaRow /\ meta'.latest \in Blocks /\ meta'.start = 0
      BY DEF Claims, Claim
    <3>2. /\ meta'.latest \in Watermarks /\ meta'.backfilling \in BOOLEAN
          /\ meta'.cursor \in Cursors
      BY <3>1, AnyRow, BoundAssumption DEF AnyRow, MetaRow, Blocks
    <3>3. meta' = [latest |-> meta'.latest, start |-> 0,
                   backfilling |-> meta'.backfilling, cursor |-> meta'.cursor]
      BY <3>1 DEF MetaRow
    <3> QED
      BY <3>1, <3>2, <3>3
  <2>3. /\ FaultsElsewhere /\ UNCHANGED <<headers, finalized, batchVars>>
        /\ shouldTerminate' = shouldTerminate
        /\ Claims \/ UNCHANGED meta
    BY <1>3, StartWritesEffect DEF Claims
  <2> QED
    BY <2>1, <2>2, <2>3 DEF BatchStartupStep, BatchNext, BatchEnvironment
<1>4. CASE StartSpawn
  <2>1. UNCHANGED storeVars /\ BatchSpawn
    BY <1>4 DEF StartSpawn
  <2>2. FaultsElsewhere
    BY <1>1, <2>1, FaultSpends DEF storeVars
  <2> QED
    BY <2>1, <2>2 DEF storeVars, BatchProcessStep, BatchNext, BatchEnvironment
<1>5. CASE Supervision
  <2>1. /\ FaultsElsewhere
        /\ UNCHANGED <<headers, meta, finalized, shouldTerminate, batchVars>>
        /\ meta # NoRow
    BY <1>1, <1>5, SupervisionEffect DEF StartInv
  <2> QED
    BY <2>1 DEF BatchPeerStep, BatchNext, BatchEnvironment
<1>6. CASE Ends
  <2>1. /\ FaultsElsewhere /\ BatchReturn("down")
        /\ UNCHANGED <<headers, meta, finalized, shouldTerminate>>
        /\ BatchRunning => "crash" \in Faults
    BY <1>6, EndsEffect
  <2>2. CASE bpc # "down"
    BY <2>1, <2>2 DEF BatchProcessStep, BatchNext, BatchEnvironment
  <2>3. CASE bpc = "down"
    <3>1. BatchIdle
      BY <1>1, <2>3 DEF StartInv
    <3>2. UNCHANGED batchVars
      BY <2>1, <3>1 DEF BatchIdle, BatchReturn, batchVars
    <3> QED
      BY <2>1, <2>3, <3>2 DEF BatchStartupStep, BatchNext, BatchEnvironment
  <2> QED
    BY <2>2, <2>3
<1>7. CASE QuickMoves
  <2>1. /\ FaultsElsewhere /\ UNCHANGED <<finalized, shouldTerminate, batchVars>>
        /\ Publishes \/ UNCHANGED <<headers, meta>>
        /\ qpc # "down"
    BY <1>1, <1>7, QuickEffect DEF QuickMoves
  <2>2. meta # NoRow
    BY <1>1, <2>1 DEF StartInv, QuickIdle
  <2>3. Publishes => \E w \in Watermarks :
                       /\ w > meta.latest
                       /\ headers' = headers \cup (meta.latest + 1 .. w)
                       /\ meta' = [meta EXCEPT !.latest = w]
    BY AnyRow, BoundAssumption DEF AnyRow, Publishes, Blocks
  <2> QED
    BY <2>1, <2>2, <2>3 DEF BatchPeerStep, BatchNext, BatchEnvironment
<1>8. CASE BatchMoves
  BY <1>8 DEF BatchMoves, BatchNext
<1>9. CASE WorldMoves
  BY <1>9 DEF WorldMoves, BatchNext, BatchEnvironment
<1> QED
  BY <1>2, <1>3, <1>4, <1>5, <1>6, <1>7, <1>8, <1>9, NextCases

-----------------------------------------------------------------------------
(* What the tables go through, in the steps of HeaderIndex.                *)
LEMMA TablesView ==
  ASSUME IndexerInv, Next PROVE Index!Next \/ UNCHANGED Index!indexVars
<1>1. /\ faults \in Nat /\ faults <= MaxFaults /\ finalized \in Nat
      /\ meta # NoRow => meta \in MetaRow
      /\ StartInv /\ QuickInv /\ BatchInv
  BY DEF IndexerInv, BoundInv, QuickInv, QuickTypeOK, StoreTypeOK
<1>2. CASE Quiet \/ Supervision \/ Ends
  BY <1>2, QuietEffect, SupervisionEffect, EndsEffect DEF Index!indexVars
<1>3. CASE StartSpawn
  BY <1>3 DEF StartSpawn, storeVars, Index!indexVars
<1>4. CASE StartWrites
  <2>1. finalized' = finalized /\ (Claims \/ UNCHANGED <<headers, meta, skipped>>)
    BY <1>4, StartWritesEffect
  <2>2. ASSUME Claims PROVE Index!Claim
    <3>1. /\ meta' \in MetaRow /\ meta'.latest \in 0 .. finalized
          /\ meta # NoRow => meta'.latest >= meta.latest
          /\ meta'.start = 0 /\ meta'.backfilling = TRUE
          /\ meta'.cursor # NULL => meta'.cursor <= meta'.latest
          /\ headers' = headers
          /\ skipped' = Unaccounted(headers, meta')
      BY <1>1, <2>2, BoundAssumption DEF Claims, Claim, Blocks
    <3>2. /\ tip \in 0 .. finalized /\ 1 \in Margins /\ Margins \subseteq Nat
          /\ meta # NoRow => meta.latest - MaxLag <= tip
          /\ meta'.latest = IF meta # NoRow /\ meta.latest > tip THEN meta.latest ELSE tip
          /\ meta'.cursor # NULL => \E margin \in Margins : tip - margin <= meta'.cursor
      BY <1>1, <2>2, MarginsType DEF Claims, Claim, IndexerInv, MainTypeOK, BoundInv
    <3>3. \E margin \in Margins : \A n \in Unaccounted(headers, meta') : n > tip - margin
      <4>1. CASE meta'.cursor = NULL
        BY <3>1, <3>2, <4>1 DEF Unaccounted, BackfillRange, BackfillEnd
      <4>2. CASE meta'.cursor # NULL
        <5>1. PICK margin \in Margins : tip - margin <= meta'.cursor
          BY <3>2, <4>2
        <5>2. meta'.cursor \in Int
          BY <3>1, <4>2 DEF MetaRow
        <5>3. \A n \in Unaccounted(headers, meta') : n \in Int /\ n > meta'.cursor
          BY <3>1, <4>2, <5>2 DEF Unaccounted, BackfillRange, BackfillEnd
        <5>4. \A n \in Unaccounted(headers, meta') : n > tip - margin
          BY <3>2, <5>1, <5>2, <5>3
        <5> QED
          BY <5>4
      <4> QED
        BY <4>1, <4>2
    <3>4. BackfillEnd(meta') <= meta'.latest
      BY <1>1, <3>1 DEF BackfillEnd
    <3> QED
      BY <2>1, <3>1, <3>2, <3>3, <3>4
         DEF Index!Claim, Index!MetaRow, MetaRow, Index!BackfillEnd, BackfillEnd,
             Index!BackfillRange, BackfillRange, Index!Unaccounted, Unaccounted
  <2> QED
    BY <2>1, <2>2 DEF Index!Next, Index!indexVars
<1>5. CASE QuickMoves
  <2>1. /\ UNCHANGED <<finalized, skipped>>
        /\ Publishes \/ UNCHANGED <<headers, meta>>
        /\ qpc # "down"
    BY <1>1, <1>5, QuickEffect DEF QuickMoves, mainVars
  <2>2. meta \in MetaRow /\ meta # NoRow
    BY <1>1, <2>1 DEF StartInv, QuickIdle
  <2>3. ASSUME Publishes PROVE Index!Publish
    <3>1. PICK n \in Blocks :
            /\ n > meta.latest /\ n <= finalized
            /\ headers' = headers \cup (meta.latest + 1 .. n)
            /\ meta' = [meta EXCEPT !.latest = n]
      BY <2>3 DEF Publishes
    <3>2. n \in meta.latest + 1 .. finalized
      BY <1>1, <2>2, <3>1 DEF Blocks, MetaRow
    <3> QED
      BY <2>1, <2>2, <3>1, <3>2 DEF Index!Publish
  <2> QED
    BY <2>1, <2>3 DEF Index!Next, Index!indexVars
<1>6. CASE BatchMoves
  <2>1. /\ UNCHANGED <<finalized, skipped>>
        /\ Fills \/ Reports \/ UNCHANGED <<headers, meta>>
        /\ bpc # "down"
    BY <1>1, <1>6, BatchEffect DEF BatchMoves, mainVars
  <2>2. meta \in MetaRow /\ meta # NoRow
    BY <1>1, <2>1 DEF StartInv, BatchIdle
  <2>3. Fills => Index!Fill
    BY <2>1, <2>2 DEF Fills, Index!Fill, Index!BackfillRange, BackfillRange,
       Index!BackfillEnd, BackfillEnd
  <2>4. Reports => Index!Report
    BY <2>1, <2>2 DEF Reports, Index!Report, Index!Complete, Index!BackfillRange,
       BackfillRange, Index!BackfillEnd, BackfillEnd
  <2> QED
    BY <2>1, <2>3, <2>4 DEF Index!Next, Index!indexVars
<1>7. CASE WorldMoves
  BY <1>1, <1>7 DEF WorldMoves, FinalizeBlock, CtrlC, mainVars, Index!Next,
     Index!Extend, Index!indexVars
<1> QED
  BY <1>2, <1>3, <1>4, <1>5, <1>6, <1>7, NextCases

-----------------------------------------------------------------------------
(* No step loses a block or makes the row claim too much.                  *)
LEMMA TablesKept == ASSUME IndexerInv, Next PROVE TablesInv'
<1>1. /\ faults \in Nat /\ faults <= MaxFaults
      /\ meta # NoRow => meta \in MetaRow
      /\ StartInv /\ QuickInv /\ BatchInv /\ TablesInv
  BY DEF IndexerInv, BoundInv, QuickInv, QuickTypeOK, StoreTypeOK
<1>2. CASE UNCHANGED <<headers, meta, skipped>>
  BY <1>1, <1>2 DEF TablesInv
<1>3. CASE StartWrites
  <2>1. Claims \/ UNCHANGED <<headers, meta, skipped>>
    BY <1>3, StartWritesEffect
  <2>2. Claims => TablesInv'
    BY DEF Claims, Claim, TablesInv
  <2> QED
    BY <1>2, <2>1, <2>2
<1>4. CASE QuickMoves
  <2>1. /\ skipped' = skipped /\ qpc # "down"
        /\ Publishes \/ UNCHANGED <<headers, meta>>
    BY <1>1, <1>4, QuickEffect DEF QuickMoves, mainVars
  <2>2. meta \in MetaRow /\ meta # NoRow
    BY <1>1, <2>1 DEF StartInv, QuickIdle
  <2>3. ASSUME Publishes PROVE TablesInv'
    <3>1. PICK n \in Blocks :
            /\ n > meta.latest
            /\ headers' = headers \cup (meta.latest + 1 .. n)
            /\ meta' = [meta EXCEPT !.latest = n]
      BY <2>3 DEF Publishes
    <3>2. n \in Int
      BY DEF Blocks
    <3>3. meta'.latest = n /\ meta'.backfilling = meta.backfilling /\ meta.latest \in Int
      BY <2>2, <3>1, <3>2, AdvanceRow
    <3>4. /\ BackfillRange(meta) \subseteq BackfillRange(meta')
          /\ BackfillRange(meta') \subseteq BackfillRange(meta) \cup (meta.latest + 1 .. n)
      BY <2>2, <3>1, <3>2, AdvanceRange
    <3>5. Unaccounted(headers', meta') \subseteq Unaccounted(headers, meta)
      BY <2>2, <3>1, <3>2, <3>3, <3>4 DEF Unaccounted
    <3> QED
      BY <1>1, <2>1, <2>2, <3>1, <3>3, <3>4, <3>5 DEF TablesInv
  <2> QED
    BY <1>2, <2>1, <2>3
<1>5. CASE BatchMoves
  <2>1. /\ skipped' = skipped /\ bpc # "down"
        /\ Fills \/ Reports \/ UNCHANGED <<headers, meta>>
    BY <1>1, <1>5, BatchEffect DEF BatchMoves, mainVars
  <2>2. meta \in MetaRow /\ meta # NoRow
    BY <1>1, <2>1 DEF StartInv, BatchIdle
  <2>3. Fills => TablesInv'
    BY <1>1, <2>1, <2>2 DEF Fills, TablesInv, Unaccounted
  <2>4. ASSUME Reports PROVE TablesInv'
    <3>1. /\ headers' = headers /\ BackfillRange(meta) \subseteq headers
      BY <2>4 DEF Reports
    <3>2. BackfillRange(meta') \subseteq headers
      BY <2>2, <2>4, ProgressKeeps, MarkKeeps DEF Reports
    <3>3. Unaccounted(headers, meta') \subseteq Unaccounted(headers, meta)
      BY <2>2, <2>4, ProgressKeeps, MarkKeeps DEF Reports
    <3> QED
      BY <1>1, <2>1, <2>2, <3>1, <3>2, <3>3 DEF TablesInv
  <2> QED
    BY <1>2, <2>1, <2>3, <2>4
<1>6. ~(StartWrites \/ QuickMoves \/ BatchMoves) => UNCHANGED <<headers, meta, skipped>>
  BY NextCases, QuietEffect, SupervisionEffect, EndsEffect
     DEF StartSpawn, WorldMoves, FinalizeBlock, CtrlC, storeVars, mainVars
<1> QED
  BY <1>2, <1>3, <1>4, <1>5, <1>6

(* No step gets ahead of the chain.                                        *)
LEMMA BoundKept == ASSUME IndexerInv, Next PROVE BoundInv'
<1>1. /\ faults \in Nat /\ faults <= MaxFaults /\ finalized \in Nat
      /\ meta # NoRow => meta \in MetaRow /\ meta.latest \in Int
      /\ StartInv /\ QuickInv /\ BatchInv /\ BoundInv /\ tip \in Nat
  BY DEF IndexerInv, BoundInv, QuickInv, QuickTypeOK, StoreTypeOK, MetaRow, MainTypeOK
<1>2. FaultsElsewhere => faults' <= MaxFaults
  BY <1>1, BoundAssumption DEF FaultsElsewhere
<1>3. CASE Quiet \/ Supervision \/ Ends
  <2>1. FaultsElsewhere /\ UNCHANGED <<headers, meta, finalized>>
    BY <1>3, QuietEffect, SupervisionEffect, EndsEffect
  <2>2. Quiet => tip' <= finalized
    BY QuietEffect
  <2>3. Supervision => tip' = tip
    BY SupervisionEffect
  <2>4. Ends => tip' = 0
    BY EndsEffect
  <2>5. tip' <= finalized
    BY <1>1, <1>3, <2>2, <2>3, <2>4 DEF BoundInv
  <2> QED
    BY <1>1, <1>2, <2>1, <2>5 DEF BoundInv
<1>4. CASE StartSpawn
  BY <1>1, <1>4 DEF StartSpawn, storeVars, BoundInv
<1>5. CASE StartWrites
  <2>1. /\ FaultsElsewhere /\ UNCHANGED <<finalized, tip>>
        /\ Claims \/ UNCHANGED <<headers, meta>>
    BY <1>5, StartWritesEffect
  <2>2. Claims => headers' = headers /\ meta'.latest <= finalized
    BY DEF Claims, Claim
  <2> QED
    BY <1>1, <1>2, <2>1, <2>2 DEF BoundInv
<1>6. CASE QuickMoves
  <2>1. /\ FaultsElsewhere /\ UNCHANGED <<finalized, tip>>
        /\ Publishes \/ UNCHANGED <<headers, meta>>
        /\ qpc # "down"
    BY <1>1, <1>6, QuickEffect DEF QuickMoves, mainVars
  <2>2. meta \in MetaRow /\ meta # NoRow
    BY <1>1, <2>1 DEF StartInv, QuickIdle
  <2>3. ASSUME Publishes
        PROVE  headers' \subseteq Blocks /\ (meta' # NoRow => meta'.latest <= finalized)
    <3>1. PICK n \in Blocks :
            /\ n > meta.latest /\ n <= finalized
            /\ meta.latest + 1 .. n \subseteq Blocks
            /\ headers' = headers \cup (meta.latest + 1 .. n)
            /\ meta' = [meta EXCEPT !.latest = n]
      BY <2>3 DEF Publishes
    <3>2. meta'.latest = n
      BY <2>2, <3>1 DEF MetaRow
    <3> QED
      BY <1>1, <3>1, <3>2 DEF BoundInv
  <2> QED
    BY <1>1, <1>2, <2>1, <2>3 DEF BoundInv
<1>7. CASE BatchMoves
  <2>1. /\ FaultsElsewhere /\ UNCHANGED <<finalized, tip>>
        /\ Fills \/ Reports \/ UNCHANGED <<headers, meta>>
        /\ bpc # "down"
    BY <1>1, <1>7, BatchEffect DEF BatchMoves, mainVars
  <2>2. meta \in MetaRow /\ meta # NoRow
    BY <1>1, <2>1 DEF StartInv, BatchIdle
  <2>3. headers' \subseteq Blocks
    BY <1>1, <2>1 DEF Fills, Reports, BoundInv
  <2>4. meta'.latest = meta.latest
    BY <2>1, <2>2 DEF Fills, Reports, MetaRow
  <2> QED
    BY <1>1, <1>2, <2>1, <2>2, <2>3, <2>4 DEF BoundInv
<1>8. CASE WorldMoves
  <2>1. /\ UNCHANGED <<headers, meta, faults, tip>>
        /\ \/ finalized' = finalized
           \/ finalized < MaxBlock /\ finalized' = finalized + 1
    BY <1>8 DEF WorldMoves, FinalizeBlock, CtrlC, mainVars
  <2>2. finalized' \in Blocks /\ finalized <= finalized'
    BY <1>1, <2>1, BoundAssumption DEF BoundInv, Blocks
  <2>3. finalized' \in Nat
    BY <1>1, <2>1
  <2>4. /\ meta # NoRow => meta.latest <= finalized'
        /\ tip <= finalized'
    BY <1>1, <2>2, <2>3 DEF BoundInv
  <2> QED
    BY <1>1, <2>1, <2>2, <2>4 DEF BoundInv
<1> QED
  BY <1>3, <1>4, <1>5, <1>6, <1>7, <1>8, NextCases

(* The variables of the process keep their types.                          *)
LEMMA MainKept == ASSUME IndexerInv, Next PROVE MainTypeOK'
<1>1. /\ MainTypeOK /\ meta \in MetaRow \cup {NoRow}
  BY DEF IndexerInv, QuickInv, QuickTypeOK, StoreTypeOK
<1>2. CASE Quiet
  BY <1>1, <1>2, QuietEffect DEF MainTypeOK, Phases
<1>3. CASE StartWrites
  <2>1. Claims => skipped' \subseteq Nat
    <3>1. Claims => meta'.latest \in Int /\ skipped' = Unaccounted(headers, meta')
      BY DEF Claims, Claim, MetaRow
    <3>2. ASSUME NEW m, m.latest \in Int PROVE Unaccounted(headers, m) \subseteq Nat
      BY <3>2 DEF Unaccounted
    <3>3. skipped \subseteq Nat
      BY <1>1 DEF MainTypeOK
    <3>4. Claims => Unaccounted(headers, meta') \subseteq Nat
      BY <3>1, <3>2
    <3> QED
      BY <3>1, <3>3, <3>4
  <2>2. hasErrors' \in BOOLEAN /\ skipped' \subseteq Nat
    BY <1>1, <1>3, <2>1, StartWritesEffect DEF MainTypeOK
  <2> QED
    BY <1>1, <1>3, <2>2, StartWritesEffect DEF MainTypeOK, Phases
<1>4. CASE StartSpawn
  <2>1. hasErrors' \in BOOLEAN
    BY <1>1, <1>4 DEF StartSpawn, MainTypeOK
  <2> QED
    BY <1>1, <1>4, <2>1 DEF StartSpawn, MainTypeOK, Phases
<1>5. CASE Supervision
  <2>1. hasErrors' \in BOOLEAN
    BY <1>5, SupervisionEffect
  <2> QED
    BY <1>1, <1>5, <2>1, SupervisionEffect DEF MainTypeOK
<1>6. CASE Ends
  <2>1. hasErrors' \in BOOLEAN
    BY <1>6, EndsEffect
  <2>2. /\ phase' = "down" /\ tip' = 0 /\ cursorFrom' = 0 /\ router' = "down"
        /\ joined' = 0 /\ exitCode' \in {"ok", "error", "crashed"}
        /\ skipped' = skipped
    BY <1>6, EndsEffect
  <2> QED
    BY <1>1, <2>1, <2>2 DEF MainTypeOK, Phases
<1>7. CASE QuickMoves \/ BatchMoves \/ WorldMoves
  BY <1>1, <1>7 DEF QuickMoves, BatchMoves, WorldMoves, mainVars, MainTypeOK
<1> QED
  BY <1>2, <1>3, <1>4, <1>5, <1>6, <1>7, NextCases

LEMMA StartKept == ASSUME IndexerInv, Next PROVE StartInv'
<1>1. /\ faults <= MaxFaults /\ StartInv /\ QuickInv /\ BatchInv
      /\ meta \in MetaRow \cup {NoRow} /\ JoinInv
  BY DEF IndexerInv, BoundInv, QuickInv, QuickTypeOK, StoreTypeOK
<1>2. CASE Quiet
  <2>1. QuickIdle' /\ BatchIdle'
    BY <1>1, <1>2, QuietEffect
       DEF StartInv, QuickIdle, BatchIdle, quickVars, batchVars, NoAnswers, NoHeaders
  <2> QED
    BY <1>1, <1>2, <2>1, QuietEffect DEF StartInv
<1>3. CASE StartWrites
  <2>1. QuickIdle' /\ BatchIdle'
    BY <1>1, <1>3, StartWritesEffect
       DEF StartInv, QuickIdle, BatchIdle, quickVars, batchVars, NoAnswers, NoHeaders
  <2> QED
    BY <1>1, <1>3, <2>1, StartWritesEffect DEF StartInv
<1>4. CASE StartSpawn
  BY <1>1, <1>4 DEF StartSpawn, QuickSpawn, BatchSpawn, storeVars, StartInv
<1>5. CASE Supervision
  BY <1>1, <1>5, SupervisionEffect DEF StartInv, quickVars, batchVars
<1>6. CASE Ends
  <2>1. QuickIdle' /\ BatchIdle'
    BY <1>6, EndsEffect DEF QuickKill, BatchReturn, QuickIdle, BatchIdle,
       NoAnswers, NoHeaders
  <2> QED
    BY <1>1, <1>6, <2>1, EndsEffect DEF StartInv
<1>7. CASE QuickMoves
  <2>1. /\ UNCHANGED <<batchVars, mainVars>> /\ qpc # "down" /\ qpc' # "down"
        /\ Publishes \/ UNCHANGED <<headers, meta>>
    BY <1>1, <1>7, QuickEffect DEF QuickMoves
  <2>2. phase = "running" /\ phase' = "running" /\ bpc' # "down" /\ meta # NoRow
    BY <1>1, <2>1 DEF StartInv, QuickIdle, batchVars, mainVars
  <2>3. meta' # NoRow
    <3>1. ASSUME NEW n \in Blocks, meta' = [meta EXCEPT !.latest = n]
          PROVE  meta' \in MetaRow
      BY <1>1, <2>2, <3>1 DEF MetaRow, Blocks
    <3> QED
      BY <2>1, <2>2, <3>1, NoRowAssumption DEF Publishes
  <2> QED
    BY <2>1, <2>2, <2>3 DEF StartInv
<1>8. CASE BatchMoves
  <2>1. /\ UNCHANGED <<quickVars, mainVars>> /\ bpc # "down" /\ bpc' # "down"
        /\ Fills \/ Reports \/ UNCHANGED <<headers, meta>>
    BY <1>1, <1>8, BatchEffect DEF BatchMoves
  <2>2. phase = "running" /\ phase' = "running" /\ qpc' # "down" /\ meta # NoRow
    BY <1>1, <2>1 DEF StartInv, BatchIdle, quickVars, mainVars
  <2>3. meta' # NoRow
    <3>1. Reports => meta' \in MetaRow
      BY <1>1, <2>2, ProgressKeeps, MarkKeeps DEF Reports
    <3> QED
      BY <2>1, <2>2, <3>1, NoRowAssumption DEF Fills
  <2> QED
    BY <2>1, <2>2, <2>3 DEF StartInv
<1>9. CASE WorldMoves
  BY <1>1, <1>9
     DEF WorldMoves, FinalizeBlock, CtrlC, quickVars, batchVars, mainVars, StartInv,
         QuickIdle, BatchIdle, NoAnswers, NoHeaders
<1> QED
  BY <1>2, <1>3, <1>4, <1>5, <1>6, <1>7, <1>8, <1>9, NextCases

LEMMA JoinKept == ASSUME IndexerInv, Next PROVE JoinInv'
<1>1. faults <= MaxFaults /\ StartInv /\ JoinInv /\ QuickInv /\ BatchInv
  BY DEF IndexerInv, BoundInv
<1>2. CASE Supervision
  BY <1>2, SupervisionEffect
<1>3. CASE Quiet \/ StartWrites \/ WorldMoves
  <2>1. UNCHANGED <<joined, qpc, bpc>>
    BY <1>3, QuietEffect, StartWritesEffect
       DEF WorldMoves, quickVars, batchVars, mainVars
  <2> QED
    BY <1>1, <2>1 DEF JoinInv, Finished
<1>4. CASE StartSpawn
  BY <1>1, <1>4 DEF StartSpawn, StartInv, JoinInv
<1>5. CASE Ends
  BY <1>5, EndsEffect DEF JoinInv
<1>6. CASE QuickMoves
  <2>1. /\ joined' = joined /\ bpc' = bpc
        /\ qpc \notin {"down", "done", "failed"}
    BY <1>1, <1>6, QuickEffect DEF QuickMoves, batchVars, mainVars
  <2>2. ~Finished(qpc)
    BY <1>1, <2>1 DEF Finished, QuickInv, QuickTypeOK, QuickPCs
  <2> QED
    BY <1>1, <2>1, <2>2 DEF JoinInv, Finished
<1>7. CASE BatchMoves
  <2>1. /\ joined' = joined /\ qpc' = qpc /\ ~Finished(bpc)
    BY <1>1, <1>7, BatchEffect DEF BatchMoves, quickVars, mainVars, Finished
  <2> QED
    BY <1>1, <2>1 DEF JoinInv, Finished
<1> QED
  BY <1>2, <1>3, <1>4, <1>5, <1>6, <1>7, NextCases

-----------------------------------------------------------------------------
LEMMA IndexerStep ==
  ASSUME AnyRow, IndexerInv, [Next]_vars PROVE IndexerInv'
<1>1. CASE Next
  <2>1. QuickNext /\ BatchNext
    BY <1>1, QuickView, BatchView
  <2>2. QuickInv' /\ BatchInv'
    BY <2>1, QuickNextInv, BatchNextInv DEF IndexerInv
  <2>3. /\ MainTypeOK' /\ BoundInv' /\ StartInv' /\ JoinInv' /\ TablesInv'
    BY <1>1, MainKept, BoundKept, StartKept, JoinKept, TablesKept
  <2> QED
    BY <2>2, <2>3 DEF IndexerInv
<1>2. CASE UNCHANGED vars
  <2>1. /\ UNCHANGED <<headers, meta, finalized, shouldTerminate, faults>>
        /\ UNCHANGED <<quickVars, batchVars>>
        /\ UNCHANGED <<phase, tip, cursorFrom, router, joined, hasErrors, exitCode,
                       skipped>>
    BY <1>2 DEF vars, storeVars, mainVars
  <2>2. QuickInv'
    BY <2>1, QuickNextInv DEF IndexerInv, quickSpecVars, storeVars
  <2>3. BatchInv'
    BY <2>1, BatchNextInv DEF IndexerInv, batchSpecVars, storeVars
  <2>4. MainTypeOK' /\ BoundInv' /\ TablesInv'
    BY <2>1 DEF IndexerInv, MainTypeOK, BoundInv, TablesInv
  <2>5. StartInv' /\ JoinInv'
    BY <2>1 DEF IndexerInv, StartInv, JoinInv, Finished, QuickIdle, BatchIdle,
       NoAnswers, NoHeaders, quickVars, batchVars
  <2> QED
    BY <2>2, <2>3, <2>4, <2>5 DEF IndexerInv
<1> QED
  BY <1>1, <1>2

LEMMA IndexerInvariance == ASSUME AnyRow PROVE SafetySpec => []IndexerInv
<1>1. Init => IndexerInv
  BY IndexerInitInv
<1>2. IndexerInv /\ [Next]_vars => IndexerInv'
  BY AnyRow, IndexerStep
<1> QED
  BY <1>1, <1>2, PTL DEF SafetySpec

-----------------------------------------------------------------------------
(* Every variable of the process keeps to its type, for any node, any      *)
(* faults and any row an earlier process may have left.                    *)
THEOREM IndexerTypeCorrect == ASSUME AnyRow PROVE SafetySpec => []TypeOK
<1>1. IndexerInv => TypeOK
  <2> SUFFICES ASSUME IndexerInv PROVE TypeOK
    OBVIOUS
  <2>1. QuickTypeOK /\ BatchTypeOK /\ MainTypeOK
    BY DEF IndexerInv, QuickInv, BatchInv
  <2> QED
    BY <2>1 DEF TypeOK, MainTypeOK
<1> QED
  BY <1>1, IndexerInvariance, AnyRow, PTL

(* No block up to the watermark falls out of the reach of both services:   *)
(* not by their concurrent writes to the row, not by a crash between the   *)
(* INSERT and the cursor's update, not by a lost acknowledgement.          *)
THEOREM IndexerLosesNoBlock == ASSUME AnyRow PROVE SafetySpec => []NoBlockLost
<1>1. IndexerInv => NoBlockLost
  BY DEF IndexerInv, TablesInv, NoBlockLost, Index!NoBlockLost, Index!Unaccounted,
     Unaccounted, Index!BackfillRange, BackfillRange, Index!BackfillEnd, BackfillEnd
<1> QED
  BY <1>1, IndexerInvariance, AnyRow, PTL

(* is_backfilling is FALSE only while the range it describes is stored,    *)
(* although the quick indexer moves the end of that range when the cursor  *)
(* is NULL.                                                                *)
THEOREM IndexerFlagHonest == ASSUME AnyRow PROVE SafetySpec => []FlagHonest
<1>1. IndexerInv => FlagHonest
  BY DEF IndexerInv, TablesInv, FlagHonest, Index!FlagHonest, Index!Complete,
     Index!BackfillRange, BackfillRange, Index!BackfillEnd, BackfillEnd
<1> QED
  BY <1>1, IndexerInvariance, AnyRow, PTL

(* The startup code, the batch indexer, a crash and a restart do to the    *)
(* quick indexer only what its own specification allows for.               *)
THEOREM IndexerKeepsToQuick == ASSUME AnyRow PROVE SafetySpec => RespectsQuickIndexer
<1>1. Init => QuickInit
  BY StartupAssumption DEF Init, QuickInit
<1>2. IndexerInv /\ [Next]_vars => [QuickNext]_quickSpecVars
  <2>1. UNCHANGED vars => UNCHANGED quickSpecVars
    BY DEF vars, quickSpecVars
  <2> QED
    BY <2>1, AnyRow, QuickView
<1> QED
  BY <1>1, <1>2, IndexerInvariance, AnyRow, PTL
     DEF SafetySpec, RespectsQuickIndexer, QuickSafetySpec

(* The same of the batch indexer, so what is proved of either service      *)
(* alone holds inside of the process.                                      *)
THEOREM IndexerKeepsToBatch == ASSUME AnyRow PROVE SafetySpec => RespectsBatchIndexer
<1>1. Init => BatchInit
  BY StartupAssumption DEF Init, BatchInit
<1>2. IndexerInv /\ [Next]_vars => [BatchNext]_batchSpecVars
  <2>1. UNCHANGED vars => UNCHANGED batchSpecVars
    BY DEF vars, batchSpecVars
  <2> QED
    BY <2>1, AnyRow, BatchView
<1> QED
  BY <1>1, <1>2, IndexerInvariance, AnyRow, PTL
     DEF SafetySpec, RespectsBatchIndexer, BatchSafetySpec

(* The process implements HeaderIndex: its startup, its two services and   *)
(* its failures change the tables only as the abstract specification does. *)
THEOREM IndexerImplementsIndex ==
  ASSUME AnyRow PROVE SafetySpec => ImplementsHeaderIndex
<1>1. Init => Index!Init
  <2> SUFFICES ASSUME Init PROVE Index!Init
    OBVIOUS
  <2>1. headers \subseteq Nat /\ finalized \in Nat
    BY BoundAssumption DEF Init, Blocks
  <2>2. skipped = IF meta = NoRow THEN {} ELSE Index!Unaccounted(headers, meta)
    BY DEF Init, Index!Unaccounted, Unaccounted, Index!BackfillRange, BackfillRange,
       Index!BackfillEnd, BackfillEnd
  <2> QED
    BY <2>1, <2>2 DEF Init, Index!Init
<1>2. IndexerInv /\ [Next]_vars => [Index!Next]_Index!indexVars
  <2>1. UNCHANGED vars => UNCHANGED Index!indexVars
    BY DEF vars, storeVars, mainVars, Index!indexVars
  <2> QED
    BY <2>1, TablesView
<1> QED
  BY <1>1, <1>2, IndexerInvariance, AnyRow, PTL
     DEF SafetySpec, ImplementsHeaderIndex, Index!Spec

(* The watermark readers see never moves back, whichever of the startup    *)
(* code and the two services writes the row, and across restarts.          *)
THEOREM IndexerWatermarkMonotone ==
  ASSUME AnyRow PROVE SafetySpec => WatermarkMonotone
<1> DEFINE NotBack == meta # NoRow => meta' # NoRow /\ meta'.latest >= meta.latest
<1>1. ASSUME IndexerInv, Next, meta # NoRow
      PROVE  meta' # NoRow /\ meta'.latest >= meta.latest
  <2>1. /\ meta \in MetaRow /\ meta.latest \in Int
        /\ faults <= MaxFaults /\ QuickInv /\ BatchInv
    BY <1>1 DEF IndexerInv, BoundInv, QuickInv, QuickTypeOK, StoreTypeOK, MetaRow
  <2>2. CASE meta' = meta
    BY <1>1, <2>1, <2>2
  <2>3. CASE StartWrites /\ meta' # meta
    <3>1. Claims
      BY <1>1, <2>3, StartWritesEffect
    <3> QED
      BY <1>1, <3>1, NoRowAssumption DEF Claims, Claim
  <2>4. CASE QuickMoves /\ meta' # meta
    <3>1. PICK n \in Blocks : n > meta.latest /\ meta' = [meta EXCEPT !.latest = n]
      BY <2>1, <2>4, QuickEffect DEF QuickMoves, Publishes
    <3>2. meta' \in MetaRow /\ meta'.latest = n
      BY <2>1, <3>1, BoundAssumption DEF MetaRow, Blocks
    <3> QED
      BY <2>1, <3>1, <3>2, BoundAssumption, NoRowAssumption DEF Blocks
  <2>5. CASE BatchMoves /\ meta' # meta
    <3>1. Reports
      BY <2>1, <2>5, BatchEffect DEF BatchMoves, Fills
    <3>2. meta' \in MetaRow /\ meta'.latest = meta.latest
      BY <2>1, <3>1, ProgressKeeps, MarkKeeps DEF Reports
    <3> QED
      BY <2>1, <3>2, NoRowAssumption
  <2>6. ~(StartWrites \/ QuickMoves \/ BatchMoves) => meta' = meta
    BY <1>1, NextCases, QuietEffect, SupervisionEffect, EndsEffect
       DEF StartSpawn, WorldMoves, FinalizeBlock, CtrlC, storeVars
  <2> QED
    BY <2>2, <2>3, <2>4, <2>5, <2>6
<1>2. IndexerInv /\ [Next]_vars => [NotBack]_vars
  BY <1>1
<1> QED
  BY <1>2, IndexerInvariance, AnyRow, PTL DEF SafetySpec, WatermarkMonotone

-----------------------------------------------------------------------------
(* A row whose backfill is complete: every block up to the watermark can   *)
(* be read, but for those that the last startup write stepped over.        *)
BackfilledMeansStored ==
  meta # NoRow /\ ~meta.backfilling => 0 .. meta.latest \subseteq headers \cup skipped

(* What a reader who waits for is_backfilling to be FALSE may rely on: it  *)
(* takes both services, as the quick indexer alone stores the newer blocks *)
(* and the batch indexer alone the older ones.                             *)
THEOREM BackfillLeavesNoGap == ASSUME AnyRow PROVE SafetySpec => []BackfilledMeansStored
<1>1. IndexerInv => BackfilledMeansStored
  BY DEF IndexerInv, TablesInv, BackfilledMeansStored, Unaccounted
<1> QED
  BY <1>1, IndexerInvariance, AnyRow, PTL

(* The results about each service alone, of the services as they run here: *)
(* beside each other, killed by a crash and started again, after whatever  *)
(* the startup code wrote.                                                 *)
THEOREM ServicesSafe ==
  ASSUME AnyRow
  PROVE  SafetySpec => [](/\ QuickContiguous /\ QuickNotAhead
                          /\ BatchDoneMeansComplete /\ BatchOneCycle)
BY AnyRow, IndexerKeepsToQuick, IndexerKeepsToBatch, QuickLeavesNoHole,
   QuickStaysBehindChain, BatchLeavesHonestRow, BatchNeedsOneCycle, PTL
   DEF RespectsQuickIndexer, RespectsBatchIndexer

THEOREM ServicesStepSafely ==
  ASSUME AnyRow
  PROVE  SafetySpec => /\ QuickMonotone /\ QuickCycleEnds
                       /\ BatchReportsHonestly /\ BatchStaysInRange /\ BatchWorkDrops
BY AnyRow, IndexerKeepsToQuick, IndexerKeepsToBatch, QuickNeverMovesBack,
   QuickCyclesAreBounded, BatchReportsOnlyStored, BatchKeepsToRange, BatchRunsOut
   DEF RespectsQuickIndexer, RespectsBatchIndexer

(* Neither service gives up a range early in the process either: a fault   *)
(* that hits the other service does not count against it twice.            *)
THEOREM ServicesAbsorbFaults ==
  ASSUME AnyRow, HeadersOnly, AttemptsFit
  PROVE  SafetySpec => QuickAbsorbsFaults /\ BatchAbsorbsFaults
BY AnyRow, HeadersOnly, AttemptsFit, IndexerKeepsToQuick, IndexerKeepsToBatch,
   QuickNeverGivesUpEarly, BatchNeverGivesUpEarly
   DEF RespectsQuickIndexer, RespectsBatchIndexer

-----------------------------------------------------------------------------
(* has_errors remembers exactly the handles awaited so far, and a service  *)
(* that has ended does not change its outcome while the rest is awaited.   *)
AwaitInv ==
  /\ joined >= 1 => Finished(router)
  /\ hasErrors <=> \/ joined >= 1 /\ router # "done"
                   \/ joined >= 2 /\ qpc # "done"
                   \/ joined >= 3 /\ bpc # "done"

LEMMA HandlesAre ==
  handles[1] = router /\ handles[2] = qpc /\ handles[3] = bpc
BY DEF handles

LEMMA AwaitStep ==
  ASSUME IndexerInv, AwaitInv, Next PROVE AwaitInv'
<1>1. /\ joined \in 0 .. 3 /\ hasErrors \in BOOLEAN /\ StartInv /\ JoinInv
      /\ QuickInv /\ BatchInv /\ faults <= MaxFaults
  BY DEF IndexerInv, MainTypeOK, BoundInv
<1>2. CASE JoinNext
  <2>1. /\ joined \in 0 .. 2 /\ joined' = joined + 1
        /\ Finished(handles[joined + 1])
        /\ router' = router /\ qpc' = qpc /\ bpc' = bpc
    BY <1>1, <1>2 DEF JoinNext, quickVars, batchVars
  <2>2. hasErrors' <=> hasErrors \/ handles[joined + 1] # "done"
    BY <1>2, Zenon DEF JoinNext
  <2>3. CASE joined = 0
    <3>1. handles[joined + 1] = router
      BY <2>3, HandlesAre
    <3>2. Finished(router) /\ (hasErrors' <=> router # "done")
      BY <2>1, <2>2, <2>3, <3>1 DEF AwaitInv
    <3> QED
      BY <2>1, <2>3, <3>2 DEF AwaitInv, Finished
  <2>4. CASE joined = 1
    <3>1. handles[joined + 1] = qpc
      BY <2>4, HandlesAre
    <3>2. hasErrors' <=> router # "done" \/ qpc # "done"
      BY <2>2, <2>4, <3>1 DEF AwaitInv
    <3> QED
      BY <2>1, <2>4, <3>2 DEF AwaitInv, Finished
  <2>5. CASE joined = 2
    <3>1. handles[joined + 1] = bpc
      BY <2>5, HandlesAre
    <3>2. hasErrors' <=> router # "done" \/ qpc # "done" \/ bpc # "done"
      BY <2>2, <2>5, <3>1 DEF AwaitInv
    <3> QED
      BY <2>1, <2>5, <3>2 DEF AwaitInv, Finished
  <2> QED
    BY <2>1, <2>3, <2>4, <2>5
<1>3. CASE RouterStop \/ RouterFail
  <2>1. router = "up" /\ joined' = joined /\ hasErrors' = hasErrors /\ qpc' = qpc /\ bpc' = bpc
    BY <1>3 DEF RouterStop, RouterFail, quickVars, batchVars
  <2>2. joined = 0
    BY <1>1, <2>1 DEF AwaitInv, Finished
  <2> QED
    BY <2>1, <2>2 DEF AwaitInv
<1>4. CASE Quiet \/ StartWrites \/ WorldMoves
  <2>1. UNCHANGED <<joined, hasErrors, router, qpc, bpc>>
    BY <1>4, QuietEffect, StartWritesEffect
       DEF WorldMoves, quickVars, batchVars, mainVars
  <2> QED
    BY <2>1 DEF AwaitInv, Finished
<1>5. CASE StartSpawn
  <2>1. joined = 0 /\ joined' = joined /\ hasErrors' = hasErrors
    BY <1>1, <1>5 DEF StartSpawn, StartInv
  <2> QED
    BY <2>1 DEF AwaitInv
<1>6. CASE Ends
  <2>1. joined' = 0 /\ hasErrors' = FALSE
    BY <1>6, EndsEffect
  <2> QED
    BY <2>1 DEF AwaitInv
<1>7. CASE QuickMoves
  <2>1. UNCHANGED <<batchVars, mainVars>>
    BY <1>7, Zenon DEF QuickMoves
  <2>2. joined' = joined /\ router' = router /\ bpc' = bpc
    BY <2>1 DEF batchVars, mainVars
  <2>3. hasErrors' <=> hasErrors
    BY <2>1, Zenon DEF mainVars
  <2>4. qpc \notin {"down", "done", "failed"}
    BY <1>1, <1>7, QuickEffect DEF QuickMoves
  <2>5. joined < 2
    BY <1>1, <2>4 DEF JoinInv, Finished, QuickInv, QuickTypeOK, QuickPCs
  <2> QED
    BY <1>1, <2>2, <2>3, <2>5 DEF AwaitInv, Finished
<1>8. CASE BatchMoves
  <2>1. UNCHANGED <<quickVars, mainVars>>
    BY <1>8, Zenon DEF BatchMoves
  <2>2. joined' = joined /\ router' = router /\ qpc' = qpc
    BY <2>1 DEF quickVars, mainVars
  <2>3. hasErrors' <=> hasErrors
    BY <2>1, Zenon DEF mainVars
  <2>4. ~Finished(bpc)
    BY <1>1, <1>8, BatchEffect DEF BatchMoves, Finished
  <2>5. joined < 3
    BY <1>1, <2>4 DEF JoinInv
  <2> QED
    BY <1>1, <2>2, <2>3, <2>5 DEF AwaitInv, Finished
<1> QED
  BY <1>2, <1>3, <1>4, <1>5, <1>6, <1>7, <1>8, NextCases DEF Supervision

LEMMA AwaitInvariance == ASSUME AnyRow PROVE SafetySpec => []AwaitInv
<1>1. Init => AwaitInv
  BY DEF Init, AwaitInv
<1>2. IndexerInv /\ AwaitInv /\ [Next]_vars => AwaitInv'
  <2>1. AwaitInv /\ UNCHANGED vars => AwaitInv'
    BY DEF AwaitInv, Finished, vars, quickVars, batchVars, mainVars
  <2> QED
    BY <2>1, AwaitStep
<1> QED
  BY <1>1, <1>2, IndexerInvariance, AnyRow, PTL DEF SafetySpec

(* Every exit that is no crash comes after the end of all three services,  *)
(* and its code tells whether one of them failed, in whatever order they   *)
(* ended.                                                                  *)
THEOREM IndexerExitsHonestly == ASSUME AnyRow PROVE SafetySpec => ExitHonest
<1>1. IndexerInv /\ AwaitInv /\ [Next]_vars
        => [phase = "running" /\ phase' = "down" /\ exitCode' # "crashed"
              => /\ \A i \in 1 .. 3 : Finished(handles[i])
                 /\ exitCode' = "ok" <=> \A i \in 1 .. 3 : handles[i] = "done"]_vars
  <2> SUFFICES ASSUME IndexerInv, AwaitInv, Next, phase = "running", phase' = "down",
                      exitCode' # "crashed"
               PROVE  /\ \A i \in 1 .. 3 : Finished(handles[i])
                      /\ exitCode' = "ok" <=> \A i \in 1 .. 3 : handles[i] = "done"
    OBVIOUS
  <2>1. Exit
    <3>1. ~(QuickMoves \/ BatchMoves \/ WorldMoves \/ Supervision)
      BY SupervisionEffect DEF QuickMoves, BatchMoves, WorldMoves, mainVars
    <3>2. ~(Quiet \/ StartWrites \/ StartSpawn)
      BY DEF Quiet, StartWrites, StartSpawn, StartProcess, StartTip, StartLookup,
         StartReread, StartInsert, StartCursor, StartSetup
    <3> QED
      BY <3>1, <3>2, NextCases DEF Ends, Crash, ProcessEnds
  <2>2. joined = 3 /\ exitCode' = IF hasErrors THEN "error" ELSE "ok"
    BY <2>1 DEF Exit, ProcessEnds
  <2>3. Finished(router) /\ Finished(qpc) /\ Finished(bpc)
    BY <2>2 DEF AwaitInv, IndexerInv, JoinInv
  <2>4. hasErrors <=> router # "done" \/ qpc # "done" \/ bpc # "done"
    BY <2>2 DEF AwaitInv
  <2>5. \A i \in 1 .. 3 : i = 1 \/ i = 2 \/ i = 3
    OBVIOUS
  <2> QED
    BY <2>2, <2>3, <2>4, <2>5, HandlesAre
<1> QED
  BY <1>1, IndexerInvariance, AwaitInvariance, AnyRow, PTL DEF SafetySpec, ExitHonest
=============================================================================
