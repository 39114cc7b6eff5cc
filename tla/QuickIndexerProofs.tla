------------------------- MODULE QuickIndexerProofs -------------------------
(***************************************************************************)
(* The safety properties of the quick indexer, for every chain length,     *)
(* batch size, number of retries and set of faults.  QuickContiguous alone *)
(* is not inductive: the invariant adds what the service knows between two *)
(* reads of the row, above all that after an attempt that was reported as  *)
(* failed the watermark is still the one it read, or already the end of    *)
(* the range it is about to run again.                                     *)
(***************************************************************************)
EXTENDS QuickIndexer, TLAPS

InRange == qpc \in {"retry", "fetch", "store", "verify", "backoff"}

(* The range being indexed starts behind the watermark the cycle read,     *)
(* which is not before the one the service started from.                   *)
RangeInv ==
  /\ qpc # "down" => qbase <= meta.latest
  /\ qpc = "poll" => qlast = meta.latest
  /\ InRange => /\ qbase <= qlast /\ qlast < qend /\ qend <= finalized
                /\ meta.latest = qlast \/ meta.latest = qend

(* What is about to be stored is the whole range and nothing else, and a   *)
(* node knows of no block before the first.                                *)
AnswerInv ==
  qpc = "store" => /\ Received(qanswer) = qlast + 1 .. qend
                   /\ Received(qanswer) \subseteq Blocks

QuickInv ==
  /\ QuickTypeOK
  /\ qpc # "down" => meta # NoRow
  /\ QuickContiguous /\ QuickNotAhead
  /\ RangeInv /\ AnswerInv

LEMMA QuickInitInv == QuickInit => QuickInv
<1> SUFFICES ASSUME QuickInit PROVE QuickInv
  OBVIOUS
<1>1. StoreTypeOK
  <2>1. headers \subseteq Int /\ finalized \in Nat /\ faults \in Nat
    BY BoundAssumption DEF QuickInit, Blocks
  <2>2. meta \in MetaRow \cup {NoRow}
    BY InitialRowsAssumption DEF QuickInit
  <2>3. shouldTerminate \in BOOLEAN
    BY DEF QuickInit
  <2> QED
    BY <2>1, <2>2, <2>3 DEF StoreTypeOK
<1>2. DOMAIN qanswer = {}
  BY DEF QuickInit, QuickIdle, NoAnswers
<1> QED
  BY <1>1, <1>2
     DEF QuickInit, QuickInv, QuickIdle, QuickTypeOK, QuickPCs,
         QuickContiguous, QuickNotAhead, RangeInv, InRange, AnswerInv

-----------------------------------------------------------------------------
(* Faults only spend the budget.                                           *)
LEMMA QuickOutcomeType ==
  ASSUME faults \in Nat, NEW ok, NEW kind, Outcome(ok, kind)
  PROVE  faults' \in Nat
BY DEF Outcome, Fault

LEMMA FaultsElsewhereType ==
  ASSUME faults \in Nat, FaultsElsewhere PROVE faults' \in Nat
BY BoundAssumption DEF FaultsElsewhere

(* A step of the service that leaves the row and the headers alone and     *)
(* ends outside of a range keeps the invariant.                            *)
LEMMA QuickReturnInv ==
  ASSUME QuickInv, qpc # "down", NEW pc \in {"loop", "failed"}, QuickReturn(pc),
         UNCHANGED <<headers, meta, finalized, shouldTerminate>>, faults' \in Nat
  PROVE  QuickInv'
BY DEF QuickInv, QuickReturn, QuickTypeOK, StoreTypeOK, QuickPCs, NoAnswers,
       QuickContiguous, QuickNotAhead, RangeInv, InRange, AnswerInv

LEMMA LoopInv == QuickInv /\ QuickLoop => QuickInv'
BY DEF QuickLoop, QuickInv, storeVars, QuickTypeOK, StoreTypeOK, QuickPCs,
       QuickContiguous, QuickNotAhead, RangeInv, InRange, AnswerInv

LEMMA QuickReadInv == QuickInv /\ QuickRead => QuickInv'
<1> SUFFICES ASSUME QuickInv, QuickRead PROVE QuickInv'
  OBVIOUS
<1>1. /\ UNCHANGED <<headers, meta, finalized, shouldTerminate>>
      /\ qpc = "read" /\ faults \in Nat
  BY DEF QuickRead, QuickInv, QuickTypeOK, StoreTypeOK
<1>2. faults' \in Nat
  BY <1>1, QuickOutcomeType DEF QuickRead, Query
<1>3. CASE QuickReturn("failed")
  BY <1>1, <1>2, <1>3, QuickReturnInv
<1>4. CASE /\ meta # NoRow /\ qpc' = "poll" /\ qlast' = meta.latest
           /\ UNCHANGED <<qend, qattempt, qanswer, qbase>>
  BY <1>1, <1>2, <1>4
     DEF QuickInv, QuickTypeOK, StoreTypeOK, MetaRow, QuickPCs, QuickContiguous,
         QuickNotAhead, RangeInv, InRange, AnswerInv
<1> QED
  BY <1>3, <1>4 DEF QuickRead

(* The end of the range lies behind the watermark and not beyond the       *)
(* answered tip.                                                           *)
LEMMA EndingBlock ==
  ASSUME NEW last \in Int, NEW tip \in Int, has_new_blocks(last, tip)
  PROVE  /\ calculate_ending_block(last, tip) \in Int
         /\ last < calculate_ending_block(last, tip)
         /\ calculate_ending_block(last, tip) <= tip
BY ConfigAssumption DEF has_new_blocks, calculate_ending_block

LEMMA PollInv == QuickInv /\ QuickPoll => QuickInv'
<1> SUFFICES ASSUME QuickInv, QuickPoll PROVE QuickInv'
  OBVIOUS
<1>1. CASE QuickPollFails
  <2>1. faults' \in Nat
    BY <1>1 DEF QuickPollFails, Fault, QuickInv, QuickTypeOK, StoreTypeOK
  <2> QED
    BY <1>1, <2>1, QuickReturnInv DEF QuickPollFails
<1>2. ASSUME NEW answer \in TipAnswers, QuickPolled(answer) PROVE QuickInv'
  <2>1. answer \in Int /\ answer <= finalized /\ qlast \in Int
    BY DEF TipAnswers, QuickInv, QuickTypeOK, StoreTypeOK
  <2>2. CASE has_new_blocks(qlast, answer)
    <3>1. /\ qpc' = "retry" /\ qend' = calculate_ending_block(qlast, answer)
          /\ qpc = "poll" /\ UNCHANGED <<storeVars, qlast, qattempt, qanswer, qbase>>
      BY <1>2, <2>2 DEF QuickPolled
    <3>2. /\ qend' \in Int /\ qlast < qend' /\ qend' <= answer
      BY <2>1, <2>2, <3>1, EndingBlock
    <3> QED
      BY <2>1, <3>1, <3>2
         DEF QuickInv, storeVars, QuickTypeOK, StoreTypeOK, QuickPCs,
             QuickContiguous, QuickNotAhead, RangeInv, InRange, AnswerInv
  <2>3. CASE ~has_new_blocks(qlast, answer)
    BY <1>2, <2>3
       DEF QuickPolled, QuickInv, storeVars, QuickTypeOK, StoreTypeOK, QuickPCs,
           QuickContiguous, QuickNotAhead, RangeInv, InRange, AnswerInv
  <2> QED
    BY <2>2, <2>3
<1> QED
  BY <1>1, <1>2 DEF QuickPoll

LEMMA SleepInv == QuickInv /\ QuickSleep => QuickInv'
<1> SUFFICES ASSUME QuickInv, QuickSleep PROVE QuickInv'
  OBVIOUS
<1> QED
  BY QuickReturnInv DEF QuickSleep, storeVars, QuickInv, QuickTypeOK, StoreTypeOK

LEMMA QuickRetryInv == QuickInv /\ QuickRetry => QuickInv'
<1> SUFFICES ASSUME QuickInv, QuickRetry PROVE QuickInv'
  OBVIOUS
<1>1. CASE QuickReturn("failed")
  BY <1>1, QuickReturnInv DEF QuickRetry, storeVars, QuickInv, QuickTypeOK, StoreTypeOK
<1>2. CASE qpc' = "fetch" /\ UNCHANGED <<qlast, qend, qattempt, qanswer, qbase>>
  BY <1>2 DEF QuickRetry, QuickInv, storeVars, QuickTypeOK, StoreTypeOK, QuickPCs,
     QuickContiguous, QuickNotAhead, RangeInv, InRange, AnswerInv
<1> QED
  BY <1>1, <1>2 DEF QuickRetry

(* process_rpc_responses lets through nothing but the requested range.     *)
LEMMA CheckedAnswer ==
  ASSUME NEW asked \in SUBSET Int, NEW answer \in HeaderAnswers(asked),
         process_rpc_responses(answer)
  PROVE  Received(answer) = asked /\ Received(answer) \subseteq Blocks
BY NullAssumption DEF HeaderAnswers, process_rpc_responses, Received

LEMMA QuickFetchInv == QuickInv /\ QuickFetch => QuickInv'
<1> SUFFICES ASSUME QuickInv, QuickFetch PROVE QuickInv'
  OBVIOUS
<1>1. PICK answer \in HeaderAnswers(qlast + 1 .. qend) :
        /\ Outcome(Honest(answer), "rpcBlock")
        /\ IF process_rpc_responses(answer)
           THEN qpc' = "store" /\ qanswer' = answer
           ELSE qpc' = "backoff" /\ UNCHANGED qanswer
  BY DEF QuickFetch
<1>2. /\ UNCHANGED <<headers, meta, finalized, shouldTerminate>>
      /\ UNCHANGED <<qlast, qend, qattempt, qbase>>
      /\ qpc = "fetch" /\ faults \in Nat
  BY DEF QuickFetch, QuickInv, QuickTypeOK, StoreTypeOK
<1>3. faults' \in Nat
  BY <1>1, <1>2, QuickOutcomeType
<1>4. CASE process_rpc_responses(answer)
  <2>1. /\ Received(qanswer') = qlast + 1 .. qend
        /\ Received(qanswer') \subseteq Blocks
    <3>1. qlast + 1 .. qend \in SUBSET Int
      BY DEF QuickInv, QuickTypeOK
    <3> QED
      BY <1>1, <1>4, <3>1, CheckedAnswer
  <2>2. DOMAIN qanswer' \subseteq Int
    BY <1>1, <1>4 DEF HeaderAnswers, QuickInv, QuickTypeOK
  <2>3. AnswerInv'
    BY <1>2, <2>1 DEF AnswerInv, Received, Blocks
  <2> QED
    BY <1>1, <1>2, <1>3, <1>4, <2>2, <2>3
       DEF QuickInv, QuickTypeOK, StoreTypeOK, QuickPCs,
           QuickContiguous, QuickNotAhead, RangeInv, InRange
<1>5. CASE ~process_rpc_responses(answer)
  BY <1>1, <1>2, <1>3, <1>5
     DEF QuickInv, QuickTypeOK, StoreTypeOK, QuickPCs,
         QuickContiguous, QuickNotAhead, RangeInv, InRange, AnswerInv
<1> QED
  BY <1>4, <1>5

(* The transaction: all of the range and the watermark, or neither; the    *)
(* service cannot tell which when it is told of an error.                  *)
LEMMA StoreHeadersOutcome ==
  ASSUME faults \in Nat, NEW new, NEW m, NEW ok, StoreHeaders(new, m, ok)
  PROVE  /\ faults' \in Nat
         /\ \/ headers' = headers \cup new /\ meta' = m
            \/ ~ok /\ UNCHANGED <<headers, meta>>
BY QuickOutcomeType DEF StoreHeaders, Transaction, Fault

LEMMA QuickStoreInv == QuickInv /\ QuickStore => QuickInv'
<1> SUFFICES ASSUME QuickInv, QuickStore PROVE QuickInv'
  OBVIOUS
<1>1. PICK ok \in BOOLEAN :
        /\ StoreHeaders(Received(qanswer), [meta EXCEPT !.latest = qend], ok)
        /\ qpc' = IF ok THEN "verify" ELSE "backoff"
  BY DEF QuickStore
<1>2. /\ UNCHANGED <<finalized, shouldTerminate, qlast, qend, qattempt, qbase>>
      /\ qpc = "store" /\ faults \in Nat /\ qlast \in Int /\ qend \in Int
      /\ qbase \in Int /\ qanswer' = NoAnswers /\ meta \in MetaRow /\ meta # NoRow
      /\ Received(qanswer) = qlast + 1 .. qend
  BY DEF QuickStore, QuickInv, QuickTypeOK, StoreTypeOK, AnswerInv
<1>3. faults' \in Nat
  BY <1>1, <1>2, StoreHeadersOutcome
<1>4. CASE /\ headers' = headers \cup Received(qanswer)
           /\ meta' = [meta EXCEPT !.latest = qend]
  <2>1. meta' \in MetaRow /\ meta'.latest = qend
    BY <1>2, <1>4 DEF MetaRow
  <2>2. qbase + 1 .. qend \subseteq headers'
    BY <1>2, <1>4 DEF QuickInv, QuickContiguous, RangeInv, InRange
  <2> QED
    BY <1>1, <1>2, <1>3, <1>4, <2>1, <2>2, NoRowAssumption
       DEF QuickInv, QuickTypeOK, StoreTypeOK, QuickPCs, NoAnswers,
           QuickContiguous, QuickNotAhead, RangeInv, InRange, AnswerInv
<1>5. CASE ~ok /\ UNCHANGED <<headers, meta>>
  BY <1>1, <1>2, <1>3, <1>5
     DEF QuickInv, QuickTypeOK, StoreTypeOK, QuickPCs, NoAnswers,
         QuickContiguous, QuickNotAhead, RangeInv, InRange, AnswerInv
<1> QED
  BY <1>1, <1>2, <1>4, <1>5, StoreHeadersOutcome

LEMMA VerifyInv == QuickInv /\ QuickVerify => QuickInv'
<1> SUFFICES ASSUME QuickInv, QuickVerify PROVE QuickInv'
  OBVIOUS
<1>1. /\ UNCHANGED <<headers, meta, finalized, shouldTerminate>>
      /\ qpc = "verify" /\ faults \in Nat
  BY DEF QuickVerify, QuickInv, QuickTypeOK, StoreTypeOK
<1>2. faults' \in Nat
  BY <1>1, QuickOutcomeType DEF QuickVerify, Query
<1>3. CASE QuickReturn("loop")
  BY <1>1, <1>2, <1>3, QuickReturnInv
<1>4. CASE qpc' = "backoff" /\ UNCHANGED <<qlast, qend, qattempt, qanswer, qbase>>
  BY <1>1, <1>2, <1>4 DEF QuickInv, QuickTypeOK, StoreTypeOK, QuickPCs,
     QuickContiguous, QuickNotAhead, RangeInv, InRange, AnswerInv
<1> QED
  BY <1>3, <1>4 DEF QuickVerify

LEMMA BackoffInv == QuickInv /\ QuickBackoff => QuickInv'
BY DEF QuickBackoff, QuickInv, storeVars, QuickTypeOK, StoreTypeOK, QuickPCs,
       QuickContiguous, QuickNotAhead, RangeInv, InRange, AnswerInv

LEMMA QuickStepInv == QuickInv /\ QuickStep => QuickInv'
BY LoopInv, QuickReadInv, PollInv, SleepInv, QuickRetryInv, QuickFetchInv, QuickStoreInv, VerifyInv,
   BackoffInv DEF QuickStep

-----------------------------------------------------------------------------
LEMMA QuickPeerInv == QuickInv /\ QuickPeerStep => QuickInv'
<1> SUFFICES ASSUME QuickInv, QuickPeerStep PROVE QuickInv'
  OBVIOUS
<1>1. PICK new \in SUBSET Blocks, flag \in BOOLEAN, cursor \in Cursors :
        /\ headers' = headers \cup new
        /\ meta' = [meta EXCEPT !.backfilling = flag, !.cursor = cursor]
  BY DEF QuickPeerStep
<1>2. /\ meta # NoRow /\ meta \in MetaRow
      /\ UNCHANGED <<finalized, shouldTerminate, qpc, qlast, qend, qattempt,
                     qanswer, qbase>>
  BY DEF QuickPeerStep, QuickInv, QuickTypeOK, StoreTypeOK, quickVars
<1>3. meta' \in MetaRow /\ meta'.latest = meta.latest
  BY <1>1, <1>2, CursorAssumption DEF MetaRow
<1>4. meta' # NoRow
  BY <1>3, NoRowAssumption
<1>5. faults' \in Nat
  BY FaultsElsewhereType DEF QuickPeerStep, QuickInv, QuickTypeOK, StoreTypeOK
<1>6. headers' \subseteq Int
  BY <1>1, BoundAssumption DEF Blocks, QuickInv, QuickTypeOK, StoreTypeOK
<1>7. QuickTypeOK'
  BY <1>2, <1>3, <1>5, <1>6 DEF QuickInv, QuickTypeOK, StoreTypeOK
<1> QED
  BY <1>1, <1>2, <1>3, <1>4, <1>7
     DEF QuickInv, QuickContiguous, QuickNotAhead, RangeInv, InRange, AnswerInv,
         Received

LEMMA StartupInv == QuickInv /\ QuickStartupStep => QuickInv'
<1> SUFFICES ASSUME QuickInv, QuickStartupStep PROVE QuickInv'
  OBVIOUS
<1>1. meta' \in MetaRow \cup {NoRow}
  BY CursorAssumption, BoundAssumption
     DEF QuickStartupStep, QuickInv, QuickTypeOK, StoreTypeOK, MetaRow, Blocks
<1>2. faults' \in Nat
  BY FaultsElsewhereType DEF QuickStartupStep, QuickInv, QuickTypeOK, StoreTypeOK
<1> QED
  BY <1>1, <1>2
     DEF QuickStartupStep, quickVars, QuickInv, QuickTypeOK, StoreTypeOK,
         QuickContiguous, QuickNotAhead, RangeInv, InRange, AnswerInv

LEMMA ProcessInv == QuickInv /\ QuickProcessStep => QuickInv'
<1> SUFFICES ASSUME QuickInv, QuickProcessStep PROVE QuickInv'
  OBVIOUS
<1>1. UNCHANGED <<headers, meta, finalized, shouldTerminate>> /\ faults' \in Nat
  BY FaultsElsewhereType DEF QuickProcessStep, QuickInv, QuickTypeOK, StoreTypeOK
<1>2. CASE QuickSpawn
  <2>1. meta \in MetaRow /\ qbase' = meta.latest /\ qbase' \in Int
    BY <1>2 DEF QuickSpawn, QuickInv, QuickTypeOK, StoreTypeOK, MetaRow
  <2> QED
    BY <1>1, <1>2, <2>1
       DEF QuickSpawn, QuickInv, QuickTypeOK, StoreTypeOK, QuickPCs,
           QuickContiguous, QuickNotAhead, RangeInv, InRange, AnswerInv
<1>3. CASE QuickKill
  BY <1>1, <1>3
     DEF QuickKill, QuickInv, QuickTypeOK, StoreTypeOK, QuickPCs, NoAnswers,
         QuickContiguous, QuickNotAhead, RangeInv, InRange, AnswerInv
<1> QED
  BY <1>2, <1>3 DEF QuickProcessStep

LEMMA EnvironmentInv == QuickInv /\ QuickEnvironment => QuickInv'
<1> SUFFICES ASSUME QuickInv, QuickEnvironment PROVE QuickInv'
  OBVIOUS
<1>1. CASE FinalizeBlock /\ UNCHANGED quickVars
  BY <1>1 DEF FinalizeBlock, quickVars, QuickInv, QuickTypeOK, StoreTypeOK, MetaRow,
     QuickContiguous, QuickNotAhead, RangeInv, InRange, AnswerInv, Received
<1>2. CASE CtrlC /\ UNCHANGED quickVars
  BY <1>2 DEF CtrlC, quickVars, QuickInv, QuickTypeOK, StoreTypeOK,
     QuickContiguous, QuickNotAhead, RangeInv, InRange, AnswerInv, Received
<1> QED
  BY <1>1, <1>2, QuickPeerInv, StartupInv, ProcessInv DEF QuickEnvironment

LEMMA QuickNextInv == QuickInv /\ [QuickNext]_quickSpecVars => QuickInv'
<1> SUFFICES ASSUME QuickInv, [QuickNext]_quickSpecVars PROVE QuickInv'
  OBVIOUS
<1>1. CASE UNCHANGED quickSpecVars
  BY <1>1 DEF quickSpecVars, quickVars, storeVars, QuickInv, QuickTypeOK,
     StoreTypeOK, QuickContiguous, QuickNotAhead, RangeInv, InRange, AnswerInv,
     Received
<1> QED
  BY <1>1, QuickStepInv, EnvironmentInv DEF QuickNext

LEMMA QuickInvariance == QuickSafetySpec => []QuickInv
BY QuickInitInv, QuickNextInv, PTL DEF QuickSafetySpec

-----------------------------------------------------------------------------
(* Every variable keeps its type.                                          *)
THEOREM QuickTypeCorrect == QuickSafetySpec => []QuickTypeOK
<1>1. QuickInv => QuickTypeOK
  BY DEF QuickInv
<1> QED
  BY <1>1, QuickInvariance, PTL

(* No hole is left between the watermark the service started from and the  *)
(* watermark readers see, whatever fails and whatever the batch indexer    *)
(* writes.                                                                 *)
THEOREM QuickLeavesNoHole == QuickSafetySpec => []QuickContiguous
<1>1. QuickInv => QuickContiguous
  BY DEF QuickInv
<1> QED
  BY <1>1, QuickInvariance, PTL

(* The watermark is never moved beyond the finalized chain.                *)
THEOREM QuickStaysBehindChain == QuickSafetySpec => []QuickNotAhead
<1>1. QuickInv => QuickNotAhead
  BY DEF QuickInv
<1> QED
  BY <1>1, QuickInvariance, PTL

LEMMA MonotoneStep ==
  QuickInv /\ [QuickNext]_quickSpecVars /\ qpc # "down" => meta'.latest >= meta.latest
<1> SUFFICES ASSUME QuickInv, [QuickNext]_quickSpecVars, qpc # "down"
             PROVE  meta'.latest >= meta.latest
  OBVIOUS
<1>1. meta \in MetaRow /\ meta.latest \in Int
  BY DEF QuickInv, QuickTypeOK, StoreTypeOK, MetaRow
<1>2. meta' = meta => meta'.latest >= meta.latest
  BY <1>1
<1>3. CASE QuickStep
  <2>1. CASE QuickStore
    <3>1. /\ qpc = "store" /\ qlast \in Int /\ qend \in Int
      BY <2>1 DEF QuickStore, QuickInv, QuickTypeOK
    <3>2. qend >= meta.latest
      BY <3>1 DEF QuickInv, RangeInv, InRange
    <3>3. meta' = meta \/ meta' = [meta EXCEPT !.latest = qend]
      BY <2>1 DEF QuickStore, StoreHeaders, Transaction
    <3> QED
      BY <1>1, <1>2, <3>1, <3>2, <3>3 DEF MetaRow
  <2>2. ~QuickStore => meta' = meta
    BY <1>3 DEF QuickStep, QuickLoop, QuickRead, QuickPoll, QuickPollFails,
       QuickPolled, QuickSleep, QuickRetry, QuickFetch, QuickVerify, QuickBackoff,
       storeVars
  <2> QED
    BY <1>2, <2>1, <2>2
<1>4. CASE QuickPeerStep
  BY <1>1, <1>4 DEF QuickPeerStep, MetaRow
<1>5. CASE ~QuickStep /\ ~QuickPeerStep
  BY <1>2, <1>5 DEF QuickNext, QuickEnvironment, QuickStartupStep,
     QuickProcessStep, FinalizeBlock, CtrlC, quickSpecVars, storeVars
<1> QED
  BY <1>3, <1>4, <1>5

(* While a process lives its watermark never moves back.                   *)
THEOREM QuickNeverMovesBack == QuickSafetySpec => QuickMonotone
<1>1. QuickInv /\ [QuickNext]_quickSpecVars
        => [qpc # "down" => meta'.latest >= meta.latest]_quickSpecVars
  BY MonotoneStep
<1> QED
  BY <1>1, QuickInvariance, PTL DEF QuickSafetySpec, QuickMonotone

-----------------------------------------------------------------------------
(* Every failed attempt is paid for by a fault of its own: a verification  *)
(* after a successful store does not fail by itself.                       *)
QuickAttemptInv ==
  /\ qpc \in {"down", "loop", "read", "poll"} => qattempt = 0
  /\ qpc \in {"retry", "fetch", "store", "verify"} => qattempt <= faults
  /\ qpc = "backoff" => qattempt < faults
  /\ qpc = "verify" => qlast + 1 .. qend \subseteq headers

LEMMA AttemptInit == QuickInit => QuickAttemptInv
BY DEF QuickInit, QuickIdle, QuickAttemptInv

LEMMA OutcomeCounts ==
  ASSUME faults \in Nat, NEW ok \in BOOLEAN, NEW kind, Outcome(ok, kind)
  PROVE  IF ok THEN faults' = faults ELSE faults' = faults + 1
BY DEF Outcome, Fault

(* No header carries transactions that would have to be converted.         *)
HeadersOnly == ~ShouldIndexTxs \/ TxBlocks = {}

LEMMA StoreCounts ==
  ASSUME HeadersOnly, faults \in Nat, NEW ok \in BOOLEAN, NEW new, NEW m,
         StoreHeaders(new, m, ok)
  PROVE  IF ok THEN faults' = faults /\ headers' = headers \cup new
               ELSE faults' = faults + 1
BY DEF HeadersOnly, Convertible, StoreHeaders, Transaction, Outcome, Fault

(* A step of the service.                                                  *)
LEMMA QuickAttemptStep ==
  ASSUME HeadersOnly, QuickInv, QuickAttemptInv, QuickStep PROVE QuickAttemptInv'
<1>1. faults \in Nat /\ qattempt \in Nat /\ qlast \in Int /\ qend \in Int
  BY DEF QuickInv, QuickTypeOK, StoreTypeOK
<1>2. CASE QuickLoop \/ QuickSleep \/ QuickRetry
  BY <1>1, <1>2 DEF QuickLoop, QuickSleep, QuickRetry, QuickReturn, storeVars,
     QuickAttemptInv
<1>3. CASE QuickRead
  BY <1>1, <1>3 DEF QuickRead, QuickReturn, QuickAttemptInv
<1>4. CASE QuickPoll
  BY <1>1, <1>4 DEF QuickPoll, QuickPollFails, QuickPolled, QuickReturn, storeVars,
     QuickAttemptInv
<1>5. CASE QuickFetch
  <2>1. PICK answer \in HeaderAnswers(qlast + 1 .. qend) :
          /\ Outcome(Honest(answer), "rpcBlock")
          /\ IF process_rpc_responses(answer)
             THEN qpc' = "store" /\ qanswer' = answer
             ELSE qpc' = "backoff" /\ UNCHANGED qanswer
    BY <1>5 DEF QuickFetch
  <2>2. process_rpc_responses(answer) <=> Honest(answer)
    BY DEF process_rpc_responses, Honest
  <2>3. CASE Honest(answer)
    BY <1>1, <1>5, <2>1, <2>2, <2>3 DEF Outcome, QuickFetch, QuickAttemptInv
  <2>4. CASE ~Honest(answer)
    BY <1>1, <1>5, <2>1, <2>2, <2>4 DEF Outcome, Fault, QuickFetch, QuickAttemptInv
  <2> QED
    BY <2>3, <2>4
<1>6. CASE QuickStore
  <2>1. PICK ok \in BOOLEAN :
          /\ StoreHeaders(Received(qanswer), [meta EXCEPT !.latest = qend], ok)
          /\ qpc' = IF ok THEN "verify" ELSE "backoff"
    BY <1>6 DEF QuickStore
  <2>2. /\ UNCHANGED <<qlast, qend, qattempt>> /\ qattempt <= faults
        /\ Received(qanswer) = qlast + 1 .. qend
    BY <1>6 DEF QuickStore, QuickAttemptInv, QuickInv, AnswerInv
  <2>3. IF ok THEN faults' = faults /\ headers' = headers \cup Received(qanswer)
              ELSE faults' = faults + 1
    BY <1>1, <2>1, StoreCounts
  <2> QED
    BY <1>1, <2>1, <2>2, <2>3 DEF QuickAttemptInv
<1>7. CASE QuickVerify
  <2>1. PICK ok \in BOOLEAN :
          /\ Query(ok)
          /\ IF ok /\ Missing(qlast + 1, qend) = {}
             THEN QuickReturn("loop")
             ELSE qpc' = "backoff"
                  /\ UNCHANGED <<qlast, qend, qattempt, qanswer, qbase>>
    BY <1>7 DEF QuickVerify
  <2>2. Missing(qlast + 1, qend) = {} /\ qattempt <= faults
    BY <1>7 DEF QuickVerify, QuickAttemptInv, Missing
  <2>3. IF ok THEN faults' = faults ELSE faults' = faults + 1
    BY <1>1, <2>1, OutcomeCounts DEF Query
  <2> QED
    BY <1>1, <2>1, <2>2, <2>3 DEF QuickReturn, QuickAttemptInv
<1>8. CASE QuickBackoff
  BY <1>1, <1>8 DEF QuickBackoff, storeVars, QuickAttemptInv
<1> QED
  BY <1>2, <1>3, <1>4, <1>5, <1>6, <1>7, <1>8 DEF QuickStep

(* A step of the rest of the program.                                      *)
LEMMA QuickAttemptEnvironment ==
  QuickInv /\ QuickAttemptInv /\ QuickEnvironment => QuickAttemptInv'
<1> SUFFICES ASSUME QuickInv, QuickAttemptInv, QuickEnvironment PROVE QuickAttemptInv'
  OBVIOUS
<1>1. faults \in Nat /\ qattempt \in Nat
  BY DEF QuickInv, QuickTypeOK, StoreTypeOK
<1>2. FaultsElsewhere => faults' \in Nat /\ faults' >= faults
  BY <1>1, BoundAssumption DEF FaultsElsewhere
<1>3. CASE QuickPeerStep
  <2>1. headers \subseteq headers'
    BY <1>3 DEF QuickPeerStep
  <2> QED
    BY <1>1, <1>2, <1>3, <2>1 DEF QuickPeerStep, quickVars, QuickAttemptInv
<1>4. CASE QuickStartupStep
  BY <1>1, <1>2, <1>4 DEF QuickStartupStep, quickVars, QuickAttemptInv
<1>5. CASE QuickProcessStep
  BY <1>1, <1>2, <1>5 DEF QuickProcessStep, QuickSpawn, QuickKill, QuickAttemptInv
<1>6. CASE (FinalizeBlock \/ CtrlC) /\ UNCHANGED quickVars
  BY <1>1, <1>6 DEF FinalizeBlock, CtrlC, quickVars, QuickAttemptInv
<1> QED
  BY <1>3, <1>4, <1>5, <1>6 DEF QuickEnvironment

LEMMA QuickAttemptInvariance == ASSUME HeadersOnly PROVE QuickSafetySpec => []QuickAttemptInv
<1>1. QuickInv /\ QuickAttemptInv /\ [QuickNext]_quickSpecVars => QuickAttemptInv'
  <2>1. QuickInv /\ QuickAttemptInv /\ UNCHANGED quickSpecVars => QuickAttemptInv'
    BY DEF quickSpecVars, quickVars, storeVars, QuickAttemptInv
  <2> QED
    BY <2>1, QuickAttemptStep, QuickAttemptEnvironment DEF QuickNext
<1> QED
  BY <1>1, AttemptInit, QuickInvariance, PTL DEF QuickSafetySpec

(* The retry loop never gives up early, for every max_retries and every    *)
(* mixture of failed requests, rejected commits and lost acknowledgements, *)
(* where the transactions of the blocks are not asked for.                 *)
THEOREM QuickNeverGivesUpEarly ==
  ASSUME HeadersOnly PROVE QuickSafetySpec => QuickAbsorbsFaults
<1>1. QuickInv /\ QuickAttemptInv /\ [QuickNext]_quickSpecVars
        => [qpc = "retry" /\ qpc' = "failed"
              => shouldTerminate \/ faults >= MaxRetries]_quickSpecVars
  <2> SUFFICES ASSUME QuickInv, QuickAttemptInv, QuickNext, qpc = "retry", qpc' = "failed",
                      ~shouldTerminate
               PROVE  faults >= MaxRetries
    OBVIOUS
  <2>1. QuickRetry
    BY DEF QuickNext, QuickStep, QuickLoop, QuickRead, QuickPoll, QuickPollFails,
       QuickPolled, QuickSleep, QuickFetch, QuickStore, QuickVerify, QuickBackoff,
       QuickEnvironment, QuickPeerStep, QuickStartupStep, QuickProcessStep,
       QuickSpawn, QuickKill, FinalizeBlock, CtrlC, quickVars
  <2>2. qattempt >= MaxRetries
    BY <2>1 DEF QuickRetry, QuickReturn
  <2> QED
    BY <2>2, ConfigAssumption DEF QuickAttemptInv, QuickInv, QuickTypeOK, StoreTypeOK
<1> QED
  BY <1>1, QuickInvariance, QuickAttemptInvariance, PTL
     DEF QuickSafetySpec, QuickAbsorbsFaults

-----------------------------------------------------------------------------
(* A range is tried while an attempt is left.                              *)
QuickWorkInv ==
  /\ qpc \in {"down", "loop", "read", "poll"} => qattempt = 0
  /\ qpc = "retry" => qattempt <= MaxRetries
  /\ qpc \in {"fetch", "store", "verify", "backoff"} => qattempt < MaxRetries

(* What a step does to the place in the cycle and to the attempts.         *)
LEMMA CycleStep ==
  ASSUME QuickInv, QuickStep
  PROVE  \/ qpc = "loop" /\ qpc' = "read" /\ qattempt' = qattempt /\ ~shouldTerminate
         \/ qpc = "loop" /\ qpc' = "done" /\ qattempt' = qattempt
         \/ qpc = "read" /\ qpc' = "poll" /\ qattempt' = qattempt
         \/ qpc = "poll" /\ qpc' \in {"retry", "sleep"} /\ qattempt' = qattempt
         \/ qpc = "retry" /\ qpc' = "fetch" /\ qattempt' = qattempt /\ qattempt < MaxRetries
         \/ qpc = "fetch" /\ qpc' \in {"store", "backoff"} /\ qattempt' = qattempt
         \/ qpc = "store" /\ qpc' \in {"verify", "backoff"} /\ qattempt' = qattempt
         \/ qpc = "verify" /\ qpc' = "backoff" /\ qattempt' = qattempt
         \/ qpc = "backoff" /\ qpc' = "retry" /\ qattempt' = qattempt + 1
         \/ qpc \in {"sleep", "verify"} /\ qpc' = "loop" /\ qattempt' = 0
         \/ qpc \in {"read", "poll", "retry"} /\ qpc' = "failed" /\ qattempt' = 0
<1>1. MaxRetries \in Nat /\ qattempt \in Nat
  BY ConfigAssumption DEF QuickInv, QuickTypeOK
<1> QED
  BY <1>1 DEF QuickStep, QuickLoop, QuickRead, QuickPoll, QuickPollFails, QuickPolled,
     QuickSleep, QuickRetry, QuickFetch, QuickStore, QuickVerify, QuickBackoff,
     QuickReturn, storeVars

LEMMA CycleEnvironment ==
  ASSUME QuickEnvironment
  PROVE  \/ qpc' \in {"down", "loop"} /\ (qpc' = "loop" => qpc = "down")
              /\ qattempt' \in {0, qattempt} /\ (qpc # "down" => qattempt' = 0)
         \/ qpc' = qpc /\ qattempt' = qattempt
BY DEF QuickEnvironment, QuickPeerStep, QuickStartupStep, QuickProcessStep, QuickSpawn,
   QuickKill, FinalizeBlock, CtrlC, quickVars

LEMMA QuickWorkInvariance == QuickSafetySpec => []QuickWorkInv
<1>1. QuickInit => QuickWorkInv
  BY DEF QuickInit, QuickIdle, QuickWorkInv
<1>2. QuickInv /\ QuickWorkInv /\ [QuickNext]_quickSpecVars => QuickWorkInv'
  <2> SUFFICES ASSUME QuickInv, QuickWorkInv, [QuickNext]_quickSpecVars
               PROVE  QuickWorkInv'
    OBVIOUS
  <2>1. MaxRetries \in Nat \ {0} /\ qattempt \in Nat
    BY ConfigAssumption DEF QuickInv, QuickTypeOK
  <2>2. CASE QuickStep
    BY <2>1, <2>2, CycleStep DEF QuickWorkInv
  <2>3. CASE QuickEnvironment
    BY <2>1, <2>3, CycleEnvironment DEF QuickWorkInv
  <2>4. CASE UNCHANGED quickSpecVars
    BY <2>4 DEF quickSpecVars, quickVars, QuickWorkInv
  <2> QED
    BY <2>2, <2>3, <2>4 DEF QuickNext
<1> QED
  BY <1>1, <1>2, QuickInvariance, PTL DEF QuickSafetySpec

(* A cycle takes at most 5 * max_retries + 5 steps, for every max_retries  *)
(* and whatever happens meanwhile, and after a termination request it is   *)
(* the last one.                                                           *)
THEOREM QuickCyclesAreBounded == QuickSafetySpec => QuickCycleEnds
<1>1. QuickInv /\ QuickWorkInv /\ [QuickNext]_quickSpecVars
        => [/\ QuickStep /\ (qpc = "loop" => shouldTerminate)
                 => StepsLeft' \in Nat /\ StepsLeft' < StepsLeft
            /\ QuickEnvironment /\ qpc # "down" /\ qpc' # "down"
                 => StepsLeft' = StepsLeft]_quickSpecVars
  <2>1. ASSUME QuickInv, QuickWorkInv, QuickStep, qpc = "loop" => shouldTerminate
        PROVE  StepsLeft' \in Nat /\ StepsLeft' < StepsLeft
    <3>1. MaxRetries \in Nat \ {0} /\ qattempt \in Nat
      BY <2>1, ConfigAssumption DEF QuickInv, QuickTypeOK
    <3> QED
      BY <2>1, <3>1, CycleStep DEF StepsLeft, QuickWorkInv
  <2>2. ASSUME QuickEnvironment, qpc # "down", qpc' # "down"
        PROVE  StepsLeft' = StepsLeft
    BY <2>2, CycleEnvironment DEF StepsLeft
  <2> QED
    BY <2>1, <2>2
<1> QED
  BY <1>1, QuickInvariance, QuickWorkInvariance, PTL DEF QuickSafetySpec, QuickCycleEnds
=============================================================================
