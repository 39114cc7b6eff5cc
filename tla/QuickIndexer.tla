---------------------------- MODULE QuickIndexer ----------------------------
(***************************************************************************)
(* The quick indexer service (src/indexer/quick_service.rs): follows the   *)
(* chain from index_metadata.current_latest_block_number, one range of at  *)
(* most BatchSize blocks at a time.  One action per await point of the     *)
(* service; the rest of the system is the environment, restricted to what  *)
(* the batch indexer, the startup code and the operator may do.            *)
(***************************************************************************)
EXTENDS IndexStore

VARIABLES
  qpc,       \* where the service is
  qlast,     \* last_block_number, as read at the start of the cycle
  qend,      \* ending_block of the range being indexed
  qattempt,  \* retry_attempt
  qanswer,   \* the headers received for the range
  qbase      \* history: current_latest_block_number when the service started

quickVars == <<qpc, qlast, qend, qattempt, qanswer, qbase>>
quickSpecVars == <<storeVars, quickVars>>

QuickPCs == {"down", "loop", "read", "poll", "sleep", "retry", "fetch",
             "store", "verify", "backoff", "done", "failed"}

QuickRunning == qpc \notin {"down", "done", "failed"}

NoAnswers == [b \in {} |-> NULL]

QuickTypeOK ==
  /\ StoreTypeOK
  /\ qpc \in QuickPCs
  /\ qlast \in Int /\ qend \in Int /\ qbase \in Int
  /\ qattempt \in Nat
  /\ DOMAIN qanswer \subseteq Int

QuickIdle ==
  /\ qpc = "down"
  /\ qlast = 0 /\ qend = 0 /\ qattempt = 0 /\ qbase = 0
  /\ qanswer = NoAnswers

(* A cycle or the service returns: its local variables are gone.           *)
QuickReturn(pc) ==
  /\ qpc' = pc
  /\ qlast' = 0 /\ qend' = 0 /\ qattempt' = 0
  /\ qanswer' = NoAnswers
  /\ UNCHANGED qbase

-----------------------------------------------------------------------------
(* Bug: the loop does not look at the flag.                                *)
QuickLoop_IgnoresFlag ==
  /\ qpc = "loop"
  /\ qpc' = "read"
  /\ UNCHANGED <<storeVars, qlast, qend, qattempt, qanswer, qbase>>

(* while !should_terminate                                                 *)
QuickLoop ==
  /\ qpc = "loop"
  /\ qpc' = IF shouldTerminate THEN "done" ELSE "read"
  /\ UNCHANGED <<storeVars, qlast, qend, qattempt, qanswer, qbase>>

(* get_last_indexed_block: any failure ends the service.                   *)
QuickRead ==
  /\ qpc = "read"
  /\ \E ok \in BOOLEAN :
       /\ Query(ok)
       /\ IF ok /\ meta # NoRow
          THEN /\ qpc' = "poll"
               /\ qlast' = meta.latest
               /\ UNCHANGED <<qend, qattempt, qanswer, qbase>>
          ELSE QuickReturn("failed")
  /\ UNCHANGED <<headers, meta, finalized, shouldTerminate>>

(* Bug: any other tip counts as new, also an older one.                    *)
has_new_blocks_AnyChange(last, tip) == tip # last

(* Bug: off by one, the newest block never counts.                         *)
has_new_blocks_OffByOne(last, tip) == tip > last + 1

has_new_blocks(last, tip) == tip > last

(* Bug: always a full batch.                                               *)
calculate_ending_block_FullBatch(last, tip) == last + BatchSize

calculate_ending_block(last, tip) ==
  IF tip - last > BatchSize THEN last + BatchSize ELSE tip

(* get_latest_finalized_block answers; then index_new_blocks begins, or    *)
(* wait_for_new_blocks sleeps.                                             *)
QuickPolled(newLatest) ==
  /\ qpc = "poll"
  /\ IF has_new_blocks(qlast, newLatest)
     THEN qpc' = "retry" /\ qend' = calculate_ending_block(qlast, newLatest)
     ELSE qpc' = "sleep" /\ UNCHANGED qend
  /\ UNCHANGED <<storeVars, qlast, qattempt, qanswer, qbase>>

(* An RPC error instead ends the service.                                  *)
QuickPollFails ==
  /\ qpc = "poll"
  /\ Fault("rpcTip")
  /\ QuickReturn("failed")
  /\ UNCHANGED <<headers, meta, finalized, shouldTerminate>>

QuickPoll == QuickPollFails \/ \E answer \in TipAnswers : QuickPolled(answer)

(* The sleep of wait_for_new_blocks ends.                                  *)
QuickSleep ==
  /\ qpc = "sleep"
  /\ QuickReturn("loop")
  /\ UNCHANGED storeVars

(* Bug: the last attempt is not made.                                      *)
QuickRetry_OneLess ==
  /\ qpc = "retry"
  /\ IF qattempt + 1 >= MaxRetries \/ shouldTerminate
     THEN QuickReturn("failed")
     ELSE qpc' = "fetch" /\ UNCHANGED <<qlast, qend, qattempt, qanswer, qbase>>
  /\ UNCHANGED storeVars

(* The head of the loop of retry_with_backoff.  Breaking out of it on a    *)
(* termination request reaches the same Err as exhausting the attempts.    *)
QuickRetry ==
  /\ qpc = "retry"
  /\ IF qattempt >= MaxRetries \/ shouldTerminate
     THEN QuickReturn("failed")
     ELSE qpc' = "fetch" /\ UNCHANGED <<qlast, qend, qattempt, qanswer, qbase>>
  /\ UNCHANGED storeVars

(* Bug: the number in an answered header is not compared.                  *)
process_rpc_responses_NoNumberCheck(answer) ==
  \A b \in DOMAIN answer : answer[b] # NULL

(* Bug: a failed request is logged and otherwise ignored.                  *)
process_rpc_responses_FailuresIgnored(answer) ==
  \A b \in DOMAIN answer : answer[b] \in {b, NULL}

(* process_rpc_responses: all answered, each with the requested number.    *)
process_rpc_responses(answer) == \A b \in DOMAIN answer : answer[b] = b

(* fetch_block_headers: every request of the range, joined.                *)
QuickFetch ==
  /\ qpc = "fetch"
  /\ \E answer \in HeaderAnswers(qlast + 1 .. qend) :
       /\ Outcome(Honest(answer), "rpcBlock")
       /\ IF process_rpc_responses(answer)
          THEN qpc' = "store" /\ qanswer' = answer
          ELSE qpc' = "backoff" /\ UNCHANGED qanswer
  /\ UNCHANGED <<headers, meta, finalized, shouldTerminate>>
  /\ UNCHANGED <<qlast, qend, qattempt, qbase>>

(* Bug: the update also clears is_backfilling.                             *)
QuickStore_ClearsFlag ==
  /\ qpc = "store"
  /\ \E ok \in BOOLEAN :
       /\ StoreHeaders(Received(qanswer),
                       [meta EXCEPT !.latest = qend, !.backfilling = FALSE], ok)
       /\ qpc' = IF ok THEN "verify" ELSE "backoff"
  /\ qanswer' = NoAnswers
  /\ UNCHANGED <<finalized, shouldTerminate, qlast, qend, qattempt, qbase>>

(* store_block_headers: the headers and the new watermark in one           *)
(* transaction.  (Its checks of the sorted headers repeat those of         *)
(* process_rpc_responses: the sorted numbers are consecutive and end at    *)
(* ending_block.)                                                          *)
QuickStore ==
  /\ qpc = "store"
  /\ \E ok \in BOOLEAN :
       /\ StoreHeaders(Received(qanswer),
                       [meta EXCEPT !.latest = qend], ok)
       /\ qpc' = IF ok THEN "verify" ELSE "backoff"
  /\ qanswer' = NoAnswers
  /\ UNCHANGED <<finalized, shouldTerminate, qlast, qend, qattempt, qbase>>

(* verify_blocks_stored; then the cycle ends, or the attempt failed.       *)
QuickVerify ==
  /\ qpc = "verify"
  /\ \E ok \in BOOLEAN :
       /\ Query(ok)
       /\ IF ok /\ Missing(qlast + 1, qend) = {}
          THEN QuickReturn("loop")
          ELSE qpc' = "backoff" /\ UNCHANGED <<qlast, qend, qattempt, qanswer, qbase>>
  /\ UNCHANGED <<headers, meta, finalized, shouldTerminate>>

(* Bug: the attempt is not counted.                                        *)
QuickBackoff_NotCounted ==
  /\ qpc = "backoff"
  /\ qpc' = "retry"
  /\ UNCHANGED <<storeVars, qlast, qend, qattempt, qanswer, qbase>>

(* log_and_backoff: the next attempt re-runs the whole range.              *)
QuickBackoff ==
  /\ qpc = "backoff"
  /\ qpc' = "retry"
  /\ qattempt' = qattempt + 1
  /\ UNCHANGED <<storeVars, qlast, qend, qanswer, qbase>>

QuickStep ==
  \/ QuickLoop \/ QuickRead \/ QuickPoll \/ QuickSleep \/ QuickRetry
  \/ QuickFetch \/ QuickStore \/ QuickVerify \/ QuickBackoff

-----------------------------------------------------------------------------
(* The service is spawned once the startup code has written the row.       *)
QuickSpawn ==
  /\ qpc = "down"
  /\ meta # NoRow
  /\ qpc' = "loop"
  /\ qbase' = meta.latest
  /\ UNCHANGED <<qlast, qend, qattempt, qanswer>>

(* The process ends, and the service with it, wherever it is.              *)
QuickKill ==
  /\ qpc' = "down"
  /\ qlast' = 0 /\ qend' = 0 /\ qattempt' = 0 /\ qbase' = 0
  /\ qanswer' = NoAnswers

-----------------------------------------------------------------------------
(* The environment of the service: what the rest of the program may do.    *)

(* The batch indexer adds headers, moves its cursor or clears its flag: it *)
(* never touches current_latest_block_number.                              *)
QuickPeerStep ==
  /\ meta # NoRow
  /\ \E new \in SUBSET Blocks : headers' = headers \cup new
  /\ \E flag \in BOOLEAN, cursor \in Cursors :
       meta' = [meta EXCEPT !.backfilling = flag, !.cursor = cursor]
  /\ FaultsElsewhere
  /\ UNCHANGED <<finalized, shouldTerminate, quickVars>>

(* While the service is not there a new process starts and its startup     *)
(* code writes any row.                                                    *)
QuickStartupStep ==
  /\ qpc = "down"
  /\ \/ UNCHANGED meta
     \/ \E latest \in Blocks, flag \in BOOLEAN, cursor \in Cursors :
          meta' = [latest |-> latest, start |-> 0,
                   backfilling |-> flag, cursor |-> cursor]
  /\ shouldTerminate' \in {shouldTerminate, FALSE}
  /\ FaultsElsewhere
  /\ UNCHANGED <<headers, finalized, quickVars>>

QuickProcessStep ==
  /\ \/ QuickSpawn
     \/ qpc # "down" /\ (QuickRunning => "crash" \in Faults) /\ QuickKill
  /\ FaultsElsewhere
  /\ UNCHANGED <<headers, meta, finalized, shouldTerminate>>

QuickEnvironment ==
  \/ QuickPeerStep
  \/ QuickStartupStep
  \/ QuickProcessStep
  \/ FinalizeBlock /\ UNCHANGED quickVars
  \/ CtrlC /\ UNCHANGED quickVars

QuickInit ==
  /\ headers \in SUBSET Blocks
  /\ meta \in InitialRows
  /\ finalized \in Blocks
  /\ shouldTerminate = FALSE
  /\ faults = 0
  /\ QuickIdle

QuickNext == QuickStep \/ QuickEnvironment

QuickSafetySpec == QuickInit /\ [][QuickNext]_quickSpecVars

(* The runtime keeps polling the service's task, and a node that is asked  *)
(* again and again does not lag for ever.                                  *)
QuickFairness ==
  /\ WF_quickSpecVars(QuickStep)
  /\ SF_quickSpecVars(QuickPolled(finalized))

QuickSpec == QuickSafetySpec /\ QuickFairness

-----------------------------------------------------------------------------
(* Every block between the watermark the service started from and the      *)
(* watermark readers see is stored: the transaction of                     *)
(* store_block_headers, the re-read of the row at every cycle and the      *)
(* re-run of a range whose attempt failed (or whose commit did take effect *)
(* although the service was told otherwise) never leave a hole behind      *)
(* current_latest_block_number, whatever the batch indexer writes.         *)
QuickContiguous ==
  qpc # "down" => qbase + 1 .. meta.latest \subseteq headers

(* The service never publishes a watermark the chain has not finalized,    *)
(* however far behind or ahead the row is when it starts.                  *)
QuickNotAhead ==
  qpc # "down" => meta.latest <= qbase \/ meta.latest <= finalized

(* As long as a process lives its watermark never moves back, also when a  *)
(* node answers with a tip older than an earlier answer.                   *)
QuickMonotone ==
  [][qpc # "down" => meta'.latest >= meta.latest]_quickSpecVars

(* The retry loop gives up only on a termination request or after at least *)
(* max_retries faults: every failed attempt, also one whose commit did     *)
(* take effect, is paid for by a fault of its own, and none is given up    *)
(* early.                                                                  *)
QuickAbsorbsFaults ==
  [][qpc = "retry" /\ qpc' = "failed"
     => shouldTerminate \/ faults >= MaxRetries]_quickSpecVars

(* How many steps the service may still take before it is back at the head *)
(* of its loop: five for each attempt that is left.                        *)
StepsLeft ==
  CASE qpc = "read"    -> 5 * MaxRetries + 4
    [] qpc = "poll"    -> 5 * MaxRetries + 3
    [] qpc = "retry"   -> 5 * (MaxRetries - qattempt) + 2
    [] qpc = "fetch"   -> 5 * (MaxRetries - qattempt) + 1
    [] qpc = "store"   -> 5 * (MaxRetries - qattempt)
    [] qpc = "verify"  -> 5 * (MaxRetries - qattempt) - 1
    [] qpc = "backoff" -> 5 * (MaxRetries - qattempt) - 2
    [] qpc = "sleep"   -> 2
    [] qpc = "loop"    -> 1
    [] OTHER -> 0

(* Every step of a cycle brings it nearer to its end, whatever fails and   *)
(* whatever others write, and after a termination request there is no      *)
(* other cycle.                                                            *)
QuickCycleEnds ==
  [][/\ QuickStep /\ (qpc = "loop" => shouldTerminate)
          => StepsLeft' \in Nat /\ StepsLeft' < StepsLeft
     /\ QuickEnvironment /\ qpc # "down" /\ qpc' # "down"
          => StepsLeft' = StepsLeft]_quickSpecVars

(* No single fault ends the service (what the module documentation of      *)
(* src/indexer/mod.rs says of the indexer); a run refutes it.  A fault is  *)
(* an error that the RPC client returns: a refusal, a null result, or a    *)
(* network error that outlasted the retries of the client.                 *)
QuickFaultTolerant ==
  qpc = "failed" => shouldTerminate \/ faults >= MaxRetries

(* Once termination is requested the service ends: no retry, sleep or poll *)
(* keeps it alive.                                                         *)
QuickStops == shouldTerminate ~> ~QuickRunning

(* A running service reaches the head of the chain again and again.        *)
QuickCatchesUp ==
  []<>(~QuickRunning \/ shouldTerminate \/ meta.latest >= finalized)
=============================================================================
