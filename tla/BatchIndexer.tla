---------------------------- MODULE BatchIndexer ----------------------------
(***************************************************************************)
(* The batch indexer service (src/indexer/batch_service.rs): scans the     *)
(* range from indexing_starting_block_number to backfilling_block_number   *)
(* (to current_latest_block_number while that is NULL) for blocks that are *)
(* not stored, fetches them in chunks, and marks the backfill complete     *)
(* when a scan finds none.  One action per await point of the service; the *)
(* rest of the system is the environment, restricted to what the quick     *)
(* indexer, the startup code and the operator may do.                      *)
(***************************************************************************)
EXTENDS IndexStore

CONSTANTS
  ChunkSize,       \* chunk_size of find_missing_blocks_with_db (10000)
  OverflowChecks,  \* does arithmetic overflow panic (a debug build) or wrap
  Watermarks       \* bound: the current_latest_block_number values others write

ASSUME BatchConfigAssumption ==
  /\ ChunkSize \in Nat \ {0}
  /\ OverflowChecks \in BOOLEAN
  /\ Watermarks \subseteq Nat

VARIABLES
  bpc,       \* where the service is
  bstart,    \* index_start_block_number, as read in the cycle
  bend,      \* backfilling_block_number or current_latest_block_number
  bnext,     \* current_start of the scan
  bmissing,  \* what the scan found so far
  btodo,     \* the missing blocks whose chunk is not stored yet
  bpass,     \* which of the cycle's scans: "find" or "check"
  battempt,  \* retry_attempt
  banswer    \* the headers received for the chunk

batchVars == <<bpc, bstart, bend, bnext, bmissing, btodo, bpass, battempt, banswer>>
batchSpecVars == <<storeVars, batchVars>>

BatchPCs == {"down", "init", "loop", "read", "scan", "chunks", "retry", "fetch",
             "store", "backoff", "progress", "mark", "sleep", "done", "failed",
             "panicked"}

BatchRunning == bpc \notin {"down", "done", "failed", "panicked"}

NoHeaders == [b \in {} |-> NULL]

BatchTypeOK ==
  /\ StoreTypeOK
  /\ bpc \in BatchPCs
  /\ bstart \in Int /\ bend \in Int /\ bnext \in Int
  /\ bmissing \subseteq Int /\ btodo \subseteq Int
  /\ bpass \in {"find", "check"}
  /\ battempt \in Nat

BatchIdle ==
  /\ bpc = "down"
  /\ bstart = 0 /\ bend = 0 /\ bnext = 0 /\ battempt = 0
  /\ bmissing = {} /\ btodo = {}
  /\ bpass = "find"
  /\ banswer = NoHeaders

(* A cycle or the service returns: its local variables are gone.           *)
BatchReturn(pc) ==
  /\ bpc' = pc
  /\ bstart' = 0 /\ bend' = 0 /\ bnext' = 0 /\ battempt' = 0
  /\ bmissing' = {} /\ btodo' = {}
  /\ bpass' = "find"
  /\ banswer' = NoHeaders

(* missing_blocks.chunks(batch_size): the next chunk is the lowest blocks. *)
NextChunk ==
  {b \in btodo : Cardinality({c \in btodo : c < b}) < BatchSize}

-----------------------------------------------------------------------------
(* The metadata read that index() starts with.                             *)
BatchInitialRead ==
  /\ bpc = "init"
  /\ \E ok \in BOOLEAN :
       /\ Query(ok)
       /\ bpc' = IF ok /\ meta # NoRow THEN "loop" ELSE "failed"
  /\ UNCHANGED <<headers, meta, finalized, shouldTerminate>>
  /\ UNCHANGED <<bstart, bend, bnext, bmissing, btodo, bpass, battempt, banswer>>

(* while !should_terminate                                                 *)
BatchLoop ==
  /\ bpc = "loop"
  /\ bpc' = IF shouldTerminate THEN "done" ELSE "read"
  /\ UNCHANGED <<storeVars, bstart, bend, bnext, bmissing, btodo, bpass, battempt, banswer>>

(* find_missing_blocks begins a scan of bstart .. bend.                    *)
BeginScan(from, pass) ==
  /\ bpc' = "scan"
  /\ bnext' = from
  /\ bmissing' = {}
  /\ bpass' = pass

(* The cycle's metadata read fixes the range for the whole cycle.          *)
BatchRead ==
  /\ bpc = "read"
  /\ \E ok \in BOOLEAN :
       /\ Query(ok)
       /\ IF ok /\ meta # NoRow
          THEN /\ bstart' = meta.start
               /\ bend' = BackfillEnd(meta)
               /\ BeginScan(meta.start, "find")
               /\ UNCHANGED <<btodo, battempt, banswer>>
          ELSE BatchReturn("failed")
  /\ UNCHANGED <<headers, meta, finalized, shouldTerminate>>

(* Bug: the upper end of a chunk is left out.                              *)
BatchScan_ExclusiveEnd ==
  /\ bpc = "scan" /\ bnext <= bend
  /\ LET last == IF bnext + ChunkSize - 1 < bend THEN bnext + ChunkSize - 1 ELSE bend
     IN  \/ /\ Query(TRUE)
            /\ bmissing' = bmissing \cup Missing(bnext, last - 1)
            /\ bnext' = last + 1
            /\ UNCHANGED <<bpc, bstart, bend, btodo, bpass, battempt, banswer>>
         \/ Query(FALSE) /\ BatchReturn("failed")
  /\ UNCHANGED <<headers, meta, finalized, shouldTerminate>>

(* One SELECT of the scan, over at most ChunkSize numbers.                 *)
BatchScan ==
  /\ bpc = "scan" /\ bnext <= bend
  /\ LET last == IF bnext + ChunkSize - 1 < bend THEN bnext + ChunkSize - 1 ELSE bend
     IN  \/ /\ Query(TRUE)
            /\ bmissing' = bmissing \cup Missing(bnext, last)
            /\ bnext' = last + 1
            /\ UNCHANGED <<bpc, bstart, bend, btodo, bpass, battempt, banswer>>
         \/ Query(FALSE) /\ BatchReturn("failed")
  /\ UNCHANGED <<headers, meta, finalized, shouldTerminate>>

(* Bug: is_backfill_complete is taken for granted after a pass.            *)
BatchScanned_NoRecheck ==
  /\ bpc = "scan" /\ bnext > bend
  /\ \/ bpass = "find"  /\ bmissing = {} /\ bpc' = "mark"
     \/ bpass = "find"  /\ bmissing # {} /\ bpc' = "chunks"
     \/ bpass = "check" /\ bpc' = "progress"
  /\ btodo' = IF bpass = "find" THEN bmissing ELSE {}
  /\ bmissing' = {}
  /\ UNCHANGED <<storeVars, bstart, bend, bnext, bpass, battempt, banswer>>

(* What process_missing_blocks_cycle does with a finished scan.            *)
BatchScanned ==
  /\ bpc = "scan" /\ bnext > bend
  /\ \/ bpass = "find"  /\ bmissing = {} /\ bpc' = "mark"
     \/ bpass = "find"  /\ bmissing # {} /\ bpc' = "chunks"
     \/ bpass = "check" /\ bmissing = {} /\ bpc' = "progress"
     \/ bpass = "check" /\ bmissing # {} /\ bpc' = "sleep"
  /\ btodo' = IF bpass = "find" THEN bmissing ELSE {}
  /\ bmissing' = {}
  /\ UNCHANGED <<storeVars, bstart, bend, bnext, bpass, battempt, banswer>>

(* Bug: breaking out of the loop counts as having finished it.             *)
BatchChunk_BreakIsDone ==
  /\ bpc = "chunks"
  /\ IF btodo = {} \/ shouldTerminate
     THEN /\ bpc' = "mark"
          /\ UNCHANGED <<bnext, bmissing, bpass, battempt>>
     ELSE /\ bpc' = "retry"
          /\ battempt' = 0
          /\ UNCHANGED <<bnext, bmissing, bpass>>
  /\ UNCHANGED <<storeVars, bstart, bend, btodo, banswer>>

(* The loop of process_missing_blocks_in_batches; is_backfill_complete     *)
(* then scans the same range again, also after a termination request.      *)
BatchChunk ==
  /\ bpc = "chunks"
  /\ IF btodo = {} \/ shouldTerminate
     THEN /\ BeginScan(bstart, "check")
          /\ UNCHANGED battempt
     ELSE /\ bpc' = "retry"
          /\ battempt' = 0
          /\ UNCHANGED <<bnext, bmissing, bpass>>
  /\ UNCHANGED storeVars
  /\ UNCHANGED <<bstart, bend, btodo, banswer>>

(* Bug: the last attempt is not made.                                      *)
BatchRetry_OneLess ==
  /\ bpc = "retry"
  /\ IF battempt + 1 >= MaxRetries \/ shouldTerminate
     THEN BatchReturn("failed")
     ELSE /\ bpc' = "fetch"
          /\ UNCHANGED <<bstart, bend, bnext, bmissing, btodo, bpass, battempt, banswer>>
  /\ UNCHANGED storeVars

(* The head of the loop of fill_missing_blocks.                            *)
BatchRetry ==
  /\ bpc = "retry"
  /\ IF battempt >= MaxRetries \/ shouldTerminate
     THEN BatchReturn("failed")
     ELSE /\ bpc' = "fetch"
          /\ UNCHANGED <<bstart, bend, bnext, bmissing, btodo, bpass, battempt, banswer>>
  /\ UNCHANGED storeVars

(* Bug: a failed request is logged and otherwise ignored.                  *)
validate_block_header_FailuresIgnored(number, expected) == number \in {expected, NULL}

(* Bug: the number in an answered header is not compared.                  *)
validate_block_header_NoNumberCheck(number, expected) == number # NULL

(* validate_block_header                                                   *)
validate_block_header(number, expected) == number = expected

(* fetch_specific_blocks and try_fetch_missing_blocks: an error, a timeout *)
(* or a wrong number for any block fails the attempt, and the last failed  *)
(* attempt ends the service.                                               *)
BatchFetch ==
  /\ bpc = "fetch"
  /\ \E answer \in HeaderAnswers(NextChunk) :
       LET complete == \A b \in NextChunk : validate_block_header(answer[b], b)
       IN  /\ Outcome(Honest(answer), "rpcBlock")
           /\ \/ /\ complete
                 /\ bpc' = "store" /\ banswer' = answer
                 /\ UNCHANGED <<bstart, bend, bnext, bmissing, btodo, bpass, battempt>>
              \/ /\ ~complete /\ battempt < MaxRetries - 1
                 /\ bpc' = "backoff"
                 /\ UNCHANGED <<bstart, bend, bnext, bmissing, btodo, bpass, battempt, banswer>>
              \/ /\ ~complete /\ battempt = MaxRetries - 1
                 /\ BatchReturn("failed")
  /\ UNCHANGED <<headers, meta, finalized, shouldTerminate>>

(* Bug: the chunk that was stored is not taken off the list.               *)
BatchStore_SameChunk ==
  /\ bpc = "store"
  /\ \E ok \in BOOLEAN :
       /\ StoreHeaders(Received(banswer), meta, ok)
       /\ IF ok
          THEN /\ bpc' = "chunks"
               /\ banswer' = NoHeaders /\ battempt' = 0
               /\ UNCHANGED <<bstart, bend, bnext, bmissing, btodo, bpass>>
          ELSE BatchReturn("failed")
  /\ UNCHANGED <<finalized, shouldTerminate>>

(* store_gap_blocks: one transaction, which is not retried.                *)
BatchStore ==
  /\ bpc = "store"
  /\ \E ok \in BOOLEAN :
       /\ StoreHeaders(Received(banswer), meta, ok)
       /\ IF ok
          THEN /\ bpc' = "chunks" /\ btodo' = btodo \ NextChunk
               /\ banswer' = NoHeaders /\ battempt' = 0
               /\ UNCHANGED <<bstart, bend, bnext, bmissing, bpass>>
          ELSE BatchReturn("failed")
  /\ UNCHANGED <<finalized, shouldTerminate>>

(* apply_fetch_retry_backoff computes (retry_attempt + 1)^2 * 5 in u8: the *)
(* product fits up to attempt 6; beyond, it panics where overflow is       *)
(* checked and otherwise wraps to some other delay.                        *)
U8Max == 255

BatchBackoff ==
  /\ bpc = "backoff"
  /\ IF OverflowChecks /\ (battempt + 1) * (battempt + 1) * 5 > U8Max
     THEN BatchReturn("panicked")
     ELSE /\ bpc' = "retry" /\ battempt' = battempt + 1
          /\ UNCHANGED <<bstart, bend, bnext, bmissing, btodo, bpass, banswer>>
  /\ UNCHANGED storeVars

(* Bug: the progress goes into the wrong column.                           *)
BatchProgress_WrongColumn ==
  /\ bpc = "progress"
  /\ \E ok \in BOOLEAN :
       /\ Transaction(headers, [meta EXCEPT !.latest = bstart], ok)
       /\ IF ok
          THEN /\ bpc' = "mark"
               /\ UNCHANGED <<bstart, bend, bnext, bmissing, btodo, bpass, battempt, banswer>>
          ELSE BatchReturn("failed")
  /\ UNCHANGED <<finalized, shouldTerminate>>

(* update_backfilling_progress: a transaction of its own.                  *)
BatchProgress ==
  /\ bpc = "progress"
  /\ \E ok \in BOOLEAN :
       /\ Transaction(headers, [meta EXCEPT !.cursor = bstart], ok)
       /\ IF ok
          THEN /\ bpc' = "mark"
               /\ UNCHANGED <<bstart, bend, bnext, bmissing, btodo, bpass, battempt, banswer>>
          ELSE BatchReturn("failed")
  /\ UNCHANGED <<finalized, shouldTerminate>>

(* mark_backfill_complete: another transaction; then the service ends.     *)
BatchMark ==
  /\ bpc = "mark"
  /\ \E ok \in BOOLEAN :
       /\ Transaction(headers, [meta EXCEPT !.backfilling = FALSE], ok)
       /\ BatchReturn(IF ok THEN "done" ELSE "failed")
  /\ UNCHANGED <<finalized, shouldTerminate>>

(* The sleep between two cycles ends.                                      *)
BatchSleep ==
  /\ bpc = "sleep"
  /\ BatchReturn("loop")
  /\ UNCHANGED storeVars

BatchStep ==
  \/ BatchInitialRead \/ BatchLoop \/ BatchRead \/ BatchScan \/ BatchScanned
  \/ BatchChunk \/ BatchRetry \/ BatchFetch \/ BatchStore \/ BatchBackoff
  \/ BatchProgress \/ BatchMark \/ BatchSleep

(* The service is spawned once the startup code has written the row.       *)
BatchSpawn ==
  /\ bpc = "down"
  /\ meta # NoRow
  /\ bpc' = "init"
  /\ UNCHANGED <<bstart, bend, bnext, bmissing, btodo, bpass, battempt, banswer>>

-----------------------------------------------------------------------------
(* The environment of the service: what the rest of the program may do.    *)

(* The quick indexer stores the blocks that follow its watermark and moves *)
(* the watermark over them, in one transaction.                            *)
BatchPeerStep ==
  /\ meta # NoRow
  /\ \/ \E w \in Watermarks :
          /\ w > meta.latest
          /\ headers' = headers \cup (meta.latest + 1 .. w)
          /\ meta' = [meta EXCEPT !.latest = w]
     \/ UNCHANGED <<headers, meta>>
  /\ FaultsElsewhere
  /\ UNCHANGED <<finalized, shouldTerminate, batchVars>>

(* While the service is not there a new process starts and its startup     *)
(* code writes any row.                                                    *)
BatchStartupStep ==
  /\ bpc = "down"
  /\ \/ UNCHANGED meta
     \/ \E w \in Watermarks, flag \in BOOLEAN, cursor \in Cursors :
          meta' = [latest |-> w, start |-> 0,
                   backfilling |-> flag, cursor |-> cursor]
  /\ shouldTerminate' \in {shouldTerminate, FALSE}
  /\ FaultsElsewhere
  /\ UNCHANGED <<headers, finalized, batchVars>>

BatchProcessStep ==
  /\ \/ BatchSpawn
     \/ bpc # "down" /\ (BatchRunning => "crash" \in Faults) /\ BatchReturn("down")
  /\ FaultsElsewhere
  /\ UNCHANGED <<headers, meta, finalized, shouldTerminate>>

BatchEnvironment ==
  \/ BatchPeerStep
  \/ BatchStartupStep
  \/ BatchProcessStep
  \/ FinalizeBlock /\ UNCHANGED batchVars
  \/ CtrlC /\ UNCHANGED batchVars

BatchInit ==
  /\ headers \in SUBSET Blocks
  /\ meta \in InitialRows
  /\ finalized \in Blocks
  /\ shouldTerminate = FALSE
  /\ faults = 0
  /\ BatchIdle

BatchNext == BatchStep \/ BatchEnvironment

BatchSafetySpec == BatchInit /\ [][BatchNext]_batchSpecVars

(* The runtime keeps polling the service's task.                           *)
BatchSpec == BatchSafetySpec /\ WF_batchSpecVars(BatchStep)

-----------------------------------------------------------------------------
(* The service moves its cursor or clears is_backfilling only when every   *)
(* block of the range it read at the start of the cycle is stored, even if *)
(* the cycle was cut short by a termination request or the range was       *)
(* scanned in several SELECTs while the quick indexer kept writing.        *)
BatchReportsHonestly ==
  [][bpc # "down" /\ meta # NoRow
       /\ <<meta'.backfilling, meta'.cursor>> # <<meta.backfilling, meta.cursor>>
     => bstart .. bend \subseteq headers]_batchSpecVars

(* A service that ended by itself has left a row that says the backfill is *)
(* complete, and the range that row describes is stored, including what    *)
(* the quick indexer published since the scan when the cursor is NULL.     *)
BatchDoneMeansComplete ==
  bpc = "done" /\ ~shouldTerminate =>
    ~meta.backfilling /\ BackfillRange(meta) \subseteq headers

(* The service comes round for a second cycle only to find that it has to  *)
(* stop: the blocks the first scan notes and those the chunks store leave  *)
(* nothing for the scan that checks them, whatever else is being written.  *)
BatchOneCycle == bpc = "sleep" => shouldTerminate

(* Whatever numbers the nodes put into their answers, the service stores   *)
(* only blocks of its own range.                                           *)
BatchStaysInRange ==
  [][bpc = "store" /\ meta' = meta => headers' \ headers \subseteq bstart .. bend]_batchSpecVars

(* The retry loop gives up only on a termination request or after at least *)
(* max_retries faults: fewer failed fetches of a chunk are absorbed,       *)
(* whatever delay is computed between them.                                *)
BatchAbsorbsFaults ==
  [][bpc' \in {"failed", "panicked"} /\ bpc \in {"retry", "fetch", "backoff"}
     => shouldTerminate \/ faults' >= MaxRetries]_batchSpecVars

(* How far the service is from its end: the stage of the cycle, what is    *)
(* left to scan or to fill in that stage, and what is left of the attempts *)
(* at the present chunk, four steps for each.                              *)
Filling == bpc \in {"chunks", "retry", "fetch", "store", "backoff"}

StageLeft ==
  CASE bpc = "init" -> 10
    [] bpc = "loop" -> IF shouldTerminate THEN 1 ELSE 9
    [] bpc = "read" -> 8
    [] bpc = "scan" -> IF bpass = "find" THEN 7 ELSE 5
    [] Filling -> 6
    [] bpc = "progress" -> 4
    [] bpc = "mark" -> 3
    [] bpc = "sleep" -> 2
    [] OTHER -> 0

BlocksLeft ==
  IF bpc = "scan" /\ bnext <= bend THEN bend - bnext + 1
  ELSE IF Filling THEN Cardinality(btodo)
  ELSE 0

AttemptsLeft ==
  CASE bpc = "chunks"  -> 4 * MaxRetries + 1
    [] bpc = "retry"   -> 4 * (MaxRetries - battempt)
    [] bpc = "fetch"   -> 4 * (MaxRetries - battempt) - 1
    [] bpc = "store"   -> 4 * (MaxRetries - battempt) - 2
    [] bpc = "backoff" -> 4 * (MaxRetries - battempt) - 3
    [] OTHER -> 0

work == <<StageLeft, BlocksLeft, AttemptsLeft>>

(* The work that is left, in lexicographic order.                          *)
WorkDrops ==
  /\ work' \in Nat \X Nat \X Nat
  /\ \/ StageLeft' < StageLeft
     \/ StageLeft' = StageLeft /\ BlocksLeft' < BlocksLeft
     \/ /\ StageLeft' = StageLeft /\ BlocksLeft' = BlocksLeft
        /\ AttemptsLeft' < AttemptsLeft

(* Every step of the service brings it nearer to its end, and nothing that *)
(* happens meanwhile takes it back: no chunk is filled twice, no attempt   *)
(* is made again, and the range does not grow under the scan.              *)
BatchWorkDrops ==
  [][/\ BatchStep => WorkDrops
     /\ bpc # "down" /\ bpc' # "down" => WorkDrops \/ work' = work]_batchSpecVars

(* The service comes to an end, with the backfill complete, on a failure   *)
(* or because termination was requested: no chunk is filled for ever and   *)
(* the range does not outrun the scan.                                     *)
BatchFinishes == []<>~BatchRunning
=============================================================================
