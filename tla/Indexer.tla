------------------------------ MODULE Indexer ------------------------------
(***************************************************************************)
(* The indexer process (src/indexer/lib.rs, src/indexer/main.rs): its      *)
(* startup code writes index_metadata and spawns the router, the quick     *)
(* indexer and the batch indexer, then waits for the three in that order.  *)
(* The process may crash at any step and be started again; the database    *)
(* survives.                                                               *)
(***************************************************************************)
EXTENDS QuickIndexer, BatchIndexer

CONSTANTS
  StartOffsets,     \* the values of start_block_offset, NULL when not set
  SafetyOffset,     \* setup_backfill_for_existing_database: 1000
  BehindThreshold,  \* should_setup_backfill_for_existing_db: 1000
  SampleSize,       \* should_setup_backfill_for_existing_db: 10000
  InitialHeaders    \* what a first process may find in blockheaders

ASSUME StartupAssumption ==
  /\ StartOffsets \subseteq Nat \cup {NULL}
  /\ SafetyOffset \in Nat /\ BehindThreshold \in Nat /\ SampleSize \in Nat
  /\ InitialHeaders \subseteq SUBSET Blocks

VARIABLES
  phase,      \* where the process is
  tip,        \* latest_block_number of initialize_index_metadata
  cursorFrom, \* backfill_from_block of initialize_index_metadata, until written
  router,     \* the router service
  joined,     \* how many handles wait_for_thread_completion has awaited
  hasErrors,  \* has_errors of wait_for_thread_completion
  exitCode,   \* how the last process ended
  skipped     \* history: blocks the last startup write stepped over

mainVars == <<phase, tip, cursorFrom, router, joined, hasErrors, exitCode, skipped>>
vars == <<storeVars, quickVars, batchVars, mainVars>>

Phases == {"down", "tip", "lookup", "insert", "cursor", "reread", "setup",
           "spawn", "running"}

TypeOK ==
  /\ QuickTypeOK /\ BatchTypeOK
  /\ phase \in Phases
  /\ tip \in Nat /\ cursorFrom \in Int
  /\ router \in {"down", "up", "done", "failed"}
  /\ joined \in 0 .. 3
  /\ hasErrors \in BOOLEAN
  /\ exitCode \in {"none", "ok", "error", "crashed"}
  /\ skipped \subseteq Nat

(* How far below the head of the chain the range to backfill ends: as      *)
(* configured, one block in a new database, a safety distance in an old.   *)
Margins == {1, SafetyOffset} \cup (StartOffsets \ {NULL})

(* The abstract specification, of the same tables.                         *)
Index == INSTANCE HeaderIndex WITH
  headers <- headers, meta <- meta, finalized <- finalized, skipped <- skipped,
  Margins <- Margins

Init ==
  /\ headers \in InitialHeaders
  /\ meta \in InitialRows
  /\ Index!FlagHonest
  /\ finalized \in Blocks
  /\ headers \subseteq 0 .. finalized
  /\ meta # NoRow => meta.latest <= finalized
  /\ shouldTerminate = FALSE
  /\ faults = 0
  /\ QuickIdle /\ BatchIdle
  /\ phase = "down" /\ tip = 0 /\ cursorFrom = 0 /\ router = "down"
  /\ joined = 0 /\ hasErrors = FALSE /\ exitCode = "none"
  /\ skipped = IF meta = NoRow THEN {} ELSE Unaccounted(headers, meta)

-----------------------------------------------------------------------------
(* The process ends: with it every service and all volatile state.         *)
ProcessEnds(code) ==
  /\ phase' = "down"
  /\ tip' = 0 /\ cursorFrom' = 0 /\ router' = "down" /\ joined' = 0 /\ hasErrors' = FALSE
  /\ exitCode' = code
  /\ QuickKill /\ BatchReturn("down")
  /\ UNCHANGED skipped

(* One step of the startup code: on to the next phase, or an error that    *)
(* start_indexing_services returns to main.                                *)
Advance(ok, next) ==
  /\ phase' = IF ok THEN next ELSE "down"
  /\ exitCode' = IF ok THEN exitCode ELSE "error"
  /\ UNCHANGED <<quickVars, batchVars, router, joined, hasErrors>>

(* A new process; the flag is false, the pool connects, migrations run.    *)
StartProcess ==
  /\ phase = "down"
  /\ shouldTerminate' = FALSE
  /\ \E ok \in BOOLEAN : Query(ok) /\ Advance(ok, "tip")
  /\ UNCHANGED <<headers, meta, finalized, tip, cursorFrom, skipped>>

StartTip ==
  /\ phase = "tip"
  /\ \E ok \in BOOLEAN, answer \in TipAnswers :
       /\ Outcome(ok, "rpcTip")
       /\ tip' = IF ok THEN answer ELSE 0
       /\ Advance(ok, "lookup")
  /\ UNCHANGED <<headers, meta, finalized, shouldTerminate, cursorFrom, skipped>>

(* should_setup_backfill_for_existing_db                                   *)
should_setup_backfill(m) ==
  LET sample_end == IF tip < m.start + SampleSize THEN tip ELSE m.start + SampleSize
      cursor == IF m.cursor = NULL THEN 0 ELSE m.cursor
  IN  \/ m.start # 0
      \/ /\ ~m.backfilling /\ cursor <= m.start
         /\ sample_end > m.start /\ Missing(m.start, sample_end) # {}
      \/ tip - m.latest > BehindThreshold

StartLookup ==
  /\ phase = "lookup"
  /\ \E ok \in BOOLEAN :
       /\ Query(ok)
       /\ \/ meta = NoRow /\ Advance(ok, "insert")
          \/ meta # NoRow /\ should_setup_backfill(meta) /\ Advance(ok, "setup")
          \/ meta # NoRow /\ ~should_setup_backfill(meta) /\ Advance(ok, "spawn")
  /\ UNCHANGED <<headers, meta, finalized, shouldTerminate, tip, cursorFrom, skipped>>

(* What a startup write leaves outside both services' reach.               *)
RecordSkipped ==
  skipped' = IF meta' = meta THEN skipped ELSE Unaccounted(headers', meta')

StartWrite(row, next) ==
  /\ \E ok \in BOOLEAN : Transaction(headers, row, ok) /\ Advance(ok, next)
  /\ RecordSkipped
  /\ UNCHANGED <<finalized, shouldTerminate, tip>>

(* backfill_from_block for a new database.                                 *)
backfill_from_new(offset) ==
  IF offset # NULL THEN tip - offset
  ELSE IF tip > 0 THEN tip - 1 ELSE 0

(* set_initial_indexing_status: the INSERT commits on its own ...          *)
StartInsert ==
  /\ phase = "insert"
  /\ \E offset \in StartOffsets :
       LET from == backfill_from_new(offset)
       IN  /\ StartWrite([latest |-> tip, start |-> 0,
                          backfilling |-> TRUE, cursor |-> NULL],
                         IF from > 0 THEN "cursor" ELSE "reread")
           /\ cursorFrom' = IF phase' = "cursor" THEN from ELSE 0

(* ... and the cursor follows in a second transaction.                     *)
StartCursor ==
  /\ phase = "cursor"
  /\ StartWrite([meta EXCEPT !.cursor = cursorFrom], "reread")
  /\ cursorFrom' = 0

StartReread ==
  /\ phase = "reread"
  /\ \E ok \in BOOLEAN : Query(ok) /\ Advance(ok /\ meta # NoRow, "spawn")
  /\ UNCHANGED <<headers, meta, finalized, shouldTerminate, tip, cursorFrom, skipped>>

(* backfill_from_block for an existing database.                           *)
backfill_from_existing(offset) ==
  IF offset # NULL THEN tip - offset
  ELSE IF tip > SafetyOffset THEN tip - SafetyOffset ELSE 0

(* Bug: the watermark is set without comparing it with the row's.          *)
StartSetup_NoCompare ==
  /\ phase = "setup"
  /\ \E offset \in StartOffsets :
       StartWrite([latest |-> tip, start |-> 0, backfilling |-> TRUE,
                   cursor |-> backfill_from_existing(offset)], "spawn")
  /\ UNCHANGED cursorFrom

(* setup_backfill_for_existing_database: one transaction.                  *)
StartSetup ==
  /\ phase = "setup"
  /\ \E offset \in StartOffsets :
       StartWrite([latest |-> IF tip > meta.latest THEN tip ELSE meta.latest,
                   start |-> 0, backfilling |-> TRUE,
                   cursor |-> backfill_from_existing(offset)], "spawn")
  /\ UNCHANGED cursorFrom

StartSpawn ==
  /\ phase = "spawn"
  /\ phase' = "running"
  /\ router' = "up"
  /\ tip' = 0 /\ cursorFrom' = 0
  /\ QuickSpawn /\ BatchSpawn
  /\ UNCHANGED <<storeVars, joined, hasErrors, exitCode, skipped>>

StartDatabase ==
  StartLookup \/ StartInsert \/ StartCursor \/ StartReread \/ StartSetup

Startup == StartTip \/ StartDatabase \/ StartSpawn

-----------------------------------------------------------------------------
(* The router serves until shutdown_signal sees the flag, or fails.        *)
RouterStop ==
  /\ router = "up" /\ shouldTerminate
  /\ router' = "done"
  /\ UNCHANGED <<storeVars, quickVars, batchVars>>
  /\ UNCHANGED <<phase, tip, cursorFrom, joined, hasErrors, exitCode, skipped>>

RouterFail ==
  /\ router = "up"
  /\ Fault("router")
  /\ router' = "failed"
  /\ UNCHANGED <<headers, meta, finalized, shouldTerminate, quickVars, batchVars>>
  /\ UNCHANGED <<phase, tip, cursorFrom, joined, hasErrors, exitCode, skipped>>

(* The handles in the order wait_for_thread_completion awaits them.        *)
handles == <<router, qpc, bpc>>

Finished(handle) == handle \in {"done", "failed", "panicked"}

(* Bug: has_errors is assigned, so a later service's success clears it.    *)
JoinNext_Overwrites ==
  /\ phase = "running" /\ joined < 3
  /\ Finished(handles[joined + 1])
  /\ joined' = joined + 1
  /\ hasErrors' = (handles[joined + 1] # "done")
  /\ UNCHANGED <<storeVars, quickVars, batchVars>>
  /\ UNCHANGED <<phase, tip, cursorFrom, router, exitCode, skipped>>

(* handle.await of the next service in order, not of the first to end.     *)
JoinNext ==
  /\ phase = "running" /\ joined < 3
  /\ Finished(handles[joined + 1])
  /\ joined' = joined + 1
  /\ hasErrors' = (hasErrors \/ handles[joined + 1] # "done")
  /\ UNCHANGED <<storeVars, quickVars, batchVars>>
  /\ UNCHANGED <<phase, tip, cursorFrom, router, exitCode, skipped>>

Exit ==
  /\ phase = "running" /\ joined = 3
  /\ ProcessEnds(IF hasErrors THEN "error" ELSE "ok")
  /\ UNCHANGED storeVars

Supervise == JoinNext \/ Exit

(* The operating system ends the process, at any step.                     *)
Crash ==
  /\ phase # "down"
  /\ Fault("crash")
  /\ ProcessEnds("crashed")
  /\ UNCHANGED <<headers, meta, finalized, shouldTerminate>>

Services ==
  \/ QuickStep /\ UNCHANGED <<batchVars, mainVars>>
  \/ BatchStep /\ UNCHANGED <<quickVars, mainVars>>
  \/ RouterStop \/ RouterFail

Operator ==
  \/ FinalizeBlock /\ UNCHANGED <<quickVars, batchVars, mainVars>>
  \/ phase # "down" /\ CtrlC /\ UNCHANGED <<quickVars, batchVars, mainVars>>

Next ==
  StartProcess \/ Startup \/ Services \/ Supervise \/ Crash \/ Operator

SafetySpec == Init /\ [][Next]_vars

(* The runtime polls every task that is ready; the main thread runs.       *)
(* Nobody has to start a process, end it, or extend the chain, and the     *)
(* node need not answer the request of StartTip: it has no timeout (the    *)
(* caller startup of RpcClient; for the others see RoundEnds there).       *)
Fairness ==
  /\ WF_vars(StartDatabase) /\ WF_vars(StartSpawn)
  /\ WF_vars(QuickStep /\ UNCHANGED <<batchVars, mainVars>>)
  /\ WF_vars(BatchStep /\ UNCHANGED <<quickVars, mainVars>>)
  /\ WF_vars(RouterStop)
  /\ WF_vars(Supervise)
  /\ SF_vars(QuickPolled(finalized) /\ UNCHANGED <<batchVars, mainVars>>)

Spec == SafetySpec /\ Fairness

-----------------------------------------------------------------------------
(* See HeaderIndex: no block falls out of both services' reach ...         *)
NoBlockLost == Index!NoBlockLost

(* ... and the row never claims a backfill complete that is not.           *)
FlagHonest == Index!FlagHonest

(* Every step of the process, its two services, a crash or a restart is a  *)
(* step of the abstract specification or leaves the tables alone.          *)
ImplementsHeaderIndex == Index!Spec

(* The rest of the process keeps to what each service assumes of it, so    *)
(* what is shown of a service alone holds of it here.                      *)
RespectsQuickIndexer == QuickSafetySpec
RespectsBatchIndexer == BatchSafetySpec

(* The watermark readers see never moves back: neither a restart, nor a    *)
(* startup against a node that lags, nor the services' concurrent writes   *)
(* to the row undo it.                                                     *)
WatermarkMonotone ==
  [][meta # NoRow => meta' # NoRow /\ meta'.latest >= meta.latest]_vars

(* A process that is not cut off outlives its three services, and reports  *)
(* success exactly when all of them ended without an error, although they  *)
(* end at different times and are awaited one after the other.             *)
ExitHonest ==
  [][phase = "running" /\ phase' = "down" /\ exitCode' # "crashed"
     => /\ \A i \in 1 .. 3 : Finished(handles[i])
        /\ exitCode' = "ok" <=> \A i \in 1 .. 3 : handles[i] = "done"]_vars

(* A termination request ends the process, wherever its services are,      *)
(* once its first request to the node has been answered.                   *)
ShutdownCompletes == shouldTerminate /\ phase # "tip" ~> phase = "down"

(* A process that is let run completes the backfill and catches up with    *)
(* the chain, whatever a crash of the one before it left behind, as long   *)
(* as only requests for headers fail, fewer of them than max_retries: a    *)
(* failed query or request for the tip ends its service.                   *)
IndexingCompletes ==
  phase = "running" ~> \/ phase = "down" \/ shouldTerminate
                       \/ /\ meta # NoRow /\ ~meta.backfilling
                          /\ meta.latest >= finalized
=============================================================================
