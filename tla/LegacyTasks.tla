---------------------------- MODULE LegacyTasks ----------------------------
(***************************************************************************)
(* The tasks of the legacy CLI (src/commands/mod.rs): both commands spawn  *)
(* one task per block, each of which asks the node for the block and       *)
(* upserts what it is answered, several times if need be, under one        *)
(* timeout; then they join all of them.  Asking reads nothing that a       *)
(* concurrent task changes, so an attempt is one step, at its write.       *)
(* BatchSize and MaxRetries are --loopsize and MAX_RETRIES of the CLI.     *)
(***************************************************************************)
EXTENDS IndexStore, FiniteSetsExt

CONSTANTS
  TaskTimeout,  \* TASK_TIMEOUT, in seconds (300)
  FirstPartial  \* from this block on nodes leave out totalDifficulty

ASSUME TaskAssumption == TaskTimeout \in Nat /\ FirstPartial \in Nat

VARIABLES
  tries,         \* the attempts made so far by each task that still runs
  failedBlocks,  \* failed_blocks of the batch
  incomplete,    \* the stored headers with a column that is NULL
  misplaced      \* history: the blocks for which another header was written

taskVars == <<tries, failedBlocks, incomplete, misplaced>>

NoTasks == [b \in {} |-> 0]

TasksTypeOK ==
  /\ DOMAIN tries \subseteq Int
  /\ \A b \in DOMAIN tries : tries[b] \in 0 .. MaxRetries - 1
  /\ failedBlocks \subseteq Int
  /\ incomplete \subseteq headers
  /\ misplaced \subseteq Int

SpawnTasks(blocks) ==
  /\ tries' = [b \in blocks |-> 0]
  /\ failedBlocks' = {}
  /\ UNCHANGED <<incomplete, misplaced>>

EndTask(b) == tries' = [c \in DOMAIN tries \ {b} |-> tries[c]]

FailTask(b) == EndTask(b) /\ failedBlocks' = failedBlocks \cup {b}

(* apply_exponential_backoff sleeps 5 * n^2 seconds after attempt n: what  *)
(* the sleeps after the first k attempts add up to.                        *)
Backoffs(k) == (5 * k * (k + 1) * (2 * k + 1)) \div 6

(* Bug: one attempt more than MAX_RETRIES.                                 *)
RetryTask_OneMore(b) ==
  IF tries[b] < MaxRetries /\ Backoffs(tries[b] + 1) <= TaskTimeout
  THEN tries' = [tries EXCEPT ![b] = @ + 1] /\ UNCHANGED failedBlocks
  ELSE FailTask(b)

(* After a failed attempt: the next one, unless it was the last or the     *)
(* sleep outlasts the timeout of the task.                                 *)
RetryTask(b) ==
  IF tries[b] + 1 < MaxRetries /\ Backoffs(tries[b] + 1) <= TaskTimeout
  THEN tries' = [tries EXCEPT ![b] = @ + 1] /\ UNCHANGED failedBlocks
  ELSE FailTask(b)

(* The upsert sets every column from the header.                           *)
Upsert(number) ==
  /\ headers' = headers \cup {number}
  /\ incomplete' = IF number < FirstPartial THEN incomplete \ {number}
                                            ELSE incomplete \cup {number}

(* write_blockheader: one transaction, whatever block was asked for.       *)
write_blockheader(number, ok) ==
  \/ Upsert(number) /\ Outcome(ok, "lostAck")
  \/ ~ok /\ Fault("dbWrite") /\ UNCHANGED <<headers, incomplete>>

(* One attempt of the task for block b; update retries a failed write and  *)
(* fill_gaps does not.                                                     *)
Attempt(b, retriesWrites) ==
  \/ /\ Fault("rpcBlock")
     /\ RetryTask(b)
     /\ UNCHANGED <<headers, incomplete, misplaced>>
  \/ /\ \E ok \in BOOLEAN :
          /\ write_blockheader(b, ok)
          /\ \/ ok /\ EndTask(b) /\ UNCHANGED failedBlocks
             \/ ~ok /\ retriesWrites /\ RetryTask(b)
             \/ ~ok /\ ~retriesWrites /\ FailTask(b)
     /\ UNCHANGED misplaced
  \/ /\ Fault("rpcBlock")
     /\ \E number \in Blocks \ {b} : Upsert(number)
     /\ misplaced' = misplaced \cup {b}
     /\ EndTask(b) /\ UNCHANGED failedBlocks

(* tokio::time::timeout drops the task, perhaps while it commits.          *)
TimeOut(b) ==
  /\ Fault("timeout")
  /\ FailTask(b)
  /\ Upsert(b) \/ UNCHANGED <<headers, incomplete>>
  /\ UNCHANGED misplaced

TaskStep(retriesWrites) ==
  /\ \E b \in DOMAIN tries : Attempt(b, retriesWrites) \/ TimeOut(b)
  /\ UNCHANGED <<meta, finalized, shouldTerminate>>

(* join_all returns.                                                       *)
TasksJoined == DOMAIN tries = {}
=============================================================================
