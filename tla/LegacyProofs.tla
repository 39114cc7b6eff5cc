---------------------------- MODULE LegacyProofs ----------------------------
(***************************************************************************)
(* The legacy commands, for every table, range, batch size, span and set   *)
(* of faults: update reports the holes it leaves and keeps behind the      *)
(* chain, fix passes no hole and no row with a NULL column.  The invariant *)
(* says of each phase of a command what its tasks and its search account   *)
(* for beyond the pointer.                                                 *)
(***************************************************************************)
EXTENDS LegacyCommands, GapSearchProofs

Updating == lpc \in {"batch", "tasks", "poll"}
Searching == lpc \in {"find", "found", "gapTasks"}
Tasking == lpc \in {"tasks", "gapTasks", "nullTasks"}

(* The highest stored number exists.                                       *)
HeadersBounded == \E n \in Nat : \A b \in headers : b <= n

(* Arguments are absent only until the command has replaced them.          *)
ArgsInv ==
  /\ lpc \in {"first", "last", "end"} => (bounded <=> last # NULL)
  /\ lpc \notin {"first", "end"} => pos \in Int
  /\ lpc \notin {"first", "last", "end", "failed"} => last \in Int
  /\ lpc = "last" => from = pos
  /\ ~Tasking => DOMAIN tries = {}

(* update: the range ends behind the chain; a range that is cut short is   *)
(* reported from its pointer on, or the process is told to end.            *)
UpdateInv ==
  /\ Updating => last <= finalized /\ (~bounded => last >= 0)
  /\ lpc = "tasks" =>
       /\ \A b \in DOMAIN tries : pos <= b /\ b <= last
       /\ \A b \in pos .. pos + BatchSize - 1 :
            b <= last => b \in DOMAIN tries \cup headers \cup misplaced \cup failedBlocks
  /\ lpc = "poll" =>
       /\ ~bounded
       /\ pos > last \/ pos \in reported \/ shouldTerminate

(* UpdateHolesReported, with the range spelled out.                        *)
HolesInv ==
  Updating =>
    \A b \in from .. last :
      b < pos => b \in headers \cup misplaced \/ \E r \in reported : r <= b

(* A --start that is a block number keeps the pointer one.                 *)
FromStartInv ==
  Starts \subseteq Nat \cup {NULL} =>
    /\ Updating \/ lpc = "last" => pos >= 0
    /\ lpc = "first" => pos = NULL \/ pos >= 0

(* fill_gaps: what lies between the pointer and the search is stored or    *)
(* found, and the search stands behind the last hole it found.             *)
GapInv ==
  /\ lpc \in {"gaps", "find", "found", "gapTasks"} => from <= pos
  /\ Searching =>
       /\ pos <= last /\ pos <= cur
       /\ found \subseteq pos .. cur - 1
       /\ pos .. cur - 1 \subseteq headers \cup found
       /\ found # {} => cur - 1 \in found
  /\ lpc = "find" => cur <= SpanEnd
  /\ lpc = "found" /\ found = {} => pos .. SpanEnd \subseteq headers
  /\ lpc = "gapTasks" =>
       /\ found # {}
       /\ found \subseteq DOMAIN tries \cup headers \cup misplaced \cup failedBlocks

(* fill_null_rows: a row of the span with a NULL column is one that nodes  *)
(* leave incomplete, or one a task still has to answer for or has failed.  *)
NullInv ==
  /\ lpc \in {"nulls", "nullTasks"} => from <= pos
  /\ lpc = "nullTasks" =>
       /\ pos <= last
       /\ found # {} /\ found \subseteq pos .. SpanEnd
       /\ \A b \in incomplete \cap (pos .. SpanEnd) :
            b >= FirstPartial \/ b \in DOMAIN tries \cup misplaced \cup failedBlocks

LegacyInv ==
  /\ LegacyTypeOK /\ HeadersBounded /\ ArgsInv /\ UpdateInv /\ FromStartInv
  /\ HolesInv
  /\ GapInv /\ FillSkipsNothing
  /\ NullInv /\ FillRepairsRows

-----------------------------------------------------------------------------
(* find_first_gap: nothing between its start and its answer is missing.    *)
LEMMA FirstGap ==
  ASSUME NEW stored, NEW start \in Int, NEW end \in Int, start <= end
  PROVE  LET gap == find_first_gap(stored, start, end, NULL)
         IN  /\ gap = NULL => start .. end \subseteq stored
             /\ gap # NULL => /\ gap \in start .. end
                              /\ start .. gap - 1 \subseteq stored
<1> DEFINE missing == missing_numbers(stored, start, end)
           gap == find_first_gap(stored, start, end, NULL)
<1>1. missing = (start .. end) \ stored
  BY DEF missing_numbers, number_series
<1>2. gap = IF missing = {} THEN NULL ELSE Min(missing)
  BY DEF find_first_gap
<1> SUFFICES /\ gap = NULL => start .. end \subseteq stored
             /\ gap # NULL => gap \in start .. end /\ start .. gap - 1 \subseteq stored
  OBVIOUS
<1> HIDE DEF missing, gap
<1>3. CASE missing = {}
  BY <1>1, <1>2, <1>3
<1>4. CASE missing # {}
  <2>1. Min(missing) \in missing /\ \A y \in missing : Min(missing) <= y
    <3>1. missing \subseteq Int /\ \A x \in missing : start <= x
      BY <1>1
    <3> QED
      BY <1>4, <3>1, MinOfBounded
  <2>2. gap = Min(missing) /\ gap \in start .. end /\ gap # NULL
    BY <1>1, <1>2, <1>4, <2>1, NullAssumption
  <2>3. start .. gap - 1 \subseteq stored
    BY <1>1, <2>1, <2>2
  <2> QED
    BY <2>2, <2>3
<1> QED
  BY <1>3, <1>4

-----------------------------------------------------------------------------
(* What a step of a task does to the tables and to what the batch accounts *)
(* for: no block of the batch is forgotten, and a row that is rewritten    *)
(* has no NULL column, except for those nodes leave incomplete.            *)
LEMMA UpsertEffect ==
  ASSUME NEW number \in Int, headers \subseteq Int, incomplete \subseteq headers,
         Upsert(number)
  PROVE  /\ headers' = headers \cup {number}
         /\ incomplete' \subseteq headers'
         /\ \A b \in incomplete' : b >= FirstPartial \/ b \in incomplete \ {number}
BY TaskAssumption DEF Upsert

TaskKeeps ==
  /\ UNCHANGED <<meta, finalized, shouldTerminate>>
  /\ faults' \in Nat
  /\ \E n \in Int : headers' \subseteq headers \cup {n}
  /\ headers \subseteq headers'
  /\ incomplete' \subseteq headers'
  /\ DOMAIN tries' \subseteq DOMAIN tries
  /\ \A b \in DOMAIN tries' : tries'[b] \in 0 .. MaxRetries - 1
  /\ failedBlocks \subseteq failedBlocks' /\ failedBlocks' \subseteq Int
  /\ misplaced \subseteq misplaced' /\ misplaced' \subseteq Int
  /\ DOMAIN tries \subseteq DOMAIN tries' \cup headers' \cup misplaced' \cup failedBlocks'
  /\ \A b \in incomplete' :
       \/ b >= FirstPartial
       \/ /\ b \in incomplete
          /\ b \in DOMAIN tries => b \in DOMAIN tries' \cup misplaced' \cup failedBlocks'

LEMMA EndTaskEffect ==
  ASSUME TasksTypeOK, NEW b \in DOMAIN tries, EndTask(b)
  PROVE  /\ DOMAIN tries' = DOMAIN tries \ {b}
         /\ \A c \in DOMAIN tries' : tries'[c] \in 0 .. MaxRetries - 1
BY DEF EndTask, TasksTypeOK

LEMMA RetryTaskEffect ==
  ASSUME TasksTypeOK, NEW b \in DOMAIN tries, RetryTask(b)
  PROVE  /\ DOMAIN tries' \subseteq DOMAIN tries
         /\ DOMAIN tries \subseteq DOMAIN tries' \cup failedBlocks'
         /\ \A c \in DOMAIN tries' : tries'[c] \in 0 .. MaxRetries - 1
         /\ failedBlocks \subseteq failedBlocks' /\ failedBlocks' \subseteq Int
<1>1. CASE FailTask(b)
  BY <1>1, EndTaskEffect DEF FailTask, TasksTypeOK
<1>2. CASE /\ tries[b] + 1 < MaxRetries
           /\ tries' = [tries EXCEPT ![b] = @ + 1] /\ UNCHANGED failedBlocks
  BY <1>2, ConfigAssumption DEF TasksTypeOK
<1> QED
  BY <1>1, <1>2 DEF RetryTask

LEMMA AttemptKeeps ==
  ASSUME StoreTypeOK, TasksTypeOK, NEW b \in DOMAIN tries, NEW rw \in BOOLEAN,
         Attempt(b, rw), UNCHANGED <<meta, finalized, shouldTerminate>>
  PROVE  TaskKeeps
<1>1. /\ headers \subseteq Int /\ incomplete \subseteq headers /\ b \in Int
      /\ faults \in Nat /\ misplaced \subseteq Int /\ failedBlocks \subseteq Int
  BY DEF StoreTypeOK, TasksTypeOK
<1>2. CASE /\ Fault("rpcBlock") /\ RetryTask(b)
           /\ UNCHANGED <<headers, incomplete, misplaced>>
  <2>1. faults' \in Nat
    BY <1>1, <1>2 DEF Fault
  <2> QED
    BY <1>1, <1>2, <2>1, RetryTaskEffect DEF TaskKeeps
<1>3. CASE /\ \E ok \in BOOLEAN :
                /\ write_blockheader(b, ok)
                /\ \/ ok /\ EndTask(b) /\ UNCHANGED failedBlocks
                   \/ ~ok /\ rw /\ RetryTask(b)
                   \/ ~ok /\ ~rw /\ FailTask(b)
           /\ UNCHANGED misplaced
  <2>1. PICK ok \in BOOLEAN :
          /\ write_blockheader(b, ok)
          /\ \/ ok /\ EndTask(b) /\ UNCHANGED failedBlocks
             \/ ~ok /\ RetryTask(b)
             \/ ~ok /\ FailTask(b)
    BY <1>3
  <2>2. faults' \in Nat
    BY <1>1, <2>1 DEF write_blockheader, Outcome, Fault
  <2>3. \/ Upsert(b)
        \/ ~ok /\ UNCHANGED <<headers, incomplete>>
    BY <2>1 DEF write_blockheader
  <2>4. /\ headers \subseteq headers' /\ headers' \subseteq headers \cup {b}
        /\ incomplete' \subseteq headers'
        /\ \A c \in incomplete' : c >= FirstPartial \/ c \in incomplete
    BY <1>1, <2>3, UpsertEffect
  <2>5. CASE ok /\ EndTask(b) /\ UNCHANGED failedBlocks
    <3>1. /\ headers' = headers \cup {b}
          /\ \A c \in incomplete' : c >= FirstPartial \/ c \in incomplete \ {b}
      BY <1>1, <2>3, <2>5, UpsertEffect
    <3> QED
      BY <1>1, <1>3, <2>2, <2>4, <2>5, <3>1, EndTaskEffect DEF TaskKeeps
  <2>6. CASE RetryTask(b)
    BY <1>1, <1>3, <2>2, <2>4, <2>6, RetryTaskEffect DEF TaskKeeps
  <2>7. CASE FailTask(b)
    BY <1>1, <1>3, <2>2, <2>4, <2>7, EndTaskEffect DEF FailTask, TaskKeeps
  <2> QED
    BY <2>1, <2>5, <2>6, <2>7
<1>4. CASE /\ Fault("rpcBlock")
           /\ \E number \in Blocks \ {b} : Upsert(number)
           /\ misplaced' = misplaced \cup {b}
           /\ EndTask(b) /\ UNCHANGED failedBlocks
  <2>1. PICK number \in Blocks \ {b} : Upsert(number)
    BY <1>4
  <2>2. faults' \in Nat /\ number \in Int
    BY <1>1, <1>4, BoundAssumption DEF Fault, Blocks
  <2>3. /\ headers' = headers \cup {number} /\ incomplete' \subseteq headers'
        /\ \A c \in incomplete' : c >= FirstPartial \/ c \in incomplete
    BY <1>1, <2>1, <2>2, UpsertEffect
  <2> QED
    BY <1>1, <1>4, <2>2, <2>3, EndTaskEffect DEF TaskKeeps
<1> QED
  BY <1>2, <1>3, <1>4 DEF Attempt

LEMMA TaskEffect ==
  ASSUME StoreTypeOK, TasksTypeOK, NEW rw \in BOOLEAN, TaskStep(rw)
  PROVE  TaskKeeps
<1>1. PICK b \in DOMAIN tries : Attempt(b, rw) \/ TimeOut(b)
  BY DEF TaskStep
<1>2. UNCHANGED <<meta, finalized, shouldTerminate>>
  BY DEF TaskStep
<1>3. CASE TimeOut(b)
  <2>1. /\ headers \subseteq Int /\ incomplete \subseteq headers /\ b \in Int
        /\ faults \in Nat /\ misplaced \subseteq Int /\ failedBlocks \subseteq Int
    BY DEF StoreTypeOK, TasksTypeOK
  <2>2. /\ headers \subseteq headers' /\ headers' \subseteq headers \cup {b}
        /\ incomplete' \subseteq headers'
        /\ \A c \in incomplete' : c >= FirstPartial \/ c \in incomplete
    BY <1>3, <2>1, UpsertEffect DEF TimeOut
  <2>3. faults' \in Nat
    BY <1>3, <2>1 DEF TimeOut, Fault
  <2> QED
    BY <1>2, <1>3, <2>1, <2>2, <2>3, EndTaskEffect DEF TimeOut, FailTask, TaskKeeps
<1> QED
  BY <1>1, <1>2, <1>3, AttemptKeeps

-----------------------------------------------------------------------------
(* What the phases of the other command say holds of this one.             *)
LEMMA NotUpdating ==
  ASSUME lpc' \notin {"batch", "tasks", "poll"}
  PROVE  UpdateInv' /\ HolesInv' /\ (lpc' \notin {"first", "last"} => FromStartInv')
BY DEF UpdateInv, HolesInv, FromStartInv, Updating

LEMMA NotSearching ==
  ASSUME lpc' \notin {"gaps", "find", "found", "gapTasks"}
  PROVE  GapInv' /\ FillSkipsNothing'
BY DEF GapInv, FillSkipsNothing, Searching

LEMMA NotRepairing ==
  ASSUME lpc' \notin {"nulls", "nullTasks"} PROVE NullInv' /\ FillRepairsRows'
BY DEF NullInv, FillRepairsRows

LEMMA Types ==
  ASSUME LegacyInv
  PROVE  /\ StoreTypeOK /\ TasksTypeOK
         /\ headers \subseteq Int /\ finalized \in Nat /\ faults \in Nat
         /\ DOMAIN tries \subseteq Int /\ failedBlocks \subseteq Int
         /\ incomplete \subseteq headers /\ misplaced \subseteq Int
         /\ pos \in Int \cup {NULL} /\ last \in Int \cup {NULL}
         /\ cur \in Int /\ from \in Int
         /\ found \subseteq Int /\ reported \subseteq Int /\ lost \subseteq Int
BY DEF LegacyInv, LegacyTypeOK, StoreTypeOK, TasksTypeOK

(* A step that leaves the tables and the tasks alone keeps their types.    *)
LEMMA StoreStill ==
  ASSUME LegacyInv, UNCHANGED <<headers, meta, taskVars>>,
         finalized' \in Nat, faults' \in Nat, shouldTerminate' \in BOOLEAN
  PROVE  StoreTypeOK' /\ TasksTypeOK' /\ HeadersBounded'
<1>1. meta \in MetaRow \cup {NoRow}
  BY DEF LegacyInv, LegacyTypeOK, StoreTypeOK
<1> QED
  BY <1>1, Types DEF StoreTypeOK, TasksTypeOK, taskVars, HeadersBounded, LegacyInv

LEMMA SpawnKeeps ==
  ASSUME LegacyInv, NEW blocks, blocks \subseteq Int, SpawnTasks(blocks),
         UNCHANGED <<headers, meta, finalized>>,
         faults' \in Nat, shouldTerminate' \in BOOLEAN
  PROVE  /\ StoreTypeOK' /\ TasksTypeOK' /\ HeadersBounded'
         /\ DOMAIN tries' = blocks /\ failedBlocks' = {}
         /\ UNCHANGED <<incomplete, misplaced>>
<1>1. meta \in MetaRow \cup {NoRow}
  BY DEF LegacyInv, LegacyTypeOK, StoreTypeOK
<1>2. /\ DOMAIN tries' = blocks /\ failedBlocks' = {}
      /\ UNCHANGED <<incomplete, misplaced>>
      /\ \A b \in DOMAIN tries' : tries'[b] = 0
  BY DEF SpawnTasks
<1> QED
  BY <1>1, <1>2, Types, ConfigAssumption
     DEF StoreTypeOK, TasksTypeOK, HeadersBounded, LegacyInv

LEMMA Termination == LegacyInv => shouldTerminate \in BOOLEAN /\ bounded \in BOOLEAN
BY DEF LegacyInv, LegacyTypeOK, StoreTypeOK

LEMMA OutcomeCounts ==
  ASSUME faults \in Nat, NEW ok \in BOOLEAN, NEW kind, Outcome(ok, kind)
  PROVE  faults' \in Nat
BY DEF Outcome, Fault

LEMMA QueryCounts ==
  ASSUME faults \in Nat, NEW ok \in BOOLEAN, Query(ok) PROVE faults' \in Nat
BY OutcomeCounts DEF Query

LEMMA LastStoredType == LegacyInv => LastStored \in Int /\ LastStored >= -1
<1> SUFFICES ASSUME LegacyInv PROVE LastStored \in Int /\ LastStored >= -1
  OBVIOUS
<1> DEFINE S == headers \cup {-1}
<1>1. S \subseteq Int /\ S # {} /\ -1 \in S
  BY Types
<1>2. PICK n \in Nat : \A b \in headers : b <= n
  BY DEF LegacyInv, HeadersBounded
<1>3. n \in Int /\ \A b \in S : b <= n
  BY <1>2
<1> HIDE DEF S
<1>4. Max(S) \in S /\ \A y \in S : y <= Max(S)
  BY <1>1, <1>3, MaxOfBounded
<1> QED
  BY <1>1, <1>4 DEF LastStored, S

-----------------------------------------------------------------------------
(* update                                                                  *)
LEMMA UpdateFirstInv == ASSUME LegacyInv, UpdateFirst PROVE LegacyInv'
<1>1. PICK ok \in BOOLEAN : Ask(pos # NULL, ok, "last")
  BY DEF UpdateFirst
<1>2. lpc' \in {"last", "failed"} /\ faults' \in Nat
  BY <1>1, Types, QueryCounts DEF Ask
<1>3. pos' \in Int /\ from' = pos'
  BY Types, LastStoredType DEF UpdateFirst
<1>4. StoreTypeOK' /\ TasksTypeOK' /\ HeadersBounded'
  BY <1>2, StoreStill, Types, Termination DEF UpdateFirst
<1>5. bounded' \in BOOLEAN
  BY Termination DEF UpdateFirst
<1>6. LegacyTypeOK'
  BY <1>2, <1>3, <1>4, <1>5, Types
     DEF UpdateFirst, LegacyTypeOK, UpdatePCs, FillPCs
<1>7. ArgsInv'
  BY <1>2, <1>3 DEF UpdateFirst, LegacyInv, ArgsInv, Tasking, taskVars
<1>8. FromStartInv'
  BY <1>2, LastStoredType DEF UpdateFirst, LegacyInv, FromStartInv, Updating
<1> QED
  BY <1>2, <1>4, <1>6, <1>7, <1>8, NotUpdating, NotSearching, NotRepairing DEF LegacyInv

LEMMA UpdateLastInv == ASSUME LegacyInv, UpdateLast PROVE LegacyInv'
<1>1. PICK ok \in BOOLEAN, answer \in TipAnswers :
        /\ Outcome(ok, "rpcTip")
        /\ lpc' = IF ok THEN "batch" ELSE "failed"
        /\ last' = IF bounded /\ last <= answer THEN last ELSE answer
  BY DEF UpdateLast
<1>2. answer \in Nat /\ answer <= finalized /\ faults' \in Nat
  BY <1>1, Types, OutcomeCounts DEF TipAnswers
<1>3. /\ lpc = "last" /\ pos \in Int /\ from = pos
      /\ bounded => last \in Int
      /\ lpc' \in {"batch", "failed"}
  BY <1>1, Types DEF UpdateLast, LegacyInv, ArgsInv
<1>4. last' \in Int /\ last' <= finalized /\ (~bounded => last' >= 0)
  BY <1>1, <1>2, <1>3, Types
<1>5. StoreTypeOK' /\ TasksTypeOK' /\ HeadersBounded'
  BY <1>2, StoreStill, Types, Termination DEF UpdateLast
<1>6. bounded' \in BOOLEAN
  BY Termination DEF UpdateLast
<1>7. LegacyTypeOK'
  BY <1>3, <1>4, <1>5, <1>6, Types
     DEF UpdateLast, LegacyTypeOK, UpdatePCs, FillPCs
<1>8. ArgsInv'
  BY <1>3, <1>4 DEF UpdateLast, LegacyInv, ArgsInv, Tasking, taskVars
<1>9. UpdateInv'
  BY <1>3, <1>4 DEF UpdateLast, UpdateInv, Updating
<1>10. FromStartInv' /\ HolesInv'
  BY <1>3, <1>4 DEF UpdateLast, LegacyInv, FromStartInv, HolesInv, Updating
<1> QED
  BY <1>3, <1>5, <1>7, <1>8, <1>9, <1>10, NotSearching, NotRepairing DEF LegacyInv

LEMMA UpdateBatchInv == ASSUME LegacyInv, UpdateBatch PROVE LegacyInv'
<1>1. /\ lpc = "batch" /\ pos \in Int /\ last \in Int /\ last <= finalized
      /\ ~bounded => last >= 0
      /\ UNCHANGED <<headers, meta, finalized, shouldTerminate, faults>>
      /\ UNCHANGED <<bounded, pos, last, cur, found, from, reported, lost>>
  BY DEF UpdateBatch, LegacyInv, ArgsInv, UpdateInv, Updating, storeVars
<1>2. bounded' \in BOOLEAN /\ shouldTerminate' \in BOOLEAN
  BY <1>1, Termination
<1>3. CASE pos > last \/ shouldTerminate
  <2>1. lpc' = AfterRange /\ UNCHANGED taskVars
    BY <1>3 DEF UpdateBatch
  <2>2. lpc' \in {"done", "poll"} /\ (lpc' = "poll" => ~bounded)
    BY <2>1 DEF AfterRange
  <2>3. StoreTypeOK' /\ TasksTypeOK' /\ HeadersBounded'
    BY <1>1, <1>2, <2>1, StoreStill, Types
  <2>4. LegacyTypeOK'
    BY <1>1, <1>2, <2>2, <2>3, Types DEF LegacyTypeOK, UpdatePCs, FillPCs
  <2>5. ArgsInv'
    BY <1>1, <2>1, <2>2 DEF LegacyInv, ArgsInv, Tasking, taskVars
  <2>6. UpdateInv'
    BY <1>1, <1>3, <2>2 DEF UpdateInv, Updating
  <2>7. FromStartInv' /\ HolesInv'
    BY <1>1, <2>1, <2>2 DEF LegacyInv, FromStartInv, HolesInv, Updating, taskVars
  <2> QED
    BY <2>2, <2>3, <2>4, <2>5, <2>6, <2>7, NotSearching, NotRepairing DEF LegacyInv
<1>4. CASE ~(pos > last \/ shouldTerminate)
  <2>1. lpc' = "tasks" /\ SpawnTasks(batch) /\ pos <= last
    BY <1>1, <1>4 DEF UpdateBatch
  <2>2. /\ batch \subseteq Int
        /\ \A b \in batch : pos <= b /\ b <= last
        /\ \A b \in pos .. pos + BatchSize - 1 : b <= last => b \in batch
    <3>1. pos + BatchSize - 1 \in Int
      BY <1>1, ConfigAssumption
    <3> QED
      BY <1>1, <3>1, MinOfTwo DEF batch
  <2>3. /\ StoreTypeOK' /\ TasksTypeOK' /\ HeadersBounded'
        /\ DOMAIN tries' = batch /\ misplaced' = misplaced
    BY <1>1, <1>2, <2>1, <2>2, SpawnKeeps, Types
  <2>4. LegacyTypeOK'
    BY <1>1, <1>2, <2>1, <2>3, Types DEF LegacyTypeOK, UpdatePCs, FillPCs
  <2>5. ArgsInv'
    BY <1>1, <2>1 DEF LegacyInv, ArgsInv, Tasking
  <2>6. UpdateInv'
    BY <1>1, <2>1, <2>2, <2>3 DEF UpdateInv, Updating
  <2>7. FromStartInv' /\ HolesInv'
    BY <1>1, <2>1, <2>3 DEF LegacyInv, FromStartInv, HolesInv, Updating
  <2> QED
    BY <2>1, <2>3, <2>4, <2>5, <2>6, <2>7, NotSearching, NotRepairing DEF LegacyInv
<1> QED
  BY <1>3, <1>4

LEMMA UpdateJoinedInv == ASSUME LegacyInv, UpdateJoined PROVE LegacyInv'
<1>1. /\ lpc = "tasks" /\ pos \in Int /\ last \in Int /\ last <= finalized
      /\ ~bounded => last >= 0
      /\ UNCHANGED <<headers, meta, finalized, shouldTerminate, faults, taskVars>>
      /\ UNCHANGED <<bounded, last, cur, found, from, lost>>
  BY DEF UpdateJoined, LegacyInv, ArgsInv, UpdateInv, Updating, storeVars
<1>2. bounded' \in BOOLEAN /\ shouldTerminate' \in BOOLEAN
  BY <1>1, Termination
<1>3. StoreTypeOK' /\ TasksTypeOK' /\ HeadersBounded'
  BY <1>1, <1>2, StoreStill, Types
<1>4. DOMAIN tries = {} /\ DOMAIN tries' = {} /\ misplaced' = misplaced
  BY <1>1 DEF UpdateJoined, TasksJoined, taskVars
<1>5. CASE failedBlocks = {} /\ lpc' = "batch" /\ pos' = pos + BatchSize /\ UNCHANGED reported
  <2>1. pos' \in Int /\ pos' >= pos /\ pos' = pos + BatchSize
    BY <1>1, <1>5, ConfigAssumption
  <2>2. LegacyTypeOK'
    BY <1>1, <1>2, <1>3, <1>5, <2>1, Types DEF LegacyTypeOK, UpdatePCs, FillPCs
  <2>3. ArgsInv'
    BY <1>1, <1>4, <1>5, <2>1 DEF ArgsInv, Tasking
  <2>4. UpdateInv'
    BY <1>1, <1>5 DEF UpdateInv, Updating
  <2>5. FromStartInv'
    BY <1>1, <1>5, <2>1 DEF LegacyInv, FromStartInv, Updating
  <2>6. HolesInv'
    <3> SUFFICES ASSUME NEW b \in from .. last, b < pos'
                 PROVE  \/ b \in headers \cup misplaced
                        \/ \E r \in reported : r <= b
      BY <1>1, <1>4, <1>5 DEF HolesInv
    <3>1. CASE b < pos
      BY <1>1, <3>1 DEF LegacyInv, HolesInv, Updating
    <3>2. CASE b >= pos
      <4>1. b \in pos .. pos + BatchSize - 1 /\ b <= last
        BY <1>1, <2>1, <3>2, Types, ConfigAssumption
      <4> QED
        BY <1>1, <1>4, <1>5, <4>1 DEF LegacyInv, UpdateInv
    <3> QED
      BY <1>1, <3>1, <3>2, Types
  <2> QED
    BY <1>3, <1>5, <2>2, <2>3, <2>4, <2>5, <2>6, NotSearching, NotRepairing DEF LegacyInv
<1>6. CASE lpc' = AfterRange /\ reported' = reported \cup {pos} /\ UNCHANGED pos
  <2>1. lpc' \in {"done", "poll"} /\ (lpc' = "poll" => ~bounded)
    BY <1>6 DEF AfterRange
  <2>2. LegacyTypeOK'
    BY <1>1, <1>2, <1>3, <1>6, <2>1, Types DEF LegacyTypeOK, UpdatePCs, FillPCs
  <2>3. ArgsInv'
    BY <1>1, <1>4, <1>6, <2>1 DEF ArgsInv, Tasking
  <2>4. UpdateInv'
    BY <1>1, <1>6, <2>1 DEF UpdateInv, Updating
  <2>5. FromStartInv' /\ HolesInv'
    BY <1>1, <1>4, <1>6, <2>1 DEF LegacyInv, FromStartInv, HolesInv, Updating
  <2> QED
    BY <1>3, <2>1, <2>2, <2>3, <2>4, <2>5, NotSearching, NotRepairing DEF LegacyInv
<1> QED
  BY <1>5, <1>6 DEF UpdateJoined

LEMMA UpdatePollInv == ASSUME LegacyInv, UpdatePoll PROVE LegacyInv'
<1>1. /\ lpc = "poll" /\ pos \in Int /\ last \in Int /\ last <= finalized
      /\ ~bounded /\ last >= 0
      /\ UNCHANGED <<headers, meta, finalized, shouldTerminate, taskVars>>
      /\ UNCHANGED <<bounded, cur, found, from, reported, lost>>
      /\ pos > last \/ pos \in reported \/ shouldTerminate
  BY DEF UpdatePoll, LegacyInv, ArgsInv, UpdateInv, Updating
<1>2. bounded' \in BOOLEAN /\ shouldTerminate' \in BOOLEAN
  BY <1>1, Termination
<1>3. DOMAIN tries = {} /\ DOMAIN tries' = {} /\ misplaced' = misplaced
  BY <1>1 DEF LegacyInv, ArgsInv, Tasking, taskVars
<1>4. CASE lpc' \in {"done", "failed", "poll"} /\ faults' \in Nat /\ UNCHANGED <<pos, last>>
  <2>1. StoreTypeOK' /\ TasksTypeOK' /\ HeadersBounded'
    BY <1>1, <1>2, <1>4, StoreStill, Types
  <2>2. LegacyTypeOK'
    BY <1>1, <1>2, <1>4, <2>1, Types DEF LegacyTypeOK, UpdatePCs, FillPCs
  <2>3. ArgsInv'
    BY <1>1, <1>3, <1>4 DEF ArgsInv, Tasking
  <2>4. UpdateInv'
    BY <1>1, <1>4 DEF UpdateInv, Updating
  <2>5. FromStartInv' /\ HolesInv'
    BY <1>1, <1>3, <1>4 DEF LegacyInv, FromStartInv, HolesInv, Updating
  <2> QED
    BY <1>4, <2>1, <2>2, <2>3, <2>4, <2>5, NotSearching, NotRepairing DEF LegacyInv
<1>5. ASSUME NEW answer \in TipAnswers, ~shouldTerminate, answer > last, faults' \in Nat,
             lpc' = "batch", pos' = last + 1, last' = answer
      PROVE  LegacyInv'
  <2>1. answer \in Nat /\ answer <= finalized
    BY <1>1, Types DEF TipAnswers
  <2>2. StoreTypeOK' /\ TasksTypeOK' /\ HeadersBounded'
    BY <1>1, <1>2, <1>5, StoreStill, Types
  <2>3. LegacyTypeOK'
    BY <1>1, <1>2, <1>5, <2>1, <2>2, Types DEF LegacyTypeOK, UpdatePCs, FillPCs
  <2>4. ArgsInv'
    BY <1>1, <1>3, <1>5, <2>1 DEF ArgsInv, Tasking
  <2>5. UpdateInv'
    BY <1>1, <1>5, <2>1 DEF UpdateInv, Updating
  <2>6. FromStartInv'
    BY <1>1, <1>5 DEF FromStartInv, Updating
  <2>7. HolesInv'
    <3> SUFFICES ASSUME NEW b \in from .. answer, b < last + 1
                 PROVE  \/ b \in headers \cup misplaced
                        \/ \E r \in reported : r <= b
      BY <1>1, <1>3, <1>5 DEF HolesInv
    <3>1. b \in from .. last
      BY <1>1, <2>1, Types
    <3>2. CASE b < pos
      BY <1>1, <3>1, <3>2 DEF LegacyInv, HolesInv, Updating
    <3>3. CASE b >= pos
      <4>1. pos \in reported
        BY <1>1, <1>5, <3>1, <3>3, Types
      <4> QED
        BY <1>1, <3>1, <3>3, <4>1
    <3> QED
      BY <1>1, <3>1, <3>2, <3>3, Types
  <2> QED
    BY <1>5, <2>2, <2>3, <2>4, <2>5, <2>6, <2>7, NotSearching, NotRepairing DEF LegacyInv
<1>6. CASE shouldTerminate
  BY <1>1, <1>4, <1>6, Types DEF UpdatePoll
<1>7. CASE ~shouldTerminate
  <2>1. PICK ok \in BOOLEAN, answer \in TipAnswers :
          /\ Outcome(ok, "rpcTip")
          /\ \/ ok /\ answer > last
                /\ lpc' = "batch" /\ pos' = last + 1 /\ last' = answer
             \/ ok /\ answer <= last /\ UNCHANGED <<lpc, pos, last>>
             \/ ~ok /\ lpc' = "failed" /\ UNCHANGED <<pos, last>>
    BY <1>7 DEF UpdatePoll
  <2>2. faults' \in Nat
    BY <2>1, OutcomeCounts, Types
  <2> QED
    BY <1>1, <1>4, <1>5, <1>7, <2>1, <2>2
<1> QED
  BY <1>6, <1>7

-----------------------------------------------------------------------------
(* fix                                                                     *)
LEMMA SpanEndType ==
  ASSUME pos \in Int, last \in Int
  PROVE  /\ SpanEnd \in Int /\ SpanEnd <= last
         /\ pos <= last => pos <= SpanEnd
<1>1. pos + SpanSize - 1 \in Int /\ pos + SpanSize - 1 >= pos
  BY LegacyAssumption
<1> QED
  BY <1>1, MinOfTwo DEF SpanEnd

LEMMA FillEndInv == ASSUME LegacyInv, FillEnd PROVE LegacyInv'
<1> DEFINE start == IF pos = NULL THEN 0 ELSE pos
           end == IF bounded THEN last ELSE LastStored
<1>1. PICK ok \in BOOLEAN :
        Ask(bounded, ok, IF end < 0 \/ start = end THEN "done" ELSE "gaps")
  BY DEF FillEnd
<1>2. lpc' \in {"done", "gaps", "failed"} /\ faults' \in Nat
  BY <1>1, Types, QueryCounts DEF Ask
<1>3. bounded => last \in Int
  BY Types DEF FillEnd, LegacyInv, ArgsInv
<1>4. pos' = start /\ from' = start /\ last' = end
  BY DEF FillEnd
<1>5. start \in Int /\ end \in Int
  BY <1>3, Types, LastStoredType
<1> HIDE DEF start, end
<1>6. StoreTypeOK' /\ TasksTypeOK' /\ HeadersBounded'
  BY <1>2, StoreStill, Types, Termination DEF FillEnd
<1>7. bounded' \in BOOLEAN
  BY Termination DEF FillEnd
<1>8. LegacyTypeOK'
  BY <1>2, <1>4, <1>5, <1>6, <1>7, Types DEF FillEnd, LegacyTypeOK, UpdatePCs, FillPCs
<1>9. ArgsInv'
  BY <1>2, <1>4, <1>5 DEF FillEnd, LegacyInv, ArgsInv, Tasking, taskVars
<1>10. GapInv' /\ FillSkipsNothing'
  BY <1>2, <1>4, <1>5 DEF GapInv, Searching, FillSkipsNothing
<1> QED
  BY <1>2, <1>6, <1>8, <1>9, <1>10, NotUpdating, NotRepairing DEF LegacyInv

LEMMA FillGapsInv == ASSUME LegacyInv, FillGaps PROVE LegacyInv'
<1>1. /\ lpc = "gaps" /\ pos \in Int /\ last \in Int /\ from \in Int
      /\ UNCHANGED <<headers, meta, finalized, shouldTerminate, faults, taskVars>>
      /\ UNCHANGED <<bounded, last, from, reported, lost>>
  BY Types DEF FillGaps, LegacyInv, ArgsInv, storeVars
<1>2. bounded' \in BOOLEAN /\ shouldTerminate' \in BOOLEAN
  BY <1>1, Termination
<1>3. StoreTypeOK' /\ TasksTypeOK' /\ HeadersBounded'
  BY <1>1, <1>2, StoreStill, Types
<1>4. \/ lpc' = "nulls" /\ pos' = from /\ UNCHANGED <<cur, found>>
      \/ /\ pos <= last
         /\ lpc' = "find" /\ cur' = pos /\ found' = {} /\ UNCHANGED pos
  BY <1>1 DEF FillGaps
<1>5. LegacyTypeOK'
  BY <1>1, <1>2, <1>3, <1>4, Types DEF LegacyTypeOK, UpdatePCs, FillPCs
<1>6. ArgsInv'
  BY <1>1, <1>4, Types DEF LegacyInv, ArgsInv, Tasking, taskVars
<1>7. FromStartInv' /\ UpdateInv' /\ HolesInv'
  BY <1>4, NotUpdating
<1>8. NullInv' /\ FillRepairsRows'
  BY <1>1, <1>4 DEF NullInv, FillRepairsRows
<1>9. lpc' = "find" => SpanEnd' = SpanEnd /\ pos <= SpanEnd
  BY <1>1, <1>4, SpanEndType DEF SpanEnd
<1>10. GapInv' /\ FillSkipsNothing'
  BY <1>1, <1>4, <1>9
     DEF LegacyInv, GapInv, Searching, FillSkipsNothing, taskVars
<1> QED
  BY <1>3, <1>5, <1>6, <1>7, <1>8, <1>10 DEF LegacyInv

LEMMA FillFindInv == ASSUME LegacyInv, FillFind PROVE LegacyInv'
<1> DEFINE gap == find_first_gap(headers, cur, SpanEnd, NULL)
<1>1. /\ lpc = "find" /\ pos \in Int /\ last \in Int /\ cur \in Int
      /\ UNCHANGED <<headers, meta, finalized, shouldTerminate, taskVars>>
      /\ UNCHANGED <<bounded, pos, last, from, reported, lost>>
      /\ pos <= last /\ pos <= cur /\ cur <= SpanEnd
      /\ found \subseteq pos .. cur - 1
      /\ pos .. cur - 1 \subseteq headers \cup found
      /\ found # {} => cur - 1 \in found
  BY Types DEF FillFind, LegacyInv, ArgsInv, GapInv, Searching
<1>2. bounded' \in BOOLEAN /\ shouldTerminate' \in BOOLEAN
  BY <1>1, Termination
<1>3. PICK ok \in BOOLEAN :
        /\ Query(ok)
        /\ \/ ok /\ gap = NULL /\ lpc' = "found" /\ UNCHANGED <<cur, found>>
           \/ ok /\ gap # NULL
              /\ found' = found \cup {gap} /\ cur' = gap + 1
              /\ lpc' = IF cur' <= SpanEnd /\ Cardinality(found') < GapLimit
                        THEN "find" ELSE "found"
           \/ ~ok /\ lpc' = "failed" /\ UNCHANGED <<cur, found>>
  BY DEF FillFind
<1>4. SpanEnd \in Int /\ SpanEnd' = SpanEnd
  BY <1>1, SpanEndType DEF SpanEnd
<1>5. /\ gap = NULL => cur .. SpanEnd \subseteq headers
      /\ gap # NULL => gap \in cur .. SpanEnd /\ cur .. gap - 1 \subseteq headers
  BY <1>1, <1>4, FirstGap
<1> HIDE DEF gap
<1>6. faults' \in Nat /\ lpc' \in {"find", "found", "failed"}
  BY <1>3, Types, QueryCounts
<1>7. \/ gap = NULL /\ lpc' = "found" /\ UNCHANGED <<cur, found>>
      \/ lpc' = "failed" /\ UNCHANGED <<cur, found>>
      \/ /\ gap # NULL /\ lpc' # "failed"
         /\ found' = found \cup {gap} /\ cur' = gap + 1
         /\ lpc' = "find" => cur' <= SpanEnd
  BY <1>3
<1>8. StoreTypeOK' /\ TasksTypeOK' /\ HeadersBounded'
  BY <1>1, <1>2, <1>6, StoreStill, Types
<1>9. cur' \in Int /\ found' \subseteq Int
  <2>1. found \subseteq Int /\ cur \in Int
    BY Types
  <2>2. gap # NULL => gap \in Int
    BY <1>4, <1>5, <2>1
  <2>3. CASE UNCHANGED <<cur, found>>
    BY <2>1, <2>3
  <2>4. CASE gap # NULL /\ found' = found \cup {gap} /\ cur' = gap + 1
    <3>1. gap \in Int
      BY <2>2, <2>4
    <3> QED
      BY <2>1, <2>4, <3>1
  <2> QED
    BY <1>7, <2>3, <2>4
<1>10. LegacyTypeOK'
  BY <1>1, <1>2, <1>6, <1>8, <1>9, Types DEF LegacyTypeOK, UpdatePCs, FillPCs
<1>11. ArgsInv'
  BY <1>1, <1>6 DEF LegacyInv, ArgsInv, Tasking, taskVars
<1>12. CASE gap = NULL \/ lpc' = "failed"
  <2>1. /\ lpc' \in {"found", "failed"} /\ UNCHANGED <<cur, found>>
        /\ lpc' = "found" => gap = NULL
    BY <1>12, <1>7
  <2>2. pos .. SpanEnd \subseteq (pos .. cur - 1) \cup (cur .. SpanEnd)
    BY <1>1, <1>4
  <2>3. lpc' = "found" /\ found = {} => pos .. SpanEnd \subseteq headers
    BY <1>1, <1>5, <2>1, <2>2
  <2>4. misplaced' = misplaced
    BY <1>1 DEF taskVars
  <2>5. FillSkipsNothing'
    BY <1>1, <2>1, <2>4 DEF LegacyInv, FillSkipsNothing
  <2>6. GapInv'
    BY <1>1, <1>4, <2>1, <2>3 DEF LegacyInv, GapInv, Searching
  <2> QED
    BY <1>6, <1>8, <1>10, <1>11, <2>5, <2>6, NotUpdating, NotRepairing DEF LegacyInv
<1>13. CASE gap # NULL /\ lpc' # "failed"
  <2>1. /\ found' = found \cup {gap} /\ cur' = gap + 1
        /\ lpc' = "find" => cur' <= SpanEnd
    BY <1>13, <1>7
  <2>2. /\ gap \in Int /\ cur <= gap /\ cur .. gap - 1 \subseteq headers
        /\ cur' - 1 = gap
    BY <1>1, <1>4, <1>5, <1>13, <2>1
  <2>3. found' \subseteq pos .. cur' - 1 /\ cur' - 1 \in found' /\ pos <= cur'
    BY <1>1, <2>1, <2>2
  <2>4. pos .. gap \subseteq (pos .. cur - 1) \cup (cur .. gap - 1) \cup {gap}
    BY <1>1, <2>2
  <2>5. pos .. cur' - 1 \subseteq headers \cup found'
    BY <1>1, <2>1, <2>2, <2>4
  <2>6. GapInv' /\ FillSkipsNothing'
    BY <1>1, <1>4, <1>6, <1>13, <2>1, <2>3, <2>5
       DEF LegacyInv, GapInv, Searching, FillSkipsNothing, taskVars
  <2> QED
    BY <1>6, <1>8, <1>10, <1>11, <2>6, NotUpdating, NotRepairing DEF LegacyInv
<1> QED
  BY <1>12, <1>13

LEMMA FillFoundInv == ASSUME LegacyInv, FillFound PROVE LegacyInv'
<1>1. /\ lpc = "found" /\ pos \in Int /\ last \in Int
      /\ UNCHANGED <<headers, meta, finalized, shouldTerminate, faults>>
      /\ UNCHANGED <<bounded, last, cur, found, from, reported, lost>>
      /\ pos <= last /\ from <= pos
  BY Types DEF FillFound, LegacyInv, ArgsInv, GapInv, Searching, storeVars
<1>2. bounded' \in BOOLEAN /\ shouldTerminate' \in BOOLEAN
  BY <1>1, Termination
<1>3. SpanEnd \in Int /\ pos <= SpanEnd
  BY <1>1, SpanEndType
<1>4. CASE found = {}
  <2>1. lpc' = "gaps" /\ pos' = SpanEnd + 1 /\ UNCHANGED taskVars
    BY <1>4 DEF FillFound
  <2>2. StoreTypeOK' /\ TasksTypeOK' /\ HeadersBounded'
    BY <1>1, <1>2, <2>1, StoreStill, Types
  <2>3. LegacyTypeOK'
    BY <1>1, <1>2, <1>3, <2>1, <2>2, Types DEF LegacyTypeOK, UpdatePCs, FillPCs
  <2>4. ArgsInv'
    BY <1>1, <1>3, <2>1 DEF LegacyInv, ArgsInv, Tasking, taskVars
  <2>5. pos .. SpanEnd \subseteq headers
    BY <1>1, <1>4 DEF LegacyInv, GapInv
  <2>6. FillSkipsNothing'
    <3>1. from .. pos - 1 \subseteq headers \cup lost \cup misplaced
      BY <1>1 DEF LegacyInv, FillSkipsNothing
    <3>2. from .. SpanEnd \subseteq headers \cup lost \cup misplaced
      BY <1>1, <1>3, <2>5, <3>1, Types
    <3>3. UNCHANGED <<from, headers, lost, misplaced>> /\ pos' - 1 = SpanEnd
      BY <1>1, <1>3, <2>1 DEF taskVars
    <3> QED
      BY <3>2, <3>3 DEF FillSkipsNothing
  <2>7. GapInv'
    BY <1>1, <1>3, <2>1, Types DEF GapInv, Searching
  <2> QED
    BY <2>1, <2>2, <2>3, <2>4, <2>6, <2>7, NotUpdating, NotRepairing DEF LegacyInv
<1>5. CASE found # {}
  <2>1. lpc' = "gapTasks" /\ SpawnTasks(found) /\ UNCHANGED pos
    BY <1>5 DEF FillFound
  <2>2. /\ StoreTypeOK' /\ TasksTypeOK' /\ HeadersBounded'
        /\ DOMAIN tries' = found /\ misplaced' = misplaced
    BY <1>1, <1>2, <2>1, SpawnKeeps, Types
  <2>3. LegacyTypeOK'
    BY <1>1, <1>2, <2>1, <2>2, Types DEF LegacyTypeOK, UpdatePCs, FillPCs
  <2>4. ArgsInv'
    BY <1>1, <2>1 DEF ArgsInv, Tasking
  <2>5. GapInv' /\ FillSkipsNothing'
    BY <1>1, <1>5, <2>1, <2>2 DEF LegacyInv, GapInv, Searching, FillSkipsNothing
  <2> QED
    BY <2>1, <2>2, <2>3, <2>4, <2>5, NotUpdating, NotRepairing DEF LegacyInv
<1> QED
  BY <1>4, <1>5

LEMMA FillGapsJoinedInv == ASSUME LegacyInv, FillGapsJoined PROVE LegacyInv'
<1>1. /\ lpc = "gapTasks" /\ pos \in Int /\ last \in Int /\ cur \in Int
      /\ UNCHANGED <<headers, meta, finalized, shouldTerminate, faults, taskVars>>
      /\ UNCHANGED <<bounded, last, cur, found, from, reported>>
      /\ from <= pos /\ pos <= cur
      /\ found \subseteq pos .. cur - 1 /\ found # {}
      /\ pos .. cur - 1 \subseteq headers \cup found
      /\ cur - 1 \in found
      /\ found \subseteq DOMAIN tries \cup headers \cup misplaced \cup failedBlocks
      /\ lost' = lost \cup failedBlocks
  BY Types DEF FillGapsJoined, LegacyInv, ArgsInv, GapInv, Searching, storeVars
<1>2. DOMAIN tries = {} /\ DOMAIN tries' = {} /\ misplaced' = misplaced
  BY <1>1 DEF FillGapsJoined, TasksJoined, taskVars
<1>3. lpc' = "gaps" /\ pos' = cur
  <2>1. \A b \in found : b <= cur - 1
    BY <1>1
  <2>2. Max(found) \in found /\ \A b \in found : b <= Max(found)
    <3>1. cur - 1 \in Int /\ found \subseteq Int
      BY <1>1
    <3> QED
      BY <1>1, <2>1, <3>1, MaxOfBounded
  <2>3. Max(found) = cur - 1
    <3>1. Max(found) <= cur - 1
      BY <2>1, <2>2
    <3>2. cur - 1 <= Max(found)
      BY <1>1, <2>2
    <3>3. Max(found) \in Int /\ cur - 1 \in Int
      BY <2>2, Types
    <3> QED
      BY <3>1, <3>2, <3>3
  <2> QED
    BY <1>1, <2>3 DEF FillGapsJoined
<1>4. bounded' \in BOOLEAN /\ shouldTerminate' \in BOOLEAN
  BY <1>1, Termination
<1>5. StoreTypeOK' /\ TasksTypeOK' /\ HeadersBounded'
  BY <1>1, <1>4, StoreStill, Types
<1>6. LegacyTypeOK'
  BY <1>1, <1>3, <1>4, <1>5, Types DEF LegacyTypeOK, UpdatePCs, FillPCs
<1>7. ArgsInv'
  BY <1>1, <1>2, <1>3 DEF ArgsInv, Tasking
<1>8. GapInv'
  BY <1>1, <1>3, Types DEF GapInv, Searching
<1>9. FillSkipsNothing'
  <2>1. from .. pos - 1 \subseteq headers \cup lost \cup misplaced
    BY <1>1 DEF LegacyInv, FillSkipsNothing
  <2>2. pos .. cur - 1 \subseteq headers \cup lost' \cup misplaced
    BY <1>1, <1>2
  <2>3. from .. cur - 1 \subseteq headers \cup lost' \cup misplaced
    BY <1>1, <2>1, <2>2, Types
  <2> QED
    BY <1>1, <1>2, <1>3, <2>3 DEF FillSkipsNothing
<1> QED
  BY <1>3, <1>5, <1>6, <1>7, <1>8, <1>9, NotUpdating, NotRepairing DEF LegacyInv

LEMMA FillNullsInv == ASSUME LegacyInv, FillNulls PROVE LegacyInv'
<1>1. /\ lpc = "nulls" /\ pos \in Int /\ last \in Int /\ from <= pos
      /\ UNCHANGED <<headers, meta, finalized, shouldTerminate>>
      /\ UNCHANGED <<bounded, last, cur, from, reported, lost>>
  BY Types DEF FillNulls, LegacyInv, ArgsInv, NullInv
<1>2. bounded' \in BOOLEAN /\ shouldTerminate' \in BOOLEAN
  BY <1>1, Termination
<1>3. SpanEnd \in Int /\ (pos <= last => pos <= SpanEnd)
  BY <1>1, SpanEndType
<1> DEFINE nulls == find_null_data(incomplete, pos, SpanEnd)
<1>4. nulls = incomplete \cap (pos .. SpanEnd)
  BY DEF find_null_data
<1>5. \/ /\ lpc' \in {"done", "failed"} /\ faults' \in Nat
         /\ UNCHANGED <<pos, found, taskVars>>
      \/ /\ pos <= last /\ faults' \in Nat
         /\ nulls = {} /\ pos' = SpanEnd + 1
         /\ lpc' = "nulls" /\ UNCHANGED <<found, taskVars>>
      \/ /\ pos <= last /\ faults' \in Nat
         /\ nulls # {} /\ found' = nulls /\ pos' = pos
         /\ lpc' = "nullTasks" /\ SpawnTasks(nulls)
  <2>1. faults' \in Nat
    BY Types, QueryCounts DEF FillNulls
  <2> QED
    BY <1>1, <2>1 DEF FillNulls
<1> HIDE DEF nulls
<1>6. CASE lpc' \in {"done", "failed"} /\ faults' \in Nat /\ UNCHANGED <<pos, found, taskVars>>
  <2>1. StoreTypeOK' /\ TasksTypeOK' /\ HeadersBounded'
    BY <1>1, <1>2, <1>6, StoreStill, Types
  <2>2. LegacyTypeOK'
    BY <1>1, <1>2, <1>6, <2>1, Types DEF LegacyTypeOK, UpdatePCs, FillPCs
  <2>3. ArgsInv'
    BY <1>1, <1>6 DEF LegacyInv, ArgsInv, Tasking, taskVars
  <2> QED
    BY <1>6, <2>1, <2>2, <2>3, NotUpdating, NotSearching, NotRepairing DEF LegacyInv
<1>7. CASE /\ pos <= last /\ faults' \in Nat
           /\ nulls = {} /\ pos' = SpanEnd + 1
           /\ lpc' = "nulls" /\ UNCHANGED <<found, taskVars>>
  <2>1. StoreTypeOK' /\ TasksTypeOK' /\ HeadersBounded'
    BY <1>1, <1>2, <1>7, StoreStill, Types
  <2>2. LegacyTypeOK'
    BY <1>1, <1>2, <1>3, <1>7, <2>1, Types DEF LegacyTypeOK, UpdatePCs, FillPCs
  <2>3. ArgsInv'
    BY <1>1, <1>3, <1>7 DEF LegacyInv, ArgsInv, Tasking, taskVars
  <2>4. FillRepairsRows'
    <3> SUFFICES ASSUME NEW b \in incomplete, b \in from .. SpanEnd
                 PROVE  b >= FirstPartial \/ b \in lost \cup misplaced
      <4>1. UNCHANGED <<incomplete, from, lost, misplaced>> /\ pos' - 1 = SpanEnd
        BY <1>1, <1>3, <1>7 DEF taskVars
      <4> QED
        BY <4>1 DEF FillRepairsRows
    <3>1. b \in from .. pos - 1
      BY <1>1, <1>3, <1>4, <1>7, Types
    <3> QED
      BY <1>1, <3>1 DEF LegacyInv, FillRepairsRows
  <2>5. NullInv'
    BY <1>1, <1>3, <1>7, Types DEF NullInv
  <2> QED
    BY <1>7, <2>1, <2>2, <2>3, <2>4, <2>5, NotUpdating, NotSearching DEF LegacyInv
<1>8. CASE /\ pos <= last /\ faults' \in Nat
           /\ nulls # {} /\ found' = nulls /\ pos' = pos
           /\ lpc' = "nullTasks" /\ SpawnTasks(nulls)
  <2>1. /\ nulls \subseteq Int /\ SpanEnd' = SpanEnd
    BY <1>1, <1>4, <1>8 DEF SpanEnd
  <2>2. /\ StoreTypeOK' /\ TasksTypeOK' /\ HeadersBounded'
        /\ DOMAIN tries' = nulls /\ UNCHANGED <<incomplete, misplaced>>
    BY <1>1, <1>2, <1>8, <2>1, SpawnKeeps, Types
  <2>3. LegacyTypeOK'
    BY <1>1, <1>2, <1>8, <2>1, <2>2, Types DEF LegacyTypeOK, UpdatePCs, FillPCs
  <2>4. ArgsInv'
    BY <1>1, <1>8 DEF ArgsInv, Tasking
  <2>5. NullInv' /\ FillRepairsRows'
    BY <1>1, <1>4, <1>8, <2>1, <2>2 DEF LegacyInv, NullInv, FillRepairsRows
  <2> QED
    BY <1>8, <2>2, <2>3, <2>4, <2>5, NotUpdating, NotSearching DEF LegacyInv
<1> QED
  BY <1>5, <1>6, <1>7, <1>8

LEMMA FillNullsJoinedInv == ASSUME LegacyInv, FillNullsJoined PROVE LegacyInv'
<1>1. /\ lpc = "nullTasks" /\ pos \in Int /\ last \in Int /\ from <= pos /\ pos <= last
      /\ UNCHANGED <<headers, meta, finalized, shouldTerminate, faults, taskVars>>
      /\ UNCHANGED <<bounded, last, cur, found, from, reported>>
      /\ found \subseteq pos .. SpanEnd /\ found # {}
      /\ lpc' = "nulls" /\ pos' = Max(found) + 1
      /\ lost' = lost \cup failedBlocks
  BY Types DEF FillNullsJoined, LegacyInv, ArgsInv, NullInv, storeVars
<1>2. /\ DOMAIN tries = {} /\ DOMAIN tries' = {}
      /\ misplaced' = misplaced /\ incomplete' = incomplete
  BY <1>1 DEF FillNullsJoined, TasksJoined, taskVars
<1>3. SpanEnd \in Int
  BY <1>1, SpanEndType
<1>4. Max(found) \in pos .. SpanEnd
  <2>1. found \subseteq Int /\ \A b \in found : b <= SpanEnd
    BY <1>1, <1>3
  <2>2. Max(found) \in found
    BY <1>1, <1>3, <2>1, MaxOfBounded
  <2> QED
    BY <1>1, <2>2
<1>5. bounded' \in BOOLEAN /\ shouldTerminate' \in BOOLEAN
  BY <1>1, Termination
<1>6. StoreTypeOK' /\ TasksTypeOK' /\ HeadersBounded'
  BY <1>1, <1>5, StoreStill, Types
<1>7. pos' \in Int /\ pos' > pos /\ pos' - 1 <= SpanEnd
  BY <1>1, <1>3, <1>4
<1>8. LegacyTypeOK'
  BY <1>1, <1>5, <1>6, <1>7, Types DEF LegacyTypeOK, UpdatePCs, FillPCs
<1>9. ArgsInv'
  BY <1>1, <1>2, <1>7 DEF ArgsInv, Tasking
<1>10. NullInv'
  BY <1>1, <1>7, Types DEF NullInv
<1>11. FillRepairsRows'
  <2> SUFFICES ASSUME NEW b \in incomplete, b \in from .. pos' - 1
               PROVE  b >= FirstPartial \/ b \in lost' \cup misplaced
    BY <1>1, <1>2 DEF FillRepairsRows
  <2>1. CASE b < pos
    BY <1>1, <1>7, <2>1, Types DEF LegacyInv, FillRepairsRows
  <2>2. CASE b >= pos
    <3>1. b \in incomplete \cap (pos .. SpanEnd)
      BY <1>1, <1>3, <1>7, <2>2, Types
    <3> QED
      BY <1>1, <1>2, <3>1 DEF LegacyInv, NullInv
  <2> QED
    BY <1>1, <2>1, <2>2, Types
<1> QED
  BY <1>1, <1>6, <1>8, <1>9, <1>10, <1>11, NotUpdating, NotSearching DEF LegacyInv

-----------------------------------------------------------------------------
(* The tasks of either command.                                            *)
LEMMA TaskTypes ==
  ASSUME LegacyInv, TaskKeeps
  PROVE  StoreTypeOK' /\ TasksTypeOK' /\ HeadersBounded'
<1>1. PICK n \in Int : headers' \subseteq headers \cup {n}
  BY DEF TaskKeeps
<1>2. HeadersBounded'
  <2>1. PICK m \in Nat : \A b \in headers : b <= m
    BY DEF LegacyInv, HeadersBounded
  <2>2. CASE n <= m
    BY <1>1, <2>1, <2>2 DEF HeadersBounded
  <2>3. CASE n > m
    <3>1. n \in Nat /\ \A b \in headers' : b <= n
      BY <1>1, <2>1, <2>3, Types
    <3> QED
      BY <3>1 DEF HeadersBounded
  <2> QED
    BY <2>1, <2>2, <2>3
<1>3. headers' \subseteq Int
  BY <1>1, Types
<1>4. shouldTerminate' \in BOOLEAN
  BY Termination DEF TaskKeeps
<1>5. StoreTypeOK'
  BY <1>3, <1>4, Types DEF TaskKeeps, StoreTypeOK
<1>6. TasksTypeOK'
  BY Types DEF TaskKeeps, TasksTypeOK
<1> QED
  BY <1>2, <1>5, <1>6

LEMMA TaskCommand ==
  ASSUME LegacyInv, Tasking, TaskKeeps, UNCHANGED cmdVars
  PROVE  /\ LegacyTypeOK' /\ HeadersBounded' /\ ArgsInv'
         /\ UNCHANGED <<lpc, bounded, pos, last, cur, found, from, reported, lost>>
<1>1. UNCHANGED <<lpc, bounded, pos, last, cur, found, from, reported, lost>>
  BY DEF cmdVars
<1>2. StoreTypeOK' /\ TasksTypeOK' /\ HeadersBounded'
  BY TaskTypes
<1>3. bounded' \in BOOLEAN
  BY <1>1, Termination
<1>4. lpc' \in UpdatePCs \cup FillPCs \cup {"down", "done", "failed"}
  BY <1>1 DEF LegacyInv, LegacyTypeOK
<1>5. LegacyTypeOK'
  BY <1>1, <1>2, <1>3, <1>4, Types DEF LegacyTypeOK
<1>6. ArgsInv'
  BY <1>1 DEF LegacyInv, ArgsInv, Tasking
<1> QED
  BY <1>1, <1>2, <1>5, <1>6

LEMMA UpdateTaskInv == ASSUME LegacyInv, UpdateTask PROVE LegacyInv'
<1>1. lpc = "tasks" /\ TaskKeeps /\ UNCHANGED cmdVars
  BY Types, TaskEffect DEF UpdateTask
<1>2. /\ LegacyTypeOK' /\ HeadersBounded' /\ ArgsInv'
      /\ UNCHANGED <<lpc, bounded, pos, last, cur, found, from, reported, lost>>
  BY <1>1, TaskCommand DEF Tasking
<1>3. /\ headers \subseteq headers' /\ misplaced \subseteq misplaced'
      /\ failedBlocks \subseteq failedBlocks' /\ DOMAIN tries' \subseteq DOMAIN tries
      /\ DOMAIN tries \subseteq DOMAIN tries' \cup headers' \cup misplaced' \cup failedBlocks'
      /\ finalized' = finalized
  BY <1>1 DEF TaskKeeps
<1>4. UpdateInv'
  BY <1>1, <1>2, <1>3 DEF LegacyInv, UpdateInv, Updating
<1>5. HolesInv'
  BY <1>1, <1>2, <1>3 DEF LegacyInv, HolesInv, Updating
<1>6. FromStartInv'
  BY <1>1, <1>2 DEF LegacyInv, FromStartInv, Updating
<1> QED
  BY <1>1, <1>2, <1>4, <1>5, <1>6, NotSearching, NotRepairing DEF LegacyInv

LEMMA FillGapTaskInv == ASSUME LegacyInv, FillGapTask PROVE LegacyInv'
<1>1. lpc = "gapTasks" /\ TaskKeeps /\ UNCHANGED cmdVars
  BY Types, TaskEffect DEF FillGapTask
<1>2. /\ LegacyTypeOK' /\ HeadersBounded' /\ ArgsInv'
      /\ UNCHANGED <<lpc, bounded, pos, last, cur, found, from, reported, lost>>
  BY <1>1, TaskCommand DEF Tasking
<1>3. /\ headers \subseteq headers' /\ misplaced \subseteq misplaced'
      /\ failedBlocks \subseteq failedBlocks'
      /\ DOMAIN tries \subseteq DOMAIN tries' \cup headers' \cup misplaced' \cup failedBlocks'
  BY <1>1 DEF TaskKeeps
<1>4. GapInv'
  BY <1>1, <1>2, <1>3 DEF LegacyInv, GapInv, Searching
<1>5. FillSkipsNothing'
  BY <1>1, <1>2, <1>3 DEF LegacyInv, FillSkipsNothing
<1> QED
  BY <1>1, <1>2, <1>4, <1>5, NotUpdating, NotRepairing DEF LegacyInv

LEMMA FillNullTaskInv == ASSUME LegacyInv, FillNullTask PROVE LegacyInv'
<1>1. lpc = "nullTasks" /\ TaskKeeps /\ UNCHANGED cmdVars
  BY Types, TaskEffect DEF FillNullTask
<1>2. /\ LegacyTypeOK' /\ HeadersBounded' /\ ArgsInv'
      /\ UNCHANGED <<lpc, bounded, pos, last, cur, found, from, reported, lost>>
  BY <1>1, TaskCommand DEF Tasking
<1>3. /\ misplaced \subseteq misplaced' /\ failedBlocks \subseteq failedBlocks'
      /\ \A b \in incomplete' :
           \/ b >= FirstPartial
           \/ /\ b \in incomplete
              /\ b \in DOMAIN tries =>
                   b \in DOMAIN tries' \cup misplaced' \cup failedBlocks'
  BY <1>1 DEF TaskKeeps
<1>4. SpanEnd' = SpanEnd
  BY <1>2 DEF SpanEnd
<1>5. NullInv'
  BY <1>1, <1>2, <1>3, <1>4 DEF LegacyInv, NullInv
<1>6. FillRepairsRows'
  BY <1>1, <1>2, <1>3 DEF LegacyInv, FillRepairsRows
<1> QED
  BY <1>1, <1>2, <1>5, <1>6, NotUpdating, NotSearching DEF LegacyInv

-----------------------------------------------------------------------------
(* The operator, the process's end, the chain and other processes.         *)
LEMMA StartCommandInv ==
  ASSUME LegacyInv, NEW pc \in {"first", "end"},
         NEW start \in Starts, NEW end \in Ends, StartCommand(pc, start, end)
  PROVE  LegacyInv'
<1>1. /\ lpc = "down" /\ lpc' = pc /\ pos' = start /\ last' = end
      /\ UNCHANGED <<headers, meta, finalized, faults, taskVars>>
      /\ UNCHANGED <<cur, found, from, reported, lost>>
  BY DEF StartCommand
<1>2. /\ shouldTerminate' \in BOOLEAN /\ bounded' \in BOOLEAN
      /\ bounded' <=> end # NULL
  BY DEF StartCommand
<1>3. start \in Int \cup {NULL} /\ end \in Int \cup {NULL}
  BY LegacyAssumption
<1>4. StoreTypeOK' /\ TasksTypeOK' /\ HeadersBounded'
  BY <1>1, <1>2, StoreStill, Types
<1>5. LegacyTypeOK'
  BY <1>1, <1>2, <1>3, <1>4, Types DEF LegacyTypeOK, UpdatePCs, FillPCs
<1>6. DOMAIN tries' = {}
  BY <1>1 DEF LegacyInv, ArgsInv, Tasking, taskVars
<1>7. ArgsInv'
  BY <1>1, <1>2, <1>3, <1>6 DEF ArgsInv, Tasking
<1>8. FromStartInv'
  BY <1>1 DEF FromStartInv, Updating
<1> QED
  BY <1>1, <1>4, <1>5, <1>7, <1>8, NotUpdating, NotSearching, NotRepairing DEF LegacyInv

LEMMA CommandEndsInv ==
  ASSUME LegacyInv, CommandEnds, faults' \in Nat PROVE LegacyInv'
<1>1. /\ lpc' = "down" /\ pos' = 0 /\ last' = 0 /\ cur' = 0 /\ found' = {}
      /\ from' = 0 /\ reported' = {} /\ lost' = {}
      /\ DOMAIN tries' = {} /\ failedBlocks' = {} /\ misplaced' = {}
      /\ UNCHANGED <<headers, meta, finalized, incomplete>>
  BY DEF CommandEnds, NoTasks
<1>2. bounded' \in BOOLEAN /\ shouldTerminate' \in BOOLEAN
  BY Termination DEF CommandEnds
<1>3. StoreTypeOK' /\ TasksTypeOK' /\ HeadersBounded'
  <2>1. meta \in MetaRow \cup {NoRow}
    BY DEF LegacyInv, LegacyTypeOK, StoreTypeOK
  <2> QED
    BY <1>1, <1>2, <2>1, Types DEF StoreTypeOK, TasksTypeOK, HeadersBounded, LegacyInv
<1>4. LegacyTypeOK'
  BY <1>1, <1>2, <1>3 DEF LegacyTypeOK, UpdatePCs, FillPCs
<1>5. ArgsInv'
  BY <1>1 DEF ArgsInv, Tasking
<1> QED
  BY <1>1, <1>3, <1>4, <1>5, NotUpdating, NotSearching, NotRepairing DEF LegacyInv

LEMMA LegacyEndInv == ASSUME LegacyInv, LegacyExit \/ LegacyCrash PROVE LegacyInv'
<1>1. CommandEnds /\ faults' \in Nat
  BY Types DEF LegacyExit, LegacyCrash, Fault
<1> QED
  BY <1>1, CommandEndsInv

(* Others only add headers, and only incomplete ones that nodes leave so.  *)
LEMMA AroundInv ==
  ASSUME LegacyInv, UNCHANGED cmdVars,
         UNCHANGED <<tries, failedBlocks, misplaced, meta, faults>>,
         headers \subseteq headers', incomplete' \subseteq headers',
         \A b \in incomplete' : b >= FirstPartial \/ b \in incomplete,
         NEW n \in Int, headers' \subseteq headers \cup {n},
         finalized' \in Nat, finalized <= finalized',
         shouldTerminate' \in BOOLEAN, shouldTerminate => shouldTerminate'
  PROVE  LegacyInv'
<1>1. UNCHANGED <<lpc, bounded, pos, last, cur, found, from, reported, lost>>
  BY DEF cmdVars
<1>2. StoreTypeOK' /\ TasksTypeOK' /\ HeadersBounded'
  <2>1. PICK m \in Nat : \A b \in headers : b <= m
    BY DEF LegacyInv, HeadersBounded
  <2>2. PICK k \in Nat : \A b \in headers' : b <= k
    <3>1. CASE n <= m
      BY <2>1, <3>1
    <3>2. CASE n > m
      <4>1. n \in Nat /\ \A b \in headers' : b <= n
        BY <2>1, <3>2, Types
      <4> QED
        BY <4>1
    <3> QED
      BY <2>1, <3>1, <3>2
  <2>3. HeadersBounded'
    BY <2>2 DEF HeadersBounded
  <2>4. meta \in MetaRow \cup {NoRow}
    BY DEF LegacyInv, LegacyTypeOK, StoreTypeOK
  <2>5. headers' \subseteq Int
    BY Types
  <2>6. StoreTypeOK'
    BY <2>4, <2>5, Types DEF StoreTypeOK
  <2>7. TasksTypeOK'
    BY Types DEF TasksTypeOK
  <2> QED
    BY <2>3, <2>6, <2>7
<1>3. bounded' \in BOOLEAN
  BY <1>1, Termination
<1>4. lpc' \in UpdatePCs \cup FillPCs \cup {"down", "done", "failed"}
  BY <1>1 DEF LegacyInv, LegacyTypeOK
<1>5. LegacyTypeOK'
  BY <1>1, <1>2, <1>3, <1>4, Types DEF LegacyTypeOK
<1>6. ArgsInv'
  BY <1>1 DEF LegacyInv, ArgsInv, Tasking
<1>7. UpdateInv'
  <2>1. Updating => last \in Int
    BY DEF LegacyInv, ArgsInv, Updating
  <2>2. Updating' => last' <= finalized' /\ (~bounded' => last' >= 0)
    BY <1>1, <2>1, Types DEF LegacyInv, UpdateInv, Updating
  <2> QED
    BY <1>1, <2>2 DEF LegacyInv, UpdateInv
<1>8. FromStartInv' /\ HolesInv'
  BY <1>1 DEF LegacyInv, FromStartInv, HolesInv, Updating
<1>9. SpanEnd' = SpanEnd
  BY <1>1 DEF SpanEnd
<1>10. GapInv' /\ FillSkipsNothing'
  BY <1>1, <1>9 DEF LegacyInv, GapInv, Searching, FillSkipsNothing
<1>11. NullInv' /\ FillRepairsRows'
  BY <1>1, <1>9 DEF LegacyInv, NullInv, FillRepairsRows
<1> QED
  BY <1>2, <1>5, <1>6, <1>7, <1>8, <1>10, <1>11 DEF LegacyInv

LEMMA OtherWriterInv == ASSUME LegacyInv, OtherWriter PROVE LegacyInv'
<1>1. PICK n \in 0 .. finalized : Upsert(n)
  BY DEF OtherWriter
<1>2. /\ n \in Int
      /\ UNCHANGED <<meta, finalized, faults, tries, failedBlocks, misplaced, cmdVars>>
  BY DEF OtherWriter
<1>3. shouldTerminate' \in BOOLEAN /\ (shouldTerminate => shouldTerminate')
  BY Termination DEF OtherWriter
<1>4. /\ headers' = headers \cup {n} /\ incomplete' \subseteq headers'
      /\ \A b \in incomplete' : b >= FirstPartial \/ b \in incomplete
  BY <1>1, <1>2, Types, UpsertEffect
<1> QED
  BY <1>2, <1>3, <1>4, Types, AroundInv

LEMMA WorldInv ==
  ASSUME LegacyInv, FinalizeBlock \/ CtrlC, UNCHANGED <<taskVars, cmdVars>>
  PROVE  LegacyInv'
<1>1. /\ UNCHANGED <<headers, meta, faults, tries, failedBlocks, incomplete, misplaced, cmdVars>>
      /\ finalized' \in {finalized, finalized + 1}
  BY DEF FinalizeBlock, CtrlC, taskVars
<1>2. shouldTerminate' \in BOOLEAN /\ (shouldTerminate => shouldTerminate')
  <2>1. CASE FinalizeBlock
    <3>1. shouldTerminate' = shouldTerminate
      BY <2>1 DEF FinalizeBlock
    <3> QED
      BY <3>1, Termination
  <2>2. CASE CtrlC
    BY <2>2 DEF CtrlC
  <2> QED
    BY <2>1, <2>2
<1>3. finalized' \in Nat /\ finalized <= finalized'
  BY <1>1, Types
<1>4. /\ headers \subseteq headers' /\ headers' \subseteq headers \cup {0}
      /\ incomplete' \subseteq headers' /\ 0 \in Int
      /\ \A b \in incomplete' : b >= FirstPartial \/ b \in incomplete
  BY <1>1, Types
<1> QED
  BY <1>1, <1>2, <1>3, <1>4, AroundInv

-----------------------------------------------------------------------------
LEMMA LegacyInitInv == LegacyInit => LegacyInv
<1> SUFFICES ASSUME LegacyInit PROVE LegacyInv
  OBVIOUS
<1>1. /\ headers \subseteq Blocks /\ MaxBlock \in Nat /\ finalized \in Nat
  BY BoundAssumption DEF LegacyInit, Blocks
<1>2. HeadersBounded
  BY <1>1 DEF HeadersBounded, Blocks
<1>3. /\ lpc = "down" /\ pos = 0 /\ last = 0 /\ cur = 0 /\ found = {}
      /\ from = 0 /\ reported = {} /\ lost = {}
      /\ DOMAIN tries = {} /\ failedBlocks = {} /\ misplaced = {}
      /\ incomplete \subseteq headers /\ meta = NoRow /\ faults = 0
  BY DEF LegacyInit, CommandIdle, NoTasks
<1>4. bounded \in BOOLEAN /\ shouldTerminate \in BOOLEAN
  BY DEF LegacyInit, CommandIdle
<1>5. StoreTypeOK /\ TasksTypeOK
  BY <1>1, <1>3, <1>4 DEF StoreTypeOK, TasksTypeOK, Blocks
<1>6. LegacyTypeOK
  BY <1>3, <1>4, <1>5 DEF LegacyTypeOK, UpdatePCs, FillPCs
<1>7. /\ ArgsInv /\ UpdateInv /\ FromStartInv /\ HolesInv
      /\ GapInv /\ FillSkipsNothing /\ NullInv /\ FillRepairsRows
  BY <1>3 DEF ArgsInv, UpdateInv, FromStartInv, HolesInv, GapInv, FillSkipsNothing,
     NullInv, FillRepairsRows, Updating, Searching, Tasking
<1> QED
  BY <1>2, <1>6, <1>7 DEF LegacyInv

LEMMA LegacyStepInv == LegacyInv /\ LegacyStep => LegacyInv'
BY UpdateFirstInv, UpdateLastInv, UpdateBatchInv, UpdateTaskInv, UpdateJoinedInv,
   UpdatePollInv, FillEndInv, FillGapsInv, FillFindInv, FillFoundInv, FillGapTaskInv,
   FillGapsJoinedInv, FillNullsInv, FillNullTaskInv, FillNullsJoinedInv, LegacyEndInv
   DEF LegacyStep

LEMMA LegacyNextInv == LegacyInv /\ [LegacyNext]_legacyVars => LegacyInv'
<1> SUFFICES ASSUME LegacyInv, [LegacyNext]_legacyVars PROVE LegacyInv'
  OBVIOUS
<1>1. CASE LegacyStep
  BY <1>1, LegacyStepInv
<1>2. CASE Update \/ Fix
  BY <1>2, StartCommandInv DEF Update, Fix
<1>3. CASE LegacyCrash
  BY <1>3, LegacyEndInv
<1>4. CASE OtherWriter
  BY <1>4, OtherWriterInv
<1>5. CASE (FinalizeBlock \/ CtrlC) /\ UNCHANGED <<taskVars, cmdVars>>
  BY <1>5, WorldInv
<1>6. CASE UNCHANGED legacyVars
  <2>1. /\ UNCHANGED <<headers, meta, finalized, shouldTerminate, faults>>
        /\ UNCHANGED <<tries, failedBlocks, incomplete, misplaced, cmdVars>>
    BY <1>6 DEF legacyVars, storeVars, taskVars
  <2>2. shouldTerminate' \in BOOLEAN /\ (shouldTerminate => shouldTerminate')
    BY <2>1, Termination
  <2>3. /\ headers \subseteq headers' /\ headers' \subseteq headers \cup {0}
        /\ incomplete' \subseteq headers' /\ 0 \in Int
        /\ \A b \in incomplete' : b >= FirstPartial \/ b \in incomplete
        /\ finalized' \in Nat /\ finalized <= finalized'
    BY <2>1, Types
  <2> QED
    BY <2>1, <2>2, <2>3, AroundInv
<1> QED
  BY <1>1, <1>2, <1>3, <1>4, <1>5, <1>6 DEF LegacyNext

LEMMA LegacyInvariance == LegacySafetySpec => []LegacyInv
BY LegacyInitInv, LegacyNextInv, PTL DEF LegacySafetySpec

-----------------------------------------------------------------------------
(* Every variable of the CLI keeps to its type, whatever arguments it is   *)
(* given and whatever other processes store.                               *)
THEOREM LegacyTypeCorrect == LegacySafetySpec => []LegacyTypeOK
<1>1. LegacyInv => LegacyTypeOK
  BY DEF LegacyInv
<1> QED
  BY <1>1, LegacyInvariance, PTL

(* update: a hole in the range it has passed lies at or behind a batch it  *)
(* reported, for every batch size, also where ranges are cut short and     *)
(* chain_update_blocks goes on behind them.                                *)
THEOREM UpdateReportsHoles == LegacySafetySpec => []UpdateHolesReported
<1>1. LegacyInv => UpdateHolesReported
  <2> SUFFICES ASSUME LegacyInv, Updating, NEW b \in from .. Min({last, pos - 1})
               PROVE  \/ b \in headers \cup misplaced
                      \/ \E r \in reported : r <= b
    BY DEF UpdateHolesReported, Updating
  <2>1. pos \in Int /\ last \in Int /\ from \in Int
    BY Types DEF LegacyInv, ArgsInv, Updating
  <2>2. pos - 1 \in Int
    BY <2>1
  <2>3. Min({last, pos - 1}) = IF last <= pos - 1 THEN last ELSE pos - 1
    BY <2>1, <2>2, MinOfTwo
  <2>4. b \in from .. last /\ b < pos
    BY <2>1, <2>3
  <2> QED
    BY <2>4 DEF LegacyInv, HolesInv
<1> QED
  BY <1>1, LegacyInvariance, PTL

(* update asks for finalized blocks only, as long as --start is a block    *)
(* number: the CLI takes any i64 for it.                                   *)
THEOREM UpdateStaysBehindChain ==
  ASSUME Starts \subseteq Nat \cup {NULL}
  PROVE  LegacySafetySpec => []UpdateNotAhead
<1>1. LegacyInv => UpdateNotAhead
  <2> SUFFICES ASSUME LegacyInv, lpc = "tasks", NEW b \in DOMAIN tries
               PROVE  b \in 0 .. finalized
    BY DEF UpdateNotAhead
  <2>1. /\ pos \in Int /\ last \in Int /\ b \in Int /\ finalized \in Nat
        /\ last <= finalized /\ pos <= b /\ b <= last
    BY Types DEF LegacyInv, ArgsInv, UpdateInv, Updating
  <2>2. pos >= 0
    BY DEF LegacyInv, FromStartInv, Updating
  <2> QED
    BY <2>1, <2>2
<1> QED
  BY <1>1, LegacyInvariance, PTL

(* fill_gaps: whatever its pointer has passed is stored, was tried and     *)
(* failed, or was answered with another header, for every span, every      *)
(* limit on the holes it collects and every stored set.                    *)
THEOREM FillPassesNoHole == LegacySafetySpec => []FillSkipsNothing
<1>1. LegacyInv => FillSkipsNothing
  BY DEF LegacyInv
<1> QED
  BY <1>1, LegacyInvariance, PTL

(* fill_null_rows: a row it has passed has no NULL column, except for the  *)
(* columns nodes leave out and the rows it tried and gave up.              *)
THEOREM FillLeavesNoNull == LegacySafetySpec => []FillRepairsRows
<1>1. LegacyInv => FillRepairsRows
  BY DEF LegacyInv
<1> QED
  BY <1>1, LegacyInvariance, PTL

-----------------------------------------------------------------------------
(* While fix searches for holes, there is a range left to search.          *)
LEMMA FindRange ==
  ASSUME LegacyInv, lpc = "find"
  PROVE  cur \in Int /\ last \in Int /\ cur <= last
<1>1. cur \in Int /\ last \in Int /\ pos \in Int /\ cur <= SpanEnd
  BY Types DEF LegacyInv, ArgsInv, GapInv
<1>2. SpanEnd \in Int /\ SpanEnd <= last
  BY <1>1, SpanEndType
<1> QED
  BY <1>1, <1>2

(* The ranges of consecutive missing blocks that the database reports of   *)
(* what fix has still to fill are exact, whatever fix and others have      *)
(* stored meanwhile.                                                       *)
THEOREM FixSeesExactRanges == LegacySafetySpec => []GapRangesExact
<1>1. LegacyInv => GapRangesExact
  BY FindRange, SearchesAgree DEF GapRangesExact
<1> QED
  BY <1>1, LegacyInvariance, PTL

(* The searches for missing blocks, in chunks of any size, in one query or *)
(* for the first gap only, agree on it.                                    *)
THEOREM FixSearchesAgree == LegacySafetySpec => []GapSearchesAgree
<1>1. LegacyInv => GapSearchesAgree
  BY FindRange, SearchesAgree DEF GapSearchesAgree
<1> QED
  BY <1>1, LegacyInvariance, PTL
=============================================================================
