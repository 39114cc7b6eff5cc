--------------------------- MODULE LegacyCommands ---------------------------
(***************************************************************************)
(* The legacy CLI (src/main.rs, src/commands/mod.rs): update appends the   *)
(* blocks that follow the highest stored one, fix fills the holes and the  *)
(* NULL columns of a range.  A process runs one command and stays until    *)
(* its router ends; then the operator may start another.  Other processes  *)
(* (the indexer) store headers in the same table.                          *)
(***************************************************************************)
EXTENDS LegacyTasks, GapSearch

CONSTANTS
  SpanSize,  \* the span that fill_gaps searches at a time (100000)
  GapLimit,  \* how many holes fill_gaps collects at a time (100)
  Starts,    \* what --start may be, NULL when it is absent
  Ends       \* what --end may be, NULL when it is absent

ASSUME LegacyAssumption ==
  /\ SpanSize \in Nat \ {0} /\ GapLimit \in Nat \ {0}
  /\ Starts \subseteq Int \cup {NULL} /\ Ends \subseteq Int \cup {NULL}

VARIABLES
  lpc,       \* where the command is
  bounded,   \* --end was given
  pos,       \* n of update_blocks, range_start_pointer of fill_gaps
  last,      \* last_block of update_from, range_end of fill_gaps
  cur,       \* current_start of the search for holes
  found,     \* missing_blocks, null_data_vec
  from,      \* history: where the command began
  reported,  \* history: the "Rerun from block" lines of update
  lost       \* history: the blocks fill_gaps tried and gave up

cmdVars == <<lpc, bounded, pos, last, cur, found, from, reported, lost>>
legacyVars == <<storeVars, taskVars, cmdVars>>

UpdatePCs == {"first", "last", "batch", "tasks", "poll"}
FillPCs == {"end", "gaps", "find", "found", "gapTasks", "nulls", "nullTasks"}

LegacyTypeOK ==
  /\ StoreTypeOK /\ TasksTypeOK
  /\ lpc \in UpdatePCs \cup FillPCs \cup {"down", "done", "failed"}
  /\ bounded \in BOOLEAN
  /\ pos \in Int \cup {NULL} /\ last \in Int \cup {NULL}
  /\ cur \in Int /\ from \in Int
  /\ found \subseteq Int /\ reported \subseteq Int /\ lost \subseteq Int

CommandIdle ==
  /\ bounded = FALSE /\ pos = 0 /\ last = 0 /\ cur = 0 /\ found = {}
  /\ from = 0 /\ reported = {} /\ lost = {}

LegacyInit ==
  /\ headers \in SUBSET Blocks
  /\ incomplete \in {headers, {b \in headers : b >= FirstPartial}}
  /\ meta = NoRow
  /\ finalized \in Blocks /\ headers \subseteq 0 .. finalized
  /\ shouldTerminate = FALSE
  /\ faults = 0
  /\ lpc = "down" /\ CommandIdle
  /\ tries = NoTasks /\ failedBlocks = {} /\ misplaced = {}

-----------------------------------------------------------------------------
(* A process starts with its arguments in pos and last.                    *)
StartCommand(pc, start, end) ==
  /\ lpc = "down"
  /\ lpc' = pc
  /\ pos' = start /\ last' = end /\ bounded' = (end # NULL)
  /\ shouldTerminate' = FALSE
  /\ UNCHANGED <<headers, meta, finalized, faults, taskVars, cur, found, from,
                 reported, lost>>

Update == \E start \in Starts, end \in Ends : StartCommand("first", start, end)
Fix == \E start \in Starts, end \in Ends : StartCommand("end", start, end)

(* get_last_stored_blocknumber, -1 for an empty table.                     *)
LastStored == Max(headers \cup {-1})

(* A query of the command; it is not made when an argument was given.      *)
(* retry_async around it repeats only connection errors of the pool: a     *)
(* query that failed has become DatabaseQueryFailed, and that is final.    *)
Ask(given, ok, pc) ==
  /\ IF given THEN ok /\ UNCHANGED faults ELSE Query(ok)
  /\ lpc' = IF ok THEN pc ELSE "failed"

-----------------------------------------------------------------------------
(* update_from: get_first_missing_block ...                                *)
UpdateFirst ==
  /\ lpc = "first"
  /\ \E ok \in BOOLEAN : Ask(pos # NULL, ok, "last")
  /\ pos' = IF pos # NULL THEN pos ELSE LastStored + 1
  /\ from' = pos'
  /\ UNCHANGED <<headers, meta, finalized, shouldTerminate, taskVars, bounded,
                 last, cur, found, reported, lost>>

(* ... and get_last_block.                                                 *)
UpdateLast ==
  /\ lpc = "last"
  /\ \E ok \in BOOLEAN, answer \in TipAnswers :
       /\ Outcome(ok, "rpcTip")
       /\ lpc' = IF ok THEN "batch" ELSE "failed"
       /\ last' = IF bounded /\ last <= answer THEN last ELSE answer
  /\ UNCHANGED <<headers, meta, finalized, shouldTerminate, taskVars, bounded,
                 pos, cur, found, from, reported, lost>>

(* update_blocks returns: to its caller, or to the loop of                 *)
(* chain_update_blocks.                                                    *)
AfterRange == IF bounded THEN "done" ELSE "poll"

(* Bug: the batch runs beyond the last block.                              *)
batch_past_the_end == pos .. pos + BatchSize - 1

(* n .. range_end - 1                                                      *)
batch == pos .. Min({last, pos + BatchSize - 1})

(* The head of the loop of update_blocks.                                  *)
UpdateBatch ==
  /\ lpc = "batch"
  /\ IF pos > last \/ shouldTerminate
     THEN lpc' = AfterRange /\ UNCHANGED taskVars
     ELSE lpc' = "tasks" /\ SpawnTasks(batch)
  /\ UNCHANGED <<storeVars, bounded, pos, last, cur, found, from, reported, lost>>

UpdateTask ==
  /\ lpc = "tasks"
  /\ TaskStep(TRUE)
  /\ UNCHANGED cmdVars

(* Bug: a batch with a failed block is followed by the next one.           *)
UpdateJoined_GoesOn ==
  /\ lpc = "tasks" /\ TasksJoined
  /\ lpc' = "batch" /\ pos' = pos + BatchSize
  /\ UNCHANGED <<storeVars, taskVars, bounded, last, cur, found, from, reported, lost>>

(* apply_backpressure_if_needed and handle_batch_completion: any failed    *)
(* block ends the range, and the batch is reported.                        *)
UpdateJoined ==
  /\ lpc = "tasks" /\ TasksJoined
  /\ \/ /\ failedBlocks = {}
        /\ lpc' = "batch" /\ pos' = pos + BatchSize
        /\ UNCHANGED reported
     \/ /\ failedBlocks # {}
        /\ lpc' = AfterRange /\ reported' = reported \cup {pos}
        /\ UNCHANGED pos
  /\ UNCHANGED <<storeVars, taskVars, bounded, last, cur, found, from, lost>>

(* Bug: termination is only looked for between ranges.                     *)
UpdatePoll_IgnoresFlag ==
  /\ lpc = "poll"
  /\ \E ok \in BOOLEAN, answer \in TipAnswers :
       /\ Outcome(ok, "rpcTip")
       /\ \/ ok /\ answer > last
             /\ lpc' = "batch" /\ pos' = last + 1 /\ last' = answer
          \/ ok /\ answer <= last /\ UNCHANGED <<lpc, pos, last>>
          \/ ~ok /\ lpc' = "failed" /\ UNCHANGED <<pos, last>>
  /\ UNCHANGED <<headers, meta, finalized, shouldTerminate, taskVars, bounded,
                 cur, found, from, reported, lost>>

(* chain_update_blocks waits for a new finalized block and goes on behind  *)
(* the old range, whether or not that was finished.                        *)
UpdatePoll ==
  /\ lpc = "poll"
  /\ \/ /\ shouldTerminate
        /\ lpc' = "done" /\ UNCHANGED <<faults, pos, last>>
     \/ /\ ~shouldTerminate
        /\ \E ok \in BOOLEAN, answer \in TipAnswers :
             /\ Outcome(ok, "rpcTip")
             /\ \/ ok /\ answer > last
                   /\ lpc' = "batch" /\ pos' = last + 1 /\ last' = answer
                \/ ok /\ answer <= last /\ UNCHANGED <<lpc, pos, last>>
                \/ ~ok /\ lpc' = "failed" /\ UNCHANGED <<pos, last>>
  /\ UNCHANGED <<headers, meta, finalized, shouldTerminate, taskVars, bounded,
                 cur, found, from, reported, lost>>

-----------------------------------------------------------------------------
(* fill_gaps: get_range_end; a range that is one block is left alone.      *)
FillEnd ==
  /\ lpc = "end"
  /\ LET start == IF pos = NULL THEN 0 ELSE pos
         end == IF bounded THEN last ELSE LastStored
     IN  /\ \E ok \in BOOLEAN :
              Ask(bounded, ok, IF end < 0 \/ start = end THEN "done" ELSE "gaps")
         /\ pos' = start /\ from' = start /\ last' = end
  /\ UNCHANGED <<headers, meta, finalized, shouldTerminate, taskVars, bounded,
                 cur, found, reported, lost>>

(* range_end_pointer                                                       *)
SpanEnd == Min({last, pos + SpanSize - 1})

(* The head of the loop of fill_missing_blocks_in_range; fill_null_rows    *)
(* then goes over the whole range again.                                   *)
FillGaps ==
  /\ lpc = "gaps"
  /\ IF pos > last \/ shouldTerminate
     THEN lpc' = "nulls" /\ pos' = from /\ UNCHANGED <<cur, found>>
     ELSE lpc' = "find" /\ cur' = pos /\ found' = {} /\ UNCHANGED pos
  /\ UNCHANGED <<storeVars, taskVars, bounded, last, from, reported, lost>>

(* One find_first_gap of the search.                                       *)
FillFind ==
  /\ lpc = "find"
  /\ \E ok \in BOOLEAN :
       LET gap == find_first_gap(headers, cur, SpanEnd, NULL)
       IN  /\ Query(ok)
           /\ \/ ok /\ gap = NULL
                 /\ lpc' = "found" /\ UNCHANGED <<cur, found>>
              \/ ok /\ gap # NULL
                 /\ found' = found \cup {gap} /\ cur' = gap + 1
                 /\ lpc' = IF cur' <= SpanEnd /\ Cardinality(found') < GapLimit
                           THEN "find" ELSE "found"
              \/ ~ok /\ lpc' = "failed" /\ UNCHANGED <<cur, found>>
  /\ UNCHANGED <<headers, meta, finalized, shouldTerminate, taskVars, bounded,
                 pos, last, from, reported, lost>>

(* Bug: a span without holes is searched again.                            *)
FillFound_StaysInSpan ==
  /\ lpc = "found"
  /\ IF found = {}
     THEN lpc' = "gaps" /\ UNCHANGED taskVars
     ELSE lpc' = "gapTasks" /\ SpawnTasks(found)
  /\ UNCHANGED <<storeVars, bounded, pos, last, cur, found, from, reported, lost>>

FillFound ==
  /\ lpc = "found"
  /\ IF found = {}
     THEN lpc' = "gaps" /\ pos' = SpanEnd + 1 /\ UNCHANGED taskVars
     ELSE lpc' = "gapTasks" /\ SpawnTasks(found) /\ UNCHANGED pos
  /\ UNCHANGED <<storeVars, bounded, last, cur, found, from, reported, lost>>

FillGapTask ==
  /\ lpc = "gapTasks"
  /\ TaskStep(FALSE)
  /\ UNCHANGED cmdVars

(* Bug: the search goes on behind the span, not behind the last hole.      *)
FillGapsJoined_SkipsSpan ==
  /\ lpc = "gapTasks" /\ TasksJoined
  /\ lpc' = "gaps" /\ pos' = SpanEnd + 1
  /\ lost' = lost \cup failedBlocks
  /\ UNCHANGED <<storeVars, taskVars, bounded, last, cur, found, from, reported>>

(* The pointer moves past the blocks that were found, failed or not.       *)
FillGapsJoined ==
  /\ lpc = "gapTasks" /\ TasksJoined
  /\ lpc' = "gaps" /\ pos' = Max(found) + 1
  /\ lost' = lost \cup failedBlocks
  /\ UNCHANGED <<storeVars, taskVars, bounded, last, cur, found, from, reported>>

(* Bug: the pointer moves past a span before its rows are rewritten.       *)
FillNulls_OnlySpan ==
  /\ lpc = "nulls"
  /\ \/ /\ pos > last \/ shouldTerminate
        /\ lpc' = "done" /\ UNCHANGED <<faults, pos, found, taskVars>>
     \/ /\ pos <= last /\ ~shouldTerminate
        /\ Query(TRUE)
        /\ pos' = SpanEnd + 1 /\ UNCHANGED <<lpc, found, taskVars>>
  /\ UNCHANGED <<headers, meta, finalized, shouldTerminate, bounded, last, cur,
                 from, reported, lost>>

(* fill_null_rows: the rows of a span with a NULL column.                  *)
FillNulls ==
  /\ lpc = "nulls"
  /\ \/ /\ pos > last \/ shouldTerminate
        /\ lpc' = "done" /\ UNCHANGED <<faults, pos, found, taskVars>>
     \/ /\ pos <= last /\ ~shouldTerminate
        /\ Query(TRUE)
        /\ LET nulls == find_null_data(incomplete, pos, SpanEnd)
           IN  IF nulls = {}
               THEN pos' = SpanEnd + 1 /\ UNCHANGED <<lpc, found, taskVars>>
               ELSE /\ lpc' = "nullTasks" /\ found' = nulls
                    /\ SpawnTasks(nulls) /\ UNCHANGED pos
     \/ /\ pos <= last /\ ~shouldTerminate
        /\ Query(FALSE)
        /\ lpc' = "failed" /\ UNCHANGED <<pos, found, taskVars>>
  /\ UNCHANGED <<headers, meta, finalized, shouldTerminate, bounded, last, cur,
                 from, reported, lost>>

FillNullTask ==
  /\ lpc = "nullTasks"
  /\ TaskStep(FALSE)
  /\ UNCHANGED cmdVars

FillNullsJoined ==
  /\ lpc = "nullTasks" /\ TasksJoined
  /\ lpc' = "nulls" /\ pos' = Max(found) + 1
  /\ lost' = lost \cup failedBlocks
  /\ UNCHANGED <<storeVars, taskVars, bounded, last, cur, found, from, reported>>

-----------------------------------------------------------------------------
(* The process is gone, and what it knew.                                  *)
CommandEnds ==
  /\ lpc' = "down"
  /\ bounded' = FALSE /\ pos' = 0 /\ last' = 0 /\ cur' = 0 /\ found' = {}
  /\ from' = 0 /\ reported' = {} /\ lost' = {}
  /\ tries' = NoTasks /\ failedBlocks' = {} /\ misplaced' = {}
  /\ UNCHANGED <<headers, meta, finalized, shouldTerminate, incomplete>>

(* main joins the command with the router, which serves until Ctrl-C.      *)
LegacyExit ==
  /\ lpc \in {"done", "failed"}
  /\ \/ shouldTerminate /\ UNCHANGED faults
     \/ Fault("router")
  /\ CommandEnds

LegacyCrash ==
  /\ lpc # "down"
  /\ Fault("crash")
  /\ CommandEnds

(* Another process stores a block.                                         *)
OtherWriter ==
  /\ \E b \in (0 .. finalized) \ headers : Upsert(b)
  /\ UNCHANGED <<meta, finalized, shouldTerminate, faults, tries, failedBlocks,
                 misplaced, cmdVars>>

LegacyStep ==
  \/ UpdateFirst \/ UpdateLast \/ UpdateBatch \/ UpdateTask \/ UpdateJoined
  \/ UpdatePoll
  \/ FillEnd \/ FillGaps \/ FillFind \/ FillFound \/ FillGapTask
  \/ FillGapsJoined \/ FillNulls \/ FillNullTask \/ FillNullsJoined
  \/ LegacyExit

LegacyNext ==
  \/ LegacyStep \/ Update \/ Fix \/ LegacyCrash \/ OtherWriter
  \/ FinalizeBlock /\ UNCHANGED <<taskVars, cmdVars>>
  \/ lpc # "down" /\ CtrlC /\ UNCHANGED <<taskVars, cmdVars>>

LegacySafetySpec == LegacyInit /\ [][LegacyNext]_legacyVars

(* The runtime polls the command, its tasks and the router.                *)
LegacySpec == LegacySafetySpec /\ WF_legacyVars(LegacyStep)

-----------------------------------------------------------------------------
(* update: every hole it leaves behind in the range it has passed lies at  *)
(* or behind a batch that it reported with "Rerun from block", or a node   *)
(* answered with another block's header: its tasks may end in any order,   *)
(* fail, or time out, and ranges may be cut short and followed by others.  *)
UpdateHolesReported ==
  lpc \in {"batch", "tasks", "poll"} =>
    \A b \in from .. Min({last, pos - 1}) :
      b \in headers \cup misplaced \/ \E r \in reported : r <= b

(* update asks only for blocks the chain has finalized, although the tip   *)
(* it works from may be old, be given by --end, or be taken from another   *)
(* node: ranges and batches meet it exactly.                               *)
UpdateNotAhead == lpc = "tasks" => DOMAIN tries \subseteq 0 .. finalized

(* fill_gaps passes no hole of its range: whatever its pointer has passed  *)
(* is stored, was tried and failed, or was answered with another header,   *)
(* although holes are collected in portions and others store blocks.       *)
FillSkipsNothing ==
  lpc \in {"gaps", "find", "found", "gapTasks"} =>
    from .. pos - 1 \subseteq headers \cup lost \cup misplaced

(* fill_null_rows likewise: a row it has passed has no NULL column, except *)
(* for the columns that nodes leave out.                                   *)
FillRepairsRows ==
  lpc \in {"nulls", "nullTasks"} =>
    \A b \in incomplete \cap (from .. pos - 1) :
      b >= FirstPartial \/ b \in lost \cup misplaced

(* The searches of src/db/mod.rs agree with one another on what fix has    *)
(* still to fill (fix itself asks for the first gap only, the others are   *)
(* there for users of the library): the ranges of consecutive missing      *)
(* blocks are exact ...                                                    *)
GapRangesExact == lpc = "find" => RangesExact(headers, cur, last)

(* ... and searching in chunks of any size neither drops nor repeats one.  *)
GapSearchesAgree == lpc = "find" => ChunksAgree(headers, cur, last, NULL)

(* fix comes to an end, also where nothing can be filled.                  *)
FixTerminates == lpc \in FillPCs ~> lpc \notin FillPCs

(* A termination request ends the process, whichever command it runs.      *)
LegacyStops == shouldTerminate ~> lpc = "down"
=============================================================================
