# fossil-headers-db in TLA+

`fossil_indexer` copies the headers of the finalized Ethereum blocks into PostgreSQL. Its readers use two tables:
`blockheaders`, one row per block, and `index_metadata`, one row that says how far the copy goes. What makes the
program correct is the agreement of these two tables, which are written by two concurrent services through separate
transactions, across failing requests, crashes and restarts. This directory models that, checks it with TLC on small
instances, and proves the central facts with TLAPS.

Paths below are relative to the repository root.

## 1. Inventory

| component | state | operations | interacts with |
|---|---|---|---|
| tables (`src/repositories`, `migrations`) | stored headers; `current_latest_block_number`, `indexing_starting_block_number`, `is_backfilling`, `backfilling_block_number` | upsert headers, read the row, update one column | everything |
| quick indexer (`src/indexer/quick_service.rs`) | last block, range, attempt, received headers | poll the tip, fetch a range, store it with the new watermark, verify, back off | tables, RPC client, flag |
| batch indexer (`src/indexer/batch_service.rs`) | range of the cycle, missing blocks, chunk, attempt | scan, fetch, store, rescan, report | tables, RPC client, flag |
| indexer process (`src/indexer/lib.rs`, `main.rs`) | startup position, handles, errors | set the row up, spawn three tasks, await them, exit | all services |
| router (`src/router/mod.rs`) | alive or not | health check, graceful shutdown | flag, process |
| RPC client (`src/rpc/mod.rs`) | per request: attempt, timeout, backoff; per round: the permits of the batch indexer | send, answer, refuse, time out, back off, give up, join | both services, startup |
| legacy CLI (`src/commands`, `src/main.rs`, `src/db`) | ranges, failed blocks | `update`, `fill_gaps` | `blockheaders` only |
| types, errors, utils, builders, mocks | none | | |

Hard behaviour: the two services interleave freely at every await point and share one row; a range read at the start
of a batch cycle is used minutes later; several startup and reporting writes are two transactions instead of one; a
commit may take effect although its caller sees an error; requests fail, time out, or are answered by a node that lags
or by a wrong header; Ctrl-C is polled at a few places; the supervisor awaits the services in a fixed order; the
process may crash anywhere and starts again from the row it finds; the requests of a round share permits, time limits
and a clock. What correctness means, per component: the quick indexer publishes contiguous, finalized blocks and never
moves back; the batch indexer never reports more than is stored; the process never lets a block fall out of both
services' reach, survives restarts and ends when asked to; failures below the retry limit are absorbed; a round of
requests ends, whatever the node does, and an error in its answer has a reason.

## 2. Modules

| module | models | of |
|---|---|---|
| `IndexMetadata` | the row, the range that the batch indexer derives from it | `repositories/index_metadata.rs` |
| `IndexStore` | tables, chain and node, the termination flag, faults; `Transaction`, `Query` | `repositories/`, calls into `sqlx` and `rpc` |
| `QuickIndexer` | the quick indexer, one action per await point, in an open environment | `quick_service.rs` |
| `BatchIndexer` | the batch indexer, likewise | `batch_service.rs` |
| `Indexer` | the process: `QuickIndexer` and `BatchIndexer` composed with startup, router, supervision, Ctrl-C, crash and restart | `lib.rs`, `main.rs`, `router/mod.rs` |
| `RpcClient` | one round of requests: attempts, HTTP timeouts, backoffs, permits, task limits, on a clock | `rpc/mod.rs`, the fetch functions of both services |
| `HeaderFetch` | abstract specification: one answer per round, an error only for a reason | (promises) |
| `GapSearch` | the searches for missing blocks, as functions of the stored set | `db/mod.rs` |
| `LegacyTasks` | the tasks of a legacy command: one per block, attempts, backoff, task timeout, the upsert | `commands/mod.rs`, `db/mod.rs` |
| `LegacyCommands` | `update` and `fix`, the process around them, another writer of the table | `commands/mod.rs`, `src/main.rs` |
| `HeaderIndex` | abstract specification: what the tables promise to a reader | (promises) |
| `IndexerClaims` | sentences of the documentation that the code does not fulfil | |
| `MCQuickIndexer`, `MCBatchIndexer`, `MCIndexer`, `MCLegacy`, `MCRpcClient` | TLC instances | |
| `HeaderIndexProofs`, `QuickIndexerProofs`, `BatchIndexerProofs`, `IndexerProofs`, `RpcClientProofs`, `LegacyProofs`, `GapSearchProofs` | theorems and proofs | |
| `IndexMetadataProofs` | lemmas about the ranges of a row | |

### How state and actions correspond to the code

*Tables.* `headers` is the set of stored block numbers. The number is the primary key and a finalized block has one
content, so an upsert of a stored number changes nothing. `meta` is the row, or `NoRow`. `Transaction(h, m, ok)`
leaves the tables as `h` and `m` and reports `ok`; on an error (`~ok`) either nothing changed or the commit took
effect and the acknowledgement was lost. Every SQL statement is one atomic step, and each of the code's transactions
is one step, however many statements it holds. `StoreHeaders` is the transaction with headers: with
`INDEX_TRANSACTIONS` (`ShouldIndexTxs`) the code converts each header's transactions first, and since the client never
asks for more than their hashes, a block of `TxBlocks` (one that has transactions) is not `Convertible`.

*Quick indexer.* `qpc` is the await point. `index` loops over `QuickLoop` (test the flag), `QuickRead`
(`get_last_indexed_block`), `QuickPoll` (`get_latest_finalized_block`, then either sleep or the range of
`calculate_ending_block`), `QuickRetry` (head of `retry_with_backoff`, tests the flag), `QuickFetch` (all requests of
the range and `process_rpc_responses`), `QuickStore` (headers and watermark, one transaction), `QuickVerify`
(`verify_blocks_stored`) and `QuickBackoff`. `"failed"` is an `Err` returned from the service. The checks on the
sorted headers in `store_block_headers` repeat those of `process_rpc_responses` and cannot fail after them.

*Batch indexer.* `BatchRead` fixes the range of the cycle from the row, `BatchScan` is one `SELECT` of the scan
(chunks of `ChunkSize`, the code's 10000), `BatchScanned` decides after a scan, `BatchChunk` is the loop of
`process_missing_blocks_in_batches`, `BatchRetry`/`BatchFetch`/`BatchBackoff` are `fill_missing_blocks`, `BatchStore`
is `store_gap_blocks`, `BatchProgress` and `BatchMark` are the two reporting transactions. The semaphore and
`task_timeout` only delay an answer or turn it into an error, and errors are in `HeaderAnswers`; `RpcClient` models
both. `U8Max` is the width in which the backoff is computed; `OverflowChecks` says whether the build panics there.

*RPC client.* The services see a round as one step, `RpcClient` looks inside of it. `stage` is where the task of a
block is: waiting for a permit, at the node, in a backoff, or settled. `Start` acquires a permit (batch indexer only)
and sends the request, `Respond`, `Refuse` and `Garble` are the node's answers, `Expire` is the HTTP timeout,
`FailAttempt` the error branch of `make_retrying_rpc_call`, `Retry` the end of its sleep, `Abandon` the `task_timeout`
that the batch indexer puts around the whole of it, `Join` is `try_join_all` or `join_all`. A null result and an RPC
error object are fatal and settle the request at once. `now` is a clock in seconds that moves only when nothing is
due: a task runs as soon as its timer fires. `caller` tells apart the four uses of the client; the one of the startup
code passes no timeout. The free functions that the legacy CLI uses (`src/rpc/mod.rs:235-456`) repeat the methods with
`MAX_RETRIES` 5, and `LegacyTasks` sees their outcome.

*Process.* `StartTip`, `StartLookup`, `StartInsert`, `StartCursor`, `StartReread` and `StartSetup` are
`initialize_index_metadata` in its order, with its two separate commits for a new database. `JoinNext` is
`handle.await` of the next handle in order. `Crash` ends the process at any step and keeps only the tables.
`StartProcess` starts the next one. `skipped` is a history variable: the blocks that the last
startup write left outside of the range to backfill.

*Legacy commands.* `tries` holds a counter per task that still runs; an `Attempt` is one turn of its loop, a step at
the write, because asking the node reads nothing another task changes. `update` is `UpdateFirst` and `UpdateLast`
(`get_first_missing_block`, `get_last_block`), `UpdateBatch`, `UpdateTask`, `UpdateJoined` (`update_blocks` with both
of its checks: any failed block ends the range) and `UpdatePoll` (the inner loop of `chain_update_blocks`, which goes
on behind the old range in any case). `fix` is `FillEnd`, the search for holes in portions (`FillGaps`, `FillFind`,
`FillFound`, `FillGapTask`, `FillGapsJoined`) and the pass over rows with NULL columns (`FillNulls`, `FillNullTask`,
`FillNullsJoined`). `incomplete` are the stored rows with a NULL column. `find_null_data` also looks at
`totalDifficulty`, which is optional in an answer: from block `FirstPartial` on nodes leave it out and rows stay
incomplete however often they are rewritten. The searches are the functions of `GapSearch`, each with the rows its SQL
yields: `number_series` begins with `start` even when `end` lies before it, the groups of `find_missing_block_ranges`
are those of `n - ROW_NUMBER()`. `find_first_gap` is `LIMIT 1` without `ORDER BY`: the model takes the numbers in the
order the recursion yields them, as PostgreSQL does and SQL does not demand; in another order `fix` would pass holes
(`FillSkipsNothing`). `OtherWriter` is an indexer on the same table. `from`, `reported`, `lost` and
`misplaced` are history variables.

*Environments.* `QuickIndexer` and `BatchIndexer` are open systems: `QuickEnvironment` and `BatchEnvironment` say what
each assumes of the rest. `RespectsQuickIndexer` and `RespectsBatchIndexer` check that the composed process keeps to
them (the process's `SafetySpec` implies each service's specification), so what is shown of a service alone holds in
the process.

## 3. Runs

Bounds: `MaxBlock` chain length, `MaxLag` how far a node lags, `MaxFaults` faults per behaviour, `BatchSize` and
`ChunkSize` 2 (so ranges of 1, 2 and several chunks occur), `MaxRetries` 2 (a first attempt, a last one, and their
difference), `Cursors`, `Watermarks` what the environment of a service writes. The thresholds 1000 and 10000 of the
startup code are scaled to 1 and 2, so that both sides of each comparison occur. In run `legacy`, `SpanSize` 3 and
`GapLimit` 2 stand for 100000 and 100: a chain of four blocks has two spans, and a span more holes than one portion
takes. `TaskTimeout` is the code's 300 s. In run `rpc` three requests share two permits, so that one waits for
another; two retries give a first, a middle and a last backoff; `RpcTimeout` 2 and `TaskTimeout` 5 let the task limit
fire at the node and in a backoff; and `Horizon` 14 is beyond every deadline of a caller with a timeout.

| run | checks | shows |
|---|---|---|
| `quick` | `QuickTypeOK` `QuickContiguous` `QuickNotAhead` `QuickMonotone` `QuickAbsorbsFaults` `QuickCycleEnds` `QuickStops` `QuickCatchesUp` | no hole behind the watermark, not ahead of the chain, never back; the retry loop gives up no earlier than it says; a cycle takes no more steps than its attempts allow; it ends on request and catches up. Two faults of any kind, so both attempts can fail |
| `batch` | `BatchTypeOK` `BatchDoneMeansComplete` `BatchOneCycle` `BatchReportsHonestly` `BatchStaysInRange` `BatchAbsorbsFaults` `BatchWorkDrops` `BatchFinishes` | reports only what is stored, although the range may grow meanwhile; stores only its range; retries as often as it says; needs one cycle; every step does some of the work that is left, and nothing adds to it; comes to an end |
| `indexer` | `TypeOK` `NoBlockLost` `FlagHonest` `WatermarkMonotone` `ImplementsHeaderIndex` `RespectsQuickIndexer` `RespectsBatchIndexer` `ExitHonest` | the composed process with every kind of fault, crash and restart included, from an empty and an old database, with `START_BLOCK_OFFSET` (also beyond the head of the chain) and without; its exit waits for every service and its code tells whether one failed; it implements the abstract index and both environments |
| `rpc` | `RpcTypeOK` `PermitsRespected` `RoundBounded` `RoundEnds` `FetchesHeaders` | every interleaving of a round, for each caller: no more requests at the node than permits, through all timeouts and backoffs; a round ends by a deadline computed from the configuration, with no help from the node; and it is one answer of `HeaderFetch` |
| `legacy` | `LegacyTypeOK` `UpdateHolesReported` `UpdateNotAhead` `FillSkipsNothing` `FillRepairsRows` `GapRangesExact` `GapSearchesAgree` `FixTerminates` `LegacyStops` | commands one after another on every initial table, with `--start`, `--end` and without: `update` names a batch from which every hole it leaves follows and never asks beyond the chain; `fix` passes nothing without trying it, and ends; both end on request. On every table and range that `fix` searches with `find_first_gap`, the other searches of `src/db/mod.rs`, which only users of the library call, agree with it: the ranges of missing blocks are exact and maximal, and the chunks of every size join |
| `indexer_live` | `ShutdownCompletes` `IndexingCompletes` | shutdown ends; backfill and follow complete, also from what a crash left behind (a row without cursor among it), with fewer failed requests for headers than `MaxRetries`; faults that end a service at once, of queries or of the request for the tip, are left out of this run |

Violations, each of one property that states what the repository says of itself:

| run | the sentence | what the code does |
|---|---|---|
| `gap_free` (`GapFree`) | docs/integration/light-client.md:322 "The indexer ensures no gaps in the block sequence." | a new database: watermark L, backfill to L-1, follow from L+1; block L is indexed by nobody |
| `graceful_shutdown` (`GracefulShutdown`) | docs/getting-started/quick-start.md:222-224, every service "completed normally" | Ctrl-C inside a retry loop ends in `Err("Max retries reached ...")` and an error exit |
| `failure_stops` (`FailureStopsProcess`) | src/rpc/mod.rs:611 "Application must stop to prevent data gaps" | the router is awaited first; the process stays up without its quick indexer |
| `quick_tip` (`QuickFaultTolerant`) | src/indexer/mod.rs:20 "Automatic recovery from failures and network issues" | one request for the tip that the RPC client gives up ends the quick indexer: refused, answered with null, or failed beyond the client's own retries |
| `index_txs` (`IndexesTransactions`) | README.md:259 `INDEX_TRANSACTIONS` "Whether to index transaction data" | the client asks for hashes only, so a block with transactions is never stored: the services give up without any fault |
| `batch_overflow` (`BatchAbsorbsFaults`) | docs/getting-started/configuration.md:232 `max_retries` 10 | `(retry_attempt + 1).pow(2) * 5` in `u8` overflows at attempt 7 |

docs/architecture/overview.md:252 also lets the batch indexer's flow begin with a check of `is_backfilling`; the code
has no such check (`BatchRead` reads the range only), so it scans its range again on every start. `FlagHonest` shows
that this does no harm.

Observed on the way, and in the models: `TASK_TIMEOUT` cuts the ten attempts of a legacy task after the sixth, because
the backoffs 5 n^2 add up to 455 s then (`RetryTask`; with the two attempts of run `legacy` the cut does not happen,
the timeout that drops a task at any moment does). `fix` keeps running after it is done, because `main` joins it with
the router (`LegacyExit`). `update` reports failed blocks and nevertheless goes on behind them: `UpdateHolesReported`
says that the report is enough to find them. Holes below `MAX(number)` from an earlier run are left to `fix`.
`retry_async` (`src/db/mod.rs:589`) repeats pool errors only: a query that failed has become `DatabaseQueryFailed`,
which it does not take for transient, so a failed query ends the command (`Ask`), although `src/db/mod.rs:10` promises
"Built-in retry mechanisms". `find_first_gap` and `find_missing_block_ranges` return `start` for an empty range; `fix`
and the startup code, which call the first, never pass one, and in `src/` nothing calls the second.
`find_missing_blocks_chunked` does not end for a chunk size of 0, and nothing calls it.

What `RpcClient` shows of the delays: the backoffs are 2, 4, 8, 16, 32 s and not the 1 to 16 of
docs/architecture/overview.md:351-360 and docs/getting-started/configuration.md:176-181; a round of the quick indexer
may last `RetriesEnd`, 6 * 300 + 62 = 1862 s with the defaults, and neither service notices Ctrl-C meanwhile. In the
batch indexer `task_timeout` and `rpc_timeout` are both 300 s by default, so one request that hangs uses up its task
and the client's retries of a hung request never happen there; the limit is per block, not "Maximum time per batch"
(configuration.md:236). overview.md:340 counts HTTP 429 among the errors that are retried, but the client looks at the
body only: a 429 with a JSON error object is fatal. overview.md:103 promises a timeout per request, and the startup
code passes none (`src/indexer/lib.rs:372`).

`NoBlockLost` and `gap_free` belong together: the first says that nothing *else* than what the last startup write
stepped over is ever lost, the second that this set is not empty. How large it can be is part of `ImplementsHeaderIndex`:
a `Claim` steps over no block further below the tip it was told than one of the `Margins` (1 for a new database, the
safety distance for an old one, or `START_BLOCK_OFFSET`), and that tip is at most `MaxLag` behind the watermark. What
an earlier claim stepped over is not exempted for that reason: the present one has it in its range or above its cursor.

### Fairness

`WF` of each service's step and of the startup and supervising code: the tokio runtime keeps polling tasks that are
ready, and an await of the services ends. For a sleep or a query that is plain; for a round of requests it is not, and
run `rpc` shows it (`RoundEnds`, `RoundBounded`) from the timers alone. The one exception is the request of the
startup code, which has no timeout: `StartTip` is not fair, and `ShutdownCompletes` says nothing of a process that
waits there. `RpcFairness` is that of the timers, the runtime and the join; nothing is assumed of the node. `SF` of an
answer with the current tip: a node that is asked again and again does not lag for ever. Nothing is assumed of the
operator, of crashes, of restarts or of the chain: `FinalizeBlock`, `CtrlC`, `StartProcess` and `Crash` may never
happen. `RouterStop` is fair: the router sees the flag within its 10 s and waits at most for a health request, one
`SELECT 1`. `LegacyStep` is fair as a whole: one command runs in one process. Faults are bounded by `MaxFaults`; the
liveness properties say what holds as long as fewer than `MaxRetries` of them happened.

## 4. Proofs

`IndexSafety` (`HeaderIndexProofs`): the abstract index keeps `FlagHonest` and `NoBlockLost`, for every chain. The
invariant is their conjunction with the types and the sign of `start`; `Report` needs that the cursor only shrinks a
range that is complete, `Publish` that the blocks it adds to a growing range are stored in the same step.

`QuickTypeCorrect`, `QuickLeavesNoHole`, `QuickStaysBehindChain` and `QuickNeverMovesBack` (`QuickIndexerProofs`): the
safety properties of run `quick` for every `MaxBlock`, `MaxLag`, `BatchSize`, `MaxRetries`, `Faults`, in the open
environment. `QuickContiguous` alone is not inductive. `QuickInv` adds `RangeInv` (between two reads of the row, the
watermark is the one that the cycle read or already the end of the range being retried, which is what a lost
acknowledgement leaves behind) and `AnswerInv` (what is about to be stored is exactly the range). They rest on the
assumptions on the constants only: `NULL` is no number, bounds are naturals, `BatchSize` and `MaxRetries` positive.
`QuickNeverGivesUpEarly` proves `QuickAbsorbsFaults` from a second invariant, `QuickAttemptInv`: each attempt is paid
for by a fault. Its hypothesis `HeadersOnly` (no block's transactions are asked for) is needed, as run
`index_txs` shows, and so is that what a failed attempt has stored stays stored, otherwise `verify_blocks_stored` could
fail for free. `QuickCyclesAreBounded` has no hypothesis on faults: a range is tried while an attempt is left
(`QuickWorkInv`), an attempt has five steps, so a cycle has at most 5 * `MaxRetries` + 4 and after a termination request
there is no other.

`BatchTypeCorrect`, `BatchLeavesHonestRow`, `BatchReportsOnlyStored`, `BatchKeepsToRange` (`BatchIndexerProofs`): the
safety properties of run `batch`, for every chunk size, batch size, number of retries, fault and set of peer writes.
The invariant `BatchInv` follows one cycle: `CycleInv` (the row describes the range of the cycle, and beyond it only
blocks the quick indexer has stored; this is where a NULL cursor, whose range grows, is dealt with), `ScanInv` (what
the scan has passed is stored or noted as missing), `FillInv` (only blocks of the range are asked for and kept) and
`ReportInv` (when a report is written the whole range is stored). `BatchNeverGivesUpEarly` proves `BatchAbsorbsFaults`
under the hypothesis `MaxRetries <= 8 \/ ~OverflowChecks`, which is exactly where the `u8` backoff does not panic; run
`batch_overflow` refutes it for the documented 10.

`BatchNeedsOneCycle` and `BatchRunsOut` say that the loop of the batch indexer, which looks as if it could scan and fill
again and again, never does. `BatchWorkInv` is why: what is missing of the range is on the list, a chunk leaves the list
only when it is stored, and headers stay stored, so the scan that checks finds nothing unless the chunks were left
because of a termination request. Each step therefore lowers the triple `work` of the stage of the cycle, the blocks
still to be scanned or filled, and the attempts left for the chunk, in lexicographic order; no step of another actor
raises it. The order is well-founded, so with the fairness of the service this is `BatchFinishes`, for every constant,
up to the last, temporal step of the argument, which stays with TLC.

`IndexerProofs` puts the services together, for `SafetySpec` of the composed process. `IndexerInv` joins `QuickInv`
and `BatchInv` with what the startup code knows between two of its transactions (`StartInv`), what the supervisor
knows (`JoinInv`), what is not ahead of the chain (`BoundInv`) and what the tables promise (`TablesInv`). Each step is
looked at in three views: as a step of the quick indexer's specification, its own or one of its environment
(`QuickView`); likewise of the batch indexer's (`BatchView`); and as what it does to the tables (`TablesView`). The
first two carry the invariants of the services over and are `IndexerKeepsToQuick` and `IndexerKeepsToBatch`; the third
gives `IndexerImplementsIndex`, the refinement of `HeaderIndex`, and with it `IndexerLosesNoBlock`,
`IndexerFlagHonest` and `IndexerWatermarkMonotone`. That a claim keeps to the margins is why `StartInv` says how old the
tip may be that the startup code goes by. The lemmas about rows they need (a watermark that moves extends
only the range of a NULL cursor; a report or a new cursor moves nothing out of reach) are in `IndexMetadataProofs`.
From `IndexerKeepsToQuick` and `IndexerKeepsToBatch` the theorems about each service alone carry over to the process
(`ServicesSafe`, `ServicesStepSafely`, `ServicesAbsorbFaults`), and `BackfillLeavesNoGap` joins the two promises for a
reader who waits for `is_backfilling = FALSE`: then every block from 0 to the watermark is stored, except those
the last startup write stepped over. `IndexerExitsHonestly` proves `ExitHonest` with a second invariant, `AwaitInv`:
`has_errors` remembers exactly the handles awaited so far, and a finished service keeps its outcome while the others
are awaited. All these theorems have the hypothesis `AnyRow`: `Cursors` and `Watermarks`, which bound for TLC what a
service checked alone expects others to write, are everything. The process itself has no such bound.

`RpcClientProofs`: `RpcTypeCorrect`, `RpcKeepsPermits` (the invariant counts the tasks that hold a permit: those at
the node and those in a backoff), `RpcImplementsHeaderFetch`, the refinement, and `RpcRoundBounded`, for every number
of requests, permits and retries and every timeout. That a request given up early has outlived its limit is `Excused`
of the abstract specification. The deadline of `RoundBounded` is an argument about waves of tasks, and `ClockInv` makes
it inductive: `TimesInv` bounds, for each request, what its attempts and backoffs have spent by the closed form of the
doubling backoffs; `AloneInv` is about the callers that are not limited, whose requests all started together;
`WavesInv` says that once the time of k waves is over either every request, or as many as the permits of k + 1 waves,
has had its permit, so that the last wave starts early enough. A wave ends because a tick waits for whoever is due
(`TickWaits`). `BackoffAssumption` states 2^n \in Nat and 2^(n + 1) = 2 * 2^n for the exponents used: arithmetic that
the provers do not know and TLC evaluates.

`LegacyProofs`: the seven invariants of run `legacy` about the commands. Five follow from `LegacyInv`. It says for each
phase what accounts for a block behind the pointer: stored, found, held by a task, failed, or answered with another
header (`UpdateInv`, `HolesInv` for `update`, `GapInv`, `NullInv` for `fix`); `ArgsInv` is when an argument that was
not given has been replaced; and `HeadersBounded` lets `MAX(number)` exist. `UpdateStaysBehindChain` assumes that
`--start` is absent or a natural number: the CLI takes any `i64`, and nothing rejects a negative one.
`FixSeesExactRanges` and `FixSearchesAgree` are `SearchesAgree` of `GapSearchProofs` at the range `fix` is about to
search (`FindRange`).

`GapSearchProofs`: `SearchesAgree` says of the searches as functions, for any set of stored numbers and any range that
is not empty, that the grouped query returns exactly the maximal runs of missing blocks, in order; that the chunks of
every size from 1 on join to what one search returns; and that the first gap is its first element. `Min`, `Max` and
`ORDER BY` (`ascending`) are choices, so the proof begins with there being something to choose (from the
well-foundedness of the naturals; for `ascending` the sequence that puts each element at its rank) and with its being
unique, from which concatenating two ascending sequences of separated sets is sorting their union. The groups are runs
because `n - ROW_NUMBER()` stays put on consecutive numbers and grows over a gap (`PlaceStep`, `SameGroup`). The
recursion over chunks is dealt with by a least counterexample, since an induction theorem over an operator cannot be
used. `ascending` is a choice and not the sort of the community modules because nothing could be proved of the latter,
which is recursive.

Only model-checked: the eight liveness properties (out of the prover's reach, as `ENABLED` is), and the claims, which
are refuted. Every invariant and every action property of the passing runs is stated by a theorem.

## 5. Not modelled

- Contents of a header, its hex conversion, the rows of `transactions` (none is ever written): a header is its number.
- Two indexer processes on one database: the documentation describes a single instance
  (docs/architecture/overview.md:475). Another writer of `blockheaders` beside a legacy command is modelled
  (`OtherWriter`).
- Durations outside of a round of requests and of a legacy task: the sleeps of the services end after any number of
  steps of the others.
- Failures inside of `SELECT`s that only produce log lines, the health request of the router (it reads, and answers
  200 or 500), connection pools and their limits, `migrations`.
- The semaphore of the legacy commands: it only orders their tasks, which run in any order here.
- Configuration builders: validated records without state; what they allow is in the assumptions on the constants.
- Types, errors, mocks and tests: no state. The fixtures of the tests carry full transactions, which is why none of
  them meets what run `index_txs` shows.

## 6. Plan

*Done:* the tables, both services, the process and the abstract index; the legacy commands and the searches; the RPC
client; theorems for every safety property of the runs.

What is left, in this order: the durations of the services' own backoffs on the clock of `RpcClient`, so that the delay
of a shutdown is bounded end to end, with its theorem; a measure for `fix` like those of the two services, towards
`FixTerminates`; more of the repositories' queries.
