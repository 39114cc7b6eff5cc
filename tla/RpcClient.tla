----------------------------- MODULE RpcClient -----------------------------
(***************************************************************************)
(* One round of requests through EthereumJsonRpcClient (src/rpc/mod.rs),   *)
(* with the tasks its callers wrap around each request:                    *)
(*   quick    fetch_block_headers spawns a task per block and joins them   *)
(*   batch    fetch_specific_blocks does, and each task first acquires a   *)
(*            permit and then limits the whole retried call by task_timeout*)
(*   tip      get_latest_finalized_block: one request, with rpc_timeout    *)
(*   startup  initialize_index_metadata: one request, without a timeout    *)
(* Time is a clock in seconds.  It advances only when nothing is due: the  *)
(* runtime runs a task as soon as its timer fires or a permit is free.     *)
(***************************************************************************)
EXTENDS Integers, FiniteSets

CONSTANTS
  NULL,        \* no header
  Requests,    \* the block numbers a round may ask for
  Numbers,     \* the block numbers a header may carry
  Permits,     \* max_concurrent_requests
  TaskTimeout, \* task_timeout
  RpcTimeout,  \* rpc_timeout
  MaxRetries,  \* max_retries of the client
  Horizon      \* bound: how far the clock advances

ASSUME RoundAssumption ==
  IsFiniteSet(Requests) /\ NULL \notin Numbers
ASSUME TimingAssumption ==
  /\ Permits \in Nat \ {0} /\ MaxRetries \in Nat
  /\ TaskTimeout \in Nat \ {0} /\ RpcTimeout \in Nat \ {0} /\ Horizon \in Nat

(* Arithmetic, which the provers do not know of 2^n: a backoff is a number *)
(* of seconds, and each is twice the one before.                           *)
ASSUME BackoffAssumption ==
  \A n \in 0 .. MaxRetries + 1 : 2^n \in Nat /\ 2^(n + 1) = 2 * 2^n

VARIABLES
  caller,    \* who began the round
  asked,     \* the block numbers it asks for
  now,       \* the clock
  stage,     \* where each request is
  attempts,  \* attempts of make_retrying_rpc_call: the failed ones
  began,     \* when the time limit of the request's task started
  due,       \* when its HTTP request times out or its backoff is over
  got,       \* the number its header carries, once it has one
  answer,    \* what the join returned for each request
  answered   \* the join has returned

taskVars == <<stage, attempts, began, due, got>>
rpcVars == <<caller, asked, now, taskVars, answer, answered>>

Callers == {"quick", "batch", "tip", "startup"}

(* The callers of get_latest_finalized_blocknumber.                        *)
OneRequest == {"tip", "startup"}

Settled == {"ok", "refused", "exhausted", "abandoned"}
Stages == {"queued", "request", "backoff"} \cup Settled

Limited == caller = "batch"

InFlight == {r \in asked : stage[r] \in {"request", "backoff"}}

RpcTypeOK ==
  /\ caller \in Callers /\ asked \in SUBSET Requests
  /\ now \in Nat
  /\ stage \in [Requests -> Stages]
  /\ attempts \in [Requests -> 0 .. MaxRetries + 1]
  /\ began \in [Requests -> Nat] /\ due \in [Requests -> Nat]
  /\ got \in [Requests -> Numbers \cup {NULL}]
  /\ answer \in [Requests -> Numbers \cup {NULL}]
  /\ answered \in BOOLEAN

RpcInit ==
  /\ caller \in Callers
  /\ asked \in (SUBSET Requests) \ {{}}
  /\ caller \in OneRequest => \E r \in Requests : asked = {r}
  /\ now = 0
  /\ stage = [r \in Requests |-> "queued"]
  /\ attempts = [r \in Requests |-> 0]
  /\ began = [r \in Requests |-> 0] /\ due = [r \in Requests |-> 0]
  /\ got = [r \in Requests |-> NULL] /\ answer = [r \in Requests |-> NULL]
  /\ answered = FALSE

-----------------------------------------------------------------------------
(* Bug: a task holds its permit only while its HTTP request is out.        *)
PermitFree_Backoff ==
  Limited => Cardinality({r \in asked : stage[r] = "request"}) < Permits

(* A task of the batch indexer holds its permit until it ends.             *)
PermitFree == Limited => Cardinality(InFlight) < Permits

(* send_http_request: the request goes out, its timeout starts.            *)
Send(r) ==
  /\ stage' = [stage EXCEPT ![r] = "request"]
  /\ due' = [due EXCEPT ![r] = now + RpcTimeout]

(* A task ends; its timers with it.                                        *)
Settle(r, outcome) ==
  /\ stage' = [stage EXCEPT ![r] = outcome]
  /\ began' = [began EXCEPT ![r] = 0] /\ due' = [due EXCEPT ![r] = 0]

Start(r) ==
  /\ stage[r] = "queued" /\ PermitFree
  /\ Send(r)
  /\ began' = [began EXCEPT ![r] = now]
  /\ UNCHANGED <<attempts, got>>

(* The node answers with a header, which carries some number.              *)
Respond(r) ==
  /\ stage[r] = "request"
  /\ \E b \in Numbers : got' = [got EXCEPT ![r] = b]
  /\ Settle(r, "ok")
  /\ UNCHANGED attempts

(* A null result or an RPC error object is FATAL: it is not retried.       *)
Refuse(r) ==
  /\ stage[r] = "request"
  /\ Settle(r, "refused")
  /\ UNCHANGED <<attempts, got>>

(* Bug: the last retry is not made.                                        *)
FailAttempt_OneLess(r) ==
  /\ attempts' = [attempts EXCEPT ![r] = @ + 1]
  /\ \/ /\ attempts'[r] >= MaxRetries
        /\ Settle(r, "exhausted")
     \/ /\ attempts'[r] < MaxRetries
        /\ stage' = [stage EXCEPT ![r] = "backoff"]
        /\ due' = [due EXCEPT ![r] = now + 2^(attempts'[r])] /\ UNCHANGED began
  /\ UNCHANGED got

(* Bug: one retry too many.                                                *)
FailAttempt_OneMore(r) ==
  /\ attempts' = [attempts EXCEPT ![r] = @ + 1]
  /\ \/ /\ attempts'[r] > MaxRetries + 1
        /\ Settle(r, "exhausted")
     \/ /\ attempts'[r] <= MaxRetries + 1
        /\ stage' = [stage EXCEPT ![r] = "backoff"]
        /\ due' = [due EXCEPT ![r] = now + 2^(attempts'[r])] /\ UNCHANGED began
  /\ UNCHANGED got

(* Any other error is retried after 2^attempts seconds, max_retries times. *)
FailAttempt(r) ==
  /\ attempts' = [attempts EXCEPT ![r] = @ + 1]
  /\ \/ /\ attempts'[r] > MaxRetries
        /\ Settle(r, "exhausted")
     \/ /\ attempts'[r] <= MaxRetries
        /\ stage' = [stage EXCEPT ![r] = "backoff"]
        /\ due' = [due EXCEPT ![r] = now + 2^(attempts'[r])] /\ UNCHANGED began
  /\ UNCHANGED got

(* The connection fails, or the body is not the JSON that is expected; the *)
(* HTTP status is not looked at.                                           *)
Garble(r) == stage[r] = "request" /\ FailAttempt(r)

(* Bug: only the callers that limit their tasks set a request timeout.     *)
TimesOut_BatchOnly(r) == Limited /\ stage[r] = "request" /\ due[r] <= now

(* The timeout of reqwest covers the request and its body; at startup the  *)
(* caller passes None.                                                     *)
TimesOut(r) ==
  caller # "startup" /\ stage[r] = "request" /\ due[r] <= now

Expire(r) == TimesOut(r) /\ FailAttempt(r)

BackoffOver(r) == stage[r] = "backoff" /\ due[r] <= now

Retry(r) ==
  /\ BackoffOver(r)
  /\ Send(r)
  /\ UNCHANGED <<attempts, began, got>>

(* Bug: the limit is around the HTTP request and not the retried call.     *)
OverLimit_RequestOnly(r) ==
  /\ Limited /\ stage[r] = "request"
  /\ began[r] + TaskTimeout <= now

(* tokio::time::timeout around the retried call, its backoffs included.    *)
OverLimit(r) ==
  /\ Limited /\ stage[r] \in {"request", "backoff"}
  /\ began[r] + TaskTimeout <= now

Abandon(r) ==
  /\ OverLimit(r)
  /\ Settle(r, "abandoned")
  /\ UNCHANGED <<attempts, got>>

Node(r) == Respond(r) \/ Refuse(r) \/ Garble(r)

Runtime(r) == Start(r) \/ Expire(r) \/ Retry(r) \/ Abandon(r)

TaskStep ==
  /\ \E r \in asked : Node(r) \/ Runtime(r)
  /\ UNCHANGED <<caller, asked, now, answer, answered>>

-----------------------------------------------------------------------------
AllSettled == \A r \in asked : stage[r] \in Settled

(* try_join_all and join_all: every task has ended.                        *)
Join ==
  /\ ~answered /\ AllSettled
  /\ answered' = TRUE
  /\ answer' = [r \in Requests |-> IF stage[r] = "ok" THEN got[r] ELSE NULL]
  /\ UNCHANGED <<caller, asked, now, taskVars>>

IsDue(r) ==
  \/ stage[r] = "queued" /\ PermitFree
  \/ TimesOut(r) \/ BackoffOver(r) \/ OverLimit(r)

Tick ==
  /\ ~AllSettled /\ \A r \in asked : ~IsDue(r)
  /\ now < Horizon
  /\ now' = now + 1
  /\ UNCHANGED <<caller, asked, taskVars, answer, answered>>

(* The caller goes on, or the clock has reached its bound.                 *)
Over == (answered \/ now = Horizon) /\ UNCHANGED rpcVars

RpcNext == TaskStep \/ Join \/ Tick \/ Over

RpcSafetySpec == RpcInit /\ [][RpcNext]_rpcVars

(* Timers fire and the runtime runs the tasks that are ready; nothing is   *)
(* assumed of the node.                                                    *)
RpcFairness ==
  /\ WF_rpcVars(Tick) /\ WF_rpcVars(Join)
  /\ WF_rpcVars(/\ \E r \in asked : Runtime(r)
                /\ UNCHANGED <<caller, asked, now, answer, answered>>)

RpcSpec == RpcSafetySpec /\ RpcFairness

-----------------------------------------------------------------------------
(* No more than max_concurrent_requests requests of the batch indexer are  *)
(* at the node, through all timeouts, backoffs and retries.                *)
PermitsRespected ==
  Limited => Cardinality({r \in asked : stage[r] = "request"}) <= Permits

(* The failed attempts and the backoffs of a request, all of them.         *)
RetriesEnd == (MaxRetries + 1) * RpcTimeout + 2^(MaxRetries + 1) - 2

(* The tasks of a batch run in that many waves.                            *)
Waves == (Cardinality(asked) + Permits - 1) \div Permits

Deadline ==
  CASE caller = "batch" ->
         Waves * (IF RetriesEnd < TaskTimeout THEN RetriesEnd ELSE TaskTimeout)
    [] caller \in {"quick", "tip"} -> RetriesEnd

(* Whatever the node does, a round that has a timeout ends by its deadline *)
(* (the services do not look at should_terminate during a round, so this   *)
(* bounds how late they notice it).                                        *)
RoundBounded == caller # "startup" /\ ~answered => now <= Deadline

(* ... and it does end, with no help from the node.                        *)
RoundEnds == caller # "startup" ~> answered

(* The retried calls of concurrent tasks, their timeouts and limits are    *)
(* one answer of HeaderFetch to the caller.                                *)
Fetch == INSTANCE HeaderFetch WITH
  asked <- asked, limited <- Limited, time <- now, failures <- attempts,
  refused <- {r \in asked : stage[r] = "refused"},
  answer <- answer, answered <- answered,
  Tries <- MaxRetries, TimeLimit <- TaskTimeout

FetchesHeaders == Fetch!Spec
=============================================================================
