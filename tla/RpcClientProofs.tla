-------------------------- MODULE RpcClientProofs --------------------------
(***************************************************************************)
(* A round of requests is one answer of HeaderFetch, the permits bound the *)
(* requests at the node, and the round has a deadline, for every number of *)
(* requests, permits and retries and all timeouts.  The first invariant    *)
(* adds to the type why a request has ended as it has; the second relates  *)
(* the clock to the retries of a request and to the waves of a batch.      *)
(***************************************************************************)
EXTENDS RpcClient, FiniteSetTheorems, WellFoundedInduction, TLAPS

(* Only requests whose retries are not used up are under way, and each     *)
(* outcome has its cause.                                                  *)
Causes(r) ==
  /\ stage[r] \in {"queued", "request", "backoff"} => attempts[r] \in 0 .. MaxRetries
  /\ stage[r] = "ok" => got[r] \in Numbers
  /\ stage[r] = "exhausted" => attempts[r] > MaxRetries
  /\ stage[r] = "abandoned" => Limited /\ now >= TaskTimeout

RpcInv ==
  /\ RpcTypeOK
  /\ \A r \in Requests : Causes(r)
  /\ answered => AllSettled

LEMMA RpcInitInv == RpcInit => RpcInv
<1> SUFFICES ASSUME RpcInit PROVE RpcInv
  OBVIOUS
<1>1. RpcTypeOK
  <2>1. 0 \in 0 .. MaxRetries + 1
    BY TimingAssumption
  <2>2. attempts \in [Requests -> 0 .. MaxRetries + 1]
    BY <2>1 DEF RpcInit
  <2>3. stage \in [Requests -> Stages]
    BY DEF RpcInit, Stages
  <2>4. /\ began \in [Requests -> Nat] /\ due \in [Requests -> Nat]
        /\ got \in [Requests -> Numbers \cup {NULL}]
        /\ answer \in [Requests -> Numbers \cup {NULL}]
    BY DEF RpcInit
  <2> QED
    BY <2>2, <2>3, <2>4 DEF RpcInit, RpcTypeOK
<1>2. \A r \in Requests : Causes(r)
  BY TimingAssumption DEF RpcInit, Causes
<1> QED
  BY <1>1, <1>2 DEF RpcInit, RpcInv

(* A failed attempt backs off or exhausts the retries.                     *)
LEMMA FailAttemptEffect ==
  ASSUME RpcInv, NEW r \in asked, stage[r] = "request", FailAttempt(r)
  PROVE  /\ attempts' = [attempts EXCEPT ![r] = attempts[r] + 1]
         /\ attempts'[r] \in 0 .. MaxRetries + 1
         /\ \/ stage' = [stage EXCEPT ![r] = "exhausted"] /\ attempts'[r] > MaxRetries
            \/ stage' = [stage EXCEPT ![r] = "backoff"] /\ attempts'[r] \in 0 .. MaxRetries
         /\ got' = got
         /\ began' \in [Requests -> Nat] /\ due' \in [Requests -> Nat]
<1>1. r \in Requests /\ attempts[r] \in 0 .. MaxRetries /\ MaxRetries \in Nat
  BY TimingAssumption DEF RpcInv, RpcTypeOK, Causes
<1>2. /\ attempts' = [attempts EXCEPT ![r] = attempts[r] + 1]
      /\ attempts'[r] = attempts[r] + 1
  BY <1>1 DEF FailAttempt, RpcInv, RpcTypeOK
<1>3. CASE attempts'[r] > MaxRetries /\ Settle(r, "exhausted")
  BY <1>1, <1>2, <1>3 DEF FailAttempt, Settle, RpcInv, RpcTypeOK
<1>4. CASE /\ attempts'[r] <= MaxRetries
           /\ stage' = [stage EXCEPT ![r] = "backoff"]
           /\ due' = [due EXCEPT ![r] = now + 2^(attempts'[r])] /\ UNCHANGED began
  <2>1. attempts'[r] \in 1 .. MaxRetries
    BY <1>1, <1>2, <1>4
  <2>2. 2^(attempts'[r]) \in Nat
    BY <2>1, BackoffAssumption, TimingAssumption
  <2>3. now + 2^(attempts'[r]) \in Nat
    BY <2>2 DEF RpcInv, RpcTypeOK
  <2>4. due' \in [Requests -> Nat] /\ began' \in [Requests -> Nat]
    BY <1>4, <2>3 DEF RpcInv, RpcTypeOK
  <2> QED
    BY <1>1, <1>2, <1>4, <2>1, <2>4 DEF FailAttempt
<1> QED
  BY <1>3, <1>4 DEF FailAttempt

(* What a step of one task does to the state of its request.               *)
Effect(r) ==
  \/ /\ stage[r] = "queued" /\ PermitFree
     /\ stage' = [stage EXCEPT ![r] = "request"]
     /\ UNCHANGED <<attempts, got>>
  \/ /\ stage[r] = "backoff"
     /\ stage' = [stage EXCEPT ![r] = "request"]
     /\ UNCHANGED <<attempts, got>>
  \/ /\ stage[r] = "request"
     /\ stage' = [stage EXCEPT ![r] = "ok"]
     /\ \E b \in Numbers : got' = [got EXCEPT ![r] = b]
     /\ UNCHANGED attempts
  \/ /\ stage[r] = "request"
     /\ stage' = [stage EXCEPT ![r] = "refused"]
     /\ UNCHANGED <<attempts, got>>
  \/ /\ stage[r] = "request"
     /\ attempts' = [attempts EXCEPT ![r] = attempts[r] + 1]
     /\ attempts'[r] \in 0 .. MaxRetries + 1
     /\ \/ stage' = [stage EXCEPT ![r] = "exhausted"] /\ attempts'[r] > MaxRetries
        \/ stage' = [stage EXCEPT ![r] = "backoff"] /\ attempts'[r] \in 0 .. MaxRetries
     /\ UNCHANGED got
  \/ /\ stage[r] \in {"request", "backoff"}
     /\ stage' = [stage EXCEPT ![r] = "abandoned"]
     /\ Limited /\ now >= TaskTimeout
     /\ UNCHANGED <<attempts, got>>

LEMMA TaskEffect ==
  ASSUME RpcInv, TaskStep
  PROVE  \E r \in asked : /\ Effect(r)
                          /\ began' \in [Requests -> Nat]
                          /\ due' \in [Requests -> Nat]
<1>1. PICK r \in asked : Node(r) \/ Runtime(r)
  BY DEF TaskStep
<1>2. /\ r \in Requests /\ now \in Nat /\ now + RpcTimeout \in Nat
      /\ TaskTimeout \in Nat /\ began[r] \in Nat
      /\ began \in [Requests -> Nat] /\ due \in [Requests -> Nat]
  BY TimingAssumption DEF RpcInv, RpcTypeOK
<1> SUFFICES Effect(r) /\ began' \in [Requests -> Nat] /\ due' \in [Requests -> Nat]
  OBVIOUS
<1>3. CASE Start(r)
  BY <1>2, <1>3 DEF Start, Send, Effect
<1>4. CASE Retry(r)
  BY <1>2, <1>4 DEF Retry, BackoffOver, Send, Effect
<1>5. CASE Respond(r)
  BY <1>2, <1>5 DEF Respond, Settle, Effect
<1>6. CASE Refuse(r)
  BY <1>2, <1>6 DEF Refuse, Settle, Effect
<1>7. CASE Garble(r) \/ Expire(r)
  <2>1. stage[r] = "request" /\ FailAttempt(r)
    BY <1>7 DEF Garble, Expire, TimesOut
  <2> QED
    BY <2>1, FailAttemptEffect DEF Effect
<1>8. CASE Abandon(r)
  BY <1>2, <1>8 DEF Abandon, OverLimit, Settle, Effect
<1> QED
  BY <1>1, <1>3, <1>4, <1>5, <1>6, <1>7, <1>8 DEF Node, Runtime

LEMMA TaskStepInv == RpcInv /\ TaskStep => RpcInv'
<1> SUFFICES ASSUME RpcInv, TaskStep PROVE RpcInv'
  OBVIOUS
<1>1. PICK r \in asked : /\ Effect(r)
                         /\ began' \in [Requests -> Nat]
                         /\ due' \in [Requests -> Nat]
  BY TaskEffect
<1>2. /\ r \in Requests
      /\ caller' = caller /\ asked' = asked /\ now' = now
      /\ answer' = answer /\ answered' = answered
      /\ stage[r] \in {"queued", "request", "backoff"}
  BY <1>1 DEF TaskStep, RpcInv, RpcTypeOK, Effect
<1>3. RpcTypeOK'
  <2>1. stage' \in [Requests -> Stages]
    BY <1>1, <1>2 DEF Effect, RpcInv, RpcTypeOK, Stages, Settled
  <2>2. attempts' \in [Requests -> 0 .. MaxRetries + 1]
    BY <1>1, <1>2 DEF Effect, RpcInv, RpcTypeOK
  <2>3. got' \in [Requests -> Numbers \cup {NULL}]
    BY <1>1, <1>2 DEF Effect, RpcInv, RpcTypeOK
  <2> QED
    BY <1>1, <1>2, <2>1, <2>2, <2>3 DEF RpcInv, RpcTypeOK
<1>4. \A q \in Requests : Causes(q)'
  <2> SUFFICES ASSUME NEW q \in Requests PROVE Causes(q)'
    OBVIOUS
  <2>1. CASE q = r
    BY <1>1, <1>2, <2>1 DEF Effect, Causes, Limited, RpcInv, RpcTypeOK
  <2>2. CASE q # r
    <3>1. stage'[q] = stage[q] /\ attempts'[q] = attempts[q] /\ got'[q] = got[q]
      BY <1>1, <1>2, <2>2 DEF Effect, RpcInv, RpcTypeOK
    <3> QED
      BY <1>2, <3>1 DEF Causes, Limited, RpcInv
  <2> QED
    BY <2>1, <2>2
<1>5. ~answered
  BY <1>1, <1>2 DEF RpcInv, AllSettled, Settled
<1> QED
  BY <1>2, <1>3, <1>4, <1>5 DEF RpcInv

LEMMA JoinInv == RpcInv /\ Join => RpcInv'
<1> SUFFICES ASSUME RpcInv, Join PROVE RpcInv'
  OBVIOUS
<1>1. RpcTypeOK'
  BY DEF RpcInv, RpcTypeOK, Join, taskVars
<1>2. \A r \in Requests : Causes(r)'
  BY DEF RpcInv, Join, taskVars, Causes, Limited
<1> QED
  BY <1>1, <1>2 DEF RpcInv, Join, AllSettled, taskVars

LEMMA TickInv == RpcInv /\ Tick => RpcInv'
<1> SUFFICES ASSUME RpcInv, Tick PROVE RpcInv'
  OBVIOUS
<1>1. RpcTypeOK'
  BY DEF RpcInv, RpcTypeOK, Tick, taskVars
<1>2. \A r \in Requests : Causes(r)'
  BY TimingAssumption DEF RpcInv, RpcTypeOK, Tick, taskVars, Causes, Limited
<1> QED
  BY <1>1, <1>2 DEF RpcInv, Tick, AllSettled, taskVars

LEMMA RpcInvStable == RpcInv /\ UNCHANGED rpcVars => RpcInv'
BY DEF RpcInv, RpcTypeOK, Causes, Limited, AllSettled, rpcVars, taskVars

LEMMA RpcNextInv == RpcInv /\ [RpcNext]_rpcVars => RpcInv'
BY TaskStepInv, JoinInv, TickInv, RpcInvStable DEF RpcNext, Over

LEMMA RpcInvariant == RpcSafetySpec => []RpcInv
BY RpcInitInv, RpcNextInv, PTL DEF RpcSafetySpec

(* The type of the client's state: above all, no request is attempted more *)
(* than max_retries + 1 times.                                             *)
THEOREM RpcTypeCorrect == RpcSafetySpec => []RpcTypeOK
<1>1. RpcInv => RpcTypeOK
  BY DEF RpcInv
<1> QED
  BY <1>1, RpcInvariant, PTL

-----------------------------------------------------------------------------
(* A task takes a permit before it is under way and keeps it until it ends.*)
PermitsInv == Limited => Cardinality(InFlight) <= Permits

LEMMA InFlightFinite ==
  ASSUME RpcInv PROVE IsFiniteSet(InFlight) /\ Cardinality(InFlight) \in Nat
<1>1. InFlight \subseteq Requests
  BY DEF RpcInv, RpcTypeOK, InFlight
<1> QED
  BY <1>1, RoundAssumption, FS_Subset, FS_CardinalityType

LEMMA PermitsInit == RpcInit => PermitsInv
<1> SUFFICES ASSUME RpcInit PROVE PermitsInv
  OBVIOUS
<1>1. InFlight = {}
  BY DEF RpcInit, InFlight
<1> QED
  BY <1>1, FS_EmptySet, TimingAssumption DEF PermitsInv

LEMMA PermitsNext == RpcInv /\ PermitsInv /\ [RpcNext]_rpcVars => PermitsInv'
<1> SUFFICES ASSUME RpcInv, PermitsInv, [RpcNext]_rpcVars PROVE PermitsInv'
  OBVIOUS
<1>1. CASE TaskStep
  <2>1. PICK r \in asked : Effect(r)
    BY <1>1, TaskEffect
  <2>2. caller' = caller /\ asked' = asked /\ r \in Requests
    BY <1>1 DEF TaskStep, RpcInv, RpcTypeOK
  <2>3. \A q \in asked : q # r => stage'[q] = stage[q]
    BY <2>1, <2>2 DEF Effect, RpcInv, RpcTypeOK
  <2>4. CASE stage[r] = "queued"
    <3>1. PermitFree /\ InFlight' \subseteq InFlight \cup {r}
      BY <2>1, <2>2, <2>3, <2>4 DEF Effect, InFlight
    <3>2. SUFFICES ASSUME Limited PROVE Cardinality(InFlight') <= Permits
      BY <2>2 DEF PermitsInv, Limited
    <3>3. Cardinality(InFlight) < Permits
      BY <3>1, <3>2 DEF PermitFree
    <3>4. /\ IsFiniteSet(InFlight \cup {r})
          /\ Cardinality(InFlight \cup {r}) <= Cardinality(InFlight) + 1
          /\ Cardinality(InFlight \cup {r}) \in Nat
      <4>1. IsFiniteSet(InFlight) /\ Cardinality(InFlight) \in Nat
        BY InFlightFinite
      <4>2. /\ IsFiniteSet(InFlight \cup {r})
            /\ Cardinality(InFlight \cup {r}) =
                 IF r \in InFlight THEN Cardinality(InFlight) ELSE Cardinality(InFlight) + 1
        BY <4>1, FS_AddElement
      <4> QED
        BY <4>1, <4>2
    <3>5. /\ Cardinality(InFlight') <= Cardinality(InFlight \cup {r})
          /\ Cardinality(InFlight') \in Nat
      BY <3>1, <3>4, FS_Subset, FS_CardinalityType
    <3> QED
      BY <3>3, <3>4, <3>5, InFlightFinite, TimingAssumption
  <2>5. CASE stage[r] # "queued"
    <3>1. InFlight' \subseteq InFlight
      BY <2>1, <2>2, <2>3, <2>5 DEF Effect, InFlight
    <3>2. /\ Cardinality(InFlight') <= Cardinality(InFlight)
          /\ Cardinality(InFlight') \in Nat
      BY <3>1, InFlightFinite, FS_Subset, FS_CardinalityType
    <3> QED
      BY <2>2, <3>2, InFlightFinite, TimingAssumption DEF PermitsInv, Limited
  <2> QED
    BY <2>4, <2>5
<1>2. CASE Join \/ Tick \/ UNCHANGED rpcVars
  <2>1. caller' = caller /\ InFlight' = InFlight
    BY <1>2 DEF Join, Tick, rpcVars, taskVars, InFlight
  <2> QED
    BY <2>1 DEF PermitsInv, Limited
<1> QED
  BY <1>1, <1>2 DEF RpcNext, Over

(* No more than max_concurrent_requests requests of the batch indexer are  *)
(* at the node, through all timeouts, backoffs and retries.                *)
THEOREM RpcKeepsPermits == RpcSafetySpec => []PermitsRespected
<1>1. RpcInv /\ PermitsInv => PermitsRespected
  <2> SUFFICES ASSUME RpcInv, PermitsInv, Limited
               PROVE  Cardinality({r \in asked : stage[r] = "request"}) <= Permits
    BY DEF PermitsRespected
  <2>1. {r \in asked : stage[r] = "request"} \subseteq InFlight
    BY DEF InFlight
  <2>2. /\ Cardinality({r \in asked : stage[r] = "request"}) <= Cardinality(InFlight)
        /\ Cardinality({r \in asked : stage[r] = "request"}) \in Nat
    BY <2>1, InFlightFinite, FS_Subset, FS_CardinalityType
  <2> QED
    BY <2>2, InFlightFinite, TimingAssumption DEF PermitsInv
<1> QED
  BY <1>1, RpcInvariant, PermitsInit, PermitsNext, PTL DEF RpcSafetySpec

-----------------------------------------------------------------------------
Refused == {r \in asked : stage[r] = "refused"}

LEMMA FetchInit == RpcInit => Fetch!Init
BY DEF RpcInit, Fetch!Init, Limited

(* Every step of a task fails or refuses its request, or is invisible.     *)
LEMMA TaskStepFetch == RpcInv /\ TaskStep => [Fetch!Next]_Fetch!fetchVars
<1> SUFFICES ASSUME RpcInv, TaskStep PROVE [Fetch!Next]_Fetch!fetchVars
  OBVIOUS
<1>1. PICK r \in asked : Effect(r)
  BY TaskEffect
<1>2. /\ r \in Requests /\ ~answered
      /\ caller' = caller /\ asked' = asked /\ now' = now
      /\ answer' = answer /\ answered' = answered
      /\ stage[r] \in {"queued", "request", "backoff"}
  BY <1>1 DEF TaskStep, RpcInv, RpcTypeOK, Effect, AllSettled, Settled
<1>3. \A q \in asked : q # r => stage'[q] = stage[q]
  BY <1>1, <1>2 DEF Effect, RpcInv, RpcTypeOK
<1>4. stage'[r] = "refused" => Refused' = Refused \cup {r}
  BY <1>2, <1>3 DEF Refused
<1>5. stage'[r] # "refused" => Refused' = Refused
  BY <1>2, <1>3 DEF Refused
<1>6. CASE attempts' = attempts /\ stage'[r] = "refused"
  BY <1>2, <1>4, <1>6 DEF Fetch!Next, Fetch!Refuse, Limited, Refused
<1>7. CASE attempts' = attempts /\ stage'[r] # "refused"
  BY <1>2, <1>5, <1>7 DEF Fetch!fetchVars, Limited, Refused
<1>8. CASE attempts' = [attempts EXCEPT ![r] = attempts[r] + 1] /\ stage'[r] # "refused"
  BY <1>2, <1>5, <1>8 DEF Fetch!Next, Fetch!Fail, Limited, Refused
<1>9. \/ attempts' = attempts
      \/ /\ attempts' = [attempts EXCEPT ![r] = attempts[r] + 1]
         /\ stage'[r] # "refused"
  BY <1>1, <1>2 DEF Effect, RpcInv, RpcTypeOK
<1> QED
  BY <1>6, <1>7, <1>8, <1>9

(* A request that comes back as an error has a cause.                      *)
LEMMA JoinFetch == RpcInv /\ Join => Fetch!Answer
<1> SUFFICES ASSUME RpcInv, Join PROVE Fetch!Answer
  OBVIOUS
<1>1. /\ ~answered /\ answered' = TRUE /\ AllSettled
      /\ answer' = [r \in Requests |-> IF stage[r] = "ok" THEN got[r] ELSE NULL]
      /\ UNCHANGED <<caller, asked, now, stage, attempts>>
  BY DEF Join, taskVars
<1>2. answer' \in [Requests -> Numbers \cup {NULL}]
  BY <1>1 DEF RpcInv, RpcTypeOK
<1>3. ASSUME NEW r \in asked, answer'[r] = NULL
      PROVE  attempts[r] > MaxRetries \/ r \in Refused \/ (Limited /\ now >= TaskTimeout)
  <2>1. r \in Requests /\ stage[r] \in Settled /\ Causes(r)
    BY <1>1 DEF RpcInv, RpcTypeOK, AllSettled
  <2>2. stage[r] # "ok"
    BY <1>1, <1>3, <2>1, RoundAssumption DEF Causes
  <2> QED
    BY <2>1, <2>2 DEF Causes, Refused, Settled
<1>4. \A r \in asked : answer'[r] = NULL => Fetch!Excused(r)
  BY <1>3 DEF Fetch!Excused, Refused
<1> QED
  BY <1>1, <1>2, <1>4 DEF Fetch!Answer, Limited

LEMMA TickFetch == RpcInv /\ Tick => Fetch!Wait
<1> SUFFICES ASSUME RpcInv, Tick PROVE Fetch!Wait
  OBVIOUS
<1>1. ~answered /\ now' > now
  BY DEF RpcInv, RpcTypeOK, Tick
<1> QED
  BY <1>1 DEF Fetch!Wait, Tick, taskVars, Limited

LEMMA RpcNextFetch == RpcInv /\ [RpcNext]_rpcVars => [Fetch!Next]_Fetch!fetchVars
<1> SUFFICES ASSUME RpcInv, [RpcNext]_rpcVars PROVE [Fetch!Next]_Fetch!fetchVars
  OBVIOUS
<1>1. CASE TaskStep
  BY <1>1, TaskStepFetch
<1>2. CASE Join
  BY <1>2, JoinFetch DEF Fetch!Next
<1>3. CASE Tick
  BY <1>3, TickFetch DEF Fetch!Next
<1>4. CASE UNCHANGED rpcVars
  BY <1>4 DEF rpcVars, taskVars, Fetch!fetchVars, Limited
<1> QED
  BY <1>1, <1>2, <1>3, <1>4 DEF RpcNext, Over

(* The tasks, retries, timeouts and permits of a round are one answer to   *)
(* the caller, with an error only for a request that the node failed more  *)
(* than max_retries times, refused, or let run into the limit.             *)
THEOREM RpcImplementsHeaderFetch == RpcSafetySpec => FetchesHeaders
BY RpcInvariant, FetchInit, RpcNextFetch, PTL
   DEF RpcSafetySpec, FetchesHeaders, Fetch!Spec

-----------------------------------------------------------------------------
(* The clock.  A request under way has used up, of its retries, no more    *)
(* than the time since it began, and its timer has not been passed.        *)
UnderWay(r) == stage[r] \in {"request", "backoff"}

(* What the attempts of r and the backoffs between them have taken, with   *)
(* the attempt or the backoff that is under way.                           *)
Spent(r) ==
  (IF stage[r] = "request" THEN attempts[r] + 1 ELSE attempts[r]) * RpcTimeout
    + 2^(attempts[r] + 1) - 2

Timing(r) ==
  /\ stage[r] = "queued" => attempts[r] = 0 /\ (~Limited => now = 0)
  /\ UnderWay(r) =>
       /\ began[r] <= now /\ now <= due[r] /\ due[r] <= began[r] + Spent(r)
       /\ IF Limited THEN now <= began[r] + TaskTimeout ELSE began[r] = 0

TimesInv == caller # "startup" => \A r \in asked : Timing(r)

(* What a task of a batch may take.                                        *)
TaskTime == IF RetriesEnd < TaskTimeout THEN RetriesEnd ELSE TaskTimeout

(* The requests of the first k + 1 waves.                                  *)
Done(k) ==
  {r \in asked : stage[r] \in Settled \/ (UnderWay(r) /\ began[r] <= k * TaskTime)}

(* When the time of k waves is over, the permits of k + 1 waves have been  *)
(* used, or all requests have had one.                                     *)
WaveStarted(k) ==
  now > k * TaskTime =>
    asked \subseteq Done(k) \/ Cardinality(Done(k)) >= (k + 1) * Permits

WavesInv ==
  Limited => /\ now <= Waves * TaskTime
             /\ \A k \in 0 .. Waves - 1 : WaveStarted(k)

AloneInv == caller \in {"quick", "tip"} => now <= RetriesEnd

ClockInv == TimesInv /\ WavesInv /\ AloneInv

LEMMA PowersOfTwo ==
  ASSUME NEW a \in 0 .. MaxRetries
  PROVE  2^(a + 1) \in Nat /\ 2^(a + 1) <= 2^(MaxRetries + 1)
<1> DEFINE bad == {k \in 0 .. MaxRetries : ~(2^((MaxRetries - k) + 1) <= 2^(MaxRetries + 1))}
<1>1. MaxRetries \in Nat
  BY TimingAssumption
<1>2. \A n \in 0 .. MaxRetries + 1 : 2^n \in Nat
  BY BackoffAssumption
<1>3. bad = {}
  <2> SUFFICES ASSUME bad # {} PROVE FALSE
    OBVIOUS
  <2> DEFINE less == OpToRel(<, Nat)
  <2>1. IsWellFoundedOn(less, Nat)
    BY NatLessThanWellFounded
  <2>2. \A x, y \in Nat : x < y => <<x, y>> \in less
    BY DEF OpToRel
  <2> HIDE DEF less
  <2>least. PICK k \in bad : \A y \in bad : ~(y < k)
    <3>1. bad \subseteq Nat
      OBVIOUS
    <3> HIDE DEF bad
    <3>2. \E k \in bad : \A y \in bad : ~(<<y, k>> \in less)
      BY <2>1, <3>1, WFMin
    <3> QED
      BY <2>2, <3>1, <3>2
  <2>3. k \in 0 .. MaxRetries /\ ~(2^((MaxRetries - k) + 1) <= 2^(MaxRetries + 1))
    BY <2>least
  <2>4. k # 0
    <3> SUFFICES ASSUME k = 0 PROVE FALSE
      OBVIOUS
    <3>1. (MaxRetries - k) + 1 = MaxRetries + 1
      BY <1>1
    <3>2. 2^(MaxRetries + 1) \in Nat
      BY <1>1, <1>2
    <3> QED
      BY <2>3, <3>1, <3>2
  <2>5. k - 1 \in 0 .. MaxRetries /\ k - 1 \notin bad
    BY <1>1, <2>least, <2>3, <2>4
  <2>6. 2^((MaxRetries - (k - 1)) + 1) <= 2^(MaxRetries + 1)
    BY <2>5
  <2>7. (MaxRetries - k) + 1 \in 0 .. MaxRetries + 1
    BY <1>1, <2>3
  <2>8. 2^(((MaxRetries - k) + 1) + 1) = 2 * 2^((MaxRetries - k) + 1)
    BY <2>7, BackoffAssumption
  <2>9. ((MaxRetries - k) + 1) + 1 = (MaxRetries - (k - 1)) + 1
    BY <1>1, <2>3
  <2>10. 2^((MaxRetries - k) + 1) \in Nat /\ 2^(MaxRetries + 1) \in Nat
    BY <1>1, <1>2, <2>7
  <2>11. 2 * 2^((MaxRetries - k) + 1) <= 2^(MaxRetries + 1)
    BY <2>6, <2>8, <2>9
  <2> QED
    BY <2>3, <2>10, <2>11
<1>4. MaxRetries - a \in 0 .. MaxRetries /\ (MaxRetries - (MaxRetries - a)) + 1 = a + 1
  BY <1>1
<1>5. ~(MaxRetries - a \in bad)
  BY <1>3
<1>6. 2^((MaxRetries - (MaxRetries - a)) + 1) <= 2^(MaxRetries + 1)
  BY <1>4, <1>5
<1>7. a + 1 \in 0 .. MaxRetries + 1
  BY <1>1
<1> QED
  BY <1>2, <1>4, <1>6, <1>7

LEMMA TimeBounds ==
  /\ RetriesEnd \in Nat \ {0} /\ TaskTime \in Nat \ {0}
  /\ TaskTime <= RetriesEnd /\ TaskTime <= TaskTimeout
<1>1. MaxRetries \in Nat /\ RpcTimeout \in Nat \ {0} /\ TaskTimeout \in Nat \ {0}
  BY TimingAssumption
<1>2. 2^(MaxRetries + 1) \in Nat /\ 2 <= 2^(MaxRetries + 1)
  <2>1. 0 \in 0 .. MaxRetries /\ MaxRetries \in 0 .. MaxRetries
    BY <1>1
  <2>2. 2^(MaxRetries + 1) \in Nat
    BY <2>1, PowersOfTwo
  <2>3. 2^(0 + 1) <= 2^(MaxRetries + 1)
    BY <2>1, PowersOfTwo
  <2>4. 2^(0 + 1) = 2
    OBVIOUS
  <2> QED
    BY <2>2, <2>3, <2>4
<1>3. (MaxRetries + 1) * RpcTimeout >= RpcTimeout /\ (MaxRetries + 1) * RpcTimeout \in Nat
  BY <1>1
<1>4. RetriesEnd \in Nat \ {0}
  BY <1>1, <1>2, <1>3 DEF RetriesEnd
<1> QED
  BY <1>1, <1>4 DEF TaskTime

(* A request under way has not outlived what its retries may take, nor the *)
(* time of its task.                                                       *)
LEMMA SpentBounded ==
  ASSUME NEW r, attempts[r] \in 0 .. MaxRetries
  PROVE  Spent(r) \in Int /\ Spent(r) <= RetriesEnd
<1> DEFINE tried == IF stage[r] = "request" THEN attempts[r] + 1 ELSE attempts[r]
<1>1. MaxRetries \in Nat /\ RpcTimeout \in Nat /\ attempts[r] \in Nat
  BY TimingAssumption
<1>2. tried \in Nat /\ tried <= MaxRetries + 1
  BY <1>1
<1> HIDE DEF tried
<1>4. tried * RpcTimeout \in Nat /\ tried * RpcTimeout <= (MaxRetries + 1) * RpcTimeout
  BY <1>1, <1>2
<1>3. 2^(attempts[r] + 1) \in Nat /\ 2^(attempts[r] + 1) <= 2^(MaxRetries + 1)
  BY PowersOfTwo
<1> QED
  BY <1>1, <1>3, <1>4 DEF Spent, RetriesEnd, tried

(* The clock of the request whose task takes a step.                       *)
LEMMA TaskTiming ==
  ASSUME RpcInv, TimesInv, caller # "startup", NEW r \in asked, Node(r) \/ Runtime(r),
         UNCHANGED <<caller, asked, now>>
  PROVE  /\ Timing(r)'
         /\ \A q \in asked : q # r =>
              /\ stage'[q] = stage[q] /\ attempts'[q] = attempts[q]
              /\ began'[q] = began[q] /\ due'[q] = due[q]
         /\ UnderWay(r) /\ UnderWay(r)' => began'[r] = began[r]
         /\ stage'[r] # "queued" /\ stage[r] \notin Settled
<1>1. /\ r \in Requests /\ now \in Nat /\ began[r] \in Nat /\ due[r] \in Nat
      /\ attempts[r] \in 0 .. MaxRetries + 1 /\ stage[r] \in Stages
      /\ MaxRetries \in Nat /\ RpcTimeout \in Nat /\ TaskTimeout \in Nat
      /\ began \in [Requests -> Nat] /\ due \in [Requests -> Nat]
      /\ stage \in [Requests -> Stages] /\ attempts \in [Requests -> 0 .. MaxRetries + 1]
  BY TimingAssumption DEF RpcInv, RpcTypeOK
<1>2. Timing(r) /\ Causes(r) /\ Limited' = Limited /\ now' = now
  BY <1>1 DEF TimesInv, RpcInv, Limited
<1>3. CASE Start(r)
  <2>1. /\ stage' = [stage EXCEPT ![r] = "request"]
        /\ due' = [due EXCEPT ![r] = now + RpcTimeout]
        /\ began' = [began EXCEPT ![r] = now]
        /\ attempts' = attempts /\ stage[r] = "queued"
    BY <1>3 DEF Start, Send
  <2>2. attempts[r] = 0 /\ (~Limited => now = 0)
    BY <1>2, <2>1 DEF Timing
  <2>3. stage'[r] = "request" /\ due'[r] = now + RpcTimeout /\ began'[r] = now /\ attempts'[r] = 0
    BY <1>1, <2>1, <2>2
  <2>4. 2^(0 + 1) = 2
    OBVIOUS
  <2>5. Spent(r)' = RpcTimeout
    BY <1>1, <2>3, <2>4 DEF Spent
  <2>6. Timing(r)'
    BY <1>1, <1>2, <2>2, <2>3, <2>5 DEF Timing
  <2> QED
    BY <1>1, <2>1, <2>6 DEF UnderWay, Settled
<1>4. CASE Retry(r)
  <2>1. /\ stage' = [stage EXCEPT ![r] = "request"]
        /\ due' = [due EXCEPT ![r] = now + RpcTimeout]
        /\ attempts' = attempts /\ began' = began /\ stage[r] = "backoff"
    BY <1>4 DEF Retry, Send, BackoffOver
  <2>2. stage'[r] = "request" /\ due'[r] = now + RpcTimeout
    BY <1>1, <2>1
  <2>3. /\ began[r] <= now /\ now <= due[r] /\ due[r] <= began[r] + Spent(r)
        /\ IF Limited THEN now <= began[r] + TaskTimeout ELSE began[r] = 0
    BY <1>2, <2>1 DEF Timing, UnderWay
  <2>4. attempts[r] \in 0 .. MaxRetries
    BY <1>2, <2>1 DEF Causes
  <2>5. Spent(r)' = Spent(r) + RpcTimeout /\ Spent(r) \in Int
    <3>1. 2^(attempts[r] + 1) \in Nat
      BY <2>4, PowersOfTwo
    <3>2. Spent(r) = attempts[r] * RpcTimeout + 2^(attempts[r] + 1) - 2
      BY <2>1 DEF Spent
    <3>3. Spent(r)' = (attempts[r] + 1) * RpcTimeout + 2^(attempts[r] + 1) - 2
      BY <2>1, <2>2 DEF Spent
    <3> QED
      BY <1>1, <3>1, <3>2, <3>3
  <2>6. Timing(r)'
    BY <1>1, <1>2, <2>1, <2>2, <2>3, <2>5 DEF Timing
  <2> QED
    BY <1>1, <2>1, <2>6 DEF UnderWay, Settled
<1>5. CASE \E outcome \in Settled : Settle(r, outcome) /\ stage[r] \in {"request", "backoff"}
                                    /\ \A q \in asked : q # r => attempts'[q] = attempts[q]
  BY <1>1, <1>5 DEF Settle, Timing, UnderWay, Settled
<1>6. CASE /\ stage[r] = "request"
           /\ attempts' = [attempts EXCEPT ![r] = @ + 1]
           /\ attempts'[r] <= MaxRetries
           /\ stage' = [stage EXCEPT ![r] = "backoff"]
           /\ due' = [due EXCEPT ![r] = now + 2^(attempts'[r])] /\ UNCHANGED began
  <2>1. /\ began[r] <= now /\ now <= due[r] /\ due[r] <= began[r] + Spent(r)
        /\ IF Limited THEN now <= began[r] + TaskTimeout ELSE began[r] = 0
    BY <1>2, <1>6 DEF Timing, UnderWay
  <2>2. attempts'[r] = attempts[r] + 1 /\ attempts[r] + 1 \in 0 .. MaxRetries
    BY <1>1, <1>6
  <2>3. 2^((attempts[r] + 1) + 1) = 2 * 2^(attempts[r] + 1) /\ 2^(attempts[r] + 1) \in Nat
    <3>1. attempts[r] + 1 \in 0 .. MaxRetries + 1
      BY <1>1, <2>2
    <3> QED
      BY <3>1, BackoffAssumption
  <2>4. due'[r] = now + 2^(attempts[r] + 1) /\ stage'[r] = "backoff"
    BY <1>1, <1>6, <2>2
  <2>5. Spent(r) = (attempts[r] + 1) * RpcTimeout + 2^(attempts[r] + 1) - 2
    BY <1>6 DEF Spent
  <2>6. Spent(r)' = (attempts[r] + 1) * RpcTimeout + 2^((attempts[r] + 1) + 1) - 2
    BY <2>2, <2>4 DEF Spent
  <2>7. Spent(r)' = Spent(r) + 2^(attempts[r] + 1) /\ Spent(r) \in Int
    BY <1>1, <2>3, <2>5, <2>6
  <2>8. Timing(r)'
    BY <1>1, <1>2, <1>6, <2>1, <2>3, <2>4, <2>7 DEF Timing
  <2> QED
    BY <1>1, <1>6, <2>4, <2>8 DEF UnderWay, Settled
<1>7. CASE FailAttempt(r) /\ stage[r] = "request"
  BY <1>1, <1>5, <1>6, <1>7 DEF FailAttempt, Settled
<1> QED
  BY <1>3, <1>4, <1>5, <1>7
     DEF Node, Runtime, Respond, Refuse, Garble, Expire, TimesOut, Abandon, OverLimit, Settled

LEMMA TimesInit == RpcInit => TimesInv
BY DEF RpcInit, TimesInv, Timing, UnderWay

(* The clock waits for every timer that is due: no request under way is    *)
(* past its timers when it moves, and none that may start is left waiting. *)
LEMMA TickWaits ==
  ASSUME RpcInv, TimesInv, caller # "startup", Tick
  PROVE  /\ \A r \in InFlight : /\ now < due[r]
                                /\ now < began[r] + Spent(r)
                                /\ now < began[r] + RetriesEnd
                                /\ Limited => now < began[r] + TaskTime
                                /\ ~Limited => began[r] = 0
                                /\ began[r] \in Nat
         /\ (\E r \in asked : stage[r] = "queued") =>
              Limited /\ Cardinality(InFlight) >= Permits
         /\ InFlight # {} \/ \E r \in asked : stage[r] = "queued"
<1>1. now \in Nat /\ now' = now + 1
  BY DEF RpcInv, RpcTypeOK, Tick
<1>2. ASSUME NEW r \in InFlight
      PROVE  /\ now < due[r] /\ now < began[r] + Spent(r) /\ now < began[r] + RetriesEnd
             /\ Limited => now < began[r] + TaskTime
             /\ ~Limited => began[r] = 0
             /\ began[r] \in Nat
  <2>1. /\ r \in asked /\ r \in Requests /\ stage[r] \in {"request", "backoff"}
        /\ began[r] \in Nat /\ due[r] \in Nat
    BY DEF InFlight, RpcInv, RpcTypeOK
  <2>2. attempts[r] \in 0 .. MaxRetries
    BY <2>1 DEF RpcInv, Causes
  <2>3. Spent(r) \in Int /\ Spent(r) <= RetriesEnd
    BY <2>2, SpentBounded
  <2>4. ~TimesOut(r) /\ ~BackoffOver(r) /\ ~OverLimit(r)
    BY <2>1 DEF Tick, IsDue
  <2>5. now < due[r]
    BY <1>1, <2>1, <2>4 DEF TimesOut, BackoffOver
  <2>6. Limited => now < began[r] + TaskTimeout
    BY <1>1, <2>1, <2>4, TimingAssumption DEF OverLimit
  <2>7. due[r] <= began[r] + Spent(r) /\ (~Limited => began[r] = 0)
    BY <2>1 DEF TimesInv, Timing, UnderWay
  <2> QED
    BY <1>1, <2>1, <2>3, <2>5, <2>6, <2>7, TimeBounds DEF TaskTime
<1>3. ASSUME NEW r \in asked, stage[r] = "queued"
      PROVE  Limited /\ Cardinality(InFlight) >= Permits
  <2>1. ~PermitFree
    BY <1>3 DEF Tick, IsDue
  <2> QED
    BY <2>1, InFlightFinite, TimingAssumption DEF PermitFree
<1>4. InFlight # {} \/ \E r \in asked : stage[r] = "queued"
  <2>1. PICK r \in asked : stage[r] \notin Settled
    BY DEF Tick, AllSettled
  <2>2. stage[r] \in Stages
    BY <2>1 DEF RpcInv, RpcTypeOK
  <2> QED
    BY <2>1, <2>2 DEF Stages, InFlight
<1> QED
  BY <1>2, <1>3, <1>4

LEMMA TimesNext == RpcInv /\ TimesInv /\ [RpcNext]_rpcVars => TimesInv'
<1> SUFFICES ASSUME RpcInv, TimesInv, [RpcNext]_rpcVars, caller' # "startup"
             PROVE  \A q \in asked' : Timing(q)'
  BY DEF TimesInv
<1>1. caller' = caller /\ asked' = asked
  BY DEF RpcNext, TaskStep, Join, Tick, Over, rpcVars
<1>2. CASE TaskStep
  <2>1. PICK r \in asked : Node(r) \/ Runtime(r)
    BY <1>2 DEF TaskStep
  <2>2. now' = now
    BY <1>2 DEF TaskStep
  <2>3. /\ Timing(r)'
        /\ \A q \in asked : q # r =>
             /\ stage'[q] = stage[q] /\ attempts'[q] = attempts[q]
             /\ began'[q] = began[q] /\ due'[q] = due[q]
    BY <1>1, <2>1, <2>2, TaskTiming
  <2>4. ASSUME NEW q \in asked, q # r PROVE Timing(q)'
    BY <1>1, <2>2, <2>3, <2>4 DEF TimesInv, Timing, UnderWay, Spent, Limited
  <2> QED
    BY <1>1, <2>3, <2>4
<1>3. CASE Tick
  <2>1. /\ now \in Nat /\ now' = now + 1 /\ Limited' = Limited
        /\ stage' = stage /\ attempts' = attempts /\ began' = began /\ due' = due
    BY <1>1, <1>3 DEF RpcInv, RpcTypeOK, Tick, taskVars, Limited
  <2> SUFFICES ASSUME NEW q \in asked PROVE Timing(q)'
    BY <1>1
  <2>2. CASE stage[q] = "queued"
    <3>1. Limited
      BY <1>1, <1>3, <2>2, TickWaits
    <3> QED
      BY <1>1, <2>1, <2>2, <3>1 DEF TimesInv, Timing, UnderWay
  <2>3. CASE UnderWay(q)
    <3>1. q \in InFlight
      BY <2>3 DEF UnderWay, InFlight
    <3>2. /\ now < due[q] /\ began[q] \in Nat
          /\ Limited => now < began[q] + TaskTime
      BY <1>1, <1>3, <3>1, TickWaits
    <3>3. due[q] \in Nat /\ TaskTimeout \in Nat /\ TaskTime \in Nat /\ TaskTime <= TaskTimeout
      BY TimingAssumption, TimeBounds DEF RpcInv, RpcTypeOK
    <3>4. Timing(q) /\ Spent(q)' = Spent(q)
      BY <1>1, <2>1 DEF TimesInv, Spent
    <3> QED
      BY <2>1, <2>3, <3>2, <3>3, <3>4 DEF Timing, UnderWay
  <2> QED
    BY <2>1, <2>2, <2>3 DEF Timing, UnderWay
<1>4. CASE Join \/ UNCHANGED rpcVars
  BY <1>1, <1>4 DEF Join, rpcVars, taskVars, TimesInv, Timing, UnderWay, Spent, Limited
<1> QED
  BY <1>2, <1>3, <1>4 DEF RpcNext, Over

LEMMA AloneNext == RpcInv /\ TimesInv /\ AloneInv /\ [RpcNext]_rpcVars => AloneInv'
<1> SUFFICES ASSUME RpcInv, TimesInv, AloneInv, [RpcNext]_rpcVars, caller' \in {"quick", "tip"}
             PROVE  now' <= RetriesEnd
  BY DEF AloneInv, RetriesEnd
<1>1. caller' = caller /\ now \in Nat
  BY DEF RpcNext, TaskStep, Join, Tick, Over, rpcVars, RpcInv, RpcTypeOK
<1>2. CASE Tick
  <2>1. PICK r : r \in InFlight
    BY <1>1, <1>2, TickWaits DEF Limited
  <2>2. now < began[r] + RetriesEnd /\ began[r] = 0
    BY <1>1, <1>2, <2>1, TickWaits DEF Limited
  <2> QED
    BY <1>1, <1>2, <2>2, TimeBounds DEF Tick
<1>3. CASE ~Tick
  BY <1>1, <1>3 DEF AloneInv, RpcNext, TaskStep, Join, Over, rpcVars
<1> QED
  BY <1>2, <1>3

-----------------------------------------------------------------------------
(* The waves of a batch.                                                   *)
LEMMA DoneFinite ==
  ASSUME RpcInv, NEW k
  PROVE  IsFiniteSet(Done(k)) /\ Cardinality(Done(k)) \in Nat
<1>1. Done(k) \subseteq Requests
  BY DEF RpcInv, RpcTypeOK, Done
<1> QED
  BY <1>1, RoundAssumption, FS_Subset, FS_CardinalityType

LEMMA WavesBound ==
  ASSUME RpcInv
  PROVE  /\ Waves \in Nat /\ Permits \in Nat \ {0}
         /\ IsFiniteSet(asked) /\ Cardinality(asked) \in Nat
         /\ Waves * Permits >= Cardinality(asked)
<1>1. asked \subseteq Requests
  BY DEF RpcInv, RpcTypeOK
<1>2. IsFiniteSet(asked) /\ Cardinality(asked) \in Nat
  BY <1>1, RoundAssumption, FS_Subset, FS_CardinalityType
<1>3. ASSUME NEW n \in Nat, NEW p \in Nat \ {0}
      PROVE  /\ (n + p - 1) \div p \in Nat
             /\ ((n + p - 1) \div p) * p >= n
  BY <1>3
<1> QED
  BY <1>2, <1>3, TimingAssumption DEF Waves

LEMMA WavesInit == RpcInit => WavesInv
<1> SUFFICES ASSUME RpcInit PROVE WavesInv
  OBVIOUS
<1>1. now = 0
  BY DEF RpcInit
<1>2. Waves * TaskTime \in Nat
  <2>1. Waves \in Nat /\ TaskTime \in Nat
    BY RpcInitInv, WavesBound, TimeBounds
  <2> QED
    BY <2>1
<1>3. ASSUME NEW k \in 0 .. Waves - 1 PROVE WaveStarted(k)
  <2>1. k \in Nat /\ TaskTime \in Nat
    BY TimeBounds, RpcInitInv, WavesBound
  <2>2. ~(0 > k * TaskTime)
    BY <2>1
  <2> QED
    BY <1>1, <2>2 DEF WaveStarted
<1> QED
  BY <1>1, <1>2, <1>3 DEF WavesInv

(* A wave that is done stays so.                                           *)
LEMMA DoneGrows ==
  ASSUME RpcInv, TimesInv, Limited, TaskStep, NEW k, now > k * TaskTime
  PROVE  Done(k) \subseteq Done(k)'
<1>1. PICK r \in asked : Node(r) \/ Runtime(r)
  BY DEF TaskStep
<1>2. caller # "startup" /\ UNCHANGED <<caller, asked, now>>
  BY DEF Limited, TaskStep
<1>3. /\ Timing(r)'
      /\ \A q \in asked : q # r =>
           /\ stage'[q] = stage[q] /\ attempts'[q] = attempts[q]
           /\ began'[q] = began[q] /\ due'[q] = due[q]
      /\ UnderWay(r) /\ UnderWay(r)' => began'[r] = began[r]
      /\ stage'[r] # "queued" /\ stage[r] \notin Settled
  BY <1>1, <1>2, TaskTiming
<1>4. stage'[r] \in Stages
  BY <1>1, TaskStepInv DEF RpcInv, RpcTypeOK, TaskStep
<1>5. TaskTime' = TaskTime
  BY DEF TaskTime, RetriesEnd
<1> SUFFICES ASSUME NEW q \in Done(k) PROVE q \in Done(k)'
  OBVIOUS
<1>6. CASE q # r
  BY <1>2, <1>3, <1>5, <1>6 DEF Done, UnderWay
<1>7. CASE q = r
  <2>1. UnderWay(r) /\ began[r] <= k * TaskTime
    BY <1>3, <1>7 DEF Done
  <2>2. stage'[r] \in Settled \/ UnderWay(r)'
    BY <1>3, <1>4 DEF Stages, UnderWay
  <2> QED
    BY <1>1, <1>2, <1>3, <1>5, <1>7, <2>1, <2>2 DEF Done
<1> QED
  BY <1>6, <1>7

(* The clock reaches the end of a wave only with the next wave under way:  *)
(* the permits of the one before have all been given back by then, and     *)
(* either nothing is waiting for them or all of them are taken.            *)
LEMMA WaveEnds ==
  ASSUME RpcInv, TimesInv, WavesInv, Limited, Tick,
         NEW k \in 0 .. Waves - 1, now = k * TaskTime
  PROVE  asked \subseteq Done(k) \/ Cardinality(Done(k)) >= (k + 1) * Permits
<1>1. caller # "startup" /\ now \in Nat /\ TaskTime \in Nat \ {0} /\ k \in Nat
  BY TimeBounds, WavesBound DEF Limited, RpcInv, RpcTypeOK
<1>2. \A r \in asked : UnderWay(r) => began[r] <= now
  BY <1>1 DEF TimesInv, Timing
<1>3. InFlight \subseteq Done(k)
  BY <1>2 DEF InFlight, Done, UnderWay
<1>4. CASE ~\E r \in asked : stage[r] = "queued"
  <2>1. \A r \in asked : stage[r] \in Settled \/ UnderWay(r)
    BY <1>4 DEF RpcInv, RpcTypeOK, Stages, UnderWay
  <2> QED
    BY <1>2, <2>1 DEF Done
<1>5. CASE \E r \in asked : stage[r] = "queued"
  <2>1. Cardinality(InFlight) >= Permits
    BY <1>1, <1>5, TickWaits
  <2>2. IsFiniteSet(Done(k)) /\ Cardinality(Done(k)) \in Nat
    BY DoneFinite
  <2>3. CASE k = 0
    <3>1. Cardinality(InFlight) <= Cardinality(Done(k)) /\ Cardinality(InFlight) \in Nat
      BY <1>3, <2>2, InFlightFinite, FS_Subset
    <3> QED
      BY <2>1, <2>2, <2>3, <3>1, WavesBound
  <2>4. CASE k # 0
    <3>1. k - 1 \in 0 .. Waves - 1 /\ now > (k - 1) * TaskTime
          /\ now = (k - 1) * TaskTime + TaskTime
      <4>1. k * TaskTime = (k - 1) * TaskTime + TaskTime
        BY <1>1
      <4>2. (k - 1) * TaskTime \in Int
        BY <1>1
      <4> QED
        BY <1>1, <2>4, <4>1, <4>2, WavesBound
    <3>2. ~(asked \subseteq Done(k - 1))
      BY <1>5 DEF Done, UnderWay, Settled
    <3>3. Cardinality(Done(k - 1)) >= k * Permits
      <4>1. (k - 1) + 1 = k
        BY <1>1
      <4>2. Cardinality(Done(k - 1)) >= ((k - 1) + 1) * Permits
        BY <3>1, <3>2 DEF WavesInv, WaveStarted
      <4> QED
        BY <4>1, <4>2
    <3>4. Done(k - 1) \cap InFlight = {}
      <4> SUFFICES ASSUME NEW r \in InFlight, r \in Done(k - 1) PROVE FALSE
        OBVIOUS
      <4>1. began[r] \in Nat /\ now < began[r] + TaskTime
        BY <1>1, TickWaits
      <4>2. began[r] <= (k - 1) * TaskTime
        BY DEF Done, InFlight, Settled
      <4>3. (k - 1) * TaskTime \in Int
        BY <1>1
      <4> QED
        BY <1>1, <3>1, <4>1, <4>2, <4>3
    <3>5. Done(k - 1) \cup InFlight \subseteq Done(k)
      <4>1. (k - 1) * TaskTime <= k * TaskTime
        BY <1>1
      <4>2. ASSUME NEW r \in Done(k - 1) PROVE r \in Done(k)
        <5>1. r \in asked /\ r \in Requests /\ began[r] \in Nat
          BY DEF Done, RpcInv, RpcTypeOK
        <5>2. (k - 1) * TaskTime \in Int /\ k * TaskTime \in Int
          BY <1>1
        <5> QED
          BY <4>1, <5>1, <5>2 DEF Done
      <4> QED
        BY <1>3, <4>2
    <3>6. /\ IsFiniteSet(Done(k - 1)) /\ Cardinality(Done(k - 1)) \in Nat
          /\ IsFiniteSet(InFlight) /\ Cardinality(InFlight) \in Nat
      BY DoneFinite, InFlightFinite
    <3>7. Cardinality(Done(k - 1) \cup InFlight) = Cardinality(Done(k - 1)) + Cardinality(InFlight)
      <4>1. Cardinality(Done(k - 1) \cap InFlight) = 0
        BY <3>4, FS_EmptySet
      <4>2. Cardinality(Done(k - 1) \cup InFlight) =
              Cardinality(Done(k - 1)) + Cardinality(InFlight)
                - Cardinality(Done(k - 1) \cap InFlight)
        BY <3>6, FS_Union
      <4> QED
        BY <3>6, <4>1, <4>2
    <3>8. Cardinality(Done(k - 1) \cup InFlight) <= Cardinality(Done(k))
      BY <2>2, <3>5, FS_Subset
    <3>9. (k + 1) * Permits = k * Permits + Permits /\ k * Permits \in Nat
      BY <1>1, WavesBound
    <3> QED
      BY <2>1, <2>2, <3>3, <3>6, <3>7, <3>8, <3>9, WavesBound
  <2> QED
    BY <2>3, <2>4
<1> QED
  BY <1>4, <1>5

(* The clock does not pass the last wave: its requests have all ended.     *)
LEMMA LastWave ==
  ASSUME RpcInv, TimesInv, WavesInv, Limited, Tick
  PROVE  now < Waves * TaskTime
<1>1. caller # "startup" /\ now \in Nat /\ TaskTime \in Nat \ {0} /\ Waves \in Nat
  BY TimeBounds, WavesBound DEF Limited, RpcInv, RpcTypeOK
<1>2. Waves * TaskTime \in Nat /\ now <= Waves * TaskTime
  BY <1>1 DEF WavesInv
<1> SUFFICES ASSUME now = Waves * TaskTime PROVE FALSE
  BY <1>1, <1>2
<1>3. Waves # 0
  <2> SUFFICES ASSUME Waves = 0 PROVE FALSE
    OBVIOUS
  <2>1. Cardinality(asked) = 0
    BY WavesBound
  <2>2. asked = {}
    BY <2>1, WavesBound, FS_EmptySet
  <2> QED
    BY <2>2 DEF Tick, AllSettled
<1>4. /\ Waves - 1 \in 0 .. Waves - 1
      /\ now = (Waves - 1) * TaskTime + TaskTime /\ (Waves - 1) * TaskTime \in Nat
  <2>1. Waves * TaskTime = (Waves - 1) * TaskTime + TaskTime
    BY <1>1
  <2> QED
    BY <1>1, <1>3, <2>1
<1>5. /\ Done(Waves - 1) \subseteq asked
      /\ IsFiniteSet(Done(Waves - 1)) /\ Cardinality(Done(Waves - 1)) \in Nat
  BY DoneFinite DEF Done
<1>6. asked \subseteq Done(Waves - 1)
  <2> SUFFICES ASSUME ~(asked \subseteq Done(Waves - 1)) PROVE FALSE
    OBVIOUS
  <2>1. Cardinality(Done(Waves - 1)) >= ((Waves - 1) + 1) * Permits
    BY <1>1, <1>4 DEF WavesInv, WaveStarted
  <2>2. (Waves - 1) + 1 = Waves
    BY <1>1
  <2>3. Cardinality(Done(Waves - 1)) >= Cardinality(asked)
    BY <1>5, <2>1, <2>2, WavesBound
  <2>4. Cardinality(Done(Waves - 1)) <= Cardinality(asked)
    BY <1>5, WavesBound, FS_Subset
  <2> QED
    BY <1>5, <2>3, <2>4, WavesBound, FS_Subset
<1>7. InFlight = {}
  <2> SUFFICES ASSUME NEW r \in InFlight PROVE FALSE
    OBVIOUS
  <2>1. began[r] \in Nat /\ now < began[r] + TaskTime
    BY <1>1, TickWaits
  <2>2. began[r] <= (Waves - 1) * TaskTime
    BY <1>6 DEF Done, InFlight, Settled
  <2> QED
    BY <1>4, <2>1, <2>2, <1>1
<1>8. PICK r \in asked : stage[r] = "queued"
  BY <1>1, <1>7, TickWaits
<1> QED
  BY <1>6, <1>8 DEF Done, UnderWay, Settled

LEMMA WavesNext == RpcInv /\ TimesInv /\ WavesInv /\ [RpcNext]_rpcVars => WavesInv'
<1> SUFFICES ASSUME RpcInv, TimesInv, WavesInv, [RpcNext]_rpcVars, Limited'
             PROVE  /\ now' <= (Waves * TaskTime)'
                    /\ \A k \in 0 .. Waves' - 1 : WaveStarted(k)'
  BY DEF WavesInv
<1>1. /\ caller' = caller /\ asked' = asked /\ Limited /\ now \in Nat
      /\ Waves' = Waves /\ TaskTime' = TaskTime
  BY DEF RpcNext, TaskStep, Join, Tick, Over, rpcVars, Limited, Waves, TaskTime,
         RetriesEnd, RpcInv, RpcTypeOK
<1>2. /\ now <= Waves * TaskTime
      /\ \A k \in 0 .. Waves - 1 : WaveStarted(k)
  BY <1>1 DEF WavesInv
<1>3. /\ Waves \in Nat /\ TaskTime \in Nat \ {0} /\ Permits \in Nat \ {0}
      /\ Waves * TaskTime \in Nat
  <2>1. Waves \in Nat /\ TaskTime \in Nat \ {0} /\ Permits \in Nat \ {0}
    BY WavesBound, TimeBounds
  <2> QED
    BY <2>1
<1>4. CASE Join \/ UNCHANGED rpcVars
  <2>1. now' = now /\ stage' = stage /\ began' = began
    BY <1>4 DEF Join, rpcVars, taskVars
  <2>2. \A k \in 0 .. Waves - 1 : Done(k)' = Done(k)
    BY <1>1, <2>1 DEF Done, UnderWay
  <2>3. \A k \in 0 .. Waves - 1 : WaveStarted(k)'
    BY <1>1, <1>2, <2>1, <2>2 DEF WaveStarted
  <2> QED
    BY <1>1, <1>2, <2>1, <2>3
<1>5. CASE TaskStep
  <2>1. now' = now
    BY <1>5 DEF TaskStep
  <2>2. ASSUME NEW k \in 0 .. Waves - 1, now > k * TaskTime
        PROVE  asked \subseteq Done(k)' \/ Cardinality(Done(k)') >= (k + 1) * Permits
    <3>1. Done(k) \subseteq Done(k)'
      BY <1>1, <1>5, <2>2, DoneGrows
    <3>2. asked \subseteq Done(k) \/ Cardinality(Done(k)) >= (k + 1) * Permits
      BY <1>2, <2>2 DEF WaveStarted
    <3>3. IsFiniteSet(Done(k)') /\ Cardinality(Done(k)') \in Nat
      <4>1. Done(k)' \subseteq asked
        BY <1>1 DEF Done
      <4> QED
        BY <4>1, WavesBound, FS_Subset, FS_CardinalityType
    <3>4. Cardinality(Done(k)) <= Cardinality(Done(k)') /\ Cardinality(Done(k)) \in Nat
      BY <3>1, <3>3, DoneFinite, FS_Subset
    <3>5. (k + 1) * Permits \in Nat
      BY <1>3
    <3> QED
      BY <3>1, <3>2, <3>3, <3>4, <3>5
  <2>3. \A k \in 0 .. Waves - 1 : WaveStarted(k)'
    BY <1>1, <2>1, <2>2 DEF WaveStarted
  <2> QED
    BY <1>1, <1>2, <2>1, <2>3
<1>6. CASE Tick
  <2>1. now' = now + 1 /\ stage' = stage /\ began' = began
    BY <1>6 DEF Tick, taskVars
  <2>2. now' <= Waves * TaskTime
    BY <1>1, <1>3, <1>6, <2>1, LastWave
  <2>3. ASSUME NEW k \in 0 .. Waves - 1, now' > k * TaskTime
        PROVE  asked \subseteq Done(k)' \/ Cardinality(Done(k)') >= (k + 1) * Permits
    <3>1. Done(k)' = Done(k)
      BY <1>1, <2>1 DEF Done, UnderWay
    <3>2. k * TaskTime \in Nat
      BY <1>3
    <3>3. CASE now > k * TaskTime
      BY <1>2, <3>1, <3>3 DEF WaveStarted
    <3>4. CASE now = k * TaskTime
      BY <1>1, <1>6, <3>1, <3>4, WaveEnds
    <3> QED
      BY <1>1, <2>1, <2>3, <3>2, <3>3, <3>4
  <2>4. \A k \in 0 .. Waves - 1 : WaveStarted(k)'
    BY <1>1, <2>3 DEF WaveStarted
  <2> QED
    BY <1>1, <2>2, <2>4
<1> QED
  BY <1>4, <1>5, <1>6 DEF RpcNext, Over

-----------------------------------------------------------------------------
LEMMA ClockInit == RpcInit => ClockInv
<1>1. RpcInit => AloneInv
  BY TimeBounds DEF RpcInit, AloneInv
<1> QED
  BY <1>1, TimesInit, WavesInit DEF ClockInv

LEMMA ClockNext == RpcInv /\ ClockInv /\ [RpcNext]_rpcVars => ClockInv'
BY TimesNext, WavesNext, AloneNext DEF ClockInv

LEMMA ClockInvariant == RpcSafetySpec => []ClockInv
BY RpcInvariant, ClockInit, ClockNext, PTL DEF RpcSafetySpec

(* Whatever the node does, a round that has a timeout is not awaited       *)
(* beyond its deadline: all attempts and backoffs of one request, or as    *)
(* many times the limit of a task as the permits make waves.               *)
THEOREM RpcRoundBounded == RpcSafetySpec => []RoundBounded
<1>1. RpcInv /\ ClockInv => RoundBounded
  <2> SUFFICES ASSUME RpcInv, ClockInv, caller # "startup" PROVE now <= Deadline
    BY DEF RoundBounded
  <2>1. CASE caller = "batch"
    BY <2>1 DEF ClockInv, WavesInv, Limited, Deadline, TaskTime
  <2>2. CASE caller \in {"quick", "tip"}
    BY <2>2 DEF ClockInv, AloneInv, Deadline
  <2> QED
    BY <2>1, <2>2 DEF RpcInv, RpcTypeOK, Callers
<1> QED
  BY <1>1, RpcInvariant, ClockInvariant, PTL
=============================================================================
