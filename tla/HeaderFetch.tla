---------------------------- MODULE HeaderFetch ----------------------------
(***************************************************************************)
(* What the indexing services rely on when they ask the JSON-RPC client    *)
(* for a set of headers: one answer for the whole round, in which a        *)
(* request may come back as an error only if the node earned it.  It       *)
(* failed that request more often than it is retried, refused it, or the   *)
(* caller's limit on the time of a request has passed.                     *)
(***************************************************************************)
EXTENDS Integers

CONSTANTS
  NULL,        \* no header
  Requests,    \* the block numbers a round may ask for
  Numbers,     \* the block numbers a header may carry
  Tries,       \* how often the node may fail a request that still succeeds
  TimeLimit    \* how long a limited caller waits for a request

VARIABLES
  asked,     \* the requests of the round
  limited,   \* the caller limits the time of a request
  time,      \* since the round began
  failures,  \* how often the node failed each request
  refused,   \* the requests the node refused
  answer,    \* what each request came back with
  answered   \* the round is over

fetchVars == <<asked, limited, time, failures, refused, answer, answered>>

Init ==
  /\ asked \in SUBSET Requests
  /\ limited \in BOOLEAN
  /\ time = 0
  /\ failures = [r \in Requests |-> 0]
  /\ refused = {}
  /\ answer = [r \in Requests |-> NULL]
  /\ answered = FALSE

(* The node fails a request, or refuses it for good.                       *)
Fail ==
  /\ ~answered
  /\ \E r \in asked : failures' = [failures EXCEPT ![r] = @ + 1]
  /\ UNCHANGED <<asked, limited, time, refused, answer, answered>>

Refuse ==
  /\ ~answered
  /\ \E r \in asked : refused' = refused \cup {r}
  /\ UNCHANGED <<asked, limited, time, failures, answer, answered>>

Wait ==
  /\ ~answered
  /\ time' > time
  /\ UNCHANGED <<asked, limited, failures, refused, answer, answered>>

Excused(r) ==
  failures[r] > Tries \/ r \in refused \/ (limited /\ time >= TimeLimit)

(* All requests come back in one step.                                     *)
Answer ==
  /\ ~answered
  /\ answered' = TRUE
  /\ answer' \in [Requests -> Numbers \cup {NULL}]
  /\ \A r \in asked : answer'[r] = NULL => Excused(r)
  /\ UNCHANGED <<asked, limited, time, failures, refused>>

Next == Fail \/ Refuse \/ Wait \/ Answer

Spec == Init /\ [][Next]_fetchVars
=============================================================================
