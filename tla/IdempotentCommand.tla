--------------------------- MODULE IdempotentCommand ---------------------------
(***************************************************************************)
(* What the governed writes of both services promise of an Idempotency-Key     *)
(* (services/people-api/README.md, ADR-0014): a command takes effect in one      *)
(* step with the binding of its key and its audit event, at most once per key;    *)
(* whoever repeats it is told so, and whoever reuses the key for another command    *)
(* is refused.  An answer may be lost, and a request may be refused for reasons of   *)
(* its own.  PeopleMutation and JobAnalysisPersistence implement it.             *)
(***************************************************************************)
CONSTANTS
  Requests,
  Key,          \* of each request: its route and Idempotency-Key
  Command       \* of each request: what the semantic digest covers

VARIABLES
  bound,        \* the keys and the commands they are bound to
  effect,       \* the requests whose facts and audit event are committed
  answer        \* of each request

vars == <<bound, effect, answer>>

Init ==
  /\ bound = {} /\ effect = {}
  /\ answer \in [Requests -> {"none", "failed"}]

Give(r, outcome) == answer[r] = "none" /\ answer' = [answer EXCEPT ![r] = outcome]

Execute(r) ==
  /\ \A b \in bound : b.key # Key[r]
  /\ \E outcome \in {"effected", "failed"} : Give(r, outcome)
  /\ bound' = bound \cup {[key |-> Key[r], command |-> Command[r]]}
  /\ effect' = effect \cup {r}

Replay(r) ==
  /\ Give(r, "replayed")
  /\ [key |-> Key[r], command |-> Command[r]] \in bound
  /\ UNCHANGED <<bound, effect>>

\* Only a bound key is in conflict.
Conflict(r) ==
  /\ \E b \in bound : b.key = Key[r]
  /\ Give(r, "conflict")
  /\ UNCHANGED <<bound, effect>>

Refuse(r) ==
  /\ \E outcome \in {"refused", "failed"} : Give(r, outcome)
  /\ UNCHANGED <<bound, effect>>

Next == \E r \in Requests : Execute(r) \/ Replay(r) \/ Conflict(r) \/ Refuse(r)

Spec == Init /\ [][Next]_vars
==============================================================================
