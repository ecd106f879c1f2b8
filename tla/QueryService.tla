----------------------------- MODULE QueryService -----------------------------
(***************************************************************************)
(* What the gateway promises of a query, without pools, connections or     *)
(* steps: a request is refused exactly when the user may not make it; only *)
(* a permitted request runs at its target, at most once; only a statement  *)
(* that ran is recorded, under the request's own user, target and query;   *)
(* and a request is answered with a result only when that result is in the *)
(* store.  A failure or a restart may end requests at any point of that.   *)
(***************************************************************************)
CONSTANTS
  Request,    \* query-run calls
  Ask,        \* what a call may ask: user, target and query
  Permitted,  \* the asks the configuration and the policy allow
  NoAsk

VARIABLES
  ask,      \* what each request asked
  status,   \* "new", "pending", "refused", "failed" or "ok"
  ran,      \* the requests whose statement ran at the target
  recorded  \* the stored results: [id, user, target, query]

vars == <<ask, status, ran, recorded>>

Record(r) ==
  [id |-> r, user |-> ask[r].user, target |-> ask[r].target, query |-> ask[r].query]

Init ==
  /\ ask = [r \in Request |-> NoAsk]
  /\ status = [r \in Request |-> "new"]
  /\ ran = {}
  /\ recorded = {}

Submit(r) ==
  /\ status[r] = "new"
  /\ \E a \in Ask : ask' = [ask EXCEPT ![r] = a]
  /\ status' = [status EXCEPT ![r] = "pending"]
  /\ UNCHANGED <<ran, recorded>>

Refuse(r) ==
  /\ status[r] = "pending"
  /\ ask[r] \notin Permitted
  /\ status' = [status EXCEPT ![r] = "refused"]
  /\ UNCHANGED <<ask, ran, recorded>>

Run(r) ==
  /\ status[r] = "pending"
  /\ ask[r] \in Permitted
  /\ r \notin ran
  /\ ran' = ran \cup {r}
  /\ UNCHANGED <<ask, status, recorded>>

Store(r) ==
  /\ status[r] = "pending"
  /\ r \in ran
  /\ recorded' = recorded \cup {Record(r)}
  /\ UNCHANGED <<ask, status, ran>>

Reply(r) ==
  /\ status[r] = "pending"
  /\ Record(r) \in recorded
  /\ status' = [status EXCEPT ![r] = "ok"]
  /\ UNCHANGED <<ask, ran, recorded>>

\* The requests of S end without an answer; some of them had just run, some
\* had just been recorded.
Fail(S) ==
  /\ \A r \in S : status[r] = "pending"
  /\ \E lateRun \in SUBSET {r \in S : ask[r] \in Permitted} : ran' = ran \cup lateRun
  /\ \E late \in SUBSET (S \cap ran) : recorded' = recorded \cup {Record(r) : r \in late}
  /\ status' = [r \in Request |-> IF r \in S THEN "failed" ELSE status[r]]
  /\ UNCHANGED ask

Next ==
  \/ \E r \in Request : Submit(r) \/ Refuse(r) \/ Run(r) \/ Store(r) \/ Reply(r)
  \/ \E S \in SUBSET Request : Fail(S)

Spec == Init /\ [][Next]_vars
=============================================================================
