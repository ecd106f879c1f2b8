----------------------------- MODULE QueryGateway -----------------------------
(***************************************************************************)
(* app.Service.RunQuery and getConnection: concurrent query-run calls, the *)
(* cache of connection pools they share, the target databases they run     *)
(* statements on and the store that keeps the results.                     *)
(*                                                                         *)
(* A request is one call of query-run.v1; its goroutine moves through the  *)
(* values of pc.  The pool a request creates carries the request's name:   *)
(* a call creates at most one.  Pools, connections and goroutines live in  *)
(* the process and end with it; statements that ran and stored results     *)
(* live in the databases and stay.                                         *)
(***************************************************************************)
EXTENDS Validator, FiniteSets

CONSTANTS
  Request,        \* query-run calls, numbered as they arrive; also names the pool
                  \* that the call creates
  User,           \* users, with their role: the subjects the policy sees
  Target,         \* the configured target ids
  TargetName,     \* the target ids a call may name, configured or not
  Query,          \* query texts
  Parsable,       \* the texts the parser makes vectors of
  Vectors,        \* the vectors of a parsable text
  Config,         \* target -> [default, tables, useSSL, maxPoolSize]; nothing reads
                  \* the last
  TargetGrants,   \* <<user, target>> the policy answers true for
  QueryGrants,    \* <<user, target, op, table>> the policy answers true for
  Asked,          \* the asks clients make
  Blank,          \* an empty target id or query
  MaxConns,       \* pgxpool's own limit, which the DSN leaves at its default
  MaxCrashes,     \* bound: how often the process dies
  NoPool, NoAsk

Ask == [user : User, target : TargetName, query : Query]

ASSUME RequestAssumption ==
  /\ Request \subseteq Nat /\ IsFiniteSet(Request) /\ NoPool \notin Request
  /\ Asked \subseteq Ask /\ NoAsk \notin Ask

ASSUME BlankAssumption == Blank \notin Target /\ Blank \notin Parsable

ASSUME ConfigAssumption == \A t \in Target : IsSchema(Config[t])

ASSUME BoundAssumption == MaxConns \in Nat \ {0} /\ MaxCrashes \in Nat

VARIABLES
  pc,        \* where each request's goroutine is
  ask,       \* what each request asked
  outcome,   \* how each request ended
  conns,     \* Service.conns: the cached pool of each target
  pools,     \* the pools created and not closed
  using,     \* the pool each request got from getConnection
  ran,       \* requests whose statement ran at the target
  recorded,  \* rows of query_results
  crashes

vars == <<pc, ask, outcome, conns, pools, using, ran, recorded, crashes>>
poolVars == <<conns, pools, using>>

Steps == {"idle", "preflight", "lookup", "create", "store", "acquire", "executing",
          "collecting", "inserting", "answering", "done"}
Refusals == {"bad_input", "not_found", "bad_query", "bad_schema", "denied"}
Outcomes == {"none", "ok", "failed", "lost"} \cup Refusals

InFlight(r) == pc[r] \notin {"idle", "done"}

Goto(r, step) == pc' = [pc EXCEPT ![r] = step]

End(r, how) == Goto(r, "done") /\ outcome' = [outcome EXCEPT ![r] = how]

\* A row that forgets its target.
Record_NoTarget(r) == [id |-> r, user |-> ask[r].user, query |-> ask[r].query]

Record(r) ==
  [id |-> r, user |-> ask[r].user, target |-> ask[r].target, query |-> ask[r].query]

-----------------------------------------------------------------------------
(* The checks before a statement may run, on an ask a. *)

HasInput(a) == a.target # Blank /\ a.query # Blank

\* A target that is configured is found, whatever the policy says of it.
SeesTarget_Configured(a) == a.target \in Target

\* getTargetByID: configured, and AllowTarget.
SeesTarget(a) == a.target \in Target /\ <<a.user, a.target>> \in TargetGrants

Parses(a) == a.query \in Parsable

ValidSchema(a) == FitsSchema(Config[a.target], Vectors[a.query])

\* haveAccess content with one allowed vector.
HasAccess_Any(a) ==
  \E v \in Vectors[a.query] :
    <<a.user, a.target, v.op, CanonicalTable(Config[a.target], v.tbl)>> \in QueryGrants

\* haveAccess asking about the name as the statement spells it.
HasAccess_AsWritten(a) ==
  \A v \in Vectors[a.query] : <<a.user, a.target, v.op, v.tbl>> \in QueryGrants

HasAccess(a) ==
  \A v \in Vectors[a.query] :
    <<a.user, a.target, v.op, CanonicalTable(Config[a.target], v.tbl)>> \in QueryGrants

\* What the configuration and the policy allow, in terms of the tables the
\* target database will read the statement's names as.
IsPermitted(a) ==
  /\ a.target \in Target /\ a.query \in Parsable
  /\ <<a.user, a.target>> \in TargetGrants
  /\ \A v \in Vectors[a.query] :
       /\ Entries(Config[a.target], v.tbl) # {}
       /\ v.cols \subseteq OpenColumns(Config[a.target], v.tbl)
       /\ <<a.user, a.target, v.op, Resolved(Config[a.target], v.tbl)>> \in QueryGrants

-----------------------------------------------------------------------------
(* Connection pools. *)

\* A pool that keeps a request's connection until its result is stored.
Holders_UntilEnd(p) ==
  {r \in Request : using[r] = p /\ pc[r] \in {"executing", "collecting", "done"}}

\* The requests that hold a connection of pool p.
Holders(p) == {r \in Request : using[r] = p /\ pc[r] \in {"executing", "collecting"}}

\* pgx's sslmode values, and the one the DSN of a target names.
PgxSSLModes == {"disable", "allow", "prefer", "require", "verify-ca", "verify-full"}
SSLMode(t) == IF Config[t].useSSL THEN "enable" ELSE "disable"

Init ==
  /\ pc = [r \in Request |-> "idle"]
  /\ ask = [r \in Request |-> NoAsk]
  /\ outcome = [r \in Request |-> "none"]
  /\ conns = [t \in Target |-> NoPool]
  /\ pools = {}
  /\ using = [r \in Request |-> NoPool]
  /\ ran = {}
  /\ recorded = {}
  /\ crashes = 0

Arrive(r) ==
  /\ pc[r] = "idle" /\ \A q \in Request : q < r => pc[q] # "idle"
  /\ \E a \in Asked : ask' = [ask EXCEPT ![r] = a]
  /\ Goto(r, "preflight")
  /\ UNCHANGED <<outcome, poolVars, ran, recorded, crashes>>

Refuse(r, how) ==
  /\ End(r, how)
  /\ UNCHANGED <<ask, poolVars, ran, recorded, crashes>>

\* The early returns of lrpcQueryRun and RunQuery, in their order, and the
\* way past them.  They read only the request and the configuration.
Preflight(r) ==
  /\ pc[r] = "preflight"
  /\ LET a == ask[r] IN
     \/ ~ HasInput(a) /\ Refuse(r, "bad_input")
     \/ HasInput(a) /\ ~ SeesTarget(a) /\ Refuse(r, "not_found")
     \/ HasInput(a) /\ SeesTarget(a) /\ ~ Parses(a) /\ Refuse(r, "bad_query")
     \/ HasInput(a) /\ SeesTarget(a) /\ Parses(a) /\ ~ ValidSchema(a)
          /\ Refuse(r, "bad_schema")
     \/ HasInput(a) /\ SeesTarget(a) /\ Parses(a) /\ ValidSchema(a)
          /\ ~ HasAccess(a) /\ Refuse(r, "denied")
     \/ /\ HasInput(a) /\ SeesTarget(a) /\ Parses(a) /\ ValidSchema(a) /\ HasAccess(a)
        /\ Goto(r, "lookup")
        /\ UNCHANGED <<ask, outcome, poolVars, ran, recorded, crashes>>

-----------------------------------------------------------------------------
(* getConnection: read the cache under the read lock, make a pool outside  *)
(* any lock, put it in the cache under the write lock.                     *)

\* A lookup that always makes a pool.
Lookup_NeverHits(r) ==
  /\ pc[r] = "lookup"
  /\ Goto(r, "create")
  /\ UNCHANGED <<ask, outcome, poolVars, ran, recorded, crashes>>

Lookup(r) ==
  /\ pc[r] = "lookup"
  /\ LET cached == conns[ask[r].target] IN
     \/ /\ cached # NoPool
        /\ using' = [using EXCEPT ![r] = cached]
        /\ Goto(r, "acquire")
     \/ /\ cached = NoPool
        /\ Goto(r, "create")
        /\ UNCHANGED using
  /\ UNCHANGED <<ask, outcome, conns, pools, ran, recorded, crashes>>

\* pgxpool.New parses the DSN; it opens no connection yet.
CreatePool(r) ==
  /\ pc[r] = "create"
  /\ SSLMode(ask[r].target) \in PgxSSLModes
  /\ pools' = pools \cup {r}
  /\ using' = [using EXCEPT ![r] = r]
  /\ Goto(r, "store")
  /\ UNCHANGED <<ask, outcome, conns, ran, recorded, crashes>>

CreatePoolFails(r) ==
  /\ pc[r] = "create"
  /\ SSLMode(ask[r].target) \notin PgxSSLModes
  /\ End(r, "failed")
  /\ UNCHANGED <<ask, poolVars, ran, recorded, crashes>>

\* A store that closes the pool it replaces.
StorePool_ClosesOld(r) ==
  /\ pc[r] = "store"
  /\ conns' = [conns EXCEPT ![ask[r].target] = using[r]]
  /\ pools' = pools \ {conns[ask[r].target]}
  /\ Goto(r, "acquire")
  /\ UNCHANGED <<ask, outcome, using, ran, recorded, crashes>>

\* The cached pool is replaced without a second look; a pool it replaces
\* stays open and is in no map any more.
StorePool(r) ==
  /\ pc[r] = "store"
  /\ conns' = [conns EXCEPT ![ask[r].target] = using[r]]
  /\ Goto(r, "acquire")
  /\ UNCHANGED <<ask, outcome, pools, using, ran, recorded, crashes>>

-----------------------------------------------------------------------------
(* conn.Query and pgx.CollectRows at the target, then the result store.     *)

\* The pool hands out a connection, an idle one or a new one, below its limit.
Acquire(r) ==
  /\ pc[r] = "acquire"
  /\ Cardinality(Holders(using[r])) < MaxConns
  /\ Goto(r, "executing")
  /\ UNCHANGED <<ask, outcome, poolVars, ran, recorded, crashes>>

\* The error of the query is not returned.
AcquireFails_Continues(r) ==
  /\ pc[r] = "acquire"
  /\ Goto(r, "inserting")
  /\ UNCHANGED <<ask, outcome, poolVars, ran, recorded, crashes>>

\* The target refuses a connection, or the caller's context ends the wait.
AcquireFails(r) ==
  /\ pc[r] = "acquire"
  /\ End(r, "failed")
  /\ UNCHANGED <<ask, poolVars, ran, recorded, crashes>>

\* The statement takes effect at the target.
Execute(r) ==
  /\ pc[r] = "executing"
  /\ ran' = ran \cup {r}
  /\ Goto(r, "collecting")
  /\ UNCHANGED <<ask, outcome, poolVars, recorded, crashes>>

Collect(r) ==
  /\ pc[r] = "collecting"
  /\ Goto(r, "inserting")
  /\ UNCHANGED <<ask, outcome, poolVars, ran, recorded, crashes>>

\* Query or CollectRows returns an error, before or after the statement took
\* effect; the connection goes back to the pool or, when broken, is dropped.
QueryFails(r) ==
  /\ pc[r] \in {"executing", "collecting"}
  /\ End(r, "failed")
  /\ UNCHANGED <<ask, poolVars, ran, recorded, crashes>>

Insert(r) ==
  /\ pc[r] = "inserting"
  /\ recorded' = recorded \cup {Record(r)}
  /\ Goto(r, "answering")
  /\ UNCHANGED <<ask, outcome, poolVars, ran, crashes>>

\* The error of InsertQueryResults is not returned.
InsertFails_Continues(r) ==
  /\ pc[r] = "inserting"
  /\ Goto(r, "answering")
  /\ UNCHANGED <<ask, outcome, poolVars, ran, recorded, crashes>>

\* InsertQueryResults returns an error: nothing stored, or stored and the
\* acknowledgement lost.
InsertFails(r) ==
  /\ pc[r] = "inserting"
  /\ \/ UNCHANGED recorded
     \/ recorded' = recorded \cup {Record(r)}
  /\ End(r, "failed")
  /\ UNCHANGED <<ask, poolVars, ran, crashes>>

Answer(r) ==
  /\ pc[r] = "answering"
  /\ End(r, "ok")
  /\ UNCHANGED <<ask, poolVars, ran, recorded, crashes>>

\* The client has gone: nobody sees the answer.
AnswerLost(r) ==
  /\ pc[r] = "answering"
  /\ End(r, "lost")
  /\ UNCHANGED <<ask, poolVars, ran, recorded, crashes>>

\* The process dies and is started again: its calls, cache and pools are gone.
\* A statement or an insert already sent may still take effect.
Crash ==
  /\ crashes < MaxCrashes
  /\ \E r \in Request : InFlight(r)
  /\ \E late \in SUBSET {r \in Request : pc[r] = "executing"} : ran' = ran \cup late
  /\ \E late \in SUBSET {r \in Request : pc[r] = "inserting"} :
       recorded' = recorded \cup {Record(r) : r \in late}
  /\ pc' = [r \in Request |-> IF InFlight(r) THEN "done" ELSE pc[r]]
  /\ outcome' = [r \in Request |-> IF InFlight(r) THEN "lost" ELSE outcome[r]]
  /\ conns' = [t \in Target |-> NoPool]
  /\ pools' = {}
  /\ using' = [r \in Request |-> NoPool]
  /\ crashes' = crashes + 1
  /\ UNCHANGED ask

\* What a goroutine does when nothing goes wrong around it.
Progress(r) ==
  \/ Preflight(r)
  \/ Lookup(r) \/ CreatePool(r) \/ CreatePoolFails(r) \/ StorePool(r)
  \/ Acquire(r) \/ Execute(r) \/ Collect(r)
  \/ Insert(r) \/ Answer(r)

Failure(r) ==
  AcquireFails(r) \/ QueryFails(r) \/ InsertFails(r) \/ AnswerLost(r)

Next ==
  \/ \E r \in Request : Arrive(r) \/ Progress(r) \/ Failure(r)
  \/ Crash

Spec == Init /\ [][Next]_vars

\* The Go scheduler runs every goroutine, and the target and the store reply.
FairSpec == Spec /\ \A r \in Request : WF_vars(Progress(r))

-----------------------------------------------------------------------------
(* Properties *)

\* Every variable has the type the code gives it.
TypeOK ==
  /\ pc \in [Request -> Steps]
  /\ ask \in [Request -> Ask \cup {NoAsk}]
  /\ outcome \in [Request -> Outcomes]
  /\ conns \in [Target -> Request \cup {NoPool}]
  /\ pools \in SUBSET Request
  /\ using \in [Request -> Request \cup {NoPool}]
  /\ ran \in SUBSET Request
  /\ recorded \in SUBSET [id : Request, user : User, target : TargetName, query : Query]
  /\ crashes \in 0..MaxCrashes

\* A statement runs at a target only when the configuration and the policy
\* allow each of its tables under the name the target database gives it.
OnlyPermittedRuns == \A r \in ran : IsPermitted(ask[r])

\* A refused request leaves nothing behind: no pool, no effect at the target
\* and no stored result.
RefusalLeavesNoTrace ==
  \A r \in Request : outcome[r] \in Refusals =>
    /\ ~ IsPermitted(ask[r])
    /\ r \notin ran /\ r \notin pools
    /\ \A x \in recorded : x.id # r

\* Every stored result is of a statement that ran, and carries the user, the
\* target and the query of its own request.
RecordsAreTrue == \A x \in recorded : x.id \in ran /\ x = Record(x.id)

\* A request answered with a result id has that result in the store, across
\* restarts too.
AnswersAreBacked == \A r \in Request : outcome[r] = "ok" => Record(r) \in recorded

\* The pool a request works with, and the one the cache hands out, is open
\* and leads to the right target, however the lookups and stores interleave.
PoolsServeTheirTarget ==
  /\ \A r \in Request : pc[r] \in {"store", "acquire", "executing", "collecting"} =>
       using[r] \in pools /\ ask[using[r]].target = ask[r].target
  /\ \A t \in Target : conns[t] # NoPool =>
       conns[t] \in pools /\ ask[conns[t]].target = t

\* Once a target has a cached pool, its pools grow no further than the calls
\* that had already missed the cache: no later call adds one.
Misses(t) == {r \in Request : pc[r] = "create" /\ ask[r].target = t}
PoolsOf(t) == {p \in pools : ask[p].target = t}
NoPoolAfterTheRace ==
  [][ \A t \in Target :
        conns[t] # NoPool => PoolsOf(t)' \cup Misses(t)' \subseteq PoolsOf(t) \cup Misses(t)
    ]_vars

\* Every call that arrives returns: no call waits for a connection for ever.
EveryCallReturns == \A r \in Request : InFlight(r) ~> pc[r] = "done"

-----------------------------------------------------------------------------
(* The promise of QueryService, met by this module. *)

Status(r) ==
  IF pc[r] = "idle" THEN "new"
  ELSE IF pc[r] # "done" THEN "pending"
  ELSE IF outcome[r] \in Refusals THEN "refused"
  ELSE IF outcome[r] = "ok" THEN "ok" ELSE "failed"

Promise == INSTANCE QueryService WITH
  Permitted <- {a \in Ask : IsPermitted(a)},
  status <- [r \in Request |-> Status(r)]

ImplementsQueryService == Promise!Spec
=============================================================================
