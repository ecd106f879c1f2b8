-------------------------- MODULE QueryGatewayProofs --------------------------
(***************************************************************************)
(* Proofs about Validator and QueryGateway, for every set of requests,     *)
(* configuration, policy and pool limit.                                   *)
(***************************************************************************)
EXTENDS QueryGateway, FiniteSetTheorems, TLAPS

-----------------------------------------------------------------------------
(* The validator: its schema lookup agrees with the way the target database *)
(* reads a name, for every schema Config.Validate accepts.                  *)

\* A non-empty set of indices has a first one.
LEMMA FirstExists ==
  ASSUME NEW S \in SUBSET Nat, S # {}
  PROVE  \E i \in S : \A j \in S : i <= j
<1> DEFINE T == {0..i : i \in S}
<1>1. T \subseteq FiniteSubsetsOf(Nat) /\ T # {}
  <2>1. \A i \in S : 0..i \subseteq Nat /\ IsFiniteSet(0..i)
    BY FS_Interval
  <2> QED
    BY <2>1 DEF FiniteSubsetsOf
<1>2. PICK x \in T : \A y \in T : <<y, x>> \notin StrictSubsetOrdering(Nat)
  BY <1>1, FS_StrictSubsetOrderingWellFounded, WFMin
<1>3. PICK i \in S : x = 0..i
  OBVIOUS
<1>4. ASSUME NEW j \in S, j < i
      PROVE  FALSE
  <2>1. 0..j \subseteq 0..i /\ i \in 0..i /\ i \notin 0..j
    BY <1>4
  <2>2. <<0..j, x>> \in StrictSubsetOrdering(Nat)
    BY <2>1, <1>3 DEF StrictSubsetOrdering
  <2> QED
    BY <2>2, <1>2
<1> QED
  BY <1>4

\* Looking a name up as written, and under the default schema when it has
\* none, finds the configured entries of the table the name means.
LEMMA LookupIsResolution ==
  ASSUME NEW s, NEW name, IsSchema(s)
  PROVE  Matching(s, name) = Entries(s, name)
BY DEF IsSchema, Matching, Entries, LookupNames, Resolved, Unqualified

\* GetTable returns an entry of the table that the name means.
LEMMA GetTableFindsEntry ==
  ASSUME NEW s, NEW name, IsSchema(s), Known(s, name)
  PROVE  /\ GetTable(s, name).table = Resolved(s, name)
         /\ GetTable(s, name).fields = OpenColumns(s, name)
<1> DEFINE E == Entries(s, name)
           first == CHOOSE i \in E : \A j \in E : i <= j
<1>1. Matching(s, name) = E
  BY LookupIsResolution
<1>2. E \in SUBSET Nat /\ E # {}
  BY <1>1 DEF Known, IsSchema, Entries
<1>3. \E i \in E : \A j \in E : i <= j
  BY <1>2, FirstExists
<1>4. first \in E
  BY <1>3
<1>5. s.tables[first].table = Resolved(s, name)
  BY <1>4 DEF Entries
<1>6. GetTable(s, name) = s.tables[first]
  BY <1>1 DEF GetTable
<1>7. OpenColumns(s, name) = s.tables[first].fields
  BY DEF OpenColumns
<1> QED
  BY <1>5, <1>6, <1>7

\* A known name and the table it means: validator.CanonicalTable hands the
\* policy the very name under which the target database finds the table.
THEOREM CanonicalIsResolved ==
  ASSUME NEW s, NEW name, IsSchema(s), Known(s, name)
  PROVE  CanonicalTable(s, name) = Resolved(s, name)
BY GetTableFindsEntry DEF CanonicalTable

\* The schema check passes a list of vectors exactly when every table is
\* configured and every column is open in its first configured entry.
THEOREM FitsSchemaMeans ==
  ASSUME NEW s, NEW vectors, IsSchema(s)
  PROVE  FitsSchema(s, vectors) <=>
           \A v \in vectors : /\ Entries(s, v.tbl) # {}
                              /\ v.cols \subseteq OpenColumns(s, v.tbl)
<1>1. \A v \in vectors : Known(s, v.tbl) <=> Entries(s, v.tbl) # {}
  BY LookupIsResolution DEF Known
<1>2. \A v \in vectors : Known(s, v.tbl) => GetTable(s, v.tbl).fields = OpenColumns(s, v.tbl)
  BY GetTableFindsEntry
<1> QED
  BY <1>1, <1>2 DEF FitsSchema

-----------------------------------------------------------------------------
(* The inductive invariant.  The properties do not carry themselves: that  *)
(* only permitted statements run needs to know what the checks established *)
(* for every request past them, and that records are true needs to know    *)
(* which steps a request has taken once its statement has run.             *)

Admitted == {"lookup", "create", "store", "acquire", "executing", "collecting",
             "inserting", "answering"}
AfterRun == {"collecting", "inserting", "answering"}

AskInv == \A r \in Request : pc[r] # "idle" => ask[r] \in Ask

AdmitInv == \A r \in Request : pc[r] \in Admitted => IsPermitted(ask[r])

RanInv ==
  /\ \A r \in ran : IsPermitted(ask[r]) /\ pc[r] \in AfterRun \cup {"done"}
  /\ \A r \in Request : pc[r] \in AfterRun => r \in ran

RecordInv ==
  /\ \A x \in recorded : /\ x.id \in ran /\ x = Record(x.id)
                         /\ pc[x.id] \in {"answering", "done"}
  /\ \A r \in Request : pc[r] = "answering" \/ outcome[r] = "ok" => Record(r) \in recorded

OutcomeInv ==
  \A r \in Request :
    /\ outcome[r] = "none" <=> pc[r] # "done"
    /\ outcome[r] \in Refusals => ~ IsPermitted(ask[r])

PoolInv ==
  /\ PoolsServeTheirTarget
  /\ \A p \in pools : pc[p] # "idle" /\ IsPermitted(ask[p])

Inv ==
  TypeOK /\ AskInv /\ AdmitInv /\ RanInv /\ RecordInv /\ OutcomeInv /\ PoolInv

-----------------------------------------------------------------------------

\* The checks of RunQuery pass an ask exactly when it is permitted.
THEOREM ChecksDecidePermission ==
  ASSUME NEW a \in Ask, SeesTarget(a), Parses(a)
  PROVE  ValidSchema(a) /\ HasAccess(a) <=> IsPermitted(a)
<1> DEFINE s == Config[a.target]
           V == Vectors[a.query]
<1>1. IsSchema(s) /\ a.target \in Target /\ a.query \in Parsable
      /\ <<a.user, a.target>> \in TargetGrants
  BY ConfigAssumption DEF SeesTarget, Parses
<1>2. FitsSchema(s, V) <=> \A v \in V : /\ Entries(s, v.tbl) # {}
                                         /\ v.cols \subseteq OpenColumns(s, v.tbl)
  BY <1>1, FitsSchemaMeans
<1>3. ASSUME NEW v \in V, Entries(s, v.tbl) # {}
      PROVE  CanonicalTable(s, v.tbl) = Resolved(s, v.tbl)
  BY <1>1, <1>3, LookupIsResolution, CanonicalIsResolved DEF Known
<1>4. FitsSchema(s, V) => \A v \in V : CanonicalTable(s, v.tbl) = Resolved(s, v.tbl)
  BY <1>2, <1>3
<1> QED
  BY <1>1, <1>2, <1>4 DEF ValidSchema, HasAccess, IsPermitted

\* A permitted ask names a configured target.
LEMMA PermittedTarget ==
  ASSUME NEW a, IsPermitted(a)
  PROVE  a.target \in Target
BY DEF IsPermitted

\* What Preflight does to the state: it refuses an ask that is not permitted,
\* or lets a permitted one on.
LEMMA PreflightDecides ==
  ASSUME NEW r \in Request, ask[r] \in Ask, Preflight(r)
  PROVE  \/ \E how \in Refusals : Refuse(r, how) /\ ~ IsPermitted(ask[r])
         \/ /\ IsPermitted(ask[r]) /\ Goto(r, "lookup")
            /\ UNCHANGED <<ask, outcome, poolVars, ran, recorded, crashes>>
<1> DEFINE a == ask[r]
<1>1. ~ HasInput(a) \/ ~ SeesTarget(a) \/ ~ Parses(a) => ~ IsPermitted(a)
  BY BlankAssumption DEF HasInput, SeesTarget, Parses, IsPermitted
<1>2. SeesTarget(a) /\ Parses(a) => (ValidSchema(a) /\ HasAccess(a) <=> IsPermitted(a))
  BY ChecksDecidePermission
<1> QED
  BY <1>1, <1>2 DEF Preflight, Refusals

-----------------------------------------------------------------------------
(* The invariant is inductive. *)

\* The initial states satisfy the inductive invariant.
LEMMA InitInv == Init => Inv
BY RequestAssumption, BoundAssumption
   DEF Init, Inv, TypeOK, AskInv, AdmitInv, RanInv, RecordInv, OutcomeInv, PoolInv,
       PoolsServeTheirTarget, Steps, Outcomes, Refusals, Admitted, AfterRun

\* A call that moves on without touching the pools keeps what is known of them.
LEMMA PoolsKept ==
  ASSUME TypeOK, PoolInv, NEW r \in Request, NEW step \in Steps \ {"idle"},
         Goto(r, step), UNCHANGED <<ask, poolVars>>,
         step \in {"store", "acquire", "executing", "collecting"} =>
           pc[r] \in {"store", "acquire", "executing", "collecting"}
  PROVE  PoolInv'
<1>1. pc \in [Request -> Steps] /\ pools \subseteq Request
  BY DEF TypeOK
<1>2. UNCHANGED <<ask, conns, pools, using>>
  BY DEF poolVars
<1>3. \A q \in Request : pc'[q] = IF q = r THEN step ELSE pc[q]
  BY <1>1 DEF Goto
<1>4. PoolsServeTheirTarget'
  BY <1>2, <1>3 DEF PoolInv, PoolsServeTheirTarget
<1>5. (\A p \in pools : pc[p] # "idle" /\ IsPermitted(ask[p]))'
  BY <1>1, <1>2, <1>3 DEF PoolInv
<1> QED
  BY <1>4, <1>5 DEF PoolInv

\* A call that stores no row and is not answered keeps what is known of the
\* rows.
LEMMA RecordsKept ==
  ASSUME TypeOK, RecordInv, UNCHANGED <<ask, recorded>>, ran \subseteq ran',
         \A q \in Request : pc[q] \in {"answering", "done"} => pc'[q] \in {"answering", "done"},
         \A q \in Request : pc'[q] = "answering" \/ outcome'[q] = "ok" =>
                             pc[q] = "answering" \/ outcome[q] = "ok"
  PROVE  RecordInv'
<1>1. \A q \in Request : Record(q)' = Record(q)
  BY DEF Record
<1>2. \A x \in recorded : x.id \in Request
  BY DEF TypeOK
<1>3. (\A x \in recorded : /\ x.id \in ran /\ x = Record(x.id)
                            /\ pc[x.id] \in {"answering", "done"})'
  BY <1>1, <1>2 DEF RecordInv
<1>4. (\A q \in Request : pc[q] = "answering" \/ outcome[q] = "ok" => Record(q) \in recorded)'
  BY <1>1 DEF RecordInv
<1> QED
  BY <1>3, <1>4 DEF RecordInv

\* Every step keeps it.
LEMMA NextInv ==
  ASSUME Inv, [Next]_vars
  PROVE  Inv'
<1>p. ASSUME NEW r \in Request,
             \/ Acquire(r) \/ Execute(r) \/ Collect(r) \/ Insert(r) \/ Answer(r) \/ Failure(r)
      PROVE  PoolInv'
  <2>1. TypeOK /\ PoolInv
    BY DEF Inv
  <2>2. PICK step \in {"executing", "collecting", "inserting", "answering", "done"} :
          /\ Goto(r, step) /\ UNCHANGED <<ask, poolVars>>
          /\ step \in {"executing", "collecting"} => pc[r] \in {"acquire", "executing"}
    BY <1>p DEF Acquire, Execute, Collect, Insert, Answer, Failure, AcquireFails, QueryFails,
                InsertFails, AnswerLost, End
  <2> QED
    BY <2>1, <2>2, PoolsKept DEF Steps
<1>0. TypeOK /\ AskInv /\ AdmitInv /\ RanInv /\ RecordInv /\ OutcomeInv /\ PoolInv
  BY DEF Inv
<1>b. \A r \in Request : pc[r] \in Admitted => ask[r].target \in Target
  BY <1>0, PermittedTarget DEF AdmitInv
<1> USE RequestAssumption, BoundAssumption
    DEF TypeOK, Steps, Outcomes, Refusals, Admitted, AfterRun, Goto, End, poolVars
<1>1. ASSUME NEW r \in Request, Arrive(r) PROVE Inv'
  <2>1. TypeOK' /\ AskInv'
    BY <1>0, <1>1 DEF Arrive, AskInv, Ask
  <2>2. AdmitInv'
    BY <1>0, <1>1 DEF Arrive, AdmitInv, Ask
  <2>3. RanInv'
    BY <1>0, <1>1 DEF Arrive, AdmitInv, RanInv, Ask
  <2>4. RecordInv'
    BY <1>0, <1>1 DEF Arrive, RanInv, RecordInv, Record
  <2>5. OutcomeInv'
    BY <1>0, <1>1 DEF Arrive, AdmitInv, OutcomeInv, Ask
  <2>6. PoolInv'
    BY <1>0, <1>1 DEF Arrive, AskInv, AdmitInv, PoolInv, PoolsServeTheirTarget, Ask
  <2> QED
    BY <2>1, <2>2, <2>3, <2>4, <2>5, <2>6 DEF Inv
<1>2. ASSUME NEW r \in Request, Preflight(r) PROVE Inv'
  <2>0. pc[r] = "preflight" /\ ask[r] \in Ask
    BY <1>0, <1>2 DEF Preflight, AskInv
  <2>a. CASE \E how \in Refusals : Refuse(r, how) /\ ~ IsPermitted(ask[r])
    <3>1. TypeOK' /\ AskInv' /\ AdmitInv'
      BY <1>0, <2>0, <2>a DEF Refuse, AskInv, AdmitInv
    <3>2. RanInv' /\ OutcomeInv'
      BY <1>0, <2>0, <2>a DEF Refuse, RanInv, OutcomeInv
    <3>3. RecordInv'
      BY <1>0, <2>0, <2>a, RecordsKept DEF Refuse
    <3>4. PoolInv'
      BY <1>0, <2>0, <2>a DEF Refuse, PoolInv, PoolsServeTheirTarget
    <3> QED
      BY <3>1, <3>2, <3>3, <3>4 DEF Inv
  <2>b. CASE /\ IsPermitted(ask[r]) /\ Goto(r, "lookup")
             /\ UNCHANGED <<ask, outcome, poolVars, ran, recorded, crashes>>
    <3>1. TypeOK' /\ AskInv' /\ AdmitInv'
      BY <1>0, <2>0, <2>b DEF AskInv, AdmitInv
    <3>2. RanInv' /\ OutcomeInv'
      BY <1>0, <2>0, <2>b DEF RanInv, OutcomeInv
    <3>3. RecordInv'
      BY <1>0, <2>0, <2>b, RecordsKept
    <3>4. PoolInv'
      BY <1>0, <2>0, <2>b DEF PoolInv, PoolsServeTheirTarget
    <3> QED
      BY <3>1, <3>2, <3>3, <3>4 DEF Inv
  <2> QED
    BY <1>2, <2>0, <2>a, <2>b, PreflightDecides
<1>3. ASSUME NEW r \in Request, Lookup(r) PROVE Inv'
  <2>1. TypeOK' /\ AskInv'
    BY <1>0, <1>b, <1>3 DEF Lookup, AskInv
  <2>2. AdmitInv'
    BY <1>0, <1>b, <1>3 DEF Lookup, AdmitInv
  <2>3. RanInv'
    BY <1>0, <1>b, <1>3 DEF Lookup, AdmitInv, RanInv
  <2>4. RecordInv'
    BY <1>0, <1>3, RecordsKept DEF Lookup
  <2>5. OutcomeInv'
    BY <1>0, <1>b, <1>3 DEF Lookup, AdmitInv, OutcomeInv
  <2>6. PoolInv'
    BY <1>0, <1>b, <1>3 DEF Lookup, AskInv, AdmitInv, PoolInv, PoolsServeTheirTarget
  <2> QED
    BY <2>1, <2>2, <2>3, <2>4, <2>5, <2>6 DEF Inv
<1>4. ASSUME NEW r \in Request, CreatePool(r) PROVE Inv'
  <2>1. TypeOK' /\ AskInv'
    BY <1>0, <1>4 DEF CreatePool, AskInv
  <2>2. AdmitInv'
    BY <1>0, <1>4 DEF CreatePool, AdmitInv
  <2>3. RanInv'
    BY <1>0, <1>4 DEF CreatePool, AdmitInv, RanInv
  <2>4. RecordInv'
    BY <1>0, <1>4, RecordsKept DEF CreatePool
  <2>5. OutcomeInv'
    BY <1>0, <1>4 DEF CreatePool, AdmitInv, OutcomeInv
  <2>6. PoolInv'
    BY <1>0, <1>4 DEF CreatePool, AskInv, AdmitInv, PoolInv, PoolsServeTheirTarget
  <2> QED
    BY <2>1, <2>2, <2>3, <2>4, <2>5, <2>6 DEF Inv
<1>5. ASSUME NEW r \in Request, CreatePoolFails(r) PROVE Inv'
  <2>1. TypeOK' /\ AskInv'
    BY <1>0, <1>5 DEF CreatePoolFails, AskInv
  <2>2. AdmitInv'
    BY <1>0, <1>5 DEF CreatePoolFails, AdmitInv
  <2>3. RanInv'
    BY <1>0, <1>5 DEF CreatePoolFails, AdmitInv, RanInv
  <2>4. RecordInv'
    BY <1>0, <1>5, RecordsKept DEF CreatePoolFails
  <2>5. OutcomeInv'
    BY <1>0, <1>5 DEF CreatePoolFails, AdmitInv, OutcomeInv
  <2>6. PoolInv'
    BY <1>0, <1>5 DEF CreatePoolFails, AskInv, AdmitInv, PoolInv, PoolsServeTheirTarget
  <2> QED
    BY <2>1, <2>2, <2>3, <2>4, <2>5, <2>6 DEF Inv
<1>6. ASSUME NEW r \in Request, StorePool(r) PROVE Inv'
  <2>1. TypeOK' /\ AskInv'
    BY <1>0, <1>b, <1>6 DEF StorePool, AskInv
  <2>2. AdmitInv'
    BY <1>0, <1>b, <1>6 DEF StorePool, AdmitInv
  <2>3. RanInv'
    BY <1>0, <1>b, <1>6 DEF StorePool, AdmitInv, RanInv
  <2>4. RecordInv'
    BY <1>0, <1>6, RecordsKept DEF StorePool
  <2>5. OutcomeInv'
    BY <1>0, <1>b, <1>6 DEF StorePool, AdmitInv, OutcomeInv
  <2>6. PoolInv'
    BY <1>0, <1>b, <1>6 DEF StorePool, AskInv, AdmitInv, PoolInv, PoolsServeTheirTarget
  <2> QED
    BY <2>1, <2>2, <2>3, <2>4, <2>5, <2>6 DEF Inv
<1>7. ASSUME NEW r \in Request, Acquire(r) PROVE Inv'
  <2>1. TypeOK' /\ AskInv'
    BY <1>0, <1>7 DEF Acquire, AskInv
  <2>2. AdmitInv'
    BY <1>0, <1>7 DEF Acquire, AdmitInv
  <2>3. RanInv'
    BY <1>0, <1>7 DEF Acquire, AdmitInv, RanInv
  <2>4. RecordInv'
    BY <1>0, <1>7, RecordsKept DEF Acquire
  <2>5. OutcomeInv'
    BY <1>0, <1>7 DEF Acquire, AdmitInv, OutcomeInv
  <2>6. PoolInv'
    BY <1>p, <1>7
  <2> QED
    BY <2>1, <2>2, <2>3, <2>4, <2>5, <2>6 DEF Inv
<1>8. ASSUME NEW r \in Request, Execute(r) PROVE Inv'
  <2>1. TypeOK' /\ AskInv'
    BY <1>0, <1>8 DEF Execute, AskInv
  <2>2. AdmitInv'
    BY <1>0, <1>8 DEF Execute, AdmitInv
  <2>3. RanInv'
    BY <1>0, <1>8 DEF Execute, AdmitInv, RanInv
  <2>4. RecordInv'
    BY <1>0, <1>8, RecordsKept DEF Execute
  <2>5. OutcomeInv'
    BY <1>0, <1>8 DEF Execute, AdmitInv, OutcomeInv
  <2>6. PoolInv'
    BY <1>p, <1>8
  <2> QED
    BY <2>1, <2>2, <2>3, <2>4, <2>5, <2>6 DEF Inv
<1>9. ASSUME NEW r \in Request, Collect(r) PROVE Inv'
  <2>1. TypeOK' /\ AskInv'
    BY <1>0, <1>9 DEF Collect, AskInv
  <2>2. AdmitInv'
    BY <1>0, <1>9 DEF Collect, AdmitInv
  <2>3. RanInv'
    BY <1>0, <1>9 DEF Collect, AdmitInv, RanInv
  <2>4. RecordInv'
    BY <1>0, <1>9, RecordsKept DEF Collect
  <2>5. OutcomeInv'
    BY <1>0, <1>9 DEF Collect, AdmitInv, OutcomeInv
  <2>6. PoolInv'
    BY <1>p, <1>9
  <2> QED
    BY <2>1, <2>2, <2>3, <2>4, <2>5, <2>6 DEF Inv
<1>10. ASSUME NEW r \in Request, Insert(r) PROVE Inv'
  <2>1. TypeOK' /\ AskInv'
    BY <1>0, <1>10 DEF Insert, AskInv, AdmitInv, Record, Ask
  <2>2. AdmitInv'
    BY <1>0, <1>10 DEF Insert, AdmitInv
  <2>3. RanInv'
    BY <1>0, <1>10 DEF Insert, AdmitInv, RanInv
  <2>4. RecordInv'
    BY <1>0, <1>10 DEF Insert, RanInv, RecordInv, Record
  <2>5. OutcomeInv'
    BY <1>0, <1>10 DEF Insert, AdmitInv, OutcomeInv
  <2>6. PoolInv'
    BY <1>p, <1>10
  <2> QED
    BY <2>1, <2>2, <2>3, <2>4, <2>5, <2>6 DEF Inv
<1>11. ASSUME NEW r \in Request, Answer(r) PROVE Inv'
  <2>1. TypeOK' /\ AskInv'
    BY <1>0, <1>11 DEF Answer, AskInv
  <2>2. AdmitInv'
    BY <1>0, <1>11 DEF Answer, AdmitInv
  <2>3. RanInv'
    BY <1>0, <1>11 DEF Answer, AdmitInv, RanInv
  <2>4. RecordInv'
    BY <1>0, <1>11, RecordsKept DEF Answer
  <2>5. OutcomeInv'
    BY <1>0, <1>11 DEF Answer, AdmitInv, OutcomeInv
  <2>6. PoolInv'
    BY <1>p, <1>11
  <2> QED
    BY <2>1, <2>2, <2>3, <2>4, <2>5, <2>6 DEF Inv
<1>12. ASSUME NEW r \in Request, AcquireFails(r) PROVE Inv'
  <2>1. TypeOK' /\ AskInv'
    BY <1>0, <1>12 DEF AcquireFails, AskInv
  <2>2. AdmitInv'
    BY <1>0, <1>12 DEF AcquireFails, AdmitInv
  <2>3. RanInv'
    BY <1>0, <1>12 DEF AcquireFails, AdmitInv, RanInv
  <2>4. RecordInv'
    BY <1>0, <1>12, RecordsKept DEF AcquireFails
  <2>5. OutcomeInv'
    BY <1>0, <1>12 DEF AcquireFails, AdmitInv, OutcomeInv
  <2>6. PoolInv'
    BY <1>p, <1>12 DEF Failure
  <2> QED
    BY <2>1, <2>2, <2>3, <2>4, <2>5, <2>6 DEF Inv
<1>13. ASSUME NEW r \in Request, QueryFails(r) PROVE Inv'
  <2>1. TypeOK' /\ AskInv'
    BY <1>0, <1>13 DEF QueryFails, AskInv
  <2>2. AdmitInv'
    BY <1>0, <1>13 DEF QueryFails, AdmitInv
  <2>3. RanInv'
    BY <1>0, <1>13 DEF QueryFails, AdmitInv, RanInv
  <2>4. RecordInv'
    BY <1>0, <1>13, RecordsKept DEF QueryFails
  <2>5. OutcomeInv'
    BY <1>0, <1>13 DEF QueryFails, AdmitInv, OutcomeInv
  <2>6. PoolInv'
    BY <1>p, <1>13 DEF Failure
  <2> QED
    BY <2>1, <2>2, <2>3, <2>4, <2>5, <2>6 DEF Inv
<1>14. ASSUME NEW r \in Request, InsertFails(r) PROVE Inv'
  <2>1. TypeOK' /\ AskInv'
    BY <1>0, <1>14 DEF InsertFails, AskInv, AdmitInv, Record, Ask
  <2>2. AdmitInv'
    BY <1>0, <1>14 DEF InsertFails, AdmitInv
  <2>3. RanInv'
    BY <1>0, <1>14 DEF InsertFails, AdmitInv, RanInv
  <2>4. RecordInv'
    BY <1>0, <1>14 DEF InsertFails, RanInv, RecordInv, Record
  <2>5. OutcomeInv'
    BY <1>0, <1>14 DEF InsertFails, AdmitInv, OutcomeInv
  <2>6. PoolInv'
    BY <1>p, <1>14 DEF Failure
  <2> QED
    BY <2>1, <2>2, <2>3, <2>4, <2>5, <2>6 DEF Inv
<1>15. ASSUME NEW r \in Request, AnswerLost(r) PROVE Inv'
  <2>1. TypeOK' /\ AskInv'
    BY <1>0, <1>15 DEF AnswerLost, AskInv
  <2>2. AdmitInv'
    BY <1>0, <1>15 DEF AnswerLost, AdmitInv
  <2>3. RanInv'
    BY <1>0, <1>15 DEF AnswerLost, AdmitInv, RanInv
  <2>4. RecordInv'
    BY <1>0, <1>15, RecordsKept DEF AnswerLost
  <2>5. OutcomeInv'
    BY <1>0, <1>15 DEF AnswerLost, AdmitInv, OutcomeInv
  <2>6. PoolInv'
    BY <1>p, <1>15 DEF Failure
  <2> QED
    BY <2>1, <2>2, <2>3, <2>4, <2>5, <2>6 DEF Inv
<1>16. CASE Crash
  <2>1. TypeOK' /\ AskInv'
    BY <1>0, <1>16 DEF Crash, InFlight, AskInv, Record, Ask
  <2>2. AdmitInv'
    BY <1>0, <1>16 DEF Crash, InFlight, AdmitInv
  <2>3. RanInv'
    BY <1>0, <1>16 DEF Crash, InFlight, AdmitInv, RanInv
  <2>4. RecordInv'
    BY <1>0, <1>16 DEF Crash, InFlight, RanInv, RecordInv, Record
  <2>5. OutcomeInv'
    BY <1>0, <1>16 DEF Crash, InFlight, AdmitInv, OutcomeInv
  <2>6. PoolInv'
    BY <1>0, <1>16 DEF Crash, InFlight, AskInv, AdmitInv, PoolInv, PoolsServeTheirTarget
  <2> QED
    BY <2>1, <2>2, <2>3, <2>4, <2>5, <2>6 DEF Inv
<1>17. CASE UNCHANGED vars
  BY <1>17 DEF vars, Inv, AskInv, AdmitInv, RanInv, RecordInv, OutcomeInv, PoolInv,
               PoolsServeTheirTarget, Record
<1> QED
  BY <1>1, <1>2, <1>3, <1>4, <1>5, <1>6, <1>7, <1>8, <1>9, <1>10, <1>11, <1>12, <1>13,
     <1>14, <1>15, <1>16, <1>17 DEF Next, Progress, Failure

\* Inv is an invariant of the specification.
LEMMA SpecInv == Spec => []Inv
<1>1. Inv /\ [Next]_vars => Inv'
  BY NextInv
<1> QED
  BY InitInv, <1>1, PTL DEF Spec

-----------------------------------------------------------------------------
(* The invariants of the runs, for every value of the constants. *)

\* Every variable keeps its type.
THEOREM TypeCorrectness == Spec => []TypeOK
<1>1. Inv => TypeOK
  BY DEF Inv
<1> QED
  BY SpecInv, <1>1, PTL

\* A statement runs at a target only when the configuration and the policy
\* allow each of its tables under the name the target database gives it.
THEOREM OnlyPermittedRun == Spec => []OnlyPermittedRuns
<1>1. Inv => OnlyPermittedRuns
  BY DEF Inv, RanInv, OnlyPermittedRuns
<1> QED
  BY SpecInv, <1>1, PTL

\* A request that RunQuery refuses has run nothing, stored nothing and made
\* no pool; and it is one that is not permitted.
THEOREM RefusalsAreClean == Spec => []RefusalLeavesNoTrace
<1>1. Inv => RefusalLeavesNoTrace
  BY DEF Inv, RanInv, RecordInv, OutcomeInv, PoolInv, RefusalLeavesNoTrace
<1> QED
  BY SpecInv, <1>1, PTL

\* Every row of query_results tells the truth about a statement that ran.
THEOREM RecordsTrue == Spec => []RecordsAreTrue
<1>1. Inv => RecordsAreTrue
  BY DEF Inv, RecordInv, RecordsAreTrue
<1> QED
  BY SpecInv, <1>1, PTL

\* The id in an answer leads to a stored result, whatever fails afterwards.
THEOREM AnswersBacked == Spec => []AnswersAreBacked
<1>1. Inv => AnswersAreBacked
  BY DEF Inv, RecordInv, AnswersAreBacked
<1> QED
  BY SpecInv, <1>1, PTL

\* getConnection never hands out a closed pool or one of another target.
THEOREM PoolsCorrect == Spec => []PoolsServeTheirTarget
<1>1. Inv => PoolsServeTheirTarget
  BY DEF Inv, PoolInv
<1> QED
  BY SpecInv, <1>1, PTL

-----------------------------------------------------------------------------
(* A property of steps. *)

\* A call that looks the target up once its pool is cached makes no pool: the
\* pools of a target are bounded by the calls that raced for the first one.
THEOREM PoolsStopGrowing == Spec => NoPoolAfterTheRace
<1> DEFINE Settled(t) ==
             conns[t] # NoPool => PoolsOf(t)' \cup Misses(t)' \subseteq PoolsOf(t) \cup Misses(t)
<1>1. ASSUME Inv, [Next]_vars, NEW t \in Target, conns[t] # NoPool
      PROVE  PoolsOf(t)' \cup Misses(t)' \subseteq PoolsOf(t) \cup Misses(t)
  <2> USE DEF Inv, TypeOK, PoolsOf, Misses, Goto, End, poolVars
  <2>1. ASSUME NEW r \in Request, Arrive(r)
        PROVE  PoolsOf(t)' \cup Misses(t)' \subseteq PoolsOf(t) \cup Misses(t)
    BY <1>1, <2>1 DEF Arrive, PoolInv
  <2>2. ASSUME NEW r \in Request, Lookup(r)
        PROVE  PoolsOf(t)' \cup Misses(t)' \subseteq PoolsOf(t) \cup Misses(t)
    BY <1>1, <2>2 DEF Lookup
  <2>3. ASSUME NEW r \in Request, \/ CreatePool(r) \/ CreatePoolFails(r)
        PROVE  PoolsOf(t)' \cup Misses(t)' \subseteq PoolsOf(t) \cup Misses(t)
    BY <1>1, <2>3 DEF CreatePool, CreatePoolFails
  <2>4. ASSUME NEW r \in Request, \/ Preflight(r) \/ StorePool(r) \/ Acquire(r) \/ Execute(r)
                                  \/ Collect(r) \/ Insert(r) \/ Answer(r) \/ Failure(r)
        PROVE  PoolsOf(t)' \cup Misses(t)' \subseteq PoolsOf(t) \cup Misses(t)
    BY <1>1, <2>4
       DEF Preflight, Refuse, StorePool, Acquire, Execute, Collect, Insert, Answer, Failure,
           AcquireFails, QueryFails, InsertFails, AnswerLost
  <2>5. CASE Crash
    BY <1>1, <2>5 DEF Crash, InFlight
  <2>6. CASE UNCHANGED vars
    BY <1>1, <2>6 DEF vars
  <2> QED
    BY <1>1, <2>1, <2>2, <2>3, <2>4, <2>5, <2>6 DEF Next, Progress
<1>2. Inv /\ [Next]_vars => [\A t \in Target : Settled(t)]_vars
  BY <1>1
<1> QED
  BY SpecInv, <1>2, PTL DEF Spec, NoPoolAfterTheRace

-----------------------------------------------------------------------------
(* QueryGateway implements QueryService: every step of a goroutine is one  *)
(* step of the promise, or none.                                           *)

Statuses == [r \in Request |-> Status(r)]

\* Ending a call changes the status of that call alone; a call that goes on
\* changes none.
LEMMA StatusOfOthers ==
  ASSUME Inv, NEW r \in Request, NEW how \in Outcomes \ {"none"}, End(r, how), pc[r] # "done"
  PROVE  Statuses' = [Statuses EXCEPT ![r] =
           IF how \in Refusals THEN "refused" ELSE IF how = "ok" THEN "ok" ELSE "failed"]
BY DEF Inv, TypeOK, Statuses, Status, End, Goto, Outcomes, Refusals

\* A call that moves on without ending keeps every status.
LEMMA StatusKept ==
  ASSUME Inv, NEW r \in Request, NEW step \in Steps \ {"idle", "done"}, Goto(r, step),
         pc[r] \notin {"idle", "done"}, outcome' = outcome
  PROVE  Statuses' = Statuses
BY DEF Inv, TypeOK, Statuses, Status, Goto

\* Every step of the gateway is a step of the promise, or changes nothing in it.
LEMMA StepImplements ==
  ASSUME Inv, [Next]_vars
  PROVE  [Promise!Next]_(Promise!vars)
<1> DEFINE PV == <<ask, Statuses, ran, recorded>>
<1> USE DEF Promise!Next, Promise!vars, Promise!Record, Record, poolVars
<1>a. TypeOK /\ AskInv /\ AdmitInv /\ RanInv /\ RecordInv /\ OutcomeInv
  BY DEF Inv
<1>b. ASSUME NEW r \in Request, NEW how \in Outcomes \ (Refusals \cup {"none", "ok"}),
             End(r, how), pc[r] \notin {"idle", "done"}, ask' = ask, ran' = ran,
             recorded' = recorded \/ (r \in ran /\ recorded' = recorded \cup {Record(r)})
      PROVE  Promise!Next
  <2>1. Statuses' = [Statuses EXCEPT ![r] = "failed"]
    BY <1>b, StatusOfOthers
  <2>2. Promise!Fail({r})
    <3>1. Statuses[r] = "pending"
      BY <1>b DEF Statuses, Status
    <3>2. ran' = ran \cup {}
      BY <1>b
    <3>3. \E late \in SUBSET ({r} \cap ran) : recorded' = recorded \cup {Record(x) : x \in late}
      <4>1. CASE recorded' = recorded
        <5>1. recorded' = recorded \cup {Record(x) : x \in {}}
          BY <4>1
        <5> QED
          BY <5>1
      <4>2. CASE r \in ran /\ recorded' = recorded \cup {Record(r)}
        <5>1. recorded' = recorded \cup {Record(x) : x \in {r}} /\ {r} \in SUBSET ({r} \cap ran)
          BY <4>2
        <5> QED
          BY <5>1
      <4> QED
        BY <1>b, <4>1, <4>2
    <3>4. Statuses' = [x \in Request |-> IF x \in {r} THEN "failed" ELSE Statuses[x]]
      BY <2>1 DEF Statuses
    <3> QED
      BY <1>b, <3>1, <3>2, <3>3, <3>4 DEF Promise!Fail, Statuses
  <2> QED
    BY <2>2
<1>c. ASSUME NEW r \in Request, NEW step \in Steps \ {"idle", "done"}, Goto(r, step),
             pc[r] \notin {"idle", "done"}, UNCHANGED <<ask, outcome, ran, recorded>>
      PROVE  UNCHANGED Promise!vars
  BY <1>c, StatusKept DEF Statuses
<1>1. ASSUME NEW r \in Request, Arrive(r) PROVE Promise!Next
  <2>1. Statuses' = [Statuses EXCEPT ![r] = "pending"] /\ Statuses[r] = "new"
    BY <1>a, <1>1 DEF Arrive, Goto, Statuses, Status, TypeOK
  <2>2. Promise!Submit(r)
    BY <1>1, <2>1, RequestAssumption DEF Arrive, Promise!Submit, Statuses
  <2> QED
    BY <2>2
<1>2. ASSUME NEW r \in Request, Preflight(r) PROVE [Promise!Next]_(Promise!vars)
  <2>1. pc[r] = "preflight" /\ ask[r] \in Ask
    BY <1>a, <1>2 DEF Preflight, AskInv
  <2>2. ASSUME NEW how \in Refusals, Refuse(r, how), ~ IsPermitted(ask[r])
        PROVE  Promise!Next
    <3>1. how \in Outcomes \ {"none"}
      BY DEF Outcomes, Refusals
    <3>2. Statuses' = [Statuses EXCEPT ![r] = "refused"]
      BY <2>1, <2>2, <3>1, StatusOfOthers DEF Refuse
    <3>3. Promise!Refuse(r)
      BY <2>1, <2>2, <3>2 DEF Refuse, Promise!Refuse, Statuses, Status
    <3> QED
      BY <3>3
  <2>3. CASE /\ IsPermitted(ask[r]) /\ Goto(r, "lookup")
             /\ UNCHANGED <<ask, outcome, poolVars, ran, recorded, crashes>>
    BY <2>1, <2>3, <1>c DEF Steps
  <2> QED
    BY <1>2, <2>1, <2>2, <2>3, PreflightDecides
<1>3. ASSUME NEW r \in Request, Lookup(r) PROVE UNCHANGED Promise!vars
  BY <1>3, <1>c DEF Lookup, Steps
<1>4. ASSUME NEW r \in Request, CreatePool(r) PROVE UNCHANGED Promise!vars
  BY <1>4, <1>c DEF CreatePool, Steps
<1>5. ASSUME NEW r \in Request, CreatePoolFails(r) PROVE Promise!Next
  BY <1>5, <1>b DEF CreatePoolFails, Outcomes, Refusals
<1>6. ASSUME NEW r \in Request, StorePool(r) PROVE UNCHANGED Promise!vars
  BY <1>6, <1>c DEF StorePool, Steps
<1>7. ASSUME NEW r \in Request, Acquire(r) PROVE UNCHANGED Promise!vars
  BY <1>7, <1>c DEF Acquire, Steps
<1>8. ASSUME NEW r \in Request, Execute(r) PROVE Promise!Next
  <2>1. Statuses' = Statuses
    BY <1>8, StatusKept DEF Execute, Steps
  <2>2. ask[r] \in Ask /\ IsPermitted(ask[r]) /\ r \notin ran /\ Statuses[r] = "pending"
    BY <1>a, <1>8 DEF Execute, AskInv, AdmitInv, Admitted, RanInv, AfterRun, Statuses, Status
  <2>3. Promise!Run(r)
    BY <1>8, <2>1, <2>2 DEF Execute, Promise!Run, Statuses
  <2> QED
    BY <2>3
<1>9. ASSUME NEW r \in Request, Collect(r) PROVE UNCHANGED Promise!vars
  BY <1>9, <1>c DEF Collect, Steps
<1>10. ASSUME NEW r \in Request, Insert(r) PROVE Promise!Next
  <2>1. Statuses' = Statuses
    BY <1>10, StatusKept DEF Insert, Steps
  <2>2. r \in ran /\ Statuses[r] = "pending"
    BY <1>a, <1>10 DEF Insert, RanInv, AfterRun, Statuses, Status
  <2>3. Promise!Store(r)
    BY <1>10, <2>1, <2>2 DEF Insert, Promise!Store, Statuses
  <2> QED
    BY <2>3
<1>11. ASSUME NEW r \in Request, Answer(r) PROVE Promise!Next
  <2>1. Statuses' = [Statuses EXCEPT ![r] = "ok"]
    BY <1>11, StatusOfOthers DEF Answer, Outcomes, Refusals
  <2>2. Record(r) \in recorded /\ Statuses[r] = "pending"
    BY <1>a, <1>11 DEF Answer, RecordInv, Statuses, Status
  <2>3. Promise!Reply(r)
    BY <1>11, <2>1, <2>2 DEF Answer, Promise!Reply, Statuses
  <2> QED
    BY <2>3
<1>12. ASSUME NEW r \in Request, \/ AcquireFails(r) \/ QueryFails(r) \/ AnswerLost(r)
       PROVE  Promise!Next
  BY <1>12, <1>b DEF AcquireFails, QueryFails, AnswerLost, Outcomes, Refusals
<1>13. ASSUME NEW r \in Request, InsertFails(r) PROVE Promise!Next
  <2>1. r \in ran
    BY <1>a, <1>13 DEF InsertFails, RanInv, AfterRun
  <2> QED
    BY <1>13, <2>1, <1>b DEF InsertFails, Outcomes, Refusals
<1>14. CASE Crash
  <2> DEFINE S == {r \in Request : InFlight(r)}
  <2>1. Statuses' = [r \in Request |-> IF r \in S THEN "failed" ELSE Statuses[r]]
    BY <1>a, <1>14 DEF Crash, Statuses, Status, InFlight, TypeOK, Refusals
  <2>2. \A r \in S : Statuses[r] = "pending"
    BY DEF Statuses, Status, InFlight
  <2>3. \E late \in SUBSET {r \in S : ask[r] \in {a \in Ask : IsPermitted(a)}} :
          ran' = ran \cup late
    BY <1>a, <1>14 DEF Crash, InFlight, AskInv, AdmitInv, Admitted
  <2>4. \E late \in SUBSET (S \cap ran) : recorded' = recorded \cup {Record(r) : r \in late}
    BY <1>a, <1>14 DEF Crash, InFlight, RanInv, AfterRun
  <2>5. Promise!Fail(S)
    BY <1>14, <2>1, <2>2, <2>3, <2>4 DEF Crash, Promise!Fail, Statuses
  <2> QED
    BY <2>5
<1>15. CASE UNCHANGED vars
  BY <1>15 DEF vars, Status
<1> QED
  BY <1>1, <1>2, <1>3, <1>4, <1>5, <1>6, <1>7, <1>8, <1>9, <1>10, <1>11, <1>12, <1>13,
     <1>14, <1>15 DEF Next, Progress, Failure

\* RunQuery keeps the promise of a query service, for every configuration,
\* policy, number of calls and pool limit.
THEOREM Implementation == Spec => ImplementsQueryService
<1>1. Init => Promise!Init
  BY DEF Init, Promise!Init, Status
<1>2. Inv /\ [Next]_vars => [Promise!Next]_(Promise!vars)
  BY StepImplements
<1> QED
  BY SpecInv, <1>1, <1>2, PTL DEF Spec, ImplementsQueryService, Promise!Spec
=============================================================================
