---------------------------- MODULE StartupProofs ----------------------------
(***************************************************************************)
(* However many instances start on one storage, they serve on the whole    *)
(* schema, on a configuration that has passed every check, and empty no    *)
(* table under each other; the types are kept, also by a migrate-down.     *)
(***************************************************************************)
EXTENDS Startup, WellFoundedInduction, TLAPS

Past == {"storage", "policy", "app", "validate", "serving"}
Operation == {"list", "up", "current", "down"} \cup Past

Processes ==
  /\ pc \in [Instance -> Place]
  /\ cfg \in [Instance -> Fault \cup {"none"}]
  /\ file \in Fault \cup {"none"}

\* What the checks an instance has behind it say of its configuration.
Passed ==
  \A i \in Instance :
    /\ pc[i] # "off" => cfg[i] # "json"
    /\ pc[i] \in {"app", "validate", "serving"} => cfg[i] # "rego"
    /\ pc[i] \in {"validate", "serving"} => cfg[i] \notin {"targets", "roles"}
    /\ pc[i] = "serving" => cfg[i] \notin {"tables", "role", "secret", "port"}

CheckedInv == Processes /\ Passed

\* The versions that are applied have no hole, and the schema is theirs.
Unbroken ==
  \/ versions = <<>> /\ schema = {}
  \/ \E k \in 0..4 : Applied = 0..k /\ schema = Schema(k)

\* Where an instance is on its way through the migrations: the version before
\* the next of its list has been applied, by itself or another.
Positions ==
  \A i \in Instance :
    /\ pc[i] \in Operation => versions # <<>>
    /\ pc[i] = "up" => next[i] - 1 \in Applied
    /\ pc[i] \in Past => 4 \in Applied

\* Rows are stored under a complete table.
RowsInTable == rows # {} => "target_id" \in schema

StorageInv ==
  /\ versions \in Seq(0..4)
  /\ next \in [Instance -> 1..5]
  /\ Unbroken /\ Positions /\ RowsInTable

\* What is said of the storage until somebody migrates down.
IInv ==
  /\ pc \in [Instance -> Place] /\ downs \in Nat
  /\ downs = 0 => StorageInv

-----------------------------------------------------------------------------
(* The configuration *)

\* The checks stand behind an instance in the order of the places it goes through.
LEMMA CheckedInvInit == Init => CheckedInv
BY DEF Init, CheckedInv, Processes, Passed, Place

\* A process that ends has nothing behind it.
LEMMA ExitChecked ==
  ASSUME CheckedInv, NEW i \in Instance, Exit(i), file' = file
  PROVE  CheckedInv'
BY DEF CheckedInv, Processes, Passed, Exit, Place

\* A process that goes on keeps its configuration.
LEMMA GotoChecked ==
  ASSUME CheckedInv, NEW i \in Instance, NEW p \in Place, Goto(i, p), file' = file,
         pc[i] # "off", p \notin {"app", "validate", "serving"}
  PROVE  CheckedInv'
BY DEF CheckedInv, Processes, Passed, Goto

LEMMA CheckedInvNext == CheckedInv /\ [Next]_vars => CheckedInv'
<1> SUFFICES ASSUME CheckedInv, [Next]_vars  PROVE CheckedInv'
  OBVIOUS
<1>1. ASSUME NEW i \in Instance, NEW c \in Command, Start(i, c)  PROVE CheckedInv'
  <2>1. CASE Exit(i)
    BY <1>1, <2>1, ExitChecked DEF Start
  <2>2. CASE ~ Exit(i)
    BY <1>1, <2>2 DEF Start, CheckedInv, Processes, Passed, Place
  <2> QED
    BY <2>1, <2>2
<1>2. CASE \E i \in Instance : Run(i) \/ Operate(i)
  BY <1>1, <1>2 DEF Run, Operate, Command
<1>3. ASSUME NEW i \in Instance, newMigrator(i) \/ ReadVersions(i) \/ CreateVersions(i)
  PROVE  CheckedInv'
  BY <1>3, ExitChecked, GotoChecked
  DEF newMigrator, ReadVersions, CreateVersions, Connected, Check, Place
<1>4. ASSUME NEW i \in Instance, ListMigrations(i) \/ CurrentVersion(i)
  PROVE  CheckedInv'
  <2>1. file' = file
    BY <1>4 DEF ListMigrations, CurrentVersion
  <2>2. CASE Exit(i)
    BY <2>1, <2>2, ExitChecked
  <2>3. CASE ~ Exit(i)
    BY <1>4, <2>1, <2>3 DEF ListMigrations, CurrentVersion, Connected, CheckedInv, Processes, Passed, Place
  <2> QED
    BY <2>2, <2>3
<1>5. ASSUME NEW i \in Instance, Up(i) \/ DownOne(i)
  PROVE  CheckedInv'
  <2>1. file' = file
    BY <1>5 DEF Up, DownOne
  <2>2. CASE Exit(i)
    BY <2>1, <2>2, ExitChecked
  <2>3. CASE ~ Exit(i)
    <3>1. UNCHANGED <<pc, cfg>>
      BY <1>5, <2>3 DEF Up, DownOne, Connected, Apply, Commit
    <3> QED
      BY <3>1, <2>1 DEF CheckedInv, Processes, Passed
  <2> QED
    BY <2>2, <2>3
<1>6. ASSUME NEW i \in Instance, Migrated(i) \/ OpenStorage(i)
  PROVE  CheckedInv'
  BY <1>6, ExitChecked, GotoChecked DEF Migrated, OpenStorage, Connected, Place
<1>7. ASSUME NEW i \in Instance, LoadPolicies(i) \/ NewApp(i) \/ Serve(i)
  PROVE  CheckedInv'
  <2>1. file' = file
    BY <1>7 DEF LoadPolicies, NewApp, Serve
  <2>2. CASE Exit(i)
    BY <2>1, <2>2, ExitChecked
  <2>3. CASE ~ Exit(i)
    BY <1>7, <2>1, <2>3
    DEF LoadPolicies, NewApp, Serve, Check, Goto, prepareQuery, Valid, NewFacade,
        CheckedInv, Processes, Passed, Place
  <2> QED
    BY <2>2, <2>3
<1>8. ASSUME NEW i \in Instance, Crash(i)  PROVE CheckedInv'
  BY <1>8, ExitChecked DEF Crash
<1>9. CASE \/ \E i \in Instance : Store(i)
           \/ Outage \/ Recovery \/ Edit \/ UNCHANGED vars
  <2>1. UNCHANGED <<pc, cfg>> /\ file' \in Fault \cup {"none"}
    BY <1>9 DEF Store, Outage, Recovery, Edit, vars, process, CheckedInv, Processes
  <2> QED
    BY <2>1 DEF CheckedInv, Processes, Passed
<1> QED
  BY <1>2, <1>3, <1>4, <1>5, <1>6, <1>7, <1>8, <1>9 DEF Next, Step

\* An instance that serves does so on a configuration that has passed every
\* check of the start but the one of policy.path, whatever has been edited,
\* and for any number of instances.
THEOREM OnlyCheckedServes == Spec => []ServesCheckedConfig
<1>1. CheckedInv => ServesCheckedConfig
  BY DEF CheckedInv, Processes, Passed, ServesCheckedConfig, Fault
<1> QED
  BY <1>1, CheckedInvInit, CheckedInvNext, PTL DEF Spec

-----------------------------------------------------------------------------
(* The storage *)

\* Each file adds its part to the schema of the one before it.
LEMMA SchemaSteps ==
  /\ Schema(0) = {}
  /\ \A k \in 0..3 : Schema(k + 1) = Schema(k) \cup File[k + 1].adds
<1>1. Schema(0) = {}
  BY DEF Schema
<1>2. ASSUME NEW k \in 0..3  PROVE Schema(k + 1) = Schema(k) \cup File[k + 1].adds
  <2>1. 1..(k + 1) = (1..k) \cup {k + 1}
    OBVIOUS
  <2> QED
    BY <2>1, Zenon DEF Schema
<1> QED
  BY <1>1, <1>2

\* A schema holds what the files up to its version add.
LEMMA SchemaHolds ==
  ASSUME NEW k \in 0..4, NEW v \in 1..k
  PROVE  File[v].adds \subseteq Schema(k)
BY DEF Schema

\* The schema of every version, in full.
LEMMA Schemas ==
  /\ Schema(0) = {}
  /\ Schema(1) = {"query_results"}
  /\ Schema(2) = {"query_results", "id_uuid"}
  /\ Schema(3) = {"query_results", "id_uuid", "bookmarks"}
  /\ Schema(4) = Object
<1>1. /\ File[1].adds = {"query_results"} /\ File[2].adds = {"id_uuid"}
      /\ File[3].adds = {"bookmarks"} /\ File[4].adds = {"target_id"}
  BY DEF File, init_tables, query_results_as_uuid, bookmarks, add_target_id
<1>2. Schema(1) = Schema(0) \cup File[1].adds
  BY SchemaSteps
<1>3. Schema(2) = Schema(1) \cup File[2].adds
  BY SchemaSteps
<1>4. Schema(3) = Schema(2) \cup File[3].adds
  BY SchemaSteps
<1>5. Schema(4) = Schema(3) \cup File[4].adds
  BY SchemaSteps
<1> QED
  BY <1>1, <1>2, <1>3, <1>4, <1>5, SchemaSteps DEF Object

\* The file that is next can be applied.
LEMMA NextApplies ==
  ASSUME NEW k \in 0..3, schema = Schema(k)
  PROVE  CanApply(k + 1)
<1>1. CASE k = 0
  BY <1>1, Schemas DEF CanApply, File, init_tables
<1>2. CASE k = 1
  BY <1>2, Schemas DEF CanApply, File, query_results_as_uuid
<1>3. CASE k = 2
  BY <1>3, Schemas DEF CanApply, File, bookmarks
<1>4. CASE k = 3
  BY <1>4, Schemas DEF CanApply, File, add_target_id
<1> QED
  BY <1>1, <1>2, <1>3, <1>4

\* The newest of versions without a hole.
LEMMA NewestIsLast ==
  ASSUME NEW k \in 0..4, Applied = 0..k
  PROVE  Newest = k
BY DEF Newest

\* What appending does to the elements of a sequence.
LEMMA RangeGrows ==
  ASSUME NEW S, NEW s \in Seq(S), NEW v \in S
  PROVE  Append(s, v) \in Seq(S) /\ Append(s, v) # <<>> /\ Range(Append(s, v)) = Range(s) \cup {v}
<1> DEFINE t == Append(s, v)
<1>1. t \in Seq(S) /\ Len(t) = Len(s) + 1
  OBVIOUS
<1>2. (\A n \in 1..Len(s) : t[n] = s[n]) /\ t[Len(s) + 1] = v
  OBVIOUS
<1> HIDE DEF t
<1>3. DOMAIN s = 1..Len(s) /\ DOMAIN t = 1..(Len(s) + 1) /\ Len(s) \in Nat
  BY <1>1
<1>4. Range(t) \subseteq Range(s) \cup {v}
  <2> SUFFICES ASSUME NEW n \in 1..(Len(s) + 1)  PROVE t[n] \in Range(s) \cup {v}
    BY <1>3 DEF Range
  <2>1. CASE n \in 1..Len(s)
    BY <2>1, <1>2, <1>3 DEF Range
  <2>2. CASE n = Len(s) + 1
    BY <2>2, <1>2
  <2> QED
    BY <2>1, <2>2, <1>3
<1>5. ASSUME NEW n \in 1..Len(s)  PROVE s[n] \in Range(t)
  <2>1. n \in DOMAIN t /\ t[n] = s[n]
    BY <1>2, <1>3
  <2> QED
    BY <2>1 DEF Range
<1>6. v \in Range(t)
  <2>1. Len(s) + 1 \in DOMAIN t
    BY <1>3
  <2> QED
    BY <2>1, <1>2 DEF Range
<1>7. Range(s) \subseteq Range(t)
  BY <1>3, <1>5 DEF Range
<1>8. t # <<>>
  BY <1>1, <1>3
<1> QED
  BY <1>1, <1>4, <1>6, <1>7, <1>8 DEF t

\* What recording a version does to the set of those applied.
LEMMA AppliedGrows ==
  ASSUME versions \in Seq(0..4), NEW v \in 0..4, versions' = Append(versions, v)
  PROVE  versions' \in Seq(0..4) /\ versions' # <<>> /\ Applied' = Applied \cup {v}
BY RangeGrows DEF Applied

\* The invariant holds on a storage no release has touched and on one that an
\* earlier release has left.
LEMMA IInvInit == Init => IInv
<1> SUFFICES ASSUME Init  PROVE IInv
  OBVIOUS
<1>1. pc \in [Instance -> Place] /\ downs \in Nat /\ next \in [Instance -> 1..5]
      /\ Positions /\ RowsInTable
  BY DEF Init, Place, Positions, Operation, Past, RowsInTable
<1>2. CASE versions = <<>> /\ schema = {}
  BY <1>1, <1>2 DEF IInv, StorageInv, Unbroken
<1>3. CASE \E v \in {0} \cup Version : versions = [n \in 1..(v + 1) |-> n - 1] /\ schema = Schema(v)
  <2>1. PICK v \in 0..4 : versions = [n \in 1..(v + 1) |-> n - 1] /\ schema = Schema(v)
    BY <1>3 DEF Version
  <2>2. versions \in [1..(v + 1) -> 0..4] /\ v + 1 \in Nat
    BY <2>1
  <2>3. versions \in Seq(0..4)
    BY <2>2
  <2>4. Applied = 0..v
    <3>1. Applied = {n - 1 : n \in 1..(v + 1)}
      BY <2>1 DEF Applied, Range
    <3>2. ASSUME NEW w \in 0..v  PROVE w \in Applied
      <4>1. w + 1 \in 1..(v + 1) /\ (w + 1) - 1 = w
        OBVIOUS
      <4> QED
        BY <4>1, <3>1
    <3> QED
      BY <3>1, <3>2
  <2> QED
    BY <1>1, <2>1, <2>3, <2>4 DEF IInv, StorageInv, Unbroken
<1> QED
  BY <1>2, <1>3 DEF Init

\* A process that ends leaves the storage as it is.
LEMMA ExitKeeps ==
  ASSUME StorageInv, NEW i \in Instance, Exit(i), UNCHANGED storage
  PROVE  StorageInv'
BY DEF StorageInv, Exit, storage, Unbroken, Positions, RowsInTable, Operation, Past, Applied

\* A process that goes on has behind it what its next place asks for.
LEMMA GotoKeeps ==
  ASSUME StorageInv, NEW i \in Instance, NEW p \in Place, Goto(i, p), UNCHANGED storage,
         p # "up", p \in Operation => versions # <<>>, p \in Past => 4 \in Applied
  PROVE  StorageInv'
BY DEF StorageInv, Goto, storage, Unbroken, Positions, RowsInTable, Applied

\* The list begins behind the newest version.
LEMMA ListKeeps ==
  ASSUME StorageInv, NEW i \in Instance, pc[i] = "list", pc \in [Instance -> Place],
         pc' = [pc EXCEPT ![i] = "up"], next' = [next EXCEPT ![i] = FirstOfList],
         UNCHANGED storage
  PROVE  StorageInv'
<1>1. versions # <<>>
  BY DEF StorageInv, Positions, Operation
<1>2. PICK k \in 0..4 : Applied = 0..k
  BY <1>1 DEF StorageInv, Unbroken
<1>3. FirstOfList = k + 1
  BY <1>2, NewestIsLast DEF FirstOfList
<1>4. /\ versions' \in Seq(0..4) /\ Unbroken' /\ RowsInTable' /\ Applied' = Applied
  BY DEF StorageInv, storage, Unbroken, RowsInTable, Applied
<1>5. next' \in [Instance -> 1..5]
  BY <1>3 DEF StorageInv
<1>6. Positions'
  BY <1>1, <1>2, <1>3, <1>4 DEF StorageInv, Positions, storage, Operation, Past
<1> QED
  BY <1>4, <1>5, <1>6 DEF StorageInv

\* A file that an overtaken instance applies again changes neither the schema
\* nor the set of versions; the one that is next takes both a version on.
LEMMA CommitKeeps ==
  ASSUME StorageInv, NEW i \in Instance, pc[i] = "up", next[i] \in Version, Commit(i, next[i])
  PROVE  StorageInv'
<1> DEFINE v == next[i]
<1>1. v \in 1..4 /\ v - 1 \in Applied /\ versions # <<>>
  BY DEF StorageInv, Positions, Version, Operation
<1>2. PICK k \in 0..4 : Applied = 0..k /\ schema = Schema(k)
  BY <1>1 DEF StorageInv, Unbroken
<1>3. versions' \in Seq(0..4) /\ versions' # <<>> /\ Applied' = Applied \cup {v}
  BY <1>1, AppliedGrows DEF StorageInv, Commit
<1>4. schema' = schema \cup File[v].adds
  BY DEF Commit
<1>5. Unbroken'
  <2>1. CASE v \in 1..k
    <3>1. schema' = Schema(k)
      BY <2>1, <1>2, <1>4, SchemaHolds
    <3>2. Applied' = 0..k
      BY <2>1, <1>2, <1>3
    <3> QED
      BY <3>1, <3>2 DEF Unbroken
  <2>2. CASE v = k + 1
    <3>1. k \in 0..3
      BY <2>2, <1>1
    <3>2. schema' = Schema(k + 1)
      BY <2>2, <3>1, <1>2, <1>4, SchemaSteps
    <3>3. Applied' = 0..(k + 1)
      BY <2>2, <1>2, <1>3
    <3> QED
      BY <3>1, <3>2, <3>3 DEF Unbroken
  <2> QED
    BY <1>1, <1>2, <2>1, <2>2
<1>6. next' \in [Instance -> 1..5] /\ pc' = pc
  BY <1>1 DEF StorageInv, Commit
<1>7. Positions'
  <2>1. ASSUME NEW j \in Instance, pc[j] = "up"  PROVE next'[j] - 1 \in Applied'
    <3>1. CASE j = i
      BY <3>1, <1>1, <1>3 DEF Commit, StorageInv
    <3>2. CASE j # i
      BY <2>1, <3>2, <1>3 DEF Commit, StorageInv, Positions
    <3> QED
      BY <3>1, <3>2
  <2> QED
    BY <2>1, <1>3, <1>6 DEF StorageInv, Positions
<1>8. RowsInTable'
  BY <1>4 DEF StorageInv, RowsInTable, Commit
<1> QED
  BY <1>3, <1>5, <1>6, <1>7, <1>8 DEF StorageInv

\* Every step of a process, a start and a crash keep the invariant while nobody
\* migrates down.
LEMMA IInvNext == IInv /\ [Next]_vars => IInv'
<1> SUFFICES ASSUME IInv, [Next]_vars  PROVE IInv'
  OBVIOUS
<1>a. ASSUME NEW i \in Instance, Exit(i)  PROVE pc' \in [Instance -> Place]
  BY <1>a DEF IInv, Exit, Place
<1>b. ASSUME NEW i \in Instance, NEW p \in Place, Goto(i, p)  PROVE pc' \in [Instance -> Place]
  BY <1>b DEF IInv, Goto
<1>1. ASSUME NEW i \in Instance, NEW c \in Command, Start(i, c)  PROVE IInv'
  <2>1. CASE Exit(i)
    BY <1>1, <2>1, <1>a, ExitKeeps DEF Start, IInv
  <2>2. CASE ~ Exit(i)
    BY <1>1, <2>2
    DEF Start, IInv, Place, StorageInv, storage, Unbroken, Positions, Operation, Past, RowsInTable, Applied
  <2> QED
    BY <2>1, <2>2
<1>2. CASE \E i \in Instance : Run(i) \/ Operate(i)
  BY <1>1, <1>2 DEF Run, Operate, Command
<1>3. ASSUME NEW i \in Instance, newMigrator(i) \/ ReadVersions(i)  PROVE IInv'
  <2>1. UNCHANGED <<storage, downs>>
    BY <1>3 DEF newMigrator, ReadVersions, Connected
  <2>2. CASE Exit(i)
    BY <2>1, <2>2, <1>a, ExitKeeps DEF IInv
  <2>3. CASE newMigrator(i) /\ Goto(i, "versions")
    BY <2>1, <2>3, <1>b, GotoKeeps DEF IInv, Place, Operation, Past
  <2>4. CASE ReadVersions(i) /\ \E p \in {"create", "current", "list"} :
               Goto(i, p) /\ (p # "create" => versions # <<>>)
    BY <2>1, <2>4, <1>b, GotoKeeps DEF IInv, Place, Operation, Past
  <2> QED
    BY <1>3, <2>2, <2>3, <2>4 DEF newMigrator, ReadVersions, Connected
<1>4. ASSUME NEW i \in Instance, CreateVersions(i)  PROVE IInv'
  <2>1. CASE versions = <<>> /\ versions' = <<0>>
    <3>1. downs' = downs /\ pc' \in [Instance -> Place]
      BY <1>4, <2>1, <1>a, <1>b DEF CreateVersions, Connected, Check, Place
    <3>2. ASSUME downs = 0  PROVE StorageInv'
      <4>1. Applied' = 0..0
        BY <2>1 DEF Applied, Range
      <4>2. versions' \in Seq(0..4) /\ versions' # <<>>
        BY <2>1
      <4>3. schema' = Schema(0) /\ rows' = rows /\ rows = {}
        <5>1. schema' = schema /\ rows' = rows
          BY <1>4 DEF CreateVersions, Connected, storage
        <5>2. ASSUME NEW k \in 0..4  PROVE Applied # 0..k
          <6>1. Applied = {}
            BY <2>1 DEF Applied, Range
          <6>2. 0 \in 0..k
            OBVIOUS
          <6> QED
            BY <6>1, <6>2
        <5>3. schema = {}
          BY <2>1, <3>2, <5>2 DEF IInv, StorageInv, Unbroken
        <5> QED
          BY <5>1, <5>3, <3>2, SchemaSteps DEF IInv, StorageInv, RowsInTable
      <4>4. ASSUME NEW j \in Instance  PROVE pc[j] \notin Operation
        BY <2>1, <3>2 DEF IInv, StorageInv, Positions
      <4>5. \/ pc' = [pc EXCEPT ![i] = "off"] /\ next' = [next EXCEPT ![i] = 1]
            \/ (\E p \in {"current", "list"} : pc' = [pc EXCEPT ![i] = p]) /\ next' = next
        BY <1>4 DEF CreateVersions, Connected, Check, Goto, Exit
      <4>6. next' \in [Instance -> 1..5]
        BY <4>5, <3>2 DEF IInv, StorageInv
      <4>7. ASSUME NEW j \in Instance  PROVE pc'[j] \notin Past /\ pc'[j] # "up"
        <5>1. CASE j = i
          BY <5>1, <4>5 DEF IInv, Past
        <5>2. CASE j # i
          BY <5>2, <4>4, <4>5 DEF IInv, Operation
        <5> QED
          BY <5>1, <5>2
      <4>8. Positions'
        BY <4>2, <4>7 DEF Positions
      <4> QED
        BY <4>1, <4>2, <4>3, <4>6, <4>8 DEF StorageInv, Unbroken, RowsInTable
    <3> QED
      BY <3>1, <3>2 DEF IInv
  <2>2. CASE Exit(i) /\ UNCHANGED <<storage, downs>>
    BY <2>2, <1>a, ExitKeeps DEF IInv
  <2> QED
    BY <1>4, <2>1, <2>2 DEF CreateVersions, Connected, Check, storage
<1>5. ASSUME NEW i \in Instance, ListMigrations(i)  PROVE IInv'
  <2>1. UNCHANGED <<storage, downs>>
    BY <1>5 DEF ListMigrations, Connected
  <2>2. CASE Exit(i)
    BY <2>1, <2>2, <1>a, ExitKeeps DEF IInv
  <2>3. CASE ~ Exit(i)
    BY <1>5, <2>1, <2>3, ListKeeps DEF ListMigrations, Connected, IInv, Place
  <2> QED
    BY <2>2, <2>3
<1>6. ASSUME NEW i \in Instance, Up(i)  PROVE IInv'
  <2>1. CASE Exit(i) /\ UNCHANGED <<storage, downs>>
    BY <2>1, <1>a, ExitKeeps DEF IInv
  <2>2. CASE Commit(i, next[i])
    BY <1>6, <2>2, CommitKeeps DEF Up, AtEnd, Commit, IInv
  <2> QED
    BY <1>6, <2>1, <2>2 DEF Up, Connected, Apply
<1>7. ASSUME NEW i \in Instance, Migrated(i)  PROVE IInv'
  <2>1. UNCHANGED <<storage, downs>> /\ pc[i] = "up" /\ next[i] \notin 1..4
    BY <1>7 DEF Migrated, bounds, AtEnd, Version
  <2>2. CASE Exit(i)
    BY <2>1, <2>2, <1>a, ExitKeeps DEF IInv
  <2>3. CASE Goto(i, "storage")
    <3>1. ASSUME downs = 0  PROVE StorageInv'
      <4>1. next[i] = 5 /\ next[i] - 1 \in Applied /\ versions # <<>>
        BY <2>1, <3>1 DEF IInv, StorageInv, Positions, Operation
      <4> QED
        BY <4>1, <2>1, <2>3, <3>1, GotoKeeps DEF IInv, Place
    <3> QED
      BY <2>1, <2>3, <3>1, <1>b DEF IInv, Place
  <2> QED
    BY <1>7, <2>2, <2>3 DEF Migrated
<1>8. ASSUME NEW i \in Instance, CurrentVersion(i)  PROVE IInv'
  <2>1. UNCHANGED <<storage, downs>>
    BY <1>8 DEF CurrentVersion, Connected
  <2>2. CASE Exit(i)
    BY <2>1, <2>2, <1>a, ExitKeeps DEF IInv
  <2>3. CASE ~ Exit(i)
    <3>1. /\ pc[i] = "current" /\ pc' = [pc EXCEPT ![i] = "down"]
          /\ next' = [next EXCEPT ![i] = Last(versions)] /\ Last(versions) # 0
      BY <1>8, <2>3 DEF CurrentVersion, Connected
    <3>2. ASSUME downs = 0  PROVE StorageInv'
      <4>1. versions # <<>> /\ versions \in Seq(0..4)
        BY <3>1, <3>2 DEF IInv, StorageInv, Positions, Operation
      <4>2. Len(versions) \in 1..Len(versions)
        BY <4>1
      <4>3. Last(versions) \in 1..4
        BY <4>1, <4>2, <3>1 DEF Last
      <4>4. next' \in [Instance -> 1..5]
        BY <4>3, <3>1, <3>2 DEF IInv, StorageInv
      <4> QED
        BY <4>1, <4>4, <3>1, <3>2, <2>1
        DEF IInv, StorageInv, storage, Unbroken, Positions, RowsInTable, Operation, Past, Applied
    <3> QED
      BY <3>1, <3>2, <2>1 DEF IInv, Place
  <2> QED
    BY <2>2, <2>3
<1>9. ASSUME NEW i \in Instance, DownOne(i)  PROVE IInv'
  <2>1. pc' \in [Instance -> Place]
    BY <1>9, <1>a DEF DownOne, Connected
  <2>2. CASE downs' = downs + 1
    BY <2>1, <2>2 DEF IInv
  <2>3. CASE Exit(i) /\ UNCHANGED <<storage, downs>>
    BY <2>3, <1>a, ExitKeeps DEF IInv
  <2> QED
    BY <1>9, <2>2, <2>3 DEF DownOne, Connected
<1>10. ASSUME NEW i \in Instance, OpenStorage(i) \/ LoadPolicies(i) \/ NewApp(i) \/ Serve(i)
  PROVE  IInv'
  <2>1. UNCHANGED <<storage, downs>> /\ pc[i] \in Past
    BY <1>10 DEF OpenStorage, LoadPolicies, NewApp, Serve, Connected, bounds, Past
  <2>2. CASE Exit(i)
    BY <2>1, <2>2, <1>a, ExitKeeps DEF IInv
  <2>3. CASE \E p \in Past : Goto(i, p)
    <3>1. PICK p \in Past : Goto(i, p)
      BY <2>3
    <3>2. p \in Place /\ p # "up"
      BY DEF Past, Place
    <3>3. downs = 0 => versions # <<>> /\ 4 \in Applied
      BY <2>1 DEF IInv, StorageInv, Positions, Operation
    <3> QED
      BY <3>1, <3>2, <3>3, <2>1, <1>b, GotoKeeps DEF IInv
  <2> QED
    BY <1>10, <2>2, <2>3 DEF OpenStorage, LoadPolicies, NewApp, Serve, Connected, Check, Past
<1>11. ASSUME NEW i \in Instance, Crash(i)  PROVE IInv'
  BY <1>11, <1>a, ExitKeeps DEF Crash, IInv
<1>12. ASSUME NEW i \in Instance, Store(i)  PROVE IInv'
  BY <1>12
  DEF Store, bounds, process, IInv, StorageInv, Unbroken, Positions, RowsInTable, Operation, Past, Applied
<1>13. CASE Outage \/ Recovery \/ Edit \/ UNCHANGED vars
  BY <1>13
  DEF Outage, Recovery, Edit, vars, bounds, process, storage,
      IInv, StorageInv, Unbroken, Positions, RowsInTable, Operation, Past, Applied
<1> QED
  BY <1>2, <1>3, <1>4, <1>5, <1>6, <1>7, <1>8, <1>9, <1>10, <1>11, <1>12, <1>13 DEF Next, Step

\* The invariant holds in every behaviour.
LEMMA Invariance == Spec => []IInv
BY IInvInit, IInvNext, PTL DEF Spec

\* Whichever instances start together, are overtaken, crash and start again,
\* and for any number of them: past its migrations an instance finds the whole
\* schema, and the recorded versions tell the schema.
THEOREM WholeSchemaServed == Spec => []ServesFullSchema
<1>1. IInv => ServesFullSchema
  <2> SUFFICES ASSUME IInv, downs = 0
               PROVE  /\ \A i \in Instance : pc[i] \in Past => schema = Object
                      /\ schema = UNION {File[v].adds : v \in Version \cap Applied}
    BY DEF ServesFullSchema, Past
  <2>1. CASE versions = <<>> /\ schema = {}
    <3>1. Applied = {}
      BY <2>1 DEF Applied, Range
    <3> QED
      BY <2>1, <3>1 DEF IInv, StorageInv, Positions
  <2>2. CASE \E k \in 0..4 : Applied = 0..k /\ schema = Schema(k)
    <3>1. PICK k \in 0..4 : Applied = 0..k /\ schema = Schema(k)
      BY <2>2
    <3>2. Version \cap Applied = 1..k
      BY <3>1 DEF Version
    <3>3. schema = UNION {File[v].adds : v \in Version \cap Applied}
      BY <3>1, <3>2, Zenon DEF Schema
    <3>4. ASSUME NEW i \in Instance, pc[i] \in Past  PROVE schema = Object
      <4>1. k = 4
        BY <3>1, <3>4 DEF IInv, StorageInv, Positions
      <4> QED
        BY <3>1, <4>1, Schemas
    <3> QED
      BY <3>3, <3>4
  <2> QED
    BY <2>1, <2>2 DEF IInv, StorageInv, Unbroken
<1> QED
  BY <1>1, Invariance, PTL

\* A file can fail only under an instance that another has overtaken: what the
\* instances before it have left half done never stops one that starts alone.
THEOREM OnlyOvertakenFail == Spec => []FailsOnlyOvertaken
<1>1. IInv => FailsOnlyOvertaken
  <2> SUFFICES ASSUME IInv, downs = 0, NEW i \in Instance, pc[i] = "up", next[i] \in Version,
                      ~ CanApply(next[i])
               PROVE  next[i] <= Newest
    BY DEF FailsOnlyOvertaken
  <2>1. next[i] - 1 \in Applied /\ next[i] \in 1..4 /\ versions # <<>>
    BY DEF IInv, StorageInv, Positions, Operation, Version
  <2>2. PICK k \in 0..4 : Applied = 0..k /\ schema = Schema(k)
    BY <2>1 DEF IInv, StorageInv, Unbroken
  <2>3. CASE next[i] = k + 1
    <3>1. k \in 0..3
      BY <2>1, <2>3
    <3> QED
      BY <2>2, <2>3, <3>1, NextApplies
  <2>4. Newest = k
    BY <2>2, NewestIsLast
  <2>5. next[i] - 1 \in 0..k
    BY <2>1, <2>2
  <2> QED
    BY <2>1, <2>3, <2>4, <2>5
<1> QED
  BY <1>1, Invariance, PTL

\* The truncate of the last migration is never carried out over rows: they are
\* stored under a table that has its target_id, and then the file fails whole.
THEOREM RowsAreKept == Spec => RowsStay
<1>1. IInv /\ [Next]_vars => (downs' = 0 => rows \subseteq rows')
  <2> SUFFICES ASSUME IInv, [Next]_vars, downs' = 0  PROVE rows \subseteq rows'
    OBVIOUS
  <2>1. ASSUME NEW i \in Instance, Up(i)  PROVE rows \subseteq rows'
    <3>1. CASE rows' = rows
      BY <3>1
    <3>2. CASE CanApply(next[i]) /\ Commit(i, next[i]) /\ File[next[i]].truncates
      <4>1. next[i] = 4
        BY <3>2, <2>1 DEF Up, AtEnd, Version, File, init_tables, query_results_as_uuid, bookmarks
      <4>2. "target_id" \notin schema
        BY <3>2, <4>1 DEF CanApply, File, add_target_id
      <4>3. downs = 0
        BY <3>2 DEF Commit
      <4> QED
        BY <4>2, <4>3 DEF IInv, StorageInv, RowsInTable
    <3> QED
      BY <2>1, <3>1, <3>2 DEF Up, Connected, Apply, Commit, storage
  <2>2. ASSUME NEW i \in Instance, DownOne(i)  PROVE rows \subseteq rows'
    BY <2>2 DEF DownOne, Connected, storage, IInv
  <2>3. CASE \/ \E i \in Instance : \/ Run(i) \/ Operate(i) \/ newMigrator(i) \/ ReadVersions(i)
                                     \/ CreateVersions(i) \/ ListMigrations(i) \/ Migrated(i)
                                     \/ CurrentVersion(i) \/ OpenStorage(i) \/ LoadPolicies(i)
                                     \/ NewApp(i) \/ Serve(i) \/ Store(i) \/ Crash(i)
             \/ Outage \/ Recovery \/ Edit \/ UNCHANGED vars
    BY <2>3
    DEF Run, Operate, Start, newMigrator, ReadVersions, CreateVersions, ListMigrations, Migrated,
        CurrentVersion, OpenStorage, LoadPolicies, NewApp, Serve, Store, Crash, Outage, Recovery,
        Edit, Connected, vars, storage
  <2> QED
    BY <2>1, <2>2, <2>3 DEF Next, Step
<1> QED
  BY <1>1, Invariance, PTL DEF Spec, RowsStay
-----------------------------------------------------------------------------
(* Types, also after a migrate-down *)

\* Induction, on the set of the numbers that have the property.
LEMMA NatSetInduction ==
  ASSUME NEW T, 0 \in T, \A n \in Nat : n \in T => n + 1 \in T
  PROVE  Nat \subseteq T
<1> DEFINE U == Nat \ T
           R == {ss \in Nat \X Nat : ss[1] < ss[2]}
<1> SUFFICES ASSUME U # {}  PROVE FALSE
  OBVIOUS
<1>1. IsWellFoundedOn(R, Nat)
  BY NatLessThanWellFounded DEF OpToRel
<1>2. U \subseteq Nat
  OBVIOUS
<1>3. PICK n \in U : \A k \in U : <<k, n>> \notin R
  <2> HIDE DEF R, U
  <2> QED
    BY <1>1, <1>2, WFMin
<1>4. n # 0 /\ n - 1 \in Nat /\ (n - 1) + 1 = n
  OBVIOUS
<1>5. n - 1 \notin U
  <2>1. <<n - 1, n>> \in R
    BY <1>4
  <2> HIDE DEF R
  <2> QED
    BY <1>3, <2>1
<1>6. (n - 1) + 1 \in T
  BY <1>4, <1>5
<1> QED
  BY <1>4, <1>6

\* The definition of what is kept of the first n records.
IsKept(g, s, v, n) ==
  g = [k \in 0..n |-> IF k = 0 THEN <<>>
                       ELSE IF s[k] = v THEN g[k - 1] ELSE Append(g[k - 1], s[k])]

\* It exists, for any number of records.
LEMMA KeptExists ==
  ASSUME NEW s, NEW v, NEW n \in Nat
  PROVE  \E g : IsKept(g, s, v, n)
<1> DEFINE step_(h, k) == IF k = 0 THEN <<>>
                          ELSE IF s[k] = v THEN h[k - 1] ELSE Append(h[k - 1], s[k])
           T == {k \in Nat : \E g : IsKept(g, s, v, k)}
<1>1. 0 \in T
  <2> DEFINE g == [k \in 0..0 |-> <<>>]
  <2>1. g = [k \in 0..0 |-> step_(g, k)]
    OBVIOUS
  <2> HIDE DEF g
  <2> QED
    BY <2>1 DEF IsKept
<1>2. ASSUME NEW k \in Nat, k \in T  PROVE k + 1 \in T
  <2>1. PICK g : g = [i \in 0..k |-> step_(g, i)]
    BY <1>2 DEF IsKept
  <2> DEFINE h == [i \in 0..(k + 1) |-> step_(g, i)]
  <2>2. ASSUME NEW i \in 0..(k + 1), i # 0  PROVE h[i - 1] = g[i - 1]
    <3>1. i - 1 \in 0..k /\ i - 1 \in 0..(k + 1)
      BY <2>2
    <3>2. g[i - 1] = step_(g, i - 1) /\ h[i - 1] = step_(g, i - 1)
      <4> HIDE DEF step_
      <4> QED
        BY <2>1, <3>1
    <3> QED
      BY <3>2
  <2>3. h = [i \in 0..(k + 1) |-> step_(h, i)]
    BY <2>2
  <2> HIDE DEF h
  <2> QED
    BY <2>3 DEF IsKept
<1> HIDE DEF T
<1>3. Nat \subseteq T
  BY <1>1, <1>2, NatSetInduction
<1> QED
  BY <1>3 DEF T

\* What is left of a sequence: it has every element but the one that goes.
LEMMA WithoutIs ==
  ASSUME NEW S, NEW s \in Seq(S), NEW v
  PROVE  Without(s, v) \in Seq(S) /\ Range(Without(s, v)) = Range(s) \ {v}
<1> DEFINE N == Len(s)
           kept == CHOOSE g : IsKept(g, s, v, N)
           T == {n \in Nat : n <= N =>
                   kept[n] \in Seq(S) /\ Range(kept[n]) = {s[k] : k \in 1..n} \ {v}}
<1>1. N \in Nat /\ DOMAIN s = 1..N
  OBVIOUS
<1>2. Without(s, v) = kept[N]
  BY DEF Without, IsKept
<1>3. IsKept(kept, s, v, N)
  <2> HIDE DEF N
  <2> QED
    BY <1>1, KeptExists
<1> HIDE DEF kept, N
<1>4. kept[0] = <<>>
  BY <1>1, <1>3 DEF IsKept
<1>5. ASSUME NEW n \in 1..N
      PROVE  kept[n] = IF s[n] = v THEN kept[n - 1] ELSE Append(kept[n - 1], s[n])
  <2>1. n \in 0..N /\ n # 0
    BY <1>1
  <2> QED
    BY <2>1, <1>3 DEF IsKept
<1>6. 0 \in T
  <2>1. {s[k] : k \in 1..0} = {} /\ Range(<<>>) = {} /\ <<>> \in Seq(S)
    BY DEF Range
  <2> QED
    BY <2>1, <1>4
<1>7. ASSUME NEW n \in Nat, n \in T  PROVE n + 1 \in T
  <2> SUFFICES ASSUME n + 1 <= N
               PROVE  /\ kept[n + 1] \in Seq(S)
                      /\ Range(kept[n + 1]) = {s[k] : k \in 1..(n + 1)} \ {v}
    OBVIOUS
  <2>1. n + 1 \in 1..N /\ (n + 1) - 1 = n /\ n <= N
    BY <1>1
  <2>2. s[n + 1] \in S
    BY <2>1 DEF N
  <2>3. {s[k] : k \in 1..(n + 1)} = {s[k] : k \in 1..n} \cup {s[n + 1]}
    <3>1. 1..(n + 1) = (1..n) \cup {n + 1}
      OBVIOUS
    <3> QED
      BY <3>1, Zenon
  <2>4. kept[n] \in Seq(S) /\ Range(kept[n]) = {s[k] : k \in 1..n} \ {v}
    BY <1>7, <2>1
  <2>5. CASE s[n + 1] = v
    <3>1. kept[n + 1] = kept[n]
      BY <2>1, <2>5, <1>5
    <3> QED
      BY <3>1, <2>3, <2>4, <2>5
  <2>6. CASE s[n + 1] # v
    <3>1. kept[n + 1] = Append(kept[n], s[n + 1])
      BY <2>1, <2>6, <1>5
    <3>2. kept[n + 1] \in Seq(S) /\ Range(kept[n + 1]) = Range(kept[n]) \cup {s[n + 1]}
      BY <3>1, <2>2, <2>4, RangeGrows
    <3> QED
      BY <3>2, <2>3, <2>4, <2>6
  <2> QED
    BY <2>5, <2>6
<1> HIDE DEF T
<1>8. N \in T
  BY <1>1, <1>6, <1>7, NatSetInduction
<1>9. Range(s) = {s[k] : k \in 1..N}
  BY <1>1 DEF Range
<1> QED
  BY <1>1, <1>2, <1>8, <1>9 DEF T
Migrating == {"list", "up", "current"}

\* A storage that has records has the one of version 0, and an instance is
\* past reading them only then.
Recorded ==
  /\ versions # <<>> => 0 \in Applied
  /\ \A i \in Instance : pc[i] \in Migrating => versions # <<>>

\* All that type correctness rests on.
TypeInv == TypeOK /\ Recorded

\* The newest version is one, if goose has recorded any.
LEMMA NewestIsVersion ==
  ASSUME versions \in Seq(0..4), 0 \in Applied
  PROVE  Newest \in 0..4
<1>1. Applied \subseteq 0..4
  BY DEF Applied, Range
<1>2. PICK k \in 0..4 : k \in Applied /\ \A w \in (k + 1)..4 : w \notin Applied
  <2>1. CASE 4 \in Applied
    BY <2>1
  <2>2. CASE 4 \notin Applied /\ 3 \in Applied
    BY <2>2
  <2>3. CASE 4 \notin Applied /\ 3 \notin Applied /\ 2 \in Applied
    BY <2>3
  <2>4. CASE 4 \notin Applied /\ 3 \notin Applied /\ 2 \notin Applied /\ 1 \in Applied
    BY <2>4
  <2>5. CASE 4 \notin Applied /\ 3 \notin Applied /\ 2 \notin Applied /\ 1 \notin Applied
    BY <2>5
  <2> QED
    BY <2>1, <2>2, <2>3, <2>4, <2>5
<1>3. ASSUME NEW w \in Applied  PROVE w <= k
  <2>1. w \in 0..4 /\ w \notin (k + 1)..4
    BY <1>1, <1>2, <1>3
  <2> QED
    BY <2>1
<1>4. Newest \in Applied
  BY <1>2, <1>3 DEF Newest
<1> QED
  BY <1>1, <1>4

\* A file adds only what the storage may have.
LEMMA AddsObjects ==
  ASSUME NEW v \in Version
  PROVE  File[v].adds \subseteq Object
BY DEF Version, Object, File, init_tables, query_results_as_uuid, bookmarks, add_target_id

\* Steps that leave the storage alone.
LEMMA TypesOfSteps ==
  ASSUME TypeInv, UNCHANGED storage,
         pc' \in [Instance -> Place], command' \in [Instance -> Command],
         cfg' \in [Instance -> Fault \cup {"none"}], next' \in [Instance -> 1..5],
         file' \in Fault \cup {"none"}, down' \subseteq {"storage", "idp"},
         troubles' \in Nat, downs' \in Nat,
         \A i \in Instance : pc'[i] \in Migrating => pc'[i] = pc[i] \/ versions # <<>>
  PROVE  TypeInv'
BY DEF TypeInv, TypeOK, Recorded, storage, Applied

\* What ending and going on leave of the process.
LEMMA TypesOfExit ==
  ASSUME TypeInv, NEW i \in Instance, Exit(i)
  PROVE  /\ pc' \in [Instance -> Place] /\ command' \in [Instance -> Command]
         /\ cfg' \in [Instance -> Fault \cup {"none"}] /\ next' \in [Instance -> 1..5]
         /\ \A j \in Instance : pc'[j] \in Migrating => pc'[j] = pc[j]
BY DEF TypeInv, TypeOK, Exit, Place, Command, Migrating

LEMMA TypesOfGoto ==
  ASSUME TypeInv, NEW i \in Instance, NEW p \in Place, Goto(i, p)
  PROVE  /\ pc' \in [Instance -> Place] /\ command' \in [Instance -> Command]
         /\ cfg' \in [Instance -> Fault \cup {"none"}] /\ next' \in [Instance -> 1..5]
         /\ \A j \in Instance : pc'[j] \in Migrating => pc'[j] = pc[j] \/ p \in Migrating
BY DEF TypeInv, TypeOK, Goto

LEMMA TypeInvInit == Init => TypeInv
<1> SUFFICES ASSUME Init  PROVE TypeInv
  OBVIOUS
<1>1. /\ pc \in [Instance -> Place] /\ command \in [Instance -> Command]
      /\ cfg \in [Instance -> Fault \cup {"none"}] /\ next \in [Instance -> 1..5]
      /\ file \in Fault \cup {"none"} /\ rows \subseteq Instance /\ down \subseteq {"storage", "idp"}
      /\ troubles \in Nat /\ downs \in Nat
      /\ \A i \in Instance : pc[i] \notin Migrating
  BY DEF Init, Place, Command, Migrating
<1>2. CASE versions = <<>> /\ schema = {}
  BY <1>1, <1>2 DEF TypeInv, TypeOK, Recorded
<1>3. CASE \E v \in {0} \cup Version : versions = [n \in 1..(v + 1) |-> n - 1] /\ schema = Schema(v)
  <2>1. PICK v \in 0..4 : versions = [n \in 1..(v + 1) |-> n - 1] /\ schema = Schema(v)
    BY <1>3 DEF Version
  <2>2. versions \in [1..(v + 1) -> 0..4] /\ v + 1 \in Nat
    BY <2>1
  <2>3. versions \in Seq(0..4)
    BY <2>2
  <2>4. 1 \in DOMAIN versions /\ versions[1] = 0
    BY <2>1
  <2>5. 0 \in Applied
    BY <2>4 DEF Applied, Range
  <2>6. schema \subseteq Object
    <3>1. ASSUME NEW w \in 1..v  PROVE File[w].adds \subseteq Object
      BY AddsObjects DEF Version
    <3> QED
      BY <2>1, <3>1 DEF Schema
  <2> QED
    BY <1>1, <2>3, <2>5, <2>6 DEF TypeInv, TypeOK, Recorded
<1> QED
  BY <1>2, <1>3 DEF Init

\* Every step keeps the types.
LEMMA TypeInvNext == TypeInv /\ [Next]_vars => TypeInv'
<1> SUFFICES ASSUME TypeInv, [Next]_vars  PROVE TypeInv'
  OBVIOUS
<1>e. ASSUME NEW i \in Instance, Exit(i), UNCHANGED <<file, storage, down, downs>>, troubles' \in Nat
      PROVE  TypeInv'
  BY <1>e, TypesOfExit, TypesOfSteps DEF TypeInv, TypeOK
<1>g. ASSUME NEW i \in Instance, NEW p \in Place, Goto(i, p),
             UNCHANGED <<file, storage, down, downs>>, troubles' \in Nat,
             p \in Migrating => versions # <<>>
      PROVE  TypeInv'
  BY <1>g, TypesOfGoto, TypesOfSteps DEF TypeInv, TypeOK
<1>n. ASSUME NEW i \in Instance, NEW p \in {"up", "down"}, NEW v \in 1..5, versions # <<>>,
             pc' = [pc EXCEPT ![i] = p], next' = [next EXCEPT ![i] = v],
             UNCHANGED <<command, cfg, file, storage, down, bounds>>
      PROVE  TypeInv'
  <2>1. p \in Place
    BY DEF Place
  <2> QED
    BY <1>n, <2>1, TypesOfSteps DEF TypeInv, TypeOK, bounds
<1>t. troubles \in Nat /\ (Trouble => troubles' \in Nat)
  BY DEF TypeInv, TypeOK, Trouble
<1>1. ASSUME NEW i \in Instance, NEW c \in Command, Start(i, c), troubles' \in Nat  PROVE TypeInv'
  <2>1. CASE Exit(i)
    BY <1>1, <1>e, <2>1 DEF Start
  <2>2. CASE ~ Exit(i)
    <3>1. /\ pc' = [pc EXCEPT ![i] = "migrator"] /\ command' = [command EXCEPT ![i] = c]
          /\ cfg' = [cfg EXCEPT ![i] = file] /\ UNCHANGED <<next, file, storage, down, downs>>
      BY <1>1, <2>2 DEF Start
    <3> QED
      BY <3>1, <1>1, TypesOfSteps DEF TypeInv, TypeOK, Place, Migrating
  <2> QED
    BY <2>1, <2>2
<1>2. CASE \E i \in Instance : Run(i) \/ Operate(i)
  BY <1>1, <1>2, <1>t DEF Run, Operate, Command
<1>3. ASSUME NEW i \in Instance, newMigrator(i) \/ ReadVersions(i)  PROVE TypeInv'
  <2>1. UNCHANGED <<file, storage, down, downs>> /\ troubles' \in Nat
    BY <1>3, <1>t DEF newMigrator, ReadVersions, Connected
  <2>2. CASE Exit(i)
    BY <2>1, <2>2, <1>e
  <2>3. CASE \E p \in {"versions", "create", "list", "current"} :
               Goto(i, p) /\ (p \in Migrating => versions # <<>>)
    BY <2>1, <2>3, <1>g DEF Place
  <2> QED
    BY <1>3, <2>2, <2>3 DEF newMigrator, ReadVersions, Connected, Migrating
<1>4. ASSUME NEW i \in Instance, CreateVersions(i)  PROVE TypeInv'
  <2>1. CASE versions = <<>> /\ versions' = <<0>>
    <3>1. UNCHANGED <<file, schema, rows, down, downs, troubles>>
      BY <1>4, <2>1 DEF CreateVersions, Connected, storage
    <3>2. Exit(i) \/ \E p \in {"current", "list"} : Goto(i, p)
      BY <1>4 DEF CreateVersions, Connected, Check
    <3>3. /\ pc' \in [Instance -> Place] /\ command' \in [Instance -> Command]
          /\ cfg' \in [Instance -> Fault \cup {"none"}] /\ next' \in [Instance -> 1..5]
      BY <3>2, TypesOfExit, TypesOfGoto DEF Place
    <3>4. versions' \in Seq(0..4) /\ versions' # <<>> /\ 0 \in Applied'
      BY <2>1 DEF Applied, Range
    <3> QED
      BY <3>1, <3>3, <3>4 DEF TypeInv, TypeOK, Recorded
  <2>2. CASE Exit(i) /\ UNCHANGED <<storage, downs>>
    BY <1>4, <2>2, <1>e, <1>t DEF CreateVersions
  <2> QED
    BY <1>4, <2>1, <2>2 DEF CreateVersions, Connected, Check, storage
<1>5. ASSUME NEW i \in Instance, ListMigrations(i)  PROVE TypeInv'
  <2>1. UNCHANGED <<file, storage, down, bounds>> /\ pc[i] = "list"
    BY <1>5 DEF ListMigrations, Connected, bounds
  <2>2. CASE Exit(i)
    BY <2>1, <2>2, <1>e, <1>t DEF bounds
  <2>3. CASE ~ Exit(i)
    <3>1. /\ pc' = [pc EXCEPT ![i] = "up"] /\ next' = [next EXCEPT ![i] = FirstOfList]
          /\ UNCHANGED <<command, cfg>>
      BY <1>5, <2>3 DEF ListMigrations, Connected
    <3>2. FirstOfList \in 1..5
      <4>1. Newest \in 0..4
        BY <2>1, NewestIsVersion DEF TypeInv, TypeOK, Recorded, Migrating
      <4> QED
        BY <4>1 DEF FirstOfList
    <3>3. versions # <<>>
      BY <2>1 DEF TypeInv, Recorded, Migrating
    <3> QED
      BY <3>1, <3>2, <3>3, <2>1, <1>n
  <2> QED
    BY <2>2, <2>3
<1>6. ASSUME NEW i \in Instance, Up(i)  PROVE TypeInv'
  <2>1. UNCHANGED <<file, down, troubles>>
    BY <1>6 DEF Up
  <2>2. CASE Exit(i) /\ UNCHANGED <<storage, downs>>
    BY <2>1, <2>2, <1>e, <1>t
  <2>3. CASE Commit(i, next[i])
    <3>1. next[i] \in Version /\ next[i] \in 1..4 /\ next[i] + 1 \in 1..5
      BY <1>6 DEF Up, AtEnd, Version
    <3>2. versions' \in Seq(0..4) /\ versions' # <<>> /\ Applied' = Applied \cup {next[i]}
      BY <2>3, <3>1, AppliedGrows DEF Commit, TypeInv, TypeOK
    <3>3. schema' \subseteq Object
      BY <2>3, <3>1, AddsObjects DEF Commit, TypeInv, TypeOK
    <3>4. rows' \subseteq Instance /\ next' \in [Instance -> 1..5] /\ UNCHANGED <<pc, command, cfg, downs>>
      BY <2>3, <3>1 DEF Commit, TypeInv, TypeOK
    <3>5. 0 \in Applied
      BY <1>6 DEF Up, TypeInv, Recorded, Migrating
    <3> QED
      BY <2>1, <3>2, <3>3, <3>4, <3>5 DEF TypeInv, TypeOK, Recorded
  <2> QED
    BY <1>6, <2>2, <2>3 DEF Up, Connected, Apply
<1>7. ASSUME NEW i \in Instance, Migrated(i)  PROVE TypeInv'
  BY <1>7, <1>e, <1>g, <1>t DEF Migrated, bounds, Place, Migrating
<1>8. ASSUME NEW i \in Instance, CurrentVersion(i)  PROVE TypeInv'
  <2>1. UNCHANGED <<file, storage, down, bounds>> /\ pc[i] = "current"
    BY <1>8 DEF CurrentVersion, Connected, bounds
  <2>2. CASE Exit(i)
    BY <2>1, <2>2, <1>e, <1>t DEF bounds
  <2>3. CASE ~ Exit(i)
    <3>1. /\ pc' = [pc EXCEPT ![i] = "down"] /\ next' = [next EXCEPT ![i] = Last(versions)]
          /\ UNCHANGED <<command, cfg>> /\ Last(versions) # 0
      BY <1>8, <2>3 DEF CurrentVersion, Connected
    <3>2. versions # <<>> /\ versions \in Seq(0..4)
      BY <2>1 DEF TypeInv, TypeOK, Recorded, Migrating
    <3>3. Len(versions) \in 1..Len(versions)
      BY <3>2
    <3>4. Last(versions) \in 1..5
      BY <3>1, <3>2, <3>3 DEF Last
    <3> QED
      BY <3>1, <3>2, <3>4, <2>1, <1>n
  <2> QED
    BY <2>2, <2>3
<1>9. ASSUME NEW i \in Instance, DownOne(i)  PROVE TypeInv'
  <2>1. UNCHANGED <<file, down, troubles>>
    BY <1>9 DEF DownOne
  <2>2. CASE Exit(i) /\ UNCHANGED <<storage, downs>>
    BY <2>1, <2>2, <1>e, <1>t
  <2>3. CASE ~ UNCHANGED <<storage, downs>>
    <3>1. /\ schema' \subseteq schema /\ rows' \subseteq rows /\ downs' = downs + 1
          /\ versions' = Without(versions, next[i]) /\ Exit(i)
      BY <1>9, <2>3 DEF DownOne, Connected
    <3>2. next[i] # 0 /\ versions \in Seq(0..4) /\ downs' \in Nat
      BY <3>1 DEF TypeInv, TypeOK
    <3>3. versions' \in Seq(0..4) /\ Applied' = Applied \ {next[i]}
      BY <3>1, <3>2, WithoutIs DEF Applied
    <3>4. versions # <<>> => versions' # <<>> /\ 0 \in Applied'
      <4>1. versions # <<>> => 0 \in Applied'
        BY <3>2, <3>3 DEF TypeInv, Recorded
      <4>2. versions' = <<>> => Applied' = {}
        BY DEF Applied, Range
      <4> QED
        BY <4>1, <4>2
    <3>5. versions = <<>> => versions' = <<>>
      <4> SUFFICES ASSUME versions = <<>>  PROVE versions' = <<>>
        OBVIOUS
      <4>1. Applied' = {}
        BY <3>3 DEF Applied, Range
      <4>2. Len(versions') \notin 1..Len(versions')
        BY <3>3, <4>1 DEF Applied, Range
      <4> QED
        BY <3>3, <4>2
    <3> QED
      BY <2>1, <3>1, <3>2, <3>3, <3>4, <3>5, TypesOfExit DEF TypeInv, TypeOK, Recorded
  <2> QED
    BY <1>9, <2>2, <2>3 DEF DownOne, Connected
<1>10. ASSUME NEW i \in Instance, OpenStorage(i) \/ LoadPolicies(i) \/ NewApp(i) \/ Serve(i)
  PROVE  TypeInv'
  <2>1. UNCHANGED <<file, storage, down, downs>> /\ troubles' \in Nat
    BY <1>10, <1>t DEF OpenStorage, LoadPolicies, NewApp, Serve, Connected, bounds
  <2>2. CASE Exit(i)
    BY <2>1, <2>2, <1>e
  <2>3. CASE \E p \in {"policy", "app", "validate", "serving"} : Goto(i, p)
    BY <2>1, <2>3, <1>g DEF Place, Migrating
  <2> QED
    BY <1>10, <2>2, <2>3 DEF OpenStorage, LoadPolicies, NewApp, Serve, Connected, Check
<1>11. ASSUME NEW i \in Instance, Crash(i)  PROVE TypeInv'
  BY <1>11, <1>e, <1>t DEF Crash
<1>12. ASSUME NEW i \in Instance, Store(i)  PROVE TypeInv'
  BY <1>12 DEF Store, bounds, process, TypeInv, TypeOK, Recorded, Applied
<1>13. CASE Outage \/ Recovery \/ Edit \/ UNCHANGED vars
  <2>1. /\ UNCHANGED <<process, storage, downs>> /\ troubles' \in Nat
        /\ file' \in Fault \cup {"none"} /\ down' \subseteq {"storage", "idp"}
        /\ rows' \subseteq Instance
    BY <1>13, <1>t DEF Outage, Recovery, Edit, vars, bounds, process, storage, TypeInv, TypeOK
  <2> QED
    BY <2>1, TypesOfSteps DEF process, TypeInv, TypeOK
<1> QED
  BY <1>2, <1>3, <1>4, <1>5, <1>6, <1>7, <1>8, <1>9, <1>10, <1>11, <1>12, <1>13 DEF Next, Step

\* Types are kept, for any number of instances and also after a migrate-down:
\* what goose has recorded are versions, and a list begins within them.
THEOREM TypeCorrect == Spec => []TypeOK
<1>1. TypeInv => TypeOK
  BY DEF TypeInv
<1> QED
  BY <1>1, TypeInvInit, TypeInvNext, PTL DEF Spec
=============================================================================
