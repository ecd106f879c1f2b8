------------------------------- MODULE Startup -------------------------------
(***************************************************************************)
(* The commands of the gateway from main() to the moment it serves: the    *)
(* configuration file, the migrations of the storage, the storage itself,  *)
(* the policies, the identity provider, the checks.  Several instances     *)
(* start, crash and start again on one storage, with no lock between them, *)
(* beside an operator who runs migrate-up and migrate-down-one.            *)
(*                                                                         *)
(* goose is external: it looks up the versions that are applied, makes the *)
(* list of those to come, and runs each file in a transaction that also    *)
(* records its version.  Such a transaction is one step here: what it does *)
(* is seen when it commits, and nothing of it is left when it fails.       *)
(***************************************************************************)
EXTENDS Integers, FiniteSets, Sequences, SequencesExt

CONSTANTS
  Instance,
  MaxTroubles   \* bound: how many crashes, outages, edits and commands of the operator

ASSUME StartupAssumption == MaxTroubles \in Nat

\* What may be wrong with the configuration file: it is not JSON, policy.path
\* is left out, the policies do not compile, the targets are left out, there is
\* no role mapping, a table has no schema prefix, a mapped role is unknown, the
\* cookie secret is empty, the port is left out.
Fault == {"json", "path", "rego", "targets", "roles", "tables", "role", "secret", "port"}

Command == {"run", "migrate-up", "migrate-down-one"}

Object == {"query_results", "id_uuid", "bookmarks", "target_id"}
Version == 1..4

\* The files of storage/migrations.  Up: what a file needs, what it clashes with,
\* what it adds, whether it empties query_results; down: what it needs and drops.
\* The id column can be made a uuid again when it is one.
init_tables ==
  [needs |-> {}, clashes |-> {"query_results"}, adds |-> {"query_results"}, truncates |-> FALSE,
   downNeeds |-> {"query_results"}, drops |-> {"query_results", "id_uuid", "target_id"}]
query_results_as_uuid ==
  [needs |-> {"query_results"}, clashes |-> {}, adds |-> {"id_uuid"}, truncates |-> FALSE,
   downNeeds |-> {"query_results"}, drops |-> {"id_uuid"}]
bookmarks ==
  [needs |-> {}, clashes |-> {"bookmarks"}, adds |-> {"bookmarks"}, truncates |-> FALSE,
   downNeeds |-> {"bookmarks"}, drops |-> {"bookmarks"}]
add_target_id ==
  [needs |-> {"query_results"}, clashes |-> {"target_id"}, adds |-> {"target_id"}, truncates |-> TRUE,
   downNeeds |-> {"target_id"}, drops |-> {"target_id"}]

File == <<init_tables, query_results_as_uuid, bookmarks, add_target_id>>

Schema(v) == UNION {File[w].adds : w \in 1..v}

Place == {"off", "migrator", "versions", "create", "list", "up", "current", "down",
          "storage", "policy", "app", "validate", "serving"}

VARIABLES
  pc,        \* where the process of each instance is
  command,   \* what it runs
  cfg,       \* the configuration it has read
  next,      \* the first version of its list that is not done: the list is next..4
  file,      \* the configuration file
  schema, rows, versions,      \* the storage: goose_migrations is <<>> before its creation
  down,      \* which of the storage and the identity provider cannot be reached
  troubles,
  downs      \* for the properties: how often a migration was rolled back

process == <<pc, command, cfg, next>>
storage == <<schema, rows, versions>>
bounds == <<troubles, downs>>
vars == <<process, file, storage, down, bounds>>

Applied == Range(versions)

\* A newest that is the version recorded last, which a late instance may have been.
Newest_Last == Last(versions)
Newest == CHOOSE v \in Applied : \A w \in Applied : w <= v

Missing == {v \in Version : v \notin Applied /\ \E w \in Applied : v < w}

\* A storage no release has touched, or one that an earlier release has left.
Init ==
  /\ pc = [i \in Instance |-> "off"]
  /\ command = [i \in Instance |-> "run"]
  /\ cfg = [i \in Instance |-> "none"]
  /\ next = [i \in Instance |-> 1]
  /\ file \in Fault \cup {"none"}
  /\ \/ versions = <<>> /\ schema = {}
     \/ \E v \in {0} \cup Version : versions = [n \in 1..(v + 1) |-> n - 1] /\ schema = Schema(v)
  /\ rows = {}
  /\ down = {}
  /\ troubles = 0 /\ downs = 0

-----------------------------------------------------------------------------
(* Steps of a process *)

Goto(i, p) == pc' = [pc EXCEPT ![i] = p] /\ UNCHANGED <<command, cfg, next>>

\* main() prints the error, if any, and exits.
Exit(i) ==
  /\ pc' = [pc EXCEPT ![i] = "off"]
  /\ command' = [command EXCEPT ![i] = "run"]
  /\ cfg' = [cfg EXCEPT ![i] = "none"]
  /\ next' = [next EXCEPT ![i] = 1]

Check(i, ok, p) == IF ok THEN Goto(i, p) ELSE Exit(i)

\* Every step that talks to the storage.
Connected(i, step) == IF "storage" \in down
                        THEN Exit(i) /\ UNCHANGED <<storage, downs>>
                        ELSE step

\* withConfig; a relative policy.path, the empty one too, is joined to the
\* directory of the file.
Start(i, c) ==
  /\ pc[i] = "off"
  /\ IF file = "json"
       THEN Exit(i)
       ELSE /\ pc' = [pc EXCEPT ![i] = "migrator"]
            /\ command' = [command EXCEPT ![i] = c]
            /\ cfg' = [cfg EXCEPT ![i] = file]
            /\ UNCHANGED next
  /\ UNCHANGED <<file, storage, down, downs>>

\* The deployment runs an instance, again when it has ended.
Run(i) == Start(i, "run") /\ UNCHANGED troubles

Trouble == troubles < MaxTroubles /\ troubles' = troubles + 1

Operate(i) ==
  /\ Trouble
  /\ \E c \in Command \ {"run"} : Start(i, c)

\* ConnectToPg pings.
newMigrator(i) ==
  /\ pc[i] = "migrator"
  /\ Connected(i, Goto(i, "versions") /\ UNCHANGED <<storage, downs>>)
  /\ UNCHANGED <<file, down, troubles>>

\* goose reads its table.
ReadVersions(i) ==
  /\ pc[i] = "versions"
  /\ Connected(i,
       /\ Goto(i, IF versions = <<>> THEN "create"
                  ELSE IF command[i] = "migrate-down-one" THEN "current" ELSE "list")
       /\ UNCHANGED <<storage, downs>>)
  /\ UNCHANGED <<file, down, troubles>>

\* And creates it, with version 0, when there is none.
CreateVersions(i) ==
  /\ pc[i] = "create"
  /\ Connected(i,
       /\ Check(i, versions = <<>>, IF command[i] = "migrate-down-one" THEN "current" ELSE "list")
       /\ versions' = IF versions = <<>> THEN <<0>> ELSE versions
       /\ UNCHANGED <<schema, rows, downs>>)
  /\ UNCHANGED <<file, down, troubles>>

\* Where a list begins.
FirstOfList == Newest + 1

\* Migrator.Up makes the list of what is newer than the newest, and refuses
\* when an older version is missing.
ListMigrations(i) ==
  /\ pc[i] = "list"
  /\ Connected(i,
       /\ IF Missing # {}
            THEN Exit(i)
            ELSE /\ pc' = [pc EXCEPT ![i] = "up"]
                 /\ next' = [next EXCEPT ![i] = FirstOfList]
                 /\ UNCHANGED <<command, cfg>>
       /\ UNCHANGED <<storage, downs>>)
  /\ UNCHANGED <<file, down, troubles>>

CanApply(v) == File[v].needs \subseteq schema /\ File[v].clashes \cap schema = {}

\* What a file does when it can be applied.
Commit(i, v) ==
  /\ schema' = schema \cup File[v].adds
  /\ rows' = IF File[v].truncates THEN {} ELSE rows
  /\ versions' = Append(versions, v)
  /\ next' = [next EXCEPT ![i] = v + 1]
  /\ UNCHANGED <<pc, command, cfg, downs>>

\* Files run without a transaction: a truncate stays when the rest fails, a
\* file is done and its version not recorded.
Apply_Piecewise(i, v) ==
  IF CanApply(v)
    THEN Commit(i, v)
    ELSE /\ rows' = IF File[v].truncates THEN {} ELSE rows
         /\ Exit(i) /\ UNCHANGED <<schema, versions, downs>>
Apply_Unrecorded(i, v) ==
  IF CanApply(v)
    THEN \/ Commit(i, v)
         \/ schema' = schema \cup File[v].adds /\ Exit(i) /\ UNCHANGED <<rows, versions, downs>>
    ELSE Exit(i) /\ UNCHANGED <<storage, downs>>

\* One file of the list.  A file that fails leaves nothing behind and ends
\* the process.
Apply(i, v) ==
  IF CanApply(v) THEN Commit(i, v) ELSE Exit(i) /\ UNCHANGED <<storage, downs>>

\* A list whose last file is left out.
AtEnd_Early(i) == next[i] >= 4
AtEnd(i) == next[i] \notin Version

Up(i) ==
  /\ pc[i] = "up"
  /\ ~ AtEnd(i)
  /\ Connected(i, Apply(i, next[i]))
  /\ UNCHANGED <<file, down, troubles>>

\* The end of the list: migrate-up is done, run opens the storage.
Migrated(i) ==
  /\ pc[i] = "up"
  /\ AtEnd(i)
  /\ IF command[i] = "run" THEN Goto(i, "storage") ELSE Exit(i)
  /\ UNCHANGED <<file, storage, down, bounds>>

\* Migrator.DownOne: the version that was recorded last, which need not be the
\* newest.
CurrentVersion(i) ==
  /\ pc[i] = "current"
  /\ Connected(i,
       /\ IF Last(versions) = 0
            THEN Exit(i)
            ELSE /\ pc' = [pc EXCEPT ![i] = "down"]
                 /\ next' = [next EXCEPT ![i] = Last(versions)]
                 /\ UNCHANGED <<command, cfg>>
       /\ UNCHANGED <<storage, downs>>)
  /\ UNCHANGED <<file, down, troubles>>

\* The records but those of one version.
Without(records, v) ==
  LET kept[n \in 0..Len(records)] ==
        IF n = 0 THEN <<>>
        ELSE IF records[n] = v THEN kept[n - 1] ELSE Append(kept[n - 1], records[n])
  IN kept[Len(records)]

\* Every record of the version goes.
DownOne(i) ==
  /\ pc[i] = "down"
  /\ Connected(i, LET v == next[i] IN
       IF File[v].downNeeds \subseteq schema
         THEN /\ schema' = schema \ File[v].drops
              /\ rows' = IF "query_results" \in File[v].drops THEN {} ELSE rows
              /\ versions' = Without(versions, v)
              /\ downs' = downs + 1
              /\ Exit(i)
         ELSE Exit(i) /\ UNCHANGED <<storage, downs>>)
  /\ UNCHANGED <<file, down, troubles>>

\* The pool of the storage, and storage.New.
OpenStorage(i) ==
  /\ pc[i] = "storage"
  /\ Connected(i, Goto(i, "policy") /\ UNCHANGED <<storage, downs>>)
  /\ UNCHANGED <<file, down, troubles>>

\* The directory of the policies; without a path that of the configuration
\* file, which may hold policies or not.
LoadModules(c) == IF c = "path" THEN BOOLEAN ELSE {TRUE}

\* opa.New compiles the two queries over them.
prepareQuery(c) == c # "rego"

LoadPolicies(i) ==
  /\ pc[i] = "policy"
  /\ \E found \in LoadModules(cfg[i]) : Check(i, found /\ prepareQuery(cfg[i]), "app")
  /\ UNCHANGED <<file, storage, down, bounds>>

\* app.New: its options and the role mapping, then the discovery at the identity
\* provider.
NewApp(i) ==
  /\ pc[i] = "app"
  /\ IF cfg[i] \in {"targets", "roles"}
       THEN Exit(i)
       ELSE Check(i, "idp" \notin down, "validate")
  /\ UNCHANGED <<file, storage, down, bounds>>

\* A configuration whose roles are not looked at.
Valid_AnyRole(c) == c # "tables"

\* Config.Validate: the tables, the mapped roles, and a path that is not empty,
\* which it never is by now.
Valid(c) == c \notin {"tables", "role"}

\* facade.New wants a cookie secret and a port.
NewFacade(c) == c \notin {"secret", "port"}

\* cmdRun: the checks, then the server starts.
Serve(i) ==
  /\ pc[i] = "validate"
  /\ Check(i, Valid(cfg[i]) /\ NewFacade(cfg[i]), "serving")
  /\ UNCHANGED <<file, storage, down, bounds>>

Step(i) ==
  \/ newMigrator(i) \/ ReadVersions(i) \/ CreateVersions(i) \/ ListMigrations(i)
  \/ Up(i) \/ Migrated(i) \/ CurrentVersion(i) \/ DownOne(i)
  \/ OpenStorage(i) \/ LoadPolicies(i) \/ NewApp(i) \/ Serve(i)

-----------------------------------------------------------------------------
(* What befalls them *)

\* A served query stores its result, if the table has the columns it names.
Store(i) ==
  /\ pc[i] = "serving"
  /\ "storage" \notin down
  /\ {"query_results", "target_id"} \subseteq schema
  /\ rows' = rows \cup {i}
  /\ UNCHANGED <<process, file, schema, versions, down, bounds>>

Crash(i) ==
  /\ Trouble
  /\ pc[i] # "off"
  /\ Exit(i)
  /\ UNCHANGED <<file, storage, down, downs>>

Outage ==
  /\ Trouble
  /\ \E s \in {"storage", "idp"} \ down : down' = down \cup {s}
  /\ UNCHANGED <<process, file, storage, downs>>

Recovery ==
  /\ down # {}
  /\ down' = {}
  /\ UNCHANGED <<process, file, storage, bounds>>

Edit ==
  /\ Trouble
  /\ \E f \in (Fault \cup {"none"}) \ {file} : file' = f
  /\ UNCHANGED <<process, storage, down, downs>>

Next ==
  \/ \E i \in Instance : Run(i) \/ Operate(i) \/ Step(i) \/ Store(i) \/ Crash(i)
  \/ Outage \/ Recovery \/ Edit

Spec == Init /\ [][Next]_vars

\* A process that runs takes its next step; the deployment starts what has
\* ended; an outage ends.
FairSpec == Spec /\ (\A i \in Instance : WF_vars(Step(i)) /\ WF_vars(Run(i))) /\ WF_vars(Recovery)

-----------------------------------------------------------------------------
(* Properties *)

TypeOK ==
  /\ pc \in [Instance -> Place]
  /\ command \in [Instance -> Command]
  /\ cfg \in [Instance -> Fault \cup {"none"}]
  /\ next \in [Instance -> 1..5]
  /\ file \in Fault \cup {"none"}
  /\ schema \subseteq Object
  /\ rows \subseteq Instance
  /\ versions \in Seq(0..4)
  /\ down \subseteq {"storage", "idp"}
  /\ troubles \in Nat /\ downs \in Nat

\* However many instances have started together, crashed between two migrations
\* and started again: one that is past its migrations finds the whole schema,
\* and goose's table tells the schema, unless somebody has migrated down.
ServesFullSchema ==
  downs = 0 =>
    /\ \A i \in Instance : pc[i] \in {"storage", "policy", "app", "validate", "serving"} => schema = Object
    /\ schema = UNION {File[v].adds : v \in Version \cap Applied}

\* A migration fails only for an instance that another has overtaken: one that
\* starts alone gets through, whatever those before it have left half done.
FailsOnlyOvertaken ==
  downs = 0 =>
    \A i \in Instance :
      pc[i] = "up" /\ next[i] \in Version /\ ~ CanApply(next[i]) => next[i] <= Newest

\* What serves has passed every check, though they are spread over the way and
\* the migrations come before most of them; policy.path is the exception.
ServesCheckedConfig ==
  \A i \in Instance : pc[i] = "serving" => cfg[i] \in {"none", "path"}

\* The migration that empties query_results never empties it under the
\* instances that already serve: one that comes late with it fails, and its
\* truncate is undone.
RowsStay == [][downs' = 0 => rows \subseteq rows']_vars

\* With a sound configuration every instance comes to serve for good, whatever
\* has crashed, failed or raced before; unless a migrate-down-one has left a
\* hole in the versions, which every later start refuses.
ComesToServe ==
  <>[](file = "none") =>
    \A i \in Instance : <>[](pc[i] = "serving") \/ <>[](Missing # {})
=============================================================================
