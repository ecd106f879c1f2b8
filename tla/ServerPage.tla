------------------------------ MODULE ServerPage ------------------------------
(***************************************************************************)
(* One tab of the frontend: its session history, the server page with the  *)
(* loads and runs in flight, and the dashboard, where bookmarks are run.   *)
(* Answers arrive when they arrive; meanwhile the user moves through the   *)
(* history and starts more runs.                                           *)
(*                                                                         *)
(* A route is [kind, srv, q]: the dashboard ("home"), a server page        *)
(* ("link", or "auto" when the link runs its query), or the page of a      *)
(* result ("result").  App.svelte keeps one component while the branch of  *)
(* the route stays and mounts a new one when it changes; mounts are        *)
(* numbered, as what an unmounted component has in flight goes on.         *)
(***************************************************************************)
EXTENDS Integers, SequencesExt

CONSTANTS
  Server,
  MaxRuns,    \* bound: how many queries the user runs
  MaxMoves,   \* bound: how often the user goes back or forward
  NoServer, NoResult

\* Result 0 was stored before; run n gives result n.
Result == 0..MaxRuns

ASSUME PageAssumption ==
  /\ MaxRuns \in Nat /\ MaxMoves \in Nat
  /\ NoServer \notin Server /\ NoResult \notin Result

VARIABLES
  hist, pos,   \* the session history and the place in it
  mount,       \* the number of the mounted component
  server,      \* `server' of each component mounted so far
  shown,       \* queryResult of the mounted component
  loading,     \* its isLoading
  failed,      \* whether it has a loadError
  running,     \* its isRunning
  autoRan,     \* whether initialRunKey is the key of the route
  loads,       \* the loads in flight, in the order they were asked for
  runs,        \* the runs in flight
  ranAt,       \* the server at which each result was made
  moves,
  hasty,       \* whether the user moved or ran while a run was in flight
  overtaken    \* whether a load was answered before an earlier one

vars == <<hist, pos, mount, server, shown, loading, failed, running, autoRan, loads, runs,
          ranAt, moves, hasty, overtaken>>

Home == [kind |-> "home", srv |-> NoServer, q |-> NoResult]
Link(kind, s) == [kind |-> kind, srv |-> s, q |-> NoResult]
Page(s, q) == [kind |-> "result", srv |-> s, q |-> q]

Route == hist[pos]
Branch(route) == IF route.kind = "auto" THEN "link" ELSE route.kind

Load(n, part, s, q) == [mount |-> n, part |-> part, srv |-> s, q |-> q]
Run(n, s, id) == [mount |-> n, srv |-> s, id |-> id]
Dashboard == 0   \* the mount of a run of the dashboard

\* A reset that starts no load while one is in flight.
Reset_WhenIdle(n, route) ==
  /\ server' = [i \in 1..n |-> IF i = n THEN NoServer ELSE server[i]]
  /\ shown' = NoResult
  /\ failed' = FALSE
  /\ autoRan' = FALSE
  /\ loading' = (route.kind # "home")
  /\ loads' = IF route.kind = "home" \/ loading THEN loads
              ELSE Append(loads, Load(n, "server", route.srv, NoResult))

\* What the effect on the route does: what is shown is reset, and the server
\* is loaded.
Reset(n, route) ==
  /\ server' = [i \in 1..n |-> IF i = n THEN NoServer ELSE server[i]]
  /\ shown' = NoResult
  /\ failed' = FALSE
  /\ autoRan' = FALSE
  /\ loading' = (route.kind # "home")
  /\ loads' = IF route.kind = "home" THEN loads
              ELSE Append(loads, Load(n, "server", route.srv, NoResult))

\* The route becomes the one at place p of history h.
GoTo(h, p) ==
  /\ hist' = h
  /\ pos' = p
  /\ LET n == IF Branch(h[p]) = Branch(Route) THEN mount ELSE mount + 1
     IN mount' = n /\ Reset(n, h[p])

Init ==
  /\ \E s \in Server, r \in {"home", "link", "auto", "result"} :
       /\ hist = << CASE r = "home" -> Home
                      [] r = "result" -> Page(s, 0)
                      [] OTHER -> Link(r, s) >>
       /\ ranAt = [q \in {0} |-> s]
  /\ pos = 1
  /\ mount = 1
  /\ server = <<NoServer>>
  /\ shown = NoResult
  /\ failed = FALSE /\ running = FALSE /\ autoRan = FALSE
  /\ loading = (hist[1].kind # "home")
  /\ loads = IF hist[1].kind = "home" THEN <<>>
             ELSE <<Load(1, "server", hist[1].srv, NoResult)>>
  /\ runs = {}
  /\ moves = 0
  /\ hasty = FALSE /\ overtaken = FALSE

-----------------------------------------------------------------------------
(* Runs *)

NextRun == Cardinality(DOMAIN ranAt)

\* A run at server s, asked for by component n.
Ask(n, s) ==
  /\ NextRun <= MaxRuns
  /\ runs' = runs \cup {Run(n, s, NextRun)}
  /\ ranAt' = [q \in 0..NextRun |-> IF q = NextRun THEN s ELSE ranAt[q]]
  /\ hasty' = (hasty \/ runs # {})

\* The effect of an autorun link, with what its component has in server and
\* in isRunning: it runs the query of the link, once for a reset.
AutoRun(s, isRunning, others) ==
  IF /\ Route.kind = "auto" /\ s # NoServer /\ ~ autoRan /\ ~ isRunning
     /\ NextRun <= MaxRuns
  THEN /\ autoRan' = TRUE /\ running' = TRUE
       /\ runs' = others \cup {Run(mount, s, NextRun)}
       /\ ranAt' = [q \in 0..NextRun |-> IF q = NextRun THEN s ELSE ranAt[q]]
       /\ hasty' = (hasty \/ others # {})
  ELSE /\ running' = isRunning /\ runs' = others
       /\ UNCHANGED <<autoRan, ranAt, hasty>>

\* The editor is on the screen once nothing loads, and stays usable while a
\* run is in flight (Shift+Enter).
Editing == Route.kind # "home" /\ ~ loading /\ ~ failed /\ server[mount] # NoServer

\* executeQuery up to its await, and runBookmark of the dashboard.
PressRun ==
  /\ \/ Editing /\ Ask(mount, server[mount]) /\ running' = TRUE
     \/ Route.kind = "home" /\ \E s \in Server : Ask(Dashboard, s) /\ UNCHANGED running
  /\ UNCHANGED <<hist, pos, mount, server, shown, loading, failed, autoRan, loads, moves,
                 overtaken>>

\* A run that goes to the server of the route.
Destination_Route(run) == Route.srv

\* The server page reads its `server' again when the answer is there; the
\* dashboard goes by the bookmark.
Destination(run) == IF run.mount = Dashboard THEN run.srv ELSE server[run.mount]

Lost(run) == run.mount # Dashboard /\ server[run.mount] = NoServer

\* The answer of a run leads to the page of its result.
AnswerRun(run) ==
  /\ ~ Lost(run)
  /\ GoTo(Append(SubSeq(hist, 1, pos), Page(Destination(run), run.id)), pos + 1)
  /\ runs' = runs \ {run}
  /\ running' = (running /\ mount' = mount /\ run.mount # mount)
  /\ UNCHANGED <<ranAt, moves, hasty, overtaken>>

\* The run fails, or its page has no server when its answer is there.
RunFails(run) ==
  /\ AutoRun(server[mount], running /\ run.mount # mount, runs \ {run})
  /\ UNCHANGED <<hist, pos, mount, server, shown, loading, failed, loads, moves, overtaken>>

-----------------------------------------------------------------------------
(* Loads *)

\* The load at place i is answered or fails: it is out, and whether an
\* earlier one of its component is still waiting is noted.
Take(i) ==
  overtaken' = (overtaken \/ \E j \in 1..(i - 1) : loads[j].mount = loads[i].mount)

\* The server has come; the route as it is now says whether to load a result
\* too.  What an unmounted component loads is not seen.
AnswerServer(i) ==
  /\ loads[i].part = "server"
  /\ Take(i)
  /\ LET l == loads[i]
         rest == RemoveAt(loads, i)
     IN /\ server' = [server EXCEPT ![l.mount] = l.srv]
        /\ IF l.mount # mount
           THEN loads' = rest /\ UNCHANGED <<shown, loading>>
           ELSE IF Route.q # NoResult
                THEN /\ loads' = Append(rest, Load(mount, "result", l.srv, Route.q))
                     /\ UNCHANGED <<shown, loading>>
                ELSE loads' = rest /\ shown' = NoResult /\ loading' = FALSE
        /\ AutoRun(server'[mount], running, runs)
  /\ UNCHANGED <<hist, pos, mount, failed, moves>>

AnswerResult(i) ==
  /\ loads[i].part = "result"
  /\ Take(i)
  /\ loads' = RemoveAt(loads, i)
  /\ IF loads[i].mount = mount THEN shown' = loads[i].q /\ loading' = FALSE
     ELSE UNCHANGED <<shown, loading>>
  /\ UNCHANGED <<hist, pos, mount, server, failed, running, autoRan, runs, ranAt, moves,
                 hasty>>

\* A failure that leaves isLoading set.
LoadFails_KeepsLoading(i) ==
  /\ Take(i)
  /\ loads' = RemoveAt(loads, i)
  /\ IF loads[i].mount = mount THEN failed' = TRUE ELSE UNCHANGED failed
  /\ UNCHANGED <<hist, pos, mount, server, shown, loading, running, autoRan, runs, ranAt,
                 moves, hasty>>

LoadFails(i) ==
  /\ Take(i)
  /\ loads' = RemoveAt(loads, i)
  /\ IF loads[i].mount = mount THEN failed' = TRUE /\ loading' = FALSE
     ELSE UNCHANGED <<failed, loading>>
  /\ UNCHANGED <<hist, pos, mount, server, shown, running, autoRan, runs, ranAt, moves, hasty>>

-----------------------------------------------------------------------------
\* The back and the forward button.
Move ==
  /\ moves < MaxMoves
  /\ moves' = moves + 1
  /\ \E p \in {pos - 1, pos + 1} : p \in DOMAIN hist /\ GoTo(hist, p)
  /\ running' = (running /\ mount' = mount)
  /\ hasty' = (hasty \/ runs # {})
  /\ UNCHANGED <<runs, ranAt, overtaken>>

LoadEnds == \E i \in DOMAIN loads : AnswerServer(i) \/ AnswerResult(i) \/ LoadFails(i)

Next ==
  \/ PressRun \/ Move \/ LoadEnds
  \/ \E run \in runs : AnswerRun(run) \/ RunFails(run)

Spec == Init /\ [][Next]_vars

\* Every load is answered or fails in the end.
FairSpec == Spec /\ WF_vars(LoadEnds)

-----------------------------------------------------------------------------
(* Properties *)

Routes == {Home} \cup [kind : {"link", "auto"}, srv : Server, q : {NoResult}]
            \cup [kind : {"result"}, srv : Server, q : Result]

\* Every variable has the type the code gives it.
TypeOK ==
  /\ hist \in Seq(Routes) /\ pos \in DOMAIN hist
  /\ server \in [1..mount -> Server \cup {NoServer}]
  /\ shown \in Result \cup {NoResult}
  /\ loading \in BOOLEAN /\ failed \in BOOLEAN /\ running \in BOOLEAN /\ autoRan \in BOOLEAN
  /\ \A i \in DOMAIN loads : loads[i].mount \in 1..mount /\ loads[i].srv \in Server
  /\ \A run \in runs : run.mount \in 0..mount /\ run.id \in DOMAIN ranAt

Settled ==
  /\ Route.kind # "home" /\ ~ failed
  /\ \A i \in DOMAIN loads : loads[i].mount # mount

ShowsRoute == server[mount] = Route.srv /\ shown = Route.q

\* When its loads are answered in order, a page that has nothing more to wait
\* for shows the server and the result of its route.
SettledShowsRoute == ~ overtaken /\ Settled => ShowsRoute

\* The link of a result names the server at which it was made.
LinkIsTrue(route) == route.kind = "result" => ranAt[route.q] = route.srv

\* The links are true for a user who waits for each run, in whatever order the
\* loads are answered.
LinksAreTrue == ~ hasty => \A i \in DOMAIN hist : LinkIsTrue(hist[i])

\* A page does not load for ever.
LoadingEnds == loading ~> ~ loading
=============================================================================
