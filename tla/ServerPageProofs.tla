---------------------------- MODULE ServerPageProofs ----------------------------
(***************************************************************************)
(* What a server page shows and where its links lead, for any number of    *)
(* servers, runs, moves and loads in flight.                               *)
(***************************************************************************)
EXTENDS ServerPage, FiniteSetTheorems, SequenceTheorems, TLAPS

-----------------------------------------------------------------------------
(* The invariant *)

LoadSet == [mount : Nat, part : {"server", "result"}, srv : Server, q : Result \cup {NoResult}]
RunSet == [mount : Nat, srv : Server, id : Nat]

TypeInv ==
  /\ hist \in Seq(Routes) /\ pos \in 1..Len(hist)
  /\ mount \in Nat \ {0}
  /\ server \in [1..mount -> Server \cup {NoServer}]
  /\ shown \in Result \cup {NoResult}
  /\ loading \in BOOLEAN /\ failed \in BOOLEAN /\ running \in BOOLEAN /\ autoRan \in BOOLEAN
  /\ loads \in Seq(LoadSet) /\ \A i \in 1..Len(loads) : loads[i].mount \in 1..mount
  /\ runs \subseteq RunSet /\ \A run \in runs : run.mount \in 0..mount
  /\ \E n \in 0..MaxRuns : ranAt \in [0..n -> Server]
  /\ \A run \in runs : run.id \in DOMAIN ranAt
  /\ \A i \in 1..Len(hist) : hist[i].kind = "result" => hist[i].q \in DOMAIN ranAt

Mine(i) == loads[i].mount = mount

\* A load that asks for what the route has a result for.
AsksResult(i) == loads[i].part = "result" /\ loads[i].q = Route.q

\* The load of the server of the route is on its way, and what was asked for
\* after it is the result of the route.
ServerComes ==
  \E i \in 1..Len(loads) :
    /\ Mine(i) /\ loads[i].part = "server" /\ loads[i].srv = Route.srv
    /\ \A j \in (i + 1)..Len(loads) : Mine(j) => AsksResult(j)

\* The server of the route is there, and its result is on its way or shown.
ServerCame ==
  /\ server[mount] = Route.srv
  /\ \A i \in 1..Len(loads) : Mine(i) => AsksResult(i)
  /\ (\A i \in 1..Len(loads) : ~ Mine(i)) => shown = Route.q

\* Loads that are answered in order lead to the route.
OrderInv == ~ overtaken /\ Route.kind # "home" /\ ~ failed => ServerComes \/ ServerCame

\* The dashboard is where a history begins.
HomeFirst == \A i \in 1..Len(hist) : hist[i].kind = "home" => i = 1

\* While the user waits for each run, all pages of the history are of one server,
\* so is what the mounted page has and loads, and so is the run in flight.
OneServer ==
  /\ \A i \in 1..Len(hist) : LinkIsTrue(hist[i])
  /\ \A i, j \in 1..Len(hist) :
       hist[i].kind # "home" /\ hist[j].kind # "home" => hist[i].srv = hist[j].srv

PageAgrees ==
  Route.kind # "home" =>
    /\ server[mount] \in {NoServer, Route.srv}
    /\ \A i \in 1..Len(loads) : Mine(i) => loads[i].srv = Route.srv

RunAgrees ==
  \A run \in runs :
    /\ runs = {run} /\ ranAt[run.id] = run.srv
    /\ IF run.mount = Dashboard THEN Route.kind = "home"
       ELSE /\ run.mount = mount /\ Route.kind # "home" /\ run.srv = Route.srv
            /\ server[mount] = Route.srv

Patient == OneServer /\ PageAgrees /\ RunAgrees

LinkInv == HomeFirst /\ (~ hasty => Patient)

IInv == TypeInv /\ OrderInv /\ LinkInv

-----------------------------------------------------------------------------
(* Sequences *)

\* What is left of a sequence without its i-th element.
LEMMA RemoveAtIs ==
  ASSUME NEW S, NEW s \in Seq(S), NEW i \in 1..Len(s)
  PROVE  /\ RemoveAt(s, i) \in Seq(S) /\ Len(RemoveAt(s, i)) = Len(s) - 1
         /\ \A j \in 1..(Len(s) - 1) : RemoveAt(s, i)[j] = IF j < i THEN s[j] ELSE s[j + 1]
<1> DEFINE a == SubSeq(s, 1, i - 1)
           b == SubSeq(s, i + 1, Len(s))
<1>1. a \in Seq(S) /\ Len(a) = i - 1 /\ \A j \in 1..(i - 1) : a[j] = s[j]
  OBVIOUS
<1>2. b \in Seq(S) /\ Len(b) = Len(s) - i /\ \A j \in 1..(Len(s) - i) : b[j] = s[i + j]
  OBVIOUS
<1>3. RemoveAt(s, i) = a \o b
  BY DEF RemoveAt
<1> HIDE DEF a, b
<1>4. /\ a \o b \in Seq(S) /\ Len(a \o b) = Len(s) - 1
      /\ \A j \in 1..(Len(s) - 1) : (a \o b)[j] = IF j <= i - 1 THEN a[j] ELSE b[j - (i - 1)]
  <2>1. Len(s) \in Nat /\ Len(a) + Len(b) = Len(s) - 1
    BY <1>1, <1>2
  <2>2. /\ a \o b \in Seq(S) /\ Len(a \o b) = Len(a) + Len(b)
        /\ \A j \in 1..(Len(a) + Len(b)) :
             (a \o b)[j] = IF j <= Len(a) THEN a[j] ELSE b[j - Len(a)]
    BY <1>1, <1>2, ConcatProperties, Zenon
  <2> QED
    BY <1>1, <2>1, <2>2
<1>5. ASSUME NEW j \in 1..(Len(s) - 1)
      PROVE  (a \o b)[j] = IF j < i THEN s[j] ELSE s[j + 1]
  <2>1. CASE j < i
    BY <1>1, <1>4, <2>1
  <2>2. CASE ~ (j < i)
    <3>1. j - (i - 1) \in 1..(Len(s) - i) /\ i + (j - (i - 1)) = j + 1
      BY <2>2
    <3> QED
      BY <1>2, <1>4, <2>2, <3>1
  <2> QED
    BY <2>1, <2>2
<1> QED
  BY <1>3, <1>4, <1>5

\* The routes of a history, and where they lead.
LEMMA RouteParts ==
  ASSUME NEW r \in Routes
  PROVE  /\ r.kind \in {"home", "link", "auto", "result"}
         /\ r.kind # "home" => r.srv \in Server
         /\ r.kind # "result" => r.q = NoResult
         /\ r.kind = "result" => r.q \in Result
         /\ r.kind = "home" => r = Home
         /\ r.q \in Result \cup {NoResult}
BY DEF Routes, Home

LEMMA RouteIs ==
  ASSUME TypeInv
  PROVE  Route \in Routes /\ Route = hist[pos]
BY DEF TypeInv, Route

\* A run is given the next number.
LEMMA NextRunIs ==
  ASSUME TypeInv
  PROVE  /\ NextRun \in 1..(MaxRuns + 1) /\ ranAt \in [0..(NextRun - 1) -> Server]
         /\ NextRun \notin DOMAIN ranAt
<1>1. PICK n \in 0..MaxRuns : ranAt \in [0..n -> Server]
  BY DEF TypeInv
<1>2. Cardinality(0..n) = n + 1
  BY FS_Interval, PageAssumption
<1> QED
  BY <1>1, <1>2, PageAssumption DEF NextRun

\* What a change of the route does.
LEMMA GoToParts ==
  ASSUME TypeInv, NEW h \in Seq(Routes), NEW p \in 1..Len(h), GoTo(h, p)
  PROVE  /\ hist' = h /\ pos' = p /\ Route' = h[p]
         /\ mount' = IF Branch(h[p]) = Branch(Route) THEN mount ELSE mount + 1
         /\ server' \in [1..mount' -> Server \cup {NoServer}] /\ server'[mount'] = NoServer
         /\ \A i \in 1..mount : i # mount' => server'[i] = server[i]
         /\ shown' = NoResult /\ failed' = FALSE /\ autoRan' = FALSE
         /\ loading' = (h[p].kind # "home")
         /\ loads' = IF h[p].kind = "home" THEN loads
                     ELSE Append(loads, Load(mount', "server", h[p].srv, NoResult))
<1>1. /\ hist' = h /\ pos' = p
      /\ mount' = IF Branch(h[p]) = Branch(Route) THEN mount ELSE mount + 1
      /\ Reset(mount', h[p])
  BY DEF GoTo
<1>2. mount' \in {mount, mount + 1} /\ mount \in Nat \ {0}
  BY <1>1 DEF TypeInv
<1>3. server' = [i \in 1..mount' |-> IF i = mount' THEN NoServer ELSE server[i]]
  BY <1>1 DEF Reset
<1>4. \A i \in 1..mount' : i # mount' => i \in 1..mount
  BY <1>2
<1>5. server' \in [1..mount' -> Server \cup {NoServer}] /\ server'[mount'] = NoServer
  BY <1>2, <1>3, <1>4 DEF TypeInv
<1>6. \A i \in 1..mount : i # mount' => server'[i] = server[i]
  BY <1>2, <1>3
<1> QED
  BY <1>1, <1>5, <1>6 DEF Reset, Route

\* What a load that is asked for adds to those in flight.
LEMMA AppendIs ==
  ASSUME NEW S, NEW s \in Seq(S), NEW e \in S
  PROVE  /\ Append(s, e) \in Seq(S) /\ Len(Append(s, e)) = Len(s) + 1
         /\ Append(s, e)[Len(s) + 1] = e
         /\ \A i \in 1..Len(s) : Append(s, e)[i] = s[i]
OBVIOUS

-----------------------------------------------------------------------------
(* The steps keep the types *)

\* Results that are there stay, with where they were made; the runs in flight
\* have results.
RunsKept ==
  /\ runs' \subseteq RunSet
  /\ \A run \in runs' : run.mount \in 0..mount /\ run.id \in DOMAIN ranAt'
  /\ \E n \in 0..MaxRuns : ranAt' \in [0..n -> Server]
  /\ \A q \in DOMAIN ranAt : q \in DOMAIN ranAt' /\ ranAt'[q] = ranAt[q]

LEMMA RunAdded ==
  ASSUME TypeInv, NEW n \in 0..mount, NEW s \in Server, NextRun <= MaxRuns,
         NEW others \in SUBSET runs, runs' = others \cup {Run(n, s, NextRun)},
         ranAt' = [q \in 0..NextRun |-> IF q = NextRun THEN s ELSE ranAt[q]]
  PROVE  /\ RunsKept /\ ranAt'[NextRun] = s
         /\ \A run \in others : run.id \in DOMAIN ranAt
<1>1. /\ NextRun \in 1..MaxRuns /\ ranAt \in [0..(NextRun - 1) -> Server]
      /\ DOMAIN ranAt = 0..(NextRun - 1)
  BY NextRunIs, PageAssumption
<1>2. Run(n, s, NextRun) \in RunSet /\ Run(n, s, NextRun).mount = n /\ Run(n, s, NextRun).id = NextRun
  BY <1>1 DEF Run, RunSet, TypeInv
<1>3. ranAt' \in [0..NextRun -> Server] /\ DOMAIN ranAt' = 0..NextRun
  BY <1>1
<1>4. \A q \in DOMAIN ranAt : q \in DOMAIN ranAt' /\ ranAt'[q] = ranAt[q]
  BY <1>1
<1>5. ranAt'[NextRun] = s /\ NextRun \in DOMAIN ranAt' /\ NextRun \in 0..MaxRuns
  BY <1>1
<1> QED
  BY <1>2, <1>3, <1>4, <1>5 DEF TypeInv, RunsKept

\* The effect of an autorun link starts a run, or lets the others be.
LEMMA AutoRunIs ==
  ASSUME TypeInv, NEW s \in Server \cup {NoServer}, NEW isRunning \in BOOLEAN,
         NEW others \in SUBSET runs, AutoRun(s, isRunning, others)
  PROVE  /\ RunsKept /\ running' \in BOOLEAN /\ autoRan' \in BOOLEAN
         /\ \/ runs' = others /\ ranAt' = ranAt /\ hasty' = hasty
            \/ /\ Route.kind = "auto" /\ s \in Server
               /\ runs' = others \cup {Run(mount, s, NextRun)} /\ ranAt'[NextRun] = s
               /\ hasty' = (hasty \/ others # {})
<1>1. CASE /\ Route.kind = "auto" /\ s # NoServer /\ ~ autoRan /\ ~ isRunning
           /\ NextRun <= MaxRuns
  <2>1. /\ autoRan' = TRUE /\ running' = TRUE
        /\ runs' = others \cup {Run(mount, s, NextRun)}
        /\ ranAt' = [q \in 0..NextRun |-> IF q = NextRun THEN s ELSE ranAt[q]]
        /\ hasty' = (hasty \/ others # {})
    BY <1>1 DEF AutoRun
  <2>2. mount \in 0..mount /\ s \in Server
    BY <1>1 DEF TypeInv
  <2>3. RunsKept /\ ranAt'[NextRun] = s
    BY <1>1, <2>1, <2>2, RunAdded
  <2> QED
    BY <1>1, <2>1, <2>2, <2>3
<1>2. CASE ~ (/\ Route.kind = "auto" /\ s # NoServer /\ ~ autoRan /\ ~ isRunning
              /\ NextRun <= MaxRuns)
  <2>1. running' = isRunning /\ runs' = others /\ UNCHANGED <<autoRan, ranAt, hasty>>
    BY <1>2 DEF AutoRun
  <2> QED
    BY <2>1 DEF TypeInv, RunsKept
<1> QED
  BY <1>1, <1>2

\* A page whose history and loads stay keeps its types with RunsKept.
LEMMA TypesKept ==
  ASSUME TypeInv, RunsKept, UNCHANGED <<hist, pos, mount>>,
         server' \in [1..mount -> Server \cup {NoServer}],
         shown' \in Result \cup {NoResult},
         loading' \in BOOLEAN, failed' \in BOOLEAN, running' \in BOOLEAN, autoRan' \in BOOLEAN,
         loads' \in Seq(LoadSet), \A i \in 1..Len(loads') : loads'[i].mount \in 1..mount
  PROVE  TypeInv'
BY DEF TypeInv, RunsKept

\* Loads of which one is out.
LEMMA LoadOut ==
  ASSUME TypeInv, NEW i \in 1..Len(loads), NEW rest, rest = RemoveAt(loads, i)
  PROVE  /\ rest \in Seq(LoadSet) /\ Len(rest) = Len(loads) - 1
         /\ \A j \in 1..Len(rest) : rest[j] = IF j < i THEN loads[j] ELSE loads[j + 1]
         /\ \A j \in 1..Len(rest) : rest[j].mount \in 1..mount
<1>1. loads \in Seq(LoadSet) /\ Len(loads) \in Nat
  BY DEF TypeInv
<1>2. /\ rest \in Seq(LoadSet) /\ Len(rest) = Len(loads) - 1
      /\ \A j \in 1..Len(rest) : rest[j] = IF j < i THEN loads[j] ELSE loads[j + 1]
  BY <1>1, RemoveAtIs
<1>3. ASSUME NEW j \in 1..Len(rest)  PROVE rest[j].mount \in 1..mount
  <2>1. (j < i => j \in 1..Len(loads)) /\ (~ (j < i) => j + 1 \in 1..Len(loads))
    BY <1>1, <1>2
  <2> QED
    BY <1>2, <2>1 DEF TypeInv
<1> QED
  BY <1>2, <1>3

\* A change of the route keeps the types, if nothing is lost of the results.
LEMMA GoToTypes ==
  ASSUME TypeInv, NEW h \in Seq(Routes), NEW p \in 1..Len(h), GoTo(h, p),
         \A i \in 1..Len(h) : h[i].kind = "result" => h[i].q \in DOMAIN ranAt,
         runs' \subseteq runs, ranAt' = ranAt, running' \in BOOLEAN
  PROVE  TypeInv'
<1>1. mount' \in {mount, mount + 1} /\ mount \in Nat \ {0}
  BY GoToParts DEF TypeInv
<1>2. h[p] \in Routes
  OBVIOUS
<1>3. /\ loads' \in Seq(LoadSet)
      /\ \A i \in 1..Len(loads') : loads'[i].mount \in 1..mount'
  <2>1. /\ loads \in Seq(LoadSet) /\ Len(loads) \in Nat
        /\ \A i \in 1..Len(loads) : loads[i].mount \in 1..mount'
    BY <1>1 DEF TypeInv
  <2>2. CASE h[p].kind = "home"
    BY <2>1, <2>2, GoToParts
  <2>3. CASE h[p].kind # "home"
    <3> DEFINE l == Load(mount', "server", h[p].srv, NoResult)
    <3>1. l \in LoadSet /\ l.mount = mount'
      <4>1. h[p].srv \in Server
        BY <1>2, <2>3, RouteParts
      <4> QED
        BY <1>1, <4>1 DEF Load, LoadSet
    <3>2. loads' = Append(loads, l)
      BY <2>3, GoToParts
    <3> HIDE DEF l
    <3> QED
      BY <1>1, <2>1, <3>1, <3>2, AppendIs
  <2> QED
    BY <2>2, <2>3
<1>4. /\ runs' \subseteq RunSet /\ \A run \in runs' : run.mount \in 0..mount' /\ run.id \in DOMAIN ranAt'
      /\ \E n \in 0..MaxRuns : ranAt' \in [0..n -> Server]
  BY <1>1 DEF TypeInv
<1>5. /\ hist' = h /\ pos' = p /\ shown' = NoResult /\ failed' = FALSE /\ autoRan' = FALSE
      /\ loading' \in BOOLEAN /\ server' \in [1..mount' -> Server \cup {NoServer}]
  BY GoToParts
<1>6. \A i \in 1..Len(hist') : hist'[i].kind = "result" => hist'[i].q \in DOMAIN ranAt'
  BY <1>5
<1>7. hist' \in Seq(Routes) /\ pos' \in 1..Len(hist') /\ mount' \in Nat \ {0}
  BY <1>1, <1>5
<1>8. shown' \in Result \cup {NoResult} /\ failed' \in BOOLEAN /\ autoRan' \in BOOLEAN
  BY <1>5
<1> QED
  BY <1>3, <1>4, <1>5, <1>6, <1>7, <1>8 DEF TypeInv

\* A press on Run asks for one run, of the mounted page or of the dashboard.
LEMMA PressRunIs ==
  ASSUME TypeInv, PressRun
  PROVE  \E n \in {Dashboard, mount}, s \in Server :
           /\ IF n = Dashboard THEN Route.kind = "home"
              ELSE Route.kind # "home" /\ server[mount] = s
           /\ runs' = runs \cup {Run(n, s, NextRun)} /\ hasty' = (hasty \/ runs # {})
           /\ RunsKept /\ ranAt'[NextRun] = s /\ running' \in BOOLEAN
<1>0. mount \in Nat \ {0} /\ server[mount] \in Server \cup {NoServer} /\ Dashboard = 0
  BY DEF TypeInv, Dashboard
<1>1. ASSUME NEW n \in {Dashboard, mount}, NEW s \in Server, Ask(n, s)
      PROVE  /\ runs' = runs \cup {Run(n, s, NextRun)} /\ hasty' = (hasty \/ runs # {})
             /\ RunsKept /\ ranAt'[NextRun] = s
  BY <1>0, <1>1, RunAdded DEF Ask
<1>2. CASE Editing /\ Ask(mount, server[mount]) /\ running' = TRUE
  <2>1. server[mount] \in Server /\ Route.kind # "home"
    BY <1>0, <1>2 DEF Editing
  <2> QED
    BY <1>0, <1>1, <1>2, <2>1
<1>3. CASE Route.kind = "home" /\ \E s \in Server : Ask(Dashboard, s) /\ UNCHANGED running
  <2>1. PICK s \in Server : Ask(Dashboard, s) /\ UNCHANGED running
    BY <1>3
  <2> QED
    BY <1>1, <1>3, <2>1 DEF TypeInv
<1> QED
  BY <1>2, <1>3 DEF PressRun

\* The page that the answer of a run leads to.
LEMMA AnswerRunIs ==
  ASSUME TypeInv, NEW run \in runs, AnswerRun(run)
  PROVE  \E h \in Seq(Routes) :
           /\ h = Append(SubSeq(hist, 1, pos), Page(Destination(run), run.id))
           /\ Len(h) = pos + 1 /\ GoTo(h, pos + 1)
           /\ \A i \in 1..pos : h[i] = hist[i]
           /\ h[pos + 1] = Page(Destination(run), run.id)
           /\ Destination(run) \in Server
<1>1. run \in RunSet /\ run.mount \in 0..mount /\ run.id \in DOMAIN ranAt
  BY DEF TypeInv
<1>2. run.id \in Result
  BY <1>1, PageAssumption DEF TypeInv, Result
<1>3. Destination(run) \in Server
  <2>1. CASE run.mount = Dashboard
    BY <1>1, <2>1 DEF Destination, RunSet
  <2>2. CASE run.mount # Dashboard
    <3>1. run.mount \in 1..mount /\ server[run.mount] # NoServer
      BY <1>1, <2>2 DEF AnswerRun, Lost, Dashboard, TypeInv
    <3> QED
      BY <2>2, <3>1 DEF Destination, TypeInv
  <2> QED
    BY <2>1, <2>2
<1>4. Page(Destination(run), run.id) \in Routes
  BY <1>2, <1>3 DEF Page, Routes
<1> DEFINE front == SubSeq(hist, 1, pos)
<1>5. front \in Seq(Routes) /\ Len(front) = pos /\ \A i \in 1..pos : front[i] = hist[i]
  BY DEF TypeInv
<1>6. GoTo(Append(front, Page(Destination(run), run.id)), pos + 1)
  BY DEF AnswerRun
<1> HIDE DEF front
<1>7. /\ Append(front, Page(Destination(run), run.id)) \in Seq(Routes)
      /\ Len(Append(front, Page(Destination(run), run.id))) = pos + 1
      /\ Append(front, Page(Destination(run), run.id))[pos + 1] = Page(Destination(run), run.id)
      /\ \A i \in 1..pos : Append(front, Page(Destination(run), run.id))[i] = hist[i]
  BY <1>4, <1>5, AppendIs
<1> QED
  BY <1>3, <1>6, <1>7 DEF front

\* Back and forward stay in the history.
LEMMA MoveIs ==
  ASSUME TypeInv, Move
  PROVE  \E p \in 1..Len(hist) : p # pos /\ GoTo(hist, p)
BY DEF Move, TypeInv

LEMMA TypeNext == TypeInv /\ [Next]_vars => TypeInv'
<1> SUFFICES ASSUME TypeInv, [Next]_vars  PROVE TypeInv'
  OBVIOUS
<1>0. loads \in Seq(LoadSet) /\ DOMAIN loads = 1..Len(loads) /\ mount \in 1..mount
  BY DEF TypeInv
<1>1. CASE PressRun
  <2>1. /\ RunsKept /\ running' \in BOOLEAN
        /\ UNCHANGED <<hist, pos, mount, server, shown, loading, failed, autoRan, loads>>
    BY <1>1, PressRunIs DEF PressRun
  <2> QED
    BY <2>1, TypesKept DEF TypeInv
<1>2. CASE Move
  <2>1. PICK p \in 1..Len(hist) : GoTo(hist, p)
    BY <1>2, MoveIs
  <2>2. runs' = runs /\ ranAt' = ranAt /\ running' \in BOOLEAN /\ hist \in Seq(Routes)
    BY <1>2 DEF Move, TypeInv
  <2> QED
    BY <2>1, <2>2, GoToTypes DEF TypeInv
<1>3. ASSUME NEW i \in DOMAIN loads, AnswerServer(i)  PROVE TypeInv'
  <2> DEFINE l == loads[i]
             rest == RemoveAt(loads, i)
  <2>1. l \in LoadSet /\ l.mount \in 1..mount /\ l.srv \in Server
    <3>1. loads[i] \in LoadSet /\ i \in 1..Len(loads)
      BY <1>0
    <3>2. loads[i].srv \in Server
      BY <3>1 DEF LoadSet
    <3> QED
      BY <3>1, <3>2 DEF TypeInv
  <2>2. /\ server' = [server EXCEPT ![l.mount] = l.srv]
        /\ AutoRun(server'[mount], running, runs)
        /\ UNCHANGED <<hist, pos, mount, failed, moves>>
        /\ \/ loads' = rest /\ UNCHANGED <<shown, loading>>
           \/ /\ Route.q # NoResult
              /\ loads' = Append(rest, Load(mount, "result", l.srv, Route.q))
              /\ UNCHANGED <<shown, loading>>
           \/ loads' = rest /\ shown' = NoResult /\ loading' = FALSE
    BY <1>3 DEF AnswerServer
  <2>3. server' \in [1..mount -> Server \cup {NoServer}]
    BY <2>1, <2>2 DEF TypeInv
  <2>4. server'[mount] \in Server \cup {NoServer}
    BY <1>0, <2>3
  <2>5. RunsKept /\ running' \in BOOLEAN /\ autoRan' \in BOOLEAN
    <3>1. running \in BOOLEAN /\ runs \in SUBSET runs
      BY DEF TypeInv
    <3> HIDE DEF TypeInv
    <3> QED
      BY <2>2, <2>4, <3>1, AutoRunIs
  <2>6. shown' \in Result \cup {NoResult} /\ loading' \in BOOLEAN /\ failed' \in BOOLEAN
    BY <2>2 DEF TypeInv
  <2>7. rest \in Seq(LoadSet) /\ \A j \in 1..Len(rest) : rest[j].mount \in 1..mount
    BY <1>0, LoadOut
  <2>8. loads' \in Seq(LoadSet) /\ \A j \in 1..Len(loads') : loads'[j].mount \in 1..mount
    <3>1. CASE loads' = rest
      BY <2>7, <3>1
    <3>2. CASE loads' = Append(rest, Load(mount, "result", l.srv, Route.q))
      <4> DEFINE e == Load(mount, "result", l.srv, Route.q)
      <4>1. Route.q \in Result \cup {NoResult}
        BY RouteIs, RouteParts
      <4>2. e \in LoadSet /\ e.mount = mount
        BY <1>0, <2>1, <4>1 DEF Load, LoadSet, TypeInv
      <4> HIDE DEF e, rest
      <4> QED
        BY <1>0, <2>7, <3>2, <4>2, AppendIs DEF e
    <3> QED
      BY <2>2, <3>1, <3>2
  <2> QED
    BY <2>2, <2>3, <2>5, <2>6, <2>8, TypesKept
<1>4. ASSUME NEW i \in DOMAIN loads, AnswerResult(i)  PROVE TypeInv'
  <2>1. /\ loads' = RemoveAt(loads, i)
        /\ UNCHANGED <<hist, pos, mount, server, failed, running, autoRan, runs, ranAt>>
        /\ (shown' = loads[i].q /\ loading' = FALSE) \/ UNCHANGED <<shown, loading>>
    BY <1>4 DEF AnswerResult
  <2>2. shown' \in Result \cup {NoResult} /\ loading' \in BOOLEAN
    <3>1. loads[i] \in LoadSet
      BY <1>0
    <3> QED
      BY <2>1, <3>1 DEF TypeInv, LoadSet
  <2>3. RunsKept
    BY <2>1 DEF TypeInv, RunsKept
  <2>4. loads' \in Seq(LoadSet) /\ \A j \in 1..Len(loads') : loads'[j].mount \in 1..mount
    BY <1>0, <2>1, LoadOut
  <2> QED
    BY <2>1, <2>2, <2>3, <2>4, TypesKept DEF TypeInv
<1>5. ASSUME NEW i \in DOMAIN loads, LoadFails(i)  PROVE TypeInv'
  <2>1. /\ loads' = RemoveAt(loads, i)
        /\ UNCHANGED <<hist, pos, mount, server, shown, running, autoRan, runs, ranAt>>
        /\ (failed' = TRUE /\ loading' = FALSE) \/ UNCHANGED <<failed, loading>>
    BY <1>5 DEF LoadFails
  <2>2. RunsKept /\ failed' \in BOOLEAN /\ loading' \in BOOLEAN
    BY <2>1 DEF TypeInv, RunsKept
  <2>3. loads' \in Seq(LoadSet) /\ \A j \in 1..Len(loads') : loads'[j].mount \in 1..mount
    BY <1>0, <2>1, LoadOut
  <2> QED
    BY <2>1, <2>2, <2>3, TypesKept DEF TypeInv
<1>6. ASSUME NEW run \in runs, AnswerRun(run)  PROVE TypeInv'
  <2>1. PICK h \in Seq(Routes) :
          /\ Len(h) = pos + 1 /\ GoTo(h, pos + 1)
          /\ \A i \in 1..pos : h[i] = hist[i]
          /\ h[pos + 1] = Page(Destination(run), run.id)
    BY <1>6, AnswerRunIs
  <2>2. /\ runs' \subseteq runs /\ ranAt' = ranAt /\ running' \in BOOLEAN
        /\ pos + 1 \in 1..Len(h)
    BY <1>6, <2>1 DEF AnswerRun, TypeInv
  <2>3. \A i \in 1..Len(h) : h[i].kind = "result" => h[i].q \in DOMAIN ranAt
    <3>1. run.id \in DOMAIN ranAt /\ h[pos + 1].q = run.id
      BY <2>1 DEF TypeInv, Page
    <3>2. \A i \in 1..pos : h[i] = hist[i] /\ i \in 1..Len(hist)
      BY <2>1 DEF TypeInv
    <3>3. \A i \in 1..Len(h) : i \in 1..pos \/ i = pos + 1
      BY <2>1 DEF TypeInv
    <3> QED
      BY <3>1, <3>2, <3>3 DEF TypeInv
  <2> QED
    BY <2>1, <2>2, <2>3, GoToTypes
<1>7. ASSUME NEW run \in runs, RunFails(run)  PROVE TypeInv'
  <2>1. /\ AutoRun(server[mount], running /\ run.mount # mount, runs \ {run})
        /\ UNCHANGED <<hist, pos, mount, server, shown, loading, failed, loads>>
    BY <1>7 DEF RunFails
  <2>2. server[mount] \in Server \cup {NoServer}
    BY <1>0 DEF TypeInv
  <2>3. RunsKept /\ running' \in BOOLEAN /\ autoRan' \in BOOLEAN
    BY <2>1, <2>2, AutoRunIs
  <2> QED
    BY <2>1, <2>3, TypesKept DEF TypeInv
<1>8. CASE UNCHANGED vars
  BY <1>8 DEF vars, TypeInv, Mine
<1> QED
  BY <1>1, <1>2, <1>3, <1>4, <1>5, <1>6, <1>7, <1>8 DEF Next, LoadEnds

-----------------------------------------------------------------------------
(* Loads that are answered in order lead to the route *)

\* A step that lets the route and what is loaded be.
LEMMA OrderKept ==
  ASSUME OrderInv, UNCHANGED <<hist, pos, mount, server, shown, failed, loads, overtaken>>
  PROVE  OrderInv'
BY DEF OrderInv, ServerComes, ServerCame, Mine, AsksResult, Route

\* A change of the route asks for its server last.
LEMMA OrderReset ==
  ASSUME TypeInv, NEW h \in Seq(Routes), NEW p \in 1..Len(h), GoTo(h, p)
  PROVE  OrderInv'
<1> SUFFICES ASSUME Route'.kind # "home"  PROVE ServerComes'
  BY DEF OrderInv
<1> DEFINE l == Load(mount', "server", h[p].srv, NoResult)
<1>1. Route' = h[p] /\ mount' \in Nat /\ h[p] \in Routes
  <2>1. mount' \in {mount, mount + 1} /\ Route' = h[p]
    BY GoToParts
  <2> QED
    BY <2>1 DEF TypeInv
<1>2. loads' = Append(loads, l)
  BY <1>1, GoToParts
<1>3. h[p].srv \in Server
  BY <1>1, RouteParts
<1>4. l \in LoadSet /\ l.mount = mount' /\ l.part = "server" /\ l.srv = Route'.srv
  BY <1>1, <1>3 DEF Load, LoadSet
<1> HIDE DEF l
<1>5. Len(loads) \in Nat /\ Len(loads') = Len(loads) + 1 /\ loads'[Len(loads) + 1] = l
  BY <1>2, <1>4, AppendIs DEF TypeInv
<1>6. \A j \in (Len(loads) + 1 + 1)..Len(loads') : FALSE
  BY <1>5
<1> QED
  BY <1>4, <1>5, <1>6 DEF ServerComes, Mine

\* A load that is answered in order is the first of its page.
LEMMA FirstOfPage ==
  ASSUME NEW i \in 1..Len(loads), Take(i), ~ overtaken'
  PROVE  ~ overtaken /\ (Mine(i) => \A j \in 1..(i - 1) : ~ Mine(j))
BY DEF Take, Mine

\* One load is out, and another for the result of the route may have come in:
\* the others are still there, in their order.
OneOut(i) ==
  /\ UNCHANGED <<hist, pos, mount>>
  /\ Len(loads) - 1 <= Len(loads')
  /\ \A j \in 1..(Len(loads) - 1) : loads'[j] = IF j < i THEN loads[j] ELSE loads[j + 1]
  /\ \A j \in Len(loads)..Len(loads') : AsksResult(j)'

LEMMA OutIs ==
  ASSUME TypeInv, NEW i \in 1..Len(loads), UNCHANGED <<hist, pos, mount>>
  PROVE  /\ loads' = RemoveAt(loads, i) => OneOut(i) /\ Len(loads') = Len(loads) - 1
         /\ \A s \in Server :
              loads' = Append(RemoveAt(loads, i), Load(mount, "result", s, Route.q)) =>
                /\ OneOut(i) /\ Len(loads') = Len(loads)
                /\ Mine(Len(loads))'
<1> DEFINE rest == RemoveAt(loads, i)
<1>1. /\ rest \in Seq(LoadSet) /\ Len(rest) = Len(loads) - 1 /\ Len(loads) \in Nat
      /\ \A j \in 1..Len(rest) : rest[j] = IF j < i THEN loads[j] ELSE loads[j + 1]
  <2>1. Len(loads) \in Nat
    BY DEF TypeInv
  <2> QED
    BY <2>1, LoadOut
<1> HIDE DEF rest
<1>2. ASSUME loads' = rest  PROVE OneOut(i) /\ Len(loads') = Len(loads) - 1
  BY <1>1, <1>2 DEF OneOut
<1>3. ASSUME NEW s \in Server, loads' = Append(rest, Load(mount, "result", s, Route.q))
      PROVE  /\ OneOut(i) /\ Len(loads') = Len(loads) /\ Mine(Len(loads))'
  <2> DEFINE e == Load(mount, "result", s, Route.q)
  <2>1. Route.q \in Result \cup {NoResult} /\ mount \in Nat /\ Route' = Route
    BY RouteIs, RouteParts DEF TypeInv, Route
  <2>2. e \in LoadSet /\ e.mount = mount /\ e.part = "result" /\ e.q = Route.q
    BY <2>1 DEF Load, LoadSet
  <2> HIDE DEF e
  <2>3. /\ Len(loads') = Len(loads) /\ loads'[Len(loads)] = e
        /\ \A j \in 1..(Len(loads) - 1) : loads'[j] = rest[j]
    BY <1>1, <1>3, <2>2, AppendIs DEF e
  <2>4. \A j \in Len(loads)..Len(loads') : j = Len(loads)
    BY <1>1, <2>3
  <2>5. \A j \in Len(loads)..Len(loads') : AsksResult(j)'
    BY <2>1, <2>2, <2>3, <2>4 DEF AsksResult
  <2> QED
    BY <1>1, <2>1, <2>2, <2>3, <2>5 DEF OneOut, Mine
<1> QED
  BY <1>2, <1>3 DEF rest

\* Where the others are then.
LEMMA Others ==
  ASSUME TypeInv, NEW i \in 1..Len(loads), OneOut(i), Len(loads') \in Nat
  PROVE  /\ \A k \in 1..Len(loads) : k # i =>
              \E n \in 1..Len(loads') : /\ n = (IF k < i THEN k ELSE k - 1)
                                       /\ loads'[n] = loads[k] /\ (Mine(n)' <=> Mine(k))
         /\ \A n \in 1..Len(loads') :
              \/ AsksResult(n)' /\ n >= Len(loads)
              \/ \E k \in 1..Len(loads) :
                   /\ k # i /\ n = (IF k < i THEN k ELSE k - 1)
                   /\ loads'[n] = loads[k] /\ (Mine(n)' <=> Mine(k))
                   /\ AsksResult(n)' <=> AsksResult(k)
<1>1. Len(loads) \in Nat /\ Route' = Route /\ mount' = mount
  BY DEF TypeInv, OneOut, Route
<1>2. ASSUME NEW k \in 1..Len(loads), k # i, NEW n, n = IF k < i THEN k ELSE k - 1
      PROVE  /\ n \in 1..Len(loads') /\ loads'[n] = loads[k] /\ (Mine(n)' <=> Mine(k))
             /\ AsksResult(n)' <=> AsksResult(k)
  <2>1. n \in 1..(Len(loads) - 1) /\ (IF n < i THEN n = k ELSE n + 1 = k) /\ n \in 1..Len(loads')
    BY <1>1, <1>2 DEF OneOut
  <2>2. loads'[n] = loads[k]
    BY <2>1 DEF OneOut
  <2> QED
    BY <1>1, <2>1, <2>2 DEF Mine, AsksResult
<1>3. ASSUME NEW n \in 1..Len(loads')
      PROVE  \/ AsksResult(n)' /\ n >= Len(loads)
             \/ \E k \in 1..Len(loads) : k # i /\ n = (IF k < i THEN k ELSE k - 1)
  <2>1. CASE n >= Len(loads)
    BY <1>1, <2>1 DEF OneOut
  <2>2. CASE n < Len(loads)
    <3> DEFINE k == IF n < i THEN n ELSE n + 1
    <3>1. k \in 1..Len(loads) /\ k # i /\ n = (IF k < i THEN k ELSE k - 1)
      BY <1>1, <2>2
    <3> QED
      BY <3>1
  <2> QED
    BY <1>1, <2>1, <2>2
<1> QED
  BY <1>2, <1>3

\* The load of the server stays the last but for results of the route.
LEMMA ComesKept ==
  ASSUME TypeInv, NEW i \in 1..Len(loads), OneOut(i), Len(loads') \in Nat,
         NEW k \in 1..Len(loads), k # i,
         Mine(k), loads[k].part = "server", loads[k].srv = Route.srv,
         \A j \in (k + 1)..Len(loads) : Mine(j) => AsksResult(j)
  PROVE  ServerComes'
<1>1. Route' = Route /\ Len(loads) \in Nat
  BY DEF OneOut, Route, TypeInv
<1>2. PICK n \in 1..Len(loads') :
        n = (IF k < i THEN k ELSE k - 1) /\ loads'[n] = loads[k] /\ Mine(n)'
  BY Others
<1>3. ASSUME NEW j \in (n + 1)..Len(loads'), Mine(j)'
      PROVE  AsksResult(j)'
  <2>1. j \in 1..Len(loads')
    BY <1>2
  <2>2. CASE \E m \in 1..Len(loads) :
               /\ m # i /\ j = (IF m < i THEN m ELSE m - 1)
               /\ (Mine(j)' <=> Mine(m)) /\ (AsksResult(j)' <=> AsksResult(m))
    <3>1. PICK m \in 1..Len(loads) :
               /\ m # i /\ j = (IF m < i THEN m ELSE m - 1)
               /\ (Mine(j)' <=> Mine(m)) /\ (AsksResult(j)' <=> AsksResult(m))
      BY <2>2
    <3>2. m \in (k + 1)..Len(loads)
      BY <1>1, <1>2, <1>3, <3>1
    <3> QED
      BY <1>3, <3>1, <3>2
  <2> QED
    BY <2>1, <2>2, Others
<1> QED
  BY <1>1, <1>2, <1>3 DEF ServerComes

\* Once the server of the route is there, only results of it are on their way.
LEMMA CameKept ==
  ASSUME TypeInv, NEW i \in 1..Len(loads), OneOut(i), Len(loads') \in Nat,
         server'[mount] = Route.srv,
         \A k \in 1..Len(loads) : k # i /\ Mine(k) => AsksResult(k),
         (\A n \in 1..Len(loads') : ~ Mine(n)') => shown' = Route.q
  PROVE  ServerCame'
<1>1. Route' = Route /\ mount' = mount
  BY DEF OneOut, Route
<1>2. \A n \in 1..Len(loads') : Mine(n)' => AsksResult(n)'
  BY Others
<1> QED
  BY <1>1, <1>2 DEF ServerCame

\* The answer of a server that is in order brings the route's, or an earlier one
\* before it.
LEMMA AnswerServerOrder ==
  ASSUME TypeInv, OrderInv, NEW i \in 1..Len(loads), AnswerServer(i)
  PROVE  OrderInv'
<1> DEFINE l == loads[i]
           rest == RemoveAt(loads, i)
<1> SUFFICES ASSUME ~ overtaken', Route'.kind # "home", ~ failed'
             PROVE  ServerComes' \/ ServerCame'
  BY DEF OrderInv
<1>1. /\ UNCHANGED <<hist, pos, mount, failed>> /\ Route' = Route /\ l.part = "server"
      /\ server' = [server EXCEPT ![l.mount] = l.srv] /\ Take(i)
  BY DEF AnswerServer, Route
<1>2. l.srv \in Server /\ l.mount \in 1..mount /\ Len(loads) \in Nat /\ mount \in 1..mount
  <2>1. l \in LoadSet
    BY DEF TypeInv
  <2> QED
    BY <2>1 DEF TypeInv, LoadSet
<1>3. server'[mount] = IF Mine(i) THEN l.srv ELSE server[mount]
  BY <1>1, <1>2 DEF TypeInv, Mine
<1>4. ~ overtaken /\ (Mine(i) => \A j \in 1..(i - 1) : ~ Mine(j)) /\ (ServerComes \/ ServerCame)
  <2>1. Take(i) /\ ~ overtaken'
    BY <1>1
  <2> QED
    BY <1>1, <2>1, FirstOfPage DEF OrderInv
<1>5. /\ ~ Mine(i) => loads' = rest /\ shown' = shown
      /\ Mine(i) /\ Route.q # NoResult =>
           loads' = Append(rest, Load(mount, "result", l.srv, Route.q))
      /\ Mine(i) /\ Route.q = NoResult => loads' = rest /\ shown' = Route.q
  BY DEF AnswerServer, Mine
<1>6. OneOut(i) /\ Len(loads') \in Nat /\ (Mine(i) /\ Route.q # NoResult => Mine(Len(loads))' /\ Len(loads') > 0)
  <2>1. CASE loads' = rest
    <3>1. OneOut(i) /\ Len(loads') = Len(loads) - 1
      BY <1>1, <2>1, OutIs
    <3>2. CASE ~ (Mine(i) /\ Route.q # NoResult)
      BY <1>2, <3>1, <3>2
    <3>3. CASE Mine(i) /\ Route.q # NoResult
      <4>1. OneOut(i) /\ Len(loads') = Len(loads) /\ Mine(Len(loads))'
        BY <1>1, <1>2, <1>5, <3>3, OutIs
      <4> QED
        BY <1>2, <3>1, <4>1
    <3> QED
      BY <3>2, <3>3
  <2>2. CASE loads' = Append(rest, Load(mount, "result", l.srv, Route.q))
    <3>1. OneOut(i) /\ Len(loads') = Len(loads) /\ Mine(Len(loads))'
      BY <1>1, <1>2, <2>2, OutIs
    <3>2. Len(loads') \in Nat /\ Len(loads') > 0
      BY <1>2, <3>1
    <3> QED
      BY <3>1, <3>2
  <2> QED
    BY <1>5, <2>1, <2>2
<1>7. CASE ServerComes
  <2>1. PICK k \in 1..Len(loads) :
          /\ Mine(k) /\ loads[k].part = "server" /\ loads[k].srv = Route.srv
          /\ \A j \in (k + 1)..Len(loads) : Mine(j) => AsksResult(j)
    BY <1>7 DEF ServerComes
  <2>2. CASE k # i
    BY <1>6, <2>1, <2>2, ComesKept
  <2>3. CASE k = i
    <3>1. \A j \in 1..Len(loads) : j # i /\ Mine(j) => AsksResult(j)
      BY <1>2, <1>4, <2>1, <2>3
    <3>2. server'[mount] = Route.srv
      BY <1>3, <2>1, <2>3
    <3>3. (\A n \in 1..Len(loads') : ~ Mine(n)') => shown' = Route.q
      <4>1. CASE Route.q = NoResult
        BY <1>5, <2>1, <2>3, <4>1
      <4>2. CASE Route.q # NoResult
        <5>1. Len(loads') \in 1..Len(loads') /\ Mine(Len(loads))'
          BY <1>6, <2>1, <2>3, <4>2
        <5> QED
          BY <5>1
      <4> QED
        BY <4>1, <4>2
    <3> QED
      BY <1>6, <3>1, <3>2, <3>3, CameKept
  <2> QED
    BY <2>2, <2>3
<1>8. CASE ServerCame
  <2>1. ~ Mine(i)
    BY <1>1, <1>8 DEF ServerCame, AsksResult
  <2>2. (\A n \in 1..Len(loads') : ~ Mine(n)') => shown' = Route.q
    <3> SUFFICES ASSUME \A n \in 1..Len(loads') : ~ Mine(n)'  PROVE shown' = Route.q
      OBVIOUS
    <3>1. \A k \in 1..Len(loads) : k # i => ~ Mine(k)
      BY <1>6, Others
    <3> QED
      BY <1>5, <1>8, <2>1, <3>1 DEF ServerCame
  <2> QED
    BY <1>3, <1>6, <1>8, <2>1, <2>2, CameKept DEF ServerCame
<1> QED
  BY <1>4, <1>7, <1>8

\* So does the answer of a result, which shows the result of the route in the end.
LEMMA AnswerResultOrder ==
  ASSUME TypeInv, OrderInv, NEW i \in 1..Len(loads), AnswerResult(i)
  PROVE  OrderInv'
<1> SUFFICES ASSUME ~ overtaken', Route'.kind # "home", ~ failed'
             PROVE  ServerComes' \/ ServerCame'
  BY DEF OrderInv
<1>1. /\ UNCHANGED <<hist, pos, mount, server, failed>> /\ Route' = Route
      /\ loads[i].part = "result" /\ Take(i) /\ loads' = RemoveAt(loads, i)
      /\ shown' = IF Mine(i) THEN loads[i].q ELSE shown
  BY DEF AnswerResult, Route, Mine
<1>2. OneOut(i) /\ Len(loads') \in Nat
  <2>1. Len(loads) \in Nat /\ Len(loads) - 1 \in Nat
    BY DEF TypeInv
  <2> QED
    BY <1>1, <2>1, OutIs
<1>3. ServerComes \/ ServerCame
  <2>1. Take(i) /\ ~ overtaken'
    BY <1>1
  <2> QED
    BY <1>1, <2>1, FirstOfPage DEF OrderInv
<1>4. CASE ServerComes
  <2>1. PICK k \in 1..Len(loads) :
          /\ Mine(k) /\ loads[k].part = "server" /\ loads[k].srv = Route.srv
          /\ \A j \in (k + 1)..Len(loads) : Mine(j) => AsksResult(j)
    BY <1>4 DEF ServerComes
  <2>2. k # i
    BY <1>1, <2>1
  <2> QED
    BY <1>2, <2>1, <2>2, ComesKept
<1>5. CASE ServerCame
  <2>1. ASSUME \A n \in 1..Len(loads') : ~ Mine(n)'  PROVE shown' = Route.q
    <3>1. \A k \in 1..Len(loads) : k # i => ~ Mine(k)
      BY <1>2, <2>1, Others
    <3> QED
      BY <1>1, <1>5, <3>1 DEF ServerCame, AsksResult
  <2>2. server'[mount] = Route.srv /\ \A k \in 1..Len(loads) : k # i /\ Mine(k) => AsksResult(k)
    BY <1>1, <1>5 DEF ServerCame
  <2> QED
    BY <1>2, <2>1, <2>2, CameKept
<1> QED
  BY <1>3, <1>4, <1>5

\* A load that fails fails for the page, or was for another one.
LEMMA LoadFailsOrder ==
  ASSUME TypeInv, OrderInv, NEW i \in 1..Len(loads), LoadFails(i)
  PROVE  OrderInv'
<1> SUFFICES ASSUME ~ overtaken', Route'.kind # "home", ~ failed'
             PROVE  ServerComes' \/ ServerCame'
  BY DEF OrderInv
<1>1. /\ UNCHANGED <<hist, pos, mount, server, shown, failed>> /\ Route' = Route /\ ~ Mine(i)
      /\ Take(i) /\ loads' = RemoveAt(loads, i)
  BY DEF LoadFails, Route, Mine
<1>2. OneOut(i) /\ Len(loads') \in Nat
  <2>1. Len(loads) \in Nat /\ Len(loads) - 1 \in Nat
    BY DEF TypeInv
  <2> QED
    BY <1>1, <2>1, OutIs
<1>3. ServerComes \/ ServerCame
  <2>1. Take(i) /\ ~ overtaken'
    BY <1>1
  <2> QED
    BY <1>1, <2>1, FirstOfPage DEF OrderInv
<1>4. CASE ServerComes
  <2>1. PICK k \in 1..Len(loads) :
          /\ Mine(k) /\ loads[k].part = "server" /\ loads[k].srv = Route.srv
          /\ \A j \in (k + 1)..Len(loads) : Mine(j) => AsksResult(j)
    BY <1>4 DEF ServerComes
  <2> QED
    BY <1>1, <1>2, <2>1, ComesKept
<1>5. CASE ServerCame
  <2>1. ASSUME \A n \in 1..Len(loads') : ~ Mine(n)'  PROVE shown' = Route.q
    <3>1. \A k \in 1..Len(loads) : ~ Mine(k)
      BY <1>1, <1>2, <2>1, Others
    <3> QED
      BY <1>1, <1>5, <3>1 DEF ServerCame
  <2>2. server'[mount] = Route.srv /\ \A k \in 1..Len(loads) : k # i /\ Mine(k) => AsksResult(k)
    BY <1>1, <1>5 DEF ServerCame
  <2> QED
    BY <1>2, <2>1, <2>2, CameKept
<1> QED
  BY <1>3, <1>4, <1>5

LEMMA OrderNext == TypeInv /\ OrderInv /\ [Next]_vars => OrderInv'
<1> SUFFICES ASSUME TypeInv, OrderInv, [Next]_vars  PROVE OrderInv'
  OBVIOUS
<1>0. DOMAIN loads = 1..Len(loads)
  BY DEF TypeInv
<1>1. CASE PressRun
  BY <1>1, OrderKept DEF PressRun
<1>2. CASE Move
  <2>1. PICK p \in 1..Len(hist) : GoTo(hist, p)
    BY <1>2, MoveIs
  <2>2. hist \in Seq(Routes)
    BY DEF TypeInv
  <2> QED
    BY <2>1, <2>2, OrderReset
<1>3. CASE LoadEnds
  BY <1>0, <1>3, AnswerServerOrder, AnswerResultOrder, LoadFailsOrder DEF LoadEnds
<1>4. ASSUME NEW run \in runs, AnswerRun(run)  PROVE OrderInv'
  <2>1. PICK h \in Seq(Routes) : Len(h) = pos + 1 /\ GoTo(h, pos + 1)
    BY <1>4, AnswerRunIs
  <2>2. pos + 1 \in 1..Len(h)
    BY <2>1 DEF TypeInv
  <2> QED
    BY <2>1, <2>2, OrderReset
<1>5. ASSUME NEW run \in runs, RunFails(run)  PROVE OrderInv'
  BY <1>5, OrderKept DEF RunFails
<1>6. CASE UNCHANGED vars
  BY <1>6, OrderKept DEF vars
<1> QED
  BY <1>1, <1>2, <1>3, <1>4, <1>5, <1>6 DEF Next

-----------------------------------------------------------------------------
(* The links are true for a user who waits *)

LEMMA HomeNext == TypeInv /\ HomeFirst /\ [Next]_vars => HomeFirst'
<1> SUFFICES ASSUME TypeInv, HomeFirst, [Next]_vars  PROVE HomeFirst'
  OBVIOUS
<1>1. CASE hist' = hist
  BY <1>1 DEF HomeFirst
<1>2. CASE Move
  BY <1>1, <1>2 DEF Move, GoTo
<1>3. ASSUME NEW run \in runs, AnswerRun(run)  PROVE HomeFirst'
  <2>1. PICK h \in Seq(Routes) :
          /\ Len(h) = pos + 1 /\ GoTo(h, pos + 1)
          /\ \A i \in 1..pos : h[i] = hist[i]
          /\ h[pos + 1] = Page(Destination(run), run.id)
    BY <1>3, AnswerRunIs
  <2>2. ASSUME NEW i \in 1..Len(h), h[i].kind = "home"  PROVE i = 1
    <3>1. CASE i = pos + 1
      BY <2>1, <2>2, <3>1 DEF Page
    <3>2. CASE i # pos + 1
      <4>1. i \in 1..pos /\ i \in 1..Len(hist)
        BY <2>1, <3>2 DEF TypeInv
      <4> QED
        BY <2>1, <2>2, <4>1 DEF HomeFirst
    <3> QED
      BY <3>1, <3>2
  <2> QED
    BY <2>1, <2>2 DEF GoTo, HomeFirst
<1> QED
  BY <1>1, <1>2, <1>3
     DEF Next, vars, PressRun, LoadEnds, AnswerServer, AnswerResult, LoadFails, RunFails

\* A user who has waited after a step waited before it.
LEMMA StillPatient ==
  ASSUME [Next]_vars, ~ hasty'
  PROVE  ~ hasty
BY DEF Next, vars, PressRun, Ask, Move, LoadEnds, AnswerServer, AnswerResult, LoadFails,
       AnswerRun, RunFails, AutoRun

\* A history that stays names the servers at which the results were made.
LEMMA HistoryKept ==
  ASSUME TypeInv, OneServer, hist' = hist,
         \A q \in DOMAIN ranAt : q \in DOMAIN ranAt' /\ ranAt'[q] = ranAt[q]
  PROVE  OneServer'
BY DEF TypeInv, OneServer, LinkIsTrue

\* A page of the server of the one before it agrees with its route.
LEMMA PageOfOneServer ==
  ASSUME TypeInv, PageAgrees, NEW h \in Seq(Routes), NEW p \in 1..Len(h), GoTo(h, p),
         Route.kind # "home" /\ h[p].kind # "home" => h[p].srv = Route.srv
  PROVE  PageAgrees'
<1> SUFFICES ASSUME Route'.kind # "home"
             PROVE  /\ server'[mount'] = NoServer
                    /\ \A i \in 1..Len(loads') :
                         loads'[i].mount = mount' => loads'[i].srv = Route'.srv
  BY DEF PageAgrees, Mine
<1> DEFINE l == Load(mount', "server", h[p].srv, NoResult)
<1>1. /\ Route' = h[p] /\ h[p] \in Routes /\ mount \in Nat /\ server'[mount'] = NoServer
      /\ mount' = IF Branch(h[p]) = Branch(Route) THEN mount ELSE mount + 1
  <2>1. h[p] \in Routes /\ mount \in Nat
    BY DEF TypeInv
  <2> QED
    BY <2>1, GoToParts
<1>2. h[p].srv \in Server /\ mount' \in Nat
  BY <1>1, RouteParts
<1>3. l \in LoadSet /\ l.srv = h[p].srv
  BY <1>2 DEF Load, LoadSet
<1>4. loads' = Append(loads, l)
  BY <1>1, GoToParts
<1> HIDE DEF l
<1>5. /\ Len(loads) \in Nat /\ Len(loads') = Len(loads) + 1 /\ loads'[Len(loads) + 1] = l
      /\ \A i \in 1..Len(loads) : loads'[i] = loads[i]
  BY <1>3, <1>4, AppendIs DEF TypeInv
<1>6. ASSUME NEW i \in 1..Len(loads), loads[i].mount = mount'
      PROVE  loads[i].srv = h[p].srv
  <2>1. loads[i].mount \in 1..mount
    BY DEF TypeInv
  <2>2. mount' = mount /\ Branch(h[p]) = Branch(Route)
    BY <1>1, <1>6, <2>1
  <2>3. Route.kind # "home"
    BY <1>1, <2>2 DEF Branch
  <2> QED
    BY <1>1, <1>6, <2>2, <2>3 DEF PageAgrees, Mine
<1>7. ASSUME NEW i \in 1..Len(loads')  PROVE i \in 1..Len(loads) \/ i = Len(loads) + 1
  BY <1>5
<1> QED
  BY <1>1, <1>3, <1>5, <1>6, <1>7

\* A run that an autorun link starts for a user who waits is the only one.
LEMMA AutoRunAgrees ==
  ASSUME TypeInv, OneServer, RunAgrees, UNCHANGED <<hist, pos, mount>>,
         NEW s \in Server \cup {NoServer}, s = server'[mount],
         NEW isRunning \in BOOLEAN, NEW others \in SUBSET runs,
         AutoRun(s, isRunning, others), ~ hasty',
         Route.kind # "home" => s \in {NoServer, Route.srv},
         \A run \in others : run.mount # Dashboard => s = Route.srv
  PROVE  OneServer' /\ RunAgrees'
<1>1. /\ RunsKept
      /\ \/ runs' = others /\ ranAt' = ranAt
         \/ /\ Route.kind = "auto" /\ s \in Server
            /\ runs' = others \cup {Run(mount, s, NextRun)} /\ ranAt'[NextRun] = s
            /\ hasty' = (hasty \/ others # {})
  BY AutoRunIs
<1>2. OneServer'
  BY <1>1, HistoryKept DEF RunsKept
<1>3. Route' = Route /\ server'[mount'] = s
  BY DEF Route
<1>4. CASE runs' = others /\ ranAt' = ranAt
  <2>1. ASSUME NEW run \in others
        PROVE  /\ others = {run} /\ ranAt[run.id] = run.srv
               /\ IF run.mount = Dashboard THEN Route.kind = "home"
                  ELSE /\ run.mount = mount /\ Route.kind # "home" /\ run.srv = Route.srv
                       /\ s = Route.srv
    <3>1. run \in runs /\ runs = {run}
      BY DEF RunAgrees
    <3>2. others = {run}
      BY <3>1
    <3> QED
      BY <3>1, <3>2 DEF RunAgrees
  <2> QED
    BY <1>2, <1>3, <1>4, <2>1 DEF RunAgrees
<1>5. CASE /\ Route.kind = "auto" /\ s \in Server
           /\ runs' = others \cup {Run(mount, s, NextRun)} /\ ranAt'[NextRun] = s
           /\ hasty' = (hasty \/ others # {})
  <2> DEFINE run == Run(mount, s, NextRun)
  <2>1. runs' = {run}
    BY <1>5
  <2>2. run.mount = mount /\ run.srv = s /\ run.id = NextRun /\ mount # Dashboard
    BY DEF Run, TypeInv, Dashboard
  <2>3. s = Route.srv
    BY <1>5, PageAssumption
  <2> HIDE DEF run
  <2>4. \A r \in runs' : r = run
    BY <2>1
  <2>5. Route.kind # "home" /\ ranAt'[run.id] = run.srv
    BY <1>5, <2>2
  <2> QED
    BY <1>2, <1>3, <2>1, <2>2, <2>3, <2>4, <2>5 DEF RunAgrees
<1> QED
  BY <1>1, <1>2, <1>4, <1>5

\* What loads are left agrees with the route, and so does what is asked for then.
LEMMA LoadsAgree ==
  ASSUME TypeInv, PageAgrees, UNCHANGED <<hist, pos, mount>>, NEW i \in 1..Len(loads),
         server'[mount] \in {NoServer, Route.srv} \/ Route.kind = "home",
         \/ loads' = RemoveAt(loads, i)
         \/ /\ Mine(i)
            /\ loads' = Append(RemoveAt(loads, i), Load(mount, "result", loads[i].srv, Route.q))
  PROVE  PageAgrees'
<1> DEFINE rest == RemoveAt(loads, i)
           e == Load(mount, "result", loads[i].srv, Route.q)
<1> SUFFICES ASSUME Route.kind # "home"
             PROVE  \A j \in 1..Len(loads') :
                      loads'[j].mount = mount => loads'[j].srv = Route.srv
  BY DEF PageAgrees, Mine, Route
<1>1. Len(loads) \in Nat /\ mount \in Nat /\ loads[i].srv \in Server
  <2>1. loads[i] \in LoadSet
    BY DEF TypeInv
  <2> QED
    BY <2>1 DEF TypeInv, LoadSet
<1>2. /\ rest \in Seq(LoadSet) /\ Len(rest) = Len(loads) - 1
      /\ \A j \in 1..Len(rest) : rest[j] = IF j < i THEN loads[j] ELSE loads[j + 1]
  BY LoadOut
<1> HIDE DEF rest
<1>3. ASSUME NEW j \in 1..Len(rest), rest[j].mount = mount  PROVE rest[j].srv = Route.srv
  <2>1. PICK k \in 1..Len(loads) : rest[j] = loads[k]
    <3>1. (j < i => j \in 1..Len(loads)) /\ (~ (j < i) => j + 1 \in 1..Len(loads))
      BY <1>1, <1>2
    <3> QED
      BY <1>2, <3>1
  <2> QED
    BY <1>3, <2>1 DEF PageAgrees, Mine
<1>4. CASE loads' = rest
  BY <1>3, <1>4
<1>5. CASE Mine(i) /\ loads' = Append(rest, e)
  <2>1. Route.q \in Result \cup {NoResult}
    BY RouteIs, RouteParts
  <2>2. e \in LoadSet /\ e.srv = Route.srv
    BY <1>1, <1>5, <2>1 DEF Load, LoadSet, PageAgrees
  <2> HIDE DEF e
  <2>3. /\ Len(loads') = Len(rest) + 1 /\ loads'[Len(rest) + 1] = e
        /\ \A j \in 1..Len(rest) : loads'[j] = rest[j]
    BY <1>2, <1>5, <2>2, AppendIs
  <2>4. \A j \in 1..Len(loads') : j \in 1..Len(rest) \/ j = Len(rest) + 1
    BY <1>1, <1>2, <2>3
  <2> QED
    BY <1>3, <2>2, <2>3, <2>4
<1> QED
  BY <1>4, <1>5 DEF rest

LEMMA PatientNext ==
  ASSUME TypeInv, LinkInv, [Next]_vars, ~ hasty'
  PROVE  Patient'
<1>0. /\ OneServer /\ PageAgrees /\ RunAgrees /\ HomeFirst
      /\ DOMAIN loads = 1..Len(loads)
  BY StillPatient DEF LinkInv, Patient, TypeInv
<1>a. mount \in 1..mount /\ mount # Dashboard /\ server[mount] \in Server \cup {NoServer}
  BY DEF TypeInv, Dashboard
<1>1. CASE PressRun
  <2>1. PICK n \in {Dashboard, mount}, s \in Server :
          /\ IF n = Dashboard THEN Route.kind = "home"
             ELSE Route.kind # "home" /\ server[mount] = s
          /\ runs' = runs \cup {Run(n, s, NextRun)} /\ hasty' = (hasty \/ runs # {})
          /\ RunsKept /\ ranAt'[NextRun] = s
    BY <1>1, PressRunIs
  <2>2. UNCHANGED <<hist, pos, mount, server, loads>> /\ Route' = Route
    BY <1>1 DEF PressRun, Route
  <2>3. OneServer' /\ PageAgrees'
    BY <1>0, <2>1, <2>2, HistoryKept DEF RunsKept, PageAgrees, Mine
  <2> DEFINE run == Run(n, s, NextRun)
  <2>4. run.mount = n /\ run.srv = s /\ run.id = NextRun
    BY DEF Run
  <2>5. runs' = {run}
    BY <2>1
  <2> HIDE DEF run
  <2>6. Route.kind # "home" /\ n # Dashboard => s = Route.srv
    BY <1>0, <2>1, PageAssumption DEF PageAgrees
  <2>7. RunAgrees'
    <3> SUFFICES ASSUME NEW r \in runs'
                 PROVE  /\ runs' = {r} /\ ranAt'[r.id] = r.srv
                        /\ IF r.mount = Dashboard THEN Route'.kind = "home"
                           ELSE /\ r.mount = mount' /\ Route'.kind # "home"
                                /\ r.srv = Route'.srv /\ server'[mount'] = Route'.srv
      BY DEF RunAgrees
    <3>1. r = run
      BY <2>5
    <3> QED
      BY <2>1, <2>2, <2>4, <2>5, <2>6, <3>1
  <2> QED
    BY <2>3, <2>7 DEF Patient
<1>2. CASE Move
  <2>1. PICK p \in 1..Len(hist) : GoTo(hist, p)
    BY <1>2, MoveIs
  <2>2. runs' = runs /\ runs = {} /\ ranAt' = ranAt /\ hist' = hist /\ hist \in Seq(Routes)
    BY <1>2 DEF Move, GoTo, TypeInv
  <2>3. OneServer' /\ RunAgrees'
    BY <1>0, <2>2, HistoryKept DEF RunAgrees
  <2>4. Route.kind # "home" /\ hist[p].kind # "home" => hist[p].srv = Route.srv
    BY <1>0 DEF OneServer, Route, TypeInv
  <2> QED
    BY <1>0, <2>1, <2>2, <2>3, <2>4, PageOfOneServer DEF Patient
<1>3. ASSUME NEW i \in 1..Len(loads), AnswerServer(i)  PROVE Patient'
  <2> DEFINE l == loads[i]
  <2>1. /\ UNCHANGED <<hist, pos, mount>> /\ server' = [server EXCEPT ![l.mount] = l.srv]
        /\ AutoRun(server'[mount], running, runs)
        /\ \/ loads' = RemoveAt(loads, i)
           \/ /\ Mine(i)
              /\ loads' = Append(RemoveAt(loads, i), Load(mount, "result", l.srv, Route.q))
    BY <1>3 DEF AnswerServer, Mine
  <2>2. l.mount \in 1..mount /\ l.srv \in Server /\ running \in BOOLEAN
    <3>1. l \in LoadSet
      BY DEF TypeInv
    <3> QED
      BY <3>1 DEF TypeInv, LoadSet
  <2>3. server'[mount] = IF Mine(i) THEN l.srv ELSE server[mount]
    BY <1>a, <2>1, <2>2 DEF TypeInv, Mine
  <2>4. server'[mount] \in Server \cup {NoServer}
    BY <1>a, <2>2, <2>3
  <2>5. Route.kind # "home" => server'[mount] \in {NoServer, Route.srv}
    BY <1>0, <2>3 DEF PageAgrees
  <2>6. PageAgrees'
    <3> HIDE DEF TypeInv
    <3> QED
      BY <1>0, <2>1, <2>5, LoadsAgree
  <2>7. \A run \in runs : run.mount # Dashboard => server'[mount] = Route.srv
    BY <1>0, <2>3 DEF RunAgrees, PageAgrees
  <2>8. OneServer' /\ RunAgrees'
    <3>1. runs \in SUBSET runs
      OBVIOUS
    <3> QED
      BY <1>0, <2>1, <2>2, <2>4, <2>5, <2>7, <3>1, AutoRunAgrees
  <2> QED
    BY <2>6, <2>8 DEF Patient
<1>4. ASSUME NEW i \in 1..Len(loads), AnswerResult(i) \/ LoadFails(i)  PROVE Patient'
  <2>1. UNCHANGED <<hist, pos, mount, server, runs, ranAt>> /\ loads' = RemoveAt(loads, i)
    BY <1>4 DEF AnswerResult, LoadFails
  <2>2. server'[mount] \in {NoServer, Route.srv} \/ Route.kind = "home"
    BY <1>0, <2>1 DEF PageAgrees
  <2>3. PageAgrees'
    BY <1>0, <2>1, <2>2, LoadsAgree
  <2>4. OneServer' /\ RunAgrees'
    BY <1>0, <2>1, HistoryKept DEF RunAgrees, Route
  <2> QED
    BY <2>3, <2>4 DEF Patient
<1>5. ASSUME NEW run \in runs, AnswerRun(run)  PROVE Patient'
  <2>1. PICK h \in Seq(Routes) :
          /\ Len(h) = pos + 1 /\ GoTo(h, pos + 1)
          /\ \A i \in 1..pos : h[i] = hist[i]
          /\ h[pos + 1] = Page(Destination(run), run.id)
    BY <1>5, AnswerRunIs
  <2>2. runs = {run} /\ ranAt[run.id] = run.srv /\ runs' = {} /\ ranAt' = ranAt
    BY <1>0, <1>5 DEF RunAgrees, AnswerRun
  <2>3. /\ Destination(run) = run.srv
        /\ Route.kind # "home" => run.srv = Route.srv
    BY <1>0 DEF RunAgrees, Destination
  <2>4. /\ h[pos + 1].kind = "result" /\ h[pos + 1].srv = run.srv /\ h[pos + 1].q = run.id
    BY <2>1, <2>3 DEF Page
  <2>5. ASSUME NEW i \in 1..Len(h)
        PROVE  /\ LinkIsTrue(h[i])
               /\ h[i].kind # "home" => h[i].srv = run.srv
    <3>1. CASE i = pos + 1
      BY <2>2, <2>4, <3>1 DEF LinkIsTrue
    <3>2. CASE i # pos + 1
      <4>1. i \in 1..pos /\ i \in 1..Len(hist) /\ h[i] = hist[i]
        BY <2>1, <3>2 DEF TypeInv
      <4>2. pos \in 1..Len(hist) /\ hist[pos] = Route
        BY DEF TypeInv, Route
      <4>3. CASE Route.kind # "home"
        BY <1>0, <2>3, <4>1, <4>2, <4>3 DEF OneServer
      <4>4. CASE Route.kind = "home"
        <5>1. i = 1 /\ pos = 1
          BY <1>0, <4>1, <4>2, <4>4 DEF HomeFirst
        <5> QED
          BY <1>0, <4>1, <4>2, <4>4, <5>1 DEF OneServer
      <4> QED
        BY <4>3, <4>4
    <3> QED
      BY <3>1, <3>2
  <2>6. hist' = h /\ pos + 1 \in 1..Len(h)
    BY <2>1 DEF GoTo, TypeInv
  <2>7. OneServer' /\ RunAgrees'
    BY <2>2, <2>5, <2>6 DEF OneServer, RunAgrees, LinkIsTrue
  <2>8. PageAgrees'
    BY <1>0, <2>1, <2>3, <2>4, <2>6, PageOfOneServer
  <2> QED
    BY <2>7, <2>8 DEF Patient
<1>6. ASSUME NEW run \in runs, RunFails(run)  PROVE Patient'
  <2>1. /\ AutoRun(server[mount], running /\ run.mount # mount, runs \ {run})
        /\ UNCHANGED <<hist, pos, mount, server, loads>>
    BY <1>6 DEF RunFails
  <2>2. \A r \in runs \ {run} : FALSE
    BY <1>0 DEF RunAgrees
  <2>3. PageAgrees'
    BY <1>0, <2>1 DEF PageAgrees, Mine, Route
  <2> DEFINE others == runs \ {run}
             waits == running /\ run.mount # mount
  <2>4. others \in SUBSET runs /\ waits \in BOOLEAN
    BY DEF TypeInv
  <2>5. AutoRun(server[mount], waits, others) /\ \A r \in others : FALSE
    BY <2>1, <2>2
  <2>6. Route.kind # "home" => server[mount] \in {NoServer, Route.srv}
    BY <1>0 DEF PageAgrees
  <2>7. server[mount] = server'[mount]
    BY <2>1
  <2> HIDE DEF others, waits
  <2>8. OneServer' /\ RunAgrees'
    BY <1>0, <1>a, <2>1, <2>4, <2>5, <2>6, <2>7, AutoRunAgrees
  <2> QED
    BY <2>3, <2>8 DEF Patient
<1>7. CASE UNCHANGED vars
  BY <1>0, <1>7 DEF vars, Patient, OneServer, PageAgrees, RunAgrees, LinkIsTrue, Route, Mine
<1> QED
  BY <1>0, <1>1, <1>2, <1>3, <1>4, <1>5, <1>6, <1>7 DEF Next, LoadEnds

-----------------------------------------------------------------------------
(* The theorems *)

LEMMA InitHolds == Init => IInv
<1> SUFFICES ASSUME Init  PROVE IInv
  OBVIOUS
<1>1. PICK s \in Server, r \in {"home", "link", "auto", "result"} :
        /\ hist = << CASE r = "home" -> Home
                       [] r = "result" -> Page(s, 0)
                       [] OTHER -> Link(r, s) >>
        /\ ranAt = [q \in {0} |-> s]
  BY DEF Init
<1>2. /\ pos = 1 /\ mount = 1 /\ server = <<NoServer>> /\ shown = NoResult
      /\ failed = FALSE /\ running = FALSE /\ autoRan = FALSE
      /\ loading = (hist[1].kind # "home") /\ runs = {}
      /\ loads = IF hist[1].kind = "home" THEN <<>>
                 ELSE <<Load(1, "server", hist[1].srv, NoResult)>>
  BY DEF Init
<1> DEFINE route == hist[1]
<1>3. /\ Len(hist) = 1 /\ hist \in Seq(Routes) /\ route \in Routes
      /\ route.kind = "result" => route.q = 0 /\ route.srv = s
  <2>1. 0 \in Result
    BY PageAssumption DEF Result
  <2>2. Home \in Routes /\ Page(s, 0) \in Routes /\ Home.kind = "home"
    BY <2>1 DEF Routes, Home, Page
  <2>3. r \in {"link", "auto"} => Link(r, s) \in Routes /\ Link(r, s).kind = r
    BY DEF Routes, Link
  <2>4. CASE r = "home"
    BY <1>1, <2>2, <2>4
  <2>5. CASE r = "result"
    BY <1>1, <2>2, <2>5 DEF Page
  <2>6. CASE r \in {"link", "auto"}
    BY <1>1, <2>3, <2>6
  <2> QED
    BY <2>4, <2>5, <2>6
<1>4. Route = route /\ \A i \in 1..Len(hist) : i = 1
  BY <1>2, <1>3 DEF Route
<1>5. ranAt \in [0..0 -> Server] /\ DOMAIN ranAt = {0} /\ ranAt[0] = s /\ 0 \in 0..MaxRuns
  BY <1>1, PageAssumption
<1>6. /\ loads \in Seq(LoadSet)
      /\ route.kind = "home" => Len(loads) = 0
      /\ route.kind # "home" =>
           /\ Len(loads) = 1 /\ loads[1].mount = 1 /\ loads[1].part = "server"
           /\ loads[1].srv = route.srv
  <2>1. CASE route.kind = "home"
    BY <1>2, <2>1
  <2>2. CASE route.kind # "home"
    <3> DEFINE l == Load(1, "server", route.srv, NoResult)
    <3>1. l \in LoadSet /\ l.mount = 1 /\ l.part = "server" /\ l.srv = route.srv
      BY <1>3, <2>2, RouteParts DEF Load, LoadSet
    <3>2. loads = <<l>>
      BY <1>2, <2>2
    <3> HIDE DEF l
    <3> QED
      BY <2>2, <3>1, <3>2
  <2> QED
    BY <2>1, <2>2
<1>7. TypeInv
  <2>1. server \in [1..1 -> Server \cup {NoServer}]
    BY <1>2
  <2>2. \A i \in 1..Len(loads) : loads[i].mount = 1
    <3>1. Len(loads) \in {0, 1} /\ (Len(loads) = 1 => loads[1].mount = 1)
      BY <1>6
    <3> QED
      BY <3>1
  <2>3. loading \in BOOLEAN
    BY <1>2
  <2>4. \A i \in 1..Len(hist) : hist[i].kind = "result" => hist[i].q \in DOMAIN ranAt
    BY <1>3, <1>4, <1>5
  <2> QED
    <3>1. pos \in 1..Len(hist) /\ mount \in Nat \ {0} /\ shown \in Result \cup {NoResult}
      BY <1>2, <1>3
    <3>2. \E n \in 0..MaxRuns : ranAt \in [0..n -> Server]
      BY <1>5
    <3>3. failed \in BOOLEAN /\ running \in BOOLEAN /\ autoRan \in BOOLEAN
      BY <1>2
    <3>4. server \in [1..mount -> Server \cup {NoServer}]
      BY <1>2, <2>1
    <3>5. loads \in Seq(LoadSet) /\ \A i \in 1..Len(loads) : loads[i].mount \in 1..mount
      BY <1>2, <1>6, <2>2
    <3>6. hist \in Seq(Routes) /\ runs = {}
      BY <1>2, <1>3
    <3> QED
      BY <2>3, <2>4, <3>1, <3>2, <3>3, <3>4, <3>5, <3>6 DEF TypeInv
<1>8. OrderInv
  <2>1. Route.kind # "home" => ServerComes
    <3> SUFFICES ASSUME Route.kind # "home"  PROVE ServerComes
      OBVIOUS
    <3>1. route.kind # "home" /\ Route.srv = route.srv
      BY <1>4
    <3>2. /\ Len(loads) = 1 /\ loads[1].mount = 1 /\ loads[1].part = "server"
          /\ loads[1].srv = Route.srv
      BY <1>6, <3>1
    <3>3. 1 \in 1..Len(loads) /\ \A j \in (1 + 1)..Len(loads) : FALSE
      BY <3>2
    <3> QED
      BY <1>2, <3>2, <3>3 DEF ServerComes, Mine
  <2> QED
    BY <2>1 DEF OrderInv
<1>9. LinkInv
  <2>1. OneServer /\ HomeFirst
    BY <1>3, <1>4, <1>5 DEF OneServer, HomeFirst, LinkIsTrue
  <2>2. PageAgrees
    <3>1. server[mount] = NoServer
      BY <1>2
    <3>2. ASSUME Route.kind # "home", NEW i \in 1..Len(loads)  PROVE loads[i].srv = Route.srv
      <4>1. route.kind # "home" /\ Route.srv = route.srv
        BY <1>4, <3>2
      <4>2. Len(loads) = 1 /\ loads[1].srv = Route.srv
        BY <1>6, <4>1
      <4>3. i = 1
        BY <4>2
      <4> QED
        BY <4>2, <4>3
    <3> QED
      BY <3>1, <3>2 DEF PageAgrees
  <2>3. RunAgrees
    BY <1>2 DEF RunAgrees
  <2> QED
    BY <2>1, <2>2, <2>3 DEF LinkInv, Patient
<1> QED
  BY <1>7, <1>8, <1>9 DEF IInv

LEMMA Invariance == Spec => []IInv
<1>1. IInv /\ [Next]_vars => IInv'
  <2> SUFFICES ASSUME IInv, [Next]_vars  PROVE IInv'
    OBVIOUS
  <2>1. TypeInv' /\ OrderInv' /\ HomeFirst'
    BY TypeNext, OrderNext, HomeNext DEF IInv, LinkInv
  <2>2. ~ hasty' => Patient'
    BY PatientNext DEF IInv
  <2> QED
    BY <2>1, <2>2 DEF IInv, LinkInv
<1> QED
  BY <1>1, InitHolds, PTL DEF Spec

\* Every variable of the page has the type the code gives it.
THEOREM TypeCorrect == Spec => []TypeOK
<1>1. TypeInv => TypeOK
  <2> SUFFICES ASSUME TypeInv  PROVE TypeOK
    OBVIOUS
  <2>1. \A i \in DOMAIN loads : loads[i].mount \in 1..mount /\ loads[i].srv \in Server
    <3> SUFFICES ASSUME NEW i \in DOMAIN loads
                 PROVE  loads[i].mount \in 1..mount /\ loads[i].srv \in Server
      OBVIOUS
    <3>1. i \in 1..Len(loads) /\ loads[i] \in LoadSet
      BY DEF TypeInv
    <3> QED
      BY <3>1 DEF TypeInv, LoadSet
  <2> QED
    BY <2>1 DEF TypeInv, TypeOK
<1> QED
  BY <1>1, Invariance, PTL DEF IInv

\* A page whose loads were answered in the order they were asked for, and which
\* waits for none any more, shows the server and the result of its route.  It is
\* what loadData of ServerPage.svelte has to end with, however often the user
\* moves, runs a query or leaves the page meanwhile.
THEOREM PagesShowTheirRoute == Spec => []SettledShowsRoute
<1>1. TypeInv /\ OrderInv => SettledShowsRoute
  <2> SUFFICES ASSUME TypeInv, OrderInv, ~ overtaken, Settled  PROVE ShowsRoute
    BY DEF SettledShowsRoute
  <2>1. \A i \in 1..Len(loads) : ~ Mine(i)
    BY DEF Settled, Mine, TypeInv
  <2>2. ServerCame
    BY <2>1 DEF OrderInv, Settled, ServerComes
  <2> QED
    BY <2>1, <2>2 DEF ServerCame, ShowsRoute
<1> QED
  BY <1>1, Invariance, PTL DEF IInv

\* The address of a result names the server at which it was made, for a user who
\* waits for each run before he moves or starts the next one: what executeQuery
\* writes into the address after its await, from the server the page has then.
THEOREM LinksNameTheirServer == Spec => []LinksAreTrue
<1>1. TypeInv /\ LinkInv => LinksAreTrue
  BY DEF TypeInv, LinkInv, Patient, OneServer, LinksAreTrue
<1> QED
  BY <1>1, Invariance, PTL DEF IInv
=============================================================================
