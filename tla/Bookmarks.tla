------------------------------ MODULE Bookmarks ------------------------------
(***************************************************************************)
(* The bookmarks of the users: the handlers that add, delete and list      *)
(* them, and the tabs that show them - server pages, which load the list   *)
(* again after every change, and dashboards, which take a deleted one out  *)
(* of the list they have.  Calls are handled and answered when they are,   *)
(* answers get lost, and other clients of the API change the same rows.    *)
(***************************************************************************)
EXTENDS Integers, Sequences, SequencesExt

CONSTANTS
  User, Target,
  Grants,       \* the policy: who may use which target
  ServerPage, Dashboard,   \* the open tabs
  Owner,        \* whose tab it is
  Client,       \* users who call the API from elsewhere
  MaxRows,      \* bound: how many bookmarks are made
  MaxCalls,     \* bound: calls in flight
  MaxEvents,    \* bound: pages loaded and answers lost
  NoTab, NoTarget

Tab == ServerPage \cup Dashboard

ASSUME BookmarksAssumption ==
  /\ ServerPage \cap Dashboard = {} /\ NoTab \notin Tab /\ NoTarget \notin Target
  /\ Grants \subseteq User \X Target /\ Owner \in [Tab -> User] /\ Client \subseteq User
  /\ MaxRows \in Nat /\ MaxCalls \in Nat /\ MaxEvents \in Nat

ID == Nat \ {0}
NoID == 0

\* A row; its id stands for its title, its query and its time too.
Bookmark == [id : ID, user : User, target : Target]

\* A call of a tab or, with NoTab, of a client or a page that is gone: what is
\* asked, whether it is handled, and with which outcome.  The list after an add
\* or a delete knows which of the two it follows.
Op == {"load", "reload", "add", "delete"}

VARIABLES
  rows, made,     \* the table, and how many rows were ever put into it
  route,          \* the server of the route of a server page
  server,         \* and the one it has loaded
  list,           \* what a tab shows
  loading, failed,
  saving, deleting,   \* isSavingBookmark, and the id in isDeletingBookmarkID
  calls,          \* in the order they were made
  events,
  unseen,         \* ids that others, or calls whose answer was lost, have changed
  blurred         \* tabs that got lists out of order, or missed one

page == <<route, server, loading, failed>>
forms == <<saving, deleting>>
history == <<unseen, blurred>>
vars == <<rows, made, page, forms, list, calls, events, history>>

Call(tab, user, op, target, id, after) ==
  [tab |-> tab, user |-> user, op |-> op, target |-> target, id |-> id, after |-> after,
   handled |-> FALSE, ok |-> FALSE, list |-> {}]

\* What a tab loads: a server page the bookmarks at its server, a dashboard all.
LoadCall(t, target, op, after) == Call(t, Owner[t], op, target, NoID, after)

May(user, target) == <<user, target>> \in Grants

Stored(user, target) ==
  {r \in rows : r.user = user /\ (target # NoTarget => r.target = target)}

\* An empty table, and no tab opened yet.
Init ==
  /\ rows = {} /\ made = 0
  /\ route = [t \in ServerPage |-> NoTarget]
  /\ server = [t \in ServerPage |-> NoTarget]
  /\ list = [t \in Tab |-> {}]
  /\ loading = [t \in Tab |-> TRUE]
  /\ failed = [t \in Tab |-> FALSE]
  /\ saving = [t \in ServerPage |-> FALSE]
  /\ deleting = [t \in Tab |-> NoID]
  /\ calls = <<>>
  /\ events = 0
  /\ unseen = [t \in Tab |-> {}]
  /\ blurred = Tab

-----------------------------------------------------------------------------
(* The handlers *)

\* A change that other tabs of the user do not see by themselves.
Changed(by, u, id) ==
  unseen' = [t \in Tab |-> IF t = by \/ Owner[t] # u THEN unseen[t]
                           ELSE unseen[t] \cup {id}]

\* Nobody waits for the answer to a call without a tab; that to an add knows the
\* row for the property.
Handled(i, ok, id, items) ==
  calls' = IF calls[i].tab = NoTab THEN RemoveAt(calls, i)
           ELSE [calls EXCEPT ![i].handled = TRUE, ![i].ok = ok, ![i].id = id, ![i].list = items]

\* What goes into the table of an add of user u, and what it takes: a title, a
\* query, and a target the user may use.
Insert(u, target) ==
  /\ made' = made + 1
  /\ rows' = rows \cup {[id |-> made + 1, user |-> u, target |-> target]}

Permitted_Always(u, target, blank) == ~ blank
Permitted(u, target, blank) == ~ blank /\ May(u, target)

AddBookmark(i) ==
  \E blank \in BOOLEAN : LET c == calls[i] IN
    IF Permitted(c.user, c.target, blank)
      THEN /\ Insert(c.user, c.target)
           /\ Handled(i, TRUE, made + 1, {})
           /\ Changed(c.tab, c.user, made + 1)
      ELSE Handled(i, FALSE, NoID, {}) /\ UNCHANGED <<rows, made, unseen>>

\* The rows a delete finds; a delete that does not ask whose they are.
Deleted_Anyones(user, id) == {r \in rows : r.id = id}
Deleted(user, id) == {r \in rows : r.id = id /\ r.user = user}

\* DeleteBookmark: no row affected is an error.
DeleteBookmark(i) ==
  LET c == calls[i]
      gone == Deleted(c.user, c.id)
  IN /\ rows' = rows \ gone
     /\ Handled(i, gone # {}, c.id, {})
     /\ IF gone # {} THEN Changed(c.tab, c.user, c.id) ELSE UNCHANGED unseen
     /\ UNCHANGED made

IsList(c) == c.op \in {"load", "reload"}

\* What a tab has not seen is in the list it gets, if no later list is made.
Seen(i) ==
  LET t == calls[i].tab IN
  IF t = NoTab \/ \E j \in (i + 1)..Len(calls) : calls[j].tab = t /\ IsList(calls[j]) /\ calls[j].handled
    THEN UNCHANGED unseen
    ELSE unseen' = [unseen EXCEPT ![t] = {}]

\* ListBookmarks at a target, which the user must be allowed to use, or
\* ListAllBookmarks.
ListBookmarks(i) ==
  LET c == calls[i] IN
  /\ IF c.target = NoTarget \/ May(c.user, c.target)
       THEN Handled(i, TRUE, NoID, Stored(c.user, c.target))
       ELSE Handled(i, FALSE, NoID, {})
  /\ Seen(i)
  /\ UNCHANGED <<rows, made>>

Handle(i) ==
  /\ ~ calls[i].handled
  /\ CASE calls[i].op = "add" -> AddBookmark(i)
       [] calls[i].op = "delete" -> DeleteBookmark(i)
       [] OTHER -> ListBookmarks(i)
  /\ UNCHANGED <<page, forms, list, events, blurred>>

-----------------------------------------------------------------------------
(* The tabs *)

\* Whether the forms and the list are on the screen.
Ready(t) == ~ loading[t] /\ ~ failed[t] /\ (t \in ServerPage => server[t] # NoTarget)

Room == Len(calls) < MaxCalls

\* A row for the bound of those in flight to be made.
RowLeft == made + Cardinality({i \in DOMAIN calls : calls[i].op = "add" /\ ~ calls[i].handled}) < MaxRows

\* The calls of a page that is left go on without it, in their order; those that
\* are handled come to nothing.
Remaining(t) == {i \in DOMAIN calls : ~ (calls[i].tab = t /\ calls[i].handled)}

InOrder(places) ==
  {order \in Bijection(1..Cardinality(places), places) :
     \A m, n \in DOMAIN order : m < n => order[m] < order[n]}

Left(t, order) ==
  [n \in DOMAIN order |->
     IF calls[order[n]].tab = t THEN [calls[order[n]] EXCEPT !.tab = NoTab] ELSE calls[order[n]]]

\* The page of a tab is loaded: afresh, or, for a server page, by a step in the
\* history that keeps the component and what it has in flight.
LoadPage(t, target, before) ==
  /\ events < MaxEvents /\ Room
  /\ events' = events + 1
  /\ list' = [list EXCEPT ![t] = {}]
  /\ loading' = [loading EXCEPT ![t] = TRUE]
  /\ failed' = [failed EXCEPT ![t] = FALSE]
  /\ calls' = Append(before, LoadCall(t, target, "load", "none"))
  /\ IF t \in ServerPage
       THEN route' = [route EXCEPT ![t] = target] /\ server' = [server EXCEPT ![t] = NoTarget]
       ELSE UNCHANGED <<route, server>>
  /\ blurred' = IF \E i \in DOMAIN before : before[i].tab = t /\ IsList(before[i])
                  THEN blurred ELSE blurred \ {t}
  /\ UNCHANGED <<rows, made, unseen>>

Visit(t) ==
  /\ \E s \in IF t \in ServerPage THEN Target ELSE {NoTarget}, order \in InOrder(Remaining(t)) :
       LoadPage(t, s, Left(t, order))
  /\ saving' = IF t \in ServerPage THEN [saving EXCEPT ![t] = FALSE] ELSE saving
  /\ deleting' = [deleting EXCEPT ![t] = NoID]

\* A route change within the server page: to another server or, as after a run of
\* a query, to another entry at the same one.
Move(t) ==
  /\ t \in ServerPage /\ route[t] # NoTarget
  /\ \E s \in Target : LoadPage(t, s, calls)
  /\ UNCHANGED forms

\* saveBookmark up to its await; the button is disabled while one is saved.
Save(t) ==
  /\ Room /\ RowLeft /\ t \in ServerPage /\ Ready(t) /\ ~ saving[t]
  /\ saving' = [saving EXCEPT ![t] = TRUE]
  /\ calls' = Append(calls, Call(t, Owner[t], "add", server[t], NoID, "none"))
  /\ UNCHANGED <<rows, made, page, list, deleting, events, history>>

\* removeBookmark; only the button of the bookmark deleted last is disabled.
Delete(t) ==
  /\ Room /\ Ready(t)
  /\ \E r \in list[t] :
       /\ deleting[t] # r.id
       /\ deleting' = [deleting EXCEPT ![t] = r.id]
       /\ calls' = Append(calls, Call(t, Owner[t], "delete", NoTarget, r.id, "none"))
  /\ UNCHANGED <<rows, made, page, list, saving, events, history>>

\* Clients of the API: one adds, one deletes with any id.
ApiAdd(u) ==
  /\ RowLeft
  /\ \E s \in Target :
       /\ Permitted(u, s, FALSE)
       /\ Insert(u, s)
       /\ Changed(NoTab, u, made + 1)
  /\ UNCHANGED <<page, forms, list, calls, events, blurred>>

ApiDelete(u) ==
  /\ Room
  /\ \E id \in 1..made : calls' = Append(calls, Call(NoTab, u, "delete", NoTarget, id, "none"))
  /\ UNCHANGED <<rows, made, page, forms, list, events, history>>

-----------------------------------------------------------------------------
(* Answers *)

\* A list that is older than one still on its way, and one that does not come.
Blurs(i, ok) ==
  LET c == calls[i] IN
  blurred' = IF /\ IsList(c)
                /\ ~ ok \/ \E j \in 1..(i - 1) : calls[j].tab = c.tab /\ IsList(calls[j])
             THEN blurred \cup {c.tab} ELSE blurred

\* loadServerPage and loadDashboard after their await.
Loaded(t, c, ok) ==
  /\ loading' = [loading EXCEPT ![t] = FALSE]
  /\ list' = IF ok THEN [list EXCEPT ![t] = c.list] ELSE list
  /\ server' = IF ok /\ t \in ServerPage THEN [server EXCEPT ![t] = c.target] ELSE server
  /\ failed' = IF ok /\ t \in ServerPage THEN failed ELSE [failed EXCEPT ![t] = ~ ok]
  /\ UNCHANGED <<route, forms>>

\* A form that stays busy when its call has ended.
Free_Never(t, op) == UNCHANGED <<saving, deleting>>

\* The form of a change is free again.
Free(t, op) ==
  /\ saving' = IF op = "add" THEN [saving EXCEPT ![t] = FALSE] ELSE saving
  /\ deleting' = IF op = "delete" THEN [deleting EXCEPT ![t] = NoID] ELSE deleting

\* The server of the route as it is now; the one the change was made at.
ReloadAt_Before(t, c) == server[t]
ReloadAt(t, c) == route[t]

\* A dashboard takes the bookmark out of its list, or shows the error in place
\* of the list.
DashboardRemoved(t, c, ok) ==
  /\ list' = IF ok THEN [list EXCEPT ![t] = {r \in @ : r.id # c.id}] ELSE list
  /\ failed' = [failed EXCEPT ![t] = ~ ok]
  /\ UNCHANGED <<route, server, loading>>

\* The page goes on after the await of call i, which is out of the way.
GoOn(i, ok, rest) ==
  LET c == calls[i]
      t == c.tab
  IN CASE c.op = "load" -> Loaded(t, c, ok) /\ calls' = rest
       [] c.op = "reload" -> /\ list' = IF ok THEN [list EXCEPT ![t] = c.list] ELSE list
                             /\ Free(t, c.after)
                             /\ calls' = rest /\ UNCHANGED page
       [] c.op \in {"add", "delete"} /\ t \in ServerPage ->
            /\ IF ok THEN calls' = Append(rest, LoadCall(t, ReloadAt(t, c), "reload", c.op))
                          /\ UNCHANGED forms
                     ELSE Free(t, c.op) /\ calls' = rest
            /\ UNCHANGED <<page, list>>
       [] OTHER -> DashboardRemoved(t, c, ok) /\ Free(t, c.op) /\ calls' = rest

Answer(i) ==
  /\ calls[i].handled
  /\ GoOn(i, calls[i].ok, RemoveAt(calls, i))
  /\ Blurs(i, calls[i].ok)
  /\ UNCHANGED <<rows, made, events, unseen>>

\* The browser gives up on a call, which may yet be handled.
Lose(i) ==
  /\ events < MaxEvents
  /\ events' = events + 1
  /\ calls[i].tab # NoTab
  /\ \/ GoOn(i, FALSE, RemoveAt(calls, i))
     \/ ~ calls[i].handled /\ GoOn(i, FALSE, [calls EXCEPT ![i].tab = NoTab])
  /\ Blurs(i, FALSE)
  /\ unseen' = [unseen EXCEPT ![calls[i].tab] = @ \cup ({calls[i].id} \ {NoID})]
  /\ UNCHANGED <<rows, made>>

Next ==
  \/ \E i \in DOMAIN calls : Handle(i) \/ Answer(i) \/ Lose(i)
  \/ \E t \in Tab : Visit(t) \/ Move(t) \/ Save(t) \/ Delete(t)
  \/ \E u \in Client : ApiAdd(u) \/ ApiDelete(u)

Spec == Init /\ [][Next]_vars

\* The oldest call of a tab is handled and answered in the end.
Oldest(t, i) == calls[i].tab = t /\ \A j \in 1..(i - 1) : calls[j].tab # t

Progress(t) == \E i \in DOMAIN calls : Oldest(t, i) /\ (Handle(i) \/ Answer(i))

FairSpec == Spec /\ \A t \in Tab : WF_vars(Progress(t))

-----------------------------------------------------------------------------
(* Properties *)

TypeOK ==
  /\ rows \subseteq Bookmark /\ made \in Nat
  /\ route \in [ServerPage -> Target \cup {NoTarget}]
  /\ server \in [ServerPage -> Target \cup {NoTarget}]
  /\ list \in [Tab -> SUBSET Bookmark]
  /\ loading \in [Tab -> BOOLEAN] /\ failed \in [Tab -> BOOLEAN]
  /\ saving \in [ServerPage -> BOOLEAN] /\ deleting \in [Tab -> ID \cup {NoID}]
  /\ \A i \in DOMAIN calls : /\ calls[i].op \in Op /\ calls[i].tab \in Tab \cup {NoTab}
                             /\ calls[i].op = "add" => calls[i].target \in Target
                             /\ calls[i].user \in User /\ calls[i].list \subseteq Bookmark
  /\ unseen \in [Tab -> SUBSET ID] /\ blurred \subseteq Tab

Quiet(t) == \A i \in DOMAIN calls : calls[i].tab # t

Shown(t) == Stored(Owner[t], IF t \in ServerPage THEN route[t] ELSE NoTarget)

\* A tab that waits for nothing shows what is stored for its user and the server
\* of its route, but for what others have changed since, and what was changed by
\* a call whose answer was lost; whatever the user saved and deleted meanwhile
\* and wherever the tab was moved, if its lists came, and came in order.
QuietTabShowsStored ==
  \A t \in Tab \ blurred :
    Quiet(t) => /\ {r.id : r \in list[t] \ Shown(t)} \subseteq unseen[t]
                /\ {r.id : r \in Shown(t) \ list[t]} \subseteq unseen[t]

\* No tab ever shows a bookmark of somebody else, and none is stored for a target
\* its user may not use.
BookmarksAreOnesOwn ==
  /\ \A t \in Tab : \A r \in list[t] : r.user = Owner[t]
  /\ \A r \in rows : May(r.user, r.target)

\* A bookmark goes only by a delete of its own user, whatever ids others send.
OnlyOwnersDelete ==
  [][\A r \in rows \ rows' :
       \E i \in DOMAIN calls :
         /\ calls[i].op = "delete" /\ calls[i].id = r.id /\ calls[i].user = r.user
         /\ ~ calls[i].handled]_vars

\* The forms come back: no button stays disabled, though a save is followed by a
\* list that may fail.
FormsComeBack ==
  /\ \A t \in ServerPage : saving[t] ~> ~ saving[t]
  /\ \A t \in Tab : deleting[t] # NoID ~> deleting[t] = NoID
=============================================================================
