---------------------------- MODULE BookmarksProofs ----------------------------
(***************************************************************************)
(* Whose bookmarks are shown and deleted, and what a tab at rest shows,    *)
(* for any number of users, targets, tabs, rows and calls in flight.       *)
(***************************************************************************)
EXTENDS Bookmarks, FiniteSetTheorems, SequenceTheorems, TLAPS

-----------------------------------------------------------------------------
(* The invariant *)

CallSet ==
  [tab : Tab \cup {NoTab}, user : User, op : Op, target : Target \cup {NoTarget}, id : Nat,
   after : {"none", "add", "delete"}, handled : BOOLEAN, ok : BOOLEAN, list : SUBSET Bookmark]

\* A call of a tab is one of its user, an add is one of a server page; only a tab
\* waits for an outcome.  The list that is answered is the user's, and what a
\* delete has deleted is not there.  Ids are those of rows that were made.
CallFine(c) ==
  /\ c.op = "add" => c.target \in Target
  /\ c.handled => c.tab # NoTab
  /\ c.tab # NoTab => c.user = Owner[c.tab] /\ (c.op = "add" => c.tab \in ServerPage)
  /\ c.id <= made /\ \A r \in c.list : r.user = c.user /\ r.id <= made
  /\ c.op = "delete" /\ c.handled /\ c.ok => \A r \in rows : ~ (r.id = c.id /\ r.user = c.user)

FineCalls == {c \in CallSet : CallFine(c)}

TypeInv ==
  /\ rows \subseteq Bookmark /\ made \in Nat
  /\ route \in [ServerPage -> Target \cup {NoTarget}]
  /\ server \in [ServerPage -> Target \cup {NoTarget}]
  /\ list \in [Tab -> SUBSET Bookmark]
  /\ loading \in [Tab -> BOOLEAN] /\ failed \in [Tab -> BOOLEAN]
  /\ saving \in [ServerPage -> BOOLEAN] /\ deleting \in [Tab -> Nat]
  /\ unseen \in [Tab -> SUBSET ID] /\ blurred \subseteq Tab
  /\ calls \in Seq(FineCalls)

\* What is stored is for a target its user may use, and what is shown is one's own.
OwnInv ==
  /\ \A r \in rows : r.id <= made /\ May(r.user, r.target)
  /\ \A t \in Tab : \A r \in list[t] : r.user = Owner[t] /\ r.id <= made

\* The calls of a tab that ask for a list, and the last of them.
ListAt(s, t, i) == s[i].tab = t /\ IsList(s[i])
LastList(s, t, i) == ListAt(s, t, i) /\ \A j \in (i + 1)..Len(s) : ~ ListAt(s, t, j)

\* A dashboard that loads its list has nothing else in flight.
Alone(t) ==
  \A i \in 1..Len(calls) :
    ListAt(calls, t, i) => loading[t] /\ \A j \in 1..Len(calls) : calls[j].tab = t => j = i

DashboardInv == \A t \in Dashboard : Alone(t)

\* A change that is made, and whose answer is still on its way to the tab.
Underway(s, t, id) ==
  \E i \in 1..Len(s) : /\ s[i].tab = t /\ s[i].op \in {"add", "delete"} /\ s[i].id = id
                       /\ s[i].handled /\ s[i].ok

Where(t) == IF t \in ServerPage THEN route[t] ELSE NoTarget

\* A list is what is stored for the tab, but for what others have changed and
\* the changes that are on their way to it.
Agrees(items, t) ==
  \A r \in items \cup Shown(t) : \/ r \in items /\ r \in Shown(t)
                                 \/ r.id \in unseen[t]
                                 \/ Underway(calls, t, r.id)

\* The tab shows such a list, or the last one asked for will be one.
PageInv(t) ==
  /\ (\A i \in 1..Len(calls) : ~ ListAt(calls, t, i)) => Agrees(list[t], t)
  /\ \A i \in 1..Len(calls) :
       LastList(calls, t, i) =>
         /\ calls[i].target = Where(t)
         /\ calls[i].handled /\ calls[i].ok => Agrees(calls[i].list, t)

ShownInv == \A t \in Tab \ blurred : PageInv(t)

IInv == TypeInv /\ OwnInv /\ DashboardInv /\ ShownInv

-----------------------------------------------------------------------------
(* Sequences of calls *)

\* What is left of a sequence without its i-th element.
LEMMA RemoveAtIs ==
  ASSUME NEW S, NEW s \in Seq(S), NEW i \in 1..Len(s)
  PROVE  /\ RemoveAt(s, i) \in Seq(S) /\ Len(RemoveAt(s, i)) = Len(s) - 1
         /\ \A j \in 1..(Len(s) - 1) : RemoveAt(s, i)[j] = IF j < i THEN s[j] ELSE s[j + 1]
<1> DEFINE a == SubSeq(s, 1, i - 1)
           b == SubSeq(s, i + 1, Len(s))
<1>1. a \in Seq(S) /\ Len(a) = i - 1 /\ \A j \in 1..(i - 1) : a[j] = s[j]
  OBVIOUS
<1>2. b \in Seq(S) /\ Len(b) = Len(s) - i /\ \A j \in 1..(Len(s) - i) : b[j] = s[i + j]
  OBVIOUS
<1>3. RemoveAt(s, i) = a \o b
  BY DEF RemoveAt
<1> HIDE DEF a, b
<1>4. /\ a \o b \in Seq(S) /\ Len(a \o b) = Len(s) - 1
      /\ \A j \in 1..(Len(s) - 1) : (a \o b)[j] = IF j <= i - 1 THEN a[j] ELSE b[j - (i - 1)]
  <2>1. Len(s) \in Nat /\ Len(a) + Len(b) = Len(s) - 1
    BY <1>1, <1>2
  <2>2. /\ a \o b \in Seq(S) /\ Len(a \o b) = Len(a) + Len(b)
        /\ \A j \in 1..(Len(a) + Len(b)) :
             (a \o b)[j] = IF j <= Len(a) THEN a[j] ELSE b[j - Len(a)]
    BY <1>1, <1>2, ConcatProperties, Zenon
  <2> QED
    BY <1>1, <2>1, <2>2
<1>5. ASSUME NEW j \in 1..(Len(s) - 1)
      PROVE  (a \o b)[j] = IF j < i THEN s[j] ELSE s[j + 1]
  <2>1. CASE j < i
    BY <1>1, <1>4, <2>1
  <2>2. CASE ~ (j < i)
    <3>1. j - (i - 1) \in 1..(Len(s) - i) /\ i + (j - (i - 1)) = j + 1
      BY <2>2
    <3> QED
      BY <1>2, <1>4, <2>2, <3>1
  <2> QED
    BY <2>1, <2>2
<1> QED
  BY <1>3, <1>4, <1>5

\* What a call that is made adds to those in flight.
LEMMA AppendIs ==
  ASSUME NEW S, NEW s \in Seq(S), NEW e \in S
  PROVE  /\ Append(s, e) \in Seq(S) /\ Len(Append(s, e)) = Len(s) + 1
         /\ Append(s, e)[Len(s) + 1] = e
         /\ \A i \in 1..Len(s) : Append(s, e)[i] = s[i]
OBVIOUS

\* What a call that changes in its place does to the others.
LEMMA ExceptIs ==
  ASSUME NEW S, NEW s \in Seq(S), NEW i \in 1..Len(s), NEW e \in S
  PROVE  /\ [s EXCEPT ![i] = e] \in Seq(S) /\ Len([s EXCEPT ![i] = e]) = Len(s)
         /\ \A j \in 1..Len(s) : [s EXCEPT ![i] = e][j] = IF j = i THEN e ELSE s[j]
OBVIOUS

\* Sequences over a set are sequences over a larger one.
LEMMA SeqMono ==
  ASSUME NEW S, NEW T, S \subseteq T, NEW s \in Seq(S)
  PROVE  s \in Seq(T)
OBVIOUS

-----------------------------------------------------------------------------
(* Calls *)

\* A call in flight and what is known of it.
LEMMA CallIs ==
  ASSUME TypeInv, NEW i \in 1..Len(calls), NEW c, c = calls[i]
  PROVE  /\ c \in FineCalls /\ CallFine(c)
         /\ c.tab \in Tab \cup {NoTab} /\ c.user \in User /\ c.op \in Op
         /\ c.target \in Target \cup {NoTarget} /\ c.id \in Nat
         /\ c.after \in {"none", "add", "delete"}
         /\ c.handled \in BOOLEAN /\ c.ok \in BOOLEAN /\ c.list \in SUBSET Bookmark
<1>1. c \in FineCalls
  BY DEF TypeInv
<1>2. c \in CallSet /\ CallFine(c)
  BY <1>1 DEF FineCalls
<1> QED
  BY <1>1, <1>2 DEF CallSet

\* What is known of a call stays so while rows are made and deleted.
LEMMA FineKept ==
  ASSUME TypeInv, made' \in Nat, made <= made',
         \A r \in rows' : r \in rows \/ (r \in Bookmark /\ made < r.id)
  PROVE  FineCalls \subseteq FineCalls'
<1> SUFFICES ASSUME NEW c \in CallSet, CallFine(c)  PROVE CallFine(c)'
  BY DEF FineCalls
<1>1. c.id \in Nat /\ c.list \in SUBSET Bookmark /\ made \in Nat
  BY DEF CallSet, TypeInv
<1>2. c.id <= made' /\ \A r \in c.list : r.user = c.user /\ r.id <= made'
  BY <1>1 DEF CallFine, Bookmark, ID
<1>3. ASSUME c.op = "delete" /\ c.handled /\ c.ok, NEW r \in rows'
      PROVE  ~ (r.id = c.id /\ r.user = c.user)
  <2>1. CASE r \in rows
    BY <1>3, <2>1 DEF CallFine
  <2>2. CASE r \in Bookmark /\ made < r.id
    BY <1>1, <2>2 DEF CallFine, Bookmark, ID
  <2> QED
    BY <2>1, <2>2
<1> QED
  BY <1>2, <1>3 DEF CallFine

\* A call that is made.
LEMMA CallMade ==
  ASSUME TypeInv, NEW tab \in Tab \cup {NoTab}, NEW user \in User, NEW op \in Op,
         NEW target \in Target \cup {NoTarget}, NEW id \in Nat,
         NEW after \in {"none", "add", "delete"},
         id <= made, op = "add" => target \in Target,
         tab # NoTab => user = Owner[tab] /\ (op = "add" => tab \in ServerPage)
  PROVE  /\ Call(tab, user, op, target, id, after) \in FineCalls
         /\ Call(tab, user, op, target, id, after).tab = tab
         /\ Call(tab, user, op, target, id, after).op = op
         /\ Call(tab, user, op, target, id, after).target = target
         /\ ~ Call(tab, user, op, target, id, after).handled
BY DEF FineCalls, CallSet, CallFine, Call

\* A call whose tab is gone.
LEMMA OrphanFine ==
  ASSUME NEW c \in FineCalls, ~ c.handled
  PROVE  [c EXCEPT !.tab = NoTab] \in FineCalls /\ [c EXCEPT !.tab = NoTab].tab = NoTab
<1>1. [c EXCEPT !.tab = NoTab] \in CallSet
  BY DEF FineCalls, CallSet
<1>2. CallFine([c EXCEPT !.tab = NoTab])
  BY DEF FineCalls, CallSet, CallFine
<1> QED
  BY <1>1, <1>2 DEF FineCalls, CallSet

\* Call e is call c with its outcome.
Outcome(e, c, success, id, items) ==
  /\ e \in CallSet
  /\ e.tab = c.tab /\ e.user = c.user /\ e.op = c.op /\ e.target = c.target /\ e.after = c.after
  /\ e.handled = TRUE /\ e.ok = success /\ e.id = id /\ e.list = items

LEMMA OutcomeIs ==
  ASSUME NEW c \in CallSet, NEW success \in BOOLEAN, NEW id \in Nat, NEW items \in SUBSET Bookmark
  PROVE  Outcome([[[[c EXCEPT !.handled = TRUE] EXCEPT !.ok = success] EXCEPT !.id = id]
                    EXCEPT !.list = items], c, success, id, items)
BY DEF Outcome, CallSet

LEMMA HandledIs ==
  ASSUME TypeInv, NEW i \in 1..Len(calls), NEW success \in BOOLEAN, NEW id \in Nat,
         NEW items \in SUBSET Bookmark, Handled(i, success, id, items)
  PROVE  \/ calls[i].tab = NoTab /\ calls' = RemoveAt(calls, i)
         \/ /\ calls[i].tab # NoTab
            /\ \E e \in CallSet : /\ Outcome(e, calls[i], success, id, items)
                                  /\ calls' = [calls EXCEPT ![i] = e]
<1>1. CASE calls[i].tab = NoTab
  BY <1>1 DEF Handled
<1>2. CASE calls[i].tab # NoTab
  <2>1. calls' = [calls EXCEPT ![i].handled = TRUE, ![i].ok = success, ![i].id = id,
                               ![i].list = items]
    BY <1>2 DEF Handled
  <2>2. calls[i] \in CallSet
    BY CallIs DEF FineCalls
  <2> DEFINE e == [[[[calls[i] EXCEPT !.handled = TRUE] EXCEPT !.ok = success] EXCEPT !.id = id]
                     EXCEPT !.list = items]
  <2>3. calls' = [calls EXCEPT ![i] = e]
    BY <2>1 DEF TypeInv
  <2>4. Outcome(e, calls[i], success, id, items)
    BY <2>2, OutcomeIs
  <2> HIDE DEF e
  <2> QED
    BY <1>2, <2>3, <2>4 DEF Outcome
<1> QED
  BY <1>1, <1>2

\* The outcome of a call is fine if it is the user's, and what it deletes goes.
LEMMA OutcomeFine ==
  ASSUME TypeInv, FineCalls \subseteq FineCalls', made' \in Nat,
         NEW i \in 1..Len(calls), NEW success \in BOOLEAN, NEW id \in Nat,
         NEW items \in SUBSET Bookmark, Handled(i, success, id, items), id <= made',
         \A r \in items : r.user = calls[i].user /\ r.id <= made',
         calls[i].op = "delete" /\ success =>
           \A r \in rows' : ~ (r.id = id /\ r.user = calls[i].user)
  PROVE  calls' \in Seq(FineCalls')
<1>1. calls \in Seq(FineCalls')
  BY SeqMono DEF TypeInv
<1>2. CASE calls' = RemoveAt(calls, i)
  <2> DEFINE S == FineCalls'
  <2>1. calls \in Seq(S)
    BY <1>1
  <2> HIDE DEF S
  <2>2. RemoveAt(calls, i) \in Seq(S)
    BY <2>1, RemoveAtIs
  <2> QED
    BY <1>2, <2>2 DEF S
<1>3. ASSUME calls[i].tab # NoTab, NEW e \in CallSet, Outcome(e, calls[i], success, id, items),
             calls' = [calls EXCEPT ![i] = e]
      PROVE  calls' \in Seq(FineCalls')
  <2>1. CallFine(calls[i])
    BY CallIs
  <2>2. CallFine(e)'
    BY <1>3, <2>1 DEF CallFine, Outcome
  <2>3. e \in FineCalls'
    BY <2>2 DEF FineCalls
  <2> DEFINE S == FineCalls'
  <2>4. calls \in Seq(S) /\ e \in S
    BY <1>1, <2>3
  <2> HIDE DEF S
  <2>5. [calls EXCEPT ![i] = e] \in Seq(S)
    BY <2>4, ExceptIs
  <2> QED
    BY <1>3, <2>5 DEF S
<1> QED
  BY <1>2, <1>3, HandledIs

-----------------------------------------------------------------------------
(* The steps keep the types, and everything is its user's *)

\* What is put into the table.
LEMMA InsertIs ==
  ASSUME TypeInv, OwnInv, NEW u \in User, NEW target \in Target, May(u, target),
         Insert(u, target)
  PROVE  /\ made' = made + 1 /\ rows' \subseteq Bookmark
         /\ \A r \in rows' :
              /\ r \in rows \/ (r \in Bookmark /\ r.id = made + 1 /\ r.user = u /\ r.target = target)
              /\ r.id <= made' /\ May(r.user, r.target)
         /\ rows \subseteq rows'
         /\ FineCalls \subseteq FineCalls'
<1> DEFINE row == [id |-> made + 1, user |-> u, target |-> target]
<1>1. made \in Nat /\ made' = made + 1 /\ rows' = rows \cup {row}
  BY DEF Insert, TypeInv
<1>2. row \in Bookmark /\ row.id = made + 1 /\ row.user = u /\ row.target = target
  BY <1>1 DEF Bookmark, ID
<1> HIDE DEF row
<1>3. ASSUME NEW r \in rows
      PROVE  r \in Bookmark /\ r.id \in Nat /\ r.id <= made' /\ May(r.user, r.target)
  <2>1. r \in Bookmark
    BY DEF TypeInv
  <2> QED
    BY <1>1, <2>1 DEF OwnInv, Bookmark, ID
<1>4. /\ rows' \subseteq Bookmark
      /\ \A r \in rows' :
           /\ r \in rows \/ (r \in Bookmark /\ r.id = made + 1 /\ r.user = u /\ r.target = target)
           /\ r.id <= made' /\ May(r.user, r.target)
  BY <1>1, <1>2, <1>3
<1>5. FineCalls \subseteq FineCalls'
  BY <1>1, <1>4, FineKept
<1> QED
  BY <1>1, <1>4, <1>5

\* A change that others do not see is noted by its id.
LEMMA ChangedIs ==
  ASSUME TypeInv, NEW by, NEW u, NEW id \in ID, Changed(by, u, id)
  PROVE  /\ unseen' \in [Tab -> SUBSET ID]
         /\ \A t \in Tab : /\ unseen[t] \subseteq unseen'[t]
                           /\ t # by /\ Owner[t] = u => id \in unseen'[t]
BY DEF Changed, TypeInv

\* A permitted call names a target its user may use.
LEMMA PermittedIs ==
  ASSUME NEW u, NEW target, NEW blank \in BOOLEAN, Permitted(u, target, blank)
  PROVE  May(u, target)
BY DEF Permitted

LEMMA HandleKeeps ==
  ASSUME TypeInv, OwnInv, NEW i \in 1..Len(calls), Handle(i)
  PROVE  TypeInv' /\ OwnInv'
<1> DEFINE c == calls[i]
<1>1. UNCHANGED <<route, server, loading, failed, saving, deleting, list, blurred>>
  BY DEF Handle, page, forms
<1>2. /\ c \in FineCalls /\ CallFine(c) /\ c.user \in User /\ c.id \in Nat /\ c.op \in Op
      /\ c.tab \in Tab \cup {NoTab} /\ c.target \in Target \cup {NoTarget}
  BY CallIs
<1>3. NoID \in Nat /\ made \in Nat /\ NoID <= made /\ {} \in SUBSET Bookmark
  BY DEF NoID, TypeInv
<1> HIDE DEF c
<1>4. SUFFICES /\ rows' \subseteq Bookmark /\ made' \in Nat /\ made <= made'
               /\ unseen' \in [Tab -> SUBSET ID] /\ calls' \in Seq(FineCalls')
               /\ \A r \in rows' : r.id <= made' /\ May(r.user, r.target)
  <2>1. ASSUME made <= made', made' \in Nat, NEW t \in Tab, NEW r \in list[t]
        PROVE  r.user = Owner[t] /\ r.id <= made'
    <3>1. r.id \in Nat
      BY DEF TypeInv, Bookmark, ID
    <3> QED
      BY <1>3, <2>1, <3>1 DEF OwnInv
  <2> QED
    BY <1>1, <2>1 DEF TypeInv, OwnInv
<1>5. CASE c.op = "add"
  <2>1. PICK blank \in BOOLEAN :
          IF Permitted(c.user, c.target, blank)
            THEN /\ Insert(c.user, c.target)
                 /\ Handled(i, TRUE, made + 1, {})
                 /\ Changed(c.tab, c.user, made + 1)
            ELSE Handled(i, FALSE, NoID, {}) /\ UNCHANGED <<rows, made, unseen>>
    BY <1>5 DEF Handle, AddBookmark, c
  <2>2. CASE Permitted(c.user, c.target, blank)
    <3>1. /\ Insert(c.user, c.target) /\ Handled(i, TRUE, made + 1, {})
          /\ Changed(c.tab, c.user, made + 1) /\ May(c.user, c.target) /\ c.target \in Target
      BY <1>2, <1>5, <2>1, <2>2, PermittedIs DEF CallFine
    <3>2. /\ made' = made + 1 /\ rows' \subseteq Bookmark /\ FineCalls \subseteq FineCalls'
          /\ \A r \in rows' : r.id <= made' /\ May(r.user, r.target)
      BY <1>2, <3>1, InsertIs
    <3>3. made + 1 \in Nat /\ made + 1 \in ID /\ made' \in Nat /\ made <= made' /\ made + 1 <= made'
      BY <1>3, <3>2 DEF ID
    <3>4. unseen' \in [Tab -> SUBSET ID]
      BY <3>1, <3>3, ChangedIs
    <3>5. calls' \in Seq(FineCalls')
      BY <1>3, <1>5, <3>1, <3>2, <3>3, OutcomeFine DEF c
    <3> QED
      BY <3>2, <3>3, <3>4, <3>5
  <2>3. CASE ~ Permitted(c.user, c.target, blank)
    <3>1. Handled(i, FALSE, NoID, {}) /\ UNCHANGED <<rows, made, unseen>>
      BY <2>1, <2>3
    <3>2. FineCalls \subseteq FineCalls'
      BY <1>3, <3>1, FineKept
    <3>3. calls' \in Seq(FineCalls')
      BY <1>3, <3>1, <3>2, OutcomeFine
    <3> QED
      BY <1>3, <3>1, <3>3 DEF TypeInv, OwnInv
  <2> QED
    BY <2>2, <2>3
<1>6. CASE c.op = "delete"
  <2> DEFINE gone == Deleted(c.user, c.id)
  <2>1. /\ rows' = rows \ gone /\ Handled(i, gone # {}, c.id, {}) /\ made' = made
        /\ IF gone # {} THEN Changed(c.tab, c.user, c.id) ELSE UNCHANGED unseen
    BY <1>6 DEF Handle, DeleteBookmark, c
  <2>2. FineCalls \subseteq FineCalls' /\ c.id <= made'
    <3>1. \A r \in rows' : r \in rows
      BY <2>1
    <3> QED
      BY <1>2, <1>3, <2>1, <3>1, FineKept DEF CallFine
  <2>3. \A r \in rows' : ~ (r.id = c.id /\ r.user = c.user)
    BY <2>1 DEF Deleted
  <2>4. gone # {} => c.id \in ID
    BY DEF Deleted, TypeInv, Bookmark
  <2>5. unseen' \in [Tab -> SUBSET ID]
    BY <2>1, <2>4, ChangedIs DEF TypeInv
  <2>6. calls' \in Seq(FineCalls')
    BY <1>2, <1>3, <2>1, <2>2, <2>3, OutcomeFine DEF c
  <2> QED
    BY <1>3, <2>1, <2>5, <2>6 DEF TypeInv, OwnInv
<1>7. CASE c.op \notin {"add", "delete"}
  <2>1. /\ IF c.target = NoTarget \/ May(c.user, c.target)
             THEN Handled(i, TRUE, NoID, Stored(c.user, c.target))
             ELSE Handled(i, FALSE, NoID, {})
        /\ Seen(i) /\ UNCHANGED <<rows, made>>
    BY <1>7 DEF Handle, ListBookmarks, c
  <2>2. FineCalls \subseteq FineCalls'
    BY <1>3, <2>1, FineKept
  <2>3. /\ Stored(c.user, c.target) \in SUBSET Bookmark
        /\ \A r \in Stored(c.user, c.target) : r.user = c.user /\ r.id <= made'
    BY <2>1 DEF Stored, TypeInv, OwnInv
  <2>4. calls' \in Seq(FineCalls')
    BY <1>3, <1>7, <2>1, <2>2, <2>3, OutcomeFine DEF c
  <2>5. unseen' \in [Tab -> SUBSET ID]
    BY <2>1 DEF Seen, TypeInv
  <2> QED
    BY <1>3, <2>1, <2>4, <2>5 DEF TypeInv, OwnInv
<1> QED
  BY <1>5, <1>6, <1>7

\* A step that leaves the table alone keeps what is known of each call.
LEMMA FineStays ==
  ASSUME TypeInv, UNCHANGED <<rows, made>>
  PROVE  FineCalls' = FineCalls
BY DEF FineCalls, CallFine

\* The list a tab asks for.
LEMMA LoadMade ==
  ASSUME TypeInv, NEW t \in Tab, NEW target \in Target \cup {NoTarget},
         NEW op \in {"load", "reload"}, NEW after \in {"none", "add", "delete"}
  PROVE  /\ LoadCall(t, target, op, after) \in FineCalls
         /\ LoadCall(t, target, op, after).tab = t /\ LoadCall(t, target, op, after).op = op
         /\ LoadCall(t, target, op, after).target = target
         /\ ~ LoadCall(t, target, op, after).handled
<1>1. /\ NoID \in Nat /\ NoID <= made /\ op \in Op /\ op # "add"
      /\ t # NoTab /\ Owner[t] \in User /\ t \in Tab \cup {NoTab}
  BY BookmarksAssumption DEF NoID, TypeInv, Op
<1> QED
  BY <1>1, CallMade DEF LoadCall

\* The calls that go on without their page.
LEMMA LeftIs ==
  ASSUME TypeInv, NEW t \in Tab, NEW order \in InOrder(Remaining(t))
  PROVE  /\ Left(t, order) \in Seq(FineCalls)
         /\ Len(Left(t, order)) = Cardinality(Remaining(t))
         /\ Cardinality(Remaining(t)) \in Nat
         /\ order \in [1..Cardinality(Remaining(t)) -> Remaining(t)]
         /\ \A m, n \in 1..Cardinality(Remaining(t)) : m < n => order[m] < order[n]
         /\ \A i \in Remaining(t) : \E n \in 1..Cardinality(Remaining(t)) : order[n] = i
         /\ \A n \in 1..Cardinality(Remaining(t)) :
              Left(t, order)[n] = IF calls[order[n]].tab = t
                                    THEN [calls[order[n]] EXCEPT !.tab = NoTab]
                                    ELSE calls[order[n]]
<1> DEFINE N == Cardinality(Remaining(t))
<1>1. DOMAIN calls = 1..Len(calls) /\ Len(calls) \in Nat
  BY DEF TypeInv
<1>2. Remaining(t) \subseteq 1..Len(calls)
  BY <1>1 DEF Remaining
<1>3. N \in Nat
  <2>1. IsFiniteSet(1..Len(calls))
    BY <1>1, FS_Interval
  <2> QED
    BY <1>2, <2>1, FS_Subset, FS_CardinalityType
<1> HIDE DEF N
<1>4. /\ order \in [1..N -> Remaining(t)] /\ DOMAIN order = 1..N
      /\ \A m, n \in 1..N : m < n => order[m] < order[n]
      /\ \A i \in Remaining(t) : \E n \in 1..N : order[n] = i
  BY DEF InOrder, Bijection, Injection, Surjection, N
<1>5. Left(t, order) =
        [n \in 1..N |->
           IF calls[order[n]].tab = t THEN [calls[order[n]] EXCEPT !.tab = NoTab]
           ELSE calls[order[n]]]
  BY <1>4 DEF Left
<1>6. ASSUME NEW n \in 1..N
      PROVE  (IF calls[order[n]].tab = t THEN [calls[order[n]] EXCEPT !.tab = NoTab]
              ELSE calls[order[n]]) \in FineCalls
  <2>1. order[n] \in Remaining(t) /\ order[n] \in 1..Len(calls)
    BY <1>2, <1>4
  <2>2. calls[order[n]] \in FineCalls
    BY <2>1 DEF TypeInv
  <2>3. calls[order[n]].tab = t => ~ calls[order[n]].handled
    BY <2>1 DEF Remaining
  <2> QED
    BY <2>2, <2>3, OrphanFine
<1>7. Left(t, order) \in Seq(FineCalls) /\ Len(Left(t, order)) = N
  <2>1. Left(t, order) \in [1..N -> FineCalls]
    BY <1>5, <1>6, Zenon
  <2> QED
    BY <1>3, <2>1
<1> QED
  BY <1>3, <1>4, <1>5, <1>7 DEF N

\* A page that is loaded shows nothing yet.
LEMMA LoadPageKeeps ==
  ASSUME TypeInv, OwnInv, NEW t \in Tab, NEW target \in Target \cup {NoTarget},
         NEW before \in Seq(FineCalls), LoadPage(t, target, before),
         saving' \in [ServerPage -> BOOLEAN], deleting' \in [Tab -> Nat]
  PROVE  TypeInv' /\ OwnInv'
<1>1. /\ UNCHANGED <<rows, made, unseen>> /\ list' = [list EXCEPT ![t] = {}]
      /\ loading' = [loading EXCEPT ![t] = TRUE] /\ failed' = [failed EXCEPT ![t] = FALSE]
      /\ calls' = Append(before, LoadCall(t, target, "load", "none"))
  BY DEF LoadPage
<1>2. /\ route' \in [ServerPage -> Target \cup {NoTarget}]
      /\ server' \in [ServerPage -> Target \cup {NoTarget}]
      /\ blurred' \subseteq Tab
  BY DEF LoadPage, TypeInv
<1>3. calls' \in Seq(FineCalls')
  <2>1. LoadCall(t, target, "load", "none") \in FineCalls
    BY LoadMade
  <2>2. FineCalls' = FineCalls
    BY <1>1, FineStays
  <2> QED
    BY <1>1, <2>1, <2>2, AppendIs
<1>4. /\ list' \in [Tab -> SUBSET Bookmark]
      /\ \A u \in Tab : \A r \in list'[u] : r.user = Owner[u] /\ r.id <= made
  BY <1>1 DEF TypeInv, OwnInv
<1>5. loading' \in [Tab -> BOOLEAN] /\ failed' \in [Tab -> BOOLEAN]
  BY <1>1 DEF TypeInv
<1> QED
  BY <1>1, <1>2, <1>3, <1>4, <1>5 DEF TypeInv, OwnInv

LEMMA VisitKeeps ==
  ASSUME TypeInv, OwnInv, NEW t \in Tab, Visit(t)
  PROVE  TypeInv' /\ OwnInv'
<1>1. PICK target \in (IF t \in ServerPage THEN Target ELSE {NoTarget}),
           order \in InOrder(Remaining(t)) : LoadPage(t, target, Left(t, order))
  BY DEF Visit
<1>2. Left(t, order) \in Seq(FineCalls)
  BY LeftIs
<1>3. saving' \in [ServerPage -> BOOLEAN] /\ deleting' \in [Tab -> Nat]
  BY DEF Visit, TypeInv, NoID
<1> QED
  BY <1>1, <1>2, <1>3, LoadPageKeeps

LEMMA MoveKeeps ==
  ASSUME TypeInv, OwnInv, NEW t \in Tab, Move(t)
  PROVE  TypeInv' /\ OwnInv'
<1>1. PICK target \in Target : LoadPage(t, target, calls)
  BY DEF Move
<1>2. saving' \in [ServerPage -> BOOLEAN] /\ deleting' \in [Tab -> Nat] /\ calls \in Seq(FineCalls)
  BY DEF Move, forms, TypeInv
<1> QED
  BY <1>1, <1>2, LoadPageKeeps

\* What a call that is made leaves alone.
LEMMA CallMadeKeeps ==
  ASSUME TypeInv, OwnInv, NEW c \in FineCalls, calls' = Append(calls, c),
         UNCHANGED <<rows, made, page, list, unseen, blurred>>,
         saving' \in [ServerPage -> BOOLEAN], deleting' \in [Tab -> Nat]
  PROVE  TypeInv' /\ OwnInv'
<1>1. FineCalls' = FineCalls
  BY FineStays
<1>2. calls' \in Seq(FineCalls')
  BY <1>1, AppendIs DEF TypeInv
<1> QED
  BY <1>2 DEF TypeInv, OwnInv, page

\* The calls of the forms and of a client.
LEMMA SaveIs ==
  ASSUME TypeInv, OwnInv, NEW t \in Tab, Save(t)
  PROVE  \E c \in FineCalls : /\ calls' = Append(calls, c) /\ c.tab = t /\ c.op = "add"
                              /\ ~ c.handled /\ t \in ServerPage
<1>1. /\ t \in ServerPage /\ server[t] \in Target
      /\ calls' = Append(calls, Call(t, Owner[t], "add", server[t], NoID, "none"))
  BY DEF Save, Ready, TypeInv
<1>2. /\ NoID \in Nat /\ NoID <= made /\ "add" \in Op /\ t # NoTab /\ Owner[t] \in User
      /\ t \in Tab \cup {NoTab} /\ server[t] \in Target \cup {NoTarget}
      /\ "none" \in {"none", "add", "delete"}
  BY <1>1, BookmarksAssumption DEF NoID, TypeInv, Op
<1> DEFINE c == Call(t, Owner[t], "add", server[t], NoID, "none")
<1>3. c \in FineCalls /\ c.tab = t /\ c.op = "add" /\ ~ c.handled
  BY <1>1, <1>2, CallMade
<1> HIDE DEF c
<1> QED
  BY <1>1, <1>3 DEF c

LEMMA DeleteIs ==
  ASSUME TypeInv, OwnInv, NEW t \in Tab, Delete(t)
  PROVE  \E c \in FineCalls : /\ calls' = Append(calls, c) /\ c.tab = t /\ c.op = "delete"
                              /\ ~ c.handled /\ deleting' = [deleting EXCEPT ![t] = c.id]
                              /\ c.id \in Nat
<1>1. PICK r \in list[t] :
        /\ deleting' = [deleting EXCEPT ![t] = r.id]
        /\ calls' = Append(calls, Call(t, Owner[t], "delete", NoTarget, r.id, "none"))
  BY DEF Delete
<1>2. r \in Bookmark /\ r.id \in Nat /\ r.id <= made
  BY DEF TypeInv, OwnInv, Bookmark, ID
<1>3. /\ "delete" \in Op /\ t # NoTab /\ Owner[t] \in User
      /\ t \in Tab \cup {NoTab} /\ NoTarget \in Target \cup {NoTarget}
      /\ "none" \in {"none", "add", "delete"} /\ "delete" # "add"
  BY BookmarksAssumption DEF Op
<1> DEFINE c == Call(t, Owner[t], "delete", NoTarget, r.id, "none")
<1>4. c \in FineCalls /\ c.tab = t /\ c.op = "delete" /\ ~ c.handled
  BY <1>2, <1>3, CallMade
<1>5. c.id = r.id
  BY DEF Call
<1> HIDE DEF c
<1> QED
  BY <1>1, <1>2, <1>4, <1>5 DEF c

LEMMA ApiDeleteIs ==
  ASSUME TypeInv, OwnInv, NEW u \in Client, ApiDelete(u)
  PROVE  \E c \in FineCalls : calls' = Append(calls, c) /\ c.tab = NoTab /\ c.op = "delete"
<1>1. PICK id \in 1..made :
        calls' = Append(calls, Call(NoTab, u, "delete", NoTarget, id, "none"))
  BY DEF ApiDelete
<1>2. /\ "delete" \in Op /\ u \in User /\ id \in Nat /\ id <= made
      /\ NoTab \in Tab \cup {NoTab} /\ NoTarget \in Target \cup {NoTarget}
      /\ "none" \in {"none", "add", "delete"} /\ "delete" # "add"
  BY BookmarksAssumption DEF Op, TypeInv
<1>3. /\ Call(NoTab, u, "delete", NoTarget, id, "none") \in FineCalls
      /\ Call(NoTab, u, "delete", NoTarget, id, "none").tab = NoTab
      /\ Call(NoTab, u, "delete", NoTarget, id, "none").op = "delete"
  BY <1>2, CallMade
<1> QED
  BY <1>1, <1>3

\* What a page does with the answer to its call i, or without one.
LEMMA GoOnIs ==
  ASSUME TypeInv, NEW i \in 1..Len(calls), NEW c, c = calls[i], c.tab # NoTab,
         NEW success \in BOOLEAN, NEW rest, GoOn(i, success, rest)
  PROVE  /\ c.tab \in Tab /\ c.op \in Op
         /\ c.op = "load" => Loaded(c.tab, c, success) /\ calls' = rest
         /\ c.op = "reload" =>
              /\ list' = IF success THEN [list EXCEPT ![c.tab] = c.list] ELSE list
              /\ Free(c.tab, c.after) /\ calls' = rest /\ UNCHANGED page
         /\ c.op \in {"add", "delete"} /\ c.tab \in ServerPage =>
              /\ IF success
                   THEN /\ calls' = Append(rest, LoadCall(c.tab, route[c.tab], "reload", c.op))
                        /\ UNCHANGED forms
                   ELSE Free(c.tab, c.op) /\ calls' = rest
              /\ UNCHANGED <<page, list>>
         /\ c.op \in {"add", "delete"} /\ c.tab \notin ServerPage =>
              /\ DashboardRemoved(c.tab, c, success) /\ Free(c.tab, c.op) /\ calls' = rest
              /\ c.op = "delete" /\ c.tab \in Dashboard
<1>1. c.tab \in Tab /\ c.op \in Op /\ CallFine(c)
  BY CallIs
<1>2. CASE c.op = "load"
  BY <1>1, <1>2 DEF GoOn
<1>3. CASE c.op = "reload"
  BY <1>1, <1>3 DEF GoOn
<1>4. CASE c.op \in {"add", "delete"} /\ c.tab \in ServerPage
  BY <1>1, <1>4 DEF GoOn, ReloadAt
<1>5. CASE c.op \in {"add", "delete"} /\ c.tab \notin ServerPage
  <2>1. DashboardRemoved(c.tab, c, success) /\ Free(c.tab, c.op) /\ calls' = rest
    BY <1>1, <1>5 DEF GoOn
  <2>2. c.op = "delete" /\ c.tab \in Dashboard
    BY <1>1, <1>5 DEF CallFine, Tab
  <2> QED
    BY <1>1, <1>5, <2>1, <2>2
<1> QED
  BY <1>1, <1>2, <1>3, <1>4, <1>5 DEF Op

LEMMA FreeKeeps ==
  ASSUME TypeInv, NEW t \in Tab, NEW op, Free(t, op)
  PROVE  saving' \in [ServerPage -> BOOLEAN] /\ deleting' \in [Tab -> Nat]
BY DEF Free, TypeInv, NoID

\* The list of a tab becomes one of its user.
LEMMA ListKeeps ==
  ASSUME TypeInv, OwnInv, made' = made, NEW t \in Tab, NEW items \in SUBSET Bookmark,
         \A r \in items : r.user = Owner[t] /\ r.id <= made,
         list' = [list EXCEPT ![t] = items]
  PROVE  /\ list' \in [Tab -> SUBSET Bookmark]
         /\ \A u \in Tab : \A r \in list'[u] : r.user = Owner[u] /\ r.id <= made'
BY DEF TypeInv, OwnInv

LEMMA GoOnKeeps ==
  ASSUME TypeInv, OwnInv, NEW i \in 1..Len(calls), calls[i].tab # NoTab, NEW success \in BOOLEAN,
         NEW rest \in Seq(FineCalls), GoOn(i, success, rest), UNCHANGED <<rows, made>>,
         unseen' \in [Tab -> SUBSET ID], blurred' \subseteq Tab
  PROVE  TypeInv' /\ OwnInv'
<1> DEFINE c == calls[i]
           t == c.tab
<1>1. /\ CallFine(c) /\ t \in Tab /\ c.target \in Target \cup {NoTarget}
      /\ c.op \in Op /\ c.list \in SUBSET Bookmark
      /\ \A r \in c.list : r.user = Owner[t] /\ r.id <= made
  <2>1. CallFine(c) /\ t \in Tab /\ c.target \in Target \cup {NoTarget} /\ c.op \in Op
        /\ c.list \in SUBSET Bookmark
    BY CallIs
  <2> QED
    BY <2>1 DEF CallFine
<1>2. /\ c.op = "load" => Loaded(t, c, success) /\ calls' = rest
      /\ c.op = "reload" =>
           /\ list' = IF success THEN [list EXCEPT ![t] = c.list] ELSE list
           /\ Free(t, c.after) /\ calls' = rest /\ UNCHANGED page
      /\ c.op \in {"add", "delete"} /\ t \in ServerPage =>
           /\ IF success
                THEN /\ calls' = Append(rest, LoadCall(t, route[t], "reload", c.op))
                     /\ UNCHANGED forms
                ELSE Free(t, c.op) /\ calls' = rest
           /\ UNCHANGED <<page, list>>
      /\ c.op \in {"add", "delete"} /\ t \notin ServerPage =>
           /\ DashboardRemoved(t, c, success) /\ Free(t, c.op) /\ calls' = rest
  BY GoOnIs
<1> HIDE DEF c, t
<1>3. FineCalls' = FineCalls
  BY FineStays
<1>4. SUFFICES /\ calls' \in Seq(FineCalls)
               /\ list' \in [Tab -> SUBSET Bookmark]
               /\ \A u \in Tab : \A r \in list'[u] : r.user = Owner[u] /\ r.id <= made'
               /\ server' \in [ServerPage -> Target \cup {NoTarget}] /\ route' = route
               /\ loading' \in [Tab -> BOOLEAN] /\ failed' \in [Tab -> BOOLEAN]
               /\ saving' \in [ServerPage -> BOOLEAN] /\ deleting' \in [Tab -> Nat]
  BY <1>3 DEF TypeInv, OwnInv
<1>5. list' = list => /\ list' \in [Tab -> SUBSET Bookmark]
                      /\ \A u \in Tab : \A r \in list'[u] : r.user = Owner[u] /\ r.id <= made'
  BY DEF TypeInv, OwnInv
<1>6. list' = [list EXCEPT ![t] = c.list] =>
        /\ list' \in [Tab -> SUBSET Bookmark]
        /\ \A u \in Tab : \A r \in list'[u] : r.user = Owner[u] /\ r.id <= made'
  BY <1>1, ListKeeps
<1>7. CASE c.op = "load"
  <2>1. Loaded(t, c, success) /\ calls' = rest
    BY <1>2, <1>7
  <2>2. /\ list' = [list EXCEPT ![t] = c.list] \/ list' = list
        /\ route' = route /\ saving' = saving /\ deleting' = deleting
    BY <2>1 DEF Loaded, forms
  <2>3. /\ server' \in [ServerPage -> Target \cup {NoTarget}]
        /\ loading' \in [Tab -> BOOLEAN] /\ failed' \in [Tab -> BOOLEAN]
    BY <1>1, <2>1 DEF Loaded, TypeInv
  <2> QED
    BY <1>5, <1>6, <2>1, <2>2, <2>3 DEF TypeInv
<1>8. CASE c.op = "reload"
  <2>1. /\ list' = [list EXCEPT ![t] = c.list] \/ list' = list
        /\ Free(t, c.after) /\ calls' = rest /\ UNCHANGED page
    BY <1>2, <1>8
  <2> QED
    BY <1>1, <1>5, <1>6, <2>1, FreeKeeps DEF TypeInv, page
<1>9. CASE c.op \in {"add", "delete"} /\ t \in ServerPage
  <2>1. UNCHANGED <<route, server, loading, failed, list>>
    BY <1>2, <1>9 DEF page
  <2>2. CASE success
    <3>1. /\ calls' = Append(rest, LoadCall(t, route[t], "reload", c.op))
          /\ saving' = saving /\ deleting' = deleting
      BY <1>2, <1>9, <2>2 DEF forms
    <3>2. route[t] \in Target \cup {NoTarget}
      BY <1>9 DEF TypeInv
    <3>3. LoadCall(t, route[t], "reload", c.op) \in FineCalls
      BY <1>1, <1>9, <3>2, LoadMade
    <3>4. calls' \in Seq(FineCalls)
      BY <3>1, <3>3, AppendIs
    <3> QED
      BY <1>5, <2>1, <3>1, <3>4 DEF TypeInv
  <2>3. CASE ~ success
    <3>1. Free(t, c.op) /\ calls' = rest
      BY <1>2, <1>9, <2>3
    <3> QED
      BY <1>1, <1>5, <2>1, <3>1, FreeKeeps DEF TypeInv
  <2> QED
    BY <2>2, <2>3
<1>10. CASE c.op \in {"add", "delete"} /\ t \notin ServerPage
  <2>1. DashboardRemoved(t, c, success) /\ Free(t, c.op) /\ calls' = rest
    BY <1>2, <1>10
  <2>2. /\ list' = IF success THEN [list EXCEPT ![t] = {r \in list[t] : r.id # c.id}] ELSE list
        /\ UNCHANGED <<route, server, loading>> /\ failed' \in [Tab -> BOOLEAN]
    BY <1>1, <2>1 DEF DashboardRemoved, TypeInv
  <2> DEFINE less == {r \in list[t] : r.id # c.id}
  <2>3. less \in SUBSET Bookmark /\ \A r \in less : r.user = Owner[t] /\ r.id <= made
    BY <1>1 DEF TypeInv, OwnInv
  <2>4. list' = [list EXCEPT ![t] = less] \/ list' = list
    BY <2>2
  <2> HIDE DEF less
  <2>5. /\ list' \in [Tab -> SUBSET Bookmark]
        /\ \A u \in Tab : \A r \in list'[u] : r.user = Owner[u] /\ r.id <= made'
    <3>1. CASE list' = list
      BY <1>5, <3>1
    <3>2. CASE list' = [list EXCEPT ![t] = less]
      BY <1>1, <2>3, <3>2, ListKeeps
    <3> QED
      BY <2>4, <3>1, <3>2
  <2> QED
    BY <1>1, <2>1, <2>2, <2>5, FreeKeeps DEF TypeInv
<1> QED
  BY <1>1, <1>7, <1>8, <1>9, <1>10 DEF Op

LEMMA AnswerKeeps ==
  ASSUME TypeInv, OwnInv, NEW i \in 1..Len(calls), Answer(i)
  PROVE  TypeInv' /\ OwnInv'
<1>1. /\ calls[i].handled /\ GoOn(i, calls[i].ok, RemoveAt(calls, i)) /\ Blurs(i, calls[i].ok)
      /\ UNCHANGED <<rows, made, unseen>>
  BY DEF Answer
<1>2. CallFine(calls[i]) /\ calls[i].ok \in BOOLEAN /\ calls[i].tab \in Tab \cup {NoTab}
  BY CallIs
<1>3. calls[i].tab # NoTab /\ RemoveAt(calls, i) \in Seq(FineCalls)
  BY <1>1, <1>2, RemoveAtIs DEF CallFine, TypeInv
<1>4. unseen' \in [Tab -> SUBSET ID] /\ blurred' \subseteq Tab
  BY <1>1, <1>2, <1>3 DEF Blurs, TypeInv
<1> QED
  BY <1>1, <1>2, <1>3, <1>4, GoOnKeeps

\* A call that is lost is forgotten, or goes on without its tab.
LEMMA LoseIs ==
  ASSUME TypeInv, NEW i \in 1..Len(calls), Lose(i)
  PROVE  /\ calls[i].tab \in Tab /\ Blurs(i, FALSE) /\ UNCHANGED <<rows, made>>
         /\ unseen' = [unseen EXCEPT ![calls[i].tab] = @ \cup ({calls[i].id} \ {NoID})]
         /\ \E rest \in Seq(FineCalls) :
              /\ GoOn(i, FALSE, rest)
              /\ \/ rest = RemoveAt(calls, i)
                 \/ \E e \in FineCalls : e.tab = NoTab /\ rest = [calls EXCEPT ![i] = e]
<1>1. calls[i].tab \in Tab
  BY CallIs DEF Lose
<1>2. CASE GoOn(i, FALSE, RemoveAt(calls, i))
  BY <1>1, <1>2, RemoveAtIs DEF Lose, TypeInv
<1>3. CASE ~ calls[i].handled /\ GoOn(i, FALSE, [calls EXCEPT ![i].tab = NoTab])
  <2> DEFINE e == [calls[i] EXCEPT !.tab = NoTab]
  <2>1. e \in FineCalls /\ e.tab = NoTab
    BY <1>3, OrphanFine, CallIs
  <2>2. [calls EXCEPT ![i].tab = NoTab] = [calls EXCEPT ![i] = e]
    BY DEF TypeInv
  <2> HIDE DEF e
  <2>3. [calls EXCEPT ![i] = e] \in Seq(FineCalls)
    BY <2>1, ExceptIs DEF TypeInv
  <2> QED
    BY <1>1, <1>3, <2>1, <2>2, <2>3 DEF Lose
<1> QED
  BY <1>2, <1>3 DEF Lose

LEMMA LoseKeeps ==
  ASSUME TypeInv, OwnInv, NEW i \in 1..Len(calls), Lose(i)
  PROVE  TypeInv' /\ OwnInv'
<1>1. calls[i].tab \in Tab /\ calls[i].id \in Nat /\ Blurs(i, FALSE)
  BY LoseIs, CallIs
<1>2. PICK rest \in Seq(FineCalls) : GoOn(i, FALSE, rest)
  BY LoseIs
<1>3. {calls[i].id} \ {NoID} \in SUBSET ID
  BY <1>1 DEF NoID, ID
<1>4. unseen' \in [Tab -> SUBSET ID]
  <2>1. unseen' = [unseen EXCEPT ![calls[i].tab] = @ \cup ({calls[i].id} \ {NoID})]
    BY LoseIs
  <2> QED
    BY <1>1, <1>3, <2>1 DEF TypeInv
<1>5. blurred' \subseteq Tab
  BY <1>1 DEF Blurs, TypeInv
<1>6. UNCHANGED <<rows, made>>
  BY LoseIs
<1>7. calls[i].tab # NoTab
  BY <1>1, BookmarksAssumption
<1> QED
  BY <1>2, <1>4, <1>5, <1>6, <1>7, GoOnKeeps

LEMMA ApiAddIs ==
  ASSUME TypeInv, OwnInv, NEW u \in Client, ApiAdd(u)
  PROVE  \E target \in Target :
           /\ u \in User /\ May(u, target) /\ Insert(u, target) /\ Changed(NoTab, u, made + 1)
           /\ UNCHANGED <<route, server, loading, failed, saving, deleting, list, calls, blurred>>
<1>1. PICK target \in Target :
        /\ Permitted(u, target, FALSE) /\ Insert(u, target) /\ Changed(NoTab, u, made + 1)
  BY DEF ApiAdd
<1>2. May(u, target) /\ u \in User
  BY <1>1, BookmarksAssumption DEF Permitted
<1> QED
  BY <1>1, <1>2 DEF ApiAdd, page, forms

LEMMA ApiAddKeeps ==
  ASSUME TypeInv, OwnInv, NEW u \in Client, ApiAdd(u)
  PROVE  TypeInv' /\ OwnInv'
<1>1. PICK target \in Target :
        /\ u \in User /\ May(u, target) /\ Insert(u, target) /\ Changed(NoTab, u, made + 1)
        /\ UNCHANGED <<route, server, loading, failed, saving, deleting, list, calls, blurred>>
  BY ApiAddIs
<1>2. /\ made' = made + 1 /\ rows' \subseteq Bookmark /\ FineCalls \subseteq FineCalls'
      /\ \A r \in rows' : r.id <= made' /\ May(r.user, r.target)
  BY <1>1, InsertIs
<1>3. made \in Nat /\ made + 1 \in ID /\ made' \in Nat /\ made <= made'
  BY <1>2 DEF TypeInv, ID
<1>4. unseen' \in [Tab -> SUBSET ID]
  BY <1>1, <1>3, ChangedIs
<1>5. calls' \in Seq(FineCalls')
  BY <1>1, <1>2, SeqMono DEF TypeInv
<1>6. ASSUME NEW t \in Tab, NEW r \in list[t]  PROVE r.user = Owner[t] /\ r.id <= made'
  <2>1. r.id \in Nat
    BY DEF TypeInv, Bookmark, ID
  <2> QED
    BY <1>3, <2>1 DEF OwnInv
<1> QED
  BY <1>1, <1>2, <1>3, <1>4, <1>5, <1>6 DEF TypeInv, OwnInv

LEMMA OwnNext == TypeInv /\ OwnInv /\ [Next]_vars => TypeInv' /\ OwnInv'
<1> SUFFICES ASSUME TypeInv, OwnInv, [Next]_vars  PROVE TypeInv' /\ OwnInv'
  OBVIOUS
<1>1. ASSUME NEW i \in DOMAIN calls, Handle(i) \/ Answer(i) \/ Lose(i)
      PROVE  TypeInv' /\ OwnInv'
  <2>1. i \in 1..Len(calls)
    BY DEF TypeInv
  <2> QED
    BY <1>1, <2>1, HandleKeeps, AnswerKeeps, LoseKeeps
<1>2. ASSUME NEW t \in Tab, Save(t)  PROVE TypeInv' /\ OwnInv'
  <2>1. PICK c \in FineCalls : calls' = Append(calls, c)
    BY <1>2, SaveIs
  <2>2. saving' \in [ServerPage -> BOOLEAN] /\ deleting' \in [Tab -> Nat]
    BY <1>2 DEF Save, TypeInv
  <2> QED
    BY <1>2, <2>1, <2>2, CallMadeKeeps DEF Save, history
<1>3. ASSUME NEW t \in Tab, Delete(t)  PROVE TypeInv' /\ OwnInv'
  <2>1. PICK c \in FineCalls : /\ calls' = Append(calls, c) /\ c.id \in Nat
                               /\ deleting' = [deleting EXCEPT ![t] = c.id]
    BY <1>3, DeleteIs
  <2>2. saving' \in [ServerPage -> BOOLEAN] /\ deleting' \in [Tab -> Nat]
    BY <1>3, <2>1 DEF Delete, TypeInv
  <2> QED
    BY <1>3, <2>1, <2>2, CallMadeKeeps DEF Delete, history
<1>4. ASSUME NEW u \in Client, ApiDelete(u)  PROVE TypeInv' /\ OwnInv'
  <2>1. PICK c \in FineCalls : calls' = Append(calls, c)
    BY <1>4, ApiDeleteIs
  <2>2. saving' \in [ServerPage -> BOOLEAN] /\ deleting' \in [Tab -> Nat]
    BY <1>4 DEF ApiDelete, forms, TypeInv
  <2> QED
    BY <1>4, <2>1, <2>2, CallMadeKeeps DEF ApiDelete, history
<1>5. CASE UNCHANGED vars
  <2>1. FineCalls' = FineCalls
    BY <1>5, FineStays DEF vars
  <2> QED
    BY <1>5, <2>1 DEF vars, page, forms, history, TypeInv, OwnInv
<1> QED
  BY <1>1, <1>2, <1>3, <1>4, <1>5, VisitKeeps, MoveKeeps, ApiAddKeeps DEF Next

-----------------------------------------------------------------------------
(* The calls of a tab keep their order *)

\* The calls of tab t in s are those in u, in their order, but for the k-th.
Goes(s, u, t, k) ==
  \E f \in [1..Len(u) -> Nat] :
    /\ \A n \in 1..Len(u) : u[n].tab = t => f[n] \in 1..Len(s) /\ f[n] # k /\ s[f[n]] = u[n]
    /\ \A m, n \in 1..Len(u) : u[m].tab = t /\ u[n].tab = t => (m < n <=> f[m] < f[n])
    /\ \A i \in 1..Len(s) : s[i].tab = t /\ i # k => \E n \in 1..Len(u) : f[n] = i /\ u[n].tab = t

LEMMA GoesRemove ==
  ASSUME NEW S, NEW s \in Seq(S), NEW k \in 1..Len(s), NEW t
  PROVE  Goes(s, RemoveAt(s, k), t, k)
<1> DEFINE u == RemoveAt(s, k)
           f == [n \in 1..Len(u) |-> IF n < k THEN n ELSE n + 1]
<1>1. /\ u \in Seq(S) /\ Len(u) = Len(s) - 1 /\ Len(s) \in Nat
      /\ \A n \in 1..Len(u) : u[n] = IF n < k THEN s[n] ELSE s[n + 1]
  <2>1. Len(s) \in Nat
    OBVIOUS
  <2> QED
    BY <2>1, RemoveAtIs
<1> HIDE DEF u
<1>2. \A n \in 1..Len(u) : f[n] \in 1..Len(s) /\ f[n] # k /\ s[f[n]] = u[n]
  BY <1>1
<1>3. \A m, n \in 1..Len(u) : m < n <=> f[m] < f[n]
  BY <1>1
<1>4. ASSUME NEW i \in 1..Len(s), s[i].tab = t, i # k
      PROVE  \E n \in 1..Len(u) : f[n] = i /\ u[n].tab = t
  <2>1. CASE i < k
    <3>1. i \in 1..Len(u) /\ f[i] = i
      BY <1>1, <2>1
    <3> QED
      BY <1>1, <1>4, <2>1, <3>1
  <2>2. CASE i > k
    <3>1. i - 1 \in 1..Len(u) /\ f[i - 1] = i
      BY <1>1, <2>2
    <3> QED
      BY <1>2, <1>4, <3>1
  <2> QED
    BY <1>4, <2>1, <2>2
<1>5. f \in [1..Len(u) -> Nat]
  BY <1>1
<1> HIDE DEF f
<1> QED
  BY <1>2, <1>3, <1>4, <1>5 DEF Goes, u

LEMMA GoesExcept ==
  ASSUME NEW S, NEW s \in Seq(S), NEW k \in 1..Len(s), NEW e \in S, NEW t, e.tab # t
  PROVE  Goes(s, [s EXCEPT ![k] = e], t, k)
<1> DEFINE u == [s EXCEPT ![k] = e]
           f == [n \in 1..Len(u) |-> n]
<1>1. /\ u \in Seq(S) /\ Len(u) = Len(s) /\ Len(s) \in Nat
      /\ \A n \in 1..Len(s) : u[n] = IF n = k THEN e ELSE s[n]
  BY ExceptIs
<1> HIDE DEF u
<1>2. f \in [1..Len(u) -> Nat] /\ \A n \in 1..Len(u) : f[n] = n
  BY <1>1
<1> HIDE DEF f
<1> QED
  BY <1>1, <1>2 DEF Goes, u

LEMMA GoesSame ==
  ASSUME NEW S, NEW s \in Seq(S), NEW t
  PROVE  Goes(s, s, t, 0)
<1> DEFINE f == [n \in 1..Len(s) |-> n]
<1>1. f \in [1..Len(s) -> Nat] /\ \A n \in 1..Len(s) : f[n] = n /\ n # 0
  OBVIOUS
<1> HIDE DEF f
<1> QED
  BY <1>1 DEF Goes

LEMMA GoesAppend ==
  ASSUME NEW S, NEW s, NEW u \in Seq(S), NEW t, NEW k, NEW e \in S, e.tab # t, Goes(s, u, t, k)
  PROVE  Goes(s, Append(u, e), t, k)
<1> DEFINE v == Append(u, e)
<1>1. /\ Len(u) \in Nat /\ Len(v) = Len(u) + 1 /\ v[Len(u) + 1] = e
      /\ \A n \in 1..Len(u) : v[n] = u[n]
  BY AppendIs
<1> HIDE DEF v
<1>2. PICK f \in [1..Len(u) -> Nat] :
    /\ \A n \in 1..Len(u) : u[n].tab = t => f[n] \in 1..Len(s) /\ f[n] # k /\ s[f[n]] = u[n]
    /\ \A m, n \in 1..Len(u) : u[m].tab = t /\ u[n].tab = t => (m < n <=> f[m] < f[n])
    /\ \A i \in 1..Len(s) : s[i].tab = t /\ i # k => \E n \in 1..Len(u) : f[n] = i /\ u[n].tab = t
  BY DEF Goes
<1> DEFINE g == [n \in 1..Len(v) |-> IF n = Len(u) + 1 THEN 0 ELSE f[n]]
<1>3. \A n \in 1..Len(v) : n \in 1..Len(u) \/ n = Len(u) + 1
  BY <1>1
<1>4. \A n \in 1..Len(u) : n \in 1..Len(v) /\ g[n] = f[n] /\ v[n] = u[n]
  BY <1>1
<1>5. g \in [1..Len(v) -> Nat]
  BY <1>1, <1>3
<1> HIDE DEF g
<1>6. \A n \in 1..Len(v) : v[n].tab = t => n \in 1..Len(u)
  BY <1>1, <1>3
<1>7. \A n \in 1..Len(v) : v[n].tab = t => g[n] \in 1..Len(s) /\ g[n] # k /\ s[g[n]] = v[n]
  BY <1>2, <1>4, <1>6
<1>8. \A m, n \in 1..Len(v) : v[m].tab = t /\ v[n].tab = t => (m < n <=> g[m] < g[n])
  <2> SUFFICES ASSUME NEW m \in 1..Len(v), NEW n \in 1..Len(v), v[m].tab = t, v[n].tab = t
               PROVE  m < n <=> g[m] < g[n]
    OBVIOUS
  <2>1. m \in 1..Len(u) /\ n \in 1..Len(u)
    BY <1>6
  <2>2. g[m] = f[m] /\ g[n] = f[n] /\ u[m].tab = t /\ u[n].tab = t
    BY <1>4, <2>1
  <2> QED
    BY <1>2, <2>1, <2>2
<1>9. \A i \in 1..Len(s) : s[i].tab = t /\ i # k => \E n \in 1..Len(v) : g[n] = i /\ v[n].tab = t
  <2> SUFFICES ASSUME NEW i \in 1..Len(s), s[i].tab = t, i # k
               PROVE  \E n \in 1..Len(v) : g[n] = i /\ v[n].tab = t
    OBVIOUS
  <2>1. PICK n \in 1..Len(u) : f[n] = i /\ u[n].tab = t
    BY <1>2
  <2> QED
    BY <1>4, <2>1
<1> QED
  BY <1>5, <1>7, <1>8, <1>9 DEF Goes, v

\* The calls of the other tabs are not touched when a page is left.
LEMMA GoesLeft ==
  ASSUME TypeInv, NEW t \in Tab, NEW order \in InOrder(Remaining(t)), NEW w \in Tab, w # t
  PROVE  Goes(calls, Left(t, order), w, 0)
<1> DEFINE u == Left(t, order)
           N == Cardinality(Remaining(t))
<1>1. /\ Len(u) = N /\ N \in Nat /\ order \in [1..N -> Remaining(t)]
      /\ \A m, n \in 1..N : m < n => order[m] < order[n]
      /\ \A i \in Remaining(t) : \E n \in 1..N : order[n] = i
      /\ \A n \in 1..N : u[n] = IF calls[order[n]].tab = t
                                  THEN [calls[order[n]] EXCEPT !.tab = NoTab]
                                  ELSE calls[order[n]]
  BY LeftIs
<1> HIDE DEF u, N
<1>2. DOMAIN calls = 1..Len(calls) /\ Len(calls) \in Nat
  BY DEF TypeInv
<1>3. Remaining(t) \subseteq 1..Len(calls) /\ 1..Len(calls) \subseteq Nat
  BY <1>2 DEF Remaining
<1>4. ASSUME NEW n \in 1..N, u[n].tab = w
      PROVE  /\ order[n] \in 1..Len(calls) /\ order[n] # 0 /\ calls[order[n]] = u[n]
  <2>1. order[n] \in 1..Len(calls)
    BY <1>1, <1>3
  <2>2. CASE calls[order[n]].tab = t
    <3>1. calls[order[n]] \in CallSet
      BY <2>1, CallIs DEF FineCalls
    <3>2. [calls[order[n]] EXCEPT !.tab = NoTab].tab = NoTab
      BY <3>1 DEF CallSet
    <3>3. w # NoTab
      BY BookmarksAssumption
    <3> QED
      BY <1>1, <1>4, <2>2, <3>2, <3>3
  <2>3. CASE calls[order[n]].tab # t
    BY <1>1, <1>2, <2>1, <2>3
  <2> QED
    BY <2>2, <2>3
<1>5. \A m, n \in 1..N : m < n <=> order[m] < order[n]
  <2> SUFFICES ASSUME NEW m \in 1..N, NEW n \in 1..N  PROVE m < n <=> order[m] < order[n]
    OBVIOUS
  <2>1. order[m] \in Nat /\ order[n] \in Nat /\ m \in Nat /\ n \in Nat
    BY <1>1, <1>3
  <2>2. m < n \/ m = n \/ n < m
    BY <2>1
  <2> QED
    BY <1>1, <2>1, <2>2
<1>6. ASSUME NEW i \in 1..Len(calls), calls[i].tab = w
      PROVE  \E n \in 1..N : order[n] = i /\ u[n].tab = w
  <2>1. i \in Remaining(t)
    BY <1>2, <1>6 DEF Remaining
  <2>2. PICK n \in 1..N : order[n] = i
    BY <1>1, <2>1
  <2> QED
    BY <1>1, <1>6, <2>2
<1>7. order \in [1..N -> Nat]
  BY <1>1, <1>3
<1> QED
  BY <1>1, <1>4, <1>5, <1>6, <1>7 DEF Goes, u

\* What is on its way stays so, but for the call that is gone.
LEMMA UnderwayGoes ==
  ASSUME NEW s, NEW u, NEW t, NEW k, Goes(s, u, t, k), NEW id, Underway(s, t, id)
  PROVE  \/ Underway(u, t, id)
         \/ /\ k \in 1..Len(s) /\ s[k].tab = t /\ s[k].op \in {"add", "delete"}
            /\ s[k].id = id /\ s[k].handled /\ s[k].ok
<1>1. PICK i \in 1..Len(s) : /\ s[i].tab = t /\ s[i].op \in {"add", "delete"} /\ s[i].id = id
                             /\ s[i].handled /\ s[i].ok
  BY DEF Underway
<1>2. CASE i = k
  BY <1>1, <1>2
<1>3. CASE i # k
  <2>1. \E n \in 1..Len(u) : u[n] = s[i] /\ u[n].tab = t
    BY <1>1, <1>3 DEF Goes
  <2> QED
    BY <1>1, <2>1 DEF Underway
<1> QED
  BY <1>2, <1>3

\* The last list of a tab is the last but for the call that is gone.
LEMMA LastGoes ==
  ASSUME NEW s, NEW u, NEW t, NEW k, Goes(s, u, t, k), NEW n \in 1..Len(u), LastList(u, t, n),
         Len(u) \in Nat, Len(s) \in Nat
  PROVE  \E i \in 1..Len(s) :
           /\ i # k /\ s[i] = u[n] /\ ListAt(s, t, i)
           /\ \A j \in (i + 1)..Len(s) : ListAt(s, t, j) => j = k
<1>1. PICK f \in [1..Len(u) -> Nat] :
    /\ \A m \in 1..Len(u) : u[m].tab = t => f[m] \in 1..Len(s) /\ f[m] # k /\ s[f[m]] = u[m]
    /\ \A l, m \in 1..Len(u) : u[l].tab = t /\ u[m].tab = t => (l < m <=> f[l] < f[m])
    /\ \A i \in 1..Len(s) : s[i].tab = t /\ i # k => \E m \in 1..Len(u) : f[m] = i /\ u[m].tab = t
  BY DEF Goes
<1>2. /\ f[n] \in 1..Len(s) /\ f[n] # k /\ s[f[n]] = u[n] /\ ListAt(s, t, f[n])
      /\ u[n].tab = t
  BY <1>1 DEF LastList, ListAt
<1>3. ASSUME NEW j \in (f[n] + 1)..Len(s), ListAt(s, t, j), j # k
      PROVE  FALSE
  <2>1. j \in 1..Len(s) /\ f[n] < j /\ s[j].tab = t
    BY <1>2, <1>3 DEF ListAt
  <2>2. PICK m \in 1..Len(u) : f[m] = j /\ u[m].tab = t
    BY <1>1, <1>3, <2>1
  <2>3. n < m
    BY <1>1, <1>2, <2>1, <2>2
  <2>4. ListAt(u, t, m) /\ m \in (n + 1)..Len(u)
    <3>1. u[m] = s[j]
      BY <1>1, <2>2
    <3> QED
      BY <1>3, <2>2, <2>3, <3>1 DEF ListAt
  <2> QED
    BY <2>4 DEF LastList
<1> QED
  BY <1>2, <1>3

\* A list that was asked for is there, but for the call that is gone.
LEMMA ListsGo ==
  ASSUME NEW s, NEW u, NEW t, NEW k, Goes(s, u, t, k), NEW i \in 1..Len(s), ListAt(s, t, i), i # k
  PROVE  \E n \in 1..Len(u) : ListAt(u, t, n)
BY DEF Goes, ListAt

-----------------------------------------------------------------------------
(* A list stays what is stored, but for what is known to differ *)

\* What a step does with the rows a tab is to show: those that it adds or deletes
\* are noted as unseen, or their change is on its way.
ChangesNoted(t) ==
  \A r \in Shown(t) \cup Shown(t)' :
    \/ r \in Shown(t) /\ r \in Shown(t)'
    \/ r.id \in unseen'[t]
    \/ Underway(calls', t, r.id)

\* What differed is still known to differ.
NothingForgotten(t) ==
  \A id \in ID :
    id \in unseen[t] \/ Underway(calls, t, id) => id \in unseen'[t] \/ Underway(calls', t, id)

LEMMA ShownIs ==
  ASSUME TypeInv, NEW t \in Tab
  PROVE  /\ Shown(t) \subseteq Bookmark /\ Shown(t) \subseteq rows
         /\ Shown(t) = Stored(Owner[t], Where(t))
         /\ \A r \in Shown(t) : r.id \in ID /\ r.user = Owner[t]
BY DEF Shown, Where, Stored, TypeInv, Bookmark

LEMMA AgreesKept ==
  ASSUME TypeInv, NEW t \in Tab, NEW items \in SUBSET Bookmark, Agrees(items, t),
         ChangesNoted(t), NothingForgotten(t)
  PROVE  Agrees(items, t)'
<1> SUFFICES ASSUME NEW r \in items \cup Shown(t)'
             PROVE  \/ r \in items /\ r \in Shown(t)'
                    \/ r.id \in unseen'[t]
                    \/ Underway(calls', t, r.id)
  BY DEF Agrees
<1>1. CASE r \in Shown(t) \cup Shown(t)' /\ ~ (r \in Shown(t) /\ r \in Shown(t)')
  BY <1>1 DEF ChangesNoted
<1>2. CASE r \in Shown(t) /\ r \in Shown(t)'
  <2>1. r.id \in ID
    BY <1>2, ShownIs
  <2> QED
    BY <1>2, <2>1 DEF Agrees, NothingForgotten
<1>3. CASE r \notin Shown(t) /\ r \notin Shown(t)'
  <2>1. r \in items /\ r.id \in ID
    BY <1>3 DEF Bookmark
  <2> QED
    BY <1>3, <2>1 DEF Agrees, NothingForgotten
<1> QED
  BY <1>1, <1>2, <1>3

\* Rows that stay, for the same server, change nothing.
LEMMA ShownStays ==
  ASSUME NEW t \in Tab, rows' = rows, t \in ServerPage => route'[t] = route[t]
  PROVE  ChangesNoted(t) /\ Where(t)' = Where(t) /\ Shown(t)' = Shown(t)
BY DEF ChangesNoted, Shown, Stored, Where

\* A tab whose lists and route stay.
LEMMA PageStays ==
  ASSUME TypeInv, TypeInv', NEW t \in Tab, PageInv(t), NEW k,
         Goes(calls, calls', t, k), k \in 1..Len(calls) => ~ ListAt(calls, t, k),
         list'[t] = list[t], Where(t)' = Where(t), ChangesNoted(t), NothingForgotten(t)
  PROVE  PageInv(t)'
<1>0. /\ Len(calls) \in Nat /\ Len(calls') \in Nat /\ list[t] \in SUBSET Bookmark
  BY DEF TypeInv
<1>1. NothingForgotten(t)
  OBVIOUS
<1>2. (\A n \in 1..Len(calls') : ~ ListAt(calls', t, n)) => Agrees(list[t], t)'
  <2> SUFFICES ASSUME \A n \in 1..Len(calls') : ~ ListAt(calls', t, n)
               PROVE  Agrees(list[t], t)'
    OBVIOUS
  <2>1. \A i \in 1..Len(calls) : ~ ListAt(calls, t, i)
    BY ListsGo DEF ListAt
  <2>2. PICK items \in SUBSET Bookmark : items = list[t]
    BY <1>0
  <2>3. Agrees(items, t)
    BY <2>1, <2>2 DEF PageInv
  <2>4. Agrees(items, t)'
    BY <1>1, <2>3, AgreesKept
  <2> QED
    BY <2>2, <2>4
<1>3. ASSUME NEW n \in 1..Len(calls'), LastList(calls', t, n)
      PROVE  /\ calls'[n].target = Where(t)'
             /\ calls'[n].handled /\ calls'[n].ok =>
                  \E items \in SUBSET Bookmark : items = calls'[n].list /\ Agrees(items, t)'
  <2>1. PICK i \in 1..Len(calls) :
          /\ i # k /\ calls[i] = calls'[n] /\ ListAt(calls, t, i)
          /\ \A j \in (i + 1)..Len(calls) : ListAt(calls, t, j) => j = k
    BY <1>0, <1>3, LastGoes
  <2>2. LastList(calls, t, i)
    <3>1. \A j \in (i + 1)..Len(calls) : j \in 1..Len(calls)
      BY <1>0
    <3> QED
      BY <2>1, <3>1 DEF LastList, ListAt
  <2>3. PICK items \in SUBSET Bookmark : items = calls[i].list
    BY CallIs
  <2>4. /\ calls[i].target = Where(t)
        /\ calls[i].handled /\ calls[i].ok => Agrees(items, t)
    BY <2>2, <2>3 DEF PageInv
  <2> QED
    BY <1>1, <2>1, <2>3, <2>4, AgreesKept
<1> QED
  BY <1>2, <1>3 DEF PageInv

\* A tab whose calls stay too.
LEMMA TabStays ==
  ASSUME TypeInv, TypeInv', NEW t \in Tab, PageInv(t), NEW k,
         Goes(calls, calls', t, k), k \in 1..Len(calls) => calls[k].tab # t,
         list'[t] = list[t], Where(t)' = Where(t),
         ChangesNoted(t), unseen[t] \subseteq unseen'[t]
  PROVE  PageInv(t)'
<1>1. NothingForgotten(t)
  BY UnderwayGoes DEF NothingForgotten
<1>2. k \in 1..Len(calls) => ~ ListAt(calls, t, k)
  BY DEF ListAt
<1> QED
  BY <1>1, <1>2, PageStays

-----------------------------------------------------------------------------
(* The handlers *)

\* A row that is made or deleted for a user concerns the tabs of that user.
LEMMA InsertNoted ==
  ASSUME TypeInv, OwnInv, NEW u \in User, NEW target \in Target, May(u, target),
         Insert(u, target), UNCHANGED route, NEW t \in Tab,
         \/ Owner[t] # u
         \/ made + 1 \in unseen'[t]
         \/ Underway(calls', t, made + 1)
  PROVE  ChangesNoted(t) /\ Where(t)' = Where(t)
<1>1. /\ rows \subseteq rows'
      /\ \A r \in rows' :
           r \in rows \/ (r \in Bookmark /\ r.id = made + 1 /\ r.user = u /\ r.target = target)
  BY InsertIs
<1>2. Where(t)' = Where(t)
  BY DEF Where
<1>3. Shown(t) \subseteq Shown(t)' /\ \A r \in Shown(t)' : r.user = Owner[t] /\ r \in rows'
  BY <1>1 DEF Shown, Stored
<1>4. ASSUME NEW r \in Shown(t)', r \notin Shown(t)
      PROVE  r.id = made + 1 /\ Owner[t] = u
  <2>1. r \notin rows
    BY <1>4 DEF Shown, Stored
  <2> QED
    BY <1>1, <1>3, <2>1
<1> QED
  BY <1>2, <1>3, <1>4 DEF ChangesNoted

LEMMA DeleteNoted ==
  ASSUME NEW u, NEW id, rows' = rows \ Deleted(u, id), UNCHANGED route, NEW t \in Tab,
         Deleted(u, id) # {} => \/ Owner[t] # u
                                \/ id \in unseen'[t]
                                \/ Underway(calls', t, id)
  PROVE  ChangesNoted(t) /\ Where(t)' = Where(t)
<1>1. Where(t)' = Where(t)
  BY DEF Where
<1>2. Shown(t)' \subseteq Shown(t)
  BY DEF Shown, Stored
<1>3. ASSUME NEW r \in Shown(t), r \notin Shown(t)'
      PROVE  r.id = id /\ Owner[t] = u /\ Deleted(u, id) # {}
  <2>1. r \in Deleted(u, id) /\ r.user = Owner[t]
    BY <1>3 DEF Shown, Stored
  <2> QED
    BY <2>1 DEF Deleted
<1> QED
  BY <1>1, <1>2, <1>3 DEF ChangesNoted

\* What a handler does with the calls.
LEMMA HandleCalls ==
  ASSUME TypeInv, NEW i \in 1..Len(calls), Handle(i)
  PROVE  /\ ~ calls[i].handled
         /\ UNCHANGED <<route, loading, list, blurred>>
         /\ \/ calls[i].tab = NoTab /\ calls' = RemoveAt(calls, i)
            \/ /\ calls[i].tab # NoTab
               /\ \E e \in CallSet :
                    /\ e.tab = calls[i].tab /\ e.op = calls[i].op /\ e.target = calls[i].target
                    /\ calls' = [calls EXCEPT ![i] = e]
<1> DEFINE c == calls[i]
<1>1. /\ ~ c.handled /\ UNCHANGED <<route, loading, list, blurred>>
      /\ made + 1 \in Nat /\ NoID \in Nat /\ {} \in SUBSET Bookmark
      /\ Stored(c.user, c.target) \in SUBSET Bookmark /\ c.id \in Nat
  BY CallIs DEF Handle, page, TypeInv, NoID, Stored
<1>2. \E success \in BOOLEAN, id \in Nat, items \in SUBSET Bookmark : Handled(i, success, id, items)
  <2>1. CASE c.op = "add"
    <3>1. Handled(i, TRUE, made + 1, {}) \/ Handled(i, FALSE, NoID, {})
      BY <2>1 DEF Handle, AddBookmark
    <3> QED
      BY <1>1, <3>1
  <2>2. CASE c.op = "delete"
    <3>1. Handled(i, Deleted(c.user, c.id) # {}, c.id, {})
      BY <2>2 DEF Handle, DeleteBookmark
    <3> DEFINE b == Deleted(c.user, c.id) # {}
    <3>2. b \in BOOLEAN /\ Handled(i, b, c.id, {})
      BY <3>1
    <3> HIDE DEF b
    <3> QED
      BY <1>1, <3>2
  <2>3. CASE c.op \notin {"add", "delete"}
    <3>1. \/ Handled(i, TRUE, NoID, Stored(c.user, c.target))
          \/ Handled(i, FALSE, NoID, {})
      BY <2>3 DEF Handle, ListBookmarks
    <3> QED
      BY <1>1, <3>1
  <2> QED
    BY <2>1, <2>2, <2>3
<1>3. PICK success \in BOOLEAN, id \in Nat, items \in SUBSET Bookmark :
        Handled(i, success, id, items)
  BY <1>2
<1>4. CASE c.tab = NoTab /\ calls' = RemoveAt(calls, i)
  BY <1>1, <1>4
<1>5. CASE /\ c.tab # NoTab
           /\ \E e \in CallSet : Outcome(e, c, success, id, items) /\ calls' = [calls EXCEPT ![i] = e]
  BY <1>1, <1>5 DEF Outcome
<1> QED
  BY <1>3, <1>4, <1>5, HandledIs

\* The other tabs see what a handler changes, or it is noted that they do not.
LEMMA HandleOthers ==
  ASSUME TypeInv, TypeInv', OwnInv, NEW i \in 1..Len(calls), Handle(i),
         NEW t \in Tab, t # calls[i].tab, PageInv(t)
  PROVE  PageInv(t)'
<1> DEFINE c == calls[i]
<1>1. /\ UNCHANGED <<route, loading, list, blurred>>
      /\ \/ calls' = RemoveAt(calls, i)
         \/ \E e \in CallSet : e.tab = c.tab /\ calls' = [calls EXCEPT ![i] = e]
  BY HandleCalls
<1>2. Goes(calls, calls', t, i)
  <2>1. calls \in Seq(CallSet)
    BY SeqMono DEF TypeInv, FineCalls
  <2> QED
    BY <1>1, <2>1, GoesRemove, GoesExcept
<1>3. /\ c.user \in User /\ c.op \in Op /\ c.target \in Target \cup {NoTarget} /\ CallFine(c)
      /\ made \in Nat
  BY CallIs DEF TypeInv
<1>4. ChangesNoted(t) /\ Where(t)' = Where(t) /\ unseen[t] \subseteq unseen'[t]
  <2>1. CASE rows' = rows /\ unseen'[t] = unseen[t]
    BY <1>1, <2>1, ShownStays
  <2>2. CASE c.op = "add"
    <3>1. PICK blank \in BOOLEAN :
            IF Permitted(c.user, c.target, blank)
              THEN Insert(c.user, c.target) /\ Changed(c.tab, c.user, made + 1)
              ELSE UNCHANGED <<rows, made, unseen>>
      BY <2>2 DEF Handle, AddBookmark
    <3>2. CASE Permitted(c.user, c.target, blank)
      <4>1. c.target \in Target /\ May(c.user, c.target) /\ made + 1 \in ID
        BY <1>3, <2>2, <3>2 DEF CallFine, Permitted, ID
      <4>2. /\ unseen[t] \subseteq unseen'[t]
            /\ Owner[t] = c.user => made + 1 \in unseen'[t]
        BY <3>1, <3>2, <4>1, ChangedIs
      <4>3. Insert(c.user, c.target)
        BY <3>1, <3>2
      <4> HIDE DEF c
      <4> QED
        BY <1>1, <1>3, <4>1, <4>2, <4>3, InsertNoted
    <3>3. CASE ~ Permitted(c.user, c.target, blank)
      BY <2>1, <3>1, <3>3
    <3> QED
      BY <3>2, <3>3
  <2>3. CASE c.op = "delete"
    <3>1. /\ rows' = rows \ Deleted(c.user, c.id)
          /\ IF Deleted(c.user, c.id) # {} THEN Changed(c.tab, c.user, c.id) ELSE UNCHANGED unseen
      BY <2>3 DEF Handle, DeleteBookmark
    <3>2. Deleted(c.user, c.id) # {} => c.id \in ID
      BY DEF Deleted, TypeInv, Bookmark
    <3>3. /\ unseen[t] \subseteq unseen'[t]
          /\ Deleted(c.user, c.id) # {} /\ Owner[t] = c.user => c.id \in unseen'[t]
      BY <3>1, <3>2, ChangedIs
    <3> HIDE DEF c
    <3> QED
      BY <1>1, <3>1, <3>3, DeleteNoted
  <2>4. CASE c.op \notin {"add", "delete"}
    <3>1. Seen(i) /\ rows' = rows
      BY <2>4 DEF Handle, ListBookmarks
    <3>2. unseen'[t] = unseen[t]
      BY <3>1 DEF Seen, TypeInv
    <3> QED
      BY <2>1, <3>1, <3>2
  <2> QED
    BY <2>2, <2>3, <2>4
<1> QED
  BY <1>1, <1>2, <1>4, TabStays

\* The calls with the i-th changed in its place.
LEMMA PlaceIs ==
  ASSUME TypeInv, NEW i \in 1..Len(calls), NEW e \in CallSet, NEW t \in Tab,
         e.tab = calls[i].tab, e.op = calls[i].op, calls' = [calls EXCEPT ![i] = e]
  PROVE  /\ Len(calls') = Len(calls) /\ Len(calls) \in Nat
         /\ \A j \in 1..Len(calls) : calls'[j] = IF j = i THEN e ELSE calls[j]
         /\ \A j \in 1..Len(calls) : ListAt(calls', t, j) <=> ListAt(calls, t, j)
         /\ \A j \in 1..Len(calls) : LastList(calls', t, j) <=> LastList(calls, t, j)
         /\ ~ calls[i].handled =>
              \A id : Underway(calls, t, id) => Underway(calls', t, id)
<1>1. calls \in Seq(CallSet) /\ Len(calls) \in Nat
  BY SeqMono DEF TypeInv, FineCalls
<1>2. /\ Len(calls') = Len(calls)
      /\ \A j \in 1..Len(calls) : calls'[j] = IF j = i THEN e ELSE calls[j]
  BY <1>1, ExceptIs
<1>3. \A j \in 1..Len(calls) : ListAt(calls', t, j) <=> ListAt(calls, t, j)
  BY <1>2 DEF ListAt, IsList
<1>4. \A j \in 1..Len(calls) : LastList(calls', t, j) <=> LastList(calls, t, j)
  <2>1. \A j \in 1..Len(calls) : \A l \in (j + 1)..Len(calls) : l \in 1..Len(calls)
    BY <1>1
  <2> QED
    BY <1>2, <1>3, <2>1 DEF LastList
<1>5. ASSUME ~ calls[i].handled, NEW id, Underway(calls, t, id)  PROVE Underway(calls', t, id)
  <2>1. PICK j \in 1..Len(calls) :
          /\ calls[j].tab = t /\ calls[j].op \in {"add", "delete"} /\ calls[j].id = id
          /\ calls[j].handled /\ calls[j].ok
    BY <1>5 DEF Underway
  <2>2. calls'[j] = calls[j] /\ j \in 1..Len(calls')
    BY <1>2, <1>5, <2>1
  <2> QED
    BY <2>1, <2>2 DEF Underway
<1> QED
  BY <1>1, <1>2, <1>3, <1>4, <1>5

\* A change of a tab is on its way to it once it is handled.
LEMMA ChangeInPlace ==
  ASSUME TypeInv, NEW i \in 1..Len(calls), NEW t \in Tab, t = calls[i].tab, NEW e \in CallSet,
         e.tab = t, e.op = calls[i].op, calls' = [calls EXCEPT ![i] = e],
         calls[i].op \in {"add", "delete"}, ~ calls[i].handled,
         PageInv(t), list' = list, Where(t)' = Where(t), ChangesNoted(t),
         unseen[t] \subseteq unseen'[t]
  PROVE  PageInv(t)'
<1>1. /\ Len(calls') = Len(calls)
      /\ \A j \in 1..Len(calls) : calls'[j] = IF j = i THEN e ELSE calls[j]
      /\ \A j \in 1..Len(calls) : ListAt(calls', t, j) <=> ListAt(calls, t, j)
      /\ \A j \in 1..Len(calls) : LastList(calls', t, j) <=> LastList(calls, t, j)
      /\ \A id : Underway(calls, t, id) => Underway(calls', t, id)
  BY PlaceIs
<1>2. NothingForgotten(t)
  BY <1>1 DEF NothingForgotten
<1>3. PICK shown \in SUBSET Bookmark : shown = list[t]
  BY DEF TypeInv
<1>4. (\A j \in 1..Len(calls') : ~ ListAt(calls', t, j)) => Agrees(shown, t)'
  BY <1>1, <1>2, <1>3, AgreesKept DEF PageInv
<1>5. ASSUME NEW j \in 1..Len(calls'), LastList(calls', t, j)
      PROVE  /\ calls'[j].target = Where(t)'
             /\ calls'[j].handled /\ calls'[j].ok =>
                  \E items \in SUBSET Bookmark : items = calls'[j].list /\ Agrees(items, t)'
  <2>1. j \in 1..Len(calls) /\ LastList(calls, t, j)
    BY <1>1, <1>5
  <2>2. j # i /\ calls'[j] = calls[j]
    BY <1>1, <2>1 DEF LastList, ListAt, IsList
  <2>3. PICK items \in SUBSET Bookmark : items = calls[j].list
    BY <2>1, CallIs
  <2>4. /\ calls[j].target = Where(t)
        /\ calls[j].handled /\ calls[j].ok => Agrees(items, t)
    BY <2>1, <2>3 DEF PageInv
  <2>5. calls[j].handled /\ calls[j].ok => Agrees(items, t)'
    BY <1>2, <2>4, AgreesKept
  <2> QED
    BY <2>2, <2>3, <2>4, <2>5
<1> QED
  BY <1>3, <1>4, <1>5 DEF PageInv

\* A handler adds, deletes or lists for the tab that called it.
LEMMA HandleOwn ==
  ASSUME TypeInv, TypeInv', OwnInv, NEW i \in 1..Len(calls), Handle(i),
         NEW t \in Tab, t = calls[i].tab, PageInv(t)
  PROVE  PageInv(t)'
<1> DEFINE c == calls[i]
<1>1. UNCHANGED <<route, loading, list, blurred>> /\ ~ c.handled
  BY HandleCalls
<1>2. /\ c.user = Owner[t] /\ c.user \in User /\ c.op \in Op /\ c.id \in Nat
      /\ c.target \in Target \cup {NoTarget} /\ CallFine(c) /\ made \in Nat /\ t # NoTab
      /\ c.op = "add" => c.target \in Target
  <2>1. /\ c.user \in User /\ c.op \in Op /\ c.target \in Target \cup {NoTarget} /\ CallFine(c)
        /\ c.id \in Nat
    BY CallIs
  <2> QED
    BY <2>1, BookmarksAssumption DEF CallFine, TypeInv
<1>3. ASSUME NEW success \in BOOLEAN, NEW id \in Nat, NEW items \in SUBSET Bookmark,
             Handled(i, success, id, items)
      PROVE  \E e \in CallSet : Outcome(e, c, success, id, items) /\ calls' = [calls EXCEPT ![i] = e]
  BY <1>2, <1>3, HandledIs
<1>4. NoID \in Nat /\ made + 1 \in Nat /\ {} \in SUBSET Bookmark
  BY <1>2 DEF NoID
<1> HIDE DEF c
<1>5. ASSUME NEW e \in CallSet, NEW success, NEW id, NEW items, Outcome(e, c, success, id, items),
             calls' = [calls EXCEPT ![i] = e], c.op \in {"add", "delete"},
             ChangesNoted(t), Where(t)' = Where(t), unseen'[t] = unseen[t]
      PROVE  PageInv(t)'
  <2>1. e.tab = t /\ e.op = calls[i].op /\ calls[i].op \in {"add", "delete"} /\ ~ calls[i].handled
    BY <1>1, <1>5 DEF Outcome, c
  <2> QED
    BY <1>1, <1>5, <2>1, ChangeInPlace
<1>6. ASSUME NEW e \in CallSet, NEW id, NEW items, Outcome(e, c, TRUE, id, items),
             calls' = [calls EXCEPT ![i] = e], c.op \in {"add", "delete"}
      PROVE  Underway(calls', t, id)
  <2>1. e.tab = calls[i].tab /\ e.op = calls[i].op
    BY <1>6 DEF Outcome, c
  <2>2. i \in 1..Len(calls') /\ calls'[i] = e
    BY <1>6, <2>1, PlaceIs
  <2> QED
    BY <1>6, <2>1, <2>2 DEF Underway, Outcome, c
<1>7. CASE c.op = "add"
  <2>1. PICK blank \in BOOLEAN :
          IF Permitted(c.user, c.target, blank)
            THEN /\ Insert(c.user, c.target) /\ Handled(i, TRUE, made + 1, {})
                 /\ Changed(c.tab, c.user, made + 1)
            ELSE Handled(i, FALSE, NoID, {}) /\ UNCHANGED <<rows, made, unseen>>
    BY <1>7 DEF Handle, AddBookmark, c
  <2>2. CASE Permitted(c.user, c.target, blank)
    <3>1. PICK e \in CallSet :
            Outcome(e, c, TRUE, made + 1, {}) /\ calls' = [calls EXCEPT ![i] = e]
      BY <1>3, <1>4, <2>1, <2>2
    <3>2. Underway(calls', t, made + 1)
      BY <1>6, <1>7, <3>1
    <3>3. Insert(c.user, c.target) /\ May(c.user, c.target) /\ unseen'[t] = unseen[t]
      BY <2>1, <2>2 DEF Changed, Permitted, c
    <3>4. ChangesNoted(t) /\ Where(t)' = Where(t)
      BY <1>1, <1>2, <1>7, <3>2, <3>3, InsertNoted
    <3> QED
      BY <1>5, <1>7, <3>1, <3>3, <3>4
  <2>3. CASE ~ Permitted(c.user, c.target, blank)
    <3>1. PICK e \in CallSet :
            Outcome(e, c, FALSE, NoID, {}) /\ calls' = [calls EXCEPT ![i] = e]
      BY <1>3, <1>4, <2>1, <2>3
    <3>2. ChangesNoted(t) /\ Where(t)' = Where(t) /\ unseen'[t] = unseen[t]
      BY <1>1, <2>1, <2>3, ShownStays
    <3> QED
      BY <1>5, <1>7, <3>1, <3>2
  <2> QED
    BY <2>2, <2>3
<1>8. CASE c.op = "delete"
  <2> DEFINE found == Deleted(c.user, c.id) # {}
  <2>1. /\ rows' = rows \ Deleted(c.user, c.id) /\ Handled(i, found, c.id, {})
        /\ IF found THEN Changed(c.tab, c.user, c.id) ELSE UNCHANGED unseen
    BY <1>8 DEF Handle, DeleteBookmark, c
  <2>2. found \in BOOLEAN
    OBVIOUS
  <2>3. found <=> Deleted(c.user, c.id) # {}
    OBVIOUS
  <2> HIDE DEF found
  <2>4. PICK e \in CallSet : Outcome(e, c, found, c.id, {}) /\ calls' = [calls EXCEPT ![i] = e]
    BY <1>2, <1>3, <1>4, <2>1, <2>2
  <2>5. Deleted(c.user, c.id) # {} => Underway(calls', t, c.id)
    <3>1. CASE Deleted(c.user, c.id) # {}
      <4>1. found = TRUE
        BY <2>2, <2>3, <3>1
      <4>2. Outcome(e, c, TRUE, c.id, {})
        BY <2>4, <4>1
      <4> QED
        BY <1>6, <1>8, <2>4, <4>2
    <3> QED
      BY <3>1
  <2>6. ChangesNoted(t) /\ Where(t)' = Where(t)
    BY <1>1, <2>1, <2>5, DeleteNoted
  <2>7. unseen'[t] = unseen[t]
    BY <2>1 DEF Changed, c
  <2> QED
    BY <1>5, <1>8, <2>4, <2>6, <2>7
<1>9. CASE c.op \notin {"add", "delete"}
  <2>1. /\ IF c.target = NoTarget \/ May(c.user, c.target)
             THEN Handled(i, TRUE, NoID, Stored(c.user, c.target))
             ELSE Handled(i, FALSE, NoID, {})
        /\ Seen(i) /\ rows' = rows
    BY <1>9 DEF Handle, ListBookmarks, c
  <2>2. Stored(c.user, c.target) \in SUBSET Bookmark
    BY DEF Stored, TypeInv
  <2>3. PICK e \in CallSet :
          /\ \E success \in BOOLEAN, items \in SUBSET Bookmark :
               /\ Outcome(e, c, success, NoID, items)
               /\ success => items = Stored(c.user, c.target)
          /\ calls' = [calls EXCEPT ![i] = e]
    <3>1. CASE c.target = NoTarget \/ May(c.user, c.target)
      BY <1>3, <1>4, <2>1, <2>2, <3>1
    <3>2. CASE ~ (c.target = NoTarget \/ May(c.user, c.target))
      BY <1>3, <1>4, <2>1, <3>2
    <3> QED
      BY <3>1, <3>2
  <2>4. /\ e.tab = calls[i].tab /\ e.op = calls[i].op /\ e.target = c.target
        /\ e.ok => e.list = Stored(c.user, c.target)
    BY <2>3 DEF Outcome, c
  <2>5. /\ Len(calls') = Len(calls) /\ Len(calls) \in Nat
        /\ \A j \in 1..Len(calls) : calls'[j] = IF j = i THEN e ELSE calls[j]
        /\ \A j \in 1..Len(calls) : ListAt(calls', t, j) <=> ListAt(calls, t, j)
        /\ \A j \in 1..Len(calls) : LastList(calls', t, j) <=> LastList(calls, t, j)
        /\ \A id : Underway(calls, t, id) => Underway(calls', t, id)
    BY <1>1, <2>3, <2>4, PlaceIs DEF c
  <2>6. ListAt(calls, t, i)
    BY <1>2, <1>9 DEF ListAt, IsList, Op, c
  <2>7. Shown(t)' = Shown(t) /\ Where(t)' = Where(t) /\ ChangesNoted(t)
    BY <1>1, <2>1, ShownStays
  <2>8. ASSUME NEW j \in 1..Len(calls), LastList(calls, t, j)
        PROVE  /\ calls'[j].target = Where(t)
               /\ calls'[j].handled /\ calls'[j].ok =>
                    \E x \in SUBSET Bookmark : x = calls'[j].list /\ Agrees(x, t)'
    <3>1. calls[j].target = Where(t)
      BY <2>8 DEF PageInv
    <3>2. CASE j = i
      <4>1. calls'[j] = e /\ e.target = Where(t)
        BY <2>4, <2>5, <3>1, <3>2 DEF c
      <4>2. PICK x \in SUBSET Bookmark : x = Shown(t)'
        BY <2>7, ShownIs
      <4>3. Agrees(x, t)'
        BY <4>2 DEF Agrees
      <4>4. e.ok => e.list = x
        BY <1>2, <2>4, <2>7, <4>1, <4>2, ShownIs
      <4> QED
        BY <4>1, <4>3, <4>4
    <3>3. CASE j # i
      <4>1. calls'[j] = calls[j] /\ ListAt(calls, t, j)
        BY <2>5, <2>8, <3>3 DEF LastList
      <4>2. j \in (i + 1)..Len(calls)
        BY <2>5, <2>6, <2>8, <3>3 DEF LastList
      <4>3. ASSUME calls[j].handled, calls[j].ok
            PROVE  \E x \in SUBSET Bookmark : x = calls[j].list /\ Agrees(x, t)'
        <5>1. unseen' = unseen
          BY <2>1, <4>1, <4>2, <4>3 DEF Seen, ListAt
        <5>2. NothingForgotten(t)
          BY <2>5, <5>1 DEF NothingForgotten
        <5>3. PICK x \in SUBSET Bookmark : x = calls[j].list
          BY CallIs
        <5>4. Agrees(x, t)
          BY <2>8, <4>3, <5>3 DEF PageInv
        <5> QED
          BY <2>7, <5>2, <5>3, <5>4, AgreesKept
      <4> QED
        BY <3>1, <4>1, <4>3
    <3> QED
      BY <3>2, <3>3
  <2> QED
    BY <2>5, <2>6, <2>7, <2>8 DEF PageInv
<1> QED
  BY <1>2, <1>7, <1>8, <1>9

-----------------------------------------------------------------------------
(* The tabs *)

\* A tab that asked for its list last will show what is stored.
LEMMA AskedLast ==
  ASSUME NEW t \in Tab, NEW before \in Seq(FineCalls), NEW c \in FineCalls,
         calls' = Append(before, c), c.tab = t, IsList(c), ~ c.handled, c.target = Where(t)'
  PROVE  PageInv(t)'
<1>1. Len(before) \in Nat /\ Len(calls') = Len(before) + 1 /\ calls'[Len(before) + 1] = c
  BY AppendIs
<1>2. ListAt(calls', t, Len(before) + 1) /\ Len(before) + 1 \in 1..Len(calls')
  BY <1>1 DEF ListAt
<1>3. ASSUME NEW n \in 1..Len(calls'), LastList(calls', t, n)
      PROVE  calls'[n] = c
  <2>1. ~ (Len(before) + 1 \in (n + 1)..Len(calls'))
    BY <1>2, <1>3 DEF LastList
  <2>2. n = Len(before) + 1
    BY <1>1, <2>1
  <2> QED
    BY <1>1, <2>2
<1> QED
  BY <1>2, <1>3 DEF PageInv

LEMMA LoadedAfresh ==
  ASSUME TypeInv, NEW t \in Tab, NEW target \in Target \cup {NoTarget},
         NEW before \in Seq(FineCalls), LoadPage(t, target, before),
         t \notin ServerPage => target = NoTarget
  PROVE  PageInv(t)'
<1> DEFINE c == LoadCall(t, target, "load", "none")
<1>1. c \in FineCalls /\ c.tab = t /\ c.op = "load" /\ c.target = target /\ ~ c.handled
  BY LoadMade
<1>2. calls' = Append(before, c)
  BY DEF LoadPage
<1>3. Where(t)' = target
  BY DEF LoadPage, Where, TypeInv
<1> HIDE DEF c
<1>4. IsList(c)
  BY <1>1 DEF IsList
<1> QED
  BY <1>1, <1>2, <1>3, <1>4, AskedLast

\* Another tab is not concerned.
LEMMA LoadedElsewhere ==
  ASSUME TypeInv, TypeInv', NEW t \in Tab, NEW target \in Target \cup {NoTarget},
         NEW before \in Seq(FineCalls), LoadPage(t, target, before),
         NEW w \in Tab, w # t, Goes(calls, before, w, 0), PageInv(w)
  PROVE  PageInv(w)'
<1>1. /\ rows' = rows /\ unseen' = unseen /\ list'[w] = list[w]
      /\ w \in ServerPage => route'[w] = route[w]
      /\ calls' = Append(before, LoadCall(t, target, "load", "none"))
  BY DEF LoadPage, TypeInv
<1>2. /\ LoadCall(t, target, "load", "none") \in FineCalls
      /\ LoadCall(t, target, "load", "none").tab = t
  BY LoadMade
<1>3. Goes(calls, calls', w, 0)
  BY <1>1, <1>2, GoesAppend
<1>4. ChangesNoted(w) /\ Where(w)' = Where(w)
  BY <1>1, ShownStays
<1> QED
  BY <1>1, <1>3, <1>4, TabStays

LEMMA PageShown ==
  ASSUME TypeInv, TypeInv', ShownInv, NEW t \in Tab, Visit(t) \/ Move(t)
  PROVE  ShownInv'
<1>1. PICK target \in Target \cup {NoTarget}, before \in Seq(FineCalls) :
        /\ LoadPage(t, target, before)
        /\ t \notin ServerPage => target = NoTarget
        /\ \A w \in Tab : w # t => Goes(calls, before, w, 0)
  <2>1. CASE Visit(t)
    <3>1. PICK target \in (IF t \in ServerPage THEN Target ELSE {NoTarget}),
               order \in InOrder(Remaining(t)) : LoadPage(t, target, Left(t, order))
      BY <2>1 DEF Visit
    <3> QED
      BY <3>1, LeftIs, GoesLeft
  <2>2. CASE Move(t)
    <3>1. PICK target \in Target : LoadPage(t, target, calls) /\ t \in ServerPage
      BY <2>2 DEF Move
    <3>2. calls \in Seq(FineCalls) /\ \A w \in Tab : Goes(calls, calls, w, 0)
      BY GoesSame DEF TypeInv
    <3> QED
      BY <3>1, <3>2
  <2> QED
    BY <2>1, <2>2
<1>2. blurred' = blurred \/ blurred' = blurred \ {t}
  BY <1>1 DEF LoadPage
<1>3. ASSUME NEW w \in Tab \ blurred'  PROVE PageInv(w)'
  <2>1. CASE w = t
    BY <1>1, <2>1, LoadedAfresh
  <2>2. CASE w # t
    <3>1. PageInv(w)
      BY <1>2, <2>2 DEF ShownInv
    <3> QED
      BY <1>1, <2>2, <3>1, LoadedElsewhere
  <2> QED
    BY <2>1, <2>2
<1> QED
  BY <1>3 DEF ShownInv

\* A call that asks for no list changes nothing of what is shown.
LEMMA CallShown ==
  ASSUME TypeInv, ShownInv, NEW c \in FineCalls, c.op \in {"add", "delete"},
         calls' = Append(calls, c), UNCHANGED <<rows, route, list, unseen, blurred>>
  PROVE  ShownInv'
<1> SUFFICES ASSUME NEW t \in Tab \ blurred  PROVE PageInv(t)'
  BY DEF ShownInv
<1>1. /\ Len(calls) \in Nat /\ Len(calls') = Len(calls) + 1 /\ calls'[Len(calls) + 1] = c
      /\ \A j \in 1..Len(calls) : calls'[j] = calls[j]
  BY AppendIs DEF TypeInv
<1>2. /\ ~ ListAt(calls', t, Len(calls) + 1)
      /\ \A j \in 1..Len(calls) : ListAt(calls', t, j) <=> ListAt(calls, t, j)
  BY <1>1 DEF ListAt, IsList
<1>3. \A j \in 1..Len(calls') : j \in 1..Len(calls) \/ j = Len(calls) + 1
  BY <1>1
<1>4. ASSUME NEW id, Underway(calls, t, id)  PROVE Underway(calls', t, id)
  <2>1. PICK j \in 1..Len(calls) :
          /\ calls[j].tab = t /\ calls[j].op \in {"add", "delete"} /\ calls[j].id = id
          /\ calls[j].handled /\ calls[j].ok
    BY <1>4 DEF Underway
  <2>2. calls'[j] = calls[j] /\ j \in 1..Len(calls')
    BY <1>1
  <2> QED
    BY <2>1, <2>2 DEF Underway
<1>5. /\ ChangesNoted(t) /\ Where(t)' = Where(t) /\ NothingForgotten(t)
  BY <1>4, ShownStays DEF NothingForgotten
<1>6. PageInv(t)
  BY DEF ShownInv
<1>7. ASSUME \A j \in 1..Len(calls') : ~ ListAt(calls', t, j)
      PROVE  \E items \in SUBSET Bookmark : items = list'[t] /\ Agrees(items, t)'
  <2>1. \A j \in 1..Len(calls) : ~ ListAt(calls, t, j)
    BY <1>1, <1>2, <1>7
  <2>2. PICK items \in SUBSET Bookmark : items = list[t]
    BY DEF TypeInv
  <2>3. Agrees(items, t)
    BY <1>6, <2>1, <2>2 DEF PageInv
  <2> QED
    BY <1>5, <2>2, <2>3, AgreesKept
<1>8. ASSUME NEW j \in 1..Len(calls'), LastList(calls', t, j)
      PROVE  /\ calls'[j].target = Where(t)'
             /\ calls'[j].handled /\ calls'[j].ok =>
                  \E items \in SUBSET Bookmark : items = calls'[j].list /\ Agrees(items, t)'
  <2>1. j \in 1..Len(calls)
    BY <1>2, <1>3, <1>8 DEF LastList
  <2>2. LastList(calls, t, j)
    <3>1. \A l \in (j + 1)..Len(calls) : l \in 1..Len(calls) /\ l \in (j + 1)..Len(calls')
      BY <1>1, <2>1
    <3> QED
      BY <1>2, <1>8, <2>1, <3>1 DEF LastList
  <2>3. PICK items \in SUBSET Bookmark : items = calls[j].list
    BY <2>1, CallIs
  <2>4. /\ calls[j].target = Where(t)
        /\ calls[j].handled /\ calls[j].ok => Agrees(items, t)
    BY <1>6, <2>1, <2>2, <2>3 DEF PageInv
  <2> QED
    BY <1>1, <1>5, <2>1, <2>3, <2>4, AgreesKept
<1> QED
  BY <1>7, <1>8 DEF PageInv

\* A row that a client adds is one that the tabs of its user have not seen.
LEMMA ApiAddShown ==
  ASSUME TypeInv, TypeInv', OwnInv, ShownInv, NEW u \in Client, ApiAdd(u)
  PROVE  ShownInv'
<1>1. PICK target \in Target :
        /\ u \in User /\ May(u, target) /\ Insert(u, target) /\ Changed(NoTab, u, made + 1)
        /\ UNCHANGED <<route, list, calls, blurred>>
  BY ApiAddIs
<1> SUFFICES ASSUME NEW t \in Tab \ blurred  PROVE PageInv(t)'
  BY <1>1 DEF ShownInv
<1>2. made + 1 \in ID /\ t # NoTab
  BY BookmarksAssumption DEF TypeInv, ID
<1>3. /\ unseen[t] \subseteq unseen'[t]
      /\ Owner[t] = u => made + 1 \in unseen'[t]
  BY <1>1, <1>2, ChangedIs
<1>4. ChangesNoted(t) /\ Where(t)' = Where(t)
  BY <1>1, <1>3, InsertNoted
<1>5. Goes(calls, calls', t, 0)
  BY <1>1, GoesSame DEF TypeInv
<1> QED
  BY <1>1, <1>3, <1>4, <1>5, TabStays DEF ShownInv

-----------------------------------------------------------------------------
(* Answers *)

\* Call i is over for its tab, with or without an answer: what is left of the
\* calls, and what the tab does.
Over(i, success, rest) ==
  /\ calls[i].tab \in Tab /\ rest \in Seq(FineCalls)
  /\ GoOn(i, success, rest) /\ Blurs(i, success)
  /\ \A w \in Tab : Goes(calls, rest, w, i)
  /\ \A w \in Tab : unseen[w] \subseteq unseen'[w]
  /\ success => calls[i].handled /\ calls[i].ok
  /\ ~ success /\ calls[i].handled /\ calls[i].ok => calls[i].id \in unseen'[calls[i].tab] \cup {NoID}
  /\ UNCHANGED <<rows, made>>

LEMMA AnswerOver ==
  ASSUME TypeInv, NEW i \in 1..Len(calls), Answer(i)
  PROVE  Over(i, calls[i].ok, RemoveAt(calls, i)) /\ calls[i].ok \in BOOLEAN
<1>1. /\ calls[i].handled /\ GoOn(i, calls[i].ok, RemoveAt(calls, i)) /\ Blurs(i, calls[i].ok)
      /\ UNCHANGED <<rows, made, unseen>>
  BY DEF Answer
<1>2. CallFine(calls[i]) /\ calls[i].ok \in BOOLEAN /\ calls[i].tab \in Tab \cup {NoTab}
  BY CallIs
<1>3. /\ calls[i].tab \in Tab /\ RemoveAt(calls, i) \in Seq(FineCalls)
      /\ \A w \in Tab : Goes(calls, RemoveAt(calls, i), w, i)
  BY <1>1, <1>2, RemoveAtIs, GoesRemove DEF CallFine, TypeInv
<1> QED
  BY <1>1, <1>2, <1>3 DEF Over

LEMMA LoseOver ==
  ASSUME TypeInv, NEW i \in 1..Len(calls), Lose(i)
  PROVE  \E rest : Over(i, FALSE, rest)
<1>1. /\ calls[i].tab \in Tab /\ Blurs(i, FALSE) /\ UNCHANGED <<rows, made>>
      /\ unseen' = [unseen EXCEPT ![calls[i].tab] = @ \cup ({calls[i].id} \ {NoID})]
  BY LoseIs
<1>2. PICK rest \in Seq(FineCalls) :
        /\ GoOn(i, FALSE, rest)
        /\ \/ rest = RemoveAt(calls, i)
           \/ \E e \in FineCalls : e.tab = NoTab /\ rest = [calls EXCEPT ![i] = e]
  BY LoseIs
<1>3. \A w \in Tab : Goes(calls, rest, w, i)
  <2>1. \A w \in Tab : w # NoTab
    BY BookmarksAssumption
  <2>2. CASE rest = RemoveAt(calls, i)
    BY <2>2, GoesRemove DEF TypeInv
  <2>3. ASSUME NEW e \in FineCalls, e.tab = NoTab, rest = [calls EXCEPT ![i] = e]
        PROVE  \A w \in Tab : Goes(calls, rest, w, i)
    <3>1. calls \in Seq(FineCalls) /\ \A w \in Tab : e.tab # w
      BY <2>1, <2>3 DEF TypeInv
    <3> QED
      BY <2>3, <3>1, GoesExcept
  <2> QED
    BY <1>2, <2>2, <2>3
<1>4. /\ \A w \in Tab : unseen[w] \subseteq unseen'[w]
      /\ calls[i].id \in unseen'[calls[i].tab] \cup {NoID}
  BY <1>1 DEF TypeInv
<1> QED
  BY <1>1, <1>2, <1>3, <1>4 DEF Over

\* The other tabs are not concerned.
LEMMA OverElsewhere ==
  ASSUME TypeInv, NEW i \in 1..Len(calls), NEW success \in BOOLEAN, NEW rest,
         Over(i, success, rest), NEW w \in Tab, w # calls[i].tab
  PROVE  /\ list'[w] = list[w] /\ loading'[w] = loading[w] /\ route' = route
         /\ Goes(calls, calls', w, i)
<1> DEFINE c == calls[i]
           t == c.tab
<1>1. /\ t \in Tab /\ rest \in Seq(FineCalls) /\ GoOn(i, success, rest) /\ Goes(calls, rest, w, i)
      /\ unseen[w] \subseteq unseen'[w] /\ rows' = rows
  BY DEF Over
<1>2. t # NoTab
  BY <1>1, BookmarksAssumption
<1>3. /\ c.op = "load" => Loaded(t, c, success) /\ calls' = rest
      /\ c.op = "reload" =>
           /\ list' = IF success THEN [list EXCEPT ![t] = c.list] ELSE list
           /\ calls' = rest /\ UNCHANGED page
      /\ c.op \in {"add", "delete"} /\ t \in ServerPage =>
           /\ \/ calls' = Append(rest, LoadCall(t, route[t], "reload", c.op))
              \/ calls' = rest
           /\ UNCHANGED <<page, list>>
      /\ c.op \in {"add", "delete"} /\ t \notin ServerPage =>
           DashboardRemoved(t, c, success) /\ calls' = rest
      /\ c.op \in Op
  BY <1>1, <1>2, GoOnIs
<1>4. list'[w] = list[w] /\ loading'[w] = loading[w] /\ route' = route
  <2>1. CASE c.op = "load"
    BY <1>1, <1>3, <2>1 DEF Loaded, TypeInv
  <2>2. CASE c.op = "reload"
    BY <1>1, <1>3, <2>2 DEF page, TypeInv
  <2>3. CASE c.op \in {"add", "delete"} /\ t \in ServerPage
    BY <1>3, <2>3 DEF page
  <2>4. CASE c.op \in {"add", "delete"} /\ t \notin ServerPage
    BY <1>1, <1>3, <2>4 DEF DashboardRemoved, TypeInv
  <2> QED
    BY <1>3, <2>1, <2>2, <2>3, <2>4 DEF Op
<1>5. Goes(calls, calls', w, i)
  <2>1. CASE calls' = rest
    BY <1>1, <2>1
  <2>2. CASE /\ calls' = Append(rest, LoadCall(t, route[t], "reload", c.op))
             /\ c.op \in {"add", "delete"} /\ t \in ServerPage
    <3>1. route[t] \in Target \cup {NoTarget}
      BY <2>2 DEF TypeInv
    <3>2. /\ LoadCall(t, route[t], "reload", c.op) \in FineCalls
          /\ LoadCall(t, route[t], "reload", c.op).tab = t
      BY <1>1, <2>2, <3>1, LoadMade
    <3> QED
      BY <1>1, <2>2, <3>2, GoesAppend
  <2> QED
    BY <1>3, <2>1, <2>2 DEF Op
<1> QED
  BY <1>4, <1>5

LEMMA OverOthers ==
  ASSUME TypeInv, TypeInv', NEW i \in 1..Len(calls), NEW success \in BOOLEAN, NEW rest,
         Over(i, success, rest), NEW w \in Tab, w # calls[i].tab, PageInv(w)
  PROVE  PageInv(w)'
<1>1. /\ unseen[w] \subseteq unseen'[w] /\ rows' = rows
  BY DEF Over
<1>2. list'[w] = list[w] /\ route' = route /\ Goes(calls, calls', w, i)
  BY OverElsewhere
<1>3. ChangesNoted(w) /\ Where(w)' = Where(w)
  BY <1>1, <1>2, ShownStays
<1> QED
  BY <1>1, <1>2, <1>3, TabStays

\* The tab shows the list that has come, or takes out what it has deleted, or asks
\* for its list again.
LEMMA OverOwn ==
  ASSUME TypeInv, TypeInv', DashboardInv, NEW i \in 1..Len(calls), NEW success \in BOOLEAN,
         NEW rest, Over(i, success, rest), NEW t \in Tab, t = calls[i].tab,
         t \notin blurred', PageInv(t)
  PROVE  PageInv(t)'
<1> DEFINE c == calls[i]
<1>1. /\ rest \in Seq(FineCalls) /\ GoOn(i, success, rest) /\ Goes(calls, rest, t, i)
      /\ unseen[t] \subseteq unseen'[t] /\ rows' = rows /\ t # NoTab
      /\ success => c.handled /\ c.ok
      /\ ~ success /\ c.handled /\ c.ok => c.id \in unseen'[t] \cup {NoID}
  BY BookmarksAssumption DEF Over
<1>2. /\ IsList(c) => success /\ \A j \in 1..(i - 1) : ~ ListAt(calls, t, j)
      /\ t \notin blurred
  BY DEF Over, Blurs, ListAt
<1>3. /\ c.op = "load" => Loaded(t, c, success) /\ calls' = rest
      /\ c.op = "reload" =>
           /\ list' = IF success THEN [list EXCEPT ![t] = c.list] ELSE list
           /\ calls' = rest /\ UNCHANGED page
      /\ c.op \in {"add", "delete"} /\ t \in ServerPage =>
           /\ IF success THEN calls' = Append(rest, LoadCall(t, route[t], "reload", c.op))
              ELSE calls' = rest
           /\ UNCHANGED <<page, list>>
      /\ c.op \in {"add", "delete"} /\ t \notin ServerPage =>
           /\ DashboardRemoved(t, c, success) /\ calls' = rest
           /\ c.op = "delete" /\ t \in Dashboard
      /\ c.op \in Op
  BY <1>1, GoOnIs
<1>4. /\ CallFine(c) /\ c.list \in SUBSET Bookmark /\ Len(calls) \in Nat /\ Len(rest) \in Nat
      /\ c.user = Owner[t]
  <2>1. CallFine(c) /\ c.list \in SUBSET Bookmark
    BY CallIs
  <2> QED
    BY <1>1, <2>1 DEF TypeInv, CallFine
<1>5. route' = route
  BY <1>3 DEF Loaded, page, DashboardRemoved, Op
<1>6. ChangesNoted(t) /\ Where(t)' = Where(t) /\ Shown(t)' = Shown(t)
  BY <1>1, <1>5, ShownStays
<1> HIDE DEF c
<1>7. ASSUME calls' = rest, ~ success \/ c.op \notin {"add", "delete"}
      PROVE  NothingForgotten(t)
  <2> SUFFICES ASSUME NEW id \in ID, Underway(calls, t, id)
               PROVE  id \in unseen'[t] \/ Underway(calls', t, id)
    BY <1>1 DEF NothingForgotten
  <2>1. \/ Underway(rest, t, id)
        \/ c.op \in {"add", "delete"} /\ c.id = id /\ c.handled /\ c.ok
    BY <1>1, UnderwayGoes DEF c
  <2>2. id # NoID
    BY DEF ID, NoID
  <2> QED
    BY <1>1, <1>7, <2>1, <2>2
<1>8. CASE c.op \in {"load", "reload"}
  <2>1. /\ IsList(c) /\ ListAt(calls, t, i) /\ success /\ c.handled /\ c.ok
        /\ \A j \in 1..(i - 1) : ~ ListAt(calls, t, j)
    BY <1>1, <1>2, <1>8 DEF IsList, ListAt, c
  <2>2. calls' = rest /\ list'[t] = c.list
    BY <1>3, <1>8, <2>1 DEF Loaded, TypeInv
  <2>3. NothingForgotten(t)
    BY <1>7, <1>8, <2>2
  <2>4. PICK items \in SUBSET Bookmark : items = c.list
    BY <1>4
  <2>5. ASSUME \A n \in 1..Len(calls') : ~ ListAt(calls', t, n)  PROVE Agrees(items, t)'
    <3>1. ASSUME NEW j \in (i + 1)..Len(calls), ListAt(calls, t, j)  PROVE FALSE
      <4>1. j \in 1..Len(calls) /\ j # i
        BY <1>4
      <4> QED
        BY <1>1, <2>2, <2>5, <3>1, <4>1, ListsGo
    <3>2. LastList(calls, t, i)
      BY <2>1, <3>1 DEF LastList
    <3>3. Agrees(items, t)
      BY <2>1, <2>4, <3>2 DEF PageInv, c
    <3> QED
      BY <1>6, <2>3, <3>3, AgreesKept
  <2>6. ASSUME NEW n \in 1..Len(calls'), LastList(calls', t, n)
        PROVE  /\ calls'[n].target = Where(t)'
               /\ calls'[n].handled /\ calls'[n].ok =>
                    \E x \in SUBSET Bookmark : x = calls'[n].list /\ Agrees(x, t)'
    <3>1. PICK j \in 1..Len(calls) :
            /\ j # i /\ calls[j] = calls'[n] /\ ListAt(calls, t, j)
            /\ \A l \in (j + 1)..Len(calls) : ListAt(calls, t, l) => l = i
      BY <1>1, <1>4, <2>2, <2>6, LastGoes
    <3>2. j > i
      BY <2>1, <3>1
    <3>3. LastList(calls, t, j)
      BY <3>1, <3>2 DEF LastList
    <3>4. PICK x \in SUBSET Bookmark : x = calls[j].list
      BY CallIs
    <3>5. /\ calls[j].target = Where(t)
          /\ calls[j].handled /\ calls[j].ok => Agrees(x, t)
      BY <3>3, <3>4 DEF PageInv
    <3> QED
      BY <1>6, <2>3, <3>1, <3>4, <3>5, AgreesKept
  <2>7. \E x : x = list'[t] /\ x = items
    BY <2>2, <2>4
  <2> QED
    BY <2>5, <2>6, <2>7 DEF PageInv
<1>9. CASE c.op \in {"add", "delete"} /\ ~ success
  <2>1. calls' = rest /\ list' = list
    BY <1>3, <1>9 DEF DashboardRemoved
  <2>2. NothingForgotten(t) /\ ~ ListAt(calls, t, i)
    BY <1>7, <1>9, <2>1 DEF ListAt, IsList, c
  <2> QED
    BY <1>1, <1>6, <2>1, <2>2, PageStays
<1>10. CASE c.op \in {"add", "delete"} /\ success /\ t \in ServerPage
  <2> DEFINE d == LoadCall(t, route[t], "reload", c.op)
  <2>1. calls' = Append(rest, d)
    BY <1>3, <1>10
  <2>2. route[t] \in Target \cup {NoTarget} /\ Where(t) = route[t]
    BY <1>10 DEF TypeInv, Where
  <2>3. d \in FineCalls /\ d.tab = t /\ d.op = "reload" /\ d.target = route[t] /\ ~ d.handled
    BY <1>10, <2>2, LoadMade
  <2> HIDE DEF d
  <2>4. IsList(d)
    BY <2>3 DEF IsList
  <2> QED
    BY <1>1, <1>6, <2>1, <2>2, <2>3, <2>4, AskedLast
<1>11. CASE c.op \in {"add", "delete"} /\ success /\ t \notin ServerPage
  <2>1. /\ calls' = rest /\ c.op = "delete" /\ t \in Dashboard
        /\ list' = [list EXCEPT ![t] = {r \in list[t] : r.id # c.id}]
    BY <1>3, <1>11 DEF DashboardRemoved
  <2>2. \A j \in 1..Len(calls) : ~ ListAt(calls, t, j)
    <3>1. ~ ListAt(calls, t, i)
      BY <2>1 DEF ListAt, IsList, c
    <3> QED
      BY <2>1, <3>1 DEF DashboardInv, Alone
  <2>3. Agrees(list[t], t)
    BY <2>2 DEF PageInv
  <2>4. PICK less \in SUBSET Bookmark : less = {r \in list[t] : r.id # c.id} /\ list'[t] = less
    <3> DEFINE items == {r \in list[t] : r.id # c.id}
    <3>1. items \in SUBSET Bookmark
      BY DEF TypeInv
    <3>2. list' = [list EXCEPT ![t] = items]
      BY <2>1
    <3> HIDE DEF items
    <3>3. list'[t] = items
      BY <3>2 DEF TypeInv
    <3> QED
      BY <3>1, <3>3 DEF items
  <2>5. Agrees(less, t)'
    <3> SUFFICES ASSUME NEW r \in less \cup Shown(t)
                 PROVE  \/ r \in less /\ r \in Shown(t)
                        \/ r.id \in unseen'[t]
                        \/ Underway(calls', t, r.id)
      BY <1>6 DEF Agrees
    <3>1. r.id # c.id
      <4>1. CASE r \in less
        BY <2>4, <4>1
      <4>2. CASE r \in Shown(t)
        <5>1. r \in rows /\ r.user = c.user
          BY <1>4, <4>2, ShownIs
        <5> QED
          BY <1>1, <1>4, <1>11, <2>1, <5>1 DEF CallFine
      <4> QED
        BY <4>1, <4>2
    <3>2. \/ r \in list[t] /\ r \in Shown(t)
          \/ r.id \in unseen[t]
          \/ Underway(calls, t, r.id)
      BY <2>3, <2>4 DEF Agrees
    <3>3. Underway(calls, t, r.id) => Underway(calls', t, r.id)
      BY <1>1, <2>1, <3>1, UnderwayGoes DEF c
    <3> QED
      BY <1>1, <2>4, <3>1, <3>2, <3>3
  <2>6. ASSUME NEW n \in 1..Len(calls')  PROVE ~ LastList(calls', t, n)
    <3>1. ASSUME LastList(calls', t, n)  PROVE FALSE
      BY <1>1, <1>4, <2>1, <2>2, <3>1, LastGoes
    <3> QED
      BY <3>1
  <2> QED
    BY <2>4, <2>5, <2>6 DEF PageInv
<1> QED
  BY <1>3, <1>8, <1>9, <1>10, <1>11 DEF Op

LEMMA OverShown ==
  ASSUME TypeInv, TypeInv', DashboardInv, ShownInv, NEW i \in 1..Len(calls),
         NEW success \in BOOLEAN, NEW rest, Over(i, success, rest)
  PROVE  ShownInv'
<1> SUFFICES ASSUME NEW t \in Tab \ blurred'  PROVE PageInv(t)'
  BY DEF ShownInv
<1>1. t \notin blurred
  BY DEF Over, Blurs
<1>2. PageInv(t)
  BY <1>1 DEF ShownInv
<1> QED
  BY <1>2, OverOwn, OverOthers
-----------------------------------------------------------------------------
(* A dashboard waits for its list alone *)

LEMMA AloneGoes ==
  ASSUME NEW t, NEW k, Goes(calls, calls', t, k), loading'[t] = loading[t], Alone(t)
  PROVE  Alone(t)'
<1> SUFFICES ASSUME NEW n \in 1..Len(calls'), ListAt(calls', t, n),
                    NEW m \in 1..Len(calls'), calls'[m].tab = t
             PROVE  loading'[t] /\ m = n
  BY DEF Alone, ListAt
<1>1. PICK f \in [1..Len(calls') -> Nat] :
    /\ \A l \in 1..Len(calls') :
         calls'[l].tab = t => f[l] \in 1..Len(calls) /\ f[l] # k /\ calls[f[l]] = calls'[l]
    /\ \A l, j \in 1..Len(calls') :
         calls'[l].tab = t /\ calls'[j].tab = t => (l < j <=> f[l] < f[j])
  BY DEF Goes
<1>2. calls'[n].tab = t /\ f[n] \in 1..Len(calls) /\ ListAt(calls, t, f[n])
  BY <1>1 DEF ListAt
<1>3. f[m] \in 1..Len(calls) /\ calls[f[m]].tab = t
  BY <1>1
<1>4. loading[t] /\ f[m] = f[n]
  BY <1>2, <1>3 DEF Alone
<1>5. ~ (m < n) /\ ~ (n < m)
  BY <1>1, <1>2, <1>3, <1>4
<1> QED
  BY <1>4, <1>5

\* Nothing of it is left when its only call is over.
LEMMA AloneOver ==
  ASSUME NEW t, NEW i \in 1..Len(calls), ListAt(calls, t, i), Alone(t), Goes(calls, calls', t, i)
  PROVE  \A n \in 1..Len(calls') : calls'[n].tab # t
<1> SUFFICES ASSUME NEW n \in 1..Len(calls'), calls'[n].tab = t  PROVE FALSE
  OBVIOUS
<1>1. PICK j \in 1..Len(calls) : j # i /\ calls[j].tab = t
  BY DEF Goes
<1> QED
  BY <1>1 DEF Alone

LEMMA AloneHandled ==
  ASSUME TypeInv, DashboardInv, NEW i \in 1..Len(calls), Handle(i)
  PROVE  DashboardInv'
<1> SUFFICES ASSUME NEW t \in Dashboard  PROVE Alone(t)'
  BY DEF DashboardInv
<1>1. t \in Tab /\ Alone(t) /\ loading' = loading
  BY HandleCalls DEF DashboardInv, Tab
<1>2. CASE calls' = RemoveAt(calls, i)
  <2>1. Goes(calls, calls', t, i)
    BY <1>2, GoesRemove DEF TypeInv
  <2> QED
    BY <1>1, <2>1, AloneGoes
<1>3. ASSUME NEW e \in CallSet, e.tab = calls[i].tab, e.op = calls[i].op,
             calls' = [calls EXCEPT ![i] = e]
      PROVE  Alone(t)'
  <2>1. /\ Len(calls') = Len(calls)
        /\ \A j \in 1..Len(calls) : calls'[j] = IF j = i THEN e ELSE calls[j]
        /\ \A j \in 1..Len(calls) : ListAt(calls', t, j) <=> ListAt(calls, t, j)
    BY <1>1, <1>3, PlaceIs
  <2>2. \A j \in 1..Len(calls) : calls'[j].tab = calls[j].tab
    BY <1>3, <2>1
  <2> QED
    BY <1>1, <2>1, <2>2 DEF Alone
<1> QED
  BY <1>2, <1>3, HandleCalls

LEMMA AloneStays ==
  ASSUME TypeInv, DashboardInv, NEW i \in 1..Len(calls), NEW success \in BOOLEAN, NEW rest,
         Over(i, success, rest)
  PROVE  DashboardInv'
<1> SUFFICES ASSUME NEW t \in Dashboard  PROVE Alone(t)'
  BY DEF DashboardInv
<1>1. t \in Tab /\ t \notin ServerPage /\ t # NoTab /\ Alone(t)
  BY BookmarksAssumption DEF DashboardInv, Tab
<1>2. CASE t # calls[i].tab
  <2>1. loading'[t] = loading[t] /\ Goes(calls, calls', t, i)
    BY <1>1, <1>2, OverElsewhere
  <2> QED
    BY <1>1, <2>1, AloneGoes
<1>3. CASE t = calls[i].tab
  <2>1. GoOn(i, success, rest) /\ Goes(calls, rest, t, i)
    BY <1>1 DEF Over
  <2>2. /\ calls' = rest
        /\ calls[i].op # "load" => UNCHANGED loading
    <3>1. PICK c : c = calls[i]
      OBVIOUS
    <3>2. /\ c.op = "load" => calls' = rest
          /\ c.op = "reload" => calls' = rest /\ UNCHANGED page
          /\ c.op \in {"add", "delete"} => DashboardRemoved(t, c, success) /\ calls' = rest
          /\ c.op \in Op
      BY <1>1, <1>3, <2>1, <3>1, GoOnIs
    <3> QED
      BY <3>1, <3>2 DEF DashboardRemoved, page, Op
  <2>3. CASE calls[i].op = "load"
    <3>1. ListAt(calls, t, i)
      BY <1>3, <2>3 DEF ListAt, IsList
    <3>2. \A n \in 1..Len(calls') : calls'[n].tab # t
      BY <1>1, <2>1, <2>2, <3>1, AloneOver
    <3> QED
      BY <3>2 DEF Alone, ListAt
  <2>4. CASE calls[i].op # "load"
    BY <1>1, <2>1, <2>2, <2>4, AloneGoes
  <2> QED
    BY <2>3, <2>4
<1> QED
  BY <1>2, <1>3

\* A page that is loaded begins with nothing in flight.
LEMMA AloneLoaded ==
  ASSUME TypeInv, DashboardInv, NEW t \in Tab, Visit(t) \/ Move(t)
  PROVE  DashboardInv'
<1> SUFFICES ASSUME NEW w \in Dashboard  PROVE Alone(w)'
  BY DEF DashboardInv
<1>1. w \in Tab /\ w \notin ServerPage /\ w # NoTab /\ Alone(w)
  BY BookmarksAssumption DEF DashboardInv, Tab
<1>2. PICK target \in Target \cup {NoTarget}, before \in Seq(FineCalls) :
        /\ LoadPage(t, target, before)
        /\ w # t => Goes(calls, before, w, 0)
        /\ w = t => \A n \in 1..Len(before) : before[n].tab # t
  <2>1. CASE Visit(t)
    <3>1. PICK target \in (IF t \in ServerPage THEN Target ELSE {NoTarget}),
               order \in InOrder(Remaining(t)) : LoadPage(t, target, Left(t, order))
      BY <2>1 DEF Visit
    <3>2. ASSUME NEW n \in 1..Len(Left(t, order))  PROVE Left(t, order)[n].tab # t
      <4>1. /\ Left(t, order)[n] = IF calls[order[n]].tab = t
                                     THEN [calls[order[n]] EXCEPT !.tab = NoTab]
                                     ELSE calls[order[n]]
            /\ order[n] \in Remaining(t)
        BY LeftIs
      <4>2. order[n] \in 1..Len(calls)
        BY <4>1 DEF Remaining, TypeInv
      <4>3. [calls[order[n]] EXCEPT !.tab = NoTab].tab = NoTab
        BY <4>2, CallIs DEF FineCalls, CallSet
      <4>4. t # NoTab
        BY BookmarksAssumption
      <4> QED
        BY <4>1, <4>3, <4>4
    <3>3. Left(t, order) \in Seq(FineCalls)
      BY LeftIs
    <3>4. w # t => Goes(calls, Left(t, order), w, 0)
      BY <1>1, GoesLeft
    <3> QED
      BY <3>1, <3>2, <3>3, <3>4
  <2>2. CASE Move(t)
    <3>1. PICK target \in Target : LoadPage(t, target, calls) /\ t \in ServerPage
      BY <2>2 DEF Move
    <3>2. calls \in Seq(FineCalls) /\ Goes(calls, calls, w, 0)
      BY GoesSame DEF TypeInv
    <3> QED
      BY <1>1, <3>1, <3>2
  <2> QED
    BY <2>1, <2>2
<1> DEFINE c == LoadCall(t, target, "load", "none")
<1>3. c \in FineCalls /\ c.tab = t
  BY LoadMade
<1>4. calls' = Append(before, c) /\ loading' = [loading EXCEPT ![t] = TRUE]
  BY <1>2 DEF LoadPage
<1> HIDE DEF c
<1>5. CASE w # t
  <2>1. loading'[w] = loading[w]
    BY <1>1, <1>4, <1>5 DEF TypeInv
  <2>2. Goes(calls, calls', w, 0)
    BY <1>2, <1>3, <1>4, <1>5, GoesAppend
  <2> QED
    BY <1>1, <2>1, <2>2, AloneGoes
<1>6. CASE w = t
  <2>1. loading'[w]
    BY <1>1, <1>4, <1>6 DEF TypeInv
  <2>2. /\ Len(before) \in Nat /\ Len(calls') = Len(before) + 1
        /\ \A n \in 1..Len(before) : calls'[n] = before[n]
    BY <1>3, <1>4, AppendIs
  <2>3. \A n \in 1..Len(calls') : calls'[n].tab = w => n = Len(before) + 1
    <3>1. \A n \in 1..Len(calls') : n \in 1..Len(before) \/ n = Len(before) + 1
      BY <2>2
    <3> QED
      BY <1>2, <1>6, <2>2, <3>1
  <2> QED
    BY <2>1, <2>3 DEF Alone, ListAt
<1> QED
  BY <1>5, <1>6

\* Only a dashboard that has its list deletes from it.
LEMMA AloneAsked ==
  ASSUME TypeInv, OwnInv, DashboardInv,
         \/ \E t \in Tab : Save(t) \/ Delete(t)
         \/ \E u \in Client : ApiDelete(u)
  PROVE  DashboardInv'
<1> SUFFICES ASSUME NEW w \in Dashboard  PROVE Alone(w)'
  BY DEF DashboardInv
<1>1. w \in Tab /\ w \notin ServerPage /\ w # NoTab /\ Alone(w)
  BY BookmarksAssumption DEF DashboardInv, Tab
<1>2. PICK c \in FineCalls :
        /\ calls' = Append(calls, c) /\ loading' = loading
        /\ c.tab = w => c.op = "delete" /\ ~ loading[w]
  <2>1. ASSUME NEW t \in Tab, Save(t)
        PROVE  \E c \in FineCalls : calls' = Append(calls, c) /\ c.tab # w /\ loading' = loading
    <3>1. loading' = loading
      BY <2>1 DEF Save, page
    <3> QED
      BY <1>1, <2>1, <3>1, SaveIs
  <2>2. ASSUME NEW t \in Tab, Delete(t)
        PROVE  \E c \in FineCalls : /\ calls' = Append(calls, c) /\ loading' = loading
                                    /\ c.tab = t /\ c.op = "delete" /\ ~ loading[t]
    <3>1. loading' = loading /\ ~ loading[t]
      BY <2>2 DEF Delete, Ready, page
    <3> QED
      BY <2>2, <3>1, DeleteIs
  <2>3. ASSUME NEW u \in Client, ApiDelete(u)
        PROVE  \E c \in FineCalls : calls' = Append(calls, c) /\ c.tab # w /\ loading' = loading
    <3>1. loading' = loading
      BY <2>3 DEF ApiDelete, page
    <3> QED
      BY <1>1, <2>3, <3>1, ApiDeleteIs
  <2> QED
    BY <2>1, <2>2, <2>3
<1>3. calls \in Seq(FineCalls) /\ Goes(calls, calls, w, 0)
  BY GoesSame DEF TypeInv
<1>4. CASE c.tab # w
  <2>1. Goes(calls, calls', w, 0)
    BY <1>2, <1>3, <1>4, GoesAppend
  <2> QED
    BY <1>1, <1>2, <2>1, AloneGoes
<1>5. CASE c.tab = w
  <2>1. /\ Len(calls) \in Nat /\ Len(calls') = Len(calls) + 1 /\ calls'[Len(calls) + 1] = c
        /\ \A n \in 1..Len(calls) : calls'[n] = calls[n]
    BY <1>2, <1>3, AppendIs
  <2>2. \A n \in 1..Len(calls) : ~ ListAt(calls, w, n)
    BY <1>1, <1>2, <1>5 DEF Alone
  <2>3. ASSUME NEW n \in 1..Len(calls')  PROVE ~ ListAt(calls', w, n)
    <3>1. n \in 1..Len(calls) \/ n = Len(calls) + 1
      BY <2>1
    <3> QED
      BY <1>2, <1>5, <2>1, <2>2, <3>1 DEF ListAt, IsList
  <2> QED
    BY <2>3 DEF Alone
<1> QED
  BY <1>4, <1>5

-----------------------------------------------------------------------------
(* The invariant holds *)

LEMMA InitInv == Init => IInv
<1> SUFFICES ASSUME Init  PROVE IInv
  OBVIOUS
<1>1. TypeInv
  <2>1. <<>> \in Seq(FineCalls)
    OBVIOUS
  <2> QED
    BY <2>1 DEF Init, TypeInv, NoID
<1>2. OwnInv
  BY DEF Init, OwnInv
<1>3. calls = <<>> /\ 1..Len(calls) = {}
  BY DEF Init
<1> QED
  BY <1>1, <1>2, <1>3 DEF IInv, DashboardInv, Alone, ShownInv, Init

LEMMA NextInv == IInv /\ [Next]_vars => IInv'
<1> SUFFICES ASSUME IInv, [Next]_vars  PROVE IInv'
  OBVIOUS
<1>1. TypeInv /\ OwnInv /\ DashboardInv /\ ShownInv /\ TypeInv' /\ OwnInv'
  BY OwnNext DEF IInv
<1> SUFFICES DashboardInv' /\ ShownInv'
  BY <1>1 DEF IInv
<1>2. ASSUME NEW i \in 1..Len(calls), Handle(i)
      PROVE  DashboardInv' /\ ShownInv'
  <2>1. ASSUME NEW t \in Tab \ blurred'  PROVE PageInv(t)'
    <3>1. PageInv(t)
      BY <1>1, <1>2, HandleCalls DEF ShownInv
    <3> QED
      BY <1>1, <1>2, <3>1, HandleOwn, HandleOthers
  <2> QED
    BY <1>1, <1>2, <2>1, AloneHandled DEF ShownInv
<1>3. ASSUME NEW i \in 1..Len(calls), Answer(i) \/ Lose(i)
      PROVE  DashboardInv' /\ ShownInv'
  <2>1. \E success \in BOOLEAN : \E rest : Over(i, success, rest)
    BY <1>1, <1>3, AnswerOver, LoseOver
  <2>2. PICK success \in BOOLEAN : \E rest : Over(i, success, rest)
    BY <2>1
  <2>3. PICK rest : Over(i, success, rest)
    BY <2>2
  <2> QED
    BY <1>1, <2>3, AloneStays, OverShown
<1>4. ASSUME NEW t \in Tab, Visit(t) \/ Move(t)
      PROVE  DashboardInv' /\ ShownInv'
  BY <1>1, <1>4, AloneLoaded, PageShown
<1>5. CASE \/ \E t \in Tab : Save(t) \/ Delete(t)
           \/ \E u \in Client : ApiDelete(u)
  <2>1. \E c \in FineCalls : calls' = Append(calls, c) /\ c.op \in {"add", "delete"}
    BY <1>1, <1>5, SaveIs, DeleteIs, ApiDeleteIs
  <2>2. UNCHANGED <<rows, route, list, unseen, blurred>>
    BY <1>5 DEF Save, Delete, ApiDelete, page, history
  <2> QED
    BY <1>1, <1>5, <2>1, <2>2, AloneAsked, CallShown
<1>6. ASSUME NEW u \in Client, ApiAdd(u)
      PROVE  DashboardInv' /\ ShownInv'
  <2>1. UNCHANGED <<calls, loading>>
    BY <1>6 DEF ApiAdd, page
  <2>2. DashboardInv'
    BY <1>1, <2>1 DEF DashboardInv, Alone
  <2> QED
    BY <1>1, <1>6, <2>2, ApiAddShown
<1>7. CASE UNCHANGED vars
  BY <1>1, <1>7 DEF vars, page, history, DashboardInv, Alone, ShownInv, PageInv, Agrees, Where,
                    Shown, Stored
<1>8. DOMAIN calls = 1..Len(calls)
  BY <1>1 DEF TypeInv
<1> QED
  BY <1>2, <1>3, <1>4, <1>5, <1>6, <1>7, <1>8 DEF Next

LEMMA Invariance == Spec => []IInv
BY InitInv, NextInv, PTL DEF Spec

-----------------------------------------------------------------------------
(* What follows *)

\* Every variable has its type in every reachable state; a call that adds a
\* bookmark names a target.
THEOREM TypeCorrect == Spec => []TypeOK
<1>1. IInv => TypeOK
  <2> SUFFICES ASSUME IInv  PROVE TypeOK
    OBVIOUS
  <2>1. TypeInv
    BY DEF IInv
  <2>2. \A i \in DOMAIN calls : /\ calls[i].op \in Op /\ calls[i].tab \in Tab \cup {NoTab}
                                /\ calls[i].op = "add" => calls[i].target \in Target
                                /\ calls[i].user \in User /\ calls[i].list \subseteq Bookmark
    <3> SUFFICES ASSUME NEW i \in 1..Len(calls)
                 PROVE  /\ calls[i].op \in Op /\ calls[i].tab \in Tab \cup {NoTab}
                        /\ calls[i].op = "add" => calls[i].target \in Target
                        /\ calls[i].user \in User /\ calls[i].list \subseteq Bookmark
      BY <2>1 DEF TypeInv
    <3>1. /\ calls[i].op \in Op /\ calls[i].tab \in Tab \cup {NoTab} /\ CallFine(calls[i])
          /\ calls[i].user \in User /\ calls[i].list \in SUBSET Bookmark
      BY <2>1, CallIs
    <3> QED
      BY <3>1 DEF CallFine
  <2>3. Nat = ID \cup {NoID}
    BY DEF ID, NoID
  <2> QED
    BY <2>1, <2>2, <2>3 DEF TypeInv, TypeOK
<1> QED
  BY <1>1, Invariance, PTL

\* No tab ever shows a bookmark of another user, and none is stored for a target
\* its user may not use (storage.go filters by user; AddBookmark asks the policy).
THEOREM BookmarksStayOnesOwn == Spec => []BookmarksAreOnesOwn
<1>1. IInv => BookmarksAreOnesOwn
  BY DEF IInv, OwnInv, BookmarksAreOnesOwn
<1> QED
  BY <1>1, Invariance, PTL

\* A row goes only in the handler of a delete of its own user that names it.
THEOREM DeletesAreOwners == Spec => OnlyOwnersDelete
<1> DEFINE Mine == \A r \in rows \ rows' :
                     \E i \in DOMAIN calls :
                       /\ calls[i].op = "delete" /\ calls[i].id = r.id /\ calls[i].user = r.user
                       /\ ~ calls[i].handled
<1>1. IInv /\ [Next]_vars => [Mine]_vars
  <2> SUFFICES ASSUME IInv, Next  PROVE Mine
    OBVIOUS
  <2>1. CASE rows \subseteq rows'
    BY <2>1
  <2>2. ASSUME NEW i \in DOMAIN calls, Handle(i)  PROVE Mine
    <3>1. CASE calls[i].op = "add"
      <4>1. rows \subseteq rows'
        BY <2>2, <3>1 DEF Handle, AddBookmark, Insert
      <4> QED
        BY <2>1, <4>1
    <3>2. CASE calls[i].op = "delete"
      <4>1. rows' = rows \ Deleted(calls[i].user, calls[i].id) /\ ~ calls[i].handled
        BY <2>2, <3>2 DEF Handle, DeleteBookmark
      <4>2. ASSUME NEW r \in rows \ rows'
            PROVE  calls[i].id = r.id /\ calls[i].user = r.user
        BY <4>1, <4>2 DEF Deleted
      <4> QED
        BY <2>2, <3>2, <4>1, <4>2
    <3>3. CASE calls[i].op \notin {"add", "delete"}
      <4>1. rows' = rows
        BY <2>2, <3>3 DEF Handle, ListBookmarks
      <4> QED
        BY <2>1, <4>1
    <3> QED
      BY <3>1, <3>2, <3>3
  <2>3. ASSUME NEW i \in DOMAIN calls, Answer(i) \/ Lose(i)  PROVE rows' = rows
    BY <2>3 DEF Answer, Lose
  <2>4. ASSUME NEW t \in Tab, Visit(t) \/ Move(t) \/ Save(t) \/ Delete(t)  PROVE rows' = rows
    BY <2>4 DEF Visit, Move, LoadPage, Save, Delete
  <2>5. ASSUME NEW u \in Client, ApiAdd(u) \/ ApiDelete(u)  PROVE rows \subseteq rows'
    BY <2>5 DEF ApiAdd, ApiDelete, Insert
  <2> QED
    BY <2>1, <2>2, <2>3, <2>4, <2>5 DEF Next
<1> QED
  BY <1>1, Invariance, PTL DEF Spec, OnlyOwnersDelete

\* A tab that waits for nothing, and whose lists came and came in order, shows
\* what is stored but for what others have changed or an answer that was lost,
\* whatever was saved and deleted meanwhile and wherever the tab was moved.
THEOREM QuietTabsAreRight == Spec => []QuietTabShowsStored
<1>1. IInv => QuietTabShowsStored
  <2> SUFFICES ASSUME IInv, NEW t \in Tab \ blurred, Quiet(t)
               PROVE  /\ {r.id : r \in list[t] \ Shown(t)} \subseteq unseen[t]
                      /\ {r.id : r \in Shown(t) \ list[t]} \subseteq unseen[t]
    BY DEF QuietTabShowsStored
  <2>1. \A i \in 1..Len(calls) : calls[i].tab # t
    BY DEF Quiet, IInv, TypeInv
  <2>2. Agrees(list[t], t)
    BY <2>1 DEF IInv, ShownInv, PageInv, ListAt
  <2>3. \A id : ~ Underway(calls, t, id)
    BY <2>1 DEF Underway
  <2> QED
    BY <2>2, <2>3 DEF Agrees
<1> QED
  BY <1>1, Invariance, PTL
=============================================================================
