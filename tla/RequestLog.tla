------------------------------ MODULE RequestLog ------------------------------
(***************************************************************************)
(* The rows of query_results, and an administrator who walks over the      *)
(* pages of admin.requests.list.v1 while calls go on inserting rows.       *)
(*                                                                         *)
(* A row is inserted when its statement is over and carries the instant at *)
(* which the statement began: it may go behind rows that are there already.*)
(* Rows are never deleted.  Rows of one instant come in any order, and in  *)
(* another one the next time.                                              *)
(***************************************************************************)
EXTENDS Integers, FiniteSets, Functions

CONSTANTS
  Request,   \* the calls whose results are stored; also names their rows
  Instant,   \* what the clock may say when a statement begins
  PageSize

ASSUME LogAssumption ==
  IsFiniteSet(Request) /\ Instant \subseteq Nat /\ PageSize \in Nat \ {0}

VARIABLES
  at,        \* created_at of each stored row
  walk,      \* "no", "walking", "done" or "forbidden"
  admin,     \* whether the caller has the administrator's role
  page,      \* the page the caller asks for next
  seen,      \* the rows shown so far
  base,      \* the rows that were stored when the walk began
  inserted,  \* how many rows were inserted since
  repeated   \* how often a row was shown again, counted up to MaxRepeats

vars == <<at, walk, admin, page, seen, base, inserted, repeated>>

Rows == DOMAIN at

Init ==
  /\ at = <<>>
  /\ walk = "no"
  /\ admin \in BOOLEAN
  /\ page \in {0, 1}
  /\ seen = {} /\ base = {}
  /\ inserted = 0 /\ repeated = 0

\* RunQuery stores a result under the instant its statement began.
Insert(r) ==
  /\ r \notin Rows
  /\ \E t \in Instant : at' = [x \in Rows \cup {r} |-> IF x = r THEN t ELSE at[x]]
  /\ inserted' = IF walk = "walking" THEN inserted + 1 ELSE inserted
  /\ UNCHANGED <<walk, admin, page, seen, base, repeated>>

BeginWalk ==
  /\ walk = "no"
  /\ walk' = "walking"
  /\ base' = Rows
  /\ UNCHANGED <<at, admin, page, seen, inserted, repeated>>

\* ORDER BY created_at DESC
Orderings ==
  {order \in Bijection(1..Cardinality(Rows), Rows) :
     \A i, j \in DOMAIN order : i < j => at[order[i]] >= at[order[j]]}

\* LIMIT and OFFSET, as places in the ordering.
Slots(limit, offset) ==
  {i \in 1..Cardinality(Rows) : offset < i /\ i <= offset + limit}

\* A caller that names no page is given the first.
PageNo == IF page <= 0 THEN 1 ELSE page

\* An offset that counts pages from zero.
Offset_FromZero == PageNo * PageSize

Offset == (PageNo - 1) * PageSize

\* One row more than a page is read, to know whether there is a next page.
Listed == Slots(PageSize + 1, Offset)

\* A page that is full counts as having a next one.
HasNext_WhenFull == Cardinality(Listed) >= PageSize

HasNext == Cardinality(Listed) > PageSize

\* A page that keeps the row read for HasNext.
Kept_All == Listed

Kept == IF HasNext THEN Slots(PageSize, Offset) ELSE Listed

NextPage == PageNo + 1

\* Bound of the count of rows shown again: one more than there can be.
MaxRepeats == Cardinality(Request) + 1
UpToMax(n) == IF n <= MaxRepeats THEN n ELSE MaxRepeats

Show(rows) ==
  /\ seen' = seen \cup rows
  /\ repeated' = UpToMax(repeated + Cardinality(rows \cap seen))

\* One call of admin.requests.list.v1; the caller goes on while there is a
\* next page.  A call that fails changes nothing and is made again.
Fetch ==
  /\ walk = "walking"
  /\ \/ /\ ~ admin
        /\ walk' = "forbidden"
        /\ UNCHANGED <<page, seen, repeated>>
     \/ /\ admin
        /\ \E order \in Orderings : Show({order[i] : i \in Kept})
        /\ walk' = IF HasNext THEN "walking" ELSE "done"
        /\ page' = IF HasNext THEN NextPage ELSE page
  /\ UNCHANGED <<at, admin, base, inserted>>

Next == BeginWalk \/ Fetch \/ \E r \in Request : Insert(r)

Spec == Init /\ [][Next]_vars

-----------------------------------------------------------------------------
(* Properties *)

\* Every variable has the type the code gives it.
TypeOK ==
  /\ Rows \subseteq Request /\ at \in [Rows -> Instant]
  /\ walk \in {"no", "walking", "done", "forbidden"}
  /\ admin \in BOOLEAN
  /\ page \in Nat
  /\ seen \subseteq Rows /\ base \subseteq Rows
  /\ inserted \in Nat /\ repeated \in Nat

\* No other row began at the instant of b.
Alone(b) == \A x \in Rows \ {b} : at[x] # at[b]

\* A walk that is over has shown every row that was stored when it began and
\* shares its instant with no other, however many rows were inserted
\* meanwhile, and wherever they went.
NothingMissed ==
  walk = "done" => \A b \in base : Alone(b) => b \in seen

\* A row is shown once more only when an insert has moved one over the edge
\* of a page: with distinct instants, not more often than rows were inserted.
RepeatsAreShifts == (\A b \in Rows : Alone(b)) => repeated <= inserted

\* A caller is sent on to a next page only when there is a row on it, so a
\* walk ends when the log ends, and a log of full pages has no empty one.
NextPageHasRows == walk = "walking" /\ PageNo > 1 => Cardinality(Rows) > Offset
=============================================================================
