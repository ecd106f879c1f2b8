-------------------------- MODULE ExportLinkProofs --------------------------
(***************************************************************************)
(* Who gets the file of an export link, how long, and what is in it, for   *)
(* all users, results, clocks and times.                                   *)
(***************************************************************************)
EXTENDS ExportLink, TLAPS

\* What a link that was made says of the call that made it.
Made(l) ==
  /\ l.UserID = l.for.id
  /\ CanRead(l.for, Owner[l.QueryResultID])
  /\ \E i \in Instance : l.ExpiresAt = l.at.s + Ahead[i] + 3

\* A download that has begun is of the user of its link, and in time.
Begun(o) ==
  /\ o.user \in User /\ o.link \in links
  /\ o.user.id = o.link.UserID
  /\ Before(o.at, Later(o.link.at, 4 + MaxSkew))

\* The result of a link is gone, or no longer for the one who asks.
Loss(a) ==
  \/ a.link.QueryResultID \notin rows
  \/ a.link.for.role = "admin" /\ a.user.role # "admin"

Given(a) ==
  /\ a.link \in links
  /\ a.user.id = a.link.for.id
  /\ a.user.role = "admin" \/ a.user.id = Owner[a.link.QueryResultID]
  /\ Before(a.at, Later(a.link.at, 4 + MaxSkew))
  /\ a.body = Export(a.link.Format, Table[a.link.QueryResultID])

Denied(a) ==
  \/ a.bearer = BadBearer \/ (a.bearer = NoBearer /\ a.user = NoUser) \/ a.link = NoLink
  \/ a.user.id # a.link.for.id
  \/ ~ Before(a.at, Later(a.link.at, 3 - MaxSkew))
  \/ Loss(a)

Answered(a) ==
  /\ a.link \in links \cup {NoLink}
  /\ a.status = 200 => Given(a)
  /\ a.status \in {401, 404} => Denied(a)
  /\ a.panic => Loss(a)

IInv ==
  /\ now \in Time /\ rows \subseteq Result /\ session \in [Caller -> User \cup {NoUser}]
  /\ links \subseteq Link /\ \A l \in links : Made(l)
  /\ opening = [c \in Caller |-> opening[c]] /\ answer = [c \in Caller |-> answer[c]]
  /\ \A c \in Caller : opening[c] # None => Begun(opening[c])
  /\ \A c \in Caller : answer[c] # None => Answered(answer[c])

-----------------------------------------------------------------------------
(* The clocks *)

\* A link that is not expired was made less than four seconds and the clocks'
\* difference ago.
LEMMA InTime ==
  ASSUME now \in Time, NEW l \in Link, Made(l), NEW i \in Instance, ~ Expired(i, l)
  PROVE  Before(now, Later(l.at, 4 + MaxSkew))
<1>1. PICK j \in Instance : l.ExpiresAt = l.at.s + Ahead[j] + 3
  BY DEF Made
<1>2. Ahead[i] \in Int /\ Ahead[j] \in Int /\ MaxSkew \in Nat /\ Ahead[j] - Ahead[i] <= MaxSkew
  BY ClockAssumption
<1>3. now.s \in Nat /\ l.at.s \in Nat
  BY DEF Time, Link
<1>4. now.s + Ahead[i] <= l.at.s + Ahead[j] + 3
  BY <1>1, <1>2, <1>3 DEF Expired, Unix
<1> QED
  BY <1>2, <1>3, <1>4 DEF Before, Later

\* A link that is expired was made three seconds or more ago, less the clocks'
\* difference.
LEMMA NotInTime ==
  ASSUME now \in Time, NEW l \in Link, Made(l), NEW i \in Instance, Expired(i, l)
  PROVE  ~ Before(now, Later(l.at, 3 - MaxSkew))
<1>1. PICK j \in Instance : l.ExpiresAt = l.at.s + Ahead[j] + 3
  BY DEF Made
<1>2. Ahead[i] \in Int /\ Ahead[j] \in Int /\ MaxSkew \in Nat /\ Ahead[i] - Ahead[j] <= MaxSkew
  BY ClockAssumption
<1>3. now.s \in Nat /\ l.at.s \in Nat
  BY DEF Time, Link
<1>4. now.s + Ahead[i] > l.at.s + Ahead[j] + 3
  BY <1>1, <1>2, <1>3 DEF Expired, Unix
<1> QED
  BY <1>2, <1>3, <1>4 DEF Before, Later

\* The clock goes from one time to another.
LEMMA TickType ==
  ASSUME now \in Time, Tick
  PROVE  now' \in Time
<1>1. TicksPerSecond \in Nat \ {0}
  BY ClockAssumption
<1>2. CASE now.t + 1 < TicksPerSecond
  BY <1>1, <1>2 DEF Tick, Time
<1>3. CASE ~ (now.t + 1 < TicksPerSecond)
  BY <1>1, <1>3 DEF Tick, Time
<1> QED
  BY <1>2, <1>3

-----------------------------------------------------------------------------
(* Who gets the file *)

LEMMA IInvInit == Init => IInv
BY ClockAssumption DEF Init, IInv, Time

\* Results that go and links that are made leave the answers what they are.
LEMMA AnswersStay ==
  ASSUME IInv, rows' \subseteq rows, links \subseteq links', UNCHANGED <<opening, answer>>
  PROVE  /\ opening' = [c \in Caller |-> opening'[c]] /\ answer' = [c \in Caller |-> answer'[c]]
         /\ \A c \in Caller : opening'[c] # None => Begun(opening[c])'
         /\ \A c \in Caller : answer'[c] # None => Answered(answer[c])'
BY DEF IInv, Begun, Answered, Given, Denied, Loss

\* A new answer that is sound leaves them all sound.
LEMMA AnswerKeeps ==
  ASSUME IInv, NEW c \in Caller, NEW a, Answered(a), UNCHANGED <<rows, links>>,
         answer' = [answer EXCEPT ![c] = a]
  PROVE  /\ answer' = [d \in Caller |-> answer'[d]]
         /\ \A d \in Caller : answer'[d] # None => Answered(answer[d])'
<1>1. answer'[c] = a /\ \A d \in Caller \ {c} : answer'[d] = answer[d]
  BY DEF IInv
<1> QED
  BY <1>1 DEF Answered, Given, Denied, Loss, IInv

\* A call that is refused leaves a cause.
LEMMA OpenRefuses ==
  ASSUME IInv, NEW c \in Caller, NEW i \in Instance, NEW u, NEW l \in links \cup {NoLink},
         u = NoUser \/ ~ Accepts(i, u, l)
  PROVE  \/ u = NoUser \/ l = NoLink
         \/ u.id # l.for.id
         \/ ~ Before(now, Later(l.at, 3 - MaxSkew))
<1> SUFFICES ASSUME u # NoUser, l # NoLink, u.id = l.for.id
             PROVE  ~ Before(now, Later(l.at, 3 - MaxSkew))
  OBVIOUS
<1>1. l \in Link /\ Made(l)
  BY DEF IInv
<1>2. Expired(i, l)
  BY <1>1 DEF Accepts, Made
<1> QED
  BY <1>1, <1>2, NotInTime DEF IInv

LEMMA IInvNext == IInv /\ [Next]_vars => IInv'
<1> SUFFICES ASSUME IInv, [Next]_vars  PROVE IInv'
  OBVIOUS
<1>1. CASE Tick
  BY <1>1, AnswersStay, TickType DEF Tick, IInv, Made
<1>2. CASE Truncate
  BY <1>2, AnswersStay DEF Truncate, IInv, Made
<1>3. ASSUME NEW c \in Caller, SessionChanges(c)  PROVE IInv'
  BY <1>3, AnswersStay DEF SessionChanges, IInv, Made
<1>4. ASSUME NEW i \in Instance, NEW u \in User, NEW r \in Result, NEW f \in Requested,
             ExportLink(i, u, r, f)
      PROVE  IInv'
  <2> DEFINE l == [UserID |-> u.id, QueryResultID |-> r, Format |-> f,
                   ExpiresAt |-> Unix(i) + Lifetime, for |-> u, at |-> now]
  <2>1. u.id \in UserID /\ now.s \in Nat /\ Ahead[i] \in Int /\ now \in Time
    BY DataAssumption, ClockAssumption DEF IInv, Time
  <2>2. l.ExpiresAt = now.s + Ahead[i] + 3 /\ l.ExpiresAt \in Int
    BY <2>1 DEF Unix, Lifetime
  <2>3. l \in Link
    BY <1>4, <2>1, <2>2 DEF Link, ExportLink, isSupportedExportFormat
  <2>4. Made(l)
    BY <1>4, <2>2 DEF Made, ExportLink, Readable
  <2>5. links' = links \cup {l} /\ UNCHANGED <<now, rows, session, opening, answer>>
    BY <1>4 DEF ExportLink
  <2>6. \A k \in links' : Made(k)'
    BY <2>4, <2>5 DEF IInv, Made
  <2> QED
    BY <2>3, <2>5, <2>6, AnswersStay DEF IInv
<1>5. ASSUME NEW c \in Caller, NEW i \in Instance, NEW b \in Bearer,
             NEW l \in links \cup {NoLink}, Open(c, i, b, l)
      PROVE  IInv'
  <2> DEFINE u == currentExportUser(c, b)
  <2>1. UNCHANGED <<now, rows, session, links>> /\ \A k \in links : Made(k)'
    BY <1>5 DEF Open, IInv, Made
  <2>2. /\ u \in User \cup {NoUser}
        /\ u = NoUser => b = BadBearer \/ b = NoBearer
    BY DataAssumption DEF currentExportUser, Bearer, IInv
  <2>3. CASE u # NoUser /\ Accepts(i, u, l)
    <3>1. l \in Link /\ Made(l) /\ u.id = l.UserID /\ ~ Expired(i, l) /\ l \in links
      BY <2>3 DEF Accepts, IInv
    <3>2. Before(now, Later(l.at, 4 + MaxSkew))
      BY <3>1, InTime DEF IInv
    <3>3. /\ opening' = [opening EXCEPT ![c] = Download(u, b, l)]
          /\ answer' = [answer EXCEPT ![c] = None]
      BY <1>5, <2>3 DEF Open
    <3> USE DEF Download
    <3>4. \A d \in Caller : opening'[d] # None => Begun(opening[d])'
      <4>1. Begun(opening[c])'
        BY <2>1, <2>2, <2>3, <3>1, <3>2, <3>3 DEF Begun, IInv
      <4>2. ASSUME NEW d \in Caller \ {c}  PROVE opening'[d] = opening[d]
        BY <3>3 DEF IInv
      <4> QED
        BY <4>1, <4>2, <2>1 DEF Begun, IInv
    <3>5. \A d \in Caller : answer'[d] # None => Answered(answer[d])'
      BY <2>1, <3>3 DEF Answered, Given, Denied, Loss, IInv
    <3> QED
      BY <2>1, <3>3, <3>4, <3>5 DEF IInv
  <2>4. CASE ~ (u # NoUser /\ Accepts(i, u, l))
    <3> DEFINE a == [status |-> IF u = NoUser THEN 401 ELSE 404, user |-> u, bearer |-> b,
                     link |-> l, at |-> now, body |-> <<>>, panic |-> FALSE]
    <3>1. answer' = [answer EXCEPT ![c] = a] /\ opening' = opening
      BY <1>5, <2>4 DEF Open, Finish, Download
    <3>2. Denied(a)
      BY <2>2, <2>4, OpenRefuses DEF Denied
    <3>3. Answered(a)
      BY <3>2 DEF Answered
    <3>4. /\ answer' = [d \in Caller |-> answer'[d]]
          /\ \A d \in Caller : answer'[d] # None => Answered(answer[d])'
      <4> HIDE DEF a
      <4>1. rows' = rows /\ links' = links
        BY <2>1
      <4> QED
        BY <3>1, <3>3, <4>1, AnswerKeeps
    <3>5. opening' = opening /\ \A d \in Caller : opening'[d] # None => Begun(opening[d])'
      BY <2>1, <3>1 DEF IInv, Begun
    <3> QED
      BY <2>1, <3>4, <3>5 DEF IInv
  <2> QED
    BY <2>3, <2>4
<1>6. ASSUME NEW c \in Caller, Serve(c)  PROVE IInv'
  <2> DEFINE o == opening[c]
             r == o.link.QueryResultID
             found == Readable(o.user, r)
             a == [status |-> IF found THEN 200 ELSE 404, user |-> o.user,
                   bearer |-> o.bearer, link |-> o.link, at |-> o.at, body |-> IF found THEN Export(o.link.Format, Table[r]) ELSE <<>>,
                   panic |-> ~ found]
  <2>1. UNCHANGED <<now, rows, session, links>> /\ \A k \in links : Made(k)'
    BY <1>6 DEF Serve, IInv, Made
  <2>2. answer' = [answer EXCEPT ![c] = a] /\ opening' = [opening EXCEPT ![c] = None] /\ o # None
    BY <1>6 DEF Serve, Finish
  <2>3. Begun(o) /\ Made(o.link) /\ o.link \in links
    BY <2>2 DEF IInv, Begun
  <2>4. ASSUME found  PROVE Answered(a)
    <3>1. a.status = 200 /\ a.user = o.user /\ a.link = o.link /\ a.at = o.at /\ ~ a.panic
          /\ a.body = Export(o.link.Format, Table[r])
      BY <2>4
    <3>2. o.user.role = "admin" \/ o.user.id = Owner[r]
      BY <2>4 DEF Readable, CanRead
    <3>3. Given(a)
      BY <2>3, <3>1, <3>2 DEF Given, Begun, Made
    <3> QED
      BY <2>3, <3>1, <3>3 DEF Answered
  <2>5. ASSUME ~ found  PROVE Answered(a)
    <3>1. a.status = 404 /\ a.user = o.user /\ a.link = o.link
      BY <2>5
    <3>2. r \in rows => o.user.role # "admin" /\ o.user.id # Owner[r]
      BY <2>5 DEF Readable, CanRead
    <3>3. o.user.id = o.link.for.id /\ (o.link.for.role = "admin" \/ o.link.for.id = Owner[r])
      BY <2>3 DEF Begun, Made, CanRead
    <3>4. Loss(a)
      BY <3>1, <3>2, <3>3 DEF Loss
    <3> QED
      BY <2>3, <3>1, <3>4 DEF Answered, Denied
  <2>6. Answered(a)
    BY <2>4, <2>5
  <2>7. /\ answer' = [d \in Caller |-> answer'[d]]
        /\ \A d \in Caller : answer'[d] # None => Answered(answer[d])'
    <3> HIDE DEF a
    <3>1. rows' = rows /\ links' = links
      BY <2>1
    <3> QED
      BY <2>2, <2>6, <3>1, AnswerKeeps
  <2>8. /\ opening' = [d \in Caller |-> opening'[d]]
        /\ \A d \in Caller : opening'[d] # None => Begun(opening[d])'
    <3>1. opening'[c] = None /\ \A d \in Caller \ {c} : opening'[d] = opening[d]
      BY <2>2 DEF IInv
    <3> QED
      BY <3>1, <2>1, <2>2 DEF IInv, Begun
  <2> QED
    BY <2>1, <2>7, <2>8 DEF IInv
<1>7. ASSUME NEW c \in Caller, ServeFails(c)  PROVE IInv'
  <2> DEFINE o == opening[c]
             a == [status |-> 500, user |-> o.user, bearer |-> o.bearer, link |-> o.link,
                   at |-> o.at, body |-> <<>>, panic |-> FALSE]
  <2>1. UNCHANGED <<now, rows, session, links>> /\ \A k \in links : Made(k)'
    BY <1>7 DEF ServeFails, IInv, Made
  <2>2. answer' = [answer EXCEPT ![c] = a] /\ opening' = [opening EXCEPT ![c] = None] /\ o # None
    BY <1>7 DEF ServeFails, Finish
  <2>3. Answered(a)
    BY <2>2 DEF IInv, Begun, Answered
  <2>4. /\ answer' = [d \in Caller |-> answer'[d]]
        /\ \A d \in Caller : answer'[d] # None => Answered(answer[d])'
    <3> HIDE DEF a
    <3>1. rows' = rows /\ links' = links
      BY <2>1
    <3> QED
      BY <2>2, <2>3, <3>1, AnswerKeeps
  <2>5. /\ opening' = [d \in Caller |-> opening'[d]]
        /\ \A d \in Caller : opening'[d] # None => Begun(opening[d])'
    <3>1. opening'[c] = None /\ \A d \in Caller \ {c} : opening'[d] = opening[d]
      BY <2>2 DEF IInv
    <3> QED
      BY <3>1, <2>1, <2>2 DEF IInv, Begun
  <2> QED
    BY <2>1, <2>4, <2>5 DEF IInv
<1>8. CASE UNCHANGED vars
  BY <1>8, AnswersStay DEF vars, IInv, Made
<1> QED
  BY <1>1, <1>2, <1>3, <1>4, <1>5, <1>6, <1>7, <1>8 DEF Next

\* The invariant holds in every behaviour.
LEMMA Invariance == Spec => []IInv
BY IInvInit, IInvNext, PTL DEF Spec

\* The variables have their types.
THEOREM TypeCorrect == Spec => []TypeOK
<1>1. IInv => TypeOK
  BY DEF IInv, TypeOK, Begun, Answered
<1> QED
  BY <1>1, Invariance, PTL

\* The file of a link goes only to the user it names, who may then read the
\* result: for all roles that change and all browsers a link may get into.
THEOREM OnlyReadersServed == Spec => []ServedIsReadable
<1>1. IInv => ServedIsReadable
  <2> SUFFICES ASSUME IInv, NEW c \in Caller, Served(c)  PROVE Given(answer[c])
    BY DEF ServedIsReadable, Given
  <2>1. answer[c] # None
    BY DEF Served, None
  <2> QED
    BY <2>1 DEF IInv, Answered, Served
<1> QED
  BY <1>1, Invariance, PTL

\* A link serves for less than four seconds and the difference of the clocks,
\* whatever the clocks and however fine the time.
THEOREM LinksEnd == Spec => []OverInTime
<1>1. IInv => OverInTime
  <2> SUFFICES ASSUME IInv, NEW c \in Caller, Served(c)  PROVE Given(answer[c])
    BY DEF OverInTime, Given
  <2>1. answer[c] # None
    BY DEF Served, None
  <2> QED
    BY <2>1 DEF IInv, Answered, Served
<1> QED
  BY <1>1, Invariance, PTL

\* A user who opens an own link within three seconds, less the difference of the
\* clocks, is refused only for a token the provider does not accept, or when the
\* result is gone or a role has been lost.
THEOREM RefusalsAreFounded == Spec => []RefusalHasCause
<1>1. IInv => RefusalHasCause
  <2> SUFFICES ASSUME IInv, NEW c \in Caller, Refused(c)  PROVE Denied(answer[c])
    BY DEF RefusalHasCause, Denied, Loss
  <2>1. answer[c] # None
    BY DEF Refused, None
  <2> QED
    BY <2>1 DEF IInv, Answered, Refused
<1> QED
  BY <1>1, Invariance, PTL

\* The handler panics only over a result that has gone, or whose reader has
\* lost the role, since the link was made.
THEOREM PanicsAreLosses == Spec => []PanicNeedsALoss
<1>1. IInv => PanicNeedsALoss
  BY DEF IInv, PanicNeedsALoss, Answered, Loss
<1> QED
  BY <1>1, Invariance, PTL

-----------------------------------------------------------------------------
(* What is in the file *)

\* A CSV has the headers first, then the rows.
LEMMA CSVHolds ==
  ASSUME NEW t, t.headers \in Seq(STRING), t.rows \in Seq(Seq(STRING)),
         NEW k \in DOMAIN t.rows
  PROVE  marshalQueryResultsCSV(t)[1] = t.headers /\ marshalQueryResultsCSV(t)[k + 1] = t.rows[k]
<1> DEFINE first == <<t.headers>>
<1>1. first \in Seq(Seq(STRING)) /\ Len(first) = 1 /\ first[1] = t.headers
  OBVIOUS
<1>2. Len(t.rows) \in Nat /\ k \in 1..Len(t.rows)
  OBVIOUS
<1> QED
  BY <1>1, <1>2 DEF marshalQueryResultsCSV

\* So does one of a table without rows.
LEMMA CSVBegins ==
  ASSUME NEW t, t.headers \in Seq(STRING), t.rows \in Seq(Seq(STRING))
  PROVE  marshalQueryResultsCSV(t)[1] = t.headers
<1>1. <<t.headers>> \in Seq(Seq(STRING)) /\ Len(<<t.headers>>) = 1 /\ <<t.headers>>[1] = t.headers
  OBVIOUS
<1> QED
  BY <1>1 DEF marshalQueryResultsCSV

\* A JSON has an object for each row, with every cell whose column shares its
\* name with no other.
LEMMA JSONHolds ==
  ASSUME NEW t, t.headers \in Seq(STRING), t.rows \in Seq(Seq(STRING))
  PROVE  LET b == marshalQueryResultsJSON(t) IN
         /\ DOMAIN b = DOMAIN t.rows
         /\ Distinct(t) => \A k \in DOMAIN t.rows, l \in Cols(t) : b[k][t.headers[l]] = t.rows[k][l]
<1> DEFINE b == marshalQueryResultsJSON(t)
<1>1. DOMAIN b = DOMAIN t.rows
  BY DEF marshalQueryResultsJSON
<1>2. ASSUME Distinct(t), NEW k \in DOMAIN t.rows, NEW l \in Cols(t)
      PROVE  b[k][t.headers[l]] = t.rows[k][l]
  <2>1. b[k][t.headers[l]] = Cell(t, t.rows[k], t.headers[l])
    BY DEF marshalQueryResultsJSON
  <2>2. \A c \in Cols(t) :
          t.headers[c] = t.headers[l] /\ (\A j \in Cols(t) : t.headers[j] = t.headers[l] => j <= c)
            <=> c = l
    BY <1>2 DEF Distinct, Cols
  <2>3. Cell(t, t.rows[k], t.headers[l]) = t.rows[k][l]
    BY <2>2 DEF Cell
  <2> QED
    BY <2>1, <2>3
<1> QED
  BY <1>1, <1>2

\* The file that is served holds the table, for all tables: in a CSV every cell,
\* in a JSON those whose column has a name of its own.
THEOREM FilesAreTheTable == Spec => []FileHoldsTable
<1>1. IInv => FileHoldsTable
  <2> SUFFICES ASSUME IInv, NEW c \in Caller, Served(c)
               PROVE  LET a == answer[c]
                          t == Table[a.link.QueryResultID] IN
                      IF a.link.Format = "csv"
                        THEN a.body[1] = t.headers /\ \A k \in DOMAIN t.rows : a.body[k + 1] = t.rows[k]
                        ELSE /\ DOMAIN a.body = DOMAIN t.rows
                             /\ Distinct(t) => \A k \in DOMAIN t.rows, l \in Cols(t) :
                                                 a.body[k][t.headers[l]] = t.rows[k][l]
    BY DEF FileHoldsTable
  <2> DEFINE a == answer[c]
             t == Table[a.link.QueryResultID]
  <2>1. a # None
    BY DEF Served, None
  <2>2. Given(a) /\ a.link \in Link
    BY <2>1 DEF IInv, Answered, Given, Served
  <2>3. t.headers \in Seq(STRING) /\ t.rows \in Seq(Seq(STRING))
    BY <2>2, TableAssumption DEF Link
  <2>4. CASE a.link.Format = "csv"
    <3>1. a.body = marshalQueryResultsCSV(t)
      BY <2>2, <2>4 DEF Given, Export
    <3> QED
      BY <3>1, <2>3, <2>4, CSVHolds, CSVBegins
  <2>5. CASE a.link.Format # "csv"
    <3>1. a.body = marshalQueryResultsJSON(t)
      BY <2>2, <2>5 DEF Given, Export, Link, Formats
    <3> QED
      <4> HIDE DEF a, t
      <4>1. DOMAIN marshalQueryResultsJSON(t) = DOMAIN t.rows
        BY <2>3, JSONHolds
      <4>2. Distinct(t) => \A k \in DOMAIN t.rows, l \in Cols(t) :
                            marshalQueryResultsJSON(t)[k][t.headers[l]] = t.rows[k][l]
        BY <2>3, JSONHolds
      <4> QED
        BY <3>1, <4>1, <4>2, <2>5 DEF a, t
  <2> QED
    BY <2>4, <2>5
<1> QED
  BY <1>1, Invariance, PTL
=============================================================================
