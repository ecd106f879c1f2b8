------------------------------ MODULE ExportLink ------------------------------
(***************************************************************************)
(* Export links of stored results: query-results.export-link.v1 signs one  *)
(* for a format and three seconds, and the download under it is served to  *)
(* the user it names.                                                      *)
(*                                                                         *)
(* The link is asked for with a bearer token and opened with whatever the  *)
(* caller has: a bearer token, which the identity provider may refuse, or  *)
(* the session cookie of the browser.  The two may be of different logins. *)
(* Gateway instances share the secret and the storage, not the clock.      *)
(***************************************************************************)
EXTENDS Integers, Sequences, FiniteSets

CONSTANTS
  Caller,        \* those who open links; each has a browser of its own
  UserID,
  User,          \* what a login may make of somebody: an id with a role
  Result,        \* ids of query_results
  Owner,         \* the user who ran the query of a result
  Table,         \* result -> [headers, rows]: its stored payload
  Instance,      \* gateway processes
  Ahead,         \* how many seconds an instance's clock is ahead of the time
  MaxSkew,       \* the clocks of two instances differ by at most this
  TicksPerSecond,
  MaxSecond,     \* bound of the time
  MaxLinks,      \* bound: how many links are made
  NoUser, NoLink,
  NoBearer,      \* a request without a bearer token
  BadBearer      \* a token that AuthByAccessToken returns an error for

Requested == {"json", "csv", "xml"}

ASSUME ClockAssumption ==
  /\ Ahead \in [Instance -> Int] /\ MaxSkew \in Nat
  /\ \A i, j \in Instance : Ahead[i] - Ahead[j] <= MaxSkew
  /\ TicksPerSecond \in Nat \ {0} /\ MaxSecond \in Nat

ASSUME DataAssumption ==
  /\ Owner \in [Result -> UserID] /\ MaxLinks \in Nat
  /\ User \subseteq [id : UserID, role : {"admin", "user"}] /\ NoUser \notin User
  /\ NoBearer \notin User /\ BadBearer \notin User /\ NoBearer # BadBearer

\* Headers and cells are strings.
ASSUME TableAssumption ==
  \A r \in Result : Table[r].headers \in Seq(STRING) /\ Table[r].rows \in Seq(Seq(STRING))

VARIABLES
  now,       \* the time: seconds, and ticks within the second
  rows,      \* the results that are stored
  session,   \* the user in the cookie of each caller's browser
  links,     \* the links made so far
  opening,   \* the download each caller has begun
  answer     \* the answer to the last download of each caller

vars == <<now, rows, session, links, opening, answer>>

Time == [s : Nat, t : 0..(TicksPerSecond - 1)]
Later(a, n) == [s |-> a.s + n, t |-> a.t]
Before(a, b) == a.s < b.s \/ (a.s = b.s /\ a.t < b.t)

\* time.Now().Unix() at an instance
Unix(i) == now.s + Ahead[i]

Formats == {"json", "csv"}

Bearer == User \cup {NoBearer, BadBearer}

\* What a token says, and for the properties when and for whom it was made.
Link == [UserID : UserID, QueryResultID : Result, Format : Formats, ExpiresAt : Int,
         for : User, at : Time]

None == [status |-> 0]

Init ==
  /\ now = [s |-> 0, t |-> 0]
  /\ rows = Result
  /\ session = [c \in Caller |-> NoUser]
  /\ links = {}
  /\ opening = [c \in Caller |-> None]
  /\ answer = [c \in Caller |-> None]

-----------------------------------------------------------------------------
(* Reading a result *)

\* A result everybody may read.
CanRead_Anyone(u, owner) == TRUE

CanRead(u, owner) == u.role = "admin" \/ u.id = owner

\* GetQueryResults tells a result of others and one that is gone alike.
Readable(u, r) == r \in rows /\ CanRead(u, Owner[r])

-----------------------------------------------------------------------------
(* What is written for a table *)

Cols(t) == 1..Len(t.headers)

\* A cell of the first column of its name.
Cell_First(t, row, h) ==
  row[CHOOSE k \in Cols(t) : t.headers[k] = h /\ \A j \in Cols(t) : t.headers[j] = h => k <= j]

\* A row becomes a map from header to cell, filled from left to right.
Cell(t, row, h) ==
  row[CHOOSE k \in Cols(t) : t.headers[k] = h /\ \A j \in Cols(t) : t.headers[j] = h => j <= k]

marshalQueryResultsJSON(t) ==
  [k \in DOMAIN t.rows |-> [h \in {t.headers[c] : c \in Cols(t)} |-> Cell(t, t.rows[k], h)]]

\* A CSV without its header line.
marshalQueryResultsCSV_NoHeader(t) == t.rows

marshalQueryResultsCSV(t) == <<t.headers>> \o t.rows

Export(format, t) ==
  IF format = "json" THEN marshalQueryResultsJSON(t) ELSE marshalQueryResultsCSV(t)

-----------------------------------------------------------------------------
(* Actions *)

Tick ==
  /\ now.s < MaxSecond
  /\ now' = IF now.t + 1 < TicksPerSecond
              THEN [now EXCEPT !.t = @ + 1]
              ELSE [s |-> now.s + 1, t |-> 0]
  /\ UNCHANGED <<rows, session, links, opening, answer>>

\* A newer instance brings its schema: migration 4 empties query_results.
Truncate ==
  /\ rows' = {}
  /\ UNCHANGED <<now, session, links, opening, answer>>

\* The callback of a login, the end of the cookie, or a logout.
SessionChanges(c) ==
  /\ \E u \in User \cup {NoUser} : session' = [session EXCEPT ![c] = u]
  /\ UNCHANGED <<now, rows, links, opening, answer>>

\* Any format.
isSupportedExportFormat_Any(format) == TRUE

isSupportedExportFormat(format) == format \in Formats

\* The seconds added to the time for the end of a link.
Lifetime == 3

\* query-results.export-link.v1 at instance i, with a token of user u; a
\* refused call changes nothing.
ExportLink(i, u, r, format) ==
  /\ Cardinality(links) < MaxLinks
  /\ isSupportedExportFormat(format)
  /\ Readable(u, r)
  /\ links' = links \cup
       {[UserID |-> u.id, QueryResultID |-> r, Format |-> format,
         ExpiresAt |-> Unix(i) + Lifetime, for |-> u, at |-> now]}
  /\ UNCHANGED <<now, rows, session, opening, answer>>

\* A check that takes a link for expired in its last second.
Expired_Early(i, link) == Unix(i) >= link.ExpiresAt

\* A check that grants a second more.
Expired_Late(i, link) == Unix(i) > link.ExpiresAt + 1

Expired(i, link) == Unix(i) > link.ExpiresAt

\* A check that does not look for whom the link was made.
Accepts_AnyUser(i, u, link) == link # NoLink /\ ~ Expired(i, link)

\* parseQueryResultsExportToken (a token that no instance signed, or a part
\* of one, is NoLink) and the comparison with the claimed user.
Accepts(i, u, link) == link # NoLink /\ ~ Expired(i, link) /\ link.UserID = u.id

\* A bearer token goes before the cookie, and one that is refused is not made
\* up for by the cookie.
currentExportUser(c, bearer) ==
  CASE bearer = NoBearer -> session[c]
    [] bearer = BadBearer -> NoUser
    [] OTHER -> bearer

\* A download as it stands: who asks, with which token, for which link, since when.
Download(u, bearer, link) == [status |-> 1, user |-> u, bearer |-> bearer, link |-> link, at |-> now]

Finish(c, download, status, body, panic) ==
  answer' = [answer EXCEPT ![c] =
    [status |-> status, user |-> download.user, bearer |-> download.bearer,
     link |-> download.link, at |-> download.at, body |-> body, panic |-> panic]]

\* The first half of downloadQueryResultsExport: who asks, and whether the
\* link is good.
Open(c, i, bearer, link) ==
  LET u == currentExportUser(c, bearer)
      download == Download(u, bearer, link) IN
  /\ opening[c] = None
  /\ IF u # NoUser /\ Accepts(i, u, link)
       THEN /\ opening' = [opening EXCEPT ![c] = download]
            /\ answer' = [answer EXCEPT ![c] = None]
       ELSE /\ Finish(c, download, IF u = NoUser THEN 401 ELSE 404, <<>>, FALSE)
            /\ UNCHANGED opening
  /\ UNCHANGED <<now, rows, session, links>>

\* The second half: the result is read and written.  When it cannot be read,
\* lookupQueryResultsExport answers 404 and returns neither a result nor an
\* error, so serveExport goes on with no result and panics.
Serve(c) ==
  LET o == opening[c]
      r == o.link.QueryResultID IN
  /\ o # None
  /\ IF Readable(o.user, r) THEN Finish(c, o, 200, Export(o.link.Format, Table[r]), FALSE)
                            ELSE Finish(c, o, 404, <<>>, TRUE)
  /\ opening' = [opening EXCEPT ![c] = None]
  /\ UNCHANGED <<now, rows, session, links>>

\* Any other error of the lookup is returned: nothing of the result is written.
ServeFails(c) ==
  /\ opening[c] # None
  /\ Finish(c, opening[c], 500, <<>>, FALSE)
  /\ opening' = [opening EXCEPT ![c] = None]
  /\ UNCHANGED <<now, rows, session, links>>

Next ==
  \/ Tick
  \/ Truncate
  \/ \E c \in Caller : SessionChanges(c)
  \/ \E i \in Instance, u \in User, r \in Result, f \in Requested : ExportLink(i, u, r, f)
  \/ \E c \in Caller, i \in Instance, b \in Bearer, l \in links \cup {NoLink} : Open(c, i, b, l)
  \/ \E c \in Caller : Serve(c) \/ ServeFails(c)

Spec == Init /\ [][Next]_vars

-----------------------------------------------------------------------------
(* Properties *)

\* Every variable has the type the code gives it.
TypeOK ==
  /\ now \in Time
  /\ rows \subseteq Result
  /\ session \in [Caller -> User \cup {NoUser}]
  /\ links \subseteq Link
  /\ \A c \in Caller : opening[c] # None => opening[c].user \in User /\ opening[c].link \in links
  /\ \A c \in Caller : answer[c] # None => answer[c].link \in links \cup {NoLink}

Served(c) == answer[c].status = 200
Refused(c) == answer[c].status \in {401, 404}

\* A file goes only to the user its link names, as somebody who could open
\* the same result on its page: that the link could be had is not enough,
\* and neither is the role of the one who asked for it.
ServedIsReadable ==
  \A c \in Caller : Served(c) =>
    LET a == answer[c] IN
    /\ a.user.id = a.link.for.id
    /\ a.user.role = "admin" \/ a.user.id = Owner[a.link.QueryResultID]

\* A link is over less than four seconds after it was made, to the tick, and
\* as much later as the clocks of two instances are apart.
OverInTime ==
  \A c \in Caller : Served(c) =>
    Before(answer[c].at, Later(answer[c].link.at, 4 + MaxSkew))

\* What may keep somebody from the file of a link: a token that is refused,
\* however good the cookie; neither token nor login; somebody else's link or
\* none at all; three whole seconds that are over (fewer by the clocks'
\* difference); the result is gone, or the role that let the user read it is.
\* No click that is in time is refused for another reason.
RefusalHasCause ==
  \A c \in Caller : Refused(c) =>
    LET a == answer[c] IN
    \/ a.bearer = BadBearer
    \/ a.bearer = NoBearer /\ a.user = NoUser
    \/ a.link = NoLink
    \/ a.user.id # a.link.for.id
    \/ ~ Before(a.at, Later(a.link.at, 3 - MaxSkew))
    \/ a.link.QueryResultID \notin rows
    \/ a.link.for.role = "admin" /\ a.user.role # "admin"

\* The download panics, its answer being written, only when a result that
\* could be read under the link is gone or is no longer the user's to read.
PanicNeedsALoss ==
  \A c \in Caller : answer[c] # None /\ answer[c].panic =>
    LET a == answer[c] IN
    \/ a.link.QueryResultID \notin rows
    \/ a.link.for.role = "admin" /\ a.user.role # "admin"

Distinct(t) == \A k, l \in Cols(t) : t.headers[k] = t.headers[l] => k = l

\* The file holds the table: a CSV every cell under its header, a JSON every
\* cell unless two columns share a name.
FileHoldsTable ==
  \A c \in Caller : Served(c) =>
    LET a == answer[c]
        t == Table[a.link.QueryResultID] IN
    IF a.link.Format = "csv"
      THEN a.body[1] = t.headers /\ \A k \in DOMAIN t.rows : a.body[k + 1] = t.rows[k]
      ELSE /\ DOMAIN a.body = DOMAIN t.rows
           /\ Distinct(t) => \A k \in DOMAIN t.rows, l \in Cols(t) :
                               a.body[k][t.headers[l]] = t.rows[k][l]
=============================================================================
