------------------------------- MODULE Session -------------------------------
(***************************************************************************)
(* The login of a browser whose tabs share one cookie jar and one          *)
(* localStorage: /auth, the identity provider, /auth/callback, the landing *)
(* on /ui with the access token, API calls that carry it, and /logout.     *)
(*                                                                         *)
(* The whole session is in the cookie: a handler reads the cookie its      *)
(* request came with and answers with a new one, which takes the place of  *)
(* whatever the browser has by then.                                       *)
(***************************************************************************)
EXTENDS Integers, FiniteSets

CONSTANTS
  Tab,
  User,            \* accounts at the identity provider
  State,           \* values of the state parameter
  Lives,           \* for how many ticks an access token may be good
  StateAge,        \* seconds the cookie of /auth lives (300 in the code)
  TicksPerSecond,
  MaxTime,         \* bound of the time, in ticks
  MaxVisits,       \* bound: how often a user opens a page or logs out
  NoState, NoUser, NoToken

ASSUME SessionAssumption ==
  /\ Lives \subseteq Nat \ {0} /\ StateAge \in Nat \ {0} /\ TicksPerSecond \in Nat \ {0}
  /\ MaxTime \in Nat /\ MaxVisits \in Nat
  /\ NoState \notin State /\ NoUser \notin User

\* A new UUID is always to be had, whatever the cookie, the tabs and the
\* requests on their way hold.
ASSUME FreshAssumption ==
  \A j \in State \cup {NoState}, f, g \in [Tab -> State \cup {NoState}] :
    \E s \in State \ {j} : \A t \in Tab : s \notin {f[t], g[t]}

\* A cookie without a Max-Age goes when the browser is closed.
BrowserSession == MaxTime + TicksPerSecond * StateAge + 1

Ticks == 0..BrowserSession

\* An access token, good until its end.
Token == [user : User, ends : Nat]
ASSUME TokenAssumption == NoToken \notin Token

\* What the cookie holds, and when the browser drops it.  For the properties:
\* when the user was put in, and when the token of that login ends.
Cookie == [state : State \cup {NoState}, user : User \cup {NoUser},
           from : Nat, tokenEnds : Nat, ends : Nat]
NoCookie == [state |-> NoState, user |-> NoUser, from |-> 0, tokenEnds |-> 0,
             ends |-> BrowserSession]

VARIABLES
  now,
  jar,      \* the cookie of the gateway
  stored,   \* the access token in localStorage
  place,    \* where each tab is
  calls,    \* API calls in flight: the tab and the token each carries
  crossed,  \* tabs under whose login another answer has set the cookie
  overlap,  \* two logins were under way at once, or one was left half done
  visits

vars == <<now, jar, stored, place, calls, crossed, overlap, visits>>

\* "idp" is the identity provider's page; "auth" and "callback" are requests
\* in flight, with the cookie they carry; "mounted" is the page before its
\* first call is answered; "error" is the answer of a refused callback.
Where(p) == [at |-> p]
Closed == Where("closed")
Auth(cookie) == [at |-> "auth", cookie |-> cookie]
Landing(token) == [at |-> "landing", token |-> token]
Alive(t) == place[t].at \in {"mounted", "page", "auth"}

Goto(t, p) == place' = [place EXCEPT ![t] = p]

\* A page that is left takes its calls along.
Unload(t) == calls' = {c \in calls : c.tab # t}

InLogin(t) == place[t].at \in {"auth", "idp", "callback", "landing"}

\* The cookie of an answer for tab t; it crosses the logins of the others.
SetCookie(t, cookie) ==
  /\ jar' = cookie
  /\ crossed' = (crossed \ {t}) \cup {x \in Tab \ {t} : place[x].at \in {"idp", "landing"}}
  /\ overlap' = (overlap \/ \E x \in Tab \ {t} : InLogin(x))

Init ==
  /\ now = 0
  /\ jar = NoCookie
  /\ stored = NoToken
  /\ place = [t \in Tab |-> Closed]
  /\ calls = {}
  /\ crossed = {}
  /\ overlap = FALSE
  /\ visits = 0

-----------------------------------------------------------------------------
(* The browser *)

\* The middleware of /ui: without a user in the cookie the way leads to /auth.
Enter(t) == Goto(t, IF jar.user = NoUser THEN Auth(jar) ELSE Where("mounted"))

\* The user opens /ui, anew, or back from another page.
Visit(t) ==
  /\ visits < MaxVisits
  /\ visits' = visits + 1
  /\ Enter(t) /\ Unload(t)
  /\ overlap' = (overlap \/ place[t].at = "landing")
  /\ UNCHANGED <<now, jar, stored, crossed>>

\* A browser that never starts the login of a page that has no token.
Call_NoAuthFlow(t) ==
  /\ place[t].at \in {"mounted", "page"}
  /\ ~ \E c \in calls : c.tab = t
  /\ calls' = IF stored = NoToken THEN calls ELSE calls \cup {[tab |-> t, token |-> stored]}
  /\ UNCHANGED <<now, jar, stored, place, crossed, overlap, visits>>

\* withAuthorizedRequest, up to the await: a page that has mounted loads the
\* profile, a page that is there calls for whatever the user does.
Call(t) ==
  /\ place[t].at \in {"mounted", "page"}
  /\ ~ \E c \in calls : c.tab = t
  /\ IF stored = NoToken
       THEN Goto(t, Auth(jar)) /\ UNCHANGED calls
       ELSE calls' = calls \cup {[tab |-> t, token |-> stored]} /\ UNCHANGED place
  /\ UNCHANGED <<now, jar, stored, crossed, overlap, visits>>

\* A token that is refused a tick before its end.
Good_Early(token) == token.ends > now + 1

\* AuthByAccessToken refuses a token from its end on.
Good(token) == token.ends > now

\* The status of a call; one without a token is not made.
withAPIBearerAuth(token) == IF Good(token) THEN 200 ELSE 401

\* The answer of a call.  After a 401 the token that is stored by now goes,
\* and the tab leaves for /auth.
Answer(c) ==
  /\ Alive(c.tab)
  /\ calls' = calls \ {c}
  /\ IF withAPIBearerAuth(c.token) = 200
       THEN /\ Goto(c.tab, IF place[c.tab].at = "mounted" THEN Where("page") ELSE place[c.tab])
            /\ UNCHANGED stored
       ELSE stored' = NoToken /\ Goto(c.tab, Auth(jar))
  /\ UNCHANGED <<now, jar, crossed, overlap, visits>>

\* A token does not take the place of one that is there.
Taken_Old(token) == IF stored = NoToken THEN token ELSE stored

\* What consumeTokenFromURL leaves in localStorage.
Taken(token) == token

\* The redirect of the callback opens /ui with the token in its fragment.
\* Only a page that is let in stores it.
Land(t) ==
  /\ place[t].at = "landing"
  /\ Enter(t)
  /\ stored' = IF jar.user = NoUser THEN stored ELSE Taken(place[t].token)
  /\ UNCHANGED <<now, jar, calls, crossed, overlap, visits>>

-----------------------------------------------------------------------------
(* The gateway *)

\* InitOIDC makes a new UUID: a state that nothing in the browser holds.
FreshState == CHOOSE s \in State :
  /\ s # jar.state
  /\ \A t \in Tab :
       /\ place[t].at \in {"idp", "callback"} => place[t].state # s
       /\ place[t].at \in {"auth", "callback"} => place[t].cookie.state # s

\* A state's life in the wrong unit.
AuthCookie_Unit(cookie, s) == [cookie EXCEPT !.state = s, !.ends = now + StateAge]

\* getAuth keeps what the cookie has and gives all of it five minutes.
AuthCookie(cookie, s) ==
  [cookie EXCEPT !.state = s, !.ends = now + StateAge * TicksPerSecond]

getAuth(t) ==
  /\ place[t].at = "auth"
  /\ SetCookie(t, AuthCookie(place[t].cookie, FreshState))
  /\ Goto(t, [at |-> "idp", state |-> FreshState, since |-> now])
  /\ Unload(t)
  /\ UNCHANGED <<now, stored, visits>>

\* The browser is sent back with a code for the user who signed in.
SignIn(t) ==
  /\ place[t].at = "idp"
  /\ \E u \in User :
       Goto(t, [at |-> "callback", state |-> place[t].state, user |-> u, cookie |-> jar,
                late |-> now >= place[t].since + StateAge * TicksPerSecond])
  /\ UNCHANGED <<now, jar, stored, calls, crossed, overlap, visits>>

\* The life of a cookie that is rounded up.
MaxAge_Up(life) == (life + TicksPerSecond - 1) \div TicksPerSecond

\* int(time.Until(expiry).Seconds()), in seconds
MaxAge(life) == life \div TicksPerSecond

\* When the browser drops a cookie: a MaxAge of 0 is no Max-Age at all.
EndsAfter(seconds) ==
  IF seconds = 0 THEN BrowserSession ELSE now + seconds * TicksPerSecond

StateAccepted(p) == p.cookie.state # NoState /\ p.cookie.state = p.state

\* What CompleteOIDC makes of a callback: the state must be the cookie's, the
\* identity provider may fail, or the user have no mail or role; otherwise
\* there is a token for the user.
CompleteOIDC(p) ==
  IF StateAccepted(p)
    THEN {[err |-> "idp"]} \cup
         {[err |-> "none", user |-> p.user, ends |-> now + life] : life \in Lives}
    ELSE {[err |-> "state"]}

\* An error ends in a page of its own and sets no cookie.
getAuthCallback(t) ==
  /\ place[t].at = "callback"
  /\ \E r \in CompleteOIDC(place[t]) :
       \/ /\ r.err # "none"
          /\ Goto(t, [at |-> "error", why |-> r.err, late |-> place[t].late])
          /\ UNCHANGED <<jar, crossed, overlap>>
       \/ /\ r.err = "none"
          /\ SetCookie(t, [state |-> NoState, user |-> r.user, from |-> now, tokenEnds |-> r.ends,
                           ends |-> EndsAfter(MaxAge(r.ends - now))])
          /\ Goto(t, Landing([user |-> r.user, ends |-> r.ends]))
  /\ UNCHANGED <<now, stored, calls, visits>>

\* The link "Sign out": the cookie goes, and the way leads over the identity
\* provider's logout, when it has one, back to /auth.
logout(t) ==
  /\ place[t].at \in {"mounted", "page"} /\ visits < MaxVisits
  /\ visits' = visits + 1
  /\ SetCookie(t, NoCookie)
  /\ Goto(t, Where("out")) /\ Unload(t)
  /\ UNCHANGED <<now, stored>>

Return(t) ==
  /\ place[t].at = "out"
  /\ Goto(t, Auth(jar))
  /\ UNCHANGED <<now, jar, stored, calls, crossed, overlap, visits>>

Tick ==
  /\ now < MaxTime
  /\ now' = now + 1
  /\ jar' = IF jar.ends <= now + 1 THEN NoCookie ELSE jar
  /\ UNCHANGED <<stored, place, calls, crossed, overlap, visits>>

Next ==
  \/ \E t \in Tab : \/ Visit(t) \/ Call(t) \/ Land(t) \/ SignIn(t) \/ Return(t)
                    \/ getAuth(t) \/ getAuthCallback(t) \/ logout(t)
  \/ \E c \in calls : Answer(c)
  \/ Tick

Spec == Init /\ [][Next]_vars

\* Requests are answered, pages go on by themselves, and a user who is asked
\* to sign in does.
Mounts(t) == place[t].at = "mounted" /\ Call(t)
Answers(t) == \E c \in calls : c.tab = t /\ Answer(c)

FairSpec ==
  Spec /\ \A t \in Tab :
    /\ WF_vars(Mounts(t)) /\ WF_vars(Answers(t)) /\ WF_vars(Land(t)) /\ WF_vars(Return(t))
    /\ WF_vars(getAuth(t)) /\ WF_vars(SignIn(t)) /\ WF_vars(getAuthCallback(t))

-----------------------------------------------------------------------------
(* Properties *)

\* Every variable has the type the code gives it.
TypeOK ==
  /\ now \in 0..MaxTime
  /\ jar \in Cookie /\ jar.ends > now
  /\ stored \in Token \cup {NoToken}
  /\ \A t \in Tab :
       /\ place[t].at \in {"closed", "out", "mounted", "page", "auth", "idp", "callback", "landing", "error"}
       /\ place[t].at \in {"auth", "callback"} => place[t].cookie \in Cookie
       /\ place[t].at \in {"idp", "callback"} => place[t].state \in State
       /\ place[t].at = "landing" => place[t].token \in Token
  /\ \A c \in calls : c.tab \in Tab /\ c.token \in Token
  /\ crossed \subseteq Tab /\ overlap \in BOOLEAN /\ visits \in 0..MaxVisits

\* A login that the user finishes within five minutes, and that no answer to
\* another tab has crossed, is not refused for its state.
RefusedHasCause ==
  \A t \in Tab : place[t].at = "error" /\ place[t].why = "state"
    => place[t].late \/ t \in crossed

\* The cookie and the stored token are of one user when no login is under
\* way, if there was never more than one at a time and each has landed.
OneUser ==
  /\ \A t \in Tab : ~ InLogin(t)
  /\ ~ overlap
  /\ jar.user # NoUser /\ stored # NoToken
  => jar.user = stored.user

\* A token that is good goes from the store only for that of another login,
\* or when a call that was sent with an older one is refused after it came.
GoodTokenStays ==
  [][stored # NoToken /\ stored.ends > now /\ stored' # stored =>
       \/ \E t \in Tab : place[t].at = "landing" /\ stored' = place[t].token
       \/ \E c \in calls \ calls' : c.token # stored /\ c.token.ends <= now]_vars

\* A session outlives the token of its login only after an /auth, by which
\* it lasts five minutes from then, or when the token had less than a second
\* left at the login.
CookieEnds ==
  jar.user # NoUser =>
    \/ jar.ends <= jar.tokenEnds
    \/ jar.ends = BrowserSession /\ jar.tokenEnds < jar.from + TicksPerSecond
    \/ jar.state # NoState /\ jar.ends <= now + StateAge * TicksPerSecond

\* A tab that is opened gets in or is shown an error, unless an answer to
\* another tab crosses its login: also when the token ends on the way, or
\* is cleared by another tab.
GetsIn ==
  \A t \in Tab : place[t].at # "closed" ~> place[t].at \in {"page", "error"} \/ t \in crossed
=============================================================================
