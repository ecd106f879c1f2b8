----------------------------- MODULE SessionProofs -----------------------------
(***************************************************************************)
(* The cookie, the stored token and the logins of any number of tabs, for  *)
(* every life of a token and every division of the second.                 *)
(***************************************************************************)
EXTENDS Session, TLAPS

-----------------------------------------------------------------------------
(* Where a tab can be, with what it has there. *)

Place ==
  [at : {"closed", "out", "mounted", "page"}]
    \cup [at : {"auth"}, cookie : Cookie]
    \cup [at : {"idp"}, state : State, since : Nat]
    \cup [at : {"callback"}, state : State, user : User, cookie : Cookie, late : BOOLEAN]
    \cup [at : {"landing"}, token : Token]
    \cup [at : {"error"}, why : {"state", "idp"}, late : BOOLEAN]

ApiCall == [tab : Tab, token : Token]

TypeInv ==
  /\ now \in 0..MaxTime
  /\ jar \in Cookie /\ jar.ends > now
  /\ stored \in Token \cup {NoToken}
  /\ place \in [Tab -> Place]
  /\ calls \subseteq ApiCall
  /\ crossed \subseteq Tab /\ overlap \in BOOLEAN /\ visits \in 0..MaxVisits

\* How a login that no other tab has crossed gets its state back: the cookie of
\* its /auth is still there, for its five minutes.
StateInv ==
  \A t \in Tab \ crossed :
    /\ place[t].at = "idp" =>
         \/ now >= place[t].since + StateAge * TicksPerSecond
         \/ jar.state = place[t].state
            /\ jar.ends = place[t].since + StateAge * TicksPerSecond
    /\ place[t].at = "callback" => place[t].late \/ place[t].cookie.state = place[t].state

\* What user u may be, if no two logins were ever under way at once: the one who
\* is about to land, or else the one whose token is stored.
Agrees(u) ==
  /\ \A t \in Tab : place[t].at = "landing" => place[t].token.user = u
  /\ (\A t \in Tab : place[t].at # "landing") /\ stored # NoToken => stored.user = u

\* A tab that is about to ask for a login without a user.
AsksAnew(t) == place[t].at = "auth" /\ place[t].cookie.user = NoUser

\* The copy of a cookie of user u that a request of tab t to /auth has: it is
\* gone while another tab asks for a login, or of the one user.
CopyOf(t, u) ==
  \/ Agrees(u)
  \/ jar.user = NoUser /\ \E x \in Tab \ {t} : AsksAnew(x)

JarAgrees == \A u \in User : jar.user = u => Agrees(u)

Copies ==
  \A t \in Tab, u \in User : place[t].at = "auth" /\ place[t].cookie.user = u => CopyOf(t, u)

OneLands == \A t, x \in Tab : place[t].at = "landing" /\ place[x].at = "landing" => t = x

OneUserInv == ~ overlap => JarAgrees /\ Copies /\ OneLands

IInv == TypeInv /\ StateInv /\ OneUserInv /\ RefusedHasCause /\ CookieEnds
-----------------------------------------------------------------------------
(* Time *)

\* Five minutes are some ticks, and no time is past the browser session.
LEMMA Lifetimes ==
  /\ StateAge * TicksPerSecond \in Nat \ {0}
  /\ BrowserSession \in Nat /\ \A n \in 0..MaxTime : BrowserSession > n
<1>1. \A m, n \in Nat \ {0} : m * n \in Nat \ {0}
  OBVIOUS
<1>2. StateAge * TicksPerSecond \in Nat \ {0} /\ TicksPerSecond * StateAge \in Nat \ {0}
  BY <1>1, SessionAssumption
<1> QED
  BY <1>2, SessionAssumption DEF BrowserSession

\* The cookie of a login does not outlive the token, unless the token has less
\* than a second to live.
LEMMA CookieOfLogin ==
  ASSUME NEW life \in Nat \ {0}, now \in 0..MaxTime
  PROVE  /\ EndsAfter(MaxAge(life)) \in Nat
         /\ EndsAfter(MaxAge(life)) > now
         /\ \/ EndsAfter(MaxAge(life)) <= now + life
            \/ EndsAfter(MaxAge(life)) = BrowserSession /\ life < TicksPerSecond
<1> DEFINE s == life \div TicksPerSecond
<1>1. s \in Nat /\ s * TicksPerSecond <= life /\ life < s * TicksPerSecond + TicksPerSecond
  BY SessionAssumption
<1>2. CASE s = 0
  BY <1>1, <1>2, Lifetimes, SessionAssumption DEF EndsAfter, MaxAge
<1>3. CASE s # 0
  <2> HIDE DEF s
  <2>1. \A m, n \in Nat \ {0} : m * n \in Nat \ {0}
    OBVIOUS
  <2>2. s * TicksPerSecond \in Nat \ {0}
    BY <1>1, <1>3, <2>1, SessionAssumption
  <2>3. EndsAfter(MaxAge(life)) = now + s * TicksPerSecond
    BY <1>3 DEF EndsAfter, MaxAge, s
  <2> QED
    BY <1>1, <2>2, <2>3, SessionAssumption
<1> QED
  BY <1>2, <1>3

\* A state that is fresh is one.
LEMMA FreshStateType ==
  ASSUME TypeInv
  PROVE  FreshState \in State
<1> DEFINE f == [t \in Tab |-> IF place[t].at \in {"idp", "callback"} THEN place[t].state ELSE NoState]
           g == [t \in Tab |-> IF place[t].at \in {"auth", "callback"} THEN place[t].cookie.state
                               ELSE NoState]
<1>1. \A t \in Tab : /\ place[t].at \in {"idp", "callback"} => place[t].state \in State
                     /\ place[t].at \in {"auth", "callback"} =>
                          place[t].cookie.state \in State \cup {NoState}
  BY DEF TypeInv, Place, Cookie
<1>2. f \in [Tab -> State \cup {NoState}] /\ g \in [Tab -> State \cup {NoState}]
  BY <1>1
<1>3. jar.state \in State \cup {NoState}
  BY DEF TypeInv, Cookie
<1>4. PICK s \in State \ {jar.state} : \A t \in Tab : s \notin {f[t], g[t]}
  BY <1>2, <1>3, FreshAssumption
<1>5. /\ s # jar.state
      /\ \A t \in Tab :
           /\ place[t].at \in {"idp", "callback"} => place[t].state # s
           /\ place[t].at \in {"auth", "callback"} => place[t].cookie.state # s
  BY <1>4
<1> QED
  BY <1>5 DEF FreshState

-----------------------------------------------------------------------------
(* The steps keep the types *)

\* What a tab has where it is.
LEMMA PlaceParts ==
  ASSUME TypeInv, NEW t \in Tab
  PROVE  /\ place[t].at = "auth" => place[t].cookie \in Cookie
         /\ place[t].at = "idp" => place[t].state \in State /\ place[t].since \in Nat
         /\ place[t].at = "callback" =>
              /\ place[t].cookie \in Cookie /\ place[t].state \in State
              /\ place[t].user \in User /\ place[t].late \in BOOLEAN
         /\ place[t].at = "landing" => place[t].token \in Token
         /\ place[t].at = "error" => place[t].late \in BOOLEAN
BY DEF TypeInv, Place

\* A tab that goes somewhere goes alone.
LEMMA GotoMoves ==
  ASSUME TypeInv, NEW t \in Tab, NEW p, Goto(t, p)
  PROVE  /\ place'[t] = p /\ \A x \in Tab \ {t} : place'[x] = place[x]
         /\ p \in Place => place' \in [Tab -> Place]
BY DEF TypeInv, Goto

\* The places a step can lead to.
LEMMA Destinations ==
  /\ \A at \in {"closed", "out", "mounted", "page"} : Where(at) \in Place
  /\ \A c \in Cookie : Auth(c) \in Place
  /\ \A k \in Token : Landing(k) \in Place
BY DEF Where, Auth, Landing, Place

LEMMA NoCookieType ==
  /\ NoCookie \in Cookie /\ NoCookie.user = NoUser
  /\ NoCookie.state = NoState /\ NoCookie.ends = BrowserSession
BY Lifetimes DEF NoCookie, Cookie

\* Who goes to /ui goes to a place.
LEMMA EnterMoves ==
  ASSUME TypeInv, NEW t \in Tab, Enter(t)
  PROVE  /\ place' \in [Tab -> Place] /\ \A x \in Tab \ {t} : place'[x] = place[x]
         /\ jar.user = NoUser => place'[t] = Auth(jar)
         /\ jar.user # NoUser => place'[t] = Where("mounted")
BY GotoMoves, Destinations DEF Enter, TypeInv

\* The cookie that /auth answers with.
LEMMA AuthCookieParts ==
  ASSUME TypeInv, NEW c \in Cookie
  PROVE  /\ AuthCookie(c, FreshState) \in Cookie
         /\ AuthCookie(c, FreshState).state = FreshState /\ FreshState # NoState
         /\ AuthCookie(c, FreshState).user = c.user
         /\ AuthCookie(c, FreshState).ends = now + StateAge * TicksPerSecond
         /\ AuthCookie(c, FreshState).ends > now
<1>1. FreshState \in State /\ FreshState # NoState
  BY FreshStateType, SessionAssumption
<1>2. now + StateAge * TicksPerSecond \in Nat /\ now + StateAge * TicksPerSecond > now
  BY Lifetimes DEF TypeInv
<1> QED
  BY <1>1, <1>2 DEF AuthCookie, Cookie

\* The token of a login, and the cookie that comes with it.
LoginCookie(u, ends) ==
  [state |-> NoState, user |-> u, from |-> now, tokenEnds |-> ends,
   ends |-> EndsAfter(MaxAge(ends - now))]

LEMMA LoginCookieParts ==
  ASSUME TypeInv, NEW u \in User, NEW life \in Lives
  PROVE  /\ [user |-> u, ends |-> now + life] \in Token
         /\ LoginCookie(u, now + life) \in Cookie
         /\ LoginCookie(u, now + life).user = u /\ u # NoUser
         /\ LoginCookie(u, now + life).ends > now
         /\ \/ LoginCookie(u, now + life).ends <= now + life
            \/ LoginCookie(u, now + life).ends = BrowserSession /\ life < TicksPerSecond
<1>1. life \in Nat \ {0} /\ now \in Nat /\ now + life \in Nat /\ now + life - now = life
  BY SessionAssumption DEF TypeInv
<1>2. /\ EndsAfter(MaxAge(life)) \in Nat
      /\ EndsAfter(MaxAge(life)) > now
      /\ \/ EndsAfter(MaxAge(life)) <= now + life
         \/ EndsAfter(MaxAge(life)) = BrowserSession /\ life < TicksPerSecond
  BY <1>1, CookieOfLogin DEF TypeInv
<1> QED
  BY <1>1, <1>2, SessionAssumption DEF LoginCookie, Cookie, Token

\* What a callback that goes well does.
LoggedIn(t, life) ==
  /\ SetCookie(t, LoginCookie(place[t].user, now + life))
  /\ Goto(t, Landing([user |-> place[t].user, ends |-> now + life]))

\* A callback ends in an error of one of two kinds, or in a login.
LEMMA CallbackEnds ==
  ASSUME TypeInv, NEW t \in Tab, getAuthCallback(t)
  PROVE  \/ \E why \in {"state", "idp"} :
              /\ why = "state" => ~ StateAccepted(place[t])
              /\ Goto(t, [at |-> "error", why |-> why, late |-> place[t].late])
              /\ UNCHANGED <<jar, crossed, overlap>>
         \/ \E life \in Lives : LoggedIn(t, life)
<1>1. PICK r \in CompleteOIDC(place[t]) :
       \/ /\ r.err # "none"
          /\ Goto(t, [at |-> "error", why |-> r.err, late |-> place[t].late])
          /\ UNCHANGED <<jar, crossed, overlap>>
       \/ /\ r.err = "none"
          /\ SetCookie(t, [state |-> NoState, user |-> r.user, from |-> now, tokenEnds |-> r.ends,
                           ends |-> EndsAfter(MaxAge(r.ends - now))])
          /\ Goto(t, Landing([user |-> r.user, ends |-> r.ends]))
  BY DEF getAuthCallback
<1>2. \/ r.err = "idp"
      \/ r.err = "state" /\ ~ StateAccepted(place[t])
      \/ \E life \in Lives : r = [err |-> "none", user |-> place[t].user, ends |-> now + life]
  BY DEF CompleteOIDC
<1> QED
  BY <1>1, <1>2 DEF LoggedIn, LoginCookie

\* Every step keeps the types.
LEMMA TypeNext == TypeInv /\ [Next]_vars => TypeInv'
<1> SUFFICES ASSUME TypeInv, [Next]_vars  PROVE TypeInv'
  OBVIOUS
<1> USE DEF TypeInv
<1>1. ASSUME NEW t \in Tab, Visit(t)  PROVE TypeInv'
  BY <1>1, EnterMoves, SessionAssumption DEF Visit, Unload
<1>2. ASSUME NEW t \in Tab, Call(t)  PROVE TypeInv'
  <2>1. CASE stored = NoToken
    BY <1>2, <2>1, GotoMoves, Destinations DEF Call
  <2>2. CASE stored # NoToken
    BY <1>2, <2>2 DEF Call, ApiCall
  <2> QED
    BY <2>1, <2>2
<1>3. ASSUME NEW t \in Tab, Land(t)  PROVE TypeInv'
  <2>1. place[t].token \in Token
    BY <1>3, PlaceParts DEF Land
  <2>2. stored' \in Token \cup {NoToken}
    BY <1>3, <2>1 DEF Land, Taken
  <2> QED
    BY <1>3, <2>2, EnterMoves DEF Land
<1>4. ASSUME NEW t \in Tab, SignIn(t)  PROVE TypeInv'
  <2>1. PICK u \in User :
          Goto(t, [at |-> "callback", state |-> place[t].state, user |-> u, cookie |-> jar,
                   late |-> now >= place[t].since + StateAge * TicksPerSecond])
    BY <1>4 DEF SignIn
  <2>2. [at |-> "callback", state |-> place[t].state, user |-> u, cookie |-> jar,
         late |-> now >= place[t].since + StateAge * TicksPerSecond] \in Place
    BY <1>4, PlaceParts DEF SignIn, Place
  <2> QED
    BY <1>4, <2>1, <2>2, GotoMoves DEF SignIn
<1>5. ASSUME NEW t \in Tab, Return(t)  PROVE TypeInv'
  BY <1>5, GotoMoves, Destinations DEF Return
<1>6. ASSUME NEW t \in Tab, getAuth(t)  PROVE TypeInv'
  <2>1. [at |-> "idp", state |-> FreshState, since |-> now] \in Place
    BY FreshStateType DEF Place
  <2>2. place' \in [Tab -> Place]
    BY <1>6, <2>1, GotoMoves DEF getAuth
  <2>3. jar' \in Cookie /\ jar'.ends > now
    BY <1>6, PlaceParts, AuthCookieParts DEF getAuth, SetCookie
  <2>4. crossed' \subseteq Tab /\ overlap' \in BOOLEAN
    BY <1>6 DEF getAuth, SetCookie
  <2> QED
    BY <1>6, <2>2, <2>3, <2>4 DEF getAuth, Unload
<1>7. ASSUME NEW t \in Tab, getAuthCallback(t)  PROVE TypeInv'
  <2>1. UNCHANGED <<now, stored, calls, visits>> /\ place[t].at = "callback"
    BY <1>7 DEF getAuthCallback
  <2>2. ASSUME NEW why \in {"state", "idp"},
               Goto(t, [at |-> "error", why |-> why, late |-> place[t].late]),
               UNCHANGED <<jar, crossed, overlap>>
        PROVE  TypeInv'
    <3>1. [at |-> "error", why |-> why, late |-> place[t].late] \in Place
      BY <2>1, PlaceParts DEF Place
    <3> QED
      BY <2>1, <2>2, <3>1, GotoMoves
  <2>3. ASSUME NEW life \in Lives, LoggedIn(t, life)  PROVE TypeInv'
    <3>1. place[t].user \in User
      BY <2>1, PlaceParts
    <3>2. place' \in [Tab -> Place]
      BY <2>3, <3>1, LoginCookieParts, GotoMoves, Destinations DEF LoggedIn
    <3>3. jar' \in Cookie /\ jar'.ends > now
      BY <2>3, <3>1, LoginCookieParts DEF LoggedIn, SetCookie
    <3>4. crossed' \subseteq Tab /\ overlap' \in BOOLEAN
      BY <2>3 DEF LoggedIn, SetCookie
    <3> QED
      BY <2>1, <3>2, <3>3, <3>4
  <2> QED
    BY <1>7, <2>2, <2>3, CallbackEnds
<1>8. ASSUME NEW t \in Tab, logout(t)  PROVE TypeInv'
  <2>1. place' \in [Tab -> Place]
    BY <1>8, GotoMoves, Destinations DEF logout
  <2>2. jar' \in Cookie /\ jar'.ends > now /\ crossed' \subseteq Tab /\ overlap' \in BOOLEAN
    BY <1>8, NoCookieType, Lifetimes DEF logout, SetCookie
  <2> QED
    BY <1>8, <2>1, <2>2, SessionAssumption DEF logout, Unload
<1>9. ASSUME NEW c \in calls, Answer(c)  PROVE TypeInv'
  <2>1. c \in ApiCall /\ c.tab \in Tab
    BY DEF ApiCall
  <2>2. CASE withAPIBearerAuth(c.token) = 200
    <3>1. Goto(c.tab, IF place[c.tab].at = "mounted" THEN Where("page") ELSE place[c.tab])
      BY <1>9, <2>2 DEF Answer
    <3>2. place' \in [Tab -> Place]
      BY <2>1, <3>1, GotoMoves, Destinations
    <3> QED
      BY <1>9, <2>2, <3>2 DEF Answer
  <2>3. CASE withAPIBearerAuth(c.token) # 200
    <3>1. stored' = NoToken /\ Goto(c.tab, Auth(jar))
      BY <1>9, <2>3 DEF Answer
    <3> QED
      BY <1>9, <2>1, <3>1, GotoMoves, Destinations DEF Answer
  <2> QED
    BY <2>2, <2>3
<1>10. CASE Tick
  <2>1. now' \in 0..MaxTime
    BY <1>10, SessionAssumption DEF Tick
  <2>2. jar' \in Cookie /\ jar'.ends > now'
    BY <1>10, <2>1, NoCookieType, Lifetimes DEF Tick, Cookie
  <2> QED
    BY <1>10, <2>1, <2>2 DEF Tick
<1>11. CASE UNCHANGED vars
  BY <1>11 DEF vars
<1> QED
  BY <1>1, <1>2, <1>3, <1>4, <1>5, <1>6, <1>7, <1>8, <1>9, <1>10, <1>11 DEF Next

-----------------------------------------------------------------------------
(* Why a login is refused *)

\* What StateInv and RefusedHasCause say of one tab.
TabStateInv(t) ==
  /\ place[t].at = "idp" =>
       \/ now >= place[t].since + StateAge * TicksPerSecond
       \/ jar.state = place[t].state
          /\ jar.ends = place[t].since + StateAge * TicksPerSecond
  /\ place[t].at = "callback" => place[t].late \/ place[t].cookie.state = place[t].state
  /\ place[t].at = "error" /\ place[t].why = "state" => place[t].late

LEMMA TabStateInvs == StateInv /\ RefusedHasCause <=> \A t \in Tab \ crossed : TabStateInv(t)
BY DEF StateInv, RefusedHasCause, TabStateInv

\* A tab that stays where it is, while the cookie stays too or the tab does not
\* wait for it.
LEMMA WaitingTab ==
  ASSUME NEW t \in Tab, place'[t] = place[t], now' = now,
         jar' = jar \/ place[t].at # "idp", TabStateInv(t)
  PROVE  TabStateInv(t)'
BY DEF TabStateInv

\* An answer to another tab that sets the cookie either crosses this one's login
\* or does not matter to it.
LEMMA OtherCookie ==
  ASSUME NEW t \in Tab, NEW x \in Tab \ {t}, NEW c, SetCookie(x, c), t \notin crossed'
  PROVE  t \notin crossed /\ place[t].at # "idp"
BY DEF SetCookie

LEMMA StateNext ==
  ASSUME TypeInv, StateInv, RefusedHasCause, [Next]_vars
  PROVE  (StateInv /\ RefusedHasCause)'
<1> SUFFICES ASSUME NEW t \in Tab, t \notin crossed'  PROVE TabStateInv(t)'
  BY TabStateInvs DEF StateInv, RefusedHasCause, TabStateInv
<1>0. t \notin crossed => TabStateInv(t)
  BY TabStateInvs
<1>1. ASSUME NEW x \in Tab, Visit(x)  PROVE TabStateInv(t)'
  <2>1. UNCHANGED <<now, jar, crossed>> /\ Enter(x)
    BY <1>1 DEF Visit
  <2>2. x = t => place'[t].at \in {"auth", "mounted"}
    BY <2>1, EnterMoves DEF Auth, Where
  <2>3. CASE x = t
    BY <2>2, <2>3 DEF TabStateInv
  <2>4. CASE x # t
    BY <1>0, <2>1, <2>4, EnterMoves, WaitingTab
  <2> QED
    BY <2>3, <2>4
<1>2. ASSUME NEW x \in Tab, Call(x)  PROVE TabStateInv(t)'
  <2>1. UNCHANGED <<now, jar, crossed>>
    BY <1>2 DEF Call
  <2>2. place'[t] = place[t] \/ place'[t].at = "auth"
    BY <1>2, GotoMoves DEF Call, Auth
  <2> QED
    BY <1>0, <2>1, <2>2, WaitingTab DEF TabStateInv
<1>3. ASSUME NEW x \in Tab, Land(x)  PROVE TabStateInv(t)'
  <2>1. UNCHANGED <<now, jar, crossed>> /\ Enter(x)
    BY <1>3 DEF Land
  <2>2. place'[t] = place[t] \/ place'[t].at \in {"auth", "mounted"}
    BY <2>1, EnterMoves DEF Auth, Where
  <2> QED
    BY <1>0, <2>1, <2>2, WaitingTab DEF TabStateInv
<1>4. ASSUME NEW x \in Tab, SignIn(x)  PROVE TabStateInv(t)'
  <2>1. UNCHANGED <<now, jar, crossed>> /\ place[x].at = "idp"
    BY <1>4 DEF SignIn
  <2>2. PICK u \in User :
          Goto(x, [at |-> "callback", state |-> place[x].state, user |-> u, cookie |-> jar,
                   late |-> now >= place[x].since + StateAge * TicksPerSecond])
    BY <1>4 DEF SignIn
  <2>3. CASE x = t
    <3>1. place'[t] = [at |-> "callback", state |-> place[t].state, user |-> u, cookie |-> jar,
                       late |-> now >= place[t].since + StateAge * TicksPerSecond]
      BY <2>2, <2>3, GotoMoves
    <3> DEFINE late == now >= place[t].since + StateAge * TicksPerSecond
    <3>2. /\ place'[t].at = "callback" /\ place'[t].cookie = jar
          /\ place'[t].state = place[t].state
          /\ place'[t].late = late
      <4> HIDE DEF late
      <4> QED
        BY <3>1 DEF late
    <3>3. \/ now >= place[t].since + StateAge * TicksPerSecond
          \/ jar.state = place[t].state
      BY <1>0, <2>1, <2>3 DEF TabStateInv
    <3>4. late => place'[t].late
      BY <3>2
    <3> QED
      BY <3>2, <3>3, <3>4 DEF TabStateInv
  <2>4. CASE x # t
    BY <1>0, <2>1, <2>2, <2>4, GotoMoves, WaitingTab
  <2> QED
    BY <2>3, <2>4
<1>5. ASSUME NEW x \in Tab, Return(x)  PROVE TabStateInv(t)'
  <2>1. UNCHANGED <<now, jar, crossed>>
    BY <1>5 DEF Return
  <2>2. place'[t] = place[t] \/ place'[t].at = "auth"
    BY <1>5, GotoMoves DEF Return, Auth
  <2> QED
    BY <1>0, <2>1, <2>2, WaitingTab DEF TabStateInv
<1>6. ASSUME NEW x \in Tab, getAuth(x)  PROVE TabStateInv(t)'
  <2>1. /\ now' = now /\ place[x].at = "auth"
        /\ SetCookie(x, AuthCookie(place[x].cookie, FreshState))
        /\ Goto(x, [at |-> "idp", state |-> FreshState, since |-> now])
    BY <1>6 DEF getAuth
  <2>2. CASE x = t
    <3>1. /\ place'[t].at = "idp" /\ place'[t].state = FreshState /\ place'[t].since = now
          /\ jar' = AuthCookie(place[t].cookie, FreshState)
      BY <2>1, <2>2, GotoMoves DEF SetCookie
    <3>2. jar'.state = FreshState /\ jar'.ends = now + StateAge * TicksPerSecond
      BY <2>1, <2>2, <3>1, PlaceParts, AuthCookieParts
    <3> QED
      BY <2>1, <3>1, <3>2 DEF TabStateInv
  <2>3. CASE x # t
    <3>1. t \notin crossed /\ place[t].at # "idp"
      BY <2>1, <2>3, OtherCookie
    <3> QED
      BY <1>0, <2>1, <2>3, <3>1, GotoMoves, WaitingTab
  <2> QED
    BY <2>2, <2>3
<1>7. ASSUME NEW x \in Tab, getAuthCallback(x)  PROVE TabStateInv(t)'
  <2>1. now' = now /\ place[x].at = "callback"
    BY <1>7 DEF getAuthCallback
  <2>2. ASSUME NEW why \in {"state", "idp"}, why = "state" => ~ StateAccepted(place[x]),
               Goto(x, [at |-> "error", why |-> why, late |-> place[x].late]),
               UNCHANGED <<jar, crossed, overlap>>
        PROVE  TabStateInv(t)'
    <3>1. CASE x = t
      <4>1. place'[t] = [at |-> "error", why |-> why, late |-> place[t].late]
        BY <2>2, <3>1, GotoMoves
      <4>2. place[t].cookie.state = place[t].state => StateAccepted(place[t])
        BY <2>1, <3>1, PlaceParts, SessionAssumption DEF StateAccepted
      <4>3. place[t].late \/ place[t].cookie.state = place[t].state
        BY <1>0, <2>1, <2>2, <3>1 DEF TabStateInv
      <4> QED
        BY <2>2, <3>1, <4>1, <4>2, <4>3 DEF TabStateInv
    <3>2. CASE x # t
      BY <1>0, <2>1, <2>2, <3>2, GotoMoves, WaitingTab
    <3> QED
      BY <3>1, <3>2
  <2>3. ASSUME NEW life \in Lives, LoggedIn(x, life)  PROVE TabStateInv(t)'
    <3>1. CASE x = t
      BY <2>3, <3>1, GotoMoves DEF LoggedIn, Landing, TabStateInv
    <3>2. CASE x # t
      <4>1. t \notin crossed /\ place[t].at # "idp"
        BY <2>3, <3>2, OtherCookie DEF LoggedIn
      <4> QED
        BY <1>0, <2>1, <2>3, <3>2, <4>1, GotoMoves, WaitingTab DEF LoggedIn
    <3> QED
      BY <3>1, <3>2
  <2> QED
    BY <1>7, <2>2, <2>3, CallbackEnds
<1>8. ASSUME NEW x \in Tab, logout(x)  PROVE TabStateInv(t)'
  <2>1. now' = now /\ SetCookie(x, NoCookie) /\ Goto(x, Where("out"))
    BY <1>8 DEF logout
  <2>2. CASE x = t
    BY <2>1, <2>2, GotoMoves DEF Where, TabStateInv
  <2>3. CASE x # t
    <3>1. t \notin crossed /\ place[t].at # "idp"
      BY <2>1, <2>3, OtherCookie
    <3> QED
      BY <1>0, <2>1, <2>3, <3>1, GotoMoves, WaitingTab
  <2> QED
    BY <2>2, <2>3
<1>9. ASSUME NEW c \in calls, Answer(c)  PROVE TabStateInv(t)'
  <2>1. c.tab \in Tab /\ UNCHANGED <<now, jar, crossed>>
    BY <1>9 DEF Answer, TypeInv, ApiCall
  <2>2. place'[t] = place[t] \/ place'[t].at \in {"page", "auth"}
    BY <1>9, <2>1, GotoMoves DEF Answer, Auth, Where
  <2> QED
    BY <1>0, <2>1, <2>2, WaitingTab DEF TabStateInv
<1>10. CASE Tick
  <2>1. /\ UNCHANGED <<place, crossed>> /\ now' = now + 1
        /\ jar' = jar \/ jar.ends <= now'
    BY <1>10 DEF Tick
  <2>2. now \in Nat /\ jar.ends \in Nat /\ StateAge * TicksPerSecond \in Nat
    BY Lifetimes DEF TypeInv, Cookie
  <2>3. place[t].at = "idp" => place[t].since \in Nat
    BY PlaceParts
  <2> QED
    BY <1>0, <2>1, <2>2, <2>3 DEF TabStateInv
<1>11. CASE UNCHANGED vars
  BY <1>0, <1>11, WaitingTab DEF vars
<1> QED
  BY <1>1, <1>2, <1>3, <1>4, <1>5, <1>6, <1>7, <1>8, <1>9, <1>10, <1>11 DEF Next

-----------------------------------------------------------------------------
(* When a session ends *)

\* Only an answer sets the cookie, and only time takes it away.
LEMMA JarSteps ==
  ASSUME TypeInv, [Next]_vars
  PROVE  \/ jar' = jar /\ now' \in {now, now + 1}
         \/ jar' = NoCookie
         \/ /\ now' = now
            /\ \E t \in Tab : /\ place[t].at = "auth"
                             /\ jar' = AuthCookie(place[t].cookie, FreshState)
         \/ /\ now' = now
            /\ \E t \in Tab, life \in Lives : /\ place[t].at = "callback"
                                             /\ jar' = LoginCookie(place[t].user, now + life)
<1>1. ASSUME NEW t \in Tab, \/ Visit(t) \/ Call(t) \/ Land(t) \/ SignIn(t) \/ Return(t)
      PROVE  jar' = jar /\ now' = now
  BY <1>1 DEF Visit, Call, Land, SignIn, Return
<1>2. ASSUME NEW t \in Tab, getAuth(t)
      PROVE  /\ now' = now /\ place[t].at = "auth"
             /\ jar' = AuthCookie(place[t].cookie, FreshState)
  BY <1>2 DEF getAuth, SetCookie
<1>3. ASSUME NEW t \in Tab, getAuthCallback(t)
      PROVE  /\ now' = now /\ place[t].at = "callback"
             /\ \/ jar' = jar
                \/ \E life \in Lives : jar' = LoginCookie(place[t].user, now + life)
  BY <1>3, CallbackEnds DEF getAuthCallback, LoggedIn, SetCookie
<1>4. ASSUME NEW t \in Tab, logout(t)  PROVE jar' = NoCookie
  BY <1>4 DEF logout, SetCookie
<1>5. ASSUME NEW c \in calls, Answer(c)  PROVE jar' = jar /\ now' = now
  BY <1>5 DEF Answer
<1>6. CASE Tick
  BY <1>6 DEF Tick
<1>7. CASE UNCHANGED vars
  BY <1>7 DEF vars
<1> QED
  BY <1>1, <1>2, <1>3, <1>4, <1>5, <1>6, <1>7 DEF Next

LEMMA CookieNext ==
  ASSUME TypeInv, TypeInv', CookieEnds, [Next]_vars
  PROVE  CookieEnds'
<1>0. now \in Nat /\ now' \in Nat /\ StateAge * TicksPerSecond \in Nat /\ jar.ends \in Nat
  BY Lifetimes DEF TypeInv, Cookie
<1>1. CASE jar' = jar /\ now' \in {now, now + 1}
  BY <1>0, <1>1 DEF CookieEnds
<1>2. CASE jar' = NoCookie
  BY <1>2, NoCookieType DEF CookieEnds
<1>3. ASSUME NEW t \in Tab, now' = now, place[t].at = "auth",
             jar' = AuthCookie(place[t].cookie, FreshState)
      PROVE  CookieEnds'
  <2>1. jar'.state # NoState /\ jar'.ends = now + StateAge * TicksPerSecond
    BY <1>3, PlaceParts, AuthCookieParts
  <2> QED
    BY <1>0, <1>3, <2>1 DEF CookieEnds
<1>4. ASSUME NEW t \in Tab, NEW life \in Lives, now' = now, place[t].at = "callback",
             jar' = LoginCookie(place[t].user, now + life)
      PROVE  CookieEnds'
  <2>1. jar'.tokenEnds = now + life /\ jar'.from = now
    BY <1>4 DEF LoginCookie
  <2>2. \/ jar'.ends <= now + life
        \/ jar'.ends = BrowserSession /\ life < TicksPerSecond
    <3>1. place[t].user \in User
      BY <1>4, PlaceParts
    <3> HIDE DEF TypeInv
    <3> QED
      BY <1>4, <3>1, LoginCookieParts
  <2>3. BrowserSession' = BrowserSession /\ life \in Nat /\ TicksPerSecond \in Nat
    BY SessionAssumption DEF BrowserSession
  <2> QED
    BY <1>0, <2>1, <2>2, <2>3 DEF CookieEnds
<1> QED
  BY <1>1, <1>2, <1>3, <1>4, JarSteps

-----------------------------------------------------------------------------
(* Cookie and token are of one user *)

\* A tab other than t on its way through a login makes the answer to t an overlap.
LEMMA NoOverlap ==
  ASSUME NEW t \in Tab, NEW c, SetCookie(t, c), ~ overlap'
  PROVE  ~ overlap /\ \A x \in Tab \ {t} : place[x].at \notin {"auth", "idp", "callback", "landing"}
BY DEF SetCookie, InLogin

\* A tab that is not about to land leaves for /auth with the cookie there is, or
\* goes where no copy is: nothing changes for the others.
LEMMA LeavesForAuth ==
  ASSUME TypeInv, JarAgrees, Copies, OneLands,
         NEW t \in Tab, place[t].at # "landing", Goto(t, Auth(jar)),
         jar' = jar, stored' \in {stored, NoToken}
  PROVE  (JarAgrees /\ Copies /\ OneLands)'
<1>1. /\ place'[t] = Auth(jar)
      /\ \A x \in Tab \ {t} : place'[x] = place[x]
  BY GotoMoves
<1>2. place'[t].at = "auth" /\ place'[t].cookie = jar
  BY <1>1 DEF Auth
<1>3. ASSUME NEW u, Agrees(u)  PROVE Agrees(u)'
  BY <1>1, <1>2, <1>3 DEF Agrees
<1>4. JarAgrees' /\ OneLands'
  BY <1>1, <1>2, <1>3 DEF JarAgrees, OneLands
<1>5. jar.user = NoUser => AsksAnew(t)'
  BY <1>2 DEF AsksAnew
<1>6. \A x \in Tab \ {t} : AsksAnew(x) => AsksAnew(x)'
  BY <1>1 DEF AsksAnew
<1>7. ASSUME NEW x \in Tab, NEW u \in User, place'[x].at = "auth", place'[x].cookie.user = u
      PROVE  CopyOf(x, u)'
  <2>1. CASE x = t
    BY <1>2, <1>3, <1>7, <2>1 DEF JarAgrees, CopyOf
  <2>2. CASE x # t
    <3>1. CopyOf(x, u)
      BY <1>1, <1>7, <2>2 DEF Copies
    <3> QED
      BY <1>3, <1>5, <1>6, <2>2, <3>1 DEF CopyOf
  <2> QED
    BY <2>1, <2>2
<1> QED
  BY <1>4, <1>7 DEF Copies

\* A tab that is not about to land and goes elsewhere, away from /auth only when
\* there is a user.
LEMMA GoesElsewhere ==
  ASSUME TypeInv, JarAgrees, Copies, OneLands,
         NEW t \in Tab, place[t].at # "landing", place[t].at = "auth" => jar.user # NoUser,
         \A x \in Tab \ {t} : place'[x] = place[x],
         place'[t].at \notin {"landing", "auth"},
         jar' = jar, stored' = stored
  PROVE  (JarAgrees /\ Copies /\ OneLands)'
<1>1. ASSUME NEW u, Agrees(u)  PROVE Agrees(u)'
  BY <1>1 DEF Agrees
<1>2. jar.user = NoUser => \A x \in Tab : AsksAnew(x) => AsksAnew(x)'
  BY DEF AsksAnew
<1>3. JarAgrees' /\ OneLands'
  BY <1>1 DEF JarAgrees, OneLands
<1>4. ASSUME NEW x \in Tab, NEW u \in User, place'[x].at = "auth", place'[x].cookie.user = u
      PROVE  CopyOf(x, u)'
  <2>1. CopyOf(x, u)
    BY <1>4 DEF Copies
  <2> QED
    BY <1>1, <1>2, <2>1 DEF CopyOf
<1> QED
  BY <1>3, <1>4 DEF Copies

\* Nobody has a copy of the cookie when it is replaced by an answer that does
\* not overlap with another login.
LEMMA Alone ==
  ASSUME TypeInv, NEW t \in Tab, NEW c, SetCookie(t, c), ~ overlap',
         \A x \in Tab \ {t} : place'[x] = place[x], place'[t].at # "auth",
         \A u \in User : c.user = u => Agrees(u)'
  PROVE  (JarAgrees /\ Copies /\ OneLands)'
<1>1. /\ jar' = c
      /\ \A x \in Tab \ {t} : place'[x].at \notin {"auth", "landing"}
  BY NoOverlap DEF SetCookie
<1> QED
  BY <1>1 DEF JarAgrees, Copies, OneLands

\* A landing stores the token of the user of the cookie; when the cookie is gone,
\* the tab asks for a login anew.
LEMMA LandKeeps ==
  ASSUME TypeInv, JarAgrees, Copies, OneLands, NEW t \in Tab, Land(t)
  PROVE  (JarAgrees /\ Copies /\ OneLands)'
<1>1. /\ place[t].at = "landing" /\ jar' = jar /\ jar.user \in User \cup {NoUser}
      /\ stored' = IF jar.user = NoUser THEN stored ELSE place[t].token
      /\ \A x \in Tab \ {t} : place'[x] = place[x] /\ place[x].at # "landing"
      /\ place[t].token \in Token /\ place[t].token # NoToken
  BY EnterMoves, PlaceParts, TokenAssumption DEF Land, Taken, OneLands, TypeInv, Cookie
<1>2. /\ jar.user = NoUser => place'[t].at = "auth" /\ place'[t].cookie = jar
      /\ jar.user # NoUser => place'[t].at = "mounted"
  BY EnterMoves DEF Land, Auth, Where
<1>3. \A x \in Tab : place'[x].at # "landing"
  BY <1>1, <1>2
<1>4. CASE jar.user = NoUser
  <2>1. AsksAnew(t)'
    BY <1>2, <1>4 DEF AsksAnew
  <2> QED
    BY <1>1, <1>2, <1>3, <1>4, <2>1, SessionAssumption DEF JarAgrees, Copies, OneLands, CopyOf
<1>5. CASE jar.user # NoUser
  <2>1. Agrees(jar.user) /\ jar.user \in User
    BY <1>1, <1>5 DEF JarAgrees
  <2>2. ASSUME NEW u, Agrees(u)  PROVE Agrees(u)'
    BY <1>1, <1>3, <1>5, <2>2 DEF Agrees
  <2>3. ASSUME NEW x \in Tab, NEW u \in User, place'[x].at = "auth", place'[x].cookie.user = u
        PROVE  CopyOf(x, u)'
    <3>1. Agrees(u)
      BY <1>1, <1>2, <1>5, <2>3 DEF Copies, CopyOf
    <3> QED
      BY <2>2, <3>1 DEF CopyOf
  <2> QED
    BY <1>1, <1>3, <2>1, <2>2, <2>3 DEF JarAgrees, Copies, OneLands
<1> QED
  BY <1>4, <1>5

\* The answer of /auth brings the user of its request's cookie back.
LEMMA AuthKeeps ==
  ASSUME TypeInv, OneUserInv, NEW t \in Tab, getAuth(t), ~ overlap'
  PROVE  (JarAgrees /\ Copies /\ OneLands)'
<1> DEFINE c == AuthCookie(place[t].cookie, FreshState)
<1>1. /\ place[t].at = "auth" /\ SetCookie(t, c) /\ stored' = stored
      /\ Goto(t, [at |-> "idp", state |-> FreshState, since |-> now])
  BY DEF getAuth
<1>2. ~ overlap /\ \A x \in Tab \ {t} : place[x].at # "auth"
  BY <1>1, NoOverlap
<1>3. \A x \in Tab \ {t} : place'[x] = place[x]
  BY <1>1, GotoMoves
<1>4. place'[t].at = "idp"
  BY <1>1, GotoMoves
<1>5. c.user = place[t].cookie.user
  BY <1>1, PlaceParts, AuthCookieParts
<1>6. ASSUME NEW u \in User, c.user = u  PROVE Agrees(u)'
  <2>1. Agrees(u)
    BY <1>1, <1>2, <1>5, <1>6 DEF OneUserInv, Copies, CopyOf, AsksAnew
  <2> QED
    BY <1>1, <1>3, <1>4, <2>1 DEF Agrees
<1> HIDE DEF c
<1> QED
  BY <1>1, <1>3, <1>4, <1>6, Alone

\* A login puts its own user in.
LEMMA LoginKeeps ==
  ASSUME TypeInv, OneUserInv, NEW t \in Tab, NEW life \in Lives, place[t].at = "callback",
         LoggedIn(t, life), ~ overlap'
  PROVE  (JarAgrees /\ Copies /\ OneLands)'
<1> DEFINE c == LoginCookie(place[t].user, now + life)
<1>1. SetCookie(t, c) /\ c.user = place[t].user
  BY DEF LoggedIn, LoginCookie
<1>2. /\ \A x \in Tab \ {t} : place'[x] = place[x] /\ place[x].at # "landing"
      /\ place'[t].at = "landing" /\ place'[t].token.user = place[t].user
  BY <1>1, GotoMoves, NoOverlap DEF LoggedIn, Landing
<1>3. ASSUME NEW u \in User, c.user = u  PROVE Agrees(u)'
  BY <1>1, <1>2, <1>3 DEF Agrees
<1> HIDE DEF c
<1> QED
  BY <1>1, <1>2, <1>3, Alone

LEMMA OneUserNext ==
  ASSUME TypeInv, OneUserInv, [Next]_vars
  PROVE  OneUserInv'
<1> SUFFICES ASSUME ~ overlap'  PROVE (JarAgrees /\ Copies /\ OneLands)'
  BY DEF OneUserInv
<1>1. ASSUME NEW t \in Tab, Visit(t)  PROVE (JarAgrees /\ Copies /\ OneLands)'
  <2>1. /\ ~ overlap /\ place[t].at # "landing" /\ jar' = jar /\ stored' = stored
        /\ Enter(t)
    BY <1>1 DEF Visit
  <2>2. JarAgrees /\ Copies /\ OneLands
    BY <2>1 DEF OneUserInv
  <2>3. CASE jar.user = NoUser
    BY <2>1, <2>2, <2>3, LeavesForAuth DEF Enter
  <2>4. CASE jar.user # NoUser
    <3>1. place'[t].at = "mounted" /\ \A x \in Tab \ {t} : place'[x] = place[x]
      BY <2>1, <2>4, EnterMoves DEF Where
    <3> QED
      BY <2>1, <2>2, <2>4, <3>1, GoesElsewhere
  <2> QED
    BY <2>3, <2>4
<1>2. ASSUME NEW t \in Tab, Call(t)  PROVE (JarAgrees /\ Copies /\ OneLands)'
  <2>1. /\ JarAgrees /\ Copies /\ OneLands /\ jar' = jar /\ stored' = stored
        /\ place[t].at \in {"mounted", "page"}
    BY <1>2 DEF Call, OneUserInv
  <2>2. CASE stored = NoToken
    BY <1>2, <2>1, <2>2, LeavesForAuth DEF Call
  <2>3. CASE stored # NoToken
    BY <1>2, <2>1, <2>3, GoesElsewhere DEF Call
  <2> QED
    BY <2>2, <2>3
<1>3. ASSUME NEW t \in Tab, Land(t)  PROVE (JarAgrees /\ Copies /\ OneLands)'
  BY <1>3, LandKeeps DEF OneUserInv, Land
<1>4. ASSUME NEW t \in Tab, SignIn(t)  PROVE (JarAgrees /\ Copies /\ OneLands)'
  <2>1. /\ JarAgrees /\ Copies /\ OneLands /\ jar' = jar /\ stored' = stored
        /\ place[t].at = "idp"
    BY <1>4 DEF SignIn, OneUserInv
  <2>2. place'[t].at = "callback" /\ \A x \in Tab \ {t} : place'[x] = place[x]
    BY <1>4, GotoMoves DEF SignIn
  <2> QED
    BY <2>1, <2>2, GoesElsewhere
<1>5. ASSUME NEW t \in Tab, Return(t)  PROVE (JarAgrees /\ Copies /\ OneLands)'
  BY <1>5, LeavesForAuth DEF Return, OneUserInv
<1>6. ASSUME NEW t \in Tab, getAuth(t)  PROVE (JarAgrees /\ Copies /\ OneLands)'
  BY <1>6, AuthKeeps
<1>7. ASSUME NEW t \in Tab, getAuthCallback(t)  PROVE (JarAgrees /\ Copies /\ OneLands)'
  <2>1. place[t].at = "callback" /\ stored' = stored
    BY <1>7 DEF getAuthCallback
  <2>2. ASSUME NEW why \in {"state", "idp"},
               Goto(t, [at |-> "error", why |-> why, late |-> place[t].late]),
               UNCHANGED <<jar, crossed, overlap>>
        PROVE  (JarAgrees /\ Copies /\ OneLands)'
    <3>1. place'[t].at = "error" /\ \A x \in Tab \ {t} : place'[x] = place[x]
      BY <2>2, GotoMoves
    <3>2. JarAgrees /\ Copies /\ OneLands
      BY <2>2 DEF OneUserInv
    <3> QED
      BY <2>1, <2>2, <3>1, <3>2, GoesElsewhere
  <2> QED
    BY <1>7, <2>1, <2>2, CallbackEnds, LoginKeeps
<1>8. ASSUME NEW t \in Tab, logout(t)  PROVE (JarAgrees /\ Copies /\ OneLands)'
  <2>1. SetCookie(t, NoCookie) /\ \A u \in User : NoCookie.user # u
    BY <1>8, NoCookieType, SessionAssumption DEF logout
  <2>2. place'[t].at = "out" /\ \A x \in Tab \ {t} : place'[x] = place[x]
    BY <1>8, GotoMoves DEF logout, Where
  <2> QED
    BY <2>1, <2>2, Alone
<1>9. ASSUME NEW c \in calls, Answer(c)  PROVE (JarAgrees /\ Copies /\ OneLands)'
  <2>1. /\ c.tab \in Tab /\ jar' = jar /\ place[c.tab].at \in {"mounted", "page", "auth"}
        /\ JarAgrees /\ Copies /\ OneLands
    BY <1>9 DEF Answer, Alive, OneUserInv, TypeInv, ApiCall
  <2>2. CASE withAPIBearerAuth(c.token) # 200
    BY <1>9, <2>1, <2>2, LeavesForAuth DEF Answer
  <2>3. CASE withAPIBearerAuth(c.token) = 200 /\ place[c.tab].at = "mounted"
    <3>1. stored' = stored /\ Goto(c.tab, Where("page"))
      BY <1>9, <2>3 DEF Answer
    <3>2. place'[c.tab].at = "page" /\ \A x \in Tab \ {c.tab} : place'[x] = place[x]
      BY <2>1, <3>1, GotoMoves DEF Where
    <3> QED
      BY <2>1, <2>3, <3>1, <3>2, GoesElsewhere
  <2>4. CASE withAPIBearerAuth(c.token) = 200 /\ place[c.tab].at # "mounted"
    <3>1. stored' = stored /\ Goto(c.tab, place[c.tab])
      BY <1>9, <2>4 DEF Answer
    <3>2. place' = place
      BY <3>1 DEF Goto, TypeInv
    <3> QED
      BY <2>1, <3>1, <3>2 DEF JarAgrees, Copies, OneLands, CopyOf, Agrees, AsksAnew
  <2> QED
    BY <2>2, <2>3, <2>4
<1>10. CASE Tick
  <2>1. /\ JarAgrees /\ Copies /\ OneLands /\ place' = place /\ stored' = stored
        /\ jar' = jar \/ jar'.user = NoUser
    BY <1>10, NoCookieType DEF Tick, OneUserInv
  <2> QED
    BY <2>1, SessionAssumption DEF JarAgrees, Copies, OneLands, CopyOf, Agrees, AsksAnew
<1>11. CASE UNCHANGED vars
  BY <1>11 DEF vars, OneUserInv, JarAgrees, Copies, OneLands, CopyOf, Agrees, AsksAnew
<1> QED
  BY <1>1, <1>2, <1>3, <1>4, <1>5, <1>6, <1>7, <1>8, <1>9, <1>10, <1>11 DEF Next

-----------------------------------------------------------------------------
(* The theorems *)

\* Everything is closed at first.
LEMMA IInvInit == Init => IInv
<1> SUFFICES ASSUME Init  PROVE IInv
  OBVIOUS
<1>1. \A t \in Tab : place[t].at = "closed"
  BY DEF Init, Closed, Where
<1>2. TypeInv
  <2>1. now \in 0..MaxTime /\ visits \in 0..MaxVisits
    BY SessionAssumption DEF Init
  <2>2. jar \in Cookie /\ jar.ends > now
    BY <2>1, NoCookieType, Lifetimes DEF Init
  <2>3. place \in [Tab -> Place]
    BY Destinations DEF Init, Closed
  <2> QED
    BY <2>1, <2>2, <2>3 DEF Init, TypeInv
<1>3. jar.user = NoUser
  BY NoCookieType DEF Init
<1> QED
  BY <1>1, <1>2, <1>3, SessionAssumption
     DEF IInv, StateInv, OneUserInv, JarAgrees, Copies, OneLands, RefusedHasCause, CookieEnds

LEMMA IInvNext == IInv /\ [Next]_vars => IInv'
<1> SUFFICES ASSUME IInv, [Next]_vars  PROVE IInv'
  OBVIOUS
<1>1. TypeInv'
  BY TypeNext DEF IInv
<1> QED
  BY <1>1, StateNext, CookieNext, OneUserNext DEF IInv

LEMMA Invariance == Spec => []IInv
BY IInvInit, IInvNext, PTL DEF Spec

\* The cookie, the token in localStorage and each tab's place are what the
\* handlers and the pages put there.
THEOREM TypeCorrect == Spec => []TypeOK
<1>1. IInv => TypeOK
  <2> SUFFICES ASSUME TypeInv  PROVE TypeOK
    BY DEF IInv
  <2>1. \A t \in Tab : place[t].at \in {"closed", "out", "mounted", "page", "auth", "idp", "callback",
                                      "landing", "error"}
    BY DEF TypeInv, Place
  <2> QED
    BY <2>1, PlaceParts DEF TypeInv, TypeOK, ApiCall
<1> QED
  BY <1>1, Invariance, PTL

\* CompleteOIDC refuses a state only for a login that took more than the five
\* minutes of its cookie, or that the answer to another tab has crossed.
THEOREM RefusalsHaveCause == Spec => []RefusedHasCause
<1>1. IInv => RefusedHasCause
  BY DEF IInv
<1> QED
  BY <1>1, Invariance, PTL

\* The session in the cookie ends with its token, but for the five minutes that
\* /auth adds and the cookie without an end of a token under a second.
THEOREM SessionsEnd == Spec => []CookieEnds
<1>1. IInv => CookieEnds
  BY DEF IInv
<1> QED
  BY <1>1, Invariance, PTL

\* Logins that do not overlap leave the cookie and localStorage with one user,
\* whatever the other tabs do and whenever cookies and tokens end.
THEOREM OneUserAtRest == Spec => []OneUser
<1>1. IInv => OneUser
  <2> SUFFICES ASSUME IInv, \A t \in Tab : ~ InLogin(t), ~ overlap,
                      jar.user # NoUser, stored # NoToken
               PROVE  jar.user = stored.user
    BY DEF OneUser
  <2>1. jar.user \in User
    BY DEF IInv, TypeInv, Cookie
  <2>2. Agrees(jar.user)
    BY <2>1 DEF IInv, OneUserInv, JarAgrees
  <2> QED
    BY <2>2 DEF Agrees, InLogin
<1> QED
  BY <1>1, Invariance, PTL

\* A token leaves localStorage for a later one or through the late 401 of a call
\* that carried another.
LEMMA TokenSteps ==
  ASSUME TypeInv, [Next]_vars, stored # NoToken, stored.ends > now, stored' # stored
  PROVE  \/ \E t \in Tab : place[t].at = "landing" /\ stored' = place[t].token
         \/ \E c \in calls \ calls' : c.token # stored /\ c.token.ends <= now
<1>1. ASSUME NEW t \in Tab, \/ Visit(t) \/ Call(t) \/ SignIn(t) \/ Return(t)
                           \/ getAuth(t) \/ getAuthCallback(t) \/ logout(t)
      PROVE  FALSE
  BY <1>1 DEF Visit, Call, SignIn, Return, getAuth, getAuthCallback, logout
<1>2. ASSUME NEW t \in Tab, Land(t)
      PROVE  place[t].at = "landing" /\ stored' = place[t].token
  BY <1>2 DEF Land, Taken
<1>3. ASSUME NEW c \in calls, Answer(c)
      PROVE  c \in calls \ calls' /\ c.token # stored /\ c.token.ends <= now
  <2>1. withAPIBearerAuth(c.token) # 200 /\ calls' = calls \ {c}
    BY <1>3 DEF Answer
  <2>2. ~ (c.token.ends > now)
    BY <2>1 DEF withAPIBearerAuth, Good
  <2>3. now \in Int /\ c.token.ends \in Int
    BY DEF TypeInv, ApiCall, Token
  <2> QED
    BY <2>1, <2>2, <2>3
<1>4. CASE Tick \/ UNCHANGED vars
  BY <1>4 DEF Tick, vars
<1> QED
  BY <1>1, <1>2, <1>3, <1>4 DEF Next

\* No tab loses a good token of another but through the late refusal of an older
\* one (clearStoredToken in api.js does not look at which token was refused).
THEOREM GoodTokensStay == Spec => GoodTokenStays
<1>1. IInv /\ [Next]_vars =>
        [stored # NoToken /\ stored.ends > now /\ stored' # stored =>
           \/ \E t \in Tab : place[t].at = "landing" /\ stored' = place[t].token
           \/ \E c \in calls \ calls' : c.token # stored /\ c.token.ends <= now]_vars
  BY TokenSteps DEF IInv
<1> QED
  BY <1>1, Invariance, PTL DEF Spec, GoodTokenStays
=============================================================================
