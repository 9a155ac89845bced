------------------------------- MODULE Sessions -------------------------------
(***************************************************************************)
(* Staying signed in: the sessions of one user in user_sessions, the two   *)
(* cookies of one browser, which gateways/authorization sets and clears    *)
(* together, and the tabs of the monolith, each with its store, its router *)
(* guard and its requests. Other devices sign in and revoke sessions too.  *)
(*                                                                         *)
(* A request carries the cookie of the moment it is sent; the cookies of   *)
(* its answer are applied when the answer arrives, whatever the browser    *)
(* holds by then. Notifications has the codes of the second factor.        *)
(***************************************************************************)
EXTENDS FiniteSets, Null

CONSTANTS
  Sessions,  \* uids of user_sessions, used and unused
  Tabs,
  Exchanges  \* requests under way at a time

(* Routes: login is free, system wants the permission, settings lists the  *)
(* sessions.                                                               *)
Pages == {"home", "settings", "system"}

(* A tab: its route, whether its store has a user, whether the guard has   *)
(* asked lately, the form of the second factor, and the list of sessions.  *)
Shows ==
  [at : Pages \cup {"closed", "blank", "login"}, user : BOOLEAN, checked : BOOLEAN,
   challenge : BOOLEAN, listed : SUBSET Sessions, current : Sessions \cup {None},
   acting : Sessions \cup {None}]

LoginOps == {"login", "verify"}

(* to: where the answer leads; sid: the session to revoke; new: the session *)
(* of a login; here: the view or navigation that asked is still there.     *)
Exchange ==
  [tab : Tabs \cup {None}, op : LoginOps \cup {"state", "list", "logout", "revoke", "others"},
   to : Pages \cup {"login", None}, sid : Sessions \cup {None}, token : Sessions \cup {None},
   step : {"asked", "done"}, answer : {None, "ok", "denied", "challenge", "failed"},
   new : Sessions \cup {None}, rows : SUBSET Sessions, here : BOOLEAN]

ASSUME SessionsAssumption ==
  None \notin Sessions \cup Tabs \cup Exchange \cup {"live", "revoked"}

VARIABLES
  session,   \* session[s]: None, "live" or "revoked"
  expired,   \* sessions whose token is older than 12 hours
  cookie,    \* the session of the token the browser holds, or None
  tab,       \* tab[t]: what the tab shows and remembers
  request,   \* request[r]: a request, its answer on its way, or None
  allowed    \* the user has the permission system.read

sessionVs == <<session, expired, cookie, tab, request, allowed>>

Closed ==
  [at |-> "closed", user |-> FALSE, checked |-> FALSE, challenge |-> FALSE, listed |-> {},
   current |-> None, acting |-> None]

SessionsInit ==
  /\ session = [s \in Sessions |-> None]
  /\ expired = {} /\ cookie = None
  /\ tab = [t \in Tabs |-> Closed]
  /\ request = [r \in Exchanges |-> None]
  /\ allowed \in BOOLEAN

-----------------------------------------------------------------------------
(* Requests                                                                *)

(* It carries the cookie there is after the step that sends it.            *)
Request(t, op, to, sid) ==
  [tab |-> t, op |-> op, to |-> to, sid |-> sid, token |-> cookie', step |-> "asked",
   answer |-> None, new |-> None, rows |-> {}, here |-> TRUE]

Of(t) == {r \in Exchanges : request[r] # None /\ request[r].tab = t}

(* The view waits for such an answer.                                      *)
Waits(t, ops) == \E r \in Of(t) : request[r].here /\ request[r].op \in ops

(* The requests of t, whose view or navigation is left.                    *)
Left(t) == [r \in Exchanges |-> IF r \in Of(t) THEN [request[r] EXCEPT !.here = FALSE] ELSE request[r]]

(* A page that is closed or reloaded waits for no answer.                  *)
Orphaned(t) == [r \in Exchanges |-> IF r \in Of(t) THEN [request[r] EXCEPT !.tab = None] ELSE request[r]]

(* The guard lets the tab in. Slot r is free or has been answered.         *)
Enters(t, r, p, user) ==
  /\ tab' = [tab EXCEPT ![t].at = p, ![t].user = user, ![t].checked = TRUE,
                        ![t].challenge = FALSE, ![t].listed = {}, ![t].acting = None]
  /\ request' = [Left(t) EXCEPT ![r] =
       IF p = "settings" THEN Request(t, "list", None, None) ELSE None]

(* The guard asks: nobody is in the store, or the last answer is old.      *)
AsksState(t, r, p, user, checked) ==
  /\ tab' = [tab EXCEPT ![t].user = user, ![t].checked = checked]
  /\ request' = [Left(t) EXCEPT ![r] = Request(t, "state", p, None)]

(* beforeEach with validateAuthorizationState and hasAllowedAccess, for a  *)
(* tab whose store and last check are as given. The check is taken as new  *)
(* also when nothing was asked.                                            *)
Guards(t, r, p, user, checked) ==
  IF user /\ checked
    THEN Enters(t, r, IF p = "system" /\ ~allowed THEN "home" ELSE p, user)
    ELSE AsksState(t, r, p, user, checked)

ToLogin(t) ==
  [tab EXCEPT ![t].at = "login", ![t].challenge = FALSE, ![t].listed = {}, ![t].acting = None]

-----------------------------------------------------------------------------
(* The tabs                                                                *)

(* restoreAuthorizationFromPublicUserCookie and the first navigation.      *)
Opens(t, r, p) ==
  /\ tab[t].at = "closed" /\ request[r] = None
  /\ UNCHANGED <<session, expired, cookie, allowed>>
  /\ IF p = "login"
       THEN /\ tab' = [tab EXCEPT ![t] = [Closed EXCEPT !.at = "login", !.user = cookie # None]]
            /\ UNCHANGED request
       ELSE /\ tab' = [tab EXCEPT ![t] = [Closed EXCEPT !.at = "blank", !.user = cookie # None]]
            /\ request' = [request EXCEPT ![r] = Request(t, "state", p, None)]

Closes(t) ==
  /\ tab[t].at # "closed"
  /\ tab' = [tab EXCEPT ![t] = Closed]
  /\ request' = Orphaned(t)
  /\ UNCHANGED <<session, expired, cookie, allowed>>

(* A link, or the buttons of the browser.                                  *)
Navigates(t, r, p) ==
  /\ tab[t].at \in Pages \cup {"login"} /\ p # tab[t].at
  /\ request[r] = None
  /\ UNCHANGED <<session, expired, cookie, allowed>>
  /\ IF p = "login" THEN tab' = ToLogin(t) /\ request' = Left(t)
                    ELSE Guards(t, r, p, tab[t].user, tab[t].checked)

(* 30 seconds without a navigation.                                        *)
TimePasses(t) ==
  /\ tab[t].checked
  /\ tab' = [tab EXCEPT ![t].checked = FALSE]
  /\ UNCHANGED <<session, expired, cookie, request, allowed>>

Sends(t, r, op, to, sid) ==
  /\ request[r] = None
  /\ UNCHANGED <<session, expired, cookie, tab, allowed>>
  /\ request' = [request EXCEPT ![r] = Request(t, op, to, sid)]

(* submit of LoginForm.                                                    *)
Submits(t, r) ==
  /\ tab[t].at = "login" /\ ~Waits(t, LoginOps)
  /\ Sends(t, r, IF tab[t].challenge THEN "verify" ELSE "login", "home", None)

AsksLogout(t, r) == tab[t].at \in Pages /\ Sends(t, r, "logout", "login", None)

(* A session in the list, which is hidden while it is loaded; the one the  *)
(* list calls current leads to the login. The button of the last one asked *)
(* for is disabled.                                                        *)
AsksRevoke(t, r, s) ==
  /\ tab[t].at = "settings" /\ s \in tab[t].listed
  /\ ~Waits(t, {"list"})
  /\ tab[t].acting # s
  /\ request[r] = None
  /\ tab' = [tab EXCEPT ![t].acting = s]
  /\ UNCHANGED <<session, expired, cookie, allowed>>
  /\ request' = [request EXCEPT ![r] =
       Request(t, "revoke", IF s = tab[t].current THEN "login" ELSE "settings", s)]

AsksRevokeOthers(t, r) ==
  /\ tab[t].at = "settings" /\ ~Waits(t, {"list", "others"})
  /\ Sends(t, r, "others", "settings", None)

-----------------------------------------------------------------------------
(* The gateway                                                             *)

Asked(r, ops) == request[r] # None /\ request[r].step = "asked" /\ request[r].op \in ops

Answers(r, answer) ==
  request' = [request EXCEPT ![r].step = "done", ![r].answer = answer]

(* httpTokenValidator: a token that is there and has not expired.          *)
Verified(r) == request[r].token # None /\ request[r].token \notin expired

Denies(r) ==
  /\ Asked(r, {"state", "list", "logout", "revoke", "others"}) /\ ~Verified(r)
  /\ Answers(r, "denied")
  /\ UNCHANGED <<session, expired, cookie, tab, allowed>>

(* touchSession wants a session that is not revoked. None of the other     *)
(* requests looks at the session of its own token.                         *)
State(r) ==
  /\ Asked(r, {"state"}) /\ Verified(r)
  /\ Answers(r, IF session[request[r].token] = "live" THEN "ok" ELSE "denied")
  /\ UNCHANGED <<session, expired, cookie, tab, allowed>>

(* listSessions: also those whose token has expired.                       *)
ListSessions(r) ==
  /\ Asked(r, {"list"}) /\ Verified(r)
  /\ request' = [request EXCEPT ![r].step = "done", ![r].answer = "ok",
                                ![r].rows = {s \in Sessions : session[s] = "live"}]
  /\ UNCHANGED <<session, expired, cookie, tab, allowed>>

Revoked(ss) ==
  session' = [s \in Sessions |->
    IF s \in ss /\ session[s] = "live" THEN "revoked" ELSE session[s]]

RevokeSession(r) ==
  /\ Asked(r, {"logout", "revoke"}) /\ Verified(r)
  /\ Revoked({IF request[r].op = "logout" THEN request[r].token ELSE request[r].sid})
  /\ Answers(r, "ok")
  /\ UNCHANGED <<expired, cookie, tab, allowed>>

RevokeOtherSessions(r) ==
  /\ Asked(r, {"others"}) /\ Verified(r)
  /\ Revoked(Sessions \ {request[r].token})
  /\ Answers(r, "ok")
  /\ UNCHANGED <<expired, cookie, tab, allowed>>

(* login with the second factor: a code is sent.                           *)
Challenges(r) ==
  /\ Asked(r, {"login"})
  /\ Answers(r, "challenge")
  /\ UNCHANGED <<session, expired, cookie, tab, allowed>>

Unused == {s \in Sessions : session[s] = None}

(* completeLogin: a row and a token.                                       *)
SignsIn(r) ==
  /\ Asked(r, LoginOps) /\ Unused # {}
  /\ LET s == CHOOSE u \in Unused : TRUE IN
       /\ session' = [session EXCEPT ![s] = "live"]
       /\ request' = [request EXCEPT ![r].step = "done", ![r].answer = "ok", ![r].new = s]
  /\ UNCHANGED <<expired, cookie, tab, allowed>>

(* Wrong password or code.                                                 *)
RefusesLogin(r) ==
  /\ Asked(r, LoginOps)
  /\ Answers(r, "denied")
  /\ UNCHANGED <<session, expired, cookie, tab, allowed>>

(* Other devices.                                                          *)
SignsInElsewhere ==
  /\ Unused # {}
  /\ session' = [session EXCEPT ![CHOOSE u \in Unused : TRUE] = "live"]
  /\ UNCHANGED <<expired, cookie, tab, request, allowed>>

RevokedElsewhere(s) ==
  /\ session[s] = "live" /\ Revoked({s})
  /\ UNCHANGED <<expired, cookie, tab, request, allowed>>

(* 12 hours after the login.                                               *)
Expires(s) ==
  /\ session[s] # None /\ s \notin expired
  /\ expired' = expired \cup {s}
  /\ UNCHANGED <<session, cookie, tab, request, allowed>>

-----------------------------------------------------------------------------
(* The cookies and the answers                                             *)

(* Defect: any error of a route that clears cookies does.                  *)
CookieClearedByErrors(q) ==
  IF q.answer = "ok" /\ q.op \in LoginOps THEN q.new
  ELSE IF (q.answer = "ok" /\ (q.op = "logout" \/ (q.op = "revoke" /\ q.sid = q.token)))
            \/ (q.answer \in {"denied", "failed"} /\ q.op \notin LoginOps)
         THEN None ELSE cookie

(* setCookies and clearCookies of the controller, and clearCookiesOnError, *)
(* which is for status 401 only.                                           *)
CookieAfter(q) ==
  IF q.answer = "ok" /\ q.op \in LoginOps THEN q.new
  ELSE IF (q.answer = "ok" /\ (q.op = "logout" \/ (q.op = "revoke" /\ q.sid = q.token)))
            \/ (q.answer = "denied" /\ q.op \notin LoginOps)
         THEN None ELSE cookie

Free(r) == request' = [request EXCEPT ![r] = None]

(* The tab after an answer that changes nothing in it.                     *)
Stays(r) == tab' = tab /\ Free(r)

(* The guard goes on or gives up. Of a navigation that was left only the   *)
(* store and the time of the check remain. Nobody is put into the store.   *)
StateAnswered(r, q) ==
  LET t == q.tab IN
  IF q.answer = "ok"
    THEN IF q.here
           THEN IF q.to = "system" /\ ~(tab[t].user /\ allowed)
                  THEN Guards(t, r, "home", tab[t].user, TRUE)
                  ELSE Enters(t, r, q.to, tab[t].user)
           ELSE tab' = [tab EXCEPT ![t].checked = TRUE] /\ Free(r)
    ELSE /\ tab' = [IF q.here THEN ToLogin(t) ELSE tab
                    EXCEPT ![t].user = FALSE, ![t].checked = FALSE]
         /\ request' = [(IF q.here THEN Left(t) ELSE request) EXCEPT ![r] = None]

(* setUser and the redirection, which goes through the guard.              *)
LoginAnswered(r, q) ==
  LET t == q.tab IN
  CASE q.answer = "ok" -> Guards(t, r, q.to, TRUE, tab[t].checked)
    [] q.answer = "challenge" ->
         tab' = [tab EXCEPT ![t].challenge = q.here /\ tab[t].at = "login"] /\ Free(r)
    [] OTHER -> Stays(r)

(* A failed logout leaves the page as it is, without cookies perhaps.      *)
LogoutAnswered(r, q) ==
  IF q.answer = "ok"
    THEN /\ tab' = [ToLogin(q.tab) EXCEPT ![q.tab].user = FALSE]
         /\ request' = [Left(q.tab) EXCEPT ![r] = None]
    ELSE Stays(r)

(* The session the list called current: the page is loaded anew at login.  *)
(* Else the list is loaded again. The answer to any revocation enables all *)
(* buttons.                                                                *)
RevokeAnswered(r, q) ==
  LET t == q.tab
      enabled == IF q.op = "revoke" /\ q.here THEN [tab EXCEPT ![t].acting = None] ELSE tab
  IN
  CASE q.answer = "ok" /\ q.to = "login" ->
         /\ tab' = [tab EXCEPT ![t] = [Closed EXCEPT !.at = "login", !.user = cookie' # None]]
         /\ request' = [Orphaned(t) EXCEPT ![r] = None]
    [] q.answer = "ok" /\ q.to = "settings" ->
         /\ tab' = enabled
         /\ request' = [request EXCEPT ![r] =
              [Request(t, "list", None, None) EXCEPT !.here = q.here]]
    [] OTHER -> tab' = enabled /\ Free(r)

ListAnswered(r, q) ==
  IF q.answer = "ok" /\ q.here
    THEN tab' = [tab EXCEPT ![q.tab].listed = q.rows, ![q.tab].current = q.token] /\ Free(r)
    ELSE Stays(r)

Answered(r, q) ==
  IF q.tab = None THEN Stays(r)
  ELSE CASE q.op = "state"    -> StateAnswered(r, q)
         [] q.op \in LoginOps -> LoginAnswered(r, q)
         [] q.op = "logout"   -> LogoutAnswered(r, q)
         [] q.op = "list"     -> ListAnswered(r, q)
         [] q.op \in {"revoke", "others"} -> RevokeAnswered(r, q)

(* The browser applies the cookies, then the page takes the answer.        *)
AnswerArrives(r) ==
  LET q == request[r] IN
  /\ q # None /\ q.step = "done"
  /\ cookie' = CookieAfter(q)
  /\ Answered(r, q)
  /\ UNCHANGED <<session, expired, allowed>>

(* A statement fails, before or after another took effect: status 500.     *)
AnswerFails(r) ==
  LET q == [request[r] EXCEPT !.answer = "failed"] IN
  /\ request[r] # None
  /\ cookie' = CookieAfter(q)
  /\ Answered(r, q)
  /\ UNCHANGED <<session, expired, allowed>>

(* The connection fails, or the page that asked is gone.                   *)
AnswerLost(r) ==
  LET q == [request[r] EXCEPT !.answer = "failed"] IN
  /\ request[r] # None
  /\ cookie' = cookie
  /\ Answered(r, q)
  /\ UNCHANGED <<session, expired, allowed>>

-----------------------------------------------------------------------------

SessionsNext ==
  \/ SignsInElsewhere
  \/ \E s \in Sessions : RevokedElsewhere(s) \/ Expires(s)
  \/ \E t \in Tabs :
       \/ Closes(t) \/ TimePasses(t)
       \/ \E r \in Exchanges :
            \/ Submits(t, r) \/ AsksLogout(t, r) \/ AsksRevokeOthers(t, r)
            \/ \E p \in Pages \cup {"login"} : Opens(t, r, p) \/ Navigates(t, r, p)
            \/ \E s \in Sessions : AsksRevoke(t, r, s)
  \/ \E r \in Exchanges :
       \/ Denies(r) \/ State(r) \/ ListSessions(r) \/ RevokeSession(r)
       \/ RevokeOtherSessions(r) \/ Challenges(r) \/ SignsIn(r) \/ RefusesLogin(r)
       \/ AnswerArrives(r) \/ AnswerFails(r) \/ AnswerLost(r)

SessionsSpec == SessionsInit /\ [][SessionsNext]_sessionVs

-----------------------------------------------------------------------------
(* Properties                                                              *)

(* The rows, the cookie, the tabs, the requests.                           *)
SessionsTypeOK ==
  /\ session \in [Sessions -> {None, "live", "revoked"}]
  /\ expired \subseteq {s \in Sessions : session[s] # None}
  /\ cookie \in {None} \cup {s \in Sessions : session[s] # None}
  /\ tab \in [Tabs -> Shows]
  /\ request \in [Exchanges -> Exchange \cup {None}]
  /\ allowed \in BOOLEAN

(* The answer that arrives in this step was asked for under another        *)
(* sign-in than the one the browser holds.                                 *)
Crossing ==
  \E r \in Exchanges :
    request[r] # None /\ request[r].token # cookie /\ request'[r] # request[r]

(* A browser stays signed in as long as its session lasts: with requests   *)
(* of several tabs under way, failures, lost answers and revocations, the  *)
(* cookies go only when their session was revoked or their token expired,  *)
(* unless a late answer to a request of another sign-in takes them.        *)
SignInHolds ==
  [][cookie # None /\ cookie' = None =>
       session'[cookie] = "revoked" \/ cookie \in expired \/ Crossing]_sessionVs

=============================================================================
