----------------------------- MODULE Notifications -----------------------------
(***************************************************************************)
(* services/notifications with the part of gateways/authorization that     *)
(* asks it for codes: the MAX bot and its stored configuration, the links  *)
(* of users to MAX accounts, one-time codes and the logins that need one.  *)
(* A request is one SQL statement or call of the bot at a time.            *)
(***************************************************************************)
EXTENDS Naturals, FiniteSets

CONSTANTS
  Users, MaxUsers,  \* users of the system, users of MAX
  Tokens,           \* bot tokens; a token stands for its bot as well
  Codes,            \* notification_challenges, in order of creation: 1..n
  Requests,         \* requests at a time
  MaxAttempts,      \* wrong answers a code bears: 5 in the code
  None

(* Rows of max_accounts and of notification_challenges.                    *)
Accounts == [max : MaxUsers, twoFactor : BOOLEAN]

Challenges ==
  [user : Users, purpose : {"max_link", "two_factor"}, attempts : Nat,
   consumed : BOOLEAN, expired : BOOLEAN, sent : BOOLEAN]

(* Requests in progress, by their next step.                               *)
Pending ==
  [step : {"save", "activate"}, token : Tokens]
    \cup [step : {"upsert"}, code : Codes, max : MaxUsers]
    \cup [step : {"consume", "send", "session"}, code : Codes]
    \cup [step : {"verify"}, code : Codes, right : BOOLEAN]
    \cup [step : {"switch"}, user : Users, on : BOOLEAN]
    \cup [step : {"create"}, user : Users]

ASSUME NoteAssumption ==
  /\ IsFiniteSet(Requests)
  /\ MaxAttempts \in Nat
  /\ None \notin Accounts \cup Challenges \cup Pending

VARIABLES
  configured,  \* the token of max_bot_configuration, or None
  bot,         \* MaxBotService.bot
  running,     \* MaxBotService.running
  account,     \* max_accounts: a user's [max, twoFactor], or None
  code,        \* a row of notification_challenges, or None
  sessions,    \* sessions opened for a code
  request,     \* a request in progress, or None
  botCrossed,  \* history: an update was saved between another's save and start
  raced        \* history: codes with two answers being checked at once

noteVars == <<configured, bot, running, account, code, sessions, request, botCrossed, raced>>

NoteInit ==
  /\ configured \in Tokens \cup {None}
  /\ bot \in {configured, None}
  /\ running = (bot # None)
  /\ account = [u \in Users |-> None]
  /\ code = [c \in Codes |-> None]
  /\ sessions = [c \in Codes |-> 0]
  /\ request = [r \in Requests |-> None]
  /\ botCrossed = FALSE
  /\ raced = {}

At(r, step) == request[r] # None /\ request[r].step = step

Continue(r, q) == request' = [request EXCEPT ![r] = q]

(* The code a create inserts: the first row not there yet.                 *)
Fresh(c) == code[c] = None /\ \A d \in Codes : d < c => code[d] # None

NewCode(u, purpose) ==
  [user |-> u, purpose |-> purpose, attempts |-> 0, consumed |-> FALSE,
   expired |-> FALSE, sent |-> purpose = "max_link"]

Live(c, purpose) ==
  code[c] # None /\ code[c].purpose = purpose /\ ~code[c].consumed /\ ~code[c].expired

Expire(c) ==
  /\ code[c] # None
  /\ ~code[c].expired
  /\ code' = [code EXCEPT ![c].expired = TRUE]
  /\ UNCHANGED <<configured, bot, running, account, sessions, request, botCrossed, raced>>

(* A statement or call fails; "activate" follows the answer of the upsert  *)
(* without one.                                                            *)
RequestFails(r) ==
  /\ request[r] # None /\ ~At(r, "activate")
  /\ Continue(r, None)
  /\ UNCHANGED <<configured, bot, running, account, code, sessions, botCrossed, raced>>

(* The process starts again: `start` reads the configuration and tries to  *)
(* start the bot before the service listens. Only what has returned to the *)
(* authorization gateway goes on.                                          *)
Restart ==
  /\ bot' \in {configured, None}
  /\ running' = (bot' # None)
  /\ botCrossed' = FALSE
  /\ request' = [r \in Requests |-> IF At(r, "session") THEN request[r] ELSE None]
  /\ UNCHANGED <<configured, account, code, sessions, raced>>

-----------------------------------------------------------------------------
(* The bot                                                                 *)

(* Defect: the bot is activated first, the configuration saved after.      *)
UpdateMaxBotActivates(r, token) ==
  /\ request[r] = None
  /\ bot' = token
  /\ running' = TRUE
  /\ Continue(r, [step |-> "save", token |-> token])
  /\ UNCHANGED <<configured, account, code, sessions, botCrossed, raced>>

(* updateMaxBot, after prepare has found the token good.                   *)
UpdateMaxBot(r, token) ==
  /\ request[r] = None
  /\ Continue(r, [step |-> "save", token |-> token])
  /\ UNCHANGED <<configured, bot, running, account, code, sessions, botCrossed, raced>>

SaveConfiguration(r) ==
  /\ At(r, "save")
  /\ configured' = request[r].token
  /\ botCrossed' = (botCrossed \/ \E other \in Requests : At(other, "activate"))
  /\ Continue(r, [step |-> "activate", token |-> request[r].token])
  /\ UNCHANGED <<bot, running, account, code, sessions, raced>>

(* The former bot stops polling; the new one is taken to run.              *)
Activate(r) ==
  /\ At(r, "activate")
  /\ bot' = request[r].token
  /\ running' = TRUE
  /\ Continue(r, None)
  /\ UNCHANGED <<configured, account, code, sessions, botCrossed, raced>>

(* Its polling ends with an error; that of a former bot is ignored.        *)
BotDies ==
  /\ running
  /\ running' = FALSE
  /\ UNCHANGED <<configured, bot, account, code, sessions, request, botCrossed, raced>>

-----------------------------------------------------------------------------
(* Linked accounts                                                         *)

CreateMaxLinkCode(u) ==
  /\ running
  /\ \E c \in Codes : Fresh(c) /\ code' = [code EXCEPT ![c] = NewCode(u, "max_link")]
  /\ UNCHANGED <<configured, bot, running, account, sessions, request, botCrossed, raced>>

(* bot_started with the code, from a MAX user.                             *)
BotStarted(r, x, c) ==
  /\ request[r] = None
  /\ bot # None
  /\ Live(c, "max_link")
  /\ Continue(r, [step |-> "upsert", code |-> c, max |-> x])
  /\ UNCHANGED <<configured, bot, running, account, code, sessions, botCrossed, raced>>

(* Both columns are unique: MySQL updates the row that has either, which   *)
(* takes the MAX account away from whoever had it; two such rows, or       *)
(* PostgreSQL, reject it (RequestFails). It is linked without two factors. *)
UpsertAccount(r) ==
  LET u == code[request[r].code].user
      x == request[r].max
      holders == {v \in Users \ {u} : account[v] # None /\ account[v].max = x} IN
  /\ At(r, "upsert")
  /\ account[u] # None => holders = {}
  /\ account' = [v \in Users |->
       IF v = u THEN [max |-> x, twoFactor |-> FALSE]
       ELSE IF v \in holders THEN None ELSE account[v]]
  /\ Continue(r, [step |-> "consume", code |-> request[r].code])
  /\ UNCHANGED <<configured, bot, running, code, sessions, botCrossed, raced>>

ConsumeLinkCode(r) ==
  /\ At(r, "consume")
  /\ code' = [code EXCEPT ![request[r].code].consumed = TRUE]
  /\ Continue(r, None)
  /\ UNCHANGED <<configured, bot, running, account, sessions, botCrossed, raced>>

UnlinkMax(u) ==
  /\ account[u] # None
  /\ account' = [account EXCEPT ![u] = None]
  /\ UNCHANGED <<configured, bot, running, code, sessions, request, botCrossed, raced>>

(* setTwoFactor: the account is found, then its row is updated.            *)
FindAccount(r, u, on) ==
  /\ request[r] = None
  /\ account[u] # None
  /\ Continue(r, [step |-> "switch", user |-> u, on |-> on])
  /\ UNCHANGED <<configured, bot, running, account, code, sessions, botCrossed, raced>>

SwitchTwoFactor(r) ==
  LET u == request[r].user IN
  /\ At(r, "switch")
  /\ account' = IF account[u] = None THEN account
                ELSE [account EXCEPT ![u].twoFactor = request[r].on]
  /\ Continue(r, None)
  /\ UNCHANGED <<configured, bot, running, code, sessions, botCrossed, raced>>

-----------------------------------------------------------------------------
(* Logins                                                                  *)

(* The password was right and beginTwoFactor finds an account that asks    *)
(* for a code; any other login is completed at once (module UserRoles).    *)
Login(r, u) ==
  /\ request[r] = None
  /\ account[u] # None /\ account[u].twoFactor
  /\ Continue(r, [step |-> "create", user |-> u])
  /\ UNCHANGED <<configured, bot, running, account, code, sessions, botCrossed, raced>>

CreateChallenge(r) ==
  /\ At(r, "create")
  /\ \E c \in Codes :
       /\ Fresh(c)
       /\ code' = [code EXCEPT ![c] = NewCode(request[r].user, "two_factor")]
       /\ Continue(r, [step |-> "send", code |-> c])
  /\ UNCHANGED <<configured, bot, running, account, sessions, botCrossed, raced>>

(* Without a bot nothing is sent, and the login asks for the code anyway.  *)
SendCode(r) ==
  /\ At(r, "send")
  /\ code' = [code EXCEPT ![request[r].code].sent = bot # None]
  /\ Continue(r, None)
  /\ UNCHANGED <<configured, bot, running, account, sessions, botCrossed, raced>>

(* verifyTwoFactor: the row is read and judged, then written.              *)
ReadChallenge(r, c, right) ==
  /\ request[r] = None
  /\ Live(c, "two_factor")
  /\ code[c].attempts < MaxAttempts
  /\ right => code[c].sent
  /\ Continue(r, [step |-> "verify", code |-> c, right |-> right])
  /\ raced' = IF \E other \in Requests : At(other, "verify") /\ request[other].code = c
                  THEN raced \cup {c} ELSE raced
  /\ UNCHANGED <<configured, bot, running, account, code, sessions, botCrossed>>

(* Defect: the code a login has used is not marked as consumed.            *)
ConsumeChallengeNot(r) ==
  /\ At(r, "verify")
  /\ request[r].right
  /\ Continue(r, [step |-> "session", code |-> request[r].code])
  /\ UNCHANGED <<configured, bot, running, account, code, sessions, botCrossed, raced>>

ConsumeChallenge(r) ==
  /\ At(r, "verify")
  /\ request[r].right
  /\ code' = [code EXCEPT ![request[r].code].consumed = TRUE]
  /\ Continue(r, [step |-> "session", code |-> request[r].code])
  /\ UNCHANGED <<configured, bot, running, account, sessions, botCrossed, raced>>

CountAttempt(r) ==
  /\ At(r, "verify")
  /\ ~request[r].right
  /\ code' = [code EXCEPT ![request[r].code].attempts = @ + 1]
  /\ Continue(r, None)
  /\ UNCHANGED <<configured, bot, running, account, sessions, botCrossed, raced>>

(* completeLogin of the authorization gateway.                             *)
OpenSession(r) ==
  /\ At(r, "session")
  /\ sessions' = [sessions EXCEPT ![request[r].code] = @ + 1]
  /\ Continue(r, None)
  /\ UNCHANGED <<configured, bot, running, account, code, botCrossed, raced>>

-----------------------------------------------------------------------------

NoteNext ==
  \/ Restart \/ BotDies
  \/ \E c \in Codes : Expire(c)
  \/ \E u \in Users : CreateMaxLinkCode(u) \/ UnlinkMax(u)
  \/ \E r \in Requests :
       \/ RequestFails(r)
       \/ \E token \in Tokens : UpdateMaxBot(r, token)
       \/ SaveConfiguration(r) \/ Activate(r)
       \/ \E x \in MaxUsers, c \in Codes : BotStarted(r, x, c)
       \/ UpsertAccount(r) \/ ConsumeLinkCode(r)
       \/ \E u \in Users, on \in BOOLEAN : FindAccount(r, u, on)
       \/ SwitchTwoFactor(r)
       \/ \E u \in Users : Login(r, u)
       \/ CreateChallenge(r) \/ SendCode(r)
       \/ \E c \in Codes, right \in BOOLEAN : ReadChallenge(r, c, right)
       \/ ConsumeChallenge(r) \/ CountAttempt(r) \/ OpenSession(r)

NoteSpec == NoteInit /\ [][NoteNext]_noteVars

-----------------------------------------------------------------------------
(* Properties                                                              *)

(* The types of the tables, of the fields of MaxBotService and of the      *)
(* requests in progress.                                                   *)
NoteTypeOK ==
  /\ {configured, bot} \subseteq Tokens \cup {None}
  /\ {running, botCrossed} \subseteq BOOLEAN
  /\ account \in [Users -> Accounts \cup {None}]
  /\ code \in [Codes -> Challenges \cup {None}]
  /\ sessions \in [Codes -> Nat]
  /\ request \in [Requests -> Pending \cup {None}]
  /\ raced \subseteq Codes

(* The bot in use is the one configured, so that after a restart the links *)
(* it gave out still lead to it, unless two updates overlapped: through    *)
(* failed requests, bots that die and restarts.                            *)
BotIsTheConfiguredOne ==
  bot # None /\ ~botCrossed /\ (\A r \in Requests : ~At(r, "activate")) => bot = configured

(* A code opens one session and bears MaxAttempts wrong answers. Answers   *)
(* checked at the same time may each succeed or fail once more, no others. *)
(* And no MAX account is linked to two users.                              *)
CodesWorkOnce ==
  /\ \A c \in Codes :
       LET more == IF c \in raced THEN Cardinality(Requests) - 1 ELSE 0 IN
       /\ sessions[c] <= 1 + more
       /\ code[c] # None => code[c].attempts <= MaxAttempts + more
  /\ \A u, v \in Users :
       u # v /\ account[u] # None /\ account[v] # None => account[u].max # account[v].max

=============================================================================
