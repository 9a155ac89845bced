---------------------------- MODULE ProcessesProofs ----------------------------
(***************************************************************************)
(* Proofs about the modules that MCProcesses checks: ProcessRunner,         *)
(* Notifications, DatabaseInit, ProcessCluster and PackageStatus.           *)
(* Each part has the inductive invariant of its module, a lemma that it    *)
(* holds at the start, one that every step keeps it, and the theorems.     *)
(***************************************************************************)
EXTENDS ProcessCluster, ProcessRunner, PackageStatus, DatabaseInit, Notifications,
        FiniteSetTheorems, SequenceTheorems, TLAPS

-----------------------------------------------------------------------------
(* ProcessRunner                                                           *)

(* The runner is right about a tab, or has spared it: one that is still to *)
(* open or runs without a file is none whose file was seen and taken away. *)
TabFiles ==
  mode # "wait" =>
    \A t \in Tabs :
      /\ tab[t] = "opening" => pidFile[t] = "none" /\ t \notin seen
      /\ tab[t] = "running" /\ pidFile[t] = "none" => t \in spared

(* A tab that is no longer awaited, and during a stop one that is not to   *)
(* be killed, has ended or been spared.                                    *)
TabsLetGo ==
  mode # "wait" =>
    \A t \in Tabs :
      tab[t] \in {"opening", "running"} /\ t \notin spared =>
        /\ t \in awaited
        /\ ~Ended
        /\ outcome = "stopping" => t \in killing

RunnerInv ==
  /\ RunnerTypeOK
  /\ TabFiles
  /\ TabsLetGo
  /\ mode = "unset" => outcome = "running"
  /\ outcome = "running" => killing = {}

LEMMA RunnerStarts == RunnerInit => RunnerInv
  BY DEF RunnerInit, RunnerInv, RunnerTypeOK, TabFiles, TabsLetGo, Ended

LEMMA TabStepKeeps ==
  ASSUME RunnerInv, NEW t \in Tabs, TabStep(t)
  PROVE  RunnerInv'
<1> USE DEF RunnerInv, RunnerTypeOK, TabFiles, TabsLetGo, Ended
<1>1. CASE OpenTab(t)
  BY <1>1 DEF OpenTab
<1>2. CASE WritePid(t)
  BY <1>2 DEF WritePid
<1>3. CASE CommandEnds(t)
  BY <1>3 DEF CommandEnds
<1>4. CASE RemovePid(t)
  BY <1>4 DEF RemovePid
<1>5. CASE CloseByHand(t)
  BY <1>5 DEF CloseByHand
<1> QED
  BY <1>1, <1>2, <1>3, <1>4, <1>5 DEF TabStep

LEMMA MonitorKeeps ==
  ASSUME RunnerInv, Monitor
  PROVE  RunnerInv'
<1> USE DEF RunnerInv, RunnerTypeOK, TabFiles, TabsLetGo, Ended
<1>1. CASE MonitorPids
  BY <1>1 DEF MonitorPids
<1>2. ASSUME NEW t \in Tabs, MonitorExit(t) PROVE RunnerInv'
  BY <1>2 DEF MonitorExit
<1> QED
  BY <1>1, <1>2 DEF Monitor

LEMMA RunnerSteps == RunnerInv /\ [RunnerNext]_runnerVars => RunnerInv'
<1> SUFFICES ASSUME RunnerInv, [RunnerNext]_runnerVars
             PROVE  RunnerInv'
  OBVIOUS
<1> USE DEF RunnerInv, RunnerTypeOK, TabFiles, TabsLetGo, Ended
<1>1. CASE Spawn
  BY <1>1 DEF Spawn
<1>2. CASE LauncherFails
  BY <1>2 DEF LauncherFails
<1>3. CASE Monitor
  BY <1>3, MonitorKeeps
<1>4. CASE Stop
  BY <1>4 DEF Stop
<1>5. ASSUME NEW t \in Tabs, TabStep(t) PROVE RunnerInv'
  BY <1>5, TabStepKeeps
<1>6. ASSUME NEW t \in Tabs, Kill(t) PROVE RunnerInv'
  BY <1>6 DEF Kill
<1>7. CASE UNCHANGED runnerVars
  BY <1>7 DEF runnerVars
<1> QED
  BY <1>1, <1>2, <1>3, <1>4, <1>5, <1>6, <1>7 DEF RunnerNext

(* In every reachable state the invariant of the runner holds.             *)
THEOREM RunnerInductive == RunnerSpec => []RunnerInv
  BY RunnerStarts, RunnerSteps, PTL DEF RunnerSpec

(* waitForSeparateWindowProcesses does not end before its tabs, except for *)
(* those that had no pid yet or were not killed, for any number of tabs.   *)
THEOREM RunnerWaits == RunnerSpec => []NoTabLeftRunning
<1>1. RunnerInv => NoTabLeftRunning
  BY DEF RunnerInv, TabsLetGo, NoTabLeftRunning
<1> QED
  BY <1>1, RunnerInductive, PTL

-----------------------------------------------------------------------------
(* Notifications                                                           *)

(* What a request in progress refers to.                                   *)
NeedsCode(r) ==
  request[r] # None /\ request[r].step \in {"upsert", "consume", "send", "verify", "session"}

References == \A r \in Requests : NeedsCode(r) => code[request[r].code] # None

(* A bot that was saved is activated, and is the one in use from then on.  *)
Bots ==
  ~botCrossed =>
    /\ \A r \in Requests : At(r, "activate") => request[r].token = configured
    /\ (\A r \in Requests : ~At(r, "activate")) => bot \in {configured, None}

OneUserEach ==
  \A u, v \in Users :
    u # v /\ account[u] # None /\ account[v] # None => account[u].max # account[v].max

(* The answers to a code that are being checked, those that will count as  *)
(* attempts, and those that will open a session.                           *)
Checking(c) == {r \in Requests : At(r, "verify") /\ request[r].code = c}

Wrong(c) == {r \in Checking(c) : ~request[r].right}

Opening(c) == {r \in Requests : At(r, "session") /\ request[r].code = c}

Winning(c) == Opening(c) \cup {r \in Checking(c) : request[r].right}

More(c) == IF c \in raced THEN Cardinality(Requests) - 1 ELSE 0

(* A code that is not consumed has opened no session, so that the first to *)
(* consume it finds at most the answers that are checked at that moment.   *)
(* Attempts are counted together with those about to be.                   *)
CodeOK(c) ==
  /\ code[c] = None => sessions[c] = 0 /\ c \notin raced
  /\ code[c] # None =>
       /\ ~code[c].consumed => sessions[c] = 0 /\ Opening(c) = {}
       /\ code[c].consumed => sessions[c] + Cardinality(Winning(c)) <= 1 + More(c)
       /\ code[c].attempts + Cardinality(Wrong(c)) <= MaxAttempts + More(c)
  /\ c \in raced => Requests # {}
  /\ c \notin raced => \A r, s \in Checking(c) : r = s

NoteInv ==
  /\ NoteTypeOK
  /\ References
  /\ Bots
  /\ OneUserEach
  /\ \A c \in Codes : CodeOK(c)

LEMMA NoteStarts == NoteInit => NoteInv
<1> SUFFICES ASSUME NoteInit PROVE NoteInv
  OBVIOUS
<1>1. NoteTypeOK
  BY DEF NoteInit, NoteTypeOK
<1>2. References /\ Bots /\ OneUserEach
  BY DEF NoteInit, References, NeedsCode, Bots, OneUserEach, At
<1>3. ASSUME NEW c \in Codes PROVE CodeOK(c)
  BY DEF NoteInit, CodeOK, Checking, At
<1> QED
  BY <1>1, <1>2, <1>3 DEF NoteInv

LEMMA AtMostOne ==
  ASSUME NEW S, \A r, s \in S : r = s
  PROVE  IsFiniteSet(S) /\ Cardinality(S) \in Nat /\ Cardinality(S) <= 1
<1>1. CASE S = {}
  BY <1>1, FS_EmptySet
<1>2. CASE S # {}
  <2>1. PICK x \in S : TRUE
    BY <1>2
  <2>2. S = {x}
    BY <2>1
  <2> QED
    BY <2>2, FS_Singleton
<1> QED
  BY <1>1, <1>2

(* A part of what is being done counts no more than all of it.             *)
LEMMA Counted ==
  ASSUME NEW S, NEW T, S \subseteq T, IsFiniteSet(T)
  PROVE  /\ IsFiniteSet(S)
         /\ Cardinality(S) \in Nat
         /\ Cardinality(T) \in Nat
         /\ Cardinality(S) <= Cardinality(T)
  BY FS_Subset, FS_CardinalityType

(* The sets of requests that are counted are parts of Requests.            *)
LEMMA CodeCounts ==
  ASSUME NoteTypeOK, NEW c \in Codes, CodeOK(c)
  PROVE  /\ IsFiniteSet(Checking(c)) /\ IsFiniteSet(Wrong(c)) /\ IsFiniteSet(Winning(c))
         /\ Cardinality(Wrong(c)) \in Nat
         /\ Cardinality(Winning(c)) \in Nat
         /\ Cardinality(Checking(c)) \in Nat
         /\ Cardinality(Checking(c)) <= 1 + More(c)
         /\ More(c) \in Nat
<1>1. Checking(c) \subseteq Requests /\ Wrong(c) \subseteq Requests /\ Winning(c) \subseteq Requests
  BY DEF Checking, Wrong, Winning, Opening
<1>2. IsFiniteSet(Requests)
  BY NoteAssumption
<1>3. Requests # {} => Cardinality(Requests) # 0
  BY <1>2, FS_EmptySet
<1>4. Cardinality(Requests) \in Nat
  BY <1>2, FS_CardinalityType
<1>5. More(c) \in Nat
  BY <1>3, <1>4 DEF More, CodeOK
<1>6. Cardinality(Checking(c)) <= 1 + More(c)
  <2>1. CASE c \in raced
    <3>1. Cardinality(Checking(c)) <= Cardinality(Requests)
      BY <1>1, <1>2, Counted
    <3> QED
      BY <2>1, <3>1, <1>4 DEF More
  <2>2. CASE c \notin raced
    <3>1. Cardinality(Checking(c)) <= 1
      BY <2>2, AtMostOne DEF CodeOK
    <3> QED
      BY <2>2, <3>1 DEF More
  <2> QED
    BY <2>1, <2>2
<1> QED
  BY <1>1, <1>2, <1>5, <1>6, Counted

InFlight(r, c) ==
  request[r] # None /\ request[r].step \in {"verify", "session"} /\ request[r].code = c

(* A code stays right when its row keeps its attempts and its consumption, *)
(* or is new, and nothing about it is begun.                               *)
LEMMA CodeFrame ==
  ASSUME NoteTypeOK, References, NEW c \in Codes, CodeOK(c),
         \/ code[c] = None /\ code'[c] = None
         \/ code[c] = None /\ code'[c] # None /\ code'[c].attempts = 0 /\ ~code'[c].consumed
         \/ /\ code[c] # None /\ code'[c] # None
            /\ code'[c].attempts = code[c].attempts
            /\ code'[c].consumed = code[c].consumed,
         sessions'[c] = sessions[c],
         c \in raced' <=> c \in raced,
         \A r \in Requests : InFlight(r, c)' => request'[r] = request[r]
  PROVE  CodeOK(c)'
<1>1. Checking(c)' \subseteq Checking(c) /\ Wrong(c)' \subseteq Wrong(c)
        /\ Opening(c)' \subseteq Opening(c) /\ Winning(c)' \subseteq Winning(c)
  BY DEF InFlight, Checking, Wrong, Opening, Winning, At
<1>2. Cardinality(Wrong(c)') \in Nat /\ Cardinality(Winning(c)') \in Nat
        /\ Cardinality(Wrong(c)') <= Cardinality(Wrong(c))
        /\ Cardinality(Winning(c)') <= Cardinality(Winning(c))
  BY <1>1, CodeCounts, Counted
<1>3. More(c)' = More(c) /\ More(c) \in Nat
  BY CodeCounts DEF More
<1>4. code[c] # None => code[c].attempts \in Nat /\ sessions[c] \in Nat
  BY DEF NoteTypeOK, Challenges
<1>5. MaxAttempts \in Nat
  BY NoteAssumption
<1>6. code[c] = None => Checking(c) = {} /\ Opening(c) = {}
  BY DEF References, NeedsCode, Checking, Opening, At
<1>7. CASE code[c] = None
  <2>1. Wrong(c)' = {} /\ Opening(c)' = {} /\ Checking(c)' = {}
    BY <1>1, <1>6, <1>7 DEF Wrong
  <2>2. Cardinality(Wrong(c)') = 0
    BY <2>1, FS_EmptySet
  <2> QED
    BY <1>3, <1>5, <1>7, <2>1, <2>2 DEF CodeOK
<1>8. CASE code[c] # None
  BY <1>1, <1>2, <1>3, <1>4, <1>5, <1>8, CodeCounts DEF CodeOK
<1> QED
  BY <1>7, <1>8

(* Steps that touch neither codes nor accounts: they only have to leave    *)
(* the bot right, and to begin nothing about a code.                       *)
LEMMA BotFrame ==
  ASSUME NoteInv, Bots',
         {configured', bot'} \subseteq Tokens \cup {None},
         {running', botCrossed'} \subseteq BOOLEAN,
         request' \in [Requests -> Pending \cup {None}],
         \A r \in Requests : NeedsCode(r)' => request'[r] = request[r],
         UNCHANGED <<account, code, sessions, raced>>
  PROVE  NoteInv'
<1>1. NoteTypeOK'
  BY DEF NoteInv, NoteTypeOK
<1>2. References'
  BY DEF NoteInv, References, NeedsCode
<1>3. OneUserEach'
  BY DEF NoteInv, OneUserEach
<1>4. ASSUME NEW c \in Codes PROVE CodeOK(c)'
  <2>1. \A r \in Requests : InFlight(r, c)' => request'[r] = request[r]
    BY DEF InFlight, NeedsCode
  <2>2. code[c] # None =>
          code'[c].attempts = code[c].attempts /\ code'[c].consumed = code[c].consumed
    OBVIOUS
  <2> QED
    BY <1>1, <2>1, <2>2, CodeFrame DEF NoteInv
<1> QED
  BY <1>1, <1>2, <1>3, <1>4 DEF NoteInv

LEMMA BotStepsKeep ==
  ASSUME NoteInv,
         \/ Restart \/ BotDies
         \/ \E r \in Requests :
              \/ RequestFails(r) \/ SaveConfiguration(r) \/ Activate(r)
              \/ \E token \in Tokens : UpdateMaxBot(r, token)
  PROVE  NoteInv'
<1> USE DEF NoteInv, NoteTypeOK, Bots, At, NeedsCode
<1>1. CASE Restart
  <2>1. request' \in [Requests -> Pending \cup {None}]
    BY <1>1 DEF Restart
  <2> QED
    BY <1>1, <2>1, BotFrame DEF Restart
<1>2. CASE BotDies
  BY <1>2, BotFrame DEF BotDies
<1>3. ASSUME NEW r \in Requests, RequestFails(r) PROVE NoteInv'
  BY <1>3, BotFrame DEF RequestFails, Continue
<1>4. ASSUME NEW r \in Requests, SaveConfiguration(r) PROVE NoteInv'
  <2> DEFINE q == [step |-> "activate", token |-> request[r].token]
  <2>1. request[r].token \in Tokens
    BY <1>4 DEF SaveConfiguration, Pending
  <2>2. q \in Pending
    BY <2>1 DEF Pending
  <2>3. request' = [request EXCEPT ![r] = q] /\ configured' = q.token
    BY <1>4 DEF SaveConfiguration, Continue
  <2>4. Bots'
    BY <1>4, <2>2, <2>3, NoteAssumption DEF SaveConfiguration
  <2> QED
    BY <1>4, <2>1, <2>2, <2>3, <2>4, BotFrame DEF SaveConfiguration
<1>5. ASSUME NEW r \in Requests, Activate(r) PROVE NoteInv'
  <2>1. request[r].token \in Tokens
    BY <1>5 DEF Activate, Pending
  <2> QED
    BY <1>5, <2>1, BotFrame DEF Activate, Continue
<1>6. ASSUME NEW r \in Requests, NEW token \in Tokens, UpdateMaxBot(r, token) PROVE NoteInv'
  <2> DEFINE q == [step |-> "save", token |-> token]
  <2>1. q \in Pending
    BY DEF Pending
  <2>2. request' = [request EXCEPT ![r] = q]
    BY <1>6 DEF UpdateMaxBot, Continue
  <2> QED
    BY <1>6, <2>1, <2>2, BotFrame DEF UpdateMaxBot
<1> QED
  BY <1>1, <1>2, <1>3, <1>4, <1>5, <1>6

(* The bot stays right when no request begins or ends its activation.      *)
LEMMA BotsKept ==
  ASSUME Bots, UNCHANGED <<configured, bot, botCrossed>>,
         NEW r \in Requests, ~At(r, "activate"),
         NEW q \in Pending \cup {None}, q # None => q.step # "activate",
         request \in [Requests -> Pending \cup {None}],
         request' = [request EXCEPT ![r] = q]
  PROVE  Bots'
<1>1. \A s \in Requests : At(s, "activate")' <=> At(s, "activate")
  BY DEF At
<1>2. \A s \in Requests : At(s, "activate") => request'[s] = request[s]
  OBVIOUS
<1> QED
  BY <1>1, <1>2 DEF Bots

(* What a request goes on to after a step that leaves the codes alone.     *)
Later(q) ==
  q # None =>
    /\ q.step \notin {"activate", "verify", "session"}
    /\ q.step \in {"upsert", "consume", "send"} => code[q.code] # None

LEMMA AccountFrame ==
  ASSUME NoteInv,
         account' \in [Users -> Accounts \cup {None}], OneUserEach',
         UNCHANGED <<configured, bot, running, code, sessions, botCrossed, raced>>,
         NEW r \in Requests, ~At(r, "activate"),
         NEW q \in Pending \cup {None}, Later(q),
         request' = [request EXCEPT ![r] = q]
  PROVE  NoteInv'
<1>1. NoteTypeOK'
  BY DEF NoteInv, NoteTypeOK
<1>2. References'
  BY DEF NoteInv, NoteTypeOK, References, NeedsCode, Later
<1>3. Bots'
  BY BotsKept DEF NoteInv, NoteTypeOK, Later
<1>4. ASSUME NEW c \in Codes PROVE CodeOK(c)'
  <2>1. \A s \in Requests : InFlight(s, c)' => request'[s] = request[s]
    BY DEF InFlight, Later, NoteInv, NoteTypeOK
  <2> QED
    BY <2>1, CodeFrame DEF NoteInv
<1> QED
  BY <1>1, <1>2, <1>3, <1>4 DEF NoteInv

LEMMA AccountStepsKeep ==
  ASSUME NoteInv,
         \/ \E u \in Users : UnlinkMax(u)
         \/ \E r \in Requests :
              \/ \E x \in MaxUsers, c \in Codes : BotStarted(r, x, c)
              \/ UpsertAccount(r) \/ SwitchTwoFactor(r)
              \/ \E u \in Users, on \in BOOLEAN : FindAccount(r, u, on)
              \/ \E u \in Users : Login(r, u)
  PROVE  NoteInv'
<1> USE DEF NoteInv, NoteTypeOK, At, Later
<1>1. ASSUME NEW u \in Users, UnlinkMax(u) PROVE NoteInv'
  <2>1. NoteTypeOK' /\ References' /\ Bots' /\ OneUserEach'
    BY <1>1 DEF UnlinkMax, References, NeedsCode, Bots, OneUserEach
  <2>2. ASSUME NEW c \in Codes PROVE CodeOK(c)'
    BY <1>1, <2>1, CodeFrame DEF UnlinkMax
  <2> QED
    BY <2>1, <2>2
<1>2. ASSUME NEW r \in Requests, NEW x \in MaxUsers, NEW c \in Codes, BotStarted(r, x, c)
      PROVE  NoteInv'
  <2>1. [step |-> "upsert", code |-> c, max |-> x] \in Pending
    BY DEF Pending
  <2> QED
    BY <1>2, <2>1, AccountFrame DEF BotStarted, Live, Continue, OneUserEach
<1>3. ASSUME NEW r \in Requests, UpsertAccount(r) PROVE NoteInv'
  <2> DEFINE q == [step |-> "consume", code |-> request[r].code]
             u == code[request[r].code].user
             x == request[r].max
             holders == {v \in Users \ {u} : account[v] # None /\ account[v].max = x}
             a == [max |-> x, twoFactor |-> FALSE]
  <2>1. request[r].code \in Codes /\ x \in MaxUsers
    BY <1>3 DEF UpsertAccount, Pending
  <2>2. code[request[r].code] # None
    BY <1>3 DEF UpsertAccount, References, NeedsCode
  <2>3. u \in Users
    BY <2>1, <2>2 DEF Challenges
  <2>4. a \in Accounts /\ q \in Pending
    BY <2>1 DEF Accounts, Pending
  <2>5. /\ account' = [v \in Users |-> IF v = u THEN a
                                       ELSE IF v \in holders THEN None ELSE account[v]]
        /\ request' = [request EXCEPT ![r] = q]
    BY <1>3 DEF UpsertAccount, Continue
  <2>6. OneUserEach'
    BY <2>3, <2>5 DEF OneUserEach
  <2>7. account' \in [Users -> Accounts \cup {None}]
    BY <2>4, <2>5
  <2> QED
    BY <1>3, <2>2, <2>4, <2>5, <2>6, <2>7, AccountFrame DEF UpsertAccount
<1>4. ASSUME NEW r \in Requests, SwitchTwoFactor(r) PROVE NoteInv'
  <2> DEFINE u == request[r].user
  <2>1. u \in Users /\ request[r].on \in BOOLEAN
    BY <1>4 DEF SwitchTwoFactor, Pending
  <2>2. PICK a : a = [account[u] EXCEPT !.twoFactor = request[r].on]
    OBVIOUS
  <2>3. account[u] # None => a \in Accounts /\ a.max = account[u].max
    BY <2>1, <2>2 DEF Accounts
  <2>4. account' = IF account[u] = None THEN account ELSE [account EXCEPT ![u] = a]
    BY <1>4, <2>1, <2>2 DEF SwitchTwoFactor
  <2>5. account' \in [Users -> Accounts \cup {None}] /\ OneUserEach'
    BY <2>1, <2>3, <2>4, NoteAssumption DEF OneUserEach
  <2> QED
    BY <1>4, <2>5, AccountFrame DEF SwitchTwoFactor, Continue
<1>5. ASSUME NEW r \in Requests, NEW u \in Users, NEW on \in BOOLEAN, FindAccount(r, u, on)
      PROVE  NoteInv'
  <2>1. [step |-> "switch", user |-> u, on |-> on] \in Pending
    BY DEF Pending
  <2> QED
    BY <1>5, <2>1, AccountFrame DEF FindAccount, Continue, OneUserEach
<1>6. ASSUME NEW r \in Requests, NEW u \in Users, Login(r, u) PROVE NoteInv'
  <2>1. [step |-> "create", user |-> u] \in Pending
    BY DEF Pending
  <2> QED
    BY <1>6, <2>1, AccountFrame DEF Login, Continue, OneUserEach
<1> QED
  BY <1>1, <1>2, <1>3, <1>4, <1>5, <1>6

(* Steps that concern codes: what is left to show is that they stay right. *)
LEMMA CodesFrame ==
  ASSUME NoteInv, NoteTypeOK',
         UNCHANGED <<configured, bot, running, account, botCrossed>>,
         \A c \in Codes : code[c] # None => code'[c] # None,
         NEW r \in Requests, ~At(r, "activate"),
         NEW q \in Pending \cup {None}, q # None => q.step # "activate",
         q # None /\ q.step \in {"upsert", "consume", "send", "verify", "session"} =>
           q.code \in Codes /\ code'[q.code] # None,
         request' = [request EXCEPT ![r] = q],
         \A c \in Codes : CodeOK(c)'
  PROVE  NoteInv'
<1>1. References'
  <2>1. ASSUME NEW s \in Requests, NeedsCode(s)' PROVE code'[request'[s].code] # None
    <3>1. CASE s = r
      BY <2>1, <3>1 DEF NeedsCode, NoteInv, NoteTypeOK
    <3>2. CASE s # r
      <4>1. request'[s] = request[s] /\ NeedsCode(s)
        BY <2>1, <3>2 DEF NeedsCode, NoteInv, NoteTypeOK
      <4>2. request[s].code \in Codes
        BY <4>1 DEF NeedsCode, NoteInv, NoteTypeOK, Pending
      <4> QED
        BY <4>1, <4>2 DEF NoteInv, References
    <3> QED
      BY <3>1, <3>2
  <2> QED
    BY <2>1 DEF References
<1>2. Bots'
  BY BotsKept DEF NoteInv, NoteTypeOK
<1>3. OneUserEach'
  BY DEF NoteInv, OneUserEach
<1> QED
  BY <1>1, <1>2, <1>3 DEF NoteInv

(* A code that is consumed, for the first time or again, opens no more     *)
(* sessions than there are answers on their way.                           *)
LEMMA ConsumedOK ==
  ASSUME NoteTypeOK, NEW c \in Codes, CodeOK(c), code[c] # None,
         code'[c] # None, code'[c].attempts = code[c].attempts, code'[c].consumed,
         UNCHANGED <<sessions, raced>>,
         Checking(c)' \subseteq Checking(c), Wrong(c)' \subseteq Wrong(c),
         Winning(c)' \subseteq Winning(c)
  PROVE  CodeOK(c)'
<1>1. /\ Cardinality(Wrong(c)') \in Nat /\ Cardinality(Winning(c)') \in Nat
      /\ Cardinality(Wrong(c)') <= Cardinality(Wrong(c))
      /\ Cardinality(Winning(c)') <= Cardinality(Winning(c))
  BY CodeCounts, Counted
<1>2. code[c].attempts \in Nat /\ code[c].consumed \in BOOLEAN /\ sessions[c] \in Nat
        /\ MaxAttempts \in Nat
  BY NoteAssumption DEF NoteTypeOK, Challenges
<1>3. More(c)' = More(c)
  BY DEF More
<1>4. sessions[c] + Cardinality(Winning(c)) <= 1 + More(c)
  <2>1. CASE code[c].consumed
    BY <2>1 DEF CodeOK
  <2>2. CASE ~code[c].consumed
    <3>1. Winning(c) \subseteq Checking(c) /\ sessions[c] = 0
      BY <2>2 DEF CodeOK, Winning
    <3>2. Cardinality(Winning(c)) <= Cardinality(Checking(c))
      BY <3>1, CodeCounts, Counted
    <3> QED
      BY <3>1, <3>2, CodeCounts
  <2> QED
    BY <1>2, <2>1, <2>2
<1> QED
  BY <1>1, <1>2, <1>3, <1>4, CodeCounts DEF CodeOK

(* Whatever is being done about one code, at most so much is.              *)
LEMMA Bounded ==
  ASSUME NEW S \in SUBSET Requests, NEW shared \in BOOLEAN,
         shared => Requests # {}, ~shared => \A r, s \in S : r = s
  PROVE  Cardinality(S) <= 1 + (IF shared THEN Cardinality(Requests) - 1 ELSE 0)
<1>1. Cardinality(Requests) \in Nat /\ Cardinality(S) <= Cardinality(Requests)
  BY NoteAssumption, Counted
<1>2. CASE shared
  BY <1>1, <1>2
<1>3. CASE ~shared
  BY <1>3, AtMostOne
<1> QED
  BY <1>2, <1>3

LEMMA NewCodesKeep ==
  ASSUME NoteInv,
         \/ \E c \in Codes : Expire(c)
         \/ \E u \in Users : CreateMaxLinkCode(u)
         \/ \E r \in Requests : CreateChallenge(r) \/ SendCode(r) \/ ConsumeLinkCode(r)
  PROVE  NoteInv'
<1> USE DEF NoteInv, NoteTypeOK, At
<1>1. ASSUME NEW c \in Codes, Expire(c) PROVE NoteInv'
  <2>1. PICK b : b = [code[c] EXCEPT !.expired = TRUE]
    OBVIOUS
  <2>2. b \in Challenges /\ b.attempts = code[c].attempts /\ b.consumed = code[c].consumed
    BY <1>1, <2>1 DEF Expire, Challenges
  <2>3. code' = [code EXCEPT ![c] = b]
    BY <1>1, <2>1 DEF Expire
  <2>4. b # None
    BY <2>2, NoteAssumption
  <2>5. NoteTypeOK'
    BY <1>1, <2>2, <2>3 DEF Expire
  <2>6. References' /\ Bots' /\ OneUserEach'
    <3>1. \A d \in Codes : code[d] # None => code'[d] # None
      BY <1>1, <2>3, <2>4
    <3>2. \A r \in Requests : NeedsCode(r) => request[r].code \in Codes
      BY DEF NeedsCode, Pending
    <3>3. References'
      BY <1>1, <3>1, <3>2 DEF Expire, References, NeedsCode
    <3>4. Bots' /\ OneUserEach'
      BY <1>1 DEF Expire, Bots, OneUserEach
    <3> QED
      BY <3>3, <3>4
  <2>7. ASSUME NEW d \in Codes PROVE CodeOK(d)'
    BY <1>1, <2>2, <2>3, <2>4, <2>5, CodeFrame DEF Expire
  <2> QED
    BY <2>5, <2>6, <2>7
<1>2. ASSUME NEW u \in Users, NEW c \in Codes, code[c] = None,
             code' = [code EXCEPT ![c] = NewCode(u, "max_link")], CreateMaxLinkCode(u)
      PROVE  NoteInv'
  <2>1. PICK b : b = NewCode(u, "max_link")
    OBVIOUS
  <2>2. b \in Challenges /\ b.attempts = 0 /\ ~b.consumed
    BY <2>1 DEF NewCode, Challenges
  <2>3. b # None /\ code' = [code EXCEPT ![c] = b]
    BY <1>2, <2>1, <2>2, NoteAssumption
  <2>4. NoteTypeOK'
    BY <1>2, <2>2, <2>3 DEF CreateMaxLinkCode
  <2>5. References' /\ Bots' /\ OneUserEach'
    BY <1>2, <2>3 DEF CreateMaxLinkCode, References, NeedsCode, Bots, OneUserEach
  <2>6. ASSUME NEW d \in Codes PROVE CodeOK(d)'
    BY <1>2, <2>2, <2>3, <2>4, CodeFrame DEF CreateMaxLinkCode
  <2> QED
    BY <2>4, <2>5, <2>6
<1>3. ASSUME NEW r \in Requests, CreateChallenge(r) PROVE NoteInv'
  <2>1. PICK c \in Codes :
          /\ code[c] = None
          /\ code' = [code EXCEPT ![c] = NewCode(request[r].user, "two_factor")]
          /\ request' = [request EXCEPT ![r] = [step |-> "send", code |-> c]]
    BY <1>3 DEF CreateChallenge, Fresh, Continue
  <2>2. request[r].user \in Users
    BY <1>3 DEF CreateChallenge, Pending
  <2>3. PICK b : b = NewCode(request[r].user, "two_factor")
    OBVIOUS
  <2>4. b \in Challenges /\ b.attempts = 0 /\ ~b.consumed
    BY <2>2, <2>3 DEF NewCode, Challenges
  <2>5. b # None /\ code' = [code EXCEPT ![c] = b]
    BY <2>1, <2>3, <2>4, NoteAssumption
  <2> DEFINE q == [step |-> "send", code |-> c]
  <2>6. q \in Pending
    BY DEF Pending
  <2>7. NoteTypeOK'
    BY <1>3, <2>1, <2>4, <2>5, <2>6 DEF CreateChallenge
  <2>8. ASSUME NEW d \in Codes PROVE CodeOK(d)'
    <3>1. \A s \in Requests : InFlight(s, d)' => request'[s] = request[s]
      BY <2>1, <2>6 DEF InFlight
    <3>2. sessions'[d] = sessions[d] /\ raced' = raced
      BY <1>3 DEF CreateChallenge
    <3> QED
      BY <2>1, <2>4, <2>5, <2>7, <3>1, <3>2, CodeFrame
  <2> QED
    BY <1>3, <2>1, <2>5, <2>6, <2>7, <2>8, CodesFrame DEF CreateChallenge
<1>4. ASSUME NEW r \in Requests, SendCode(r) PROVE NoteInv'
  <2> DEFINE c == request[r].code
  <2>1. c \in Codes /\ code[c] # None
    BY <1>4 DEF SendCode, Pending, References, NeedsCode
  <2>2. PICK b : b = [code[c] EXCEPT !.sent = (bot # None)]
    OBVIOUS
  <2>3. b \in Challenges /\ b.attempts = code[c].attempts /\ b.consumed = code[c].consumed
    BY <2>1, <2>2 DEF Challenges
  <2>4. b # None /\ code' = [code EXCEPT ![c] = b]
    BY <1>4, <2>2, <2>3, NoteAssumption DEF SendCode
  <2>5. request' = [request EXCEPT ![r] = None]
    BY <1>4 DEF SendCode, Continue
  <2>6. NoteTypeOK'
    BY <1>4, <2>3, <2>4, <2>5 DEF SendCode
  <2>7. ASSUME NEW d \in Codes PROVE CodeOK(d)'
    <3>1. \A s \in Requests : InFlight(s, d)' => request'[s] = request[s]
      BY <2>5 DEF InFlight
    <3>2. sessions'[d] = sessions[d] /\ raced' = raced
      BY <1>4 DEF SendCode
    <3> QED
      BY <2>1, <2>3, <2>4, <2>6, <3>1, <3>2, CodeFrame
  <2> QED
    BY <1>4, <2>4, <2>5, <2>6, <2>7, CodesFrame DEF SendCode
<1>5. ASSUME NEW r \in Requests, ConsumeLinkCode(r) PROVE NoteInv'
  <2> DEFINE c == request[r].code
  <2>1. c \in Codes /\ code[c] # None
    BY <1>5 DEF ConsumeLinkCode, Pending, References, NeedsCode
  <2>2. PICK b : b = [code[c] EXCEPT !.consumed = TRUE]
    OBVIOUS
  <2>3. b \in Challenges /\ b.attempts = code[c].attempts /\ b.consumed
    BY <2>1, <2>2 DEF Challenges
  <2>4. b # None /\ code' = [code EXCEPT ![c] = b]
    BY <1>5, <2>2, <2>3, NoteAssumption DEF ConsumeLinkCode
  <2>5. request' = [request EXCEPT ![r] = None]
    BY <1>5 DEF ConsumeLinkCode, Continue
  <2>6. NoteTypeOK'
    BY <1>5, <2>3, <2>4, <2>5 DEF ConsumeLinkCode
  <2>7. sessions' = sessions /\ raced' = raced
    BY <1>5 DEF ConsumeLinkCode
  <2>8. ASSUME NEW d \in Codes PROVE CodeOK(d)'
    <3>1. \A s \in Requests : InFlight(s, d)' => request'[s] = request[s]
      BY <2>5 DEF InFlight
    <3>2. CASE d = c
      <4>1. Checking(d)' \subseteq Checking(d) /\ Wrong(d)' \subseteq Wrong(d)
              /\ Winning(d)' \subseteq Winning(d)
        BY <3>1 DEF InFlight, Checking, Wrong, Winning, Opening
      <4>2. CodeOK(d) /\ NoteTypeOK
        OBVIOUS
      <4> QED
        BY <2>1, <2>3, <2>4, <2>7, <3>2, <4>1, <4>2, ConsumedOK
    <3>3. CASE d # c
      BY <2>4, <2>6, <2>7, <3>1, <3>3, CodeFrame
    <3> QED
      BY <3>2, <3>3
  <2> QED
    BY <1>5, <2>4, <2>5, <2>6, <2>8, CodesFrame DEF ConsumeLinkCode
<1> QED
  BY <1>1, <1>2, <1>3, <1>4, <1>5 DEF CreateMaxLinkCode, Fresh

LEMMA ReadChallengeKeeps ==
  ASSUME NoteInv, NEW r \in Requests, NEW c \in Codes, NEW right \in BOOLEAN,
         ReadChallenge(r, c, right)
  PROVE  NoteInv'
<1> USE DEF NoteInv, NoteTypeOK, At
<1> DEFINE q == [step |-> "verify", code |-> c, right |-> right]
<1>1. q \in Pending
  BY DEF Pending
<1>2. q # None /\ request' = [request EXCEPT ![r] = q] /\ request[r] = None
  BY <1>1, NoteAssumption DEF ReadChallenge, Continue
<1>3. UNCHANGED <<configured, bot, running, account, code, sessions, botCrossed>>
  BY DEF ReadChallenge
<1>4. code[c] # None /\ ~code[c].consumed /\ code[c].attempts < MaxAttempts
  BY DEF ReadChallenge, Live
<1>5. \A d \in Codes \ {c} : d \in raced' <=> d \in raced
  BY DEF ReadChallenge
<1>6. c \in raced => c \in raced'
  BY DEF ReadChallenge
<1>7. c \notin raced' => Checking(c) = {}
  BY DEF ReadChallenge, Checking
<1>8. NoteTypeOK'
  BY <1>1, <1>2, <1>3 DEF ReadChallenge
<1>9. Opening(c)' \subseteq Opening(c) /\ Checking(c)' \subseteq Checking(c) \cup {r}
  BY <1>2 DEF Opening, Checking
<1>10. c \notin raced' => \A s, t \in Checking(c)' : s = t
  BY <1>7, <1>9
<1>11. Wrong(c)' \in SUBSET Requests /\ Wrong(c)' \subseteq Checking(c)'
  BY DEF Wrong, Checking
<1>12. Cardinality(Wrong(c)') <= 1 + More(c)' /\ Cardinality(Wrong(c)') \in Nat
  <2>1. (c \in raced') \in BOOLEAN
    OBVIOUS
  <2>2. Cardinality(Wrong(c)') <=
          1 + (IF c \in raced' THEN Cardinality(Requests) - 1 ELSE 0)
    BY <1>10, <1>11, <2>1, Bounded
  <2>3. Cardinality(Wrong(c)') \in Nat
    BY <1>11, Counted, NoteAssumption
  <2> QED
    BY <2>2, <2>3 DEF More
<1>13. CodeOK(c)'
  <2>1. code[c].attempts \in Nat /\ MaxAttempts \in Nat /\ sessions[c] = 0 /\ Opening(c) = {}
    BY <1>4, NoteAssumption DEF CodeOK, Challenges
  <2>2. code[c].attempts + Cardinality(Wrong(c)') <= MaxAttempts + More(c)'
    <3>1. Cardinality(Requests) \in Nat
      BY NoteAssumption, FS_CardinalityType
    <3>2. More(c)' \in Int
      BY <3>1 DEF More
    <3> QED
      BY <1>4, <1>12, <2>1, <3>2
  <2> QED
    BY <1>3, <1>4, <1>9, <1>10, <2>1, <2>2 DEF CodeOK
<1>14. ASSUME NEW d \in Codes \ {c} PROVE CodeOK(d)'
  <2>1. \A s \in Requests : InFlight(s, d)' => request'[s] = request[s]
    BY <1>2 DEF InFlight
  <2> QED
    BY <1>3, <1>5, <1>8, <2>1, CodeFrame
<1>15. \A d \in Codes : CodeOK(d)'
  BY <1>13, <1>14
<1> QED
  BY <1>1, <1>2, <1>3, <1>4, <1>8, <1>15, CodesFrame

LEMMA ConsumeChallengeKeeps ==
  ASSUME NoteInv, NEW r \in Requests, ConsumeChallenge(r)
  PROVE  NoteInv'
<1> USE DEF NoteInv, NoteTypeOK, At
<1>0. request[r].code \in Codes
  BY DEF ConsumeChallenge, Pending
<1> PICK c \in Codes : c = request[r].code
  BY <1>0
<1> DEFINE q == [step |-> "session", code |-> c]
<1>1. c = request[r].code /\ code[c] # None /\ request[r] # None /\ request[r].step = "verify"
        /\ request[r].right
  BY DEF ConsumeChallenge, Pending, References, NeedsCode
<1>2. q \in Pending
  BY <1>1 DEF Pending
<1>3. q # None /\ request' = [request EXCEPT ![r] = q]
  BY <1>1, <1>2, NoteAssumption DEF ConsumeChallenge, Continue
<1>4. PICK b : b = [code[c] EXCEPT !.consumed = TRUE]
  OBVIOUS
<1>5. b \in Challenges /\ b.attempts = code[c].attempts /\ b.consumed
  BY <1>1, <1>4 DEF Challenges
<1>6. b # None /\ code' = [code EXCEPT ![c] = b]
  BY <1>4, <1>5, NoteAssumption DEF ConsumeChallenge
<1>7. UNCHANGED <<configured, bot, running, account, sessions, botCrossed, raced>>
  BY DEF ConsumeChallenge
<1>8. NoteTypeOK'
  BY <1>2, <1>3, <1>5, <1>6, <1>7
<1>9. CodeOK(c)'
  <2>1. Checking(c)' \subseteq Checking(c)
    BY <1>3 DEF Checking
  <2>2. Wrong(c)' \subseteq Wrong(c)
    BY <1>3, <2>1 DEF Wrong, Checking
  <2>3. Opening(c)' \subseteq Opening(c) \cup {r}
    BY <1>3 DEF Opening
  <2>4. r \in Winning(c)
    BY <1>1 DEF Winning, Checking
  <2>5. Winning(c)' \subseteq Winning(c)
    BY <1>3, <2>1, <2>3, <2>4 DEF Winning, Checking
  <2>6. CodeOK(c) /\ NoteTypeOK
    BY <1>1
  <2> QED
    BY <1>1, <1>5, <1>6, <1>7, <2>1, <2>2, <2>5, <2>6, ConsumedOK
<1>10. ASSUME NEW d \in Codes \ {c} PROVE CodeOK(d)'
  <2>1. \A s \in Requests : InFlight(s, d)' => request'[s] = request[s]
    BY <1>3 DEF InFlight
  <2> QED
    BY <1>6, <1>7, <1>8, <2>1, CodeFrame
<1>11. \A d \in Codes : CodeOK(d)'
  BY <1>9, <1>10
<1> QED
  BY <1>1, <1>2, <1>3, <1>6, <1>7, <1>8, <1>11, CodesFrame

LEMMA CountAttemptKeeps ==
  ASSUME NoteInv, NEW r \in Requests, CountAttempt(r)
  PROVE  NoteInv'
<1> USE DEF NoteInv, NoteTypeOK, At
<1>0. request[r].code \in Codes
  BY DEF CountAttempt, Pending
<1> PICK c \in Codes : c = request[r].code
  BY <1>0
<1>1. c = request[r].code /\ code[c] # None /\ request[r] # None /\ request[r].step = "verify"
        /\ ~request[r].right
  BY DEF CountAttempt, Pending, References, NeedsCode
<1>2. request' = [request EXCEPT ![r] = None]
  BY DEF CountAttempt, Continue
<1>3. PICK b : b = [code[c] EXCEPT !.attempts = code[c].attempts + 1]
  OBVIOUS
<1>4. b \in Challenges /\ b.attempts = code[c].attempts + 1 /\ b.consumed = code[c].consumed
  BY <1>1, <1>3 DEF Challenges
<1>5. b # None /\ code' = [code EXCEPT ![c] = b]
  BY <1>3, <1>4, NoteAssumption DEF CountAttempt
<1>6. UNCHANGED <<configured, bot, running, account, sessions, botCrossed, raced>>
  BY DEF CountAttempt
<1>7. NoteTypeOK'
  BY <1>2, <1>4, <1>5, <1>6
<1>8. CodeOK(c)'
  <2>1. Checking(c)' \subseteq Checking(c) /\ Opening(c)' \subseteq Opening(c)
    BY <1>2 DEF Checking, Opening
  <2>2. Winning(c)' \subseteq Winning(c)
    BY <1>2, <2>1 DEF Winning, Checking
  <2>3. r \in Wrong(c)
    BY <1>1 DEF Wrong, Checking
  <2>4. Wrong(c)' \subseteq Wrong(c) \ {r}
    BY <1>2 DEF Wrong, Checking
  <2>5. /\ CodeOK(c) /\ NoteTypeOK /\ IsFiniteSet(Wrong(c)) /\ IsFiniteSet(Winning(c))
        /\ Cardinality(Wrong(c)) \in Nat /\ More(c) \in Nat
    BY <1>1, CodeCounts
  <2>6. IsFiniteSet(Wrong(c) \ {r}) /\ Cardinality(Wrong(c) \ {r}) = Cardinality(Wrong(c)) - 1
    BY <2>3, <2>5, FS_RemoveElement
  <2>7. Cardinality(Wrong(c)') \in Nat /\ Cardinality(Wrong(c)') <= Cardinality(Wrong(c)) - 1
    BY <2>4, <2>6, Counted
  <2>8. /\ Cardinality(Winning(c)') \in Nat /\ Cardinality(Winning(c)) \in Nat
        /\ Cardinality(Winning(c)') <= Cardinality(Winning(c))
    BY <2>2, <2>5, Counted
  <2>9. /\ code[c].attempts \in Nat /\ code[c].consumed \in BOOLEAN /\ sessions[c] \in Nat
        /\ MaxAttempts \in Nat
    BY <1>1, NoteAssumption DEF Challenges
  <2>10. More(c)' = More(c)
    BY <1>6 DEF More
  <2>11. code'[c] = b
    BY <1>1, <1>5
  <2>12. b.attempts + Cardinality(Wrong(c)') <= MaxAttempts + More(c)
    BY <1>1, <1>4, <2>5, <2>7, <2>9 DEF CodeOK
  <2> QED
    BY <1>1, <1>4, <1>5, <1>6, <2>1, <2>5, <2>8, <2>9, <2>10, <2>11, <2>12 DEF CodeOK
<1>9. ASSUME NEW d \in Codes \ {c} PROVE CodeOK(d)'
  <2>1. \A s \in Requests : InFlight(s, d)' => request'[s] = request[s]
    BY <1>2 DEF InFlight
  <2> QED
    BY <1>5, <1>6, <1>7, <2>1, CodeFrame
<1>10. \A d \in Codes : CodeOK(d)'
  BY <1>8, <1>9
<1> QED
  BY <1>1, <1>2, <1>5, <1>6, <1>7, <1>10, CodesFrame

LEMMA OpenSessionKeeps ==
  ASSUME NoteInv, NEW r \in Requests, OpenSession(r)
  PROVE  NoteInv'
<1> USE DEF NoteInv, NoteTypeOK, At
<1>0. request[r].code \in Codes
  BY DEF OpenSession, Pending
<1> PICK c \in Codes : c = request[r].code
  BY <1>0
<1>1. c = request[r].code /\ code[c] # None /\ request[r] # None /\ request[r].step = "session"
  BY DEF OpenSession, Pending, References, NeedsCode
<1>2. request' = [request EXCEPT ![r] = None]
  BY DEF OpenSession, Continue
<1>3. sessions' = [sessions EXCEPT ![c] = sessions[c] + 1]
  BY DEF OpenSession
<1>4. UNCHANGED <<configured, bot, running, account, code, botCrossed, raced>>
  BY DEF OpenSession
<1>5. NoteTypeOK'
  BY <1>1, <1>2, <1>3, <1>4
<1>6. CodeOK(c)'
  <2>1. Checking(c)' \subseteq Checking(c) /\ Opening(c)' \subseteq Opening(c) \ {r}
    BY <1>2 DEF Checking, Opening
  <2>2. Wrong(c)' \subseteq Wrong(c)
    BY <1>2, <2>1 DEF Wrong, Checking
  <2>3. r \in Opening(c)
    BY <1>1 DEF Opening
  <2>4. Winning(c)' \subseteq Winning(c) \ {r} /\ r \in Winning(c)
    BY <1>2, <2>1, <2>3 DEF Winning, Checking
  <2>5. /\ CodeOK(c) /\ NoteTypeOK /\ IsFiniteSet(Wrong(c)) /\ IsFiniteSet(Winning(c))
        /\ Cardinality(Winning(c)) \in Nat /\ More(c) \in Nat
    BY <1>1, CodeCounts
  <2>6. IsFiniteSet(Winning(c) \ {r})
          /\ Cardinality(Winning(c) \ {r}) = Cardinality(Winning(c)) - 1
    BY <2>4, <2>5, FS_RemoveElement
  <2>7. Cardinality(Winning(c)') \in Nat
          /\ Cardinality(Winning(c)') <= Cardinality(Winning(c)) - 1
    BY <2>4, <2>6, Counted
  <2>8. /\ Cardinality(Wrong(c)') \in Nat /\ Cardinality(Wrong(c)) \in Nat
        /\ Cardinality(Wrong(c)') <= Cardinality(Wrong(c))
    BY <2>2, <2>5, Counted
  <2>9. /\ code[c].attempts \in Nat /\ code[c].consumed \in BOOLEAN /\ sessions[c] \in Nat
        /\ MaxAttempts \in Nat
    BY <1>1, NoteAssumption DEF Challenges
  <2>10. More(c)' = More(c)
    BY <1>4 DEF More
  <2>11. code[c].consumed
    BY <1>1, <2>3, <2>5, <2>9 DEF CodeOK
  <2>12. sessions'[c] + Cardinality(Winning(c)') <= 1 + More(c)
    BY <1>1, <1>3, <2>5, <2>7, <2>9, <2>11 DEF CodeOK
  <2> QED
    BY <1>1, <1>4, <2>1, <2>5, <2>8, <2>9, <2>10, <2>11, <2>12 DEF CodeOK
<1>7. ASSUME NEW d \in Codes \ {c} PROVE CodeOK(d)'
  <2>1. \A s \in Requests : InFlight(s, d)' => request'[s] = request[s]
    BY <1>2 DEF InFlight
  <2> QED
    BY <1>3, <1>4, <1>5, <2>1, CodeFrame
<1>8. \A d \in Codes : CodeOK(d)'
  BY <1>6, <1>7
<1> QED
  BY <1>1, <1>2, <1>4, <1>5, <1>8, CodesFrame

LEMMA NoteSteps == NoteInv /\ [NoteNext]_noteVars => NoteInv'
<1> SUFFICES ASSUME NoteInv, [NoteNext]_noteVars
             PROVE  NoteInv'
  OBVIOUS
<1>1. CASE UNCHANGED noteVars
  <2>1. NoteTypeOK' /\ Bots' /\ UNCHANGED <<account, code, sessions, raced, request>>
    BY <1>1 DEF noteVars, NoteInv, NoteTypeOK, Bots, At
  <2> QED
    BY <2>1, BotFrame DEF NoteInv, NoteTypeOK
<1>2. CASE NoteNext
  BY <1>2, BotStepsKeep, AccountStepsKeep, NewCodesKeep, ReadChallengeKeeps,
     ConsumeChallengeKeeps, CountAttemptKeeps, OpenSessionKeeps
     DEF NoteNext
<1> QED
  BY <1>1, <1>2

(* In every reachable state the invariant of the notifications holds.      *)
THEOREM NoteInductive == NoteSpec => []NoteInv
  BY NoteStarts, NoteSteps, PTL DEF NoteSpec

(* The tables, the bot and the requests have their types.                  *)
THEOREM NoteTypeCorrect == NoteSpec => []NoteTypeOK
<1>1. NoteInv => NoteTypeOK
  BY DEF NoteInv
<1> QED
  BY <1>1, NoteInductive, PTL

(* Unless two updates overlapped, the bot in use is the configured one, for*)
(* any number of tokens and requests.                                      *)
THEOREM BotIsConfigured == NoteSpec => []BotIsTheConfiguredOne
<1>1. NoteInv => BotIsTheConfiguredOne
  BY DEF NoteInv, Bots, BotIsTheConfiguredOne
<1> QED
  BY <1>1, NoteInductive, PTL

(* A code opens one session and bears so many wrong answers, and answers   *)
(* checked at once add no more than their number, for any number of codes, *)
(* requests and attempts. A MAX account belongs to one user.               *)
THEOREM CodesWork == NoteSpec => []CodesWorkOnce
<1>1. ASSUME NoteInv PROVE CodesWorkOnce
  <2>1. ASSUME NEW c \in Codes
        PROVE  /\ sessions[c] <= 1 + More(c)
               /\ code[c] # None => code[c].attempts <= MaxAttempts + More(c)
    <3>1. /\ NoteTypeOK /\ CodeOK(c) /\ sessions[c] \in Nat /\ MaxAttempts \in Nat
          /\ code[c] # None => code[c].attempts \in Nat /\ code[c].consumed \in BOOLEAN
      BY <1>1, NoteAssumption DEF NoteInv, NoteTypeOK, Challenges
    <3>2. Cardinality(Wrong(c)) \in Nat /\ Cardinality(Winning(c)) \in Nat /\ More(c) \in Nat
      BY <3>1, CodeCounts
    <3> QED
      BY <3>1, <3>2 DEF CodeOK
  <2> QED
    BY <1>1, <2>1 DEF NoteInv, OneUserEach, CodesWorkOnce, More
<1> QED
  BY <1>1, NoteInductive, PTL

-----------------------------------------------------------------------------
(* DatabaseInit                                                            *)

(* What a command that applies migrations knows: those it has not to apply *)
(* are recorded, and the statements before the next are done, committed or *)
(* in its transaction, which has statements of no other migration. Nothing *)
(* of it is left once the database has been dropped, but that a command of *)
(* PostgreSQL which outlived the drop was in no transaction.               *)
JobOK(j) ==
  /\ job[j].at >= 1
  /\ job[j].at > 1 => \E m \in DOMAIN Migrations : Applying(j, m)
  /\ job[j].at = 1 => job[j].tx = {}
  /\ job[j].pending # {} /\ ~job[j].old =>
       DOMAIN Migrations \subseteq recorded \cup job[j].pending
  /\ \A m \in DOMAIN Migrations :
       Applying(j, m) =>
         /\ job[j].tx \subseteq All(m)
         /\ ~job[j].old \/ dialect = "postgres" =>
              \A i \in 1..job[j].at - 1 : <<m, i>> \in effect \cup job[j].tx

(* MigrationsWhole, with the holders of the role by name.                  *)
Tables ==
  /\ \A m \in recorded :
       /\ m \in strayed \/ 1..m \subseteq recorded
       /\ (m \in strayed /\ dialect = "mysql") \/ All(m) \subseteq effect
  /\ \A m \in DOMAIN Migrations \ recorded :
       effect \cap All(m) # {} =>
         dialect = "mysql" /\ (m \in torn \cup strayed \/ \E j \in Jobs : Applying(j, m))
  /\ super = {"seeded", "other"} => reseeded

DbInv ==
  /\ DbTypeOK
  /\ Tables
  /\ \A j \in Jobs : JobOK(j)

LEMMA DbStarts == DbInit => DbInv
<1> SUFFICES ASSUME DbInit PROVE DbInv
  OBVIOUS
<1>1. Idle \in Commands /\ Idle.pending = {} /\ Idle.tx = {} /\ Idle.at = 1
  BY DEF Idle, Commands
<1>2. DbTypeOK
  BY <1>1 DEF DbInit, DbTypeOK
<1>3. Tables
  BY DEF DbInit, Tables
<1>4. ASSUME NEW j \in Jobs PROVE JobOK(j)
  BY <1>1 DEF DbInit, JobOK, Applying, First
<1> QED
  BY <1>2, <1>3, <1>4 DEF DbInv

LEMMA ProgramType == \A kind \in DOMAIN Program : Program[kind] \in Seq(Steps)
<1>1. /\ Setup \in Seq(Steps) /\ Migrate \in Seq(Steps)
      /\ Grants \in Seq(Steps) /\ Seeds \in Seq(Steps)
  BY DEF Setup, Migrate, Grants, Seeds, Steps
<1>2. <<"drop">> \in Seq(Steps)
  BY DEF Steps
<1>3. (<<"drop">> \o Setup \o Migrate \o Seeds \o Grants) \in Seq(Steps)
  BY <1>1, <1>2
<1>4. DOMAIN Program = {"drop", "setup", "migrate", "seed", "grants", "initialize"}
  BY DEF Program
<1>5. /\ Program["drop"] = <<"drop">> /\ Program["setup"] = Setup
      /\ Program["migrate"] = Migrate /\ Program["seed"] = Seeds
      /\ Program["grants"] = Grants
      /\ Program["initialize"] = <<"drop">> \o Setup \o Migrate \o Seeds \o Grants
  BY DEF Program
<1> QED
  BY <1>1, <1>2, <1>3, <1>4, <1>5

(* A command that is done with a step has nothing of a migration left.     *)
LEMMA DoneJob ==
  ASSUME DbTypeOK, NEW j \in Jobs, job[j].steps # <<>>
  PROVE  \E b \in Commands :
           /\ Done(j) = [job EXCEPT ![j] = b]
           /\ b.pending = {} /\ b.tx = {} /\ b.at = 1
<1>1. PICK b : b = [Idle EXCEPT !.steps = Tail(job[j].steps)]
  OBVIOUS
<1>2. job[j].steps \in Seq(Steps)
  BY DEF DbTypeOK, Commands
<1>3. Tail(job[j].steps) \in Seq(Steps)
  BY <1>2
<1>4. b \in Commands /\ b.pending = {} /\ b.tx = {} /\ b.at = 1
  BY <1>1, <1>3 DEF Idle, Commands
<1> QED
  BY <1>1, <1>4 DEF Done

LEMMA JobFrame ==
  ASSUME NEW k \in Jobs, JobOK(k), job'[k] = job[k],
         recorded \subseteq recorded', effect \subseteq effect', UNCHANGED dialect
  PROVE  JobOK(k)'
<1>1. \A m : Applying(k, m)' <=> Applying(k, m)
  BY DEF Applying, Step, First
<1> QED
  BY <1>1 DEF JobOK, All

LEMMA JobClear ==
  ASSUME NEW k \in Jobs, job'[k].pending = {}, job'[k].tx = {}, job'[k].at = 1
  PROVE  JobOK(k)'
  BY DEF JobOK, Applying, First

(* A step of a command that applies no migration: it changes none of the   *)
(* tables that matter, or gives the role of superadministrator as allowed. *)
LEMMA PlainStep ==
  ASSUME DbInv, NEW j \in Jobs, \A m \in DOMAIN Migrations : ~Applying(j, m),
         NEW b \in Commands, job' = [job EXCEPT ![j] = b],
         b.tx = {}, b.at = 1,
         b.pending = {} \/ DOMAIN Migrations \subseteq recorded \cup b.pending,
         UNCHANGED <<dialect, effect, recorded, torn, strayed>>,
         {exists', listed', mock', reseeded'} \subseteq BOOLEAN,
         users' \subseteq {"service", "runtime"}, may' \subseteq {"service", "runtime"},
         super' \subseteq {"seeded", "other"},
         super' = {"seeded", "other"} => reseeded'
  PROVE  DbInv'
<1>1. DbTypeOK'
  BY DEF DbInv, DbTypeOK
<1>2. \A k \in Jobs, m \in DOMAIN Migrations : Applying(k, m) => Applying(k, m)'
  BY DEF DbInv, DbTypeOK, Applying, Step, First
<1>3. Tables'
  BY <1>2 DEF DbInv, Tables, All
<1>4. ASSUME NEW k \in Jobs PROVE JobOK(k)'
  <2>1. CASE k = j
    <3>1. job'[k] = b
      BY <2>1 DEF DbInv, DbTypeOK
    <3>2. \A m \in DOMAIN Migrations : 1..b.at - 1 = {} /\ b.tx \subseteq All(m)
      OBVIOUS
    <3> QED
      BY <3>1, <3>2 DEF JobOK
  <2>2. CASE k # j
    BY <2>2, JobFrame DEF DbInv, DbTypeOK
  <2> QED
    BY <2>1, <2>2
<1> QED
  BY <1>1, <1>3, <1>4 DEF DbInv

LEMMA StartKeeps ==
  ASSUME DbInv, NEW j \in Jobs, NEW kind \in DOMAIN Program, StartCommand(j, kind)
  PROVE  DbInv'
<1>1. PICK p \in Seq(Steps) : p = Program[kind]
  BY ProgramType
<1>2. PICK b : b = [Idle EXCEPT !.steps = p]
  OBVIOUS
<1>3. b \in Commands /\ b.pending = {} /\ b.tx = {} /\ b.at = 1
  BY <1>2 DEF Idle, Commands
<1>4. job[j] = Idle /\ job' = [job EXCEPT ![j] = b]
  BY <1>1, <1>2 DEF StartCommand
<1>5. \A m \in DOMAIN Migrations : ~Applying(j, m)
  BY <1>4 DEF Idle, Applying, First
<1>6. /\ UNCHANGED <<dialect, exists, users, may, effect, listed, recorded, mock, super>>
      /\ UNCHANGED <<torn, strayed, reseeded>>
  BY DEF StartCommand, data
<1>7. /\ {exists', listed', mock', reseeded'} \subseteq BOOLEAN
      /\ users' \subseteq {"service", "runtime"} /\ may' \subseteq {"service", "runtime"}
      /\ super' \subseteq {"seeded", "other"}
      /\ super' = {"seeded", "other"} => reseeded'
  BY <1>6 DEF DbInv, DbTypeOK, Tables
<1> QED
  BY <1>3, <1>4, <1>5, <1>6, <1>7, PlainStep

(* The steps that end with Done.                                           *)
LEMMA DoneStepsKeep ==
  ASSUME DbInv, NEW j \in Jobs,
         \/ CreateUser(j) \/ CreateDatabase(j) \/ Revoke(j) \/ Grant(j)
         \/ Migrated(j) \/ Seed(j) \/ SeedMock(j)
  PROVE  DbInv'
<1>1. /\ job[j].steps # <<>> /\ job' = Done(j)
      /\ UNCHANGED <<dialect, effect, listed, recorded>>
      /\ UNCHANGED <<torn, strayed>>
  BY DEF CreateUser, CreateDatabase, Revoke, Grant, Migrated, Seed, SeedMock, Step, data
<1>2. PICK b \in Commands : /\ job' = [job EXCEPT ![j] = b]
                            /\ b.pending = {} /\ b.tx = {} /\ b.at = 1
  BY <1>1, DoneJob DEF DbInv
<1>3. \A m \in DOMAIN Migrations : ~Applying(j, m)
  BY DEF CreateUser, CreateDatabase, Revoke, Grant, Migrated, Seed, SeedMock, Step,
         Applying, First
<1>4. exists' \in BOOLEAN /\ mock' \in BOOLEAN /\ listed' \in BOOLEAN
  BY DEF CreateUser, CreateDatabase, Revoke, Grant, Migrated, Seed, SeedMock, data,
         DbInv, DbTypeOK
<1>5. User(j) \in {"service", "runtime"}
  BY DEF User
<1>6. users' \subseteq {"service", "runtime"} /\ may' \subseteq {"service", "runtime"}
  BY <1>5 DEF CreateUser, CreateDatabase, Revoke, Grant, Migrated, Seed, SeedMock,
              DbInv, DbTypeOK
<1>7. /\ reseeded' \in BOOLEAN /\ super' \subseteq {"seeded", "other"}
      /\ super' = {"seeded", "other"} => reseeded'
  <2>1. CASE Seed(j)
    BY <2>1 DEF Seed, DbInv, DbTypeOK, Tables
  <2>2. CASE ~Seed(j)
    BY <2>2 DEF CreateUser, CreateDatabase, Revoke, Grant, Migrated, SeedMock, data,
                DbInv, DbTypeOK, Tables
  <2> QED
    BY <2>1, <2>2
<1> QED
  BY <1>1, <1>2, <1>3, <1>4, <1>6, <1>7, PlainStep

LEMMA ReadMigrationsKeeps ==
  ASSUME DbInv, NEW j \in Jobs, ReadMigrations(j)
  PROVE  DbInv'
<1>1. PICK b \in Commands : /\ Done(j) = [job EXCEPT ![j] = b]
                            /\ b.pending = {} /\ b.tx = {} /\ b.at = 1
  BY DoneJob DEF ReadMigrations, Step, DbInv
<1>2. PICK d : d = [b EXCEPT !.pending = DOMAIN Migrations \ recorded]
  OBVIOUS
<1>3. /\ d \in Commands /\ d.tx = {} /\ d.at = 1
      /\ DOMAIN Migrations \subseteq recorded \cup d.pending
  BY <1>1, <1>2 DEF Commands
<1>4. job' = [job EXCEPT ![j] = d]
  BY <1>1, <1>2 DEF ReadMigrations, DbInv, DbTypeOK
<1>5. \A m \in DOMAIN Migrations : ~Applying(j, m)
  BY DEF ReadMigrations, Step, Applying
<1>6. listed' = TRUE
  BY DEF ReadMigrations
<1>7. /\ UNCHANGED <<dialect, exists, users, may, effect, recorded, mock, super>>
      /\ UNCHANGED <<torn, strayed, reseeded>>
  BY DEF ReadMigrations
<1>8. /\ {exists', listed', mock', reseeded'} \subseteq BOOLEAN
      /\ users' \subseteq {"service", "runtime"} /\ may' \subseteq {"service", "runtime"}
      /\ super' \subseteq {"seeded", "other"}
      /\ super' = {"seeded", "other"} => reseeded'
  BY <1>6, <1>7 DEF DbInv, DbTypeOK, Tables
<1> QED
  BY <1>3, <1>4, <1>5, <1>7, <1>8, PlainStep

LEMMA JobFailsKeeps ==
  ASSUME DbInv, NEW j \in Jobs, JobFails(j)
  PROVE  DbInv'
<1>1. Idle \in Commands /\ Idle.pending = {} /\ Idle.tx = {} /\ Idle.at = 1
  BY DEF Idle, Commands
<1>2. job' = [job EXCEPT ![j] = Idle] /\ job[j] \in Commands
  BY DEF JobFails, DbInv, DbTypeOK
<1>3. UNCHANGED <<dialect, exists, users, may, listed, recorded, mock, super, reseeded>>
  BY DEF JobFails
<1>4. /\ effect \subseteq effect' /\ strayed \subseteq strayed'
      /\ effect' \subseteq (DOMAIN Migrations) \X Nat /\ strayed' \subseteq DOMAIN Migrations
      /\ \A n \in DOMAIN Migrations :
           effect' \cap All(n) # {} =>
             effect \cap All(n) # {} \/ (dialect = "mysql" /\ Applying(j, n))
  <2>1. CASE UNCHANGED <<effect, strayed>>
    BY <2>1 DEF DbInv, DbTypeOK
  <2>2. CASE ~UNCHANGED <<effect, strayed>>
    <3>1. PICK m \in DOMAIN Migrations :
            /\ Applying(j, m) /\ dialect = "mysql"
            /\ effect' = effect \cup job[j].tx
            /\ strayed' = IF job[j].old THEN strayed \cup {m} ELSE strayed
      BY <2>2 DEF JobFails
    <3>2. job[j].tx \subseteq All(m) /\ job[j].tx \subseteq (DOMAIN Migrations) \X Nat
      BY <1>2, <3>1 DEF DbInv, JobOK, Commands
    <3>3. \A n \in DOMAIN Migrations : n # m => All(m) \cap All(n) = {}
      BY DEF All
    <3> QED
      BY <3>1, <3>2, <3>3 DEF DbInv, DbTypeOK
  <2> QED
    BY <2>1, <2>2
<1>5. torn' = torn \cup {m \in DOMAIN Migrations \ recorded :
                           Applying(j, m) /\ effect' \cap All(m) # {}}
  BY DEF JobFails
<1>6. DbTypeOK'
  BY <1>1, <1>2, <1>3, <1>4, <1>5 DEF DbInv, DbTypeOK
<1>7. Tables'
  <2>1. ASSUME NEW m \in DOMAIN Migrations \ recorded, effect' \cap All(m) # {}
        PROVE  /\ dialect = "mysql"
               /\ m \in torn' \cup strayed' \/ \E k \in Jobs : Applying(k, m)'
    <3>1. dialect = "mysql" /\ (m \in torn \cup strayed \/ \E k \in Jobs : Applying(k, m))
      BY <1>4, <2>1 DEF DbInv, Tables
    <3>2. CASE m \in torn \cup strayed \/ Applying(j, m)
      BY <1>4, <1>5, <2>1, <3>1, <3>2
    <3>3. CASE \E k \in Jobs \ {j} : Applying(k, m)
      BY <1>2, <3>1, <3>3 DEF Applying, Step, First, DbInv, DbTypeOK
    <3> QED
      BY <3>1, <3>2, <3>3
  <2> QED
    BY <1>3, <1>4, <2>1 DEF DbInv, Tables, All
<1>8. ASSUME NEW k \in Jobs PROVE JobOK(k)'
  <2>1. CASE k = j
    BY <1>1, <1>2, <2>1, JobClear DEF DbInv, DbTypeOK
  <2>2. CASE k # j
    BY <1>2, <1>3, <1>4, <2>2, JobFrame DEF DbInv, DbTypeOK
  <2> QED
    BY <2>1, <2>2
<1> QED
  BY <1>6, <1>7, <1>8 DEF DbInv

(* A command that outlives a drop: it claims nothing of what it has read.  *)
LEMMA DropKeeps ==
  ASSUME DbInv, NEW j \in Jobs, Drop(j)
  PROVE  DbInv'
<1>1. Idle \in Commands /\ Idle.pending = {} /\ Idle.tx = {} /\ Idle.at = 1
  BY DEF Idle, Commands
<1>2. PICK b \in Commands : /\ Done(j) = [job EXCEPT ![j] = b]
                            /\ b.pending = {} /\ b.tx = {} /\ b.at = 1
  BY DoneJob DEF Drop, Step, DbInv
<1>3. job' = [k \in Jobs |-> IF k = j THEN b ELSE AfterDrop(k)]
  BY <1>2 DEF Drop, DbInv, DbTypeOK
<1>4. ASSUME NEW k \in Jobs
      PROVE  /\ AfterDrop(k) \in Commands
             /\ \/ AfterDrop(k) = Idle
                \/ /\ dialect = "mysql" \/ job[k].at = 1
                   /\ AfterDrop(k).steps = job[k].steps
                   /\ AfterDrop(k).pending = job[k].pending
                   /\ AfterDrop(k).at = job[k].at /\ AfterDrop(k).tx = job[k].tx
                   /\ AfterDrop(k).old = (job[k].pending # {})
  <2>1. PICK o \in BOOLEAN : o = (job[k].pending # {})
    OBVIOUS
  <2>2. PICK r : r = [job[k] EXCEPT !.old = o]
    OBVIOUS
  <2>3. job[k] \in Commands /\ job[k].at >= 1 /\ job[k].at \in Nat
    BY DEF DbInv, DbTypeOK, JobOK, Commands
  <2>4. /\ r \in Commands /\ r.steps = job[k].steps /\ r.pending = job[k].pending
        /\ r.at = job[k].at /\ r.tx = job[k].tx /\ r.old = o
    BY <2>2, <2>3 DEF Commands
  <2>5. \/ AfterDrop(k) = Idle
        \/ ~(dialect = "postgres" /\ job[k].at > 1) /\ AfterDrop(k) = r
    BY <2>1, <2>2 DEF AfterDrop
  <2>6. dialect \in {"mysql", "postgres"}
    BY DEF DbInv, DbTypeOK
  <2> QED
    BY <1>1, <2>1, <2>3, <2>4, <2>5, <2>6
<1>5. DbTypeOK'
  BY <1>3, <1>4 DEF Drop, DbInv, DbTypeOK
<1>6. Tables'
  BY DEF Drop, Tables
<1>7. ASSUME NEW k \in Jobs PROVE JobOK(k)'
  <2>1. CASE k = j \/ AfterDrop(k) = Idle
    BY <1>1, <1>2, <1>3, <2>1, JobClear
  <2>2. CASE k # j /\ AfterDrop(k) # Idle
    <3>1. /\ dialect = "mysql" \/ job[k].at = 1
          /\ job'[k].steps = job[k].steps /\ job'[k].pending = job[k].pending
          /\ job'[k].at = job[k].at /\ job'[k].tx = job[k].tx
          /\ job'[k].old = (job[k].pending # {})
      BY <1>3, <1>4, <2>2
    <3>2. \A m : Applying(k, m)' <=> Applying(k, m)
      BY <3>1 DEF Applying, Step, First
    <3>3. JobOK(k) /\ UNCHANGED dialect
      BY DEF DbInv, Drop
    <3>4. job[k].tx = {}
      BY <3>1, <3>3 DEF Drop, JobOK
    <3>5. /\ job'[k].at >= 1 /\ job'[k].tx = {}
          /\ job'[k].at > 1 => \E m \in DOMAIN Migrations : Applying(k, m)'
      BY <3>1, <3>2, <3>3, <3>4 DEF JobOK
    <3>6. job'[k].pending # {} => job'[k].old
      BY <3>1
    <3>7. ASSUME NEW m \in DOMAIN Migrations, Applying(k, m)', dialect' = "postgres"
          PROVE  1..job'[k].at - 1 = {}
      BY <3>1, <3>3, <3>7
    <3>8. ASSUME NEW m \in DOMAIN Migrations, Applying(k, m)'
          PROVE  job'[k].old
      BY <3>6, <3>8 DEF Applying, First
    <3> QED
      BY <3>5, <3>6, <3>7, <3>8 DEF JobOK
  <2> QED
    BY <2>1, <2>2
<1> QED
  BY <1>5, <1>6, <1>7 DEF DbInv

LEMMA RunStatementKeeps ==
  ASSUME DbInv, NEW j \in Jobs, NEW m \in DOMAIN Migrations, RunStatement(j, m)
  PROVE  DbInv'
<1> DEFINE s == <<m, job[j].at>>
<1>1. PICK commits \in BOOLEAN :
        commits = (dialect = "mysql" /\ (Migrations[m][job[j].at].ddl \/ ~job[j].open))
  OBVIOUS
<1>2. PICK b : b = [job[j] EXCEPT !.at = job[j].at + 1,
                                  !.open = job[j].open /\ ~commits,
                                  !.tx = IF commits THEN {} ELSE job[j].tx \cup {s}]
  OBVIOUS
<1>3. job[j] \in Commands /\ Applying(j, m) /\ s \in All(m)
  BY DEF RunStatement, DbInv, DbTypeOK
<1>4. /\ b \in Commands /\ b.steps = job[j].steps /\ b.pending = job[j].pending
      /\ b.at = job[j].at + 1 /\ b.old = job[j].old
      /\ b.tx = IF commits THEN {} ELSE job[j].tx \cup {s}
  <2>1. s \in (DOMAIN Migrations) \X Nat
    BY <1>3 DEF Commands
  <2>2. PICK tx \in SUBSET ((DOMAIN Migrations) \X Nat), open \in BOOLEAN :
          /\ tx = IF commits THEN {} ELSE job[j].tx \cup {s}
          /\ open = (job[j].open /\ ~commits)
    BY <1>3, <2>1 DEF Commands
  <2>3. job[j].at + 1 \in Nat /\ job[j].at >= 1
    BY <1>3 DEF Commands, DbInv, JobOK
  <2>4. b = [job[j] EXCEPT !.at = job[j].at + 1, !.open = open, !.tx = tx]
    BY <1>2, <2>2
  <2>5. b = [steps |-> job[j].steps, pending |-> job[j].pending, at |-> job[j].at + 1,
             open |-> open, tx |-> tx, old |-> job[j].old]
    BY <1>3, <2>4 DEF Commands
  <2> QED
    BY <1>3, <2>2, <2>3, <2>5 DEF Commands
<1>5. job' = [job EXCEPT ![j] = b]
  BY <1>1, <1>2 DEF RunStatement
<1>6. effect' = IF commits THEN effect \cup job[j].tx \cup {s} ELSE effect
  BY <1>1 DEF RunStatement
<1>7. /\ UNCHANGED <<dialect, exists, users, may, listed, recorded, mock, super, torn>>
      /\ UNCHANGED reseeded
      /\ strayed' = IF commits /\ job[j].old THEN strayed \cup {m} ELSE strayed
  BY <1>1 DEF RunStatement
<1>8. effect' \subseteq effect \cup All(m) /\ effect \subseteq effect'
        /\ (effect' # effect => dialect = "mysql")
  BY <1>1, <1>3, <1>6 DEF DbInv, JobOK
<1>9. \A k \in Jobs, n \in DOMAIN Migrations : Applying(k, n) <=> Applying(k, n)'
  BY <1>4, <1>5 DEF Applying, Step, First, DbInv, DbTypeOK
<1>10. DbTypeOK'
  BY <1>3, <1>4, <1>5, <1>6, <1>7 DEF DbInv, DbTypeOK, Commands
<1>11. Tables'
  <2>1. ASSUME NEW n \in DOMAIN Migrations \ recorded, effect' \cap All(n) # {}
        PROVE  /\ dialect = "mysql"
               /\ n \in torn \cup strayed' \/ \E k \in Jobs : Applying(k, n)'
    <3>1. CASE effect \cap All(n) # {}
      BY <1>7, <1>9, <2>1, <3>1 DEF DbInv, Tables
    <3>2. CASE effect \cap All(n) = {}
      <4>1. n = m /\ effect' # effect
        BY <1>8, <2>1, <3>2 DEF All
      <4> QED
        BY <1>3, <1>8, <1>9, <4>1
    <3> QED
      BY <3>1, <3>2
  <2> QED
    BY <1>7, <1>8, <2>1 DEF DbInv, Tables, All
<1>12. ASSUME NEW k \in Jobs PROVE JobOK(k)'
  <2>1. CASE k = j
    <3>1. /\ job'[j] = b /\ \E n \in DOMAIN Migrations : Applying(j, n)'
          /\ \A n \in DOMAIN Migrations : Applying(j, n)' => n = m
      BY <1>3, <1>5, <1>9, DbAssumption DEF Applying, First, DbInv, DbTypeOK
    <3>2. b.pending # {} /\ ~b.old => DOMAIN Migrations \subseteq recorded \cup b.pending
      BY <1>4 DEF DbInv, JobOK
    <3>3. b.tx \subseteq All(m)
      BY <1>3, <1>4 DEF DbInv, JobOK
    <3>4. b.at >= 1 /\ b.at # 1
      BY <1>3, <1>4 DEF Commands, DbInv, JobOK
    <3>5. ASSUME NEW i \in 1..b.at - 1, ~b.old \/ dialect = "postgres" PROVE <<m, i>> \in effect' \cup b.tx
      <4>1. CASE i = job[j].at
        BY <1>4, <1>6, <4>1
      <4>2. CASE i # job[j].at
        <5>1. i \in 1..job[j].at - 1
          BY <1>3, <1>4, <4>2 DEF Commands
        <5>2. <<m, i>> \in effect \cup job[j].tx
          BY <1>3, <1>4, <3>5, <5>1 DEF DbInv, JobOK
        <5> QED
          BY <1>4, <1>6, <5>2
      <4> QED
        BY <4>1, <4>2
    <3> QED
      BY <1>7, <2>1, <3>1, <3>2, <3>3, <3>4, <3>5 DEF JobOK, All
  <2>2. CASE k # j
    BY <1>5, <1>7, <1>8, <2>2, JobFrame DEF DbInv, DbTypeOK
  <2> QED
    BY <2>1, <2>2
<1> QED
  BY <1>10, <1>11, <1>12 DEF DbInv

LEMMA RecordMigrationKeeps ==
  ASSUME DbInv, NEW j \in Jobs, NEW m \in DOMAIN Migrations, RecordMigration(j, m)
  PROVE  DbInv'
<1>1. PICK b : b = [job[j] EXCEPT !.pending = job[j].pending \ {m}, !.at = 1,
                                  !.open = TRUE, !.tx = {}]
  OBVIOUS
<1>2. job[j] \in Commands /\ Applying(j, m) /\ <<m, job[j].at>> \notin All(m)
  BY DEF RecordMigration, DbInv, DbTypeOK
<1>3. /\ b \in Commands /\ b.pending = job[j].pending \ {m} /\ b.tx = {} /\ b.at = 1
      /\ b.steps = job[j].steps /\ b.old = job[j].old
  BY <1>1, <1>2 DEF Commands
<1>4. job' = [job EXCEPT ![j] = b]
  BY <1>1 DEF RecordMigration
<1>5. /\ effect' = effect \cup job[j].tx /\ recorded' = recorded \cup {m}
      /\ torn' = torn \ {m}
      /\ strayed' = IF job[j].old THEN strayed \cup {m} ELSE strayed
      /\ UNCHANGED <<dialect, exists, users, may, listed, mock, super, reseeded>>
  BY DEF RecordMigration
<1>6. DbTypeOK'
  BY <1>2, <1>3, <1>4, <1>5 DEF DbInv, DbTypeOK, Commands
<1>7. job[j].tx \subseteq All(m)
  BY <1>2 DEF DbInv, JobOK
<1>8. ASSUME ~job[j].old \/ dialect = "postgres" PROVE All(m) \subseteq effect'
  <2>1. DOMAIN Migrations[m] = 1..Len(Migrations[m]) /\ Len(Migrations[m]) \in Nat
    BY DbAssumption
  <2>2. DOMAIN Migrations[m] \subseteq 1..job[j].at - 1
    <3>1. job[j].at \in Nat /\ job[j].at >= 1 /\ job[j].at \notin DOMAIN Migrations[m]
      BY <1>2 DEF All, Commands, DbInv, JobOK
    <3> QED
      BY <2>1, <3>1
  <2> QED
    BY <1>2, <1>5, <1>8, <2>2 DEF All, DbInv, JobOK
<1>9. ASSUME ~job[j].old PROVE 1..m \subseteq recorded'
  <2>1. DOMAIN Migrations = 1..Len(Migrations) /\ Len(Migrations) \in Nat
    BY DbAssumption
  <2>2. ASSUME NEW n \in 1..m, n # m PROVE n \in recorded
    <3>1. n \in DOMAIN Migrations /\ n < m
      BY <2>1, <2>2
    <3>2. n \notin job[j].pending
      BY <1>2, <2>1, <3>1 DEF Applying, First
    <3> QED
      BY <1>2, <1>9, <3>1, <3>2 DEF Applying, First, DbInv, JobOK
  <2> QED
    BY <1>5, <2>2
<1>10. Tables'
  <2>1. ASSUME NEW n \in DOMAIN Migrations \ recorded', effect' \cap All(n) # {}
        PROVE  /\ dialect = "mysql"
               /\ n \in torn' \cup strayed' \/ \E k \in Jobs : Applying(k, n)'
    <3>1. n # m /\ effect \cap All(n) # {}
      BY <1>5, <1>7, <2>1 DEF All
    <3>2. dialect = "mysql" /\ (n \in torn \cup strayed \/ \E k \in Jobs : Applying(k, n))
      BY <1>5, <2>1, <3>1 DEF DbInv, Tables
    <3>3. ~Applying(j, n)
      BY <1>2, <3>1, DbAssumption DEF Applying, First
    <3>4. \A k \in Jobs \ {j} : Applying(k, n) => Applying(k, n)'
      BY <1>4 DEF Applying, Step, First, DbInv, DbTypeOK
    <3> QED
      BY <1>5, <3>1, <3>2, <3>3, <3>4
  <2>2. Tables'
    <3>1. strayed \subseteq strayed' /\ (job[j].old => m \in strayed')
      BY <1>5
    <3>2. dialect \in {"mysql", "postgres"}
      BY DEF DbInv, DbTypeOK
    <3>3. m \in strayed' \/ 1..m \subseteq recorded'
      BY <1>9, <3>1
    <3>4. (m \in strayed' /\ dialect' = "mysql") \/ All(m) \subseteq effect'
      BY <1>5, <1>8, <3>1, <3>2
    <3> QED
      BY <1>5, <2>1, <3>1, <3>3, <3>4 DEF DbInv, Tables, All
  <2> QED
    BY <2>2
<1>11. ASSUME NEW k \in Jobs PROVE JobOK(k)'
  <2>1. CASE k = j
    <3>1. job'[k] = b
      BY <1>4, <2>1 DEF DbInv, DbTypeOK
    <3>2. b.pending # {} /\ ~b.old => DOMAIN Migrations \subseteq recorded' \cup b.pending
      BY <1>2, <1>3, <1>5 DEF Applying, First, DbInv, JobOK
    <3>3. \A n \in DOMAIN Migrations : 1..b.at - 1 = {} /\ b.tx \subseteq All(n)
      BY <1>3
    <3> QED
      BY <1>3, <3>1, <3>2, <3>3 DEF JobOK
  <2>2. CASE k # j
    BY <1>4, <1>5, <2>2, JobFrame DEF DbInv, DbTypeOK
  <2> QED
    BY <2>1, <2>2
<1> QED
  BY <1>6, <1>10, <1>11 DEF DbInv

(* What Cardinality says of the holders of the role.                       *)
LEMMA Holders ==
  ASSUME NEW S, S \subseteq {"seeded", "other"}
  PROVE  /\ Cardinality(S) > 1 => S = {"seeded", "other"}
         /\ Cardinality(S) = 1 => {"seeded", "other"} \ S # {"seeded", "other"}
<1>1. CASE S = {}
  BY <1>1, FS_EmptySet
<1>2. ASSUME NEW x \in {"seeded", "other"}, S = {x}
      PROVE  Cardinality(S) = 1 /\ {"seeded", "other"} \ S # {"seeded", "other"}
  BY <1>2, FS_Singleton
<1>3. S = {} \/ S = {"seeded"} \/ S = {"other"} \/ S = {"seeded", "other"}
  OBVIOUS
<1>4. {"seeded", "other"} \ {"seeded", "other"} # {"seeded", "other"}
  OBVIOUS
<1> QED
  BY <1>1, <1>2, <1>3, <1>4

LEMMA DbSteps == DbInv /\ [DbNext]_dbVars => DbInv'
<1> SUFFICES ASSUME DbInv, [DbNext]_dbVars
             PROVE  DbInv'
  OBVIOUS
<1>1. CASE Transfer \/ UNCHANGED dbVars
  <2>1. /\ UNCHANGED <<dialect, exists, users, may, effect, listed, recorded, mock, job>>
        /\ UNCHANGED <<torn, strayed, reseeded>>
    BY <1>1 DEF Transfer, dbVars
  <2>2. /\ super' \subseteq {"seeded", "other"}
        /\ super' = {"seeded", "other"} => reseeded'
    BY <1>1, Holders DEF Transfer, dbVars, DbInv, DbTypeOK, Tables
  <2>3. DbTypeOK'
    BY <2>1, <2>2 DEF DbInv, DbTypeOK
  <2>4. \A j \in Jobs, m \in DOMAIN Migrations : Applying(j, m)' <=> Applying(j, m)
    BY <2>1 DEF Applying, Step, First
  <2>5. Tables'
    BY <2>1, <2>2, <2>4 DEF DbInv, Tables, All
  <2>6. \A j \in Jobs : JobOK(j)'
    BY <2>1, JobFrame DEF DbInv
  <2> QED
    BY <2>3, <2>5, <2>6 DEF DbInv
<1>2. ASSUME NEW j \in Jobs, NEW kind \in DOMAIN Program, StartCommand(j, kind) PROVE DbInv'
  BY <1>2, StartKeeps
<1>3. ASSUME NEW j \in Jobs,
             \/ JobFails(j) \/ Drop(j) \/ CreateUser(j) \/ CreateDatabase(j) \/ Revoke(j)
             \/ Grant(j) \/ ReadMigrations(j) \/ Migrated(j) \/ Seed(j) \/ SeedMock(j)
      PROVE  DbInv'
  BY <1>3, JobFailsKeeps, DropKeeps, DoneStepsKeep, ReadMigrationsKeeps
<1>4. ASSUME NEW j \in Jobs, NEW m \in DOMAIN Migrations,
             RunStatement(j, m) \/ RecordMigration(j, m)
      PROVE  DbInv'
  BY <1>4, RunStatementKeeps, RecordMigrationKeeps
<1> QED
  BY <1>1, <1>2, <1>3, <1>4 DEF DbNext

(* In every reachable state the invariant of the database holds.           *)
THEOREM DbInductive == DbSpec => []DbInv
  BY DbStarts, DbSteps, PTL DEF DbSpec

(* The tables and the commands in progress have their types.               *)
THEOREM DbTypeCorrect == DbSpec => []DbTypeOK
<1>1. DbInv => DbTypeOK
  BY DEF DbInv
<1> QED
  BY <1>1, DbInductive, PTL

(* However many commands overlap, fail and are repeated, for any list of   *)
(* migrations: recorded ones are whole and come first, the others have no  *)
(* effect except on MySQL, and two hold the role only after a second seed. *)
(* What a command that outlived a drop wrote in may come out of order, and *)
(* in part on MySQL.                                                       *)
THEOREM MigrationsAreWhole == DbSpec => []MigrationsWhole
<1>1. DbInv => MigrationsWhole
  <2> SUFFICES ASSUME DbInv PROVE MigrationsWhole
    OBVIOUS
  <2>1. Cardinality(super) > 1 => reseeded
    BY Holders DEF DbInv, DbTypeOK, Tables
  <2> QED
    BY <2>1 DEF DbInv, Tables, MigrationsWhole
<1> QED
  BY <1>1, DbInductive, PTL

-----------------------------------------------------------------------------
(* ProcessCluster                                                          *)

(* Until it refuses one, the primary remembers exactly the restarts it has *)
(* made within the window; a refused one is not made.                      *)
Restarts ==
  /\ Len(forks) <= Limit
  /\ ~shutting => restarts = forks

(* A shutdown waits for no fewer workers than run.                         *)
Workers ==
  /\ ~shutting => Cardinality(In("alive")) = WorkerCount
  /\ shutting /\ primary = "running" => Cardinality(In("alive")) <= waiting

ClusterInv == ClusterTypeOK /\ Restarts /\ Workers

Ages == 0..Window + 1

LEMMA AliveCounts ==
  ASSUME NEW S \in SUBSET WorkerSlots
  PROVE  /\ IsFiniteSet(S) /\ Cardinality(S) \in Nat
         /\ Cardinality(WorkerSlots) \in Nat
         /\ Cardinality(S) <= Cardinality(WorkerSlots)
  BY ClusterAssumption, Counted

(* Recent and Older keep sequences of ages, and make none longer.          *)
LEMMA RecentAges ==
  ASSUME NEW s \in Seq(Ages)
  PROVE  Recent(s) \in Seq(Ages) /\ Len(Recent(s)) \in Nat /\ Len(Recent(s)) <= Len(s)
<1> DEFINE young == {i \in DOMAIN s : s[i] <= Window}
<1>1. DOMAIN s = 1..Len(s) /\ Len(s) \in Nat
  BY LenProperties
<1>2. IsFiniteSet(1..Len(s)) /\ Cardinality(1..Len(s)) = Len(s)
  BY <1>1, FS_Interval
<1>3. young \subseteq 1..Len(s)
  BY <1>1
<1> HIDE DEF young
<1>4. Cardinality(young) \in Nat /\ Cardinality(young) <= Len(s)
  BY <1>2, <1>3, Counted
<1>5. PICK n \in Nat : n = Cardinality(young) /\ n <= Len(s)
  BY <1>4
<1>6. Recent(s) = SubSeq(s, 1, n)
  BY <1>5 DEF Recent, young
<1>7. \A i \in 1..n : s[i] \in Ages
  BY <1>1, <1>5, ElementOfSeq
<1> QED
  BY <1>1, <1>5, <1>6, <1>7, SubSeqProperties

LEMMA OlderAges ==
  ASSUME NEW s \in Seq(Ages)
  PROVE  Older(s) \in Seq(Ages) /\ Len(Older(s)) = Len(s)
<1>1. DOMAIN s = 1..Len(s) /\ Len(s) \in Nat /\ \A i \in 1..Len(s) : s[i] \in Ages
  BY LenProperties, ElementOfSeq
<1>2. \A i \in 1..Len(s) : (IF s[i] > Window THEN s[i] ELSE s[i] + 1) \in Ages
  BY <1>1, ClusterAssumption DEF Ages
<1>3. Older(s) \in [1..Len(s) -> Ages]
  BY <1>1, <1>2 DEF Older
<1>4. Older(s) \in Seq(Ages)
  BY <1>1, <1>3, SeqDef
<1> QED
  BY <1>1, <1>3, <1>4, LenProperties

LEMMA ClusterStarts == ClusterInit => ClusterInv
<1> SUFFICES ASSUME ClusterInit PROVE ClusterInv
  OBVIOUS
<1>1. /\ WorkerCount \in Nat \ {0} /\ MaxRestartsPerWorker \in Nat /\ Window \in Nat
      /\ 1..WorkerCount \subseteq WorkerSlots /\ WorkerSlots \subseteq Nat \ {0}
  BY ClusterAssumption
<1>2. In("alive") = 1..WorkerCount
  BY <1>1 DEF ClusterInit, In
<1>3. Cardinality(In("alive")) = WorkerCount
  BY <1>1, <1>2, FS_Interval
<1>4. <<>> \in Seq(Ages) /\ Len(<<>>) = 0
  BY EmptySeq
<1>5. Cardinality(WorkerSlots) \in Nat
  BY AliveCounts
<1>6. ClusterTypeOK
  <2>1. worker \in [WorkerSlots -> {"free", "alive", "dead"}]
    BY DEF ClusterInit
  <2>2. restarts \in Seq(0..Window + 1) /\ forks \in Seq(0..Window + 1)
    BY <1>4 DEF ClusterInit, Ages
  <2>3. waiting \in 0..Cardinality(WorkerSlots)
    BY <1>5 DEF ClusterInit
  <2> QED
    BY <2>1, <2>2, <2>3 DEF ClusterInit, ClusterTypeOK
<1>7. Limit \in Nat
  BY <1>1 DEF Limit
<1> QED
  BY <1>3, <1>4, <1>6, <1>7 DEF ClusterInit, ClusterInv, Restarts, Workers

(* A worker that exits and is replaced by none.                            *)
LEMMA OneLess ==
  ASSUME ClusterTypeOK, NEW w \in WorkerSlots, worker[w] = "alive",
         worker' = [worker EXCEPT ![w] = "dead"]
  PROVE  /\ Cardinality(In("alive")) \in Nat \ {0}
         /\ Cardinality(In("alive")') = Cardinality(In("alive")) - 1
<1>1. In("alive")' = In("alive") \ {w} /\ w \in In("alive")
  BY DEF In, ClusterTypeOK
<1>2. IsFiniteSet(In("alive")) /\ Cardinality(In("alive")) \in Nat
  BY AliveCounts DEF In
<1>3. Cardinality(In("alive") \ {w}) = Cardinality(In("alive")) - 1
  BY <1>1, <1>2, FS_RemoveElement
<1>4. In("alive")' \in SUBSET WorkerSlots
  BY DEF In
<1>5. Cardinality(In("alive")') \in Nat
  BY <1>4, AliveCounts
<1> QED
  BY <1>1, <1>2, <1>3, <1>5

(* One that is replaced by another.                                        *)
LEMMA AsMany ==
  ASSUME ClusterTypeOK, NEW w \in WorkerSlots, worker[w] = "alive",
         NEW v \in In("free"),
         worker' = [worker EXCEPT ![w] = "dead", ![v] = "alive"]
  PROVE  Cardinality(In("alive")') = Cardinality(In("alive"))
<1>1. /\ In("alive")' = (In("alive") \ {w}) \cup {v}
      /\ w \in In("alive") /\ v \notin In("alive")
  BY DEF In, ClusterTypeOK
<1>2. IsFiniteSet(In("alive")) /\ Cardinality(In("alive")) \in Nat
  BY AliveCounts DEF In
<1>3. IsFiniteSet(In("alive") \ {w})
        /\ Cardinality(In("alive") \ {w}) = Cardinality(In("alive")) - 1
  BY <1>1, <1>2, FS_RemoveElement
<1>4. Cardinality((In("alive") \ {w}) \cup {v}) = Cardinality(In("alive") \ {w}) + 1
  BY <1>1, <1>3, FS_AddElement
<1> QED
  BY <1>1, <1>2, <1>3, <1>4

LEMMA ExitKeeps ==
  ASSUME ClusterInv, NEW w \in WorkerSlots, Exit(w)
  PROVE  ClusterInv'
<1> USE DEF ClusterInv, ClusterTypeOK
<1> DEFINE now == Recent(<<0>> \o restarts)
<1>1. worker[w] = "alive" /\ ~shutting /\ restarts' = now /\ primary = "running"
        /\ UNCHANGED killed
  BY DEF Exit
<1>2. restarts \in Seq(Ages) /\ restarts = forks
  BY <1>1 DEF Ages, Restarts
<1>3. (<<0>> \o restarts) \in Seq(Ages)
  <2>1. 0 \in Ages
    BY ClusterAssumption DEF Ages
  <2>2. <<0>> \in Seq(Ages)
    BY <2>1
  <2> QED
    BY <1>2, <2>2, ConcatProperties
<1>4. now \in Seq(Ages) /\ Len(now) \in Nat
  BY <1>3, RecentAges
<1>5. WorkerSlots \ In("free") \in SUBSET WorkerSlots /\ In("alive") \subseteq WorkerSlots \ In("free")
        /\ w \in In("alive")
  BY <1>1 DEF In
<1>6. CASE Len(now) > Limit
  <2>1. /\ worker' = [worker EXCEPT ![w] = "dead"] /\ forks' = forks
        /\ Shutdown(WorkerSlots \ In("free"))
    BY <1>6 DEF Exit
  <2>2. /\ Cardinality(WorkerSlots \ In("free")) \in 0..Cardinality(WorkerSlots)
        /\ Cardinality(In("alive")) <= Cardinality(WorkerSlots \ In("free"))
    <3>1. IsFiniteSet(WorkerSlots \ In("free"))
      BY <1>5, AliveCounts
    <3> QED
      BY <1>5, <3>1, AliveCounts, Counted
  <2>3. /\ Cardinality(In("alive")) \in Nat \ {0}
        /\ Cardinality(In("alive")') = Cardinality(In("alive")) - 1
    BY <1>1, <2>1, OneLess
  <2>4. ClusterTypeOK'
    BY <1>1, <1>2, <1>4, <2>1, <2>2 DEF Shutdown, Ages
  <2>5. Restarts'
    BY <2>1 DEF Restarts, Shutdown, Limit
  <2>6. Workers'
    BY <2>1, <2>2, <2>3 DEF Workers, Shutdown
  <2> QED
    BY <2>4, <2>5, <2>6
<1>7. CASE ~(Len(now) > Limit)
  <2>1. PICK v \in In("free") : worker' = [worker EXCEPT ![w] = "dead", ![v] = "alive"]
    BY <1>7 DEF Exit
  <2>2. /\ forks' = Recent(<<0>> \o forks)
        /\ UNCHANGED <<shutting, waiting, primary>>
    BY <1>7 DEF Exit
  <2>3. forks' = now
    BY <1>2, <2>2
  <2>4. Cardinality(In("alive")') = Cardinality(In("alive"))
    BY <1>1, <2>1, AsMany
  <2>5. ClusterTypeOK'
    BY <1>1, <1>4, <2>1, <2>2, <2>3 DEF Ages
  <2>6. Limit \in Nat
    BY ClusterAssumption DEF Limit
  <2>7. Restarts'
    BY <1>1, <1>4, <1>7, <2>3, <2>6 DEF Restarts, Limit
  <2>8. Workers'
    BY <1>1, <2>2, <2>4 DEF Workers
  <2> QED
    BY <2>5, <2>7, <2>8
<1> QED
  BY <1>6, <1>7

LEMMA ClusterSteps == ClusterInv /\ [ClusterNext]_clusterVars => ClusterInv'
<1> SUFFICES ASSUME ClusterInv, [ClusterNext]_clusterVars
             PROVE  ClusterInv'
  OBVIOUS
<1> USE DEF ClusterInv, ClusterTypeOK
<1>1. CASE Signal
  <2>1. WorkerSlots \ In("free") \in SUBSET WorkerSlots /\ In("alive") \subseteq WorkerSlots \ In("free")
    BY DEF In
  <2>2. IsFiniteSet(WorkerSlots \ In("free"))
    BY <2>1, AliveCounts
  <2>3. /\ Cardinality(WorkerSlots \ In("free")) \in 0..Cardinality(WorkerSlots)
        /\ Cardinality(In("alive")) <= Cardinality(WorkerSlots \ In("free"))
    BY <2>1, <2>2, AliveCounts, Counted
  <2>4. In("alive")' = In("alive")
    BY <1>1 DEF Signal, In
  <2>5. ClusterTypeOK'
    BY <1>1, <2>3 DEF Signal, Shutdown
  <2>6. Restarts' /\ Workers'
    BY <1>1, <2>3, <2>4 DEF Signal, Shutdown, Restarts, Workers, Limit
  <2> QED
    BY <2>5, <2>6
<1>2. CASE KillTimer \/ EventLoopEnds \/ UNCHANGED clusterVars
  <2>1. UNCHANGED <<worker, restarts, forks, shutting, waiting>>
    BY <1>2 DEF KillTimer, EventLoopEnds, clusterVars
  <2>2. killed' \in BOOLEAN /\ primary' \in {"running", "ended"}
          /\ (primary' = "running" => primary = "running")
    BY <1>2 DEF KillTimer, EventLoopEnds, clusterVars
  <2>3. In("alive")' = In("alive")
    BY <2>1 DEF In
  <2> QED
    BY <2>1, <2>2, <2>3 DEF Restarts, Workers, Limit
<1>3. CASE Tick
  <2>1. restarts \in Seq(Ages) /\ forks \in Seq(Ages)
    BY DEF Ages
  <2>2. /\ restarts' \in Seq(Ages) /\ forks' \in Seq(Ages) /\ Len(forks') = Len(forks)
        /\ (restarts = forks => restarts' = forks')
    BY <1>3, <2>1, OlderAges DEF Tick
  <2>3. UNCHANGED <<worker, shutting, waiting, killed, primary>>
    BY <1>3 DEF Tick
  <2>4. In("alive")' = In("alive")
    BY <2>3 DEF In
  <2>5. ClusterTypeOK'
    BY <2>2, <2>3 DEF Ages
  <2>6. Restarts' /\ Workers'
    BY <2>2, <2>3, <2>4 DEF Restarts, Workers, Limit
  <2> QED
    BY <2>5, <2>6
<1>4. ASSUME NEW w \in WorkerSlots, Exit(w) PROVE ClusterInv'
  BY <1>4, ExitKeeps
<1>5. ASSUME NEW w \in WorkerSlots, ExitInShutdown(w) PROVE ClusterInv'
  <2>1. worker' = [worker EXCEPT ![w] = "dead"] /\ worker[w] = "alive"
          /\ waiting' = waiting - 1 /\ shutting /\ primary = "running"
          /\ UNCHANGED <<restarts, forks, shutting, killed>>
          /\ primary' \in {"running", "ended"}
    BY <1>5 DEF ExitInShutdown
  <2>2. /\ Cardinality(In("alive")) \in Nat \ {0}
        /\ Cardinality(In("alive")') = Cardinality(In("alive")) - 1
    BY <2>1, OneLess
  <2>3. Cardinality(In("alive")) <= waiting /\ waiting \in 0..Cardinality(WorkerSlots)
    BY <2>1 DEF Workers
  <2>4. Cardinality(WorkerSlots) \in Nat
    BY AliveCounts
  <2>5. waiting' \in 0..Cardinality(WorkerSlots) /\ Cardinality(In("alive")') <= waiting'
    BY <2>1, <2>2, <2>3, <2>4
  <2>6. ClusterTypeOK'
    BY <2>1, <2>5
  <2>7. Restarts' /\ Workers'
    BY <2>1, <2>5 DEF Restarts, Workers, Limit
  <2> QED
    BY <2>6, <2>7
<1>6. ASSUME NEW w \in WorkerSlots, Disconnect(w) PROVE ClusterInv'
  <2>1. worker' = [worker EXCEPT ![w] = "free"] /\ worker[w] = "dead"
          /\ UNCHANGED <<restarts, forks, shutting, waiting, killed, primary>>
    BY <1>6 DEF Disconnect
  <2>2. In("alive")' = In("alive")
    BY <2>1 DEF In
  <2> QED
    BY <2>1, <2>2 DEF Restarts, Workers, Limit
<1> QED
  BY <1>1, <1>2, <1>3, <1>4, <1>5, <1>6 DEF ClusterNext

(* In every reachable state the invariant of the cluster holds.            *)
THEOREM ClusterInductive == ClusterSpec => []ClusterInv
  BY ClusterStarts, ClusterSteps, PTL DEF ClusterSpec

(* Among others: a shutdown never waits for fewer than none.               *)
THEOREM ClusterTypeCorrect == ClusterSpec => []ClusterTypeOK
<1>1. ClusterInv => ClusterTypeOK
  BY DEF ClusterInv
<1> QED
  BY <1>1, ClusterInductive, PTL

(* For any number of workers, any limit and any window: within a window no *)
(* more restarts are made than the limit, and until one is refused as many *)
(* workers run as were asked for.                                          *)
THEOREM RestartsAreBounded == ClusterSpec => []RestartsBounded
<1>1. ClusterInv => RestartsBounded
  <2> SUFFICES ASSUME ClusterInv PROVE RestartsBounded
    OBVIOUS
  <2>1. forks \in Seq(Ages)
    BY DEF ClusterInv, ClusterTypeOK, Ages
  <2>2. Len(Recent(forks)) \in Nat /\ Len(Recent(forks)) <= Len(forks) /\ Len(forks) \in Nat
    BY <2>1, RecentAges, LenProperties
  <2>3. Limit \in Nat
    BY ClusterAssumption DEF Limit
  <2> QED
    BY <2>2, <2>3 DEF ClusterInv, Restarts, Workers, RestartsBounded
<1> QED
  BY <1>1, ClusterInductive, PTL

-----------------------------------------------------------------------------
(* PackageStatus                                                           *)

(* The event that will be the last one stored.                             *)
Last(e) ==
  \/ \E t \in Chains : chain[t].step = "store" /\ chain[t].event = e
  \/ stored = e /\ \A t \in Chains : chain[t].step # "store"

Leaving == \E t \in Chains : chain[t].event = "disconnected"

Coming == \E t \in Chains : chain[t].event = "connected"

Usable == {c \in Accepted : conn[c].stage = "announced" /\ conn[c].writable}

(* The event and the request under way, one of each.                       *)
OneEvent ==
  /\ \A t, s \in Chains : chain[t].step # "idle" /\ chain[s].step # "idle" => t = s
  /\ \A t \in Chains :
       /\ chain[t].step = "idle" <=> chain[t].event = "none"
       /\ chain[t].step = "notify" => stored = chain[t].event

OneRequest ==
  /\ \A m, n \in Asks : ask[m].step # "idle" /\ ask[n].step # "idle" => m = n
  /\ \A m \in Asks :
       /\ ask[m].step \in {"idle", "pending"} <=> ask[m].answer = "none"
       /\ ask[m].step = "pending" => ask[m].timer

(* What the server knows and the database will have.                       *)
ServerKnows ==
  /\ offline => \A c \in Known : ~conn[c].writable
  /\ Last("connected") => Known # {}
  /\ Last("disconnected") => Usable = {}

(* What the view shows, or is about to, and why it will change otherwise.  *)
ViewFollows ==
  /\ shown = "online" \/ (\E m \in Asks : ask[m].answer = "online") =>
       Known # {} \/ Leaving
  /\ shown = "unavailable" \/ (\E m \in Asks : ask[m].answer = "unavailable") =>
       \/ Usable = {} \/ Coming
       \/ \E m \in Asks : ask[m].step = "pending" \/ ask[m].answer = "online"

StatusInv ==
  /\ StatusTypeOK
  /\ ~crossed => OneEvent /\ OneRequest /\ ServerKnows /\ ViewFollows

LEMMA StatusStarts == StatusInit => StatusInv
<1> SUFFICES ASSUME StatusInit PROVE StatusInv
  OBVIOUS
<1>1. StatusTypeOK
  <2>1. NoConn \in Conn /\ IdleChain \in Chain /\ IdleAsk \in Ask
    BY DEF Conn, NoConn, Chain, IdleChain, Ask, IdleAsk
  <2>2. accepted \in Seq(Conns) /\ DOMAIN accepted = {}
    BY DEF StatusInit
  <2> QED
    BY <2>1, <2>2 DEF StatusInit, StatusTypeOK
<1>2. OneEvent /\ OneRequest
  BY DEF StatusInit, OneEvent, OneRequest, IdleChain, IdleAsk
<1>3. Known = {} /\ Usable = {}
  BY DEF StatusInit, Known, Usable, Accepted
<1>4. ServerKnows /\ ViewFollows
  BY <1>3 DEF StatusInit, ServerKnows, ViewFollows, Last, Leaving, Coming, IdleChain, IdleAsk
<1> QED
  BY <1>1, <1>2, <1>4 DEF StatusInv

(* A connection is added at the end of the registry, ...                   *)
LEMMA RegistryAdds ==
  ASSUME StatusTypeOK, NEW c \in Conns, c \notin Accepted, accepted' = Append(accepted, c)
  PROVE  /\ Accepted' = Accepted \cup {c}
         /\ accepted' \in Seq(Conns)
         /\ \A i, j \in DOMAIN accepted' : accepted'[i] = accepted'[j] => i = j
<1>1. accepted \in Seq(Conns) /\ Len(accepted) \in Nat
        /\ \A i, j \in DOMAIN accepted : accepted[i] = accepted[j] => i = j
  BY DEF StatusTypeOK
<1>2. accepted' \in Seq(Conns) /\ DOMAIN accepted' = 1..(Len(accepted) + 1)
        /\ DOMAIN accepted = 1..Len(accepted)
        /\ \A i \in 1..Len(accepted) : accepted'[i] = accepted[i]
        /\ accepted'[Len(accepted) + 1] = c
  BY <1>1, AppendProperties
<1> QED
  BY <1>1, <1>2 DEF Accepted

(* ... and taken out wherever it is, the others keeping their order.       *)
LEMMA RegistryForgets ==
  ASSUME StatusTypeOK, NEW c \in Conns, Remove(c)
  PROVE  /\ Accepted' = Accepted \ {c}
         /\ accepted' \in Seq(Conns)
         /\ \A i, j \in DOMAIN accepted' : accepted'[i] = accepted'[j] => i = j
<1>1. accepted \in Seq(Conns) /\ Len(accepted) \in Nat /\ DOMAIN accepted = 1..Len(accepted)
        /\ \A i, j \in DOMAIN accepted : accepted[i] = accepted[j] => i = j
  BY DEF StatusTypeOK
<1> DEFINE n == Len(accepted)
<1>2. PICK k \in 1..n :
        /\ accepted[k] = c
        /\ accepted' = SubSeq(accepted, 1, k - 1) \o SubSeq(accepted, k + 1, n)
  BY <1>1 DEF Remove
<1> DEFINE s == SubSeq(accepted, 1, k - 1)
           t == SubSeq(accepted, k + 1, n)
<1>3. s \in Seq(Conns) /\ Len(s) = k - 1 /\ \A i \in 1..(k - 1) : s[i] = accepted[i]
  BY <1>1, SubSeqProperties
<1>4. t \in Seq(Conns) /\ Len(t) = n - k /\ \A i \in 1..(n - k) : t[i] = accepted[k + i]
  <2>1. k + 1 \in Int /\ n \in Int /\ \A i \in (k + 1)..n : accepted[i] \in Conns
    BY <1>1
  <2>2. /\ t \in Seq(Conns)
        /\ Len(t) = IF k + 1 <= n THEN n - (k + 1) + 1 ELSE 0
        /\ \A i \in 1..(n - (k + 1) + 1) : t[i] = accepted[(k + 1) + i - 1]
    BY <2>1, SubSeqProperties
  <2>3. n - (k + 1) + 1 = n - k /\ \A i \in 1..(n - k) : (k + 1) + i - 1 = k + i
    BY <1>1
  <2> HIDE DEF t
  <2>4. Len(t) = n - k
    <3>1. Len(t) = IF k + 1 <= n THEN n - (k + 1) + 1 ELSE 0
      BY <2>2
    <3>2. n \in Nat /\ k \in 1..n
      BY <1>1
    <3> QED
      BY <3>1, <3>2
  <2>5. ASSUME NEW i \in 1..(n - k) PROVE t[i] = accepted[k + i]
    <3>1. t[i] = accepted[(k + 1) + i - 1] /\ (k + 1) + i - 1 = k + i
      BY <2>2, <2>3
    <3> QED
      BY <3>1
  <2> QED
    BY <2>2, <2>4, <2>5
<1>5. accepted' \in Seq(Conns) /\ Len(accepted') = n - 1
        /\ \A i \in 1..(n - 1) : accepted'[i] = IF i < k THEN accepted[i] ELSE accepted[i + 1]
  <2> HIDE DEF s, t
  <2>1. accepted' = s \o t
    BY <1>2 DEF s, t
  <2>2. s \o t \in Seq(Conns) /\ Len(s \o t) = n - 1
    <3>1. s \o t \in Seq(Conns) /\ Len(s \o t) = Len(s) + Len(t)
      BY <1>3, <1>4, ConcatProperties
    <3>2. Len(s) + Len(t) = n - 1
      BY <1>3, <1>4, <1>1
    <3> QED
      BY <3>1, <3>2
  <2>3. \A i \in 1..(n - 1) : (s \o t)[i] = IF i <= Len(s) THEN s[i] ELSE t[i - Len(s)]
    BY <1>3, <1>4, <1>1, ConcatProperties
  <2>4. ASSUME NEW i \in 1..(n - 1), i < k PROVE (s \o t)[i] = accepted[i]
    BY <2>3, <2>4, <1>3
  <2>5. ASSUME NEW i \in 1..(n - 1), ~(i < k) PROVE (s \o t)[i] = accepted[i + 1]
    <3>1. i - Len(s) \in 1..(n - k) /\ k + (i - Len(s)) = i + 1
      BY <2>5, <1>3, <1>1
    <3> QED
      BY <3>1, <2>3, <2>5, <1>3, <1>4
  <2> QED
    BY <2>1, <2>2, <2>4, <2>5
<1>6. DOMAIN accepted' = 1..(n - 1)
  BY <1>5
<1>7. ASSUME NEW i \in 1..(n - 1), NEW j \in 1..(n - 1), accepted'[i] = accepted'[j]
      PROVE  i = j
  <2> DEFINE at(a) == IF a < k THEN a ELSE a + 1
  <2>1. at(i) \in 1..n /\ at(j) \in 1..n /\ (at(i) = at(j) => i = j)
    BY <1>1
  <2>2. accepted[at(i)] = accepted[at(j)]
    BY <1>5, <1>7
  <2> QED
    BY <2>1, <2>2, <1>1
<1>8. \A d : d \in Accepted' <=> d \in Accepted \ {c}
  <2>1. ASSUME NEW i \in 1..(n - 1)
        PROVE  accepted'[i] \in Accepted /\ accepted'[i] # c
    <3> DEFINE at == IF i < k THEN i ELSE i + 1
    <3>1. at \in 1..n /\ at # k
      BY <1>1
    <3>2. accepted'[i] = accepted[at]
      BY <1>5
    <3> HIDE DEF at
    <3> QED
      BY <3>1, <3>2, <1>1, <1>2 DEF Accepted
  <2>2. ASSUME NEW i \in 1..n, accepted[i] # c
        PROVE  accepted[i] \in Accepted'
    <3>1. CASE i < k
      BY <3>1, <1>1, <1>5, <1>6 DEF Accepted
    <3>2. CASE i > k
      <4>1. i - 1 \in 1..(n - 1) /\ ~(i - 1 < k) /\ (i - 1) + 1 = i
        BY <3>2, <1>1
      <4>2. accepted'[i - 1] = accepted[i]
        BY <4>1, <1>5
      <4> QED
        BY <4>1, <4>2, <1>6 DEF Accepted
    <3> QED
      BY <3>1, <3>2, <2>2, <1>2, <1>1
  <2> QED
    BY <2>1, <2>2, <1>1, <1>6 DEF Accepted
<1> QED
  BY <1>5, <1>6, <1>7, <1>8

(* An event that starts alone is the only one, and the last.               *)
LEMMA EventStarts ==
  ASSUME StatusTypeOK, ~crossed => OneEvent,
         NEW e \in {"connected", "disconnected"}, Start(e), stored' = stored
  PROVE  /\ chain' \in [Chains -> Chain] /\ crossed' \in BOOLEAN /\ (crossed => crossed')
         /\ ~crossed' =>
              /\ OneEvent'
              /\ ~Coming /\ ~Leaving
              /\ Coming' <=> e = "connected"
              /\ Leaving' <=> e = "disconnected"
              /\ Last("connected")' <=> e = "connected"
              /\ Last("disconnected")' <=> e = "disconnected"
<1>1. PICK t \in Chains :
        /\ chain[t].step = "idle"
        /\ chain' = [chain EXCEPT ![t] = [step |-> "store", event |-> e]]
        /\ crossed' = (crossed \/ \E s \in Chains : chain[s].step # "idle")
  BY DEF Start
<1>2. chain \in [Chains -> Chain] /\ crossed \in BOOLEAN
  BY DEF StatusTypeOK
<1>3. chain' \in [Chains -> Chain] /\ crossed' \in BOOLEAN /\ (crossed => crossed')
  BY <1>1, <1>2 DEF Chain
<1>4. ASSUME ~crossed'
      PROVE  \A s \in Chains : chain[s].step = "idle" /\ chain[s].event = "none"
  BY <1>1, <1>3, <1>4 DEF OneEvent
<1>5. ASSUME ~crossed'
      PROVE  /\ chain'[t].step = "store" /\ chain'[t].event = e
             /\ \A s \in Chains \ {t} : chain'[s].step = "idle" /\ chain'[s].event = "none"
  BY <1>1, <1>2, <1>4, <1>5
<1>6. ASSUME ~crossed' PROVE OneEvent'
  BY <1>5, <1>6 DEF OneEvent
<1> QED
  BY <1>3, <1>4, <1>5, <1>6 DEF Coming, Leaving, Last

LEMMA AcceptKeeps ==
  ASSUME StatusInv, NEW c \in Conns, Accept(c)
  PROVE  StatusInv'
<1>1. /\ c \notin Accepted /\ accepted' = Append(accepted, c)
      /\ conn' = [conn EXCEPT ![c] = [stage |-> "new", writable |-> TRUE]]
      /\ UNCHANGED <<offline, chain, ask, stored, shown, crossed>>
  BY DEF Accept
<1>2. StatusTypeOK'
  BY <1>1, RegistryAdds DEF StatusInv, StatusTypeOK, Conn
<1>3. Known' = Known /\ Usable' = Usable /\ \A d \in Known : conn'[d] = conn[d]
  BY <1>1, RegistryAdds DEF StatusInv, StatusTypeOK, Known, Usable
<1>4. ~crossed => OneEvent' /\ OneRequest'
  BY <1>1 DEF StatusInv, OneEvent, OneRequest
<1>5. ~crossed => ServerKnows' /\ ViewFollows'
  BY <1>1, <1>3 DEF StatusInv, ServerKnows, ViewFollows, Last, Leaving, Coming
<1> QED
  BY <1>1, <1>2, <1>4, <1>5 DEF StatusInv

LEMMA AuthenticateKeeps ==
  ASSUME StatusInv, NEW c \in Conns, Authenticate(c)
  PROVE  StatusInv'
<1>1. /\ c \in Accepted /\ conn[c].stage = "new"
      /\ conn' = [conn EXCEPT ![c].stage = "known"]
      /\ ~offline'
      /\ UNCHANGED <<accepted, chain, ask, stored, shown, crossed>>
  BY DEF Authenticate
<1>2. StatusTypeOK'
  BY <1>1 DEF StatusInv, StatusTypeOK, Conn, Authenticate
<1>3. Known \subseteq Known' /\ Usable' = Usable
  BY <1>1 DEF StatusInv, StatusTypeOK, Conn, Accepted, Known, Usable
<1>4. ~crossed => OneEvent' /\ OneRequest'
  BY <1>1 DEF StatusInv, OneEvent, OneRequest
<1>5. ~crossed => ServerKnows' /\ ViewFollows'
  BY <1>1, <1>3 DEF StatusInv, ServerKnows, ViewFollows, Last, Leaving, Coming
<1> QED
  BY <1>1, <1>2, <1>4, <1>5 DEF StatusInv

LEMMA DestroyKeeps ==
  ASSUME StatusInv, NEW c \in Conns, Destroy(c)
  PROVE  StatusInv'
<1>1. /\ conn' = [conn EXCEPT ![c].writable = FALSE]
      /\ UNCHANGED <<accepted, offline, chain, ask, stored, shown, crossed>>
  BY DEF Destroy
<1>2. StatusTypeOK'
  BY <1>1 DEF StatusInv, StatusTypeOK, Conn
<1>3. Known' = Known /\ Usable' \subseteq Usable
        /\ \A d \in Known : conn'[d].writable => conn[d].writable
  BY <1>1 DEF StatusInv, StatusTypeOK, Conn, Accepted, Known, Usable
<1>4. ~crossed => OneEvent' /\ OneRequest'
  BY <1>1 DEF StatusInv, OneEvent, OneRequest
<1>5. ~crossed => ServerKnows' /\ ViewFollows'
  BY <1>1, <1>3 DEF StatusInv, ServerKnows, ViewFollows, Last, Leaving, Coming
<1> QED
  BY <1>1, <1>2, <1>4, <1>5 DEF StatusInv

LEMMA AnnounceKeeps ==
  ASSUME StatusInv, NEW c \in Conns, Announce(c)
  PROVE  StatusInv'
<1>1. /\ c \in Accepted /\ conn[c].stage = "known"
      /\ conn' = [conn EXCEPT ![c].stage = "announced"]
      /\ Start("connected")
      /\ UNCHANGED <<accepted, offline, ask, stored, shown>>
  BY DEF Announce
<1>2. StatusTypeOK /\ (~crossed => OneEvent)
  BY DEF StatusInv
<1>3. /\ chain' \in [Chains -> Chain] /\ crossed' \in BOOLEAN /\ (crossed => crossed')
      /\ ~crossed' =>
           /\ OneEvent' /\ ~Leaving /\ Coming'
           /\ Last("connected")' /\ ~Last("disconnected")'
  BY <1>1, <1>2, EventStarts
<1>4. StatusTypeOK'
  BY <1>1, <1>3 DEF StatusInv, StatusTypeOK, Conn, Announce
<1>5. Known' = Known /\ Known # {} /\ \A d \in Known : conn'[d].writable = conn[d].writable
  BY <1>1 DEF StatusInv, StatusTypeOK, Conn, Accepted, Known
<1>6. ASSUME ~crossed' PROVE OneRequest' /\ ServerKnows' /\ ViewFollows'
  <2>1. OneRequest /\ ServerKnows /\ ViewFollows
    BY <1>3, <1>6 DEF StatusInv
  <2>2. OneRequest'
    BY <1>1, <2>1 DEF OneRequest
  <2>3. ServerKnows'
    BY <1>1, <1>3, <1>5, <1>6, <2>1 DEF ServerKnows
  <2>4. ViewFollows'
    BY <1>1, <1>3, <1>5, <1>6, <2>1 DEF ViewFollows
  <2> QED
    BY <2>2, <2>3, <2>4
<1> QED
  BY <1>3, <1>4, <1>6 DEF StatusInv

LEMMA CloseKeeps ==
  ASSUME StatusInv, NEW c \in Conns, Close(c)
  PROVE  StatusInv'
<1>1. /\ Remove(c)
      /\ conn' = [conn EXCEPT ![c] = NoConn]
      /\ ask' = [m \in Asks |-> [ask[m] EXCEPT !.conns = @ \ {c}]]
      /\ UNCHANGED <<stored, shown>>
  BY DEF Close
<1>2. StatusTypeOK /\ (~crossed => OneEvent /\ OneRequest /\ ServerKnows /\ ViewFollows)
  BY DEF StatusInv
<1>3. Accepted' = Accepted \ {c}
  BY <1>1, <1>2, RegistryForgets
<1>4. ASSUME NEW m \in Asks
      PROVE  /\ ask'[m] \in Ask
             /\ ask'[m].step = ask[m].step /\ ask'[m].answer = ask[m].answer
             /\ ask'[m].timer = ask[m].timer
  <2>1. ask[m] \in Ask
    BY <1>2 DEF StatusTypeOK
  <2>2. ask'[m] = [ask[m] EXCEPT !.conns = ask[m].conns \ {c}]
    BY <1>1
  <2> QED
    BY <2>1, <2>2 DEF Ask
<1>5. /\ Known' = Known \ {c} /\ Usable' = Usable \ {c}
      /\ \A d \in Known' : conn'[d] = conn[d]
  BY <1>1, <1>2, <1>3 DEF StatusTypeOK, Conn, NoConn, Known, Usable
<1>6. ~crossed' /\ ~crossed => OneRequest'
  BY <1>2, <1>4 DEF OneRequest
<1>7. accepted' \in Seq(Conns) /\ (\A i, j \in DOMAIN accepted' : accepted'[i] = accepted'[j] => i = j)
        /\ conn' \in [Conns -> Conn] /\ ask' \in [Asks -> Ask]
  BY <1>1, <1>2, <1>4, RegistryForgets DEF StatusTypeOK, Conn, NoConn
<1>8. CASE c \in Known /\ Writable \subseteq {c}
  <2>1. offline' = TRUE /\ Start("disconnected")
    BY <1>8 DEF Close
  <2>2. /\ chain' \in [Chains -> Chain] /\ crossed' \in BOOLEAN /\ (crossed => crossed')
        /\ ~crossed' =>
             /\ OneEvent' /\ Leaving' /\ ~Coming
             /\ ~Last("connected")' /\ Last("disconnected")'
    BY <2>1, <1>1, <1>2, EventStarts
  <2>3. StatusTypeOK'
    BY <2>1, <2>2, <1>1, <1>2, <1>7 DEF StatusTypeOK
  <2>4. Usable' = {} /\ \A d \in Known' : ~conn'[d].writable
    BY <1>5, <1>8 DEF Usable, Known, Writable
  <2>5. ASSUME ~crossed' PROVE ServerKnows' /\ ViewFollows'
    BY <2>2, <2>4, <2>5 DEF ServerKnows, ViewFollows
  <2> QED
    BY <2>2, <2>3, <2>5, <1>2, <1>6 DEF StatusInv
<1>9. CASE ~(c \in Known /\ Writable \subseteq {c})
  <2>1. UNCHANGED <<offline, chain, crossed>>
    BY <1>9 DEF Close
  <2>2. StatusTypeOK'
    BY <2>1, <1>1, <1>2, <1>7 DEF StatusTypeOK
  <2>3. Known # {} => Known' # {}
    BY <1>5, <1>9 DEF Writable
  <2>4. ASSUME ~crossed PROVE OneEvent' /\ ServerKnows' /\ ViewFollows'
    <3>1. OneEvent'
      BY <2>1, <2>4, <1>1, <1>2 DEF OneEvent
    <3>2. ServerKnows'
      BY <2>1, <2>3, <2>4, <1>1, <1>2, <1>5 DEF ServerKnows, Last
    <3>3. ViewFollows'
      BY <2>1, <2>3, <2>4, <1>1, <1>2, <1>4, <1>5 DEF ViewFollows, Leaving, Coming
    <3> QED
      BY <3>1, <3>2, <3>3
  <2> QED
    BY <2>1, <2>2, <2>4, <1>6 DEF StatusInv
<1> QED
  BY <1>8, <1>9

LEMMA StoreEventKeeps ==
  ASSUME StatusInv, NEW t \in Chains, StoreEvent(t)
  PROVE  StatusInv'
<1>1. /\ chain[t].step = "store" /\ stored' = chain[t].event
      /\ chain' = [chain EXCEPT ![t].step = "notify"]
      /\ UNCHANGED <<accepted, conn, offline, ask, shown, crossed>>
  BY DEF StoreEvent
<1>2. Known' = Known /\ Usable' = Usable
  BY <1>1 DEF Accepted, Known, Usable
<1>3. chain \in [Chains -> Chain] /\ chain' \in [Chains -> Chain]
        /\ chain'[t].step = "notify"
        /\ \A s \in Chains : chain'[s].event = chain[s].event /\ (s # t => chain'[s] = chain[s])
  BY <1>1 DEF StatusInv, StatusTypeOK, Chain
<1>4. ASSUME ~crossed PROVE OneEvent' /\ OneRequest' /\ ServerKnows' /\ ViewFollows'
  <2>1. OneEvent /\ OneRequest /\ ServerKnows /\ ViewFollows
    BY <1>4 DEF StatusInv
  <2>2. chain[t].event # "none" /\ \A s \in Chains \ {t} : chain[s].step = "idle"
    BY <2>1, <1>1 DEF OneEvent
  <2>3. OneEvent'
    BY <2>1, <2>2, <1>1, <1>3 DEF OneEvent
  <2>4. OneRequest'
    BY <2>1, <1>1 DEF OneRequest
  <2>5. /\ Last("connected")' <=> Last("connected")
        /\ Last("disconnected")' <=> Last("disconnected")
    BY <2>2, <1>1, <1>3 DEF Last
  <2>6. ServerKnows' /\ ViewFollows'
    BY <2>1, <2>5, <1>1, <1>2, <1>3 DEF ServerKnows, ViewFollows, Leaving, Coming
  <2> QED
    BY <2>3, <2>4, <2>6
<1>5. StatusTypeOK'
  BY <1>1, <1>3 DEF StatusInv, StatusTypeOK, Chain
<1> QED
  BY <1>1, <1>4, <1>5 DEF StatusInv

LEMMA LoseEventKeeps ==
  ASSUME StatusInv, NEW t \in Chains, LoseEvent(t)
  PROVE  StatusInv'
  BY DEF LoseEvent, StatusInv, StatusTypeOK, Chain, IdleChain

(* A request that starts alone is the only one; if nothing is found to ask *)
(* nobody can be asked, otherwise its answer is awaited.                   *)
LEMMA RequestStarts ==
  ASSUME StatusTypeOK, ~crossed => OneRequest,
         NEW m \in Asks, ask[m].step = "idle", NewAsk(m),
         crossed' = (crossed \/ Asking)
  PROVE  /\ ask' \in [Asks -> Ask]
         /\ crossed' \in BOOLEAN /\ (crossed => crossed')
         /\ ~crossed' =>
              /\ OneRequest'
              /\ \A n \in Asks : ask[n].answer = "none" /\ ask'[n].answer # "online"
              /\ \/ Usable = {}
                 \/ /\ \A n \in Asks : ask'[n].answer = "none"
                    /\ \E n \in Asks : ask'[n].step = "pending"
<1>1. ask \in [Asks -> Ask] /\ crossed \in BOOLEAN
  BY DEF StatusTypeOK
<1>2. crossed' \in BOOLEAN /\ (crossed => crossed')
  BY <1>1
<1>3. ASSUME ~crossed' PROVE \A n \in Asks : ask[n].step = "idle" /\ ask[n].answer = "none"
  BY <1>1, <1>2, <1>3 DEF Asking, OneRequest
<1>4. CASE Writable = {} /\ ask' = [ask EXCEPT ![m] = Answer("unavailable")]
  <2>1. Usable = {}
    BY <1>4 DEF Usable, Writable, Known
  <2>2. ask' \in [Asks -> Ask]
    BY <1>1, <1>4 DEF Answer, IdleAsk, Ask
  <2>3. ask'[m].step = "summary" /\ ask'[m].answer = "unavailable"
          /\ \A n \in Asks \ {m} : ask'[n] = ask[n]
    BY <1>1, <1>4 DEF Answer, IdleAsk
  <2>4. ~crossed' => OneRequest'
    BY <2>3, <1>3 DEF OneRequest
  <2> QED
    BY <2>1, <2>2, <2>3, <2>4, <1>2, <1>3
<1>5. ASSUME NEW c \in Conns,
             ask' = [ask EXCEPT ![m] =
               [IdleAsk EXCEPT !.step = "pending", !.timer = TRUE, !.conns = {c}]]
      PROVE  /\ ask' \in [Asks -> Ask]
             /\ ~crossed' =>
                  /\ OneRequest'
                  /\ \A n \in Asks : ask'[n].answer = "none"
                  /\ \E n \in Asks : ask'[n].step = "pending"
  <2>1. ask' \in [Asks -> Ask]
    BY <1>1, <1>5 DEF IdleAsk, Ask
  <2>2. ask'[m].step = "pending" /\ ask'[m].answer = "none" /\ ask'[m].timer
          /\ \A n \in Asks \ {m} : ask'[n] = ask[n]
    BY <1>1, <1>5 DEF IdleAsk
  <2>3. ~crossed' => OneRequest'
    BY <2>2, <1>3 DEF OneRequest
  <2> QED
    BY <2>1, <2>2, <2>3, <1>3
<1> QED
  BY <1>2, <1>3, <1>4, <1>5 DEF NewAsk

LEMMA NotifyViewKeeps ==
  ASSUME StatusInv, NEW t \in Chains, NotifyView(t)
  PROVE  StatusInv'
<1>1. /\ chain[t].step = "notify" /\ chain' = [chain EXCEPT ![t] = IdleChain]
      /\ shown' = IF chain[t].event = "disconnected" /\ shown # "none"
                    THEN "unavailable" ELSE shown
      /\ crossed' = (crossed \/ Asking)
      /\ UNCHANGED <<accepted, conn, offline, stored>>
  BY DEF NotifyView
<1>2. PICK m \in Asks : ask[m].step = "idle" /\ NewAsk(m)
  BY DEF NotifyView
<1>3. StatusTypeOK /\ (~crossed => OneEvent /\ OneRequest /\ ServerKnows /\ ViewFollows)
  BY DEF StatusInv
<1>4. /\ ask' \in [Asks -> Ask]
      /\ crossed' \in BOOLEAN /\ (crossed => crossed')
      /\ ~crossed' =>
           /\ OneRequest'
           /\ \A n \in Asks : ask[n].answer = "none" /\ ask'[n].answer # "online"
           /\ \/ Usable = {}
              \/ /\ \A n \in Asks : ask'[n].answer = "none"
                 /\ \E n \in Asks : ask'[n].step = "pending"
  BY <1>1, <1>2, <1>3, RequestStarts
<1>5. chain' \in [Chains -> Chain] /\ StatusTypeOK'
  BY <1>1, <1>3, <1>4 DEF StatusTypeOK, Chain, IdleChain
<1>6. Known' = Known /\ Usable' = Usable
  BY <1>1 DEF Accepted, Known, Usable
<1>7. ASSUME ~crossed' PROVE OneEvent' /\ OneRequest' /\ ServerKnows' /\ ViewFollows'
  <2>1. OneEvent /\ OneRequest /\ ServerKnows /\ ViewFollows
    BY <1>3, <1>4, <1>7
  <2>2. \A s \in Chains : chain'[s].step = "idle" /\ chain'[s].event = "none"
    BY <2>1, <1>1, <1>3 DEF OneEvent, StatusTypeOK, IdleChain
  <2>3. stored = chain[t].event /\ chain[t].event \in {"connected", "disconnected"}
          /\ \A s \in Chains \ {t} : chain[s].step = "idle" /\ chain[s].event = "none"
    BY <2>1, <1>1, <1>3 DEF OneEvent, StatusTypeOK, Chain
  <2>4. OneEvent'
    BY <2>2 DEF OneEvent
  <2>5. \A s \in Chains : chain[s].step # "store"
    BY <2>3, <1>1
  <2>6. ServerKnows'
    BY <2>1, <2>2, <2>5, <1>1, <1>6 DEF ServerKnows, Last
  <2>7. shown' = "online" => Known' # {}
    BY <2>1, <2>3, <1>1, <1>6 DEF ViewFollows, Leaving
  <2>8. ViewFollows'
    BY <2>7, <1>4, <1>6, <1>7 DEF ViewFollows
  <2> QED
    BY <2>4, <2>6, <2>8, <1>4, <1>7
<1> QED
  BY <1>5, <1>7 DEF StatusInv

LEMMA LoadMetricsKeeps ==
  ASSUME StatusInv, NEW m \in Asks, LoadMetrics(m)
  PROVE  StatusInv'
<1>1. /\ ask[m].step = "idle" /\ NewAsk(m)
      /\ crossed' = (crossed \/ Asking)
      /\ UNCHANGED <<accepted, conn, offline, chain, stored, shown>>
  BY DEF LoadMetrics
<1>2. StatusTypeOK /\ (~crossed => OneEvent /\ OneRequest /\ ServerKnows /\ ViewFollows)
  BY DEF StatusInv
<1>3. /\ ask' \in [Asks -> Ask]
      /\ crossed' \in BOOLEAN /\ (crossed => crossed')
      /\ ~crossed' =>
           /\ OneRequest'
           /\ \A n \in Asks : ask[n].answer = "none" /\ ask'[n].answer # "online"
           /\ \/ Usable = {}
              \/ /\ \A n \in Asks : ask'[n].answer = "none"
                 /\ \E n \in Asks : ask'[n].step = "pending"
  BY <1>1, <1>2, RequestStarts
<1>4. StatusTypeOK'
  BY <1>1, <1>2, <1>3 DEF StatusTypeOK
<1>5. Known' = Known /\ Usable' = Usable
  BY <1>1 DEF Accepted, Known, Usable
<1>6. ASSUME ~crossed' PROVE OneEvent' /\ OneRequest' /\ ServerKnows' /\ ViewFollows'
  <2>1. OneEvent /\ OneRequest /\ ServerKnows /\ ViewFollows
    BY <1>2, <1>3, <1>6
  <2>2. OneEvent' /\ ServerKnows'
    BY <2>1, <1>1, <1>5 DEF OneEvent, ServerKnows, Last
  <2>3. ViewFollows'
    BY <2>1, <1>1, <1>3, <1>5, <1>6 DEF ViewFollows, Leaving
  <2> QED
    BY <2>2, <2>3, <1>3, <1>6
<1> QED
  BY <1>4, <1>6 DEF StatusInv

LEMMA ReplyKeeps ==
  ASSUME StatusInv, NEW m \in Asks, NEW c \in Conns, Reply(m, c)
  PROVE  StatusInv'
<1>1. /\ ask[m].step = "pending" /\ c \in Known
      /\ UNCHANGED <<accepted, conn, offline, chain, stored, shown, crossed>>
  BY DEF Reply
<1>2. StatusTypeOK /\ ask \in [Asks -> Ask]
  BY DEF StatusInv, StatusTypeOK
<1>3. CASE c \notin ask[m].conns
  <2>1. ask' = ask
    BY <1>2, <1>3 DEF Reply
  <2> QED
    BY <2>1, <1>1 DEF StatusInv, StatusTypeOK, OneEvent, OneRequest, ServerKnows, ViewFollows,
                      Last, Leaving, Coming, Usable, Known, Accepted
<1>4. CASE c \in ask[m].conns
  <2>1. ask' = [ask EXCEPT ![m] = Answer("online")]
    BY <1>2, <1>4 DEF Reply
  <2>2. ask' \in [Asks -> Ask] /\ ask'[m].step = "summary" /\ ask'[m].answer = "online"
          /\ \A n \in Asks \ {m} : ask'[n] = ask[n]
    BY <2>1, <1>2 DEF Answer, IdleAsk, Ask
  <2>3. StatusTypeOK'
    BY <2>2, <1>1, <1>2 DEF StatusTypeOK
  <2>4. Known' = Known /\ Usable' = Usable /\ Known # {}
    BY <1>1 DEF Accepted, Known, Usable
  <2>5. ASSUME ~crossed PROVE OneEvent' /\ OneRequest' /\ ServerKnows' /\ ViewFollows'
    <3>1. OneEvent /\ OneRequest /\ ServerKnows /\ ViewFollows
      BY <2>5 DEF StatusInv
    <3>2. OneRequest'
      BY <3>1, <2>2, <1>1 DEF OneRequest
    <3>3. OneEvent' /\ ServerKnows'
      BY <3>1, <2>4, <1>1 DEF OneEvent, ServerKnows, Last
    <3>4. ViewFollows'
      BY <2>2, <2>4 DEF ViewFollows
    <3> QED
      BY <3>2, <3>3, <3>4
  <2> QED
    BY <2>3, <2>5, <1>1 DEF StatusInv
<1> QED
  BY <1>3, <1>4

(* What came late or was lost is what the history is about.                *)
LEMMA AnswerLostKeeps ==
  ASSUME StatusInv, NEW m \in Asks, Timeout(m) \/ LoseAnswer(m)
  PROVE  StatusInv'
<1>1. /\ ask' = [ask EXCEPT ![m] = Answer("unavailable")] \/ ask' = [ask EXCEPT ![m] = IdleAsk]
      /\ crossed' = TRUE
      /\ UNCHANGED <<accepted, conn, offline, chain, stored, shown>>
  BY DEF Timeout, LoseAnswer
<1>2. IdleAsk \in Ask /\ Answer("unavailable") \in Ask
  BY DEF IdleAsk, Ask, Answer
<1> QED
  BY <1>1, <1>2 DEF StatusInv, StatusTypeOK

LEMMA AttachSummaryKeeps ==
  ASSUME StatusInv, NEW m \in Asks, AttachSummary(m)
  PROVE  StatusInv'
<1>1. /\ ask[m].step = "summary" /\ ask' = [ask EXCEPT ![m].step = "answered"]
      /\ UNCHANGED <<accepted, conn, offline, chain, stored, shown, crossed>>
  BY DEF AttachSummary
<1>2. /\ ask' \in [Asks -> Ask] /\ ask'[m].step = "answered"
      /\ \A n \in Asks : ask'[n].answer = ask[n].answer
      /\ \A n \in Asks \ {m} : ask'[n] = ask[n]
  BY <1>1 DEF StatusInv, StatusTypeOK, Ask
<1>3. StatusTypeOK'
  BY <1>1, <1>2 DEF StatusInv, StatusTypeOK
<1>4. Known' = Known /\ Usable' = Usable
  BY <1>1 DEF Accepted, Known, Usable
<1>5. ASSUME ~crossed PROVE OneEvent' /\ OneRequest' /\ ServerKnows' /\ ViewFollows'
  <2>1. OneEvent /\ OneRequest /\ ServerKnows /\ ViewFollows
    BY <1>5 DEF StatusInv
  <2>2. OneRequest'
    BY <2>1, <1>1, <1>2 DEF OneRequest
  <2>3. OneEvent' /\ ServerKnows'
    BY <2>1, <1>1, <1>4 DEF OneEvent, ServerKnows, Last
  <2>4. ViewFollows'
    BY <2>1, <1>1, <1>2, <1>4 DEF ViewFollows, Leaving, Coming
  <2> QED
    BY <2>2, <2>3, <2>4
<1> QED
  BY <1>1, <1>3, <1>5 DEF StatusInv

LEMMA ShowAnswerKeeps ==
  ASSUME StatusInv, NEW m \in Asks, ShowAnswer(m)
  PROVE  StatusInv'
<1>1. /\ ask[m].step = "answered" /\ shown' = ask[m].answer
      /\ ask' = [ask EXCEPT ![m] = IdleAsk]
      /\ UNCHANGED <<accepted, conn, offline, chain, stored, crossed>>
  BY DEF ShowAnswer
<1>2. /\ ask' \in [Asks -> Ask] /\ ask'[m].step = "idle" /\ ask'[m].answer = "none"
      /\ \A n \in Asks \ {m} : ask'[n] = ask[n]
  BY <1>1 DEF StatusInv, StatusTypeOK, Ask, IdleAsk
<1>3. StatusTypeOK'
  BY <1>1, <1>2 DEF StatusInv, StatusTypeOK, Ask
<1>4. Known' = Known /\ Usable' = Usable
  BY <1>1 DEF Accepted, Known, Usable
<1>5. ASSUME ~crossed PROVE OneEvent' /\ OneRequest' /\ ServerKnows' /\ ViewFollows'
  <2>1. OneEvent /\ OneRequest /\ ServerKnows /\ ViewFollows
    BY <1>5 DEF StatusInv
  <2>2. \A n \in Asks \ {m} : ask[n].step = "idle" /\ ask[n].answer = "none"
    BY <2>1, <1>1 DEF OneRequest
  <2>3. OneRequest'
    BY <2>2, <1>2 DEF OneRequest
  <2>4. OneEvent' /\ ServerKnows'
    BY <2>1, <1>1, <1>4 DEF OneEvent, ServerKnows, Last
  <2>5. ViewFollows'
    BY <2>1, <2>2, <1>1, <1>2, <1>4 DEF ViewFollows, Leaving, Coming
  <2> QED
    BY <2>3, <2>4, <2>5
<1> QED
  BY <1>1, <1>3, <1>5 DEF StatusInv

LEMMA StatusSteps == StatusInv /\ [StatusNext]_statusVars => StatusInv'
<1> SUFFICES ASSUME StatusInv, [StatusNext]_statusVars PROVE StatusInv'
  OBVIOUS
<1>1. CASE UNCHANGED statusVars
  BY <1>1 DEF statusVars, StatusInv, StatusTypeOK, OneEvent, OneRequest, ServerKnows, ViewFollows,
              Last, Leaving, Coming, Usable, Known, Accepted
<1>2. ASSUME NEW c \in Conns,
             Accept(c) \/ Authenticate(c) \/ Destroy(c) \/ Announce(c) \/ Close(c)
      PROVE  StatusInv'
  BY <1>2, AcceptKeeps, AuthenticateKeeps, DestroyKeeps, AnnounceKeeps, CloseKeeps
<1>3. ASSUME NEW t \in Chains, StoreEvent(t) \/ NotifyView(t) \/ LoseEvent(t)
      PROVE  StatusInv'
  BY <1>3, StoreEventKeeps, NotifyViewKeeps, LoseEventKeeps
<1>4. ASSUME NEW m \in Asks,
             \/ LoadMetrics(m) \/ Timeout(m) \/ AttachSummary(m) \/ ShowAnswer(m) \/ LoseAnswer(m)
             \/ \E c \in Conns : Reply(m, c)
      PROVE  StatusInv'
  BY <1>4, LoadMetricsKeeps, AnswerLostKeeps, AttachSummaryKeeps, ShowAnswerKeeps, ReplyKeeps
<1> QED
  BY <1>1, <1>2, <1>3, <1>4 DEF StatusNext

(* In every reachable state the invariant of the log collector holds.      *)
THEOREM StatusInductive == StatusSpec => []StatusInv
  BY StatusStarts, StatusSteps, PTL DEF StatusSpec

(* Among others: the registry has no connection twice.                     *)
THEOREM StatusTypeCorrect == StatusSpec => []StatusTypeOK
<1>1. StatusInv => StatusTypeOK
  BY DEF StatusInv
<1> QED
  BY <1>1, StatusInductive, PTL

(* For any number of connections, events and requests at a time: when all  *)
(* is quiet and nothing crossed, the registry, the database and the view   *)
(* agree on whether the package is connected.                              *)
THEOREM StatusesSettle == StatusSpec => []StatusSettles
<1>1. StatusInv => StatusSettles
  <2> SUFFICES ASSUME StatusInv, Quiet, ~crossed
               PROVE  /\ offline => Accepted = {}
                      /\ stored # "none" => (stored = "connected") = (Accepted # {})
                      /\ shown # "none" => (shown = "online") = (Accepted # {})
    BY DEF StatusSettles
  <2>1. StatusTypeOK /\ OneEvent /\ OneRequest /\ ServerKnows /\ ViewFollows
    BY DEF StatusInv
  <2>2. Known = Accepted /\ Usable = Accepted /\ \A c \in Accepted : conn[c].writable
    BY DEF Quiet, Known, Usable
  <2>3. ~Leaving /\ ~Coming
    BY <2>1 DEF Quiet, OneEvent, Leaving, Coming
  <2>4. /\ stored = "connected" => Last("connected")
        /\ stored = "disconnected" => Last("disconnected")
    BY DEF Quiet, Last
  <2>5. \A m \in Asks : ask[m].step # "pending" /\ ask[m].answer # "online"
    BY <2>1 DEF Quiet, Asking, OneRequest
  <2>6. offline => Accepted = {}
    BY <2>1, <2>2 DEF ServerKnows
  <2>7. /\ stored \in {"none", "connected", "disconnected"}
        /\ shown \in {"none", "online", "unavailable"}
    BY <2>1 DEF StatusTypeOK
  <2>8. CASE Accepted = {}
    BY <2>1, <2>2, <2>3, <2>4, <2>6, <2>7, <2>8 DEF ServerKnows, ViewFollows
  <2>9. CASE Accepted # {}
    BY <2>1, <2>2, <2>3, <2>4, <2>5, <2>6, <2>7, <2>9 DEF ServerKnows, ViewFollows
  <2> QED
    BY <2>8, <2>9
<1> QED
  BY <1>1, StatusInductive, PTL

=============================================================================
