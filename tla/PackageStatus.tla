--------------------------- MODULE PackageStatus ----------------------------
(***************************************************************************)
(* Whether a package is up: LogCollectorSocketServer and its registry of   *)
(* connections, the events it stores and sends through the chat gateway,   *)
(* and the SystemMetricsView that shows them.                              *)
(*                                                                         *)
(* Packages share nothing but these maps keyed by package, so the module   *)
(* has one. It may have several connections: a new one is often accepted   *)
(* before the end of the old one is noticed. What is stored, and what the  *)
(* view asks for, goes through promises that nothing orders.               *)
(***************************************************************************)
EXTENDS Naturals, Sequences

CONSTANTS
  Conns,    \* connections at a time
  Chains,   \* connection events being stored at a time
  Asks      \* metrics requests of the view at a time

VARIABLES
  accepted,  \* connectionStates: the connections not closed, oldest first
  conn,      \* conn[c]: what is known of a connection
  offline,   \* the package is in offlinePackageStates
  chain,     \* chain[t]: an event on its way to the database and the view
  ask,       \* ask[m]: a metrics request, from the view and back
  stored,    \* the event stored last, in runtime_package_connections
  shown,     \* the status the view shows, if it has any
  crossed    \* history: something came late, failed, or ran side by side

statusVars == <<accepted, conn, offline, chain, ask, stored, shown, crossed>>

(* known: authenticated, announced: and its collector_connection record    *)
(* has been handled. A socket stops being writable before it closes.       *)
Conn == [stage : {"new", "known", "announced"}, writable : BOOLEAN]

NoConn == [stage |-> "new", writable |-> FALSE]

IdleChain == [step |-> "idle", event |-> "none"]

Chain == [step : {"idle", "store", "notify"}, event : {"none", "connected", "disconnected"}]

(* timer: the timeout is set; answer: once there is one, the status in it. *)
IdleAsk == [step |-> "idle", timer |-> FALSE, conns |-> {}, answer |-> "none"]

Ask ==
  [step : {"idle", "pending", "summary", "answered"}, timer : BOOLEAN,
   conns : SUBSET Conns, answer : {"none", "online", "unavailable"}]

Answer(status) == [IdleAsk EXCEPT !.step = "summary", !.answer = status]

StatusInit ==
  /\ accepted = <<>>
  /\ conn = [c \in Conns |-> NoConn]
  /\ offline = FALSE
  /\ chain = [t \in Chains |-> IdleChain]
  /\ ask = [m \in Asks |-> IdleAsk]
  /\ stored = "none"
  /\ shown = "none"
  /\ crossed = FALSE

Accepted == {accepted[i] : i \in DOMAIN accepted}

Known == {c \in Accepted : conn[c].stage # "new"}

Writable == {c \in Known : conn[c].writable}

(* The first in the order of the registry.                                 *)
Oldest(c, among) ==
  \E i \in DOMAIN accepted :
    accepted[i] = c /\ c \in among /\ \A j \in 1..(i - 1) : accepted[j] \notin among

(* The registry lets go of a closed connection.                            *)
Remove(c) ==
  \E i \in DOMAIN accepted :
    /\ accepted[i] = c
    /\ accepted' = SubSeq(accepted, 1, i - 1) \o SubSeq(accepted, i + 1, Len(accepted))

-----------------------------------------------------------------------------
(* Connections                                                             *)

Accept(c) ==
  /\ c \notin Accepted
  /\ accepted' = Append(accepted, c)
  /\ conn' = [conn EXCEPT ![c] = [stage |-> "new", writable |-> TRUE]]
  /\ UNCHANGED <<offline, chain, ask, stored, shown, crossed>>

(* markAuthenticated, for a package that is registered.                    *)
Authenticate(c) ==
  /\ c \in Accepted
  /\ conn[c].stage = "new"
  /\ conn' = [conn EXCEPT ![c].stage = "known"]
  /\ offline' = FALSE
  /\ UNCHANGED <<accepted, chain, ask, stored, shown, crossed>>

(* destroy: authentication of an unknown package, authentication for the   *)
(* second time, any other line before it. Or the other side has ended.     *)
Destroy(c) ==
  /\ c \in Accepted
  /\ conn[c].writable
  /\ conn' = [conn EXCEPT ![c].writable = FALSE]
  /\ UNCHANGED <<accepted, offline, chain, ask, stored, shown, crossed>>

(* An event starts on its way; what else is on its way may be overtaken.   *)
Start(event) ==
  \E t \in Chains :
    /\ chain[t].step = "idle"
    /\ chain' = [chain EXCEPT ![t] = [step |-> "store", event |-> event]]
    /\ crossed' = (crossed \/ \E s \in Chains : chain[s].step # "idle")

(* The record that the client writes after it has authenticated.           *)
Announce(c) ==
  /\ c \in Accepted
  /\ conn[c].stage = "known"
  /\ conn' = [conn EXCEPT ![c].stage = "announced"]
  /\ Start("connected")
  /\ UNCHANGED <<accepted, offline, ask, stored, shown>>

(* Defect: other connections of the package are not looked for.            *)
CloseAlone(c) ==
  /\ c \in Accepted
  /\ Remove(c)
  /\ conn' = [conn EXCEPT ![c] = NoConn]
  /\ IF c \in Known
       THEN offline' = TRUE /\ Start("disconnected")
       ELSE UNCHANGED <<offline, chain, crossed>>
  /\ ask' = [m \in Asks |-> [ask[m] EXCEPT !.conns = @ \ {c}]]
  /\ UNCHANGED <<stored, shown>>

(* "close": the package is offline unless another connection is writable.  *)
Close(c) ==
  /\ c \in Accepted
  /\ Remove(c)
  /\ conn' = [conn EXCEPT ![c] = NoConn]
  /\ IF c \in Known /\ Writable \subseteq {c}
       THEN offline' = TRUE /\ Start("disconnected")
       ELSE UNCHANGED <<offline, chain, crossed>>
  /\ ask' = [m \in Asks |-> [ask[m] EXCEPT !.conns = @ \ {c}]]
  /\ UNCHANGED <<stored, shown>>

-----------------------------------------------------------------------------
(* Events                                                                  *)

(* collect and collectConnectionEvent: two INSERTs, the second of which    *)
(* is the one that counts.                                                 *)
StoreEvent(t) ==
  /\ chain[t].step = "store"
  /\ stored' = chain[t].event
  /\ chain' = [chain EXCEPT ![t].step = "notify"]
  /\ UNCHANGED <<accepted, conn, offline, ask, shown, crossed>>

(* findWritableByPackageUid, and the request to the oldest it finds.        *)
NewAsk(m) ==
  \/ /\ Writable = {}
     /\ ask' = [ask EXCEPT ![m] = Answer("unavailable")]
  \/ \E c \in Conns :
       /\ Oldest(c, Writable)
       /\ ask' = [ask EXCEPT ![m] =
            [IdleAsk EXCEPT !.step = "pending", !.timer = TRUE, !.conns = {c}]]

Asking == \E m \in Asks : ask[m].step # "idle"

(* notify, broadcast and handlePackageConnectionEvent: a package that has  *)
(* gone is shown so at once, and the view asks for its metrics anyway.     *)
NotifyView(t) ==
  /\ chain[t].step = "notify"
  /\ chain' = [chain EXCEPT ![t] = IdleChain]
  /\ shown' = IF chain[t].event = "disconnected" /\ shown # "none"
                THEN "unavailable" ELSE shown
  /\ crossed' = (crossed \/ Asking)
  /\ \E m \in Asks : ask[m].step = "idle" /\ NewAsk(m)
  /\ UNCHANGED <<accepted, conn, offline, stored>>

(* An INSERT or the notification fails, or the browser is not connected.   *)
LoseEvent(t) ==
  /\ chain[t].step # "idle"
  /\ chain' = [chain EXCEPT ![t] = IdleChain]
  /\ crossed' = TRUE
  /\ UNCHANGED <<accepted, conn, offline, ask, stored, shown>>

-----------------------------------------------------------------------------
(* Metrics                                                                 *)

(* The view is opened, or refreshed: loadMetrics. For one package the list *)
(* of all does what the single request does.                               *)
LoadMetrics(m) ==
  /\ ask[m].step = "idle"
  /\ NewAsk(m)
  /\ crossed' = (crossed \/ Asking)
  /\ UNCHANGED <<accepted, conn, offline, chain, stored, shown>>

(* Defect: the timeout is cleared before the connection is compared.       *)
ReplyClearsFirst(m, c) ==
  /\ ask[m].step = "pending"
  /\ c \in Known
  /\ ask' = [ask EXCEPT ![m] =
       IF c \in @.conns
         THEN Answer("online")
         ELSE [@ EXCEPT !.timer = FALSE]]
  /\ UNCHANGED <<accepted, conn, offline, chain, stored, shown, crossed>>

(* handleMetricsResponse. A package answers on the connection it has now;  *)
(* an answer on another than the request was sent on is dropped.           *)
Reply(m, c) ==
  /\ ask[m].step = "pending"
  /\ c \in Known
  /\ ask' = [ask EXCEPT ![m] =
       IF c \in @.conns
         THEN Answer("online")
         ELSE @]
  /\ UNCHANGED <<accepted, conn, offline, chain, stored, shown, crossed>>

(* After metricsTimeoutMs the request is forgotten: a late answer finds no *)
(* request of its id and is dropped.                                       *)
Timeout(m) ==
  /\ ask[m].step = "pending"
  /\ ask[m].timer
  /\ ask' = [ask EXCEPT ![m] = Answer("unavailable")]
  /\ crossed' = TRUE
  /\ UNCHANGED <<accepted, conn, offline, chain, stored, shown>>

(* attachPackageLogSummary: a failure of its statements is caught.         *)
AttachSummary(m) ==
  /\ ask[m].step = "summary"
  /\ ask' = [ask EXCEPT ![m].step = "answered"]
  /\ UNCHANGED <<accepted, conn, offline, chain, stored, shown, crossed>>

(* setMetric and setMetrics replace what is shown.                         *)
ShowAnswer(m) ==
  /\ ask[m].step = "answered"
  /\ shown' = ask[m].answer
  /\ ask' = [ask EXCEPT ![m] = IdleAsk]
  /\ UNCHANGED <<accepted, conn, offline, chain, stored, crossed>>

(* The answer does not reach the view: a message is shown instead.         *)
LoseAnswer(m) ==
  /\ ask[m].step = "answered"
  /\ ask' = [ask EXCEPT ![m] = IdleAsk]
  /\ crossed' = TRUE
  /\ UNCHANGED <<accepted, conn, offline, chain, stored, shown>>

-----------------------------------------------------------------------------

StatusNext ==
  \/ \E c \in Conns : Accept(c) \/ Authenticate(c) \/ Destroy(c) \/ Announce(c) \/ Close(c)
  \/ \E t \in Chains : StoreEvent(t) \/ NotifyView(t) \/ LoseEvent(t)
  \/ \E m \in Asks :
       \/ LoadMetrics(m) \/ Timeout(m) \/ AttachSummary(m) \/ ShowAnswer(m) \/ LoseAnswer(m)
       \/ \E c \in Conns : Reply(m, c)

(* What the server is bound to do for a request: fire its timer, and end   *)
(* the SELECTs of the summary.                                             *)
AnswerStep(m) == Timeout(m) \/ AttachSummary(m)

StatusSpec ==
  /\ StatusInit
  /\ [][StatusNext]_statusVars
  /\ \A m \in Asks : WF_statusVars(AnswerStep(m))

-----------------------------------------------------------------------------
(* Properties                                                              *)

StatusTypeOK ==
  /\ accepted \in Seq(Conns)
  /\ \A i, j \in DOMAIN accepted : accepted[i] = accepted[j] => i = j
  /\ conn \in [Conns -> Conn]
  /\ offline \in BOOLEAN
  /\ chain \in [Chains -> Chain]
  /\ ask \in [Asks -> Ask]
  /\ stored \in {"none", "connected", "disconnected"}
  /\ shown \in {"none", "online", "unavailable"}
  /\ crossed \in BOOLEAN

(* Nothing is under way, and no connection is half open.                   *)
Quiet ==
  /\ \A t \in Chains : chain[t].step = "idle"
  /\ ~Asking
  /\ \A c \in Accepted : conn[c].stage = "announced" /\ conn[c].writable

(* When everything has settled, the registry, the last event stored and    *)
(* the view agree on whether the package is connected, through any number  *)
(* of overlapping connections, unless events or requests ran side by side, *)
(* came late or failed: nothing orders them, and nothing asks again.       *)
StatusSettles ==
  Quiet /\ ~crossed =>
    /\ offline => Accepted = {}
    /\ stored # "none" => (stored = "connected") = (Accepted # {})
    /\ shown # "none" => (shown = "online") = (Accepted # {})

(* Every metrics request is answered, whatever becomes of the connection   *)
(* it was sent on and whichever connection the package answers on.         *)
MetricsAnswered ==
  \A m \in Asks : ask[m].step = "pending" ~> ask[m].step \in {"answered", "idle"}

=============================================================================
