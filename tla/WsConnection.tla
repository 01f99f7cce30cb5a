----------------------------- MODULE WsConnection -----------------------------
(* One WebSocket client of the market data layer (lib/ws): BybitWsClient with *)
(* its reconnect timers and heartbeat, the channel handler above it and the   *)
(* manager that starts and stops it.  A socket is a number; the venue may     *)
(* close it or fall silent at any time.                                       *)
EXTENDS Integers, FiniteSets

CONSTANTS Sockets,    \* 1..n bounds the sockets that are opened
          Private,    \* the private client: it authenticates before subscribing
          Topics      \* the default topics, or what the callers ask for

VARIABLES
  state,        \* WsState of the client; "new" before connect
  ws,           \* the socket this.ws refers to, 0 for null
  sock,         \* socket -> "none" | "connecting" | "open" | "closing" | "closed"
  feed, authed, \* socket -> topics the venue sends on it; it is authenticated
  armed,        \* this.reconnectTimer is armed
  leaked,       \* armed reconnect timers that no field refers to any more
  pinging, pong,    \* the ping interval and the pong timeout are armed
  intentional,  \* intentionalClose
  wanted,       \* subscriptions
  forced        \* a pong timeout has forced a reconnect (history)

vars == <<state, ws, sock, feed, authed, armed, leaked, pinging, pong, intentional,
          wanted, forced>>

Live == {"connecting", "open"}
Unused == {s \in Sockets : sock[s] = "none"}

Init ==
  /\ state = "new" /\ ws = 0
  /\ sock = [s \in Sockets |-> "none"]
  /\ feed = [s \in Sockets |-> {}] /\ authed = [s \in Sockets |-> FALSE]
  /\ armed = FALSE /\ leaked = 0 /\ pinging = FALSE /\ pong = FALSE
  /\ intentional = FALSE /\ wanted = {} /\ forced = FALSE

-----------------------------------------------------------------------------
(* Opening and closing                                                       *)

\* doConnect: a new socket, whatever this.ws was.
OpenSocket ==
  /\ Unused # {}
  /\ LET s == CHOOSE s \in Unused : \A u \in Unused : s <= u IN
       ws' = s /\ sock' = [sock EXCEPT ![s] = "connecting"]
  /\ state' = "connecting"

\* startPublicWs / startPrivateWs: one client per connection id, connected once.
Connect ==
  /\ state = "new"
  /\ OpenSocket
  /\ UNCHANGED <<feed, authed, armed, leaked, pinging, pong, intentional, wanted, forced>>

StopHeartbeat == pinging' = FALSE /\ pong' = FALSE

ScheduleNothing ==     \* mutant: only the pong timeout reconnects
  UNCHANGED <<armed, leaked>>

\* The field keeps the new timer; one it held before still runs.
ScheduleReconnect ==
  IF intentional THEN UNCHANGED <<armed, leaked>>
  ELSE armed' = TRUE /\ leaked' = IF armed THEN leaked + 1 ELSE leaked

\* The venue takes a subscription on an open socket, on the private channel
\* after authentication only.
Subscribed(s, topics) ==
  IF s # 0 /\ sock'[s] = "open" /\ (Private => authed'[s])
  THEN [feed EXCEPT ![s] = @ \cup topics] ELSE feed

\* onopen: the heartbeat restarts, and the subscriptions are sent again on
\* this.ws (on a private client the venue refuses them until "authenticated").
SocketOpens(s) ==
  /\ sock[s] = "connecting"
  /\ sock' = [sock EXCEPT ![s] = "open"]
  /\ state' = "connected" /\ pinging' = TRUE /\ pong' = FALSE
  /\ UNCHANGED authed
  /\ feed' = Subscribed(ws, wanted)
  /\ UNCHANGED <<ws, armed, leaked, intentional, wanted, forced>>

\* The auth answer; subscribeDefaults sends the topics on this.ws.
Authenticate(s) ==
  /\ Private /\ sock[s] = "open" /\ ~authed[s]
  /\ authed' = [authed EXCEPT ![s] = TRUE]
  /\ UNCHANGED sock
  /\ wanted' = wanted \cup Topics
  /\ feed' = IF state = "connected" THEN Subscribed(ws, Topics) ELSE feed
  /\ UNCHANGED <<state, ws, armed, leaked, pinging, pong, intentional, forced>>

\* onclose of any socket of the client, the current one or an older one.
SocketCloses(s) ==
  /\ sock[s] \in Live \cup {"closing"}
  /\ sock' = [sock EXCEPT ![s] = "closed"]
  /\ feed' = [feed EXCEPT ![s] = {}]
  /\ state' = "disconnected"
  /\ StopHeartbeat
  /\ ScheduleReconnect
  /\ UNCHANGED <<ws, authed, intentional, wanted, forced>>

\* A reconnect timer fires, the one of the field or a leaked one; either way
\* the field is cleared.
ReconnectFires ==
  /\ \/ armed /\ leaked' = leaked
     \/ leaked > 0 /\ leaked' = leaked - 1 + (IF armed THEN 1 ELSE 0)
  /\ armed' = FALSE
  /\ OpenSocket
  /\ UNCHANGED <<feed, authed, pinging, pong, intentional, wanted, forced>>

\* ws.close() of a socket: its onclose comes later.
CloseSocket == sock' = IF ws # 0 /\ sock[ws] \in Live
                       THEN [sock EXCEPT ![ws] = "closing"] ELSE sock

CloseKeepingTimer ==     \* mutant: the pending reconnect is left armed
  /\ state \notin {"new"} /\ ~intentional /\ intentional' = TRUE
  /\ StopHeartbeat /\ CloseSocket /\ ws' = 0
  /\ state' = "disconnected" /\ wanted' = {}
  /\ UNCHANGED <<feed, authed, armed, leaked, forced>>

\* close(), from stopPrivateWs or stopAllWs.
Close ==
  /\ state # "new" /\ ~intentional
  /\ intentional' = TRUE
  /\ StopHeartbeat /\ CloseSocket /\ ws' = 0
  /\ armed' = FALSE
  /\ state' = "disconnected" /\ wanted' = {}
  /\ UNCHANGED <<feed, authed, leaked, forced>>

-----------------------------------------------------------------------------
(* Heartbeat and subscriptions                                               *)

Ping ==
  /\ pinging /\ ~pong /\ state = "connected" /\ ws # 0
  /\ pong' = TRUE
  /\ UNCHANGED <<state, ws, sock, feed, authed, armed, leaked, pinging, intentional,
                 wanted, forced>>

Pong ==
  /\ pong /\ \E s \in Sockets : sock[s] = "open"
  /\ pong' = FALSE
  /\ UNCHANGED <<state, ws, sock, feed, authed, armed, leaked, pinging, intentional,
                 wanted, forced>>

\* forceReconnect
PongTimeout ==
  /\ pong
  /\ StopHeartbeat /\ CloseSocket /\ ws' = 0
  /\ state' = "disconnected"
  /\ ScheduleReconnect
  /\ forced' = TRUE
  /\ UNCHANGED <<feed, authed, intentional, wanted>>

Subscribe(t) ==
  /\ ~Private /\ ~intentional
  /\ wanted' = wanted \cup {t}
  /\ UNCHANGED <<sock, authed>>
  /\ feed' = IF state = "connected" THEN Subscribed(ws, {t}) ELSE feed
  /\ UNCHANGED <<state, ws, armed, leaked, pinging, pong, intentional, forced>>

Unsubscribe(t) ==
  /\ ~Private /\ ~intentional /\ t \in wanted
  /\ wanted' = wanted \ {t}
  /\ feed' = IF state = "connected" /\ ws # 0 THEN [feed EXCEPT ![ws] = @ \ {t}] ELSE feed
  /\ UNCHANGED <<state, ws, sock, authed, armed, leaked, pinging, pong, intentional, forced>>

Next ==
  \/ Connect \/ ReconnectFires \/ Close \/ Ping \/ Pong \/ PongTimeout
  \/ \E s \in Sockets : SocketOpens(s) \/ Authenticate(s) \/ SocketCloses(s)
  \/ \E t \in Topics : Subscribe(t) \/ Unsubscribe(t)

-----------------------------------------------------------------------------
(* Properties                                                                *)

TypeOK ==
  /\ state \in {"new", "disconnected", "connecting", "connected"}
  /\ ws \in Sockets \cup {0}
  /\ sock \in [Sockets -> Live \cup {"none", "closing", "closed"}]
  /\ feed \in [Sockets -> SUBSET Topics] /\ authed \in [Sockets -> BOOLEAN]
  /\ leaked \in Nat /\ wanted \subseteq Topics
  /\ {armed, pinging, pong, intentional, forced} \subseteq BOOLEAN

LiveSockets == {s \in Sockets : sock[s] \in Live}

\* Until a pong is missed the client has one socket or one armed timer, and
\* after close() neither.
OneSocket ==
  ~forced => /\ Cardinality(LiveSockets) + leaked + (IF armed THEN 1 ELSE 0)
                  <= IF intentional THEN 0 ELSE 1
             /\ leaked = 0

\* A client that is not closed on purpose is never left without a socket or a
\* timer, whatever was closed, forced or leaked before.
NeverStranded ==
  state = "disconnected" /\ ~intentional => armed \/ leaked > 0 \/ LiveSockets # {}

\* What is subscribed is what the venue sends on the socket in use.
FeedIsWanted ==
  /\ state = "connected" /\ ws # 0 /\ sock[ws] = "open" /\ ~forced
  /\ Private => authed[ws]
  => feed[ws] = wanted

\* A client that stays open connects again and again, until the sockets of
\* the bound are used up.
Reconnects == state # "new" ~> (state = "connected" \/ intentional \/ Unused = {})
=============================================================================
