--------------------------- MODULE WsConnectionProofs ---------------------------
(****************************************************************************)
(* Proofs about the WebSocket clients, for any number of sockets and any     *)
(* topics: until a pong is missed a client has one socket or one timer, it   *)
(* is never left without a way back, and the venue sends what is subscribed. *)
(****************************************************************************)
EXTENDS WsConnection, FiniteSetTheorems, WellFoundedInduction, TLAPS

WsConstants == Sockets \subseteq Nat \ {0} /\ Private \in BOOLEAN

\* connect() has not been called.
Unconnected ==
  state = "new" => /\ ws = 0 /\ ~armed /\ leaked = 0 /\ ~pong /\ ~intentional
                   /\ \A s \in Sockets : sock[s] = "none"
\* Whatever ends a connection arms a timer, unless close() was called.
WayBack == state = "disconnected" /\ ~intentional => armed
\* The venue sends nothing on a socket that has not opened.
NothingEarly == \A s \in Sockets : sock[s] \in {"none", "connecting"} => feed[s] = {}
\* Until a pong is missed: closed and quiet, or one timer, or one socket, which
\* is this.ws, and the state is that of the socket.
OneOfBoth ==
  ~forced =>
    /\ leaked = 0
    /\ intentional => /\ ~armed /\ state = "disconnected"
                      /\ \A s \in Sockets : sock[s] \notin Live
    /\ ~intentional => \A s \in Sockets : /\ sock[s] # "closing"
                                          /\ sock[s] \in Live => s = ws /\ ~armed
                                          /\ sock[s] = "open" => state = "connected"
                                          /\ sock[s] = "connecting" => state = "connecting"

IInv == TypeOK /\ Unconnected /\ WayBack /\ NothingEarly /\ OneOfBoth /\ FeedIsWanted

-----------------------------------------------------------------------------
LEMMA Least == \A S \in SUBSET Nat : S # {} => \E s \in S : \A u \in S : s <= u
<1> SUFFICES ASSUME NEW S \in SUBSET Nat, S # {}
             PROVE  \E s \in S : \A u \in S : s <= u
  OBVIOUS
<1> DEFINE R == {pair \in Nat \X Nat : pair[1] < pair[2]}
<1>1. IsWellFoundedOn(R, Nat)
  BY NatLessThanWellFounded DEF OpToRel
<1>2. \A u, s \in Nat : u < s => <<u, s>> \in R
  OBVIOUS
<1> HIDE DEF R
<1>3. PICK s \in S : \A u \in S : ~(<<u, s>> \in R)
  BY <1>1, WFMin
<1>4. \A u \in S : ~(u < s) /\ u \in Nat /\ s \in Nat
  BY <1>2, <1>3
<1> QED BY <1>4

LEMMA Opened ==
  ASSUME WsConstants, TypeOK, OpenSocket
  PROVE  /\ ws' \in Sockets /\ ws' # 0 /\ sock[ws'] = "none" /\ state' = "connecting"
         /\ sock' = [sock EXCEPT ![ws'] = "connecting"]
<1>1. Unused # {} /\ Unused \subseteq Sockets /\ Unused \in SUBSET Nat
  BY DEF OpenSocket, Unused, WsConstants
<1>2. \E s \in Unused : \A u \in Unused : s <= u
  BY <1>1, Least
<1> DEFINE s == CHOOSE s \in Unused : \A u \in Unused : s <= u
<1>3. s \in Unused
  BY <1>2
<1>4. ws' = s /\ sock' = [sock EXCEPT ![s] = "connecting"] /\ state' = "connecting"
  BY DEF OpenSocket
<1> HIDE DEF s
<1> QED BY <1>1, <1>3, <1>4 DEF Unused, WsConstants

LEMMA InitInv == WsConstants => (Init => IInv)
<1> SUFFICES ASSUME WsConstants, Init PROVE IInv
  OBVIOUS
<1>1. TypeOK
  BY DEF Init, TypeOK
<1>2. Unconnected /\ WayBack /\ NothingEarly
  BY DEF Init, Unconnected, WayBack, NothingEarly
<1>3. OneOfBoth /\ FeedIsWanted
  BY DEF Init, OneOfBoth, Live, FeedIsWanted
<1> QED BY <1>1, <1>2, <1>3 DEF IInv

\* A first connection, or one after a timer has fired.
LEMMA Connects ==
  ASSUME WsConstants, IInv, OpenSocket, ~armed', leaked' \in Nat,
         ~forced => leaked' = 0 /\ ~intentional /\ \A s \in Sockets : sock[s] \notin Live,
         UNCHANGED <<feed, authed, pinging, pong, intentional, wanted, forced>>,
         armed' \in BOOLEAN
  PROVE  IInv'
<1>1. TypeOK
  BY DEF IInv
<1>2. /\ ws' \in Sockets /\ ws' # 0 /\ sock[ws'] = "none" /\ state' = "connecting"
      /\ sock' = [sock EXCEPT ![ws'] = "connecting"]
  BY <1>1, Opened
<1>3. TypeOK'
  BY <1>1, <1>2 DEF TypeOK, Live
<1>4. Unconnected' /\ WayBack' /\ FeedIsWanted'
  BY <1>2 DEF Unconnected, WayBack, FeedIsWanted
<1>5. NothingEarly'
  BY <1>1, <1>2 DEF IInv, TypeOK, NothingEarly
<1>6. OneOfBoth'
  BY <1>1, <1>2 DEF IInv, TypeOK, OneOfBoth, Live
<1> QED BY <1>3, <1>4, <1>5, <1>6 DEF IInv

LEMMA ConnectInv == ASSUME WsConstants, IInv, Connect PROVE IInv'
<1>1. /\ state = "new" /\ OpenSocket
      /\ UNCHANGED <<feed, authed, armed, leaked, pinging, pong, intentional, wanted, forced>>
  BY DEF Connect
<1>2. /\ ~armed' /\ armed' \in BOOLEAN /\ leaked' = 0 /\ ~intentional
      /\ \A s \in Sockets : sock[s] \notin Live
  BY <1>1 DEF IInv, Unconnected, TypeOK, Live
<1> QED BY <1>1, <1>2, Connects

LEMMA ReconnectInv == ASSUME WsConstants, IInv, ReconnectFires PROVE IInv'
<1>1. /\ armed \/ leaked > 0
      /\ leaked' \in {leaked, leaked - 1, leaked - 1 + 1} /\ leaked' \in Nat
      /\ leaked > 0 \/ leaked' = leaked
      /\ armed' = FALSE /\ OpenSocket
      /\ UNCHANGED <<feed, authed, pinging, pong, intentional, wanted, forced>>
  BY DEF ReconnectFires, IInv, TypeOK
<1>2. ~forced => leaked' = 0 /\ ~intentional /\ \A s \in Sockets : sock[s] \notin Live
  BY <1>1 DEF IInv, OneOfBoth
<1> QED BY <1>1, <1>2, Connects

LEMMA OpensInv == ASSUME WsConstants, IInv, NEW s \in Sockets, SocketOpens(s) PROVE IInv'
<1>1. /\ sock[s] = "connecting" /\ sock' = [sock EXCEPT ![s] = "open"]
      /\ state' = "connected" /\ pinging' = TRUE /\ pong' = FALSE
      /\ feed' = IF ws # 0 /\ sock'[ws] = "open" /\ (Private => authed[ws])
                 THEN [feed EXCEPT ![ws] = @ \cup wanted] ELSE feed
      /\ UNCHANGED <<authed, ws, armed, leaked, intentional, wanted, forced>>
  BY DEF SocketOpens, Subscribed
<1>2. TypeOK
  BY DEF IInv
<1>3. TypeOK'
  BY <1>1, <1>2 DEF TypeOK, Live
<1>4. Unconnected' /\ WayBack'
  BY <1>1 DEF IInv, Unconnected, WayBack
<1>5. NothingEarly'
  BY <1>1, <1>2 DEF IInv, TypeOK, NothingEarly
<1>6. ~forced => s = ws /\ ~intentional
  BY <1>1 DEF IInv, OneOfBoth, Live
<1>7. OneOfBoth'
  BY <1>1, <1>2, <1>6 DEF IInv, TypeOK, OneOfBoth, Live
<1>8. ~forced => feed[ws] = {}
  BY <1>1, <1>6 DEF IInv, NothingEarly
<1>9. FeedIsWanted'
  BY <1>1, <1>2, <1>6, <1>8 DEF WsConstants, TypeOK, FeedIsWanted
<1> QED BY <1>3, <1>4, <1>5, <1>7, <1>9 DEF IInv

LEMMA AuthInv == ASSUME WsConstants, IInv, NEW s \in Sockets, Authenticate(s) PROVE IInv'
<1>1. /\ Private /\ sock[s] = "open" /\ authed' = [authed EXCEPT ![s] = TRUE]
      /\ wanted' = wanted \cup Topics
      /\ feed' = IF state = "connected" /\ ws # 0 /\ sock[ws] = "open" /\ authed'[ws]
                 THEN [feed EXCEPT ![ws] = @ \cup Topics] ELSE feed
      /\ UNCHANGED <<state, ws, sock, armed, leaked, pinging, pong, intentional, forced>>
  BY DEF Authenticate, Subscribed
<1>2. TypeOK
  BY DEF IInv
<1>3. TypeOK'
  BY <1>1, <1>2 DEF TypeOK, Live
<1>4. Unconnected' /\ WayBack' /\ OneOfBoth'
  BY <1>1 DEF IInv, Unconnected, WayBack, OneOfBoth
<1>5. NothingEarly'
  BY <1>1, <1>2 DEF IInv, TypeOK, NothingEarly
<1>6. ~forced => s = ws
  BY <1>1 DEF IInv, OneOfBoth, Live
<1>7. FeedIsWanted'
  BY <1>1, <1>2, <1>6 DEF WsConstants, TypeOK, FeedIsWanted
<1> QED BY <1>3, <1>4, <1>5, <1>7 DEF IInv

LEMMA Rescheduled ==
  ASSUME TypeOK, ScheduleReconnect
  PROVE  /\ armed' \in BOOLEAN /\ leaked' \in Nat
         /\ intentional => armed' = armed /\ leaked' = leaked
         /\ ~intentional => armed' = TRUE /\ leaked' = IF armed THEN leaked + 1 ELSE leaked
<1>1. armed \in BOOLEAN /\ leaked \in Nat
  BY DEF TypeOK
<1>2. intentional => armed' = armed /\ leaked' = leaked
  BY DEF ScheduleReconnect
<1>3. ~intentional => armed' = TRUE /\ leaked' = IF armed THEN leaked + 1 ELSE leaked
  BY DEF ScheduleReconnect
<1>4. armed' \in BOOLEAN /\ leaked' \in Nat
  <2>1. CASE intentional
    BY <1>1, <1>2, <2>1
  <2>2. CASE ~intentional
    BY <1>1, <1>3, <2>2
  <2> QED BY <2>1, <2>2
<1> QED BY <1>2, <1>3, <1>4

LEMMA ClosesInv == ASSUME WsConstants, IInv, NEW s \in Sockets, SocketCloses(s) PROVE IInv'
<1>1. /\ sock[s] \in Live \cup {"closing"} /\ sock' = [sock EXCEPT ![s] = "closed"]
      /\ feed' = [feed EXCEPT ![s] = {}] /\ state' = "disconnected"
      /\ pinging' = FALSE /\ pong' = FALSE
      /\ UNCHANGED <<ws, authed, intentional, wanted, forced>>
      /\ ScheduleReconnect
  BY DEF SocketCloses, StopHeartbeat
<1>3. TypeOK
  BY DEF IInv
<1>2. /\ armed' \in BOOLEAN /\ leaked' \in Nat
      /\ intentional => armed' = armed /\ leaked' = leaked
      /\ ~intentional => armed' = TRUE /\ leaked' = IF armed THEN leaked + 1 ELSE leaked
  BY <1>1, <1>3, Rescheduled
<1>4. TypeOK'
  BY <1>1, <1>2, <1>3 DEF TypeOK, Live
<1>5. Unconnected' /\ WayBack' /\ FeedIsWanted'
  BY <1>1, <1>2 DEF Unconnected, WayBack, FeedIsWanted
<1>6. NothingEarly'
  BY <1>1, <1>3 DEF IInv, TypeOK, NothingEarly
<1>7. OneOfBoth'
  BY <1>1, <1>2, <1>3 DEF IInv, TypeOK, OneOfBoth, Live
<1> QED BY <1>4, <1>5, <1>6, <1>7 DEF IInv

\* close() of the socket in use, if it is one.
LEMMA SocketLeft ==
  ASSUME TypeOK, CloseSocket
  PROVE  /\ sock' \in [Sockets -> Live \cup {"none", "closing", "closed"}]
         /\ \A s \in Sockets : /\ sock'[s] = sock[s] \/ (s = ws /\ sock'[s] = "closing")
                               /\ s = ws /\ s # 0 => sock'[s] \notin Live
BY DEF TypeOK, CloseSocket, Live

LEMMA CloseInv == ASSUME WsConstants, IInv, Close PROVE IInv'
<1>1. /\ state # "new" /\ ~intentional /\ intentional' = TRUE
      /\ pinging' = FALSE /\ pong' = FALSE /\ CloseSocket /\ ws' = 0
      /\ armed' = FALSE /\ state' = "disconnected" /\ wanted' = {}
      /\ UNCHANGED <<feed, authed, leaked, forced>>
  BY DEF Close, StopHeartbeat
<1>2. TypeOK
  BY DEF IInv
<1>3. /\ sock' \in [Sockets -> Live \cup {"none", "closing", "closed"}]
      /\ \A s \in Sockets : /\ sock'[s] = sock[s] \/ (s = ws /\ sock'[s] = "closing")
                            /\ s = ws /\ s # 0 => sock'[s] \notin Live
  BY <1>1, <1>2, SocketLeft
<1>4. TypeOK'
  BY <1>1, <1>2, <1>3 DEF TypeOK
<1>5. Unconnected' /\ WayBack' /\ FeedIsWanted'
  BY <1>1 DEF Unconnected, WayBack, FeedIsWanted
<1>6. NothingEarly'
  BY <1>1, <1>3 DEF IInv, NothingEarly
<1>7. OneOfBoth'
  BY <1>1, <1>3 DEF IInv, OneOfBoth, WsConstants
<1> QED BY <1>4, <1>5, <1>6, <1>7 DEF IInv

LEMMA PongTimeoutInv == ASSUME WsConstants, IInv, PongTimeout PROVE IInv'
<1>1. /\ pong /\ pinging' = FALSE /\ pong' = FALSE /\ CloseSocket /\ ws' = 0
      /\ state' = "disconnected" /\ forced' = TRUE
      /\ UNCHANGED <<feed, authed, intentional, wanted>> /\ ScheduleReconnect
  BY DEF PongTimeout, StopHeartbeat
<1>3. TypeOK
  BY DEF IInv
<1>2. /\ armed' \in BOOLEAN /\ leaked' \in Nat
      /\ ~intentional => armed' = TRUE
  BY <1>1, <1>3, Rescheduled
<1>4. /\ sock' \in [Sockets -> Live \cup {"none", "closing", "closed"}]
      /\ \A s \in Sockets : sock'[s] = sock[s] \/ sock'[s] = "closing"
  BY <1>1, <1>3, SocketLeft
<1>5. TypeOK'
  BY <1>1, <1>2, <1>3, <1>4 DEF TypeOK
<1>6. Unconnected' /\ WayBack' /\ FeedIsWanted' /\ OneOfBoth'
  BY <1>1, <1>2 DEF Unconnected, WayBack, FeedIsWanted, OneOfBoth
<1>7. NothingEarly'
  BY <1>1, <1>4 DEF IInv, NothingEarly
<1> QED BY <1>5, <1>6, <1>7 DEF IInv

LEMMA PingsInv == ASSUME IInv, Ping \/ Pong PROVE IInv'
<1>1. /\ pong' \in BOOLEAN /\ state # "new"
      /\ UNCHANGED <<state, ws, sock, feed, authed, armed, leaked, pinging, intentional,
                     wanted, forced>>
  BY DEF Ping, Pong, IInv, Unconnected
<1>2. TypeOK'
  BY <1>1 DEF IInv, TypeOK
<1>3. Unconnected' /\ WayBack' /\ NothingEarly' /\ OneOfBoth' /\ FeedIsWanted'
  BY <1>1 DEF IInv, Unconnected, WayBack, NothingEarly, OneOfBoth, FeedIsWanted
<1> QED BY <1>2, <1>3 DEF IInv

LEMMA SubscriptionsInv ==
  ASSUME WsConstants, IInv, NEW t \in Topics, Subscribe(t) \/ Unsubscribe(t)
  PROVE  IInv'
<1>1. TypeOK
  BY DEF IInv
<1>2. ASSUME Subscribe(t) PROVE IInv'
  <2>1. /\ ~Private /\ wanted' = wanted \cup {t}
        /\ feed' = IF state = "connected" /\ ws # 0 /\ sock[ws] = "open"
                   THEN [feed EXCEPT ![ws] = @ \cup {t}] ELSE feed
        /\ UNCHANGED <<state, ws, sock, authed, armed, leaked, pinging, pong, intentional, forced>>
    BY <1>2 DEF Subscribe, Subscribed
  <2>2. TypeOK'
    BY <1>1, <2>1 DEF TypeOK
  <2>3. Unconnected' /\ WayBack' /\ OneOfBoth'
    BY <2>1 DEF IInv, Unconnected, WayBack, OneOfBoth
  <2>4. NothingEarly'
    BY <1>1, <2>1 DEF IInv, TypeOK, NothingEarly
  <2>5. FeedIsWanted'
    BY <1>1, <2>1 DEF IInv, TypeOK, FeedIsWanted
  <2> QED BY <2>2, <2>3, <2>4, <2>5 DEF IInv
<1>3. ASSUME Unsubscribe(t) PROVE IInv'
  <2>1. /\ wanted' = wanted \ {t}
        /\ feed' = IF state = "connected" /\ ws # 0 THEN [feed EXCEPT ![ws] = @ \ {t}] ELSE feed
        /\ UNCHANGED <<state, ws, sock, authed, armed, leaked, pinging, pong, intentional, forced>>
    BY <1>3 DEF Unsubscribe
  <2>2. TypeOK'
    BY <1>1, <2>1 DEF TypeOK
  <2>3. Unconnected' /\ WayBack' /\ OneOfBoth'
    BY <2>1 DEF IInv, Unconnected, WayBack, OneOfBoth
  <2>4. NothingEarly'
    BY <1>1, <2>1 DEF IInv, TypeOK, NothingEarly
  <2>5. FeedIsWanted'
    BY <1>1, <2>1 DEF IInv, TypeOK, FeedIsWanted
  <2> QED BY <2>2, <2>3, <2>4, <2>5 DEF IInv
<1> QED BY <1>2, <1>3

LEMMA NextInv == WsConstants => (IInv /\ [Next]_vars => IInv')
<1> SUFFICES ASSUME WsConstants, IInv, [Next]_vars PROVE IInv'
  OBVIOUS
<1>1. CASE Next
  BY <1>1, ConnectInv, ReconnectInv, CloseInv, PingsInv, PongTimeoutInv, OpensInv, AuthInv,
     ClosesInv, SubscriptionsInv DEF Next
<1>2. CASE UNCHANGED vars
  BY <1>2 DEF vars, IInv, TypeOK, Unconnected, WayBack, NothingEarly, OneOfBoth, FeedIsWanted
<1> QED BY <1>1, <1>2

\* What the invariant says of the sockets, counted.
LEMMA Holds == WsConstants => (IInv => OneSocket /\ NeverStranded /\ FeedIsWanted)
<1> SUFFICES ASSUME WsConstants, IInv PROVE OneSocket /\ NeverStranded /\ FeedIsWanted
  OBVIOUS
<1>1. NeverStranded /\ FeedIsWanted
  BY DEF IInv, WayBack, NeverStranded
<1>2. ASSUME ~forced PROVE Cardinality(LiveSockets) + leaked + (IF armed THEN 1 ELSE 0)
                             <= (IF intentional THEN 0 ELSE 1) /\ leaked = 0
  <2>1. leaked = 0 /\ armed \in BOOLEAN
    BY <1>2 DEF IInv, OneOfBoth, TypeOK
  <2>2. CASE intentional \/ armed
    <3>1. LiveSockets = {} /\ (intentional => ~armed)
      BY <1>2, <2>2 DEF IInv, OneOfBoth, LiveSockets
    <3>2. Cardinality(LiveSockets) = 0
      BY <3>1, FS_EmptySet
    <3> QED BY <2>1, <2>2, <3>1, <3>2
  <2>3. CASE ~intentional /\ ~armed
    <3>1. LiveSockets \in SUBSET {ws}
      BY <1>2, <2>3 DEF IInv, OneOfBoth, LiveSockets
    <3>2. IsFiniteSet({ws}) /\ Cardinality({ws}) = 1
      BY FS_Singleton
    <3>3. Cardinality(LiveSockets) <= 1 /\ Cardinality(LiveSockets) \in Nat
      BY <3>1, <3>2, FS_Subset, FS_CardinalityType
    <3> QED BY <2>1, <2>3, <3>3
  <2> QED BY <2>2, <2>3
<1> QED BY <1>1, <1>2 DEF OneSocket

-----------------------------------------------------------------------------
\* Whatever the venue closes and whenever it falls silent, BybitWsClient holds
\* one socket or one reconnect timer until forceReconnect has run, it always
\* has a way back unless close() was called, and subscriptions are what is fed.
THEOREM ClientReconnects ==
  ASSUME WsConstants
  PROVE  Init /\ [][Next]_vars => [](OneSocket /\ NeverStranded /\ FeedIsWanted)
<1>1. Init => IInv
  BY InitInv
<1>2. IInv /\ [Next]_vars => IInv'
  BY NextInv
<1>3. IInv => OneSocket /\ NeverStranded /\ FeedIsWanted
  BY Holds
<1> QED BY <1>1, <1>2, <1>3, PTL
=============================================================================
