------------------------ MODULE GatewaySocket_proofs ------------------------
(***************************************************************************)
(* Proofs about GatewaySocket: one live socket, one way back after a drop, *)
(* a bounded handshake, and requests that wait only on a live connection.  *)
(***************************************************************************)
EXTENDS GatewaySocket, TLAPS

\* A connected transport holds an authenticated socket, which may be closing;
\* before connect() there is nothing at all.
ConnectionInv ==
    /\ connected => ws # None /\ sock[ws] \in {"open", "closing"}
    /\ connectPromise = "none" =>
          ws = None /\ ~connected /\ ~reconnectTimer /\ ~closed
    /\ reconnectTimer => ~connected

IInv ==
    /\ TypeOK
    /\ OneLiveSocket /\ OneWayBack /\ QuietWhenClosed /\ WaitsOnLiveSocket /\ HandshakeBounded
    /\ ConnectionInv

LEMMA InitInv == SocketAssumption /\ Init => IInv
BY DEF SocketAssumption, Init, IInv, TypeOK, OneLiveSocket, OneWayBack, QuietWhenClosed,
       WaitsOnLiveSocket, HandshakeBounded, ConnectionInv, Live

\* teardownSocket leaves no live socket.
LEMMA DetachedFacts ==
    ASSUME TypeOK, OneLiveSocket
    PROVE  /\ Detached \in [Sockets -> {"connecting", "open", "closing", "gone"}]
           /\ \A s \in Sockets : Detached[s] \notin Live
BY DEF TypeOK, OneLiveSocket, Detached, Live

\* A new socket is the only live one, and its handshake is bounded.
LEMMA OpenSocketFacts ==
    ASSUME SocketAssumption, TypeOK, OneLiveSocket, NEW caller, OpenSocket(caller)
    PROVE  /\ sock' \in [Sockets -> {"connecting", "open", "closing", "gone"}]
           /\ ws' \in Sockets /\ ws' # None /\ authTimer' = ws' /\ authSettle' = caller
           /\ authDue' = FALSE
           /\ \A s \in Sockets : sock'[s] \in Live => s = ws'
<1>1. PICK s \in Sockets : sock' = [Detached EXCEPT ![s] = "connecting"] /\ ws' = s
                           /\ authTimer' = s
  BY DEF OpenSocket
<1>2. QED
  BY <1>1, DetachedFacts DEF OpenSocket, SocketAssumption

\* A rejected request waits no more.
LEMMA FailInFlightFacts ==
    ASSUME TypeOK, FailInFlight
    PROVE  /\ request' \in [Requests -> {"none", "waiting", "answered", "rejected"}]
           /\ sentOn' = sentOn
           /\ \A r \in Requests : request'[r] # "waiting"
           /\ \A r \in Requests : request'[r] = "answered" => sentOn[r] # None
BY DEF TypeOK, FailInFlight

LEMMA NextInv ==
    ASSUME SocketAssumption, IInv, [Next]_vars PROVE IInv'
<1> USE DEF authVars, reqVars
<1>1. CASE Connect
  <2>1. /\ ~connected /\ ~reconnectTimer /\ ~closed /\ \A r \in Requests : request[r] # "waiting"
        /\ UNCHANGED <<connected, closed, reconnectTimer, request, sentOn>>
        /\ connectPromise' = "pending" /\ OpenSocket("connect")
    BY <1>1 DEF Connect, IInv, ConnectionInv, WaitsOnLiveSocket
  <2>2. /\ sock' \in [Sockets -> {"connecting", "open", "closing", "gone"}]
        /\ ws' \in Sockets /\ ws' # None /\ authTimer' = ws' /\ authSettle' = "connect"
        /\ authDue' = FALSE
        /\ \A s \in Sockets : sock'[s] \in Live => s = ws'
    BY <2>1, OpenSocketFacts DEF IInv
  <2>3. QED
    BY <2>1, <2>2 DEF IInv, TypeOK, OneLiveSocket, OneWayBack, QuietWhenClosed,
          WaitsOnLiveSocket, HandshakeBounded, ConnectionInv, Live
<1>2. CASE ConnectThrows
  BY <1>2 DEF ConnectThrows, IInv, TypeOK, OneLiveSocket, OneWayBack, QuietWhenClosed,
              WaitsOnLiveSocket, HandshakeBounded, ConnectionInv
<1>3. CASE Dispose
  <2>1. \A s \in Sockets : sock'[s] \notin Live
    BY <1>3, DetachedFacts DEF Dispose, IInv
  <2>2. TypeOK'
    BY <1>3, DetachedFacts, FailInFlightFacts DEF Dispose, IInv, TypeOK
  <2>3. QED
    BY <1>3, <2>1, <2>2, FailInFlightFacts DEF Dispose, IInv, OneLiveSocket, OneWayBack,
          QuietWhenClosed, WaitsOnLiveSocket, HandshakeBounded, ConnectionInv
<1>4. CASE AuthOk
  <2>1. ws \in Sockets /\ sock[ws] = "open" /\ ~reconnectTimer /\ ~closed
    BY <1>4 DEF AuthOk, CanReceive, IInv, TypeOK, OneWayBack, QuietWhenClosed, Live
  <2>2. /\ authTimer' = None /\ authSettle' = None /\ connected' = TRUE /\ authDue' = FALSE
        /\ connectPromise' \in {"resolved", connectPromise}
        /\ UNCHANGED <<sock, ws, closed, reconnectTimer, request, sentOn>>
    BY <1>4 DEF AuthOk, SettleAuth
  <2>3. ws # None /\ connectPromise # "none"
    BY <1>4 DEF AuthOk, CanReceive, IInv, ConnectionInv
  <2>4. QED
    BY <2>1, <2>2, <2>3 DEF IInv, TypeOK, OneLiveSocket, OneWayBack, QuietWhenClosed,
          WaitsOnLiveSocket, HandshakeBounded, ConnectionInv
<1>5. CASE AuthError
  <2>1. ws \in Sockets /\ sock[ws] = "open" /\ ~reconnectTimer /\ ws # None
        /\ connectPromise # "none"
    BY <1>5 DEF AuthError, CanReceive, IInv, TypeOK, OneWayBack, ConnectionInv, Live
  <2>2. /\ authTimer' = None /\ authSettle' = None /\ authDue' = FALSE /\ closed' = TRUE
        /\ connectPromise' \in {"rejected", connectPromise}
        /\ UNCHANGED <<ws, connected, reconnectTimer, request, sentOn>>
        /\ sock' = [sock EXCEPT ![ws] = "closing"]
    BY <1>5 DEF AuthError, SettleAuth
  <2>3. \A s \in Sockets : sock'[s] \notin Live
    BY <2>1, <2>2 DEF IInv, TypeOK, OneLiveSocket, Live
  <2>4. TypeOK' /\ sock'[ws] = "closing"
    BY <2>1, <2>2 DEF IInv, TypeOK
  <2>5. QED
    BY <2>1, <2>2, <2>3, <2>4 DEF IInv, OneLiveSocket, OneWayBack, QuietWhenClosed,
          WaitsOnLiveSocket, HandshakeBounded, ConnectionInv
<1>6. CASE Reauth
  BY <1>6 DEF Reauth, IInv, TypeOK, OneLiveSocket, OneWayBack, QuietWhenClosed,
              WaitsOnLiveSocket, HandshakeBounded, ConnectionInv
<1>7. CASE AuthTimerFires
  <2>1. ~connected /\ \A r \in Requests : request[r] # "waiting"
    BY <1>7 DEF AuthTimerFires, IInv, HandshakeBounded, WaitsOnLiveSocket
  <2>2. /\ sock' = Detached /\ ws' = None /\ authTimer' = None /\ authSettle' = None
        /\ authDue' = FALSE /\ connectPromise' \in {"rejected", connectPromise}
        /\ UNCHANGED <<connected, closed, reconnectTimer, request, sentOn>>
    BY <1>7 DEF AuthTimerFires, SettleAuth
  <2>3. \A s \in Sockets : sock'[s] \notin Live
    BY <2>2, DetachedFacts DEF IInv
  <2>4. TypeOK'
    BY <2>2, DetachedFacts DEF IInv, TypeOK
  <2>5. QED
    BY <2>1, <2>2, <2>3, <2>4 DEF IInv, OneLiveSocket, OneWayBack, QuietWhenClosed,
          WaitsOnLiveSocket, HandshakeBounded, ConnectionInv
<1>8. CASE ReconnectTimerFires
  <2>1. ~closed /\ ~connected /\ connectPromise # "none"
        /\ \A r \in Requests : request[r] # "waiting"
    BY <1>8 DEF ReconnectTimerFires, IInv, QuietWhenClosed, ConnectionInv, WaitsOnLiveSocket
  <2>2. /\ OpenSocket("reconnect") /\ reconnectTimer' = FALSE
        /\ UNCHANGED <<connectPromise, connected, closed, request, sentOn>>
    BY <1>8, <2>1 DEF ReconnectTimerFires
  <2>3. /\ sock' \in [Sockets -> {"connecting", "open", "closing", "gone"}]
        /\ ws' \in Sockets /\ ws' # None /\ authTimer' = ws' /\ authSettle' = "reconnect"
        /\ authDue' = FALSE
        /\ \A s \in Sockets : sock'[s] \in Live => s = ws'
    BY <2>2, OpenSocketFacts DEF IInv
  <2>4. QED
    BY <2>1, <2>2, <2>3 DEF IInv, TypeOK, OneLiveSocket, OneWayBack, QuietWhenClosed,
          WaitsOnLiveSocket, HandshakeBounded, ConnectionInv, Live
<1>9. ASSUME NEW s \in Sockets, Opens(s) PROVE IInv'
  <2>1. /\ sock[s] = "connecting" /\ sock' = [sock EXCEPT ![s] = "open"]
        /\ authDue' = (authDue \/ s = ws)
        /\ UNCHANGED <<authTimer, authSettle, connectPromise, ws, connected, closed,
                       reconnectTimer, request, sentOn>>
    BY <1>9 DEF Opens
  <2>2. \A x \in Sockets : /\ sock'[x] \in Live <=> sock[x] \in Live
                           /\ sock[x] \in {"open", "closing"} => sock'[x] \in {"open", "closing"}
    BY <2>1 DEF IInv, TypeOK, Live
  <2>3. TypeOK'
    BY <2>1 DEF IInv, TypeOK
  <2>4. ConnectionInv'
    BY <2>1, <2>2 DEF IInv, TypeOK, ConnectionInv
  <2>5. QED
    BY <2>1, <2>2, <2>3, <2>4 DEF IInv, OneLiveSocket, OneWayBack, QuietWhenClosed,
          WaitsOnLiveSocket, HandshakeBounded
<1>10. ASSUME NEW s \in Sockets, Closes(s) PROVE IInv'
  <2>1. /\ sock' = [sock EXCEPT ![s] = "gone"]
        /\ UNCHANGED <<authTimer, authSettle, connectPromise, ws, closed>>
    BY <1>10 DEF Closes
  <2>2. \A x \in Sockets : /\ sock'[x] \in Live <=> x # s /\ sock[x] \in Live
                           /\ x # s => sock'[x] = sock[x]
    BY <2>1 DEF IInv, TypeOK, Live
  <2>3. CASE s = ws
    <3>1. /\ connected' = FALSE /\ FailInFlight /\ authDue' = FALSE
          /\ reconnectTimer' = (reconnectTimer \/ ~closed)
      BY <1>10, <2>3 DEF Closes, OnClose
    <3>2. /\ request' \in [Requests -> {"none", "waiting", "answered", "rejected"}]
          /\ sentOn' = sentOn
          /\ \A r \in Requests : request'[r] # "waiting"
          /\ \A r \in Requests : request'[r] = "answered" => sentOn[r] # None
      BY <3>1, FailInFlightFacts DEF IInv
    <3>3. \A x \in Sockets : sock'[x] \notin Live
      BY <2>2, <2>3 DEF IInv, OneLiveSocket
    <3>4. TypeOK'
      BY <2>1, <3>1, <3>2 DEF IInv, TypeOK
    <3>5. reconnectTimer' => ~closed' /\ ws' # None /\ connectPromise' # "none"
      BY <2>1, <2>3, <3>1 DEF IInv, QuietWhenClosed, ConnectionInv, SocketAssumption
    <3>6. connectPromise' # "none"
      BY <2>1, <2>3 DEF IInv, ConnectionInv, SocketAssumption
    <3>7. QED
      BY <2>1, <3>1, <3>2, <3>3, <3>4, <3>5, <3>6 DEF IInv, OneLiveSocket, OneWayBack,
            QuietWhenClosed, WaitsOnLiveSocket, HandshakeBounded, ConnectionInv
  <2>4. CASE s # ws
    <3>1. UNCHANGED <<connected, request, sentOn, reconnectTimer, authDue>>
      BY <1>10, <2>4 DEF Closes
    <3>2. TypeOK'
      BY <2>1, <3>1 DEF IInv, TypeOK
    <3>3. ConnectionInv'
      <4>1. ws # None => sock'[ws] = sock[ws]
        BY <2>2, <2>4 DEF IInv, TypeOK
      <4>2. QED
        BY <2>1, <3>1, <4>1 DEF IInv, ConnectionInv
    <3>4. QED
      BY <2>1, <2>2, <3>1, <3>2, <3>3 DEF IInv, OneLiveSocket, OneWayBack, QuietWhenClosed,
            WaitsOnLiveSocket, HandshakeBounded
  <2>5. QED
    BY <2>3, <2>4
<1>11. ASSUME NEW r \in Requests, Request(r) PROVE IInv'
  <2>1. UNCHANGED <<sock, authVars, ws, connected, closed, reconnectTimer>>
    BY <1>11 DEF Request
  <2>2. TypeOK' /\ WaitsOnLiveSocket'
    <3>1. CASE connected /\ ws # None
      BY <1>11, <2>1, <3>1 DEF Request, IInv, TypeOK, WaitsOnLiveSocket
    <3>2. CASE ~(connected /\ ws # None)
      BY <1>11, <2>1, <3>2 DEF Request, IInv, TypeOK, WaitsOnLiveSocket
    <3>3. QED
      BY <3>1, <3>2
  <2>3. QED
    BY <2>1, <2>2 DEF IInv, OneLiveSocket, OneWayBack, QuietWhenClosed, HandshakeBounded,
          ConnectionInv
<1>12. ASSUME NEW r \in Requests, Responds(r) \/ RequestTimesOut(r) PROVE IInv'
  <2>1. /\ request[r] = "waiting" /\ UNCHANGED <<sock, authVars, ws, connected, closed,
                                               reconnectTimer, sentOn>>
        /\ \E a \in {"answered", "rejected"} : request' = [request EXCEPT ![r] = a]
    BY <1>12 DEF Responds, RequestTimesOut
  <2>2. TypeOK' /\ WaitsOnLiveSocket'
    BY <2>1 DEF IInv, TypeOK, WaitsOnLiveSocket
  <2>3. QED
    BY <2>1, <2>2 DEF IInv, OneLiveSocket, OneWayBack, QuietWhenClosed, HandshakeBounded,
          ConnectionInv
<1>13. CASE UNCHANGED vars
  BY <1>13 DEF vars, IInv, TypeOK, OneLiveSocket, OneWayBack, QuietWhenClosed,
               WaitsOnLiveSocket, HandshakeBounded, ConnectionInv
<1>14. QED
  BY <1>1, <1>2, <1>3, <1>4, <1>5, <1>6, <1>7, <1>8, <1>9, <1>10, <1>11, <1>12, <1>13 DEF Next

LEMMA Inductive == Spec => []IInv
<1>1. Init => IInv
  BY InitInv, SocketAssumption
<1>2. IInv /\ [Next]_vars => IInv'
  BY NextInv, SocketAssumption
<1>3. QED
  BY <1>1, <1>2, PTL DEF Spec

\* Every behaviour of the socket code is well typed.
THEOREM TypeCorrect == Spec => []TypeOK
<1>1. IInv => TypeOK
  BY DEF IInv
<1>2. QED
  BY <1>1, Inductive, PTL

\* openSocket and teardownSocket: there is never a second live socket, whatever the
\* order of drops, timers, handshakes and calls.
THEOREM OneSocket == Spec => []OneLiveSocket
<1>1. IInv => OneLiveSocket
  BY DEF IInv
<1>2. QED
  BY <1>1, Inductive, PTL

\* scheduleReconnect: a scheduled reconnect and a live socket exclude each other.
THEOREM OneWayBackAtATime == Spec => []OneWayBack
<1>1. IInv => OneWayBack
  BY DEF IInv
<1>2. QED
  BY <1>1, Inductive, PTL

\* dispose() and auth_error: a closed transport has no live socket and opens none.
THEOREM ClosedStaysQuiet == Spec => []QuietWhenClosed
<1>1. IInv => QuietWhenClosed
  BY DEF IInv
<1>2. QED
  BY <1>1, Inductive, PTL

\* failInFlight: no request outlives the connection it was sent on.
THEOREM RequestsWaitOnLiveSocket == Spec => []WaitsOnLiveSocket
<1>1. IInv => WaitsOnLiveSocket
  BY DEF IInv
<1>2. QED
  BY <1>1, Inductive, PTL

\* The auth timer: every handshake under way is bounded, and an authenticated
\* socket is never torn down by the timer of a handshake.
THEOREM HandshakesBounded == Spec => []HandshakeBounded
<1>1. IInv => HandshakeBounded
  BY DEF IInv
<1>2. QED
  BY <1>1, Inductive, PTL

-----------------------------------------------------------------------------
(* What the users of the transport see. *)

\* The handshake's slot holds the promise of connect() only until it is settled, and is
\* empty while the transport is connected.
SlotInv ==
    /\ authSettle = "connect" => connectPromise = "pending"
    /\ connected => authSettle = None

LEMMA InitSlot == SocketAssumption /\ Init => SlotInv
BY DEF SocketAssumption, Init, SlotInv

LEMMA NextSlot ==
    ASSUME SocketAssumption, IInv, SlotInv, [Next]_vars PROVE SlotInv'
<1> USE DEF authVars, reqVars
<1>1. CASE Connect
  <2>1. ~connected /\ connectPromise' = "pending" /\ UNCHANGED connected
    BY <1>1 DEF Connect, IInv, ConnectionInv
  <2>2. QED
    BY <2>1 DEF SlotInv
<1>2. CASE AuthOk \/ AuthError \/ AuthTimerFires
  BY <1>2, SocketAssumption DEF AuthOk, AuthError, AuthTimerFires, SettleAuth, SlotInv
<1>3. CASE ConnectThrows
  BY <1>3 DEF ConnectThrows, SlotInv, IInv, ConnectionInv
<1>4. CASE Dispose
  BY <1>4 DEF Dispose, SlotInv
<1>5. CASE ReconnectTimerFires
  <2>1. ~connected /\ ~closed
    BY <1>5 DEF ReconnectTimerFires, IInv, QuietWhenClosed, ConnectionInv
  <2>2. authSettle' = "reconnect" /\ UNCHANGED <<connectPromise, connected>>
    BY <1>5, <2>1 DEF ReconnectTimerFires, OpenSocket
  <2>3. QED
    BY <2>1, <2>2 DEF SlotInv
<1>6. CASE \E s \in Sockets : Opens(s) \/ Closes(s)
  BY <1>6 DEF Opens, Closes, OnClose, SlotInv
<1>7. CASE Reauth \/ (\E r \in Requests : Request(r) \/ Responds(r) \/ RequestTimesOut(r))
  BY <1>7 DEF Reauth, Request, Responds, RequestTimesOut, SlotInv
<1>8. CASE UNCHANGED vars
  BY <1>8 DEF vars, SlotInv
<1>9. QED
  BY <1>1, <1>2, <1>3, <1>4, <1>5, <1>6, <1>7, <1>8 DEF Next

\* A step in which the users see nothing.
LEMMA Unseen ==
    ASSUME UNCHANGED <<connectPromise, connected, closed, request>>
    PROVE  [Promise!Next]_(Promise!tunnelVars)
BY DEF Promise!tunnelVars

\* When no request is under way, rejecting them all changes nothing.
LEMMA NoneToReject ==
    ASSUME IInv, ~connected, FailInFlight
    PROVE  UNCHANGED request
<1>1. \A r \in Requests : request[r] # "waiting"
  BY DEF IInv, WaitsOnLiveSocket
<1>2. request = [r \in Requests |-> request[r]]
  BY DEF IInv, TypeOK
<1>3. QED
  BY <1>1, <1>2 DEF FailInFlight

\* Every step of the socket code is a step of the tunnel or goes unseen.
LEMMA TunnelStep ==
    ASSUME SocketAssumption, IInv, SlotInv, [Next]_vars
    PROVE  [Promise!Next]_(Promise!tunnelVars)
<1> USE DEF authVars, reqVars
<1>1. CASE Connect \/ ConnectThrows
  <2>1. Promise!Connect
    BY <1>1 DEF Connect, ConnectThrows, Promise!Connect
  <2>2. QED
    BY <2>1 DEF Promise!Next
<1>2. CASE Dispose
  <2>1. Promise!Dispose
    BY <1>2 DEF Dispose, FailInFlight, Promise!Dispose, Promise!RejectAll
  <2>2. QED
    BY <2>1 DEF Promise!Next
<1>3. CASE AuthOk
  <2>1. /\ ~closed /\ connectPromise # "none"
    BY <1>3 DEF AuthOk, CanReceive, IInv, TypeOK, QuietWhenClosed, ConnectionInv, Live
  <2>2. /\ connected' = TRUE /\ UNCHANGED <<closed, request>>
        /\ connectPromise' = IF authSettle = "connect" THEN "resolved" ELSE connectPromise
    BY <1>3 DEF AuthOk, SettleAuth
  <2>3. CASE connected
    <3>1. UNCHANGED connectPromise
      BY <2>2, <2>3 DEF SlotInv, SocketAssumption
    <3>2. QED
      BY <2>2, <2>3, <3>1, Unseen
  <2>4. CASE ~connected
    <3>1. Promise!ComesUp
      BY <2>1, <2>2, <2>4 DEF SlotInv, Promise!ComesUp
    <3>2. QED
      BY <3>1 DEF Promise!Next
  <2>5. QED
    BY <2>3, <2>4
<1>4. CASE AuthError
  <2>1. connectPromise # "none"
    BY <1>4 DEF AuthError, CanReceive, IInv, ConnectionInv
  <2>2. /\ closed' = TRUE /\ UNCHANGED <<connected, request>>
        /\ connectPromise' = IF authSettle = "connect" THEN "rejected" ELSE connectPromise
    BY <1>4 DEF AuthError, SettleAuth
  <2>3. authSettle = "connect" => connectPromise = "pending" /\ ~connected
    BY DEF SlotInv, SocketAssumption
  <2>4. Promise!Refused
    BY <2>1, <2>2, <2>3 DEF Promise!Refused
  <2>5. QED
    BY <2>4 DEF Promise!Next
<1>5. CASE AuthTimerFires
  <2>1. ~connected
    BY <1>5 DEF AuthTimerFires, IInv, HandshakeBounded
  <2>2. /\ UNCHANGED <<connected, closed, request>>
        /\ connectPromise' = IF authSettle = "connect" THEN "rejected" ELSE connectPromise
    BY <1>5 DEF AuthTimerFires, SettleAuth
  <2>3. CASE authSettle = "connect"
    <3>1. Promise!Fails
      BY <2>1, <2>2, <2>3 DEF SlotInv, Promise!Fails
    <3>2. QED
      BY <3>1 DEF Promise!Next
  <2>4. CASE authSettle # "connect"
    BY <2>2, <2>4, Unseen
  <2>5. QED
    BY <2>3, <2>4
<1>6. CASE Reauth \/ ReconnectTimerFires
  BY <1>6, Unseen DEF Reauth, ReconnectTimerFires
<1>7. ASSUME NEW s \in Sockets, Opens(s) PROVE [Promise!Next]_(Promise!tunnelVars)
  BY <1>7, Unseen DEF Opens
<1>8. ASSUME NEW s \in Sockets, Closes(s) PROVE [Promise!Next]_(Promise!tunnelVars)
  <2>1. UNCHANGED <<connectPromise, closed>>
    BY <1>8 DEF Closes
  <2>2. CASE s # ws
    BY <1>8, <2>1, <2>2, Unseen DEF Closes
  <2>3. CASE s = ws
    <3>1. connected' = FALSE /\ FailInFlight
      BY <1>8, <2>3 DEF Closes, OnClose
    <3>2. CASE connected
      <4>1. Promise!GoesDown
        BY <2>1, <3>1, <3>2 DEF FailInFlight, Promise!GoesDown, Promise!RejectAll
      <4>2. QED
        BY <4>1 DEF Promise!Next
    <3>3. CASE ~connected
      <4>1. UNCHANGED <<connected, request>>
        BY <3>1, <3>3, NoneToReject DEF IInv, TypeOK
      <4>2. QED
        BY <2>1, <4>1, Unseen
    <3>4. QED
      BY <3>2, <3>3
  <2>4. QED
    BY <2>2, <2>3
<1>9. ASSUME NEW r \in Requests, Request(r) PROVE [Promise!Next]_(Promise!tunnelVars)
  <2>1. connected => ws # None
    BY DEF IInv, ConnectionInv
  <2>2. Promise!Request(r)
    BY <1>9, <2>1 DEF Request, Promise!Request, Promise!Settle
  <2>3. QED
    BY <2>2 DEF Promise!Next
<1>10. ASSUME NEW r \in Requests, Responds(r) \/ RequestTimesOut(r)
       PROVE  [Promise!Next]_(Promise!tunnelVars)
  <2>1. request[r] = "waiting" /\ connected
    BY <1>10 DEF Responds, RequestTimesOut, IInv, WaitsOnLiveSocket
  <2>2. Promise!Ends(r)
    BY <1>10, <2>1 DEF Responds, RequestTimesOut, Promise!Ends, Promise!Settle
  <2>3. QED
    BY <2>2 DEF Promise!Next
<1>11. CASE UNCHANGED vars
  BY <1>11, Unseen DEF vars
<1>12. QED
  BY <1>1, <1>2, <1>3, <1>4, <1>5, <1>6, <1>7, <1>8, <1>9, <1>10, <1>11 DEF Next

\* connect(), request() and dispose() keep the promises of Tunnel for any sockets and
\* requests: connect() settles "exactly once" and never rejects a transport that is up,
\* nobody waits for an answer on another connection than his own, and a transport that is
\* closed stays so, in whatever order sockets, timers and frames come.
THEOREM ImplementsTunnel == Spec => RefinesTunnel
<1>1. Init => Promise!Init
  BY DEF Init, Promise!Init
<1>2. Spec => [](IInv /\ SlotInv)
  <2>1. Init => SlotInv
    BY InitSlot, SocketAssumption
  <2>2. IInv /\ SlotInv /\ [Next]_vars => SlotInv'
    BY NextSlot, SocketAssumption
  <2>3. QED
    BY <2>1, <2>2, Inductive, PTL DEF Spec
<1>3. IInv /\ SlotInv /\ [Next]_vars => [Promise!Next]_(Promise!tunnelVars)
  BY TunnelStep, SocketAssumption
<1>4. QED
  BY <1>1, <1>2, <1>3, PTL DEF Spec, RefinesTunnel, Promise!Spec
=============================================================================
