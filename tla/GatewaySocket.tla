--------------------------- MODULE GatewaySocket ---------------------------
(***************************************************************************)
(* The socket half of src/src/matrix/gateway-transport.ts: opening and     *)
(* replacing the WebSocket, the authentication handshake and the timer     *)
(* that bounds it, reconnecting after a close, and the requests tunnelled  *)
(* over the socket.  GatewaySync models what the sync frames do.           *)
(*                                                                         *)
(* JavaScript runs one callback at a time: every action is one callback    *)
(* (a socket event, a timer, a call), and callbacks come in any order the  *)
(* socket's state allows.  Delays are not modelled: an armed timer may     *)
(* fire at any time.                                                       *)
(***************************************************************************)
EXTENDS FiniteSets

CONSTANTS
    Sockets,     \* identities of WebSockets; one that is gone may be used again
    Requests,    \* the C-S calls made in a behaviour
    None         \* `undefined`

ASSUME SocketAssumption == None \notin Sockets \cup {"connect", "reconnect"}

VARIABLES
    \* the network (external)
    sock,             \* readyState of each socket; "gone": closed, or not made yet
    authDue,          \* the gateway has an auth frame of the current socket to answer
    \* GatewayTransport
    ws,               \* the current socket: the only one with listeners
    authTimer,        \* the socket whose handshake the armed timer bounds
    authSettle,       \* whose promise the handshake settles: connect()'s or a reconnect's
    connectPromise,   \* the promise connect() returned
    connected,
    closed,           \* no reconnecting any more: disposed, or the token is bad
    reconnectTimer,   \* armed
    request,          \* what became of each request
    sentOn            \* the socket a request was sent on

reqVars  == <<request, sentOn>>
authVars == <<authDue, authTimer, authSettle, connectPromise>>
vars == <<sock, authVars, ws, connected, closed, reconnectTimer, reqVars>>

Live == {"connecting", "open"}

Init ==
    /\ sock = [s \in Sockets |-> "gone"]
    /\ authDue = FALSE
    /\ ws = None /\ authTimer = None /\ authSettle = None
    /\ connectPromise = "none"
    /\ connected = FALSE /\ closed = FALSE /\ reconnectTimer = FALSE
    /\ request = [r \in Requests |-> "none"]
    /\ sentOn = [r \in Requests |-> None]

-----------------------------------------------------------------------------
(* Helpers, as the code has them. *)

\* teardownSocket: the sockets once the current one is detached and closed.
Detached == [s \in Sockets |-> IF s = ws /\ sock[s] \in Live THEN "closing" ELSE sock[s]]

\* settleAuthResolve and settleAuthReject; mutant: the timer stays armed.
SettleAuthOnly(outcome) ==
    /\ authSettle' = None
    /\ connectPromise' = IF authSettle = "connect" THEN outcome ELSE connectPromise
    /\ UNCHANGED authTimer
SettleAuth(outcome) ==
    /\ authTimer' = None
    /\ authSettle' = None
    /\ connectPromise' = IF authSettle = "connect" THEN outcome ELSE connectPromise

\* failInFlight: every request without an answer is rejected; mutant: they wait on,
\* for an answer on the next socket.
KeepInFlight == UNCHANGED reqVars
FailInFlight ==
    /\ request' = [r \in Requests |-> IF request[r] = "waiting" THEN "rejected" ELSE request[r]]
    /\ UNCHANGED sentOn

\* openSocket: replace the current socket by a new one and bound its handshake.
\* A reconnect's promise is only logged; the slot for it replaces an older one.
OpenSocket(caller) ==
    /\ authDue' = FALSE
    /\ \E s \in Sockets :
         /\ Detached[s] = "gone"
         /\ sock' = [Detached EXCEPT ![s] = "connecting"]
         /\ ws' = s
         /\ authTimer' = s
    /\ authSettle' = caller

-----------------------------------------------------------------------------
(* The callers. *)

\* connect().
Connect ==
    /\ connectPromise = "none"
    /\ OpenSocket("connect")
    /\ connectPromise' = "pending"
    /\ UNCHANGED <<connected, closed, reconnectTimer, reqVars>>

\* connect() with a URL the WebSocket constructor throws on.
ConnectThrows ==
    /\ connectPromise = "none"
    /\ connectPromise' = "rejected"
    /\ UNCHANGED <<sock, authDue, authTimer, authSettle, ws, connected, closed, reconnectTimer,
                   reqVars>>

\* request(): rejected at once without a connection.
Request(r) ==
    /\ connectPromise = "resolved"
    /\ request[r] = "none"
    /\ IF connected /\ ws # None
       THEN /\ request' = [request EXCEPT ![r] = "waiting"]
            /\ sentOn' = [sentOn EXCEPT ![r] = ws]
       ELSE /\ request' = [request EXCEPT ![r] = "rejected"]
            /\ UNCHANGED sentOn
    /\ UNCHANGED <<sock, authVars, ws, connected, closed, reconnectTimer>>

\* dispose(); its callers hold the transport only once connect() has resolved.
Dispose ==
    /\ connectPromise = "resolved"
    /\ closed' = TRUE
    /\ reconnectTimer' = FALSE
    /\ authTimer' = None
    /\ FailInFlight
    /\ sock' = Detached /\ ws' = None
    /\ authDue' = FALSE
    /\ connected' = FALSE
    /\ UNCHANGED <<authSettle, connectPromise>>

-----------------------------------------------------------------------------
(* Socket events; what happens to a socket without listeners goes unseen. *)

\* `open`: send the auth frame.
Opens(s) ==
    /\ sock[s] = "connecting"
    /\ sock' = [sock EXCEPT ![s] = "open"]
    /\ authDue' = (authDue \/ s = ws)
    /\ UNCHANGED <<authTimer, authSettle, connectPromise, ws, connected, closed, reconnectTimer,
                   reqVars>>

CanReceive == ws # None /\ sock[ws] = "open"

\* auth_ok.
AuthOk ==
    /\ CanReceive /\ authDue
    /\ authDue' = FALSE
    /\ connected' = TRUE
    /\ SettleAuth("resolved")
    /\ UNCHANGED <<sock, ws, closed, reconnectTimer, reqVars>>

\* auth_error: the token is bad, for good.
AuthError ==
    /\ CanReceive /\ authDue
    /\ authDue' = FALSE
    /\ SettleAuth("rejected")
    /\ closed' = TRUE
    /\ sock' = [sock EXCEPT ![ws] = "closing"]
    /\ UNCHANGED <<ws, connected, reconnectTimer, reqVars>>

\* reauth: the same token again.
Reauth ==
    /\ CanReceive /\ connected
    /\ authDue' = TRUE
    /\ UNCHANGED <<sock, authTimer, authSettle, connectPromise, ws, connected, closed,
                   reconnectTimer, reqVars>>

\* resp; the answer to a request that is no longer pending is ignored.
Responds(r) ==
    /\ CanReceive /\ sentOn[r] = ws
    /\ request[r] = "waiting"
    /\ request' = [request EXCEPT ![r] = "answered"]
    /\ UNCHANGED <<sock, authVars, ws, connected, closed, reconnectTimer, sentOn>>

\* Mutants of onClose: it retries a failed attempt, but does not come back from a
\* drop; it does not look at `closed`.
OnCloseGivesUp ==
    /\ connected' = FALSE
    /\ FailInFlight
    /\ reconnectTimer' = (reconnectTimer \/ (~closed /\ ~connected))
    /\ authDue' = FALSE

OnCloseAlways ==
    /\ connected' = FALSE
    /\ FailInFlight
    /\ reconnectTimer' = TRUE
    /\ authDue' = FALSE

\* onClose: fail what is in flight and reconnect after a while.
OnClose ==
    /\ connected' = FALSE
    /\ FailInFlight
    /\ reconnectTimer' = (reconnectTimer \/ ~closed)
    /\ authDue' = FALSE

\* The end of a socket: closed by either side, by the network, or never opened.
\* The current socket's listeners see it.
Closes(s) ==
    /\ sock[s] # "gone"
    /\ sock' = [sock EXCEPT ![s] = "gone"]
    /\ IF s = ws THEN OnClose
                 ELSE UNCHANGED <<connected, reqVars, reconnectTimer, authDue>>
    /\ UNCHANGED <<authTimer, authSettle, connectPromise, ws, closed>>

-----------------------------------------------------------------------------
(* Timers. *)

\* Mutant: the timer rejects the promise and leaves the socket alone.
AuthTimerOnlyRejects ==
    /\ authTimer # None
    /\ ws' = None
    /\ authDue' = FALSE
    /\ SettleAuth("rejected")
    /\ UNCHANGED <<sock, connected, closed, reconnectTimer, reqVars>>

\* The handshake took too long.
AuthTimerFires ==
    /\ authTimer # None
    /\ sock' = Detached /\ ws' = None
    /\ authDue' = FALSE
    /\ SettleAuth("rejected")
    /\ UNCHANGED <<connected, closed, reconnectTimer, reqVars>>

\* Mutant: the reconnect timer runs as an interval.
ReconnectTimerRepeats ==
    /\ reconnectTimer
    /\ IF closed THEN UNCHANGED <<sock, authDue, ws, authTimer, authSettle>>
                 ELSE OpenSocket("reconnect")
    /\ UNCHANGED <<reconnectTimer, connectPromise, connected, closed, reqVars>>

ReconnectTimerFires ==
    /\ reconnectTimer
    /\ reconnectTimer' = FALSE
    /\ IF closed THEN UNCHANGED <<sock, authDue, ws, authTimer, authSettle>>
                 ELSE OpenSocket("reconnect")
    /\ UNCHANGED <<connectPromise, connected, closed, reqVars>>

\* A request had no answer in time.
RequestTimesOut(r) ==
    /\ request[r] = "waiting"
    /\ request' = [request EXCEPT ![r] = "rejected"]
    /\ UNCHANGED <<sock, authVars, ws, connected, closed, reconnectTimer, sentOn>>

-----------------------------------------------------------------------------
Next ==
    \/ Connect \/ ConnectThrows \/ Dispose
    \/ AuthOk \/ AuthError \/ Reauth
    \/ AuthTimerFires \/ ReconnectTimerFires
    \/ \E s \in Sockets : Opens(s) \/ Closes(s)
    \/ \E r \in Requests : Request(r) \/ Responds(r) \/ RequestTimesOut(r)

Spec == Init /\ [][Next]_vars

\* Armed timers fire and a closed socket's end is seen.  The network lets a
\* handshake through now and then: a socket that keeps being opened is open, and
\* authenticated, in the end.
Fairness ==
    /\ WF_vars(AuthTimerFires) /\ WF_vars(ReconnectTimerFires)
    /\ \A s \in Sockets : /\ WF_vars(sock[s] = "closing" /\ Closes(s))
                          /\ SF_vars(ws = s /\ Opens(s))
    /\ SF_vars(AuthOk)
    /\ \A r \in Requests : WF_vars(RequestTimesOut(r))

FairSpec == Spec /\ Fairness

-----------------------------------------------------------------------------
(* Properties. *)

\* Every variable has its type, and what waits for an answer was sent.
TypeOK ==
    /\ sock \in [Sockets -> {"connecting", "open", "closing", "gone"}]
    /\ ws \in Sockets \cup {None} /\ authTimer \in Sockets \cup {None}
    /\ authSettle \in {"connect", "reconnect", None}
    /\ connectPromise \in {"none", "pending", "resolved", "rejected"}
    /\ authDue \in BOOLEAN /\ connected \in BOOLEAN
    /\ closed \in BOOLEAN /\ reconnectTimer \in BOOLEAN
    /\ request \in [Requests -> {"none", "waiting", "answered", "rejected"}]
    /\ sentOn \in [Requests -> Sockets \cup {None}]
    /\ \A r \in Requests : request[r] \in {"waiting", "answered"} => sentOn[r] # None

\* "Guarantee exactly ONE live socket per transport": a socket that is not the
\* current one has been told to close.
OneLiveSocket == \A s \in Sockets : sock[s] \in Live => s = ws

\* "The close->reopen loop": while a reconnect is scheduled no socket is live, so
\* the two can never each bring up a connection.
OneWayBack == reconnectTimer => \A s \in Sockets : sock[s] \notin Live

\* After dispose() or an auth_error no socket is live and none is about to be.
QuietWhenClosed == closed => ~reconnectTimer /\ \A s \in Sockets : sock[s] \notin Live

\* "A dropped socket invalidates" what is in flight: a request waits only on the
\* authenticated socket it was sent on, never for an answer on the next one.
WaitsOnLiveSocket ==
    \A r \in Requests : request[r] = "waiting" => connected /\ ws # None /\ sentOn[r] = ws

\* Every handshake is bounded by a timer, which belongs to the current socket and
\* is gone once the socket is authenticated, so it never tears down a healthy one.
HandshakeBounded ==
    /\ authTimer # None => authTimer = ws
    /\ connected => authTimer = None
    /\ \A s \in Sockets : sock[s] \in Live /\ ~connected => authTimer = s

\* No socket, and no timer to open one.
Stranded == ws = None /\ ~reconnectTimer

\* A transport that has served its caller gets its connection back after a drop,
\* unless it was closed or a handshake timed out.
Recovers == (connectPromise = "resolved" /\ ~connected) ~> (connected \/ closed \/ Stranded)

\* "onClose (which always follows a failed socket) reschedules": a transport that
\* has served its caller, and is not closed, has a socket or is about to open one.
NeverStranded == connectPromise = "resolved" /\ ~closed => ~Stranded

\* "Without this, connect() hangs forever": with the handshake bounded by a timer
\* that every outcome clears, connect() settles.
ConnectSettles == connectPromise = "pending" ~> connectPromise # "pending"

\* Whatever its sockets and timers do, its users see a Tunnel: connect() "exactly once",
\* requests that settle once and with the connection they were made on, and nothing that
\* comes back once it is closed.
Promise == INSTANCE Tunnel WITH
    connect <- connectPromise,
    up      <- connected,
    shut    <- closed

RefinesTunnel == Promise!Spec
=============================================================================
