------------------------------- MODULE Tunnel -------------------------------
(***************************************************************************)
(* What the users of the gateway transport may rely on: connect(), the     *)
(* requests of fetch() and dispose() of gateway-transport.ts, without its  *)
(* sockets, handshakes, timers and reconnects.                             *)
(*                                                                         *)
(* connect() settles once.  It resolves only as the tunnel comes up, and   *)
(* is not rejected once it is up.  A tunnel that is up may go down and     *)
(* come up again until it is shut, which is for good.  A request is made   *)
(* only while the tunnel is up and settles once; when the tunnel goes      *)
(* down, every request under way is rejected there and then.               *)
(***************************************************************************)
CONSTANT Requests

VARIABLES
    connect,        \* the promise of connect()
    up,             \* the gateway has accepted the transport
    shut,           \* it will not be up again
    request         \* what became of each request

tunnelVars == <<connect, up, shut, request>>

Init ==
    /\ connect = "none" /\ up = FALSE /\ shut = FALSE
    /\ request = [r \in Requests |-> "none"]

Settle(r, answer) == request' = [request EXCEPT ![r] = answer]
RejectAll ==
    request' = [r \in Requests |-> IF request[r] = "waiting" THEN "rejected" ELSE request[r]]

\* connect() is called; it may fail at once.
Connect ==
    /\ connect = "none" /\ connect' \in {"pending", "rejected"}
    /\ UNCHANGED <<up, shut, request>>

\* The gateway accepts the transport, the first time or after a drop.
ComesUp ==
    /\ connect # "none" /\ ~up /\ ~shut
    /\ up' = TRUE
    /\ connect' = connect \/ (connect = "pending" /\ connect' = "resolved")
    /\ UNCHANGED <<shut, request>>

\* The first attempt fails.
Fails ==
    /\ connect = "pending" /\ ~up /\ connect' = "rejected"
    /\ UNCHANGED <<up, shut, request>>

\* The connection is lost.
GoesDown ==
    /\ up /\ up' = FALSE
    /\ RejectAll
    /\ UNCHANGED <<connect, shut>>

\* The gateway refuses the token; a tunnel that is up has yet to go down.
Refused ==
    /\ connect # "none" /\ shut' = TRUE
    /\ connect' = connect \/ (connect = "pending" /\ ~up /\ connect' = "rejected")
    /\ UNCHANGED <<up, request>>

\* dispose().
Dispose ==
    /\ connect = "resolved"
    /\ shut' = TRUE /\ up' = FALSE
    /\ RejectAll
    /\ UNCHANGED connect

\* A request is made by who has been given the tunnel; without it it fails at once.
Request(r) ==
    /\ connect = "resolved" /\ request[r] = "none"
    /\ Settle(r, IF up THEN "waiting" ELSE "rejected")
    /\ UNCHANGED <<connect, up, shut>>

\* It is answered over the tunnel it was made on, or no answer comes in time.
Ends(r) ==
    /\ request[r] = "waiting" /\ up
    /\ \E answer \in {"answered", "rejected"} : Settle(r, answer)
    /\ UNCHANGED <<connect, up, shut>>

Next ==
    \/ Connect \/ ComesUp \/ Fails \/ GoesDown \/ Refused \/ Dispose
    \/ \E r \in Requests : Request(r) \/ Ends(r)

Spec == Init /\ [][Next]_tunnelVars
=============================================================================
