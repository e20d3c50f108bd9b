----------------------------- MODULE KeyCustody -----------------------------
(***************************************************************************)
(* What the sync transport promises about room keys, without saying how.   *)
(*                                                                         *)
(* A to-device room key is held by the homeserver until the device allows  *)
(* it to be deleted.  The device allows that only for keys it has saved on *)
(* durable storage (flushBeforeAck in gateway-transport.ts: "never         *)
(* deletion of unsaved keys"), and for those it has given up before: a key *)
(* is given up for good, and never in the step that lets it be deleted.    *)
(***************************************************************************)
CONSTANT Keys          \* the room keys addressed to this device

VARIABLES
    held,              \* keys the homeserver still holds
    saved,             \* keys in the device's durable crypto snapshot
    givenUp            \* keys the device has gone past without having saved them

custodyVars == <<held, saved, givenUp>>

Init ==
    /\ held = Keys
    /\ saved = {}
    /\ givenUp = {}

\* A crypto snapshot lands on disk; a snapshot never forgets a key.
Save ==
    /\ saved \subseteq saved'
    /\ saved' \subseteq Keys
    /\ UNCHANGED <<held, givenUp>>

\* The homeserver deletes keys the device has let go of.
Release ==
    /\ held' \subseteq held
    /\ held \ held' \subseteq saved \cup givenUp
    /\ UNCHANGED <<saved, givenUp>>

\* The device goes past keys it has not saved.
GiveUp ==
    /\ givenUp \subseteq givenUp'
    /\ givenUp' \subseteq Keys
    /\ UNCHANGED <<held, saved>>

Next == Save \/ Release \/ GiveUp

Spec == Init /\ [][Next]_custodyVars

\* No key disappears from both ends, but for one given up.
NoKeyLost == Keys \subseteq held \cup saved \cup givenUp
=============================================================================
