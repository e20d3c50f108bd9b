----------------------------- MODULE Admission -----------------------------
(***************************************************************************)
(* What a user who pairs devices may rely on: the listeners and the file   *)
(* of device-pairing.ts and outstanding-codes.ts, without polls, entries   *)
(* and processes that die.                                                 *)
(*                                                                         *)
(* Only a device that has redeemed a code is let in.  The code of an       *)
(* interactive pairing is redeemed by one device; the phone that asked for *)
(* it is told `completed` exactly when that device is let in, once, and    *)
(* then nothing else but an error.  It is told what is handed to the       *)
(* transport for it: a status event whose request fails is reported and    *)
(* not sent again.                                                         *)
(***************************************************************************)
EXTENDS Naturals, Sequences

CONSTANTS Codes, Interactive, Devices

VARIABLES
    redeemed,       \* the devices that have redeemed each code
    admitted,       \* how often each of them was let in for it
    told            \* what was handed to the transport for the phone that asked, in order

Init ==
    /\ redeemed = [c \in Codes |-> {}]
    /\ admitted = [c \in Codes |-> [d \in Devices |-> 0]]
    /\ told = [c \in Codes |-> <<>>]

Redeems(c, d) ==
    /\ IF c \in Interactive THEN redeemed[c] = {} ELSE d \notin redeemed[c]
    /\ redeemed' = [redeemed EXCEPT ![c] = @ \cup {d}]
    /\ UNCHANGED <<admitted, told>>

Lets(c, ds) ==
    /\ ds # {} /\ ds \subseteq redeemed[c]
    /\ admitted' = [admitted EXCEPT ![c] = [d \in Devices |-> @[d] + IF d \in ds THEN 1 ELSE 0]]
    /\ UNCHANGED redeemed

\* Other codes belong to the operator, who is told nothing and may let a device in again.
Admits(c, ds) == c \notin Interactive /\ Lets(c, ds) /\ UNCHANGED told

Completes(c, ds) ==
    /\ c \in Interactive /\ told[c] = <<>>
    /\ Lets(c, ds)
    /\ told' = [told EXCEPT ![c] = <<"completed">>]

\* Nothing follows `cancelled`.
Tells(c, s) ==
    /\ c \in Interactive
    /\ \A i \in DOMAIN told[c] : /\ told[c][i] # "cancelled"
                                 /\ told[c][i] = "completed" => s = "error"
    /\ told' = [told EXCEPT ![c] = Append(@, s)]
    /\ UNCHANGED <<redeemed, admitted>>

Next ==
    \E c \in Codes :
       \/ \E d \in Devices : Redeems(c, d)
       \/ \E ds \in SUBSET Devices : Admits(c, ds) \/ Completes(c, ds)
       \/ \E s \in {"expired", "error", "cancelled"} : Tells(c, s)

Spec == Init /\ [][Next]_<<redeemed, admitted, told>>
=============================================================================
