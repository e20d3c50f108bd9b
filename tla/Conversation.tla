---------------------------- MODULE Conversation ----------------------------
(***************************************************************************)
(* What the user reads in a room while the agent answers: the messages of  *)
(* channel.ts and streaming.ts, without streams, throttles, queues and     *)
(* callbacks.                                                              *)
(*                                                                         *)
(* Only a turn that is under way writes, and only its own messages.  A     *)
(* message is edited in place until it is pushed to the user's devices;    *)
(* it is pushed at most once, with the text of a final reply of its turn,  *)
(* and nobody touches it any more.                                         *)
(***************************************************************************)
EXTENDS Naturals, Sequences

CONSTANTS Turns, Texts

VARIABLES
    stage,          \* of each turn
    messages,       \* whose they are, and the text they show
    pushed,         \* those that were pushed, and with which text
    replies         \* final replies of the agent

Init ==
    /\ stage = [t \in Turns |-> "new"]
    /\ messages = <<>> /\ pushed = {} /\ replies = {}

\* The room is left as it is.
Begins(t) ==
    /\ stage[t] = "new" /\ stage' = [stage EXCEPT ![t] = "open"]
    /\ UNCHANGED <<messages, pushed, replies>>
Ends(t) ==
    /\ stage[t] = "open" /\ stage' = [stage EXCEPT ![t] = "over"]
    /\ UNCHANGED <<messages, pushed, replies>>
Replies(t, n) ==
    /\ stage[t] = "open" /\ replies' = replies \cup {[turn |-> t, text |-> n]}
    /\ UNCHANGED <<stage, messages, pushed>>

\* Turn t puts text n into message i: a new one, or one of its own that is still a draft.
Writes(t, i, n) ==
    /\ stage[t] = "open"
    /\ \/ /\ i = Len(messages) + 1
          /\ messages' = Append(messages, [turn |-> t, text |-> n])
       \/ /\ i \in DOMAIN messages /\ messages[i].turn = t
          /\ \A p \in pushed : p.message # i
          /\ messages' = [messages EXCEPT ![i].text = n]
    /\ UNCHANGED <<stage, replies>>

Draft(t, i, n) == Writes(t, i, n) /\ UNCHANGED pushed
Final(t, i, n) ==
    /\ [turn |-> t, text |-> n] \in replies
    /\ Writes(t, i, n)
    /\ pushed' = pushed \cup {[message |-> i, text |-> n]}

Next ==
    \E t \in Turns :
       \/ Begins(t) \/ Ends(t)
       \/ \E n \in Texts : \/ Replies(t, n)
                           \/ \E i \in 1..Len(messages) + 1 : Draft(t, i, n) \/ Final(t, i, n)

Spec == Init /\ [][Next]_<<stage, messages, pushed, replies>>
=============================================================================
