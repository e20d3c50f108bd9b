----------------------------- MODULE AgentTurn -----------------------------
(***************************************************************************)
(* Agent turns in one room: dispatchToAgent of src/src/channel.ts, the     *)
(* MatrixDraftStream that shows the growing answer as one message edited   *)
(* in place, the status label, the tool bubbles, and the flag of the       *)
(* final_card tool, which all turns of the room share.                     *)
(*                                                                         *)
(* The OpenClaw runtime drives a turn by callbacks.  It is external: in    *)
(* what order they may come is a matter of the constant Overlap.  Sends to *)
(* the room take time, and each may be rejected; between a send and its    *)
(* outcome any callback and any timer may run.  A rejection (an error, a   *)
(* timeout, a socket that drops) does not say what became of the request:  *)
(* the homeserver may have carried it out.  It has done so by then or it   *)
(* never does.                                                             *)
(*                                                                         *)
(* A text is a number, a longer text a larger one; 0 is the empty text and *)
(* Dots the placeholder of an answer without text.                         *)
(***************************************************************************)
EXTENDS Integers, Sequences, FiniteSets

CONSTANTS
    Turns,        \* messages of the user, each of which starts a turn
    Tools,        \* tool calls the agent makes in a turn
    None,         \* no turn, no tool call
    Calls,        \* invocations of onToolItem that may be under way at a time
    MaxText,      \* the longest text
    MaxFinals,    \* bound: final replies of one turn
    MaxOps,       \* bound: edits that wait for the one under way
    Repeats,      \* bound: whether a partial reply may come again with the same text
    MaxCarried,   \* bound: requests that are rejected although they were carried out
    Overlap,      \* what the runtime does not wait for
    SendFaults    \* whether sends may be rejected

\* Partial texts while a final reply is being delivered; tool items while another
\* item is handled, or the turn ends; a message while its predecessor's turn runs.
Overlaps == {"text", "items", "turns"}

ASSUME TurnAssumption ==
    /\ MaxText \in Nat \ {0} /\ MaxFinals \in Nat /\ MaxOps \in Nat \ {0} /\ MaxCarried \in Nat
    /\ Overlap \subseteq Overlaps
    /\ SendFaults \in BOOLEAN /\ Repeats \in BOOLEAN
    /\ None \notin Turns /\ None \notin Tools

VARIABLES
    phase,       \* where dispatchToAgentInner is
    draft,       \* its MatrixDraftStream
    awaiting,    \* the text deliver() waits to have finalized, 0: it is not waiting
    delivered,   \* final replies so far
    status,      \* currentState of the label
    keepAlive,   \* statusTimer is armed
    tools,       \* the `tools` map: the bubble of each tool call
    call,        \* onToolItem invocations under way
    cardFlag,    \* the room is in finalizedRooms
    \* the room
    messages,    \* answers: whose they are, and the text they show
    bubbles,     \* tool events: the status they show, and whether a send or edit of it
                 \* was rejected
    \* history
    pushed,      \* texts sent with chat4000.push, and the message they went to
    carried,     \* how many requests were rejected although they were carried out
    replies,     \* final texts handed to deliver
    finals,      \* texts deliver() has shown as final, and the message they went to
    owed         \* turns whose card has been sent and their final reply not come

turnVars == <<phase, delivered, awaiting>>
statusVars == <<status, keepAlive>>
toolVars == <<tools, call, bubbles>>
cardVars == <<cardFlag, owed>>
answerVars == <<messages, pushed, replies, finals, carried>>
vars == <<turnVars, draft, statusVars, toolVars, cardVars, answerVars>>

-----------------------------------------------------------------------------
Dots == MaxText + 1
Texts == 0..Dots

\* What sendOrEdit is sending, into which message (0: a new one).
NoSend == [text |-> 0, final |-> FALSE, into |-> 0]

NewDraft == [id |-> 0, last |-> 0, pending |-> 0, timer |-> FALSE, disposed |-> FALSE,
             ops |-> <<>>, out |-> NoSend]

NoBubble == [bubble |-> 0, status |-> "none"]
NoCall == [at |-> "free", turn |-> None, tool |-> None, ends |-> FALSE, rec |-> NoBubble]

Init ==
    /\ phase = [t \in Turns |-> "none"]
    /\ draft = [t \in Turns |-> NewDraft]
    /\ awaiting = [t \in Turns |-> 0] /\ delivered = [t \in Turns |-> 0]
    /\ status = [t \in Turns |-> "idle"] /\ keepAlive = [t \in Turns |-> FALSE]
    /\ tools = [t \in Turns |-> [x \in Tools |-> NoBubble]]
    /\ call = [c \in Calls |-> NoCall]
    /\ cardFlag \in BOOLEAN /\ owed = {}     \* a card before these turns may have left it
    /\ messages = <<>> /\ bubbles = <<>>
    /\ pushed = {} /\ replies = {} /\ finals = {} /\ carried = 0

-----------------------------------------------------------------------------
(* The draft stream. *)

\* Run the edits that wait, one at a time: with nothing new to say they all return
\* at once, else the first sends the text that is pending by now.
Start(d) ==
    IF d.ops = <<>> \/ d.out # NoSend THEN d
    ELSE IF d.pending \in {0, d.last} THEN [d EXCEPT !.ops = <<>>]
    ELSE [d EXCEPT !.out = [text |-> d.pending, final |-> Head(d.ops), into |-> d.id],
                   !.ops = Tail(d.ops)]

\* flushPending.
Flush(d, final) == Start([d EXCEPT !.ops = Append(@, final)])

\* update.
Update(d, n) == IF d.disposed \/ n = 0 THEN d ELSE [d EXCEPT !.pending = n, !.timer = TRUE]

\* finalize of a text that is not empty; mutant: flushed before it is pending.
FinalizeLate(d, n) ==
    IF d.disposed THEN d
    ELSE [Flush([d EXCEPT !.timer = FALSE], TRUE) EXCEPT !.pending = n]
Finalize(d, n) ==
    IF d.disposed THEN d ELSE Flush([d EXCEPT !.timer = FALSE, !.pending = n], TRUE)

\* reset; mutant: the next reply goes on in the same message.
ResetText(d) == [d EXCEPT !.timer = FALSE, !.last = 0, !.pending = 0]
Reset(d) == [d EXCEPT !.timer = FALSE, !.id = 0, !.last = 0, !.pending = 0]

\* A finalize that is awaited has run: neither waiting nor being sent.
Settled(d) == ~d.out.final /\ \A i \in DOMAIN d.ops : ~d.ops[i]

\* Nothing under way and nothing waiting.
Drained(d) == d.out = NoSend /\ d.ops = <<>>

-----------------------------------------------------------------------------
(* The status label: `idle`, or one of the three active words, which differ only
   in what they show.  The keep-alive repeats the current one. *)

\* setStatus; mutant: `idle` leaves the keep-alive running.
SetStatusOnly(t, s) ==
    /\ status' = [status EXCEPT ![t] = s]
    /\ keepAlive' = [keepAlive EXCEPT ![t] = @ \/ (s # status[t] /\ s # "idle")]
SetStatus(t, s) ==
    /\ status' = [status EXCEPT ![t] = s]
    /\ keepAlive' = [keepAlive EXCEPT ![t] = IF s = status[t] THEN @ ELSE s # "idle"]

-----------------------------------------------------------------------------
(* A turn begins. *)

Busy(t) == phase[t] \notin {"none", "over"}

\* Mutant: the flag of an earlier turn's card is left.
BeginTurnKeepsCard(t) ==
    /\ phase[t] = "none"
    /\ "turns" \in Overlap \/ \A u \in Turns : ~Busy(u)
    /\ phase' = [phase EXCEPT ![t] = "recording"]
    /\ UNCHANGED <<draft, awaiting, delivered, statusVars, toolVars, cardVars, answerVars>>

\* clearCardFinalized, then wait for the session record.
BeginTurn(t) ==
    /\ phase[t] = "none"
    /\ "turns" \in Overlap \/ \A u \in Turns : ~Busy(u)
    /\ phase' = [phase EXCEPT ![t] = "recording"]
    /\ cardFlag' = FALSE
    /\ UNCHANGED <<draft, awaiting, delivered, statusVars, toolVars, owed, answerVars>>

\* recordInboundSession resolves, and the reply is dispatched, or it rejects.
SessionRecorded(t) ==
    /\ phase[t] = "recording"
    /\ \E p \in {"running", "over"} : phase' = [phase EXCEPT ![t] = p]
    /\ UNCHANGED <<draft, awaiting, delivered, statusVars, toolVars, cardVars, answerVars>>

-----------------------------------------------------------------------------
(* Callbacks of the runtime while it runs the reply. *)

\* typing.start, onReasoningStream, onAssistantMessageStart, onToolStart, onError.
StatusCallback(t) ==
    /\ phase[t] = "running"
    /\ \E s \in {"active", "idle"} : SetStatus(t, s)
    /\ UNCHANGED <<turnVars, draft, toolVars, cardVars, answerVars>>

\* onPartialReply; the text of one reply only grows.
PartialReply(t) ==
    /\ phase[t] = "running"
    /\ awaiting[t] = 0 \/ "text" \in Overlap
    /\ \E n \in 1..MaxText :
         /\ n > draft[t].pending \/ (Repeats /\ n = draft[t].pending)
         /\ draft' = [draft EXCEPT ![t] = Update(@, n)]
    /\ SetStatus(t, "active")
    /\ UNCHANGED <<turnVars, toolVars, cardVars, answerVars>>

\* The throttle of an update has run out.
ThrottleFires(t) ==
    /\ draft[t].timer
    /\ Len(draft[t].ops) < MaxOps
    /\ draft' = [draft EXCEPT ![t] = Flush([@ EXCEPT !.timer = FALSE], FALSE)]
    /\ UNCHANGED <<turnVars, statusVars, toolVars, cardVars, answerVars>>

\* The final_card tool has sent its card: markCardFinalized.
CardSent(t) ==
    /\ phase[t] = "running" /\ awaiting[t] = 0
    /\ cardFlag' = TRUE
    /\ owed' = owed \cup {t}
    /\ UNCHANGED <<turnVars, draft, statusVars, toolVars, answerVars>>

\* The end of deliver(): reset the draft, clear the label.
Delivered(t, d) ==
    /\ draft' = [draft EXCEPT ![t] = Reset(d)]
    /\ SetStatus(t, "idle")

\* deliver() of a final reply that a card has replaced, or without text.
DeliverNothing(t) ==
    /\ phase[t] = "running" /\ awaiting[t] = 0
    /\ delivered[t] < MaxFinals
    /\ delivered' = [delivered EXCEPT ![t] = @ + 1]
    /\ cardFlag' = FALSE
    /\ owed' = owed \ {t}
    /\ Delivered(t, draft[t])
    /\ UNCHANGED <<phase, awaiting, toolVars, answerVars>>

\* The answer, if the stream has shown text n as one.
Answer(d, n) == IF d.id # 0 /\ d.last = n THEN {[message |-> d.id, text |-> n]} ELSE {}

\* deliver() of a final text: finalize, and the rest at once if there is nothing
\* to wait for.
DeliverText(t) ==
    /\ phase[t] = "running" /\ awaiting[t] = 0
    /\ ~cardFlag
    /\ delivered[t] < MaxFinals
    /\ delivered' = [delivered EXCEPT ![t] = @ + 1]
    /\ owed' = owed \ {t}
    /\ \E n \in 1..MaxText :
         LET d == Finalize(draft[t], n)
         IN  /\ replies' = replies \cup {[turn |-> t, text |-> n]}
             /\ IF Settled(d)
                THEN /\ Delivered(t, d)
                     /\ finals' = finals \cup Answer(d, n)
                     /\ UNCHANGED awaiting
                ELSE /\ draft' = [draft EXCEPT ![t] = d]
                     /\ awaiting' = [awaiting EXCEPT ![t] = n]
                     /\ UNCHANGED <<statusVars, finals>>
    /\ UNCHANGED <<phase, toolVars, cardFlag, messages, pushed, carried>>

\* What follows the end of a send of the draft: the edits that wait, then deliver()
\* if it was waiting for this one.
SendSettles(t, d) ==
    IF awaiting[t] # 0 /\ Settled(d)
    THEN /\ Delivered(t, d)
         /\ awaiting' = [awaiting EXCEPT ![t] = 0]
         /\ finals' = finals \cup Answer(d, awaiting[t])
    ELSE /\ draft' = [draft EXCEPT ![t] = d]
         /\ UNCHANGED <<awaiting, finals, statusVars>>

\* The homeserver carries out what the draft is sending.
CarriedOut(t) ==
    LET out == draft[t].out
        at  == IF out.into = 0 THEN Len(messages) + 1 ELSE out.into
    IN  /\ messages' = IF out.into = 0
                       THEN Append(messages, [turn |-> t, text |-> out.text])
                       ELSE [messages EXCEPT ![at].text = out.text]
        /\ pushed' = IF out.final
                     THEN pushed \cup {[message |-> at, text |-> out.text]}
                     ELSE pushed

\* sendText or editText resolves.
SendResolves(t) ==
    LET out == draft[t].out
    IN  /\ out # NoSend
        /\ CarriedOut(t)
        /\ SendSettles(t, Start([draft[t] EXCEPT !.out = NoSend, !.last = out.text,
                                                 !.id = IF out.into = 0 THEN Len(messages) + 1
                                                        ELSE @]))
    /\ UNCHANGED <<phase, delivered, toolVars, cardVars, replies, carried>>

\* A request is carried out and rejected all the same.
Carried == carried < MaxCarried /\ carried' = carried + 1

\* It rejects, which is only logged: the stream goes on as before it, with the text
\* in the room or not.
SendRejects(t) ==
    /\ SendFaults
    /\ draft[t].out # NoSend
    /\ \/ CarriedOut(t) /\ Carried
       \/ UNCHANGED <<messages, pushed, carried>>
    /\ SendSettles(t, Start([draft[t] EXCEPT !.out = NoSend]))
    /\ UNCHANGED <<phase, delivered, toolVars, cardVars, replies>>

-----------------------------------------------------------------------------
(* onToolItem: one bubble for each tool call, related to the answer. *)

Free(c) == call[c].at = "free"
NoCallOf(t) == \A c \in Calls : call[c].turn # t

\* An item arrives.  With a bubble, an `end` edits it; without, it is sent after
\* the anchor, which is sent first if there is no answer yet.  A status the plugin
\* does not know leaves the bubble running.
ItemArrives(t, x, c) ==
    /\ Free(c)
    /\ \/ phase[t] = "running" /\ NoCallOf(t)
       \/ Busy(t) /\ phase[t] # "recording" /\ "items" \in Overlap
    /\ \/ /\ tools[t][x] = NoBubble
          /\ \E ends \in BOOLEAN :
               call' = [call EXCEPT ![c] =
                           [at |-> IF draft[t].id = 0 THEN "anchor" ELSE "start",
                            turn |-> t, tool |-> x, ends |-> ends, rec |-> NoBubble]]
          /\ UNCHANGED tools
       \/ /\ tools[t][x] # NoBubble
          /\ \E s \in {tools[t][x].status, "done"} :    \* done or failed
               LET rec == [tools[t][x] EXCEPT !.status = s]
               IN  /\ tools' = [tools EXCEPT ![t][x] = rec]
                   /\ call' = [call EXCEPT ![c] = [at |-> "end", turn |-> t, tool |-> x,
                                                   ends |-> TRUE, rec |-> rec]]
    /\ UNCHANGED <<turnVars, draft, statusVars, bubbles, cardVars, answerVars>>

\* ensureAnchor resolves.
AnchorSent(c) ==
    LET t == call[c].turn
    IN  /\ call[c].at = "anchor"
        /\ messages' = Append(messages, [turn |-> t, text |-> Dots])
        /\ draft' = [draft EXCEPT ![t].id = Len(messages) + 1, ![t].last = Dots]
        /\ call' = [call EXCEPT ![c].at = "start"]
        /\ UNCHANGED <<turnVars, statusVars, tools, bubbles, cardVars, pushed, replies, finals, carried>>

\* sendToolStart resolves; an item that is an `end` goes on to the edit.
StartSent(c) ==
    LET t == call[c].turn
        x == call[c].tool
    IN  /\ call[c].at = "start"
        /\ bubbles' = Append(bubbles, [turn |-> t, shown |-> "running", lost |-> FALSE])
        /\ SetStatus(t, "active")
        /\ \E s \in IF call[c].ends THEN {"running", "done"} ELSE {"running"} :
             LET rec == [bubble |-> Len(bubbles) + 1, status |-> s]
             IN  /\ tools' = [tools EXCEPT ![t][x] = rec]
                 /\ call' = [call EXCEPT ![c] = IF @.ends THEN [@ EXCEPT !.at = "end", !.rec = rec]
                                                          ELSE NoCall]
        /\ UNCHANGED <<turnVars, draft, cardVars, answerVars>>

\* editToolEnd of a bubble has been carried out, or it was rejected and has not.  (One
\* rejected after it was carried out is only logged, and leaves what a resolved one does.)
EditBubble(rec) ==
    \E ok \in {TRUE, ~SendFaults} :
       bubbles' = [bubbles EXCEPT ![rec.bubble] =
                      IF ok THEN [@ EXCEPT !.shown = rec.status] ELSE [@ EXCEPT !.lost = TRUE]]

EndSent(c) ==
    /\ call[c].at = "end"
    /\ EditBubble(call[c].rec)
    /\ call' = [call EXCEPT ![c] = NoCall]
    /\ UNCHANGED <<turnVars, draft, statusVars, tools, cardVars, answerVars>>

\* ensureAnchor or sendToolStart rejects: the item is given up.  The placeholder, or a
\* bubble that `tools` does not know, may be in the room.
ItemFails(c) ==
    /\ SendFaults
    /\ \/ /\ call[c].at \in {"anchor", "start"}
          /\ UNCHANGED <<messages, bubbles, carried>>
       \/ /\ call[c].at = "anchor" /\ Carried
          /\ messages' = Append(messages, [turn |-> call[c].turn, text |-> Dots])
          /\ UNCHANGED bubbles
       \/ /\ call[c].at = "start" /\ Carried
          /\ bubbles' = Append(bubbles, [turn |-> call[c].turn, shown |-> "running", lost |-> TRUE])
          /\ UNCHANGED messages
    /\ call' = [call EXCEPT ![c] = NoCall]
    /\ UNCHANGED <<turnVars, draft, statusVars, tools, cardVars, pushed, replies, finals>>

-----------------------------------------------------------------------------
(* The end of a turn. *)

\* The dispatch resolves, or rejects on an error or abort.
DispatchEnds(t) ==
    /\ phase[t] = "running" /\ awaiting[t] = 0
    /\ NoCallOf(t) \/ "items" \in Overlap
    /\ phase' = [phase EXCEPT ![t] = "closing"]
    /\ UNCHANGED <<draft, awaiting, delivered, statusVars, toolVars, cardVars, answerVars>>

\* Close a bubble that is still running.
CloseTool(t, x) ==
    /\ phase[t] = "closing"
    /\ tools[t][x].status = "running"
    /\ tools' = [tools EXCEPT ![t][x].status = "done"]
    /\ EditBubble([tools[t][x] EXCEPT !.status = "done"])
    /\ UNCHANGED <<turnVars, draft, statusVars, call, cardVars, answerVars>>

\* Mutant: without a look at the open tools.
DisposeEarly(t) ==
    /\ phase[t] = "closing"
    /\ phase' = [phase EXCEPT ![t] = "draining"]
    /\ draft' = [draft EXCEPT ![t].disposed = TRUE, ![t].timer = FALSE]
    /\ UNCHANGED <<delivered, awaiting, statusVars, toolVars, cardVars, answerVars>>

\* dispose() of the draft.
Dispose(t) ==
    /\ phase[t] = "closing"
    /\ \A x \in Tools : tools[t][x].status # "running"
    /\ phase' = [phase EXCEPT ![t] = "draining"]
    /\ draft' = [draft EXCEPT ![t].disposed = TRUE, ![t].timer = FALSE]
    /\ UNCHANGED <<delivered, awaiting, statusVars, toolVars, cardVars, answerVars>>

\* Mutant: dispose() waits until the pending text has been shown.
TurnEndsOnceShown(t) ==
    /\ phase[t] = "draining"
    /\ Drained(draft[t]) /\ draft[t].pending \in {0, draft[t].last}
    /\ phase' = [phase EXCEPT ![t] = "over"]
    /\ SetStatus(t, "idle")
    /\ owed' = owed \ {t}
    /\ UNCHANGED <<delivered, awaiting, draft, toolVars, cardFlag, answerVars>>

\* Mutant: dispose() does not wait for the send under way.
TurnEndsAtOnce(t) ==
    /\ phase[t] = "draining"
    /\ phase' = [phase EXCEPT ![t] = "over"]
    /\ SetStatus(t, "idle")
    /\ owed' = owed \ {t}
    /\ UNCHANGED <<delivered, awaiting, draft, toolVars, cardFlag, answerVars>>

\* The send under way has settled: clear the label.
TurnEnds(t) ==
    /\ phase[t] = "draining"
    /\ Drained(draft[t])
    /\ phase' = [phase EXCEPT ![t] = "over"]
    /\ SetStatus(t, "idle")
    /\ owed' = owed \ {t}
    /\ UNCHANGED <<delivered, awaiting, draft, toolVars, cardFlag, answerVars>>

-----------------------------------------------------------------------------
Next ==
    \/ \E t \in Turns :
         \/ BeginTurn(t) \/ SessionRecorded(t)
         \/ StatusCallback(t) \/ PartialReply(t) \/ CardSent(t)
         \/ DeliverNothing(t) \/ DeliverText(t)
         \/ ThrottleFires(t) \/ SendResolves(t) \/ SendRejects(t)
         \/ DispatchEnds(t) \/ Dispose(t) \/ TurnEnds(t)
         \/ \E x \in Tools : CloseTool(t, x) \/ \E c \in Calls : ItemArrives(t, x, c)
    \/ \E c \in Calls : AnchorSent(c) \/ StartSent(c) \/ EndSent(c) \/ ItemFails(c)

Spec == Init /\ [][Next]_vars

\* What a turn waits for comes: a send resolves or rejects in the end (the transport
\* bounds every request), and the cleanup goes on.
Fairness ==
    \A t \in Turns :
       WF_vars(\/ SendResolves(t) \/ SendRejects(t)
               \/ Dispose(t) \/ TurnEnds(t) \/ \E x \in Tools : CloseTool(t, x))

FairSpec == Spec /\ Fairness

-----------------------------------------------------------------------------
(* Properties. *)

Drafts == [id : Nat, last : Texts, pending : Texts, timer : BOOLEAN, disposed : BOOLEAN,
           ops : Seq(BOOLEAN),
           out : [text : Texts, final : BOOLEAN, into : Nat]]
Recs == [bubble : Nat, status : {"none", "running", "done"}]
Answers == [message : Nat \ {0}, text : Texts]

\* Every variable has its type; edits wait only behind one that is being sent.
TypeOK ==
    /\ phase \in [Turns -> {"none", "recording", "running", "closing", "draining", "over"}]
    /\ draft \in [Turns -> Drafts]
    /\ awaiting \in [Turns -> 0..MaxText] /\ delivered \in [Turns -> 0..MaxFinals]
    /\ status \in [Turns -> {"idle", "active"}]
    /\ keepAlive \in [Turns -> BOOLEAN]
    /\ tools \in [Turns -> [Tools -> Recs]]
    /\ call \in [Calls -> [at : {"free", "anchor", "start", "end"}, turn : Turns \cup {None},
                           tool : Tools \cup {None}, ends : BOOLEAN, rec : Recs]]
    /\ cardFlag \in BOOLEAN /\ owed \in SUBSET Turns
    /\ messages \in Seq([turn : Turns, text : Texts])
    /\ bubbles \in Seq([turn : Turns, shown : {"running", "done"}, lost : BOOLEAN])
    /\ pushed \in SUBSET Answers /\ finals \in SUBSET Answers
    /\ replies \in SUBSET [turn : Turns, text : 1..MaxText] /\ carried \in 0..MaxCarried
    /\ \A t \in Turns : draft[t].ops # <<>> => draft[t].out # NoSend

\* "One message that updates itself ... the final edit carries the full text": a
\* message that was pushed with a final text goes on showing it.
FinalStands == \A p \in pushed : messages[p.message].text = p.text

\* "Only finalize() passes true": what is pushed is the text of a final reply of
\* the turn, never a draft or a placeholder.
PushedIsFinal ==
    \A p \in pushed : [turn |-> messages[p.message].turn, text |-> p.text] \in replies

\* "The final edit flips push to true": a final text that is shown has been pushed.
FinalPushed == finals \subseteq pushed

\* "Close any tool bubble still running": after the turn none of its bubbles is
\* left spinning, but for one of which a send or an edit was rejected: of a bubble whose
\* sendToolStart rejects the code knows nothing, whether or not it is in the room.
NoEternalSpinner ==
    \A i \in DOMAIN bubbles :
       phase[bubbles[i].turn] \in {"draining", "over"} =>
          bubbles[i].shown # "running" \/ bubbles[i].lost

\* "ALWAYS clear the label and stop the keep-alive": once the turn is over nothing
\* of it is active: no label, no keep-alive, no edit scheduled or being sent.
QuietAfterTurn ==
    \A t \in Turns : phase[t] = "over" =>
       /\ status[t] = "idle" /\ ~keepAlive[t]
       /\ ~draft[t].timer /\ Drained(draft[t])

\* "True iff a card finalized this room's current turn".
CardOfThisTurn == \A t \in Turns : phase[t] = "running" => (cardFlag <=> t \in owed)

\* A turn whose dispatch has ended, in whatever state, is over in the end, although
\* sends fail.
TurnCleansUp == \A t \in Turns : phase[t] = "closing" ~> phase[t] = "over"

\* What the user reads, whatever becomes of the sends and however throttled edits, tool
\* items and final replies interleave ("one message that updates itself", streaming.ts): a
\* turn writes only while it is under way and only into its own messages, and none that was
\* pushed is written again.
Stage(t) == IF phase[t] = "none" THEN "new" ELSE IF phase[t] = "over" THEN "over" ELSE "open"
Reading == INSTANCE Conversation WITH stage <- [t \in Turns |-> Stage(t)]
RefinesConversation == Reading!Spec
=============================================================================
