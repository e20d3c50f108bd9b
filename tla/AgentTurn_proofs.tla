-------------------------- MODULE AgentTurn_proofs --------------------------
(***************************************************************************)
(* Proofs about AgentTurn: its types; when the runtime waits for deliver() *)
(* before the next partial text, that what is pushed is a final reply and  *)
(* goes on being shown; when it serves one turn at a time, that the card   *)
(* flag is that of the turn; and when it waits for the items of a turn,    *)
(* that the turn leaves the room quiet and no bubble open.                 *)
(***************************************************************************)
EXTENDS AgentTurn, TLAPS

Outs == [text : Texts, final : BOOLEAN, into : Nat]
CallTypes == [at : {"free", "anchor", "start", "end"}, turn : Turns \cup {None},
              tool : Tools \cup {None}, ends : BOOLEAN, rec : Recs]

-----------------------------------------------------------------------------
(* Edits of a draft. *)

LEMMA Consts ==
    ASSUME TurnAssumption
    PROVE  /\ MaxText \in Nat /\ MaxText > 0 /\ 0 \in Texts /\ Dots \in Texts /\ Dots > 0
           /\ 0..MaxText \subseteq Texts /\ 1..MaxText \subseteq Texts
           /\ NoSend \in Outs /\ NoSend.text = 0 /\ ~NoSend.final /\ NoSend.into = 0
           /\ NewDraft \in Drafts
BY DEF TurnAssumption, Texts, Dots, NoSend, Outs, NewDraft, Drafts

\* Drafts field by field.
LEMMA DraftFields ==
    ASSUME NEW d \in Drafts
    PROVE  /\ d.id \in Nat /\ d.last \in Texts /\ d.pending \in Texts /\ d.timer \in BOOLEAN
           /\ d.disposed \in BOOLEAN /\ d.ops \in Seq(BOOLEAN) /\ d.out \in Outs
BY DEF Drafts, Outs

LEMMA Dropped ==
    ASSUME NEW S, NEW q \in Seq(S), q # <<>>
    PROVE  /\ Len(q) \in Nat /\ Len(q) > 0 /\ Head(q) = q[1] /\ Head(q) \in S
           /\ Tail(q) \in Seq(S) /\ Len(Tail(q)) = Len(q) - 1
           /\ \A i \in 1..Len(Tail(q)) : Tail(q)[i] = q[i + 1]
<1>1. Len(q) \in Nat /\ Len(q) # 0 /\ Tail(q) \in Seq(S) /\ Len(Tail(q)) = Len(q) - 1
      /\ \A i \in 1..Len(Tail(q)) : Tail(q)[i] = q[i + 1]
  OBVIOUS
<1>2. Head(q) = q[1] /\ 1 \in 1..Len(q)
  BY <1>1
<1>3. \A i \in 1..Len(q) : q[i] \in S
  OBVIOUS
<1>4. QED
  BY <1>1, <1>2, <1>3

\* Start either leaves the draft, drops what waits or sends the pending text.
LEMMA StartFacts ==
    ASSUME TurnAssumption, NEW d \in Drafts
    PROVE  LET e == Start(d)
           IN  /\ e \in Drafts
               /\ e.id = d.id /\ e.last = d.last /\ e.pending = d.pending /\ e.timer = d.timer
               /\ e.disposed = d.disposed
               /\ e.ops # <<>> => e.out # NoSend
               /\ \/ e.ops = d.ops /\ e.out = d.out
                  \/ e.ops = <<>> /\ e.out = d.out /\ d.out = NoSend
                  \/ /\ d.ops # <<>> /\ d.out = NoSend /\ e.ops = Tail(d.ops)
                     /\ e.out = [text |-> d.pending, final |-> Head(d.ops), into |-> d.id]
                     /\ d.pending # 0
<1> DEFINE out == [text |-> d.pending, final |-> Head(d.ops), into |-> d.id]
<1>1. CASE d.ops = <<>> \/ d.out # NoSend
  BY <1>1 DEF Start
<1>2. CASE ~(d.ops = <<>> \/ d.out # NoSend) /\ d.pending \in {0, d.last}
  <2>1. Start(d) = [d EXCEPT !.ops = <<>>]
    BY <1>2 DEF Start
  <2>2. <<>> \in Seq(BOOLEAN)
    OBVIOUS
  <2>3. QED
    BY <1>2, <2>1, <2>2 DEF Drafts
<1>3. CASE ~(d.ops = <<>> \/ d.out # NoSend) /\ ~(d.pending \in {0, d.last})
  <2>1. Start(d) = [d EXCEPT !.out = out, !.ops = Tail(d.ops)]
    BY <1>3 DEF Start
  <2>2. Head(d.ops) \in BOOLEAN /\ Tail(d.ops) \in Seq(BOOLEAN)
    BY <1>3, DraftFields, Dropped
  <2>3. out \in Outs /\ out # NoSend
    <3>1. out \in Outs
      BY <2>2, DraftFields DEF Outs
    <3>2. out.text # 0
      BY <1>3
    <3>3. QED
      BY <3>1, <3>2, Consts
  <2> HIDE DEF out
  <2>4. [d EXCEPT !.out = out, !.ops = Tail(d.ops)] \in Drafts
    BY <2>2, <2>3 DEF Drafts, Outs
  <2>5. /\ Start(d).out = out /\ Start(d).ops = Tail(d.ops) /\ Start(d).id = d.id
        /\ Start(d).last = d.last /\ Start(d).pending = d.pending /\ Start(d).timer = d.timer
        /\ Start(d).disposed = d.disposed
    BY <2>1 DEF Drafts
  <2>6. QED
    BY <1>3, <2>1, <2>3, <2>4, <2>5 DEF out
<1>4. QED
  BY <1>1, <1>2, <1>3

\* flushPending: one more edit waits, or goes at once.
LEMMA FlushFacts ==
    ASSUME TurnAssumption, NEW d \in Drafts, NEW final \in BOOLEAN
    PROVE  LET e == [d EXCEPT !.ops = Append(d.ops, final)]
           IN  /\ e \in Drafts /\ Flush(d, final) = Start(e)
               /\ e.id = d.id /\ e.last = d.last /\ e.pending = d.pending /\ e.timer = d.timer
               /\ e.disposed = d.disposed /\ e.out = d.out /\ e.ops = Append(d.ops, final)
<1>1. d.ops \in Seq(BOOLEAN)
  BY DraftFields
<1>2. Append(d.ops, final) \in Seq(BOOLEAN)
  BY <1>1
<1>3. QED
  BY <1>2 DEF Drafts, Flush

\* A draft whose edits wait only behind one that is being sent.
DraftOK(d) == d \in Drafts /\ (d.ops # <<>> => d.out # NoSend)

LEMMA StartOK == ASSUME TurnAssumption, NEW d \in Drafts PROVE DraftOK(Start(d))
BY StartFacts DEF DraftOK

LEMMA FlushOK ==
    ASSUME TurnAssumption, NEW d \in Drafts, NEW final \in BOOLEAN PROVE DraftOK(Flush(d, final))
<1> DEFINE e == [d EXCEPT !.ops = Append(d.ops, final)]
<1>1. e \in Drafts /\ Flush(d, final) = Start(e)
  BY FlushFacts
<1> HIDE DEF e
<1>2. QED
  BY <1>1, StartOK

\* Each call of a draft's methods.
LEMMA MethodsOK ==
    ASSUME TurnAssumption, NEW d, DraftOK(d), NEW n \in 0..MaxText
    PROVE  /\ DraftOK(Update(d, n)) /\ DraftOK(Finalize(d, n)) /\ DraftOK(Reset(d))
           /\ DraftOK(Flush([d EXCEPT !.timer = FALSE], FALSE))
<1> n \in Texts /\ 0 \in Texts /\ d \in Drafts
  BY Consts DEF DraftOK
<1>1. DraftOK(Update(d, n))
  <2>1. [d EXCEPT !.pending = n, !.timer = TRUE] \in Drafts
    BY DEF Drafts
  <2>2. QED
    BY <2>1 DEF Update, DraftOK, Drafts
<1>2. DraftOK(Finalize(d, n))
  <2>1. [d EXCEPT !.timer = FALSE, !.pending = n] \in Drafts
    BY DEF Drafts
  <2>2. QED
    BY <2>1, FlushOK DEF Finalize, DraftOK
<1>3. DraftOK(Reset(d))
  <2>1. Reset(d) \in Drafts
    BY DEF Reset, Drafts
  <2>2. QED
    BY <2>1 DEF Reset, DraftOK, Drafts
<1>4. DraftOK(Flush([d EXCEPT !.timer = FALSE], FALSE))
  <2>1. [d EXCEPT !.timer = FALSE] \in Drafts
    BY DEF Drafts
  <2>2. QED
    BY <2>1, FlushOK
<1>5. QED
  BY <1>1, <1>2, <1>3, <1>4

-----------------------------------------------------------------------------
(* Types. *)

Phases == {"none", "recording", "running", "closing", "draining", "over"}
Messages == Seq([turn : Turns, text : Texts])
Bubbles == Seq([turn : Turns, shown : {"running", "done"}, lost : BOOLEAN])

LEMMA TypeInit == TurnAssumption /\ Init => TypeOK
<1> SUFFICES ASSUME TurnAssumption, Init PROVE TypeOK
  OBVIOUS
<1>1. /\ phase \in [Turns -> Phases] /\ draft \in [Turns -> Drafts]
      /\ status \in [Turns -> {"idle", "active"}] /\ keepAlive \in [Turns -> BOOLEAN]
      /\ cardFlag \in BOOLEAN /\ owed \in SUBSET Turns
      /\ pushed = {} /\ finals = {} /\ replies = {}
  BY Consts DEF Init, Phases
<1>2. /\ awaiting \in [Turns -> 0..MaxText] /\ delivered \in [Turns -> 0..MaxFinals]
      /\ carried \in 0..MaxCarried
  BY DEF Init, TurnAssumption
<1>3. NoBubble \in Recs
  BY DEF NoBubble, Recs
<1>4. tools \in [Turns -> [Tools -> Recs]]
  BY <1>3 DEF Init
<1>5. call \in [Calls -> CallTypes]
  BY <1>3 DEF Init, NoCall, CallTypes
<1>6. messages \in Messages /\ bubbles \in Bubbles
  BY DEF Init, Messages, Bubbles
<1>7. \A t \in Turns : draft[t].ops = <<>>
  BY DEF Init, NewDraft
<1>8. QED
  BY <1>1, <1>2, <1>4, <1>5, <1>6, <1>7 DEF TypeOK, Phases, CallTypes, Messages, Bubbles

\* The status label of a turn.
LEMMA StatusTypes ==
    ASSUME TypeOK, NEW t \in Turns, NEW s \in {"idle", "active"}, SetStatus(t, s)
    PROVE  status' \in [Turns -> {"idle", "active"}] /\ keepAlive' \in [Turns -> BOOLEAN]
BY DEF SetStatus, TypeOK

\* A draft that is replaced by another.
LEMMA DraftTypes ==
    ASSUME TypeOK, NEW t \in Turns, NEW STATE d, DraftOK(d), draft' = [draft EXCEPT ![t] = d]
    PROVE  draft' \in [Turns -> Drafts] /\ \A u \in Turns : draft'[u].ops # <<>> => draft'[u].out # NoSend
BY DEF TypeOK, DraftOK

LEMMA DraftsAreOK == ASSUME TypeOK, NEW t \in Turns PROVE DraftOK(draft[t])
BY DEF TypeOK, DraftOK

DraftsOK == draft \in [Turns -> Drafts] /\ \A u \in Turns : draft[u].ops # <<>> => draft[u].out # NoSend

\* What the end of a send, and of deliver(), leave.
LEMMA DeliveredTypes ==
    ASSUME TurnAssumption, TypeOK, NEW t \in Turns, NEW STATE d, DraftOK(d), Delivered(t, d)
    PROVE  /\ DraftsOK' /\ status' \in [Turns -> {"idle", "active"}]
           /\ keepAlive' \in [Turns -> BOOLEAN]
<1>1. 0 \in 0..MaxText
  BY DEF TurnAssumption
<1>2. DraftOK(Reset(d))
  BY <1>1, MethodsOK
<1>3. draft' = [draft EXCEPT ![t] = Reset(d)] /\ SetStatus(t, "idle")
  BY DEF Delivered
<1>4. DraftsOK'
  BY <1>2, <1>3 DEF DraftsOK, DraftOK, TypeOK
<1>5. QED
  BY <1>3, <1>4, StatusTypes

LEMMA AnswerTypes ==
    ASSUME NEW d \in Drafts, NEW n \in Texts PROVE Answer(d, n) \in SUBSET Answers
BY DraftFields DEF Answer, Answers

LEMMA SettlesTypes ==
    ASSUME TurnAssumption, TypeOK, NEW t \in Turns, NEW STATE d, DraftOK(d), SendSettles(t, d)
    PROVE  /\ DraftsOK' /\ status' \in [Turns -> {"idle", "active"}]
           /\ keepAlive' \in [Turns -> BOOLEAN] /\ awaiting' \in [Turns -> 0..MaxText]
           /\ finals' \in SUBSET Answers
<1>1. CASE awaiting[t] # 0 /\ Settled(d)
  <2>1. /\ Delivered(t, d) /\ awaiting' = [awaiting EXCEPT ![t] = 0]
        /\ finals' = finals \cup Answer(d, awaiting[t])
    BY <1>1 DEF SendSettles
  <2>2. awaiting[t] \in Texts /\ d \in Drafts /\ 0 \in 0..MaxText
    BY Consts DEF TypeOK, DraftOK
  <2>3. finals' \in SUBSET Answers
    BY <2>1, <2>2, AnswerTypes DEF TypeOK
  <2>4. QED
    BY <2>1, <2>2, <2>3, DeliveredTypes DEF TypeOK
<1>2. CASE ~(awaiting[t] # 0 /\ Settled(d))
  <2>1. draft' = [draft EXCEPT ![t] = d] /\ UNCHANGED <<awaiting, finals, statusVars>>
    BY <1>2 DEF SendSettles
  <2>2. DraftsOK'
    BY <2>1 DEF DraftsOK, DraftOK, TypeOK
  <2>3. QED
    BY <2>1, <2>2 DEF statusVars, TypeOK
<1>3. QED
  BY <1>1, <1>2

\* A call that is under way is of a turn and a tool, and one that edits knows the outcome.
CallInv == \A c \in Calls : /\ call[c].at # "free" => call[c].turn \in Turns /\ call[c].tool \in Tools
                            /\ call[c].at = "end" => call[c].rec.status # "none"
ToolInv == \A t \in Turns, x \in Tools : tools[t][x] = NoBubble \/ tools[t][x].status # "none"

TInv == TypeOK /\ CallInv /\ ToolInv

LEMMA TInit == TurnAssumption /\ Init => TInv
<1>1. ASSUME TurnAssumption, Init PROVE CallInv /\ ToolInv
  BY <1>1 DEF Init, NoCall, CallInv, ToolInv
<1>2. QED
  BY <1>1, TypeInit DEF TInv

LEMMA Element == ASSUME NEW S, NEW q \in Seq(S), NEW i \in 1..Len(q) PROVE q[i] \in S
OBVIOUS

\* A sequence with one element replaced.
LEMMA Replaced ==
    ASSUME NEW S, NEW q \in Seq(S), NEW i, NEW v, i \in 1..Len(q) => v \in S
    PROVE  /\ [q EXCEPT ![i] = v] \in Seq(S) /\ Len([q EXCEPT ![i] = v]) = Len(q)
           /\ \A k \in 1..Len(q) : [q EXCEPT ![i] = v][k] = IF k = i THEN v ELSE q[k]
<1> DEFINE f == [q EXCEPT ![i] = v]
<1>1. Len(q) \in Nat /\ DOMAIN q = 1..Len(q) /\ \A k \in 1..Len(q) : q[k] \in S
  OBVIOUS
<1>2. f = [k \in 1..Len(q) |-> IF k = i THEN v ELSE q[k]]
  BY <1>1
<1>3. f \in [1..Len(q) -> S]
  BY <1>1, <1>2
<1>4. f \in Seq(S) /\ DOMAIN f = 1..Len(q)
  BY <1>1, <1>2, <1>3
<1>5. Len(f) = Len(q)
  BY <1>1, <1>4
<1>6. QED
  BY <1>2, <1>4, <1>5

LEMMA Appended ==
    ASSUME NEW S, NEW q \in Seq(S), NEW v \in S
    PROVE  /\ Append(q, v) \in Seq(S) /\ Len(Append(q, v)) = Len(q) + 1 /\ Len(q) \in Nat
           /\ Append(q, v)[Len(q) + 1] = v
           /\ \A k \in 1..Len(q) : Append(q, v)[k] = q[k]
OBVIOUS

\* Steps that leave the draft, the calls and the room alone.
LEMMA TypePhase ==
    ASSUME TurnAssumption, TInv, NEW t \in Turns,
           BeginTurn(t) \/ SessionRecorded(t) \/ StatusCallback(t) \/ CardSent(t)
             \/ DispatchEnds(t) \/ TurnEnds(t)
    PROVE  TInv'
<1>1. CASE BeginTurn(t) \/ SessionRecorded(t) \/ CardSent(t) \/ DispatchEnds(t)
  BY <1>1 DEF BeginTurn, SessionRecorded, CardSent, DispatchEnds, turnVars, statusVars, toolVars,
     cardVars, answerVars, TInv, TypeOK, CallInv, ToolInv
<1>2. CASE StatusCallback(t)
  <2>1. PICK s \in {"active", "idle"} : SetStatus(t, s)
    BY <1>2 DEF StatusCallback
  <2>2. status' \in [Turns -> {"idle", "active"}] /\ keepAlive' \in [Turns -> BOOLEAN]
    BY <2>1, StatusTypes DEF TInv
  <2>3. QED
    BY <1>2, <2>2 DEF StatusCallback, turnVars, toolVars, cardVars, answerVars,
       TInv, TypeOK, CallInv, ToolInv
<1>3. CASE TurnEnds(t)
  <2>1. status' \in [Turns -> {"idle", "active"}] /\ keepAlive' \in [Turns -> BOOLEAN]
    BY <1>3, StatusTypes DEF TurnEnds, TInv
  <2>2. phase' = [phase EXCEPT ![t] = "over"] /\ owed' = owed \ {t}
        /\ UNCHANGED <<delivered, awaiting, draft, toolVars, cardFlag, answerVars>>
    BY <1>3 DEF TurnEnds
  <2>3. QED
    BY <2>1, <2>2 DEF toolVars, answerVars, TInv, TypeOK, CallInv, ToolInv
<1>4. QED
  BY <1>1, <1>2, <1>3

\* Steps of the draft.
LEMMA TypeDraft ==
    ASSUME TurnAssumption, TInv, NEW t \in Turns,
           PartialReply(t) \/ ThrottleFires(t) \/ DeliverNothing(t) \/ Dispose(t)
    PROVE  TInv'
<1>1. DraftOK(draft[t]) /\ 0 \in 0..MaxText /\ 1..MaxText \subseteq 0..MaxText
  BY DraftsAreOK, Consts DEF TInv
<1>2. CASE PartialReply(t)
  <2>1. PICK n \in 1..MaxText : draft' = [draft EXCEPT ![t] = Update(draft[t], n)]
    BY <1>2 DEF PartialReply, TInv, TypeOK
  <2>2. DraftOK(Update(draft[t], n))
    BY <1>1, MethodsOK
  <2>3. DraftsOK'
    BY <2>1, <2>2 DEF DraftsOK, DraftOK, TInv, TypeOK
  <2>4. status' \in [Turns -> {"idle", "active"}] /\ keepAlive' \in [Turns -> BOOLEAN]
    BY <1>2, StatusTypes DEF PartialReply, TInv
  <2>5. QED
    BY <1>2, <2>3, <2>4 DEF PartialReply, turnVars, toolVars, cardVars, answerVars, DraftsOK,
       TInv, TypeOK, CallInv, ToolInv
<1>3. CASE ThrottleFires(t)
  <2>1. draft' = [draft EXCEPT ![t] = Flush([draft[t] EXCEPT !.timer = FALSE], FALSE)]
    BY <1>3 DEF ThrottleFires, TInv, TypeOK
  <2>2. DraftOK(Flush([draft[t] EXCEPT !.timer = FALSE], FALSE))
    BY <1>1, MethodsOK
  <2>3. DraftsOK'
    BY <2>1, <2>2 DEF DraftsOK, DraftOK, TInv, TypeOK
  <2>4. QED
    BY <1>3, <2>3 DEF ThrottleFires, turnVars, statusVars, toolVars, cardVars, answerVars,
       DraftsOK, TInv, TypeOK, CallInv, ToolInv
<1>4. CASE DeliverNothing(t)
  <2>1. /\ Delivered(t, draft[t]) /\ delivered[t] < MaxFinals
        /\ delivered' = [delivered EXCEPT ![t] = delivered[t] + 1]
        /\ cardFlag' = FALSE /\ owed' = owed \ {t}
        /\ UNCHANGED <<phase, awaiting, toolVars, answerVars>>
    BY <1>4 DEF DeliverNothing
  <2>2. /\ DraftsOK' /\ status' \in [Turns -> {"idle", "active"}]
        /\ keepAlive' \in [Turns -> BOOLEAN]
    BY <1>1, <2>1, DeliveredTypes DEF TInv
  <2>3. delivered' \in [Turns -> 0..MaxFinals]
    BY <2>1 DEF TurnAssumption, TInv, TypeOK
  <2>4. QED
    BY <2>1, <2>2, <2>3 DEF toolVars, answerVars, DraftsOK, TInv, TypeOK, CallInv, ToolInv
<1>5. CASE Dispose(t)
  <2>1. draft' = [draft EXCEPT ![t] = [draft[t] EXCEPT !.disposed = TRUE, !.timer = FALSE]]
    BY <1>5 DEF Dispose, TInv, TypeOK
  <2>2. DraftOK([draft[t] EXCEPT !.disposed = TRUE, !.timer = FALSE])
    BY <1>1 DEF DraftOK, Drafts
  <2>3. DraftsOK'
    BY <2>1, <2>2 DEF DraftsOK, DraftOK, TInv, TypeOK
  <2>4. QED
    BY <1>5, <2>3 DEF Dispose, statusVars, toolVars, cardVars, answerVars, DraftsOK,
       TInv, TypeOK, CallInv, ToolInv
<1>6. QED
  BY <1>2, <1>3, <1>4, <1>5

LEMMA TypeDeliver ==
    ASSUME TurnAssumption, TInv, NEW t \in Turns, DeliverText(t) PROVE TInv'
<1>1. /\ delivered[t] < MaxFinals /\ delivered' = [delivered EXCEPT ![t] = delivered[t] + 1]
      /\ owed' = owed \ {t} /\ UNCHANGED <<phase, toolVars, cardFlag, messages, pushed, carried>>
  BY DEF DeliverText
<1>2. delivered' \in [Turns -> 0..MaxFinals]
  BY <1>1 DEF TurnAssumption, TInv, TypeOK
<1>3. PICK n \in 1..MaxText :
         LET d == Finalize(draft[t], n)
         IN  /\ replies' = replies \cup {[turn |-> t, text |-> n]}
             /\ IF Settled(d)
                THEN /\ Delivered(t, d)
                     /\ finals' = finals \cup Answer(d, n)
                     /\ UNCHANGED awaiting
                ELSE /\ draft' = [draft EXCEPT ![t] = d]
                     /\ awaiting' = [awaiting EXCEPT ![t] = n]
                     /\ UNCHANGED <<statusVars, finals>>
  BY DEF DeliverText
<1> DEFINE d == Finalize(draft[t], n)
<1>4. n \in 0..MaxText /\ n \in Texts
  BY <1>3, Consts
<1>5. DraftOK(d)
  BY <1>4, DraftsAreOK, MethodsOK DEF TInv
<1>6. replies' \in SUBSET [turn : Turns, text : 1..MaxText]
  BY <1>3 DEF TInv, TypeOK
<1> HIDE DEF d
<1>7. /\ DraftsOK' /\ status' \in [Turns -> {"idle", "active"}]
      /\ keepAlive' \in [Turns -> BOOLEAN] /\ awaiting' \in [Turns -> 0..MaxText]
      /\ finals' \in SUBSET Answers
  <2>1. CASE Settled(d)
    <3>1. Delivered(t, d) /\ finals' = finals \cup Answer(d, n) /\ UNCHANGED awaiting
      BY <1>3, <2>1 DEF d
    <3>2. Answer(d, n) \in SUBSET Answers
      BY <1>4, <1>5, AnswerTypes DEF DraftOK
    <3>3. QED
      BY <1>5, <3>1, <3>2, DeliveredTypes DEF TInv, TypeOK
  <2>2. CASE ~Settled(d)
    <3>1. /\ draft' = [draft EXCEPT ![t] = d] /\ awaiting' = [awaiting EXCEPT ![t] = n]
          /\ UNCHANGED <<statusVars, finals>>
      BY <1>3, <2>2 DEF d
    <3>2. DraftsOK'
      BY <1>5, <3>1 DEF DraftsOK, DraftOK, TInv, TypeOK
    <3>3. QED
      BY <1>4, <3>1, <3>2 DEF statusVars, TInv, TypeOK
  <2>3. QED
    BY <2>1, <2>2
<1>8. QED
  BY <1>1, <1>2, <1>6, <1>7 DEF toolVars, DraftsOK, TInv, TypeOK, CallInv, ToolInv

\* The draft that a send leaves behind.
Sent(d, id) == [d EXCEPT !.out = NoSend, !.last = d.out.text, !.id = id]

LEMMA SentFacts ==
    ASSUME TurnAssumption, NEW d \in Drafts, NEW id \in Nat
    PROVE  /\ Sent(d, id) \in Drafts /\ Sent(d, id).id = id /\ Sent(d, id).last = d.out.text
           /\ Sent(d, id).out = NoSend /\ Sent(d, id).ops = d.ops
           /\ Sent(d, id).pending = d.pending /\ Sent(d, id).timer = d.timer
<1>1. NoSend \in Outs /\ d.out.text \in Texts
  BY Consts, DraftFields DEF Outs
<1>2. QED
  BY <1>1 DEF Sent, Drafts, Outs

\* Where what is being sent goes in the room.
Place(t) == IF draft[t].out.into = 0 THEN Len(messages) + 1 ELSE draft[t].out.into

\* What a send that is carried out does to the room.
LEMMA CarriedFacts ==
    ASSUME TurnAssumption, TypeOK, NEW t \in Turns, CarriedOut(t)
    PROVE  LET out == draft[t].out
               at == Place(t)
           IN  /\ at \in Nat \ {0} /\ out \in Outs /\ messages' \in Messages
               /\ \/ /\ out.into = 0 /\ at = Len(messages) + 1
                     /\ messages' = Append(messages, [turn |-> t, text |-> out.text])
                  \/ /\ out.into # 0 /\ at = out.into
                     /\ messages' = [messages EXCEPT ![at] = [messages[at] EXCEPT !.text = out.text]]
               /\ pushed' = IF out.final THEN pushed \cup {[message |-> at, text |-> out.text]}
                                         ELSE pushed
<1> DEFINE out == draft[t].out
           new == Len(messages) + 1
           at == IF out.into = 0 THEN new ELSE out.into
<1>1. draft[t] \in Drafts /\ out \in Outs /\ draft[t].id \in Nat
  BY DraftFields DEF TypeOK
<1>2. messages \in Messages /\ Len(messages) \in Nat
  BY DEF TypeOK, Messages
<1>3. out.into \in Nat /\ out.text \in Texts
  BY <1>1 DEF Outs
<1>4. at \in Nat \ {0} /\ at = Place(t)
  BY <1>1, <1>2, <1>3 DEF Place
<1>5. /\ messages' = IF out.into = 0
                     THEN Append(messages, [turn |-> t, text |-> out.text])
                     ELSE [messages EXCEPT ![at].text = out.text]
      /\ pushed' = IF out.final THEN pushed \cup {[message |-> at, text |-> out.text]} ELSE pushed
  BY <1>1 DEF CarriedOut
<1>6. CASE out.into = 0
  <2>1. messages' = Append(messages, [turn |-> t, text |-> out.text])
    BY <1>5, <1>6
  <2>2. [turn |-> t, text |-> out.text] \in [turn : Turns, text : Texts]
    BY <1>3
  <2>3. messages' \in Messages
    BY <1>2, <2>1, <2>2, Appended DEF Messages
  <2>4. at = new
    BY <1>6
  <2> HIDE DEF at
  <2>5. QED
    BY <1>1, <1>4, <1>5, <1>6, <2>1, <2>3, <2>4
<1>7. CASE out.into # 0
  <2>1. at = out.into
    BY <1>7
  <2> HIDE DEF at
  <2>2. messages' = [messages EXCEPT ![at] = [messages[at] EXCEPT !.text = out.text]]
    BY <1>5, <1>7
  <2>3. at \in 1..Len(messages) => [messages[at] EXCEPT !.text = out.text] \in [turn : Turns, text : Texts]
    <3> SUFFICES ASSUME at \in 1..Len(messages)
                 PROVE  [messages[at] EXCEPT !.text = out.text] \in [turn : Turns, text : Texts]
      OBVIOUS
    <3> HIDE DEF out
    <3>1. messages[at] \in [turn : Turns, text : Texts]
      BY <1>2, Element DEF Messages
    <3>2. QED
      BY <1>3, <3>1
  <2>4. messages' \in Messages
    BY <1>2, <2>2, <2>3, Replaced DEF Messages
  <2>5. QED
    BY <1>1, <1>4, <1>5, <1>7, <2>1, <2>2, <2>4
<1>8. QED
  BY <1>6, <1>7

\* What a send that resolves does to its draft.
LEMMA ResolvesFacts ==
    ASSUME TurnAssumption, TypeOK, NEW t \in Turns, SendResolves(t)
    PROVE  \E id \in Nat : /\ id = Place(t) \/ id = draft[t].id
                           /\ SendSettles(t, Start(Sent(draft[t], id)))
<1> DEFINE id == IF draft[t].out.into = 0 THEN Len(messages) + 1 ELSE draft[t].id
<1>1. draft[t].id \in Nat /\ Len(messages) \in Nat
  BY DraftFields DEF TypeOK
<1>2. SendSettles(t, Start(Sent(draft[t], id)))
  BY DEF SendResolves, Sent
<1>3. id \in Nat /\ (id = Place(t) \/ id = draft[t].id)
  BY <1>1 DEF Place
<1>4. QED
  BY <1>2, <1>3

LEMMA CarriedTypes ==
    ASSUME TurnAssumption, TypeOK, Carried PROVE carried' \in 0..MaxCarried
BY DEF Carried, TypeOK, TurnAssumption

LEMMA TypeSend ==
    ASSUME TurnAssumption, TInv, NEW t \in Turns, SendResolves(t) \/ SendRejects(t) PROVE TInv'
<1>1. draft[t] \in Drafts
  BY DEF TInv, TypeOK
<1>1a. CarriedOut(t) => messages' \in Messages /\ pushed' \in SUBSET Answers
  <2> SUFFICES ASSUME CarriedOut(t) PROVE messages' \in Messages /\ pushed' \in SUBSET Answers
    OBVIOUS
  <2>1. /\ Place(t) \in Nat \ {0} /\ draft[t].out \in Outs /\ messages' \in Messages
        /\ pushed' = IF draft[t].out.final
                     THEN pushed \cup {[message |-> Place(t), text |-> draft[t].out.text]} ELSE pushed
    BY CarriedFacts DEF TInv
  <2>2. QED
    BY <2>1 DEF Outs, Answers, TInv, TypeOK
<1>2. CASE SendResolves(t)
  <2>1. PICK id \in Nat : SendSettles(t, Start(Sent(draft[t], id)))
    BY <1>2, ResolvesFacts DEF TInv
  <2>2. DraftOK(Start(Sent(draft[t], id)))
    BY <1>1, SentFacts, StartOK
  <2>3. /\ DraftsOK' /\ status' \in [Turns -> {"idle", "active"}]
        /\ keepAlive' \in [Turns -> BOOLEAN] /\ awaiting' \in [Turns -> 0..MaxText]
        /\ finals' \in SUBSET Answers
    BY <2>1, <2>2, SettlesTypes DEF TInv
  <2>4. messages' \in Messages /\ pushed' \in SUBSET Answers
    BY <1>1a, <1>2 DEF SendResolves
  <2>5. UNCHANGED <<phase, delivered, toolVars, cardVars, replies, carried>>
    BY <1>2 DEF SendResolves
  <2>6. QED
    BY <2>3, <2>4, <2>5
       DEF Messages, toolVars, cardVars, DraftsOK, TInv, TypeOK, CallInv, ToolInv
<1>3. CASE SendRejects(t)
  <2>1. /\ SendSettles(t, Start([draft[t] EXCEPT !.out = NoSend]))
        /\ UNCHANGED <<phase, delivered, toolVars, cardVars, replies>>
    BY <1>3 DEF SendRejects
  <2>2. [draft[t] EXCEPT !.out = NoSend] \in Drafts
    BY <1>1, Consts DEF Drafts, Outs
  <2>3. DraftOK(Start([draft[t] EXCEPT !.out = NoSend]))
    BY <2>2, StartOK
  <2>4. /\ DraftsOK' /\ status' \in [Turns -> {"idle", "active"}]
        /\ keepAlive' \in [Turns -> BOOLEAN] /\ awaiting' \in [Turns -> 0..MaxText]
        /\ finals' \in SUBSET Answers
    BY <2>1, <2>3, SettlesTypes DEF TInv
  <2>5. messages' \in Messages /\ pushed' \in SUBSET Answers /\ carried' \in 0..MaxCarried
    BY <1>1a, <1>3, CarriedTypes DEF SendRejects, Messages, TInv, TypeOK
  <2>6. QED
    BY <2>1, <2>4, <2>5 DEF Messages, toolVars, cardVars, DraftsOK, TInv, TypeOK, CallInv, ToolInv
<1>4. QED
  BY <1>2, <1>3

-----------------------------------------------------------------------------
(* Tools. *)

LEMMA RecFacts ==
    ASSUME NEW r \in Recs, NEW s \in {"none", "running", "done"}
    PROVE  /\ r.status \in {"none", "running", "done"} /\ r.bubble \in Nat
           /\ [r EXCEPT !.status = s] \in Recs /\ [r EXCEPT !.status = s].status = s
           /\ NoBubble \in Recs
BY DEF Recs, NoBubble

LEMMA EditTypes ==
    ASSUME TInv, NEW r \in Recs, r.status # "none", EditBubble(r) PROVE bubbles' \in Bubbles
<1> DEFINE B == [turn : Turns, shown : {"running", "done"}, lost : BOOLEAN]
           i == r.bubble
<1>1. bubbles \in Seq(B) /\ r.status \in {"running", "done"}
  BY RecFacts DEF TInv, TypeOK
<1>2. \/ bubbles' = [bubbles EXCEPT ![i] = [bubbles[i] EXCEPT !.shown = r.status]]
      \/ bubbles' = [bubbles EXCEPT ![i] = [bubbles[i] EXCEPT !.lost = TRUE]]
  BY DEF EditBubble
<1>3. i \in 1..Len(bubbles) => /\ [bubbles[i] EXCEPT !.shown = r.status] \in B
                               /\ [bubbles[i] EXCEPT !.lost = TRUE] \in B
  <2>1. i \in 1..Len(bubbles) => bubbles[i] \in B
    <3> HIDE DEF B, i
    <3>1. QED
      BY <1>1, Element
  <2>2. QED
    BY <1>1, <2>1
<1> HIDE DEF B, i
<1>4. bubbles' \in Seq(B)
  BY <1>1, <1>2, <1>3, Replaced
<1>5. QED
  BY <1>4 DEF B, Bubbles

LEMMA TypeItem ==
    ASSUME TurnAssumption, TInv, NEW t \in Turns, NEW x \in Tools,
           CloseTool(t, x) \/ \E c \in Calls : ItemArrives(t, x, c)
    PROVE  TInv'
<1>1. tools[t][x] \in Recs
  BY DEF TInv, TypeOK
<1>2. CASE CloseTool(t, x)
  <2> DEFINE rec == [tools[t][x] EXCEPT !.status = "done"]
  <2>1. rec \in Recs /\ rec.status = "done"
    BY <1>1, RecFacts
  <2>2. EditBubble(rec) /\ tools' = [tools EXCEPT ![t] = [tools[t] EXCEPT ![x] = rec]]
        /\ UNCHANGED <<turnVars, draft, statusVars, call, cardVars, answerVars>>
    BY <1>2 DEF CloseTool, TInv, TypeOK
  <2> HIDE DEF rec
  <2>3. bubbles' \in Bubbles
    BY <2>1, <2>2, EditTypes
  <2>4. tools' \in [Turns -> [Tools -> Recs]] /\ ToolInv'
    BY <2>1, <2>2 DEF TInv, TypeOK, ToolInv
  <2>5. QED
    BY <2>2, <2>3, <2>4 DEF Bubbles, turnVars, statusVars, cardVars, answerVars,
       TInv, TypeOK, CallInv
<1>3. ASSUME NEW c \in Calls, ItemArrives(t, x, c) PROVE TInv'
  <2>1. UNCHANGED <<turnVars, draft, statusVars, bubbles, cardVars, answerVars>>
    BY <1>3 DEF ItemArrives
  <2>2. /\ tools' \in [Turns -> [Tools -> Recs]] /\ ToolInv'
        /\ call' \in [Calls -> CallTypes] /\ CallInv'
    <3>1. CASE tools[t][x] = NoBubble
      <4>1. PICK ends \in BOOLEAN, at \in {"anchor", "start"} :
               call' = [call EXCEPT ![c] = [at |-> at, turn |-> t, tool |-> x, ends |-> ends,
                                            rec |-> NoBubble]]
        BY <1>3, <3>1 DEF ItemArrives
      <4>2. tools' = tools
        BY <1>3, <3>1 DEF ItemArrives
      <4>3. [at |-> at, turn |-> t, tool |-> x, ends |-> ends, rec |-> NoBubble] \in CallTypes
        BY <1>1, <4>1, RecFacts DEF CallTypes
      <4>4. call' \in [Calls -> CallTypes] /\ CallInv'
        BY <4>1, <4>3 DEF CallTypes, CallInv, TInv, TypeOK
      <4>5. QED
        BY <4>2, <4>4 DEF TInv, TypeOK, ToolInv
    <3>2. CASE tools[t][x] # NoBubble
      <4>1. PICK s \in {tools[t][x].status, "done"} :
               LET rec == [tools[t][x] EXCEPT !.status = s]
               IN  /\ tools' = [tools EXCEPT ![t][x] = rec]
                   /\ call' = [call EXCEPT ![c] = [at |-> "end", turn |-> t, tool |-> x,
                                                   ends |-> TRUE, rec |-> rec]]
        BY <1>3, <3>2 DEF ItemArrives
      <4> DEFINE rec == [tools[t][x] EXCEPT !.status = s]
      <4>2. s \in {"running", "done"}
        <5>1. tools[t][x].status \in {"running", "done"}
          BY <1>1, <3>2 DEF Recs, TInv, ToolInv
        <5>2. QED
          BY <4>1, <5>1
      <4>3. rec \in Recs /\ rec.status = s /\ s # "none"
        BY <1>1, <4>2 DEF Recs
      <4>4. /\ tools' = [tools EXCEPT ![t] = [tools[t] EXCEPT ![x] = rec]]
            /\ call' = [call EXCEPT ![c] = [at |-> "end", turn |-> t, tool |-> x,
                                            ends |-> TRUE, rec |-> rec]]
        BY <4>1 DEF TInv, TypeOK
      <4> HIDE DEF rec
      <4>5. tools' \in [Turns -> [Tools -> Recs]] /\ ToolInv'
        BY <4>3, <4>4 DEF TInv, TypeOK, ToolInv
      <4>6. [at |-> "end", turn |-> t, tool |-> x, ends |-> TRUE, rec |-> rec] \in CallTypes
        BY <4>3 DEF CallTypes
      <4>7. call' \in [Calls -> CallTypes] /\ CallInv'
        BY <4>3, <4>4, <4>6 DEF CallTypes, CallInv, TInv, TypeOK
      <4>8. QED
        BY <4>5, <4>7
    <3>3. QED
      BY <3>1, <3>2
  <2>3. QED
    BY <2>1, <2>2 DEF CallTypes, turnVars, statusVars, cardVars, answerVars, TInv, TypeOK
<1>4. QED
  BY <1>2, <1>3

LEMMA TypeCall ==
    ASSUME TurnAssumption, TInv, NEW c \in Calls,
           AnchorSent(c) \/ StartSent(c) \/ EndSent(c) \/ ItemFails(c)
    PROVE  TInv'
<1> DEFINE t == call[c].turn
           x == call[c].tool
<1>1. call[c] \in CallTypes /\ t \in Turns /\ x \in Tools
  BY DEF AnchorSent, StartSent, EndSent, ItemFails, CallTypes, TInv, TypeOK, CallInv
<1>2. NoCall \in CallTypes
  BY DEF NoCall, NoBubble, Recs, CallTypes
<1>3. CASE AnchorSent(c)
  <2>1. /\ messages' = Append(messages, [turn |-> t, text |-> Dots])
        /\ draft' = [draft EXCEPT ![t] = [draft[t] EXCEPT !.id = Len(messages) + 1, !.last = Dots]]
        /\ call' = [call EXCEPT ![c] = [call[c] EXCEPT !.at = "start"]]
        /\ UNCHANGED <<turnVars, statusVars, tools, bubbles, cardVars, pushed, replies, finals, carried>>
    BY <1>1, <1>3 DEF AnchorSent, TInv, TypeOK
  <2>2. messages' \in Messages
    BY <1>1, <2>1, Consts, Appended DEF Messages, TInv, TypeOK
  <2>3. DraftOK([draft[t] EXCEPT !.id = Len(messages) + 1, !.last = Dots])
    <3>1. DraftOK(draft[t]) /\ Len(messages) + 1 \in Nat
      BY <1>1, DraftsAreOK DEF TInv, TypeOK
    <3>2. QED
      BY <3>1, Consts DEF DraftOK, Drafts
  <2>4. DraftsOK'
    BY <1>1, <2>1, <2>3 DEF DraftsOK, DraftOK, TInv, TypeOK
  <2>5. [call[c] EXCEPT !.at = "start"] \in CallTypes
    BY <1>1 DEF CallTypes
  <2>6. call' \in [Calls -> CallTypes] /\ CallInv'
    BY <1>1, <2>1, <2>5 DEF CallTypes, CallInv, TInv, TypeOK
  <2>7. QED
    BY <2>1, <2>2, <2>4, <2>6 DEF Messages, CallTypes, turnVars, statusVars, cardVars, DraftsOK,
       TInv, TypeOK, ToolInv
<1>4. CASE StartSent(c)
  <2>1. /\ bubbles' = Append(bubbles, [turn |-> t, shown |-> "running", lost |-> FALSE])
        /\ SetStatus(t, "active")
        /\ UNCHANGED <<turnVars, draft, cardVars, answerVars>>
    BY <1>4 DEF StartSent
  <2>2. PICK s \in {"running", "done"} :
           LET rec == [bubble |-> Len(bubbles) + 1, status |-> s]
           IN  /\ tools' = [tools EXCEPT ![t][x] = rec]
               /\ call' = [call EXCEPT ![c] = IF call[c].ends
                                              THEN [call[c] EXCEPT !.at = "end", !.rec = rec]
                                              ELSE NoCall]
    BY <1>1, <1>4 DEF StartSent, TInv, TypeOK
  <2> DEFINE rec == [bubble |-> Len(bubbles) + 1, status |-> s]
  <2>3. rec \in Recs /\ rec.status # "none"
    BY <2>2 DEF Recs, TInv, TypeOK
  <2>4. /\ tools' = [tools EXCEPT ![t] = [tools[t] EXCEPT ![x] = rec]]
        /\ call' = [call EXCEPT ![c] = IF call[c].ends
                                       THEN [call[c] EXCEPT !.at = "end", !.rec = rec] ELSE NoCall]
    BY <1>1, <2>2 DEF TInv, TypeOK
  <2> HIDE DEF rec
  <2>5. bubbles' \in Bubbles
    BY <1>1, <2>1, Appended DEF Bubbles, TInv, TypeOK
  <2>6. tools' \in [Turns -> [Tools -> Recs]] /\ ToolInv'
    BY <1>1, <2>3, <2>4 DEF TInv, TypeOK, ToolInv
  <2>7. [call[c] EXCEPT !.at = "end", !.rec = rec] \in CallTypes
        /\ [call[c] EXCEPT !.at = "end", !.rec = rec].turn = t
        /\ [call[c] EXCEPT !.at = "end", !.rec = rec].tool = x
        /\ [call[c] EXCEPT !.at = "end", !.rec = rec].rec = rec
    BY <1>1, <2>3 DEF CallTypes
  <2>8. call' \in [Calls -> CallTypes] /\ CallInv'
    BY <1>1, <1>2, <2>3, <2>4, <2>7 DEF NoCall, CallTypes, CallInv, TInv, TypeOK
  <2>9. status' \in [Turns -> {"idle", "active"}] /\ keepAlive' \in [Turns -> BOOLEAN]
    BY <1>1, <2>1, StatusTypes DEF TInv
  <2>10. QED
    BY <2>1, <2>5, <2>6, <2>8, <2>9 DEF Bubbles, CallTypes, turnVars, cardVars, answerVars,
       TInv, TypeOK
<1>5. CASE EndSent(c) \/ ItemFails(c)
  <2>1. call' = [call EXCEPT ![c] = NoCall]
        /\ UNCHANGED <<turnVars, draft, statusVars, tools, cardVars, pushed, replies, finals>>
    BY <1>5 DEF EndSent, ItemFails, answerVars
  <2>2. call' \in [Calls -> CallTypes] /\ CallInv'
    BY <1>2, <2>1 DEF NoCall, CallTypes, CallInv, TInv, TypeOK
  <2>3. bubbles' \in Bubbles
    <3>1. CASE EndSent(c)
      <4>1. call[c].rec \in Recs /\ call[c].rec.status # "none" /\ EditBubble(call[c].rec)
        BY <1>1, <3>1 DEF EndSent, CallTypes, TInv, CallInv
      <4>2. QED
        BY <4>1, EditTypes
    <3>2. CASE ItemFails(c)
      <4> DEFINE b == [turn |-> t, shown |-> "running", lost |-> TRUE]
      <4>1. bubbles' = bubbles \/ bubbles' = Append(bubbles, b)
        BY <3>2 DEF ItemFails
      <4>2. b \in [turn : Turns, shown : {"running", "done"}, lost : BOOLEAN]
        BY <1>1
      <4> HIDE DEF b
      <4>3. bubbles \in Bubbles
        BY DEF Bubbles, TInv, TypeOK
      <4>4. QED
        <5>1. CASE bubbles' = Append(bubbles, b)
          BY <4>2, <4>3, <5>1, Appended DEF Bubbles
        <5>2. QED
          BY <4>1, <4>3, <5>1
    <3>3. QED
      BY <1>5, <3>1, <3>2
  <2>4. messages' \in Messages /\ carried' \in 0..MaxCarried
    <3>1. CASE EndSent(c)
      BY <3>1 DEF EndSent, answerVars, Messages, TInv, TypeOK
    <3>2. CASE ItemFails(c)
      <4> DEFINE m == [turn |-> t, text |-> Dots]
      <4>1. messages' = messages \/ messages' = Append(messages, m)
        BY <3>2 DEF ItemFails
      <4>2. m \in [turn : Turns, text : Texts]
        BY <1>1, Consts
      <4> HIDE DEF m
      <4>3. messages \in Messages
        BY DEF Messages, TInv, TypeOK
      <4>4. messages' \in Messages
        <5>1. CASE messages' = Append(messages, m)
          BY <4>2, <4>3, <5>1, Appended DEF Messages
        <5>2. QED
          BY <4>1, <4>3, <5>1
      <4>5. carried' \in 0..MaxCarried
        BY <3>2, CarriedTypes DEF ItemFails, TInv, TypeOK
      <4>6. QED
        BY <4>4, <4>5
    <3>3. QED
      BY <1>5, <3>1, <3>2
  <2>5. QED
    BY <2>1, <2>2, <2>3, <2>4 DEF Messages, Bubbles, CallTypes, turnVars, statusVars, cardVars, answerVars,
       TInv, TypeOK, ToolInv
<1>6. QED
  BY <1>3, <1>4, <1>5

LEMMA TNext == ASSUME TurnAssumption, TInv, [Next]_vars PROVE TInv'
<1>1. CASE UNCHANGED vars
  BY <1>1 DEF vars, turnVars, statusVars, toolVars, cardVars, answerVars,
     TInv, TypeOK, CallInv, ToolInv
<1>2. CASE Next
  BY <1>2, TypePhase, TypeDraft, TypeDeliver, TypeSend, TypeItem, TypeCall DEF Next
<1>3. QED
  BY <1>1, <1>2

THEOREM TypeInvariance == Spec => []TInv
<1>1. TurnAssumption
  BY TurnAssumption
<1>2. QED
  BY <1>1, TInit, TNext, PTL DEF Spec

\* The types of AgentTurn, for every set of turns, tools and calls and whatever overlaps;
\* with them, that edits wait only behind one that is being sent.
THEOREM TypeCorrect == Spec => []TypeOK
<1>1. TInv => TypeOK
  BY DEF TInv
<1>2. QED
  BY <1>1, TypeInvariance, PTL
-----------------------------------------------------------------------------
(* The card flag, when the runtime serves one turn of the room at a time. *)

\* One turn at a time; while its reply runs, the flag says whether its card is out, and
\* before that it is down.
CardInv ==
    /\ \A t, u \in Turns : Busy(t) /\ Busy(u) => t = u
    /\ \A t \in Turns : phase[t] = "running" => (cardFlag <=> t \in owed)
    /\ \A t \in Turns : phase[t] = "recording" => ~cardFlag
    /\ \A t \in owed : phase[t] \in {"running", "closing", "draining"}

LEMMA CardInit == Init => CardInv
BY DEF Init, CardInv, Busy

LEMMA CardNext ==
    ASSUME "turns" \notin Overlap, TInv, CardInv, [Next]_vars PROVE CardInv'
<1> owed \in SUBSET Turns /\ cardFlag \in BOOLEAN /\ phase \in [Turns -> Phases]
  BY DEF TInv, TypeOK, Phases
<1>1. ASSUME phase' = phase, cardFlag' = cardFlag, owed' = owed PROVE CardInv'
  BY <1>1 DEF CardInv, Busy
<1>2. CASE UNCHANGED vars
  BY <1>1, <1>2 DEF vars, turnVars, cardVars
<1>3. ASSUME NEW t \in Turns,
             StatusCallback(t) \/ PartialReply(t) \/ ThrottleFires(t) \/ SendResolves(t)
               \/ SendRejects(t) \/ \E x \in Tools : CloseTool(t, x) \/ \E c \in Calls : ItemArrives(t, x, c)
      PROVE  CardInv'
  BY <1>1, <1>3 DEF StatusCallback, PartialReply, ThrottleFires, SendResolves, SendRejects,
     CloseTool, ItemArrives, turnVars, cardVars
<1>4. ASSUME NEW c \in Calls, AnchorSent(c) \/ StartSent(c) \/ EndSent(c) \/ ItemFails(c)
      PROVE  CardInv'
  BY <1>1, <1>4 DEF AnchorSent, StartSent, EndSent, ItemFails, turnVars, cardVars
<1>5. ASSUME NEW t \in Turns, BeginTurn(t) PROVE CardInv'
  <2>1. /\ \A u \in Turns : ~Busy(u) /\ phase[u] \in {"none", "over"}
        /\ phase' = [phase EXCEPT ![t] = "recording"] /\ ~cardFlag' /\ owed' = owed
    BY <1>5 DEF BeginTurn, Busy
  <2>2. owed = {}
    BY <2>1 DEF CardInv
  <2>3. QED
    BY <2>1, <2>2 DEF CardInv, Busy
<1>6. ASSUME NEW t \in Turns, SessionRecorded(t) PROVE CardInv'
  <2>1. PICK p \in {"running", "over"} : phase' = [phase EXCEPT ![t] = p]
    BY <1>6 DEF SessionRecorded
  <2>2. phase[t] = "recording" /\ cardFlag' = cardFlag /\ owed' = owed
    BY <1>6 DEF SessionRecorded, cardVars
  <2>3. ~cardFlag /\ t \notin owed
    BY <2>2 DEF CardInv
  <2>4. QED
    BY <2>1, <2>2, <2>3 DEF CardInv, Busy
<1>7. ASSUME NEW t \in Turns, CardSent(t) \/ DeliverNothing(t) \/ DeliverText(t) PROVE CardInv'
  <2>1. phase[t] = "running" /\ phase' = phase
    BY <1>7 DEF CardSent, DeliverNothing, DeliverText, turnVars
  <2>2. \A u \in Turns : phase[u] \in {"running", "recording"} => u = t
    BY <2>1 DEF CardInv, Busy
  <2>3. \/ cardFlag' = TRUE /\ owed' = owed \cup {t}
        \/ cardFlag' = FALSE /\ owed' = owed \ {t}
    BY <1>7, <2>1 DEF CardSent, DeliverNothing, DeliverText, CardInv
  <2>4. QED
    BY <2>1, <2>2, <2>3 DEF CardInv, Busy
<1>8. ASSUME NEW t \in Turns, DispatchEnds(t) \/ Dispose(t) PROVE CardInv'
  <2>1. /\ phase[t] \in {"running", "closing"} /\ cardFlag' = cardFlag /\ owed' = owed
        /\ \E p \in {"closing", "draining"} : phase' = [phase EXCEPT ![t] = p]
    BY <1>8 DEF DispatchEnds, Dispose, cardVars
  <2>2. QED
    BY <2>1 DEF CardInv, Busy
<1>9. ASSUME NEW t \in Turns, TurnEnds(t) PROVE CardInv'
  <2>1. /\ phase[t] = "draining" /\ phase' = [phase EXCEPT ![t] = "over"]
        /\ cardFlag' = cardFlag /\ owed' = owed \ {t}
    BY <1>9 DEF TurnEnds
  <2>2. QED
    BY <2>1 DEF CardInv, Busy
<1>10. QED
  BY <1>2, <1>3, <1>4, <1>5, <1>6, <1>7, <1>8, <1>9 DEF Next

\* If the runtime serves the turns of the room one by one, the flag that suppresses the
\* final reply is up exactly while the reply of a turn whose own card is out is awaited.
THEOREM CardIsOfTheTurn == ASSUME "turns" \notin Overlap PROVE Spec => []CardOfThisTurn
<1>1. CardInv => CardOfThisTurn
  BY DEF CardInv, CardOfThisTurn
<1>2. CardInv /\ TInv /\ [Next]_vars => CardInv'
  BY CardNext
<1>3. QED
  BY <1>1, <1>2, CardInit, TypeInvariance, PTL DEF Spec

-----------------------------------------------------------------------------
(* What is left after a turn, when the runtime handles a tool item to its end before the
   next and before the turn ends. *)

\* The label and the keep-alive go together; only a turn that runs handles items; before
\* and after a turn nothing of it is active.
QuietInv ==
    \A t \in Turns :
       /\ status[t] = "idle" => ~keepAlive[t]
       /\ phase[t] # "running" => NoCallOf(t)
       /\ phase[t] \notin {"running", "closing"} => ~draft[t].timer
       /\ phase[t] \in {"none", "recording", "over"} => status[t] = "idle" /\ Drained(draft[t])

LEMMA QuietInit == TurnAssumption /\ Init => QuietInv
BY DEF Init, QuietInv, NoCallOf, NoCall, NewDraft, Drained, TurnAssumption

\* The label of one turn is set.
LEMMA StatusSet ==
    ASSUME TInv, QuietInv, NEW t \in Turns, NEW s \in {"idle", "active"}, SetStatus(t, s)
    PROVE  /\ status'[t] = s /\ \A u \in Turns : u # t => status'[u] = status[u]
           /\ \A u \in Turns : status'[u] = "idle" => ~keepAlive'[u]
BY DEF SetStatus, QuietInv, TInv, TypeOK

\* What the end of a send does to the label and the timer.
LEMMA SettlesQuiet ==
    ASSUME TInv, QuietInv, NEW t \in Turns, NEW STATE d, d \in Drafts, SendSettles(t, d)
    PROVE  /\ \A u \in Turns : status'[u] = "idle" => ~keepAlive'[u]
           /\ \A u \in Turns : u # t => status'[u] = status[u] /\ draft'[u] = draft[u]
           /\ draft'[t].timer => d.timer
<1>1. CASE awaiting[t] # 0 /\ Settled(d)
  <2>1. draft' = [draft EXCEPT ![t] = Reset(d)] /\ SetStatus(t, "idle")
    BY <1>1 DEF SendSettles, Delivered
  <2>2. ~Reset(d).timer
    BY DEF Reset, Drafts
  <2>3. QED
    BY <2>1, <2>2, StatusSet DEF TInv, TypeOK
<1>2. CASE ~(awaiting[t] # 0 /\ Settled(d))
  BY <1>2 DEF SendSettles, statusVars, QuietInv, TInv, TypeOK
<1>3. QED
  BY <1>1, <1>2
LEMMA QuietNext ==
    ASSUME TurnAssumption, "items" \notin Overlap, TInv, QuietInv, [Next]_vars PROVE QuietInv'
<1> /\ phase \in [Turns -> Phases] /\ draft \in [Turns -> Drafts]
    /\ status \in [Turns -> {"idle", "active"}] /\ call \in [Calls -> CallTypes]
  BY DEF TInv, TypeOK, Phases, CallTypes
<1> \A t \in Turns : DraftOK(draft[t])
  BY DraftsAreOK DEF TInv
<1>1. ASSUME UNCHANGED <<phase, draft, statusVars, call>> PROVE QuietInv'
  BY <1>1 DEF QuietInv, statusVars, NoCallOf
<1>2. CASE UNCHANGED vars
  BY <1>1, <1>2 DEF vars, turnVars, toolVars
<1>3. ASSUME NEW t \in Turns, CardSent(t) \/ \E x \in Tools : CloseTool(t, x) PROVE QuietInv'
  BY <1>1, <1>3 DEF CardSent, CloseTool, turnVars, toolVars
<1>4. ASSUME NEW t \in Turns, BeginTurn(t) \/ SessionRecorded(t) PROVE QuietInv'
  <2>1. PICK p \in {"recording", "running", "over"} : phase' = [phase EXCEPT ![t] = p]
    BY <1>4 DEF BeginTurn, SessionRecorded
  <2>2. phase[t] \in {"none", "recording"} /\ UNCHANGED <<draft, statusVars, call>>
    BY <1>4 DEF BeginTurn, SessionRecorded, toolVars
  <2>3. NoCallOf(t) /\ ~draft[t].timer /\ status[t] = "idle" /\ Drained(draft[t])
    BY <2>2 DEF QuietInv
  <2>4. \A u \in Turns : NoCallOf(u) => NoCallOf(u)'
    BY <2>2 DEF NoCallOf
  <2>5. QED
    BY <2>1, <2>2, <2>3, <2>4 DEF QuietInv, statusVars
<1>5. ASSUME NEW t \in Turns, StatusCallback(t) PROVE QuietInv'
  <2>1. PICK s \in {"active", "idle"} : SetStatus(t, s)
    BY <1>5 DEF StatusCallback
  <2>2. /\ \A u \in Turns : u # t => status'[u] = status[u]
        /\ \A u \in Turns : status'[u] = "idle" => ~keepAlive'[u]
    BY <2>1, StatusSet
  <2>3. phase[t] = "running" /\ UNCHANGED <<phase, draft, call>>
    BY <1>5 DEF StatusCallback, turnVars, toolVars
  <2>4. QED
    BY <2>2, <2>3 DEF QuietInv, NoCallOf
<1>6. ASSUME NEW t \in Turns, PartialReply(t) \/ DeliverNothing(t) \/ DeliverText(t) PROVE QuietInv'
  <2>1. phase[t] = "running" /\ UNCHANGED <<phase, call>>
    BY <1>6 DEF PartialReply, DeliverNothing, DeliverText, turnVars, toolVars
  <2>2. \A u \in Turns : u # t => draft'[u] = draft[u]
    BY <1>6 DEF PartialReply, DeliverNothing, DeliverText, Delivered
  <2>3. SetStatus(t, "active") \/ SetStatus(t, "idle") \/ UNCHANGED statusVars
    BY <1>6 DEF PartialReply, DeliverNothing, DeliverText, Delivered, statusVars
  <2>4. /\ \A u \in Turns : u # t => status'[u] = status[u]
        /\ \A u \in Turns : status'[u] = "idle" => ~keepAlive'[u]
    BY <2>3, StatusSet DEF QuietInv, statusVars
  <2>5. QED
    BY <2>1, <2>2, <2>4 DEF QuietInv, NoCallOf
<1>7. ASSUME NEW t \in Turns, ThrottleFires(t) PROVE QuietInv'
  <2>1. /\ draft[t].timer /\ UNCHANGED <<phase, statusVars, call>>
        /\ draft' = [draft EXCEPT ![t] = Flush([draft[t] EXCEPT !.timer = FALSE], FALSE)]
    BY <1>7 DEF ThrottleFires, turnVars, toolVars
  <2>2. phase[t] \in {"running", "closing"}
    BY <2>1 DEF QuietInv
  <2>3. QED
    BY <2>1, <2>2 DEF QuietInv, NoCallOf, statusVars
<1>8. ASSUME NEW t \in Turns, SendResolves(t) \/ SendRejects(t) PROVE QuietInv'
  <2>1. \E d \in Drafts : SendSettles(t, d) /\ d.timer = draft[t].timer
    <3>1. CASE SendResolves(t)
      <4>1. PICK id \in Nat : SendSettles(t, Start(Sent(draft[t], id)))
        BY <3>1, ResolvesFacts DEF TInv
      <4>2. Sent(draft[t], id) \in Drafts /\ Sent(draft[t], id).timer = draft[t].timer
        BY SentFacts
      <4> DEFINE sent == Sent(draft[t], id)
      <4> HIDE DEF sent
      <4>3. Start(sent) \in Drafts /\ Start(sent).timer = sent.timer
        BY <4>2, StartFacts DEF sent
      <4>4. QED
        BY <4>1, <4>2, <4>3 DEF sent
    <3>2. CASE SendRejects(t)
      <4>1. SendSettles(t, Start([draft[t] EXCEPT !.out = NoSend]))
        BY <3>2 DEF SendRejects
      <4>2. [draft[t] EXCEPT !.out = NoSend] \in Drafts
            /\ [draft[t] EXCEPT !.out = NoSend].timer = draft[t].timer
        BY Consts DEF Drafts, Outs
      <4> DEFINE sent == [draft[t] EXCEPT !.out = NoSend]
      <4> HIDE DEF sent
      <4>3. Start(sent) \in Drafts /\ Start(sent).timer = sent.timer
        BY <4>2, StartFacts DEF sent
      <4>4. QED
        BY <4>1, <4>2, <4>3 DEF sent
    <3>3. QED
      BY <1>8, <3>1, <3>2
  <2>2. /\ \A u \in Turns : status'[u] = "idle" => ~keepAlive'[u]
        /\ \A u \in Turns : u # t => status'[u] = status[u] /\ draft'[u] = draft[u]
        /\ draft'[t].timer => draft[t].timer
    BY <2>1, SettlesQuiet
  <2>3. draft[t].out # NoSend /\ UNCHANGED <<phase, call>>
    BY <1>8 DEF SendResolves, SendRejects, toolVars
  <2>4. phase[t] \notin {"none", "recording", "over"}
    BY <2>3 DEF QuietInv, Drained
  <2>5. QED
    BY <2>2, <2>3, <2>4 DEF QuietInv, NoCallOf
<1>9. ASSUME NEW t \in Turns, NEW x \in Tools, NEW c \in Calls, ItemArrives(t, x, c)
      PROVE  QuietInv'
  <2>1. phase[t] = "running" /\ UNCHANGED <<phase, draft, statusVars>>
    BY <1>9 DEF ItemArrives, turnVars
  <2>2. \A k \in Calls : k # c => call'[k] = call[k]
    BY <1>9 DEF ItemArrives
  <2>3. call'[c].turn = t
    BY <1>9 DEF ItemArrives
  <2>4. \A u \in Turns : u # t /\ NoCallOf(u) => NoCallOf(u)'
    BY <2>2, <2>3 DEF NoCallOf
  <2>5. QED
    BY <2>1, <2>4 DEF QuietInv, statusVars
<1>10. ASSUME NEW c \in Calls, AnchorSent(c) \/ StartSent(c) \/ EndSent(c) \/ ItemFails(c)
       PROVE  QuietInv'
  <2> DEFINE t == call[c].turn
  <2>1. t \in Turns /\ phase[t] = "running" /\ phase' = phase
    BY <1>10 DEF AnchorSent, StartSent, EndSent, ItemFails, turnVars, TInv, CallInv, QuietInv, NoCallOf
  <2>2. \A k \in Calls : call'[k] = call[k] \/ call'[k].turn \in {t, None}
    <3>1. call[c] \in CallTypes
      OBVIOUS
    <3>2. \/ call' = [call EXCEPT ![c] = NoCall]
          \/ call' = [call EXCEPT ![c] = [call[c] EXCEPT !.at = "start"]]
          \/ \E r \in Recs : call' = [call EXCEPT ![c] = [call[c] EXCEPT !.at = "end", !.rec = r]]
      <4>1. CASE AnchorSent(c) \/ EndSent(c) \/ ItemFails(c)
        BY <4>1 DEF AnchorSent, EndSent, ItemFails
      <4>2. CASE StartSent(c)
        <5>1. PICK s \in {"running", "done"} :
                 call' = [call EXCEPT ![c] = IF call[c].ends
                             THEN [call[c] EXCEPT !.at = "end",
                                                  !.rec = [bubble |-> Len(bubbles) + 1, status |-> s]]
                             ELSE NoCall]
          BY <4>2 DEF StartSent
        <5>2. [bubble |-> Len(bubbles) + 1, status |-> s] \in Recs
          BY <5>1 DEF Recs, TInv, TypeOK
        <5>3. QED
          BY <5>1, <5>2
      <4>3. QED
        BY <1>10, <4>1, <4>2
    <3>3. \A r \in Recs : [call[c] EXCEPT !.at = "end", !.rec = r].turn = t
      BY <3>1 DEF CallTypes
    <3>4. [call[c] EXCEPT !.at = "start"].turn = t /\ NoCall.turn = None
      BY <3>1 DEF CallTypes, NoCall
    <3>5. QED
      BY <3>2, <3>3, <3>4
  <2>3. \A u \in Turns : u # t /\ NoCallOf(u) => NoCallOf(u)'
    <3>1. None \notin Turns
      BY DEF TurnAssumption
    <3>2. QED
      BY <2>2, <3>1 DEF NoCallOf
  <2>4. \A u \in Turns : u # t => draft'[u] = draft[u]
    BY <1>10 DEF AnchorSent, StartSent, EndSent, ItemFails
  <2>5. SetStatus(t, "active") \/ UNCHANGED statusVars
    BY <1>10 DEF AnchorSent, StartSent, EndSent, ItemFails, statusVars
  <2> HIDE DEF t
  <2>6. /\ \A u \in Turns : u # t => status'[u] = status[u]
        /\ \A u \in Turns : status'[u] = "idle" => ~keepAlive'[u]
    BY <2>1, <2>5, StatusSet DEF QuietInv, statusVars
  <2>7. QED
    BY <2>1, <2>3, <2>4, <2>6 DEF QuietInv
<1>11. ASSUME NEW t \in Turns, DispatchEnds(t) PROVE QuietInv'
  <2>1. /\ phase[t] = "running" /\ NoCallOf(t) /\ phase' = [phase EXCEPT ![t] = "closing"]
        /\ UNCHANGED <<draft, statusVars, call>>
    BY <1>11 DEF DispatchEnds, toolVars
  <2>2. QED
    BY <2>1 DEF QuietInv, NoCallOf, statusVars
<1>12. ASSUME NEW t \in Turns, Dispose(t) PROVE QuietInv'
  <2>1. /\ phase[t] = "closing" /\ phase' = [phase EXCEPT ![t] = "draining"]
        /\ draft' = [draft EXCEPT ![t] = [draft[t] EXCEPT !.disposed = TRUE, !.timer = FALSE]]
        /\ UNCHANGED <<statusVars, call>>
    BY <1>12 DEF Dispose, toolVars
  <2>2. ~[draft[t] EXCEPT !.disposed = TRUE, !.timer = FALSE].timer
    BY DEF Drafts
  <2>3. QED
    BY <2>1, <2>2 DEF QuietInv, NoCallOf, statusVars
<1>13. ASSUME NEW t \in Turns, TurnEnds(t) PROVE QuietInv'
  <2>1. /\ phase[t] = "draining" /\ phase' = [phase EXCEPT ![t] = "over"]
        /\ Drained(draft[t]) /\ SetStatus(t, "idle") /\ UNCHANGED <<draft, call>>
    BY <1>13 DEF TurnEnds, toolVars
  <2>2. /\ status'[t] = "idle" /\ \A u \in Turns : u # t => status'[u] = status[u]
        /\ \A u \in Turns : status'[u] = "idle" => ~keepAlive'[u]
    BY <2>1, StatusSet
  <2>3. QED
    BY <2>1, <2>2 DEF QuietInv, NoCallOf
<1>14. QED
  BY <1>2, <1>3, <1>4, <1>5, <1>6, <1>7, <1>8, <1>9, <1>10, <1>11, <1>12, <1>13 DEF Next

\* If the runtime waits for every tool item, a turn that is over has left nothing active:
\* no label, no keep-alive, no throttled edit and no send.
THEOREM QuietWhenOver == ASSUME "items" \notin Overlap PROVE Spec => []QuietAfterTurn
<1>1. QuietInv => QuietAfterTurn
  BY DEF QuietInv, QuietAfterTurn
<1>2. QuietInv /\ TInv /\ TurnAssumption /\ [Next]_vars => QuietInv'
  BY QuietNext
<1>3. TurnAssumption
  BY TurnAssumption
<1>4. QED
  BY <1>1, <1>2, <1>3, QuietInit, TypeInvariance, PTL DEF Spec
-----------------------------------------------------------------------------
(* What is pushed, when no partial text comes while deliver() is at work. *)

\* The edits of a draft whose turn waits for the text w (0: for none) to be final: only the
\* last that waits, or the one being sent, is final, and its text is w.
QueueOK(d, w) ==
    /\ w # 0 => ~d.timer /\ d.pending = w
    /\ \A i \in 1..Len(d.ops) : d.ops[i] => i = Len(d.ops) /\ w # 0
    /\ d.out.final => w # 0 /\ d.out.text = w /\ d.ops = <<>>

LEMMA StartQueue ==
    ASSUME TurnAssumption, NEW d \in Drafts, NEW w, QueueOK(d, w) PROVE QueueOK(Start(d), w)
<1> DEFINE e == Start(d)
<1>1. e.pending = d.pending /\ e.timer = d.timer
  BY StartFacts
<1>2. CASE e.ops = d.ops /\ e.out = d.out
  BY <1>1, <1>2 DEF QueueOK
<1>3. CASE e.ops = <<>> /\ e.out = d.out /\ d.out = NoSend
  <2>1. Len(e.ops) = 0 /\ ~e.out.final
    BY <1>3, Consts
  <2> HIDE DEF e
  <2>2. QED
    BY <1>1, <2>1 DEF QueueOK, e
<1>4. CASE /\ d.ops # <<>> /\ d.out = NoSend /\ e.ops = Tail(d.ops)
           /\ e.out = [text |-> d.pending, final |-> Head(d.ops), into |-> d.id]
  <2> HIDE DEF e
  <2>1. /\ Len(d.ops) \in Nat /\ Len(d.ops) > 0 /\ Head(d.ops) = d.ops[1]
        /\ Len(e.ops) = Len(d.ops) - 1
        /\ \A i \in 1..Len(e.ops) : e.ops[i] = d.ops[i + 1]
        /\ e.ops \in Seq(BOOLEAN)
    BY <1>4, DraftFields, Dropped
  <2>2. ASSUME NEW i \in 1..Len(e.ops), e.ops[i] PROVE i = Len(e.ops) /\ w # 0
    <3>1. d.ops[i + 1] /\ i + 1 \in 1..Len(d.ops)
      BY <2>1, <2>2
    <3>2. i + 1 = Len(d.ops) /\ w # 0
      BY <3>1 DEF QueueOK
    <3>3. QED
      BY <2>1, <3>2
  <2>3. ASSUME e.out.final PROVE w # 0 /\ e.out.text = w /\ e.ops = <<>>
    <3>1. d.ops[1] /\ 1 \in 1..Len(d.ops)
      BY <1>4, <2>1, <2>3
    <3>2. 1 = Len(d.ops) /\ w # 0
      BY <3>1 DEF QueueOK
    <3>3. e.ops = <<>>
      BY <2>1, <3>2
    <3>4. d.pending = w
      BY <3>2 DEF QueueOK
    <3>5. e.out.text = d.pending
      BY <1>4
    <3>6. QED
      BY <3>2, <3>3, <3>4, <3>5
  <2>4. QED
    BY <1>1, <2>2, <2>3 DEF QueueOK, e
<1>5. QED
  BY <1>2, <1>3, <1>4, StartFacts

\* One more edit waits behind others that are not final.
LEMMA AppendQueue ==
    ASSUME TurnAssumption, NEW d \in Drafts, NEW w, NEW final \in BOOLEAN,
           w # 0 => ~d.timer /\ d.pending = w,
           \A i \in 1..Len(d.ops) : ~d.ops[i],
           ~d.out.final, final => w # 0
    PROVE  QueueOK(Flush(d, final), w)
<1> DEFINE e == [d EXCEPT !.ops = Append(d.ops, final)]
<1>1. /\ e \in Drafts /\ Flush(d, final) = Start(e) /\ e.pending = d.pending
      /\ e.timer = d.timer /\ e.out = d.out /\ e.ops = Append(d.ops, final)
  BY FlushFacts
<1> HIDE DEF e
<1>2. /\ Len(e.ops) = Len(d.ops) + 1 /\ Len(d.ops) \in Nat
      /\ e.ops[Len(d.ops) + 1] = final
      /\ \A k \in 1..Len(d.ops) : e.ops[k] = d.ops[k]
  BY <1>1, DraftFields, Appended
<1>3. \A i \in 1..Len(e.ops) : e.ops[i] => i = Len(e.ops) /\ w # 0
  <2> SUFFICES ASSUME NEW i \in 1..Len(e.ops), e.ops[i] PROVE i = Len(e.ops) /\ w # 0
    OBVIOUS
  <2>1. i \in 1..Len(d.ops) \/ i = Len(d.ops) + 1
    BY <1>2
  <2>2. QED
    BY <1>2, <2>1
<1>4. QueueOK(e, w)
  BY <1>1, <1>3 DEF QueueOK
<1>5. QED
  BY <1>1, <1>4, StartQueue

\* Nothing final waits or is sent while deliver() does not wait.
LEMMA NothingFinal ==
    ASSUME TurnAssumption, NEW d \in Drafts, QueueOK(d, 0)
    PROVE  Settled(d) /\ ~d.out.final /\ \A i \in 1..Len(d.ops) : ~d.ops[i]
<1>1. DOMAIN d.ops = 1..Len(d.ops)
  BY DraftFields
<1>2. QED
  BY <1>1 DEF QueueOK, Settled

LEMMA ResetQueue ==
    ASSUME TurnAssumption, NEW d \in Drafts, Settled(d) PROVE QueueOK(Reset(d), 0)
<1>1. DOMAIN d.ops = 1..Len(d.ops)
  BY DraftFields
<1>2. Reset(d).ops = d.ops /\ Reset(d).out = d.out
  BY DEF Reset, Drafts
<1>3. QED
  BY <1>1, <1>2 DEF QueueOK, Settled

LEMMA FinalizeQueue ==
    ASSUME TurnAssumption, NEW d \in Drafts, NEW n \in 1..MaxText, QueueOK(d, 0),
           ~Settled(Finalize(d, n))
    PROVE  QueueOK(Finalize(d, n), n)
<1> DEFINE e == [d EXCEPT !.timer = FALSE, !.pending = n]
<1>1. Settled(d) /\ ~d.out.final /\ \A i \in 1..Len(d.ops) : ~d.ops[i]
  BY NothingFinal
<1>2. Finalize(d, n) = Flush(e, TRUE)
  BY <1>1 DEF Finalize
<1>3. n \in Texts /\ n # 0
  BY Consts DEF TurnAssumption
<1>4. e \in Drafts /\ ~e.timer /\ e.pending = n /\ e.ops = d.ops /\ e.out = d.out
  BY <1>3 DEF Drafts
<1> HIDE DEF e
<1>5. QED
  BY <1>1, <1>2, <1>3, <1>4, AppendQueue

\* An index into the room: none, or a message of turn t that has not been pushed.
Ours(t, i) == i = 0 \/ (i \in 1..Len(messages) /\ messages[i].turn = t)
Unpushed(i) == \A p \in pushed : p.message # i

PushInv ==
    /\ \A t \in Turns : QueueOK(draft[t], awaiting[t])
    /\ \A t \in Turns : awaiting[t] # 0 =>
          phase[t] = "running" /\ [turn |-> t, text |-> awaiting[t]] \in replies
    /\ \A t \in Turns : Ours(t, draft[t].id) /\ Ours(t, draft[t].out.into)
    /\ \A t \in Turns : Unpushed(draft[t].id) /\ Unpushed(draft[t].out.into)
    /\ \A p \in pushed : /\ p.message \in 1..Len(messages) /\ messages[p.message].text = p.text
                         /\ [turn |-> messages[p.message].turn, text |-> p.text] \in replies

LEMMA PushInit == TurnAssumption /\ Init => PushInv
<1> SUFFICES ASSUME TurnAssumption, Init PROVE PushInv
  OBVIOUS
<1>1. /\ \A t \in Turns : draft[t] = NewDraft /\ awaiting[t] = 0
      /\ pushed = {} /\ messages = <<>>
  BY DEF Init
<1>2. Len(NewDraft.ops) = 0 /\ ~NewDraft.out.final /\ NewDraft.id = 0 /\ NewDraft.out.into = 0
  BY DEF NewDraft, NoSend
<1>3. QueueOK(NewDraft, 0)
  BY <1>2 DEF QueueOK
<1>4. QED
  BY <1>1, <1>2, <1>3 DEF PushInv, Ours, Unpushed
\* What the end of a send does to its draft.
LEMMA SettlesQueue ==
    ASSUME TurnAssumption, TInv, NEW t \in Turns, NEW STATE d, d \in Drafts,
           QueueOK(d, awaiting[t]), SendSettles(t, d)
    PROVE  /\ QueueOK(draft'[t], awaiting'[t]) /\ awaiting'[t] \in {0, awaiting[t]}
           /\ draft'[t].id \in {0, d.id} /\ draft'[t].out = d.out
           /\ awaiting[t] # 0 /\ Settled(d) => draft'[t].id = 0 /\ awaiting'[t] = 0
           /\ \A u \in Turns : u # t => draft'[u] = draft[u] /\ awaiting'[u] = awaiting[u]
<1>1. CASE awaiting[t] # 0 /\ Settled(d)
  <2>1. draft' = [draft EXCEPT ![t] = Reset(d)] /\ awaiting' = [awaiting EXCEPT ![t] = 0]
    BY <1>1 DEF SendSettles, Delivered
  <2>2. QueueOK(Reset(d), 0) /\ Reset(d).id = 0 /\ Reset(d).out = d.out
    <3>1. Reset(d).id = 0 /\ Reset(d).out = d.out
      BY DEF Reset, Drafts
    <3>2. QED
      BY <1>1, <3>1, ResetQueue
  <2>3. QED
    BY <2>1, <2>2 DEF TInv, TypeOK
<1>2. CASE ~(awaiting[t] # 0 /\ Settled(d))
  <2>1. draft' = [draft EXCEPT ![t] = d] /\ UNCHANGED awaiting
    BY <1>2 DEF SendSettles
  <2>2. draft'[t] = d /\ \A u \in Turns : u # t => draft'[u] = draft[u]
    BY <2>1 DEF TInv, TypeOK
  <2>3. QED
    BY <1>2, <2>1, <2>2
<1>3. QED
  BY <1>1, <1>2

\* A step that leaves the room alone and gives at most one draft another form.
LEMMA PushKept ==
    ASSUME TInv, PushInv, NEW t \in Turns,
           QueueOK(draft'[t], awaiting'[t]),
           awaiting'[t] # 0 => phase'[t] = "running"
                               /\ [turn |-> t, text |-> awaiting'[t]] \in replies',
           draft'[t].id \in {0, draft[t].id},
           draft'[t].out.into \in {0, draft[t].id, draft[t].out.into},
           \A u \in Turns : u # t => /\ draft'[u] = draft[u] /\ awaiting'[u] = awaiting[u]
                                     /\ phase'[u] = phase[u],
           UNCHANGED <<messages, pushed>>, replies \subseteq replies'
    PROVE  PushInv'
<1>1. \A u \in Turns : QueueOK(draft'[u], awaiting'[u])
  BY DEF PushInv
<1>2. \A u \in Turns : awaiting'[u] # 0 =>
         phase'[u] = "running" /\ [turn |-> u, text |-> awaiting'[u]] \in replies'
  BY DEF PushInv
<1>3. /\ \A u \in Turns : Ours(u, draft'[u].id) /\ Ours(u, draft'[u].out.into)
      /\ \A u \in Turns : Unpushed(draft'[u].id) /\ Unpushed(draft'[u].out.into)
  <2>1. \A u \in Turns : Ours(u, 0) /\ Unpushed(0)
    BY DEF Ours, Unpushed, Answers, TInv, TypeOK
  <2>2. QED
    BY <2>1 DEF PushInv
<1>4. \A u \in Turns, i \in Nat : (Ours(u, i) => Ours(u, i)') /\ (Unpushed(i) => Unpushed(i)')
  BY DEF Ours, Unpushed
<1>5. \A p \in pushed' : /\ p.message \in 1..Len(messages') /\ messages'[p.message].text = p.text
                         /\ [turn |-> messages'[p.message].turn, text |-> p.text] \in replies'
  BY DEF PushInv
<1>6. QED
  BY <1>1, <1>2, <1>3, <1>5 DEF PushInv, Ours, Unpushed

\* A draft after Start: the same message, and what is being sent goes into it or where it went.
LEMMA StartRefs ==
    ASSUME TurnAssumption, NEW d \in Drafts
    PROVE  /\ Start(d) \in Drafts /\ Start(d).id = d.id
           /\ Start(d).out.into \in {d.out.into, d.id}
<1>1. Start(d) \in Drafts /\ Start(d).id = d.id
  BY StartFacts
<1>2. \/ Start(d).out = d.out
      \/ Start(d).out = [text |-> d.pending, final |-> Head(d.ops), into |-> d.id]
  BY StartFacts
<1>3. QED
  BY <1>1, <1>2

LEMMA FlushRefs ==
    ASSUME TurnAssumption, NEW d \in Drafts, NEW final \in BOOLEAN
    PROVE  /\ Flush(d, final) \in Drafts /\ Flush(d, final).id = d.id
           /\ Flush(d, final).out.into \in {d.out.into, d.id}
<1> DEFINE e == [d EXCEPT !.ops = Append(d.ops, final)]
<1>1. e \in Drafts /\ Flush(d, final) = Start(e) /\ e.id = d.id /\ e.out = d.out
  BY FlushFacts
<1> HIDE DEF e
<1>2. QED
  BY <1>1, StartRefs

\* Steps that touch no draft that deliver() waits for, nor the room.
LEMMA PushSame ==
    ASSUME PushInv, UNCHANGED <<draft, awaiting, messages, pushed, replies>>,
           \A t \in Turns : phase[t] = "running" /\ phase'[t] # "running" => awaiting[t] = 0
    PROVE  PushInv'
BY DEF PushInv, Ours, Unpushed

LEMMA PushDraft ==
    ASSUME TurnAssumption, "text" \notin Overlap, TInv, PushInv, NEW t \in Turns,
           PartialReply(t) \/ ThrottleFires(t) \/ DeliverNothing(t) \/ Dispose(t)
    PROVE  PushInv'
<1> DEFINE d == draft[t]
<1>1. d \in Drafts /\ QueueOK(d, awaiting[t]) /\ 1..MaxText \subseteq Texts
  BY Consts DEF TInv, TypeOK, PushInv
<1>2. awaiting[t] = 0 /\ UNCHANGED <<awaiting, messages, pushed, replies>>
      /\ \A u \in Turns : u # t => draft'[u] = draft[u] /\ phase'[u] = phase[u]
  <2>1. ThrottleFires(t) => awaiting[t] = 0
    BY <1>1 DEF ThrottleFires, QueueOK
  <2>2. Dispose(t) => awaiting[t] = 0
    <3>1. Dispose(t) => phase[t] # "running"
      BY DEF Dispose
    <3>2. QED
      BY <3>1 DEF PushInv
  <2>3. PartialReply(t) \/ DeliverNothing(t) => awaiting[t] = 0
    BY DEF PartialReply, DeliverNothing
  <2>4. awaiting[t] = 0
    BY <2>1, <2>2, <2>3
  <2>5. /\ UNCHANGED <<awaiting, messages, pushed, replies>>
        /\ \A u \in Turns : u # t => phase'[u] = phase[u]
    <3>1. CASE PartialReply(t) \/ ThrottleFires(t)
      <4>1. UNCHANGED <<turnVars, answerVars>>
        BY <3>1, Zenon DEF PartialReply, ThrottleFires
      <4>2. QED
        BY <4>1 DEF turnVars, answerVars
    <3>2. CASE DeliverNothing(t)
      BY <3>2 DEF DeliverNothing, answerVars
    <3>3. CASE Dispose(t)
      <4>1. phase' = [phase EXCEPT ![t] = "draining"] /\ UNCHANGED <<awaiting, answerVars>>
        BY <3>3, Zenon DEF Dispose
      <4>2. QED
        BY <4>1 DEF answerVars
    <3>4. QED
      BY <3>1, <3>2, <3>3
  <2>6. \E e : draft' = [draft EXCEPT ![t] = e]
    BY Zenon DEF PartialReply, ThrottleFires, DeliverNothing, Delivered, Dispose
  <2>7. QED
    BY <2>4, <2>5, <2>6
<1>3. Settled(d) /\ ~d.out.final /\ \A i \in 1..Len(d.ops) : ~d.ops[i]
  BY <1>1, <1>2, NothingFinal
<1>4. /\ QueueOK(draft'[t], 0) /\ draft'[t].id \in {0, d.id}
      /\ draft'[t].out.into \in {0, d.id, d.out.into}
  <2>1. CASE PartialReply(t)
    <3>1. PICK n \in 1..MaxText : draft'[t] = Update(d, n)
      BY <2>1 DEF PartialReply, TInv, TypeOK
    <3>2. /\ [d EXCEPT !.pending = n, !.timer = TRUE].ops = d.ops
          /\ [d EXCEPT !.pending = n, !.timer = TRUE].out = d.out
          /\ [d EXCEPT !.pending = n, !.timer = TRUE].id = d.id
      BY <1>1 DEF Drafts
    <3>3. draft'[t].ops = d.ops /\ draft'[t].out = d.out /\ draft'[t].id = d.id
      BY <3>1, <3>2 DEF Update
    <3>4. QED
      BY <1>3, <3>3 DEF QueueOK
  <2>2. CASE ThrottleFires(t)
    <3> DEFINE e == [d EXCEPT !.timer = FALSE]
    <3>1. draft'[t] = Flush(e, FALSE)
      BY <2>2 DEF ThrottleFires, TInv, TypeOK
    <3>2. e \in Drafts /\ e.id = d.id /\ e.out = d.out /\ e.ops = d.ops
      BY <1>1 DEF Drafts
    <3> HIDE DEF e
    <3>3. QueueOK(Flush(e, FALSE), 0)
      BY <1>3, <3>2, AppendQueue
    <3>4. QED
      BY <3>1, <3>2, <3>3, FlushRefs
  <2>3. CASE DeliverNothing(t)
    <3>1. draft'[t] = Reset(d)
      BY <2>3 DEF DeliverNothing, Delivered, TInv, TypeOK
    <3>2. Reset(d).id = 0 /\ Reset(d).out = d.out
      BY <1>1 DEF Reset, Drafts
    <3>3. QED
      BY <1>1, <1>3, <3>1, <3>2, ResetQueue
  <2>4. CASE Dispose(t)
    <3>1. draft'[t].ops = d.ops /\ draft'[t].out = d.out /\ draft'[t].id = d.id
      BY <1>1, <2>4 DEF Dispose, Drafts, TInv, TypeOK
    <3>2. QED
      BY <1>3, <3>1 DEF QueueOK
  <2>5. QED
    BY <2>1, <2>2, <2>3, <2>4
<1>5. QED
  BY <1>2, <1>4, PushKept
LEMMA PushDeliver ==
    ASSUME TurnAssumption, TInv, PushInv, NEW t \in Turns, DeliverText(t) PROVE PushInv'
<1>1. /\ phase[t] = "running" /\ awaiting[t] = 0 /\ draft[t] \in Drafts
      /\ UNCHANGED <<phase, messages, pushed>>
  BY DEF DeliverText, TInv, TypeOK
<1>2. PICK n \in 1..MaxText :
         LET d == Finalize(draft[t], n)
         IN  /\ replies' = replies \cup {[turn |-> t, text |-> n]}
             /\ IF Settled(d)
                THEN Delivered(t, d) /\ UNCHANGED awaiting
                ELSE draft' = [draft EXCEPT ![t] = d] /\ awaiting' = [awaiting EXCEPT ![t] = n]
  BY DEF DeliverText
<1> DEFINE e == [draft[t] EXCEPT !.timer = FALSE, !.pending = n]
           d == Finalize(draft[t], n)
<1>3. QueueOK(draft[t], 0) /\ n \in Texts
  BY <1>1, <1>2, Consts DEF PushInv
<1>4. e \in Drafts /\ e.id = draft[t].id /\ e.out = draft[t].out
  BY <1>1, <1>3 DEF Drafts
<1>5. d \in Drafts /\ d.id = draft[t].id /\ d.out.into \in {draft[t].id, draft[t].out.into}
  <2>1. Flush(e, TRUE) \in Drafts /\ Flush(e, TRUE).id = e.id
        /\ Flush(e, TRUE).out.into \in {e.id, e.out.into}
    BY <1>4, FlushRefs
  <2>2. d = draft[t] \/ d = Flush(e, TRUE)
    BY DEF Finalize
  <2> HIDE DEF d, e
  <2>3. QED
    BY <1>1, <1>4, <2>1, <2>2
<1>6. /\ QueueOK(draft'[t], awaiting'[t]) /\ awaiting'[t] \in {0, n}
      /\ draft'[t].id \in {0, d.id} /\ draft'[t].out = d.out
      /\ \A u \in Turns : u # t => draft'[u] = draft[u] /\ awaiting'[u] = awaiting[u]
  <2>1. CASE Settled(d)
    <3>1. draft' = [draft EXCEPT ![t] = Reset(d)] /\ awaiting' = awaiting
      BY <1>2, <2>1 DEF Delivered
    <3>2. QueueOK(Reset(d), 0) /\ Reset(d).id = 0 /\ Reset(d).out = d.out
      <4> HIDE DEF d
      <4>1. Reset(d).id = 0 /\ Reset(d).out = d.out
        BY <1>5 DEF Reset, Drafts
      <4>2. QED
        BY <1>5, <2>1, <4>1, ResetQueue
    <3>3. draft'[t] = Reset(d) /\ \A u \in Turns : u # t => draft'[u] = draft[u]
      BY <3>1 DEF TInv, TypeOK
    <3> HIDE DEF d
    <3>4. QED
      BY <1>1, <3>1, <3>2, <3>3
  <2>2. CASE ~Settled(d)
    <3>1. draft' = [draft EXCEPT ![t] = d] /\ awaiting' = [awaiting EXCEPT ![t] = n]
      BY <1>2, <2>2
    <3>2. QueueOK(d, n)
      BY <1>1, <1>3, <2>2, FinalizeQueue
    <3>3. /\ draft'[t] = d /\ awaiting'[t] = n
          /\ \A u \in Turns : u # t => draft'[u] = draft[u] /\ awaiting'[u] = awaiting[u]
      BY <3>1 DEF TInv, TypeOK
    <3> HIDE DEF d
    <3>4. QED
      BY <3>2, <3>3
  <2>3. QED
    BY <2>1, <2>2
<1>7. /\ replies \subseteq replies' /\ [turn |-> t, text |-> n] \in replies'
  BY <1>2
<1> HIDE DEF d, e
<1>8. QED
  BY <1>1, <1>5, <1>6, <1>7, PushKept

\* A send that has left the room alone.
LEMMA PushRefused ==
    ASSUME TurnAssumption, TInv, PushInv, NEW t \in Turns, SendRejects(t),
           UNCHANGED <<messages, pushed>>
    PROVE  PushInv'
<1> DEFINE e == [draft[t] EXCEPT !.out = NoSend]
<1>1. SendSettles(t, Start(e)) /\ UNCHANGED <<phase, messages, pushed, replies>>
  BY DEF SendRejects
<1>2. /\ e \in Drafts /\ e.id = draft[t].id /\ e.out.into = 0 /\ ~e.out.final
      /\ e.ops = draft[t].ops /\ e.timer = draft[t].timer /\ e.pending = draft[t].pending
  BY Consts DEF Drafts, Outs, TInv, TypeOK
<1> HIDE DEF e
<1>3. QueueOK(e, awaiting[t])
  BY <1>2 DEF QueueOK, PushInv
<1>4. Start(e) \in Drafts /\ QueueOK(Start(e), awaiting[t]) /\ Start(e).id = draft[t].id
      /\ Start(e).out.into \in {0, draft[t].id}
  BY <1>2, <1>3, StartQueue, StartRefs
<1>5. /\ QueueOK(draft'[t], awaiting'[t]) /\ awaiting'[t] \in {0, awaiting[t]}
      /\ draft'[t].id \in {0, draft[t].id} /\ draft'[t].out.into \in {0, draft[t].id}
      /\ \A u \in Turns : u # t => draft'[u] = draft[u] /\ awaiting'[u] = awaiting[u]
  BY <1>1, <1>4, SettlesQueue
<1>6. QED
  BY <1>1, <1>5, PushKept DEF PushInv

\* A message of the room gets another text, or one is added, by turn t.
Room(t, at) ==
    /\ Len(messages) \in Nat /\ Len(messages') \in Nat /\ Len(messages) <= Len(messages')
    /\ at \in 1..Len(messages') /\ messages'[at].turn = t
    /\ \A i \in 1..Len(messages) :
          messages'[i].turn = messages[i].turn /\ (i # at => messages'[i] = messages[i])

\* A message that a turn may show its text in is not one that has been pushed.
LEMMA RoomFacts ==
    ASSUME TInv, PushInv, NEW t \in Turns, NEW at \in Nat \ {0}, NEW STATE m, m \in [turn : Turns, text : Texts],
           m.turn = t,
           \/ at = Len(messages) + 1 /\ messages' = Append(messages, m)
           \/ /\ at \in 1..Len(messages) /\ messages[at].turn = t /\ Unpushed(at)
              /\ messages' = [messages EXCEPT ![at] = m]
    PROVE  Room(t, at) /\ Unpushed(at) /\ messages'[at] = m
<1> DEFINE M == [turn : Turns, text : Texts]
<1>1. messages \in Seq(M) /\ Len(messages) \in Nat
  BY DEF TInv, TypeOK
<1>2. CASE at = Len(messages) + 1 /\ messages' = Append(messages, m)
  <2>1. /\ Len(messages') = Len(messages) + 1 /\ messages'[Len(messages) + 1] = m
        /\ \A k \in 1..Len(messages) : messages'[k] = messages[k]
    <3> HIDE DEF M
    <3>1. m \in M
      BY DEF M
    <3>2. QED
      BY <1>1, <1>2, <3>1, Appended
  <2>2. Unpushed(at)
    <3>1. ASSUME NEW p \in pushed PROVE p.message # at
      <4>1. p.message \in 1..Len(messages)
        BY <3>1 DEF PushInv
      <4>2. QED
        BY <1>1, <1>2, <4>1
    <3>2. QED
      BY <3>1 DEF Unpushed
  <2>3. messages'[at] = m
    BY <1>2, <2>1
  <2>4. Room(t, at)
    <3> HIDE DEF M
    <3>1. QED
      BY <1>1, <1>2, <2>1, <2>3 DEF Room
  <2>5. QED
    BY <2>2, <2>3, <2>4
<1>3. CASE /\ at \in 1..Len(messages) /\ messages[at].turn = t /\ Unpushed(at)
           /\ messages' = [messages EXCEPT ![at] = m]
  <2>1. /\ Len(messages') = Len(messages)
        /\ \A k \in 1..Len(messages) : messages'[k] = IF k = at THEN m ELSE messages[k]
    <3>1. m \in M
      OBVIOUS
    <3> HIDE DEF M
    <3>2. QED
      BY <1>1, <1>3, <3>1, Replaced
  <2>2. messages'[at] = m
    BY <1>3, <2>1
  <2>3. Room(t, at)
    <3> HIDE DEF M
    <3>1. ASSUME NEW i \in 1..Len(messages)
          PROVE  messages'[i].turn = messages[i].turn /\ (i # at => messages'[i] = messages[i])
      BY <1>3, <2>1
    <3>2. /\ Len(messages') \in Nat /\ Len(messages) <= Len(messages')
          /\ at \in 1..Len(messages') /\ messages'[at].turn = t
      <4>1. Len(messages') = Len(messages) /\ messages'[at].turn = t
        BY <2>1, <2>2
      <4>2. at \in 1..Len(messages) /\ Len(messages) \in Nat
        BY <1>1, <1>3
      <4>3. QED
        BY <4>1, <4>2
    <3>3. QED
      BY <1>1, <3>1, <3>2 DEF Room
  <2>4. QED
    BY <1>3, <2>2, <2>3
<1>4. QED
  BY <1>2, <1>3

\* After such a step what is pushed still stands, and every turn's references are its own.
LEMMA RoomKept ==
    ASSUME TInv, PushInv, NEW t \in Turns, NEW at \in Nat \ {0}, Room(t, at), Unpushed(at)
    PROVE  /\ \A u \in Turns, i \in Nat : Ours(u, i) => Ours(u, i)'
           /\ Ours(t, at)'
           /\ \A p \in pushed : /\ p.message \in 1..Len(messages') /\ p.message # at
                                /\ messages'[p.message].text = p.text
                                /\ [turn |-> messages'[p.message].turn, text |-> p.text] \in replies
<1>1. \A u \in Turns, i \in Nat : Ours(u, i) => Ours(u, i)'
  BY DEF Ours, Room
<1>2. Ours(t, at)'
  BY DEF Ours, Room
<1>3. ASSUME NEW p \in pushed
      PROVE  /\ p.message \in 1..Len(messages') /\ p.message # at
             /\ messages'[p.message].text = p.text
             /\ [turn |-> messages'[p.message].turn, text |-> p.text] \in replies
  <2>1. /\ p.message \in 1..Len(messages) /\ messages[p.message].text = p.text /\ p.message # at
        /\ [turn |-> messages[p.message].turn, text |-> p.text] \in replies
    BY DEF PushInv, Unpushed
  <2>2. messages'[p.message] = messages[p.message]
    BY <2>1 DEF Room
  <2>3. QED
    BY <2>1, <2>2 DEF Room
<1>4. QED
  BY <1>1, <1>2, <1>3
\* A send that has been carried out, whatever the draft s that it leaves has for a message.
LEMMA PushCarried ==
    ASSUME TurnAssumption, TInv, PushInv, NEW t \in Turns, CarriedOut(t), UNCHANGED <<phase, replies>>,
           NEW STATE s, s \in Drafts, SendSettles(t, Start(s)),
           s.id = Place(t) \/ s.id = draft[t].id,
           s.out = NoSend, s.ops = draft[t].ops, s.pending = draft[t].pending, s.timer = draft[t].timer
    PROVE  PushInv'
<1> DEFINE out == draft[t].out
           w == awaiting[t]
<1>1. PICK at \in Nat \ {0}, id \in Nat :
      /\ at = Place(t) /\ id = s.id /\ out \in Outs
      /\ \/ /\ out.into = 0 /\ at = Len(messages) + 1
            /\ messages' = Append(messages, [turn |-> t, text |-> out.text])
         \/ /\ out.into # 0 /\ at = out.into
            /\ messages' = [messages EXCEPT ![at] = [messages[at] EXCEPT !.text = out.text]]
      /\ pushed' = IF out.final THEN pushed \cup {[message |-> at, text |-> out.text]} ELSE pushed
  <2>1. Place(t) \in Nat \ {0} /\ s.id \in Nat
    BY CarriedFacts DEF TInv, Drafts
  <2>2. QED
    BY <2>1, CarriedFacts DEF TInv
<1>2. UNCHANGED <<phase, replies>>
  OBVIOUS
<1>3. draft[t] \in Drafts /\ QueueOK(draft[t], w)
  BY DEF TInv, TypeOK, PushInv
<1>4. /\ s \in Drafts /\ s.id = id /\ s.out = NoSend /\ s.ops = draft[t].ops
      /\ s.pending = draft[t].pending /\ s.timer = draft[t].timer
      /\ (id = at \/ id = draft[t].id)
  BY <1>1
<1>5. QueueOK(s, w) /\ s.out.into = 0
  BY <1>3, <1>4, Consts DEF QueueOK
<1>6. Start(s) \in Drafts /\ QueueOK(Start(s), w) /\ Start(s).id = id
      /\ Start(s).out.into \in {0, id}
  BY <1>4, <1>5, StartQueue, StartRefs
<1>7. SendSettles(t, Start(s))
  OBVIOUS
<1>8. /\ QueueOK(draft'[t], awaiting'[t]) /\ awaiting'[t] \in {0, w}
      /\ draft'[t].id \in {0, id} /\ draft'[t].out = Start(s).out
      /\ w # 0 /\ Settled(Start(s)) => draft'[t].id = 0 /\ awaiting'[t] = 0
      /\ \A u \in Turns : u # t => draft'[u] = draft[u] /\ awaiting'[u] = awaiting[u]
  BY <1>6, <1>7, SettlesQueue
<1> HIDE DEF out, w
<1>9. out.into # 0 => out.into \in 1..Len(messages) /\ messages[out.into].turn = t /\ Unpushed(out.into)
  BY DEF PushInv, Ours, out
<1>10. Room(t, at) /\ Unpushed(at) /\ messages'[at].text = out.text
  <2>1. out.text \in Texts
    BY <1>1 DEF Outs
  <2>2. CASE out.into = 0
    <3> DEFINE m == [turn |-> t, text |-> out.text]
    <3>1. m \in [turn : Turns, text : Texts] /\ m.turn = t /\ m.text = out.text
      BY <2>1
    <3>2. at = Len(messages) + 1 /\ messages' = Append(messages, m)
      BY <1>1, <2>2
    <3> HIDE DEF m
    <3>3. QED
      BY <3>1, <3>2, RoomFacts
  <2>3. CASE out.into # 0
    <3> DEFINE m == [messages[at] EXCEPT !.text = out.text]
    <3>1. /\ at \in 1..Len(messages) /\ messages[at].turn = t /\ Unpushed(at)
          /\ messages' = [messages EXCEPT ![at] = m]
      BY <1>1, <1>9, <2>3
    <3>2. messages[at] \in [turn : Turns, text : Texts]
      BY <3>1, Element DEF TInv, TypeOK
    <3>3. m \in [turn : Turns, text : Texts] /\ m.turn = t /\ m.text = out.text
      BY <2>1, <3>1, <3>2
    <3> HIDE DEF m
    <3>4. Room(t, at) /\ Unpushed(at) /\ messages'[at] = m
      <4>1. m \in [turn : Turns, text : Texts] /\ m.turn = t
        BY <3>3
      <4>2. \/ at = Len(messages) + 1 /\ messages' = Append(messages, m)
            \/ /\ at \in 1..Len(messages) /\ messages[at].turn = t /\ Unpushed(at)
               /\ messages' = [messages EXCEPT ![at] = m]
        BY <3>1
      <4>3. QED
        BY <4>1, <4>2, RoomFacts
    <3>5. QED
      BY <3>3, <3>4
  <2>4. QED
    BY <2>2, <2>3
<1>11. /\ \A u \in Turns, i \in Nat : Ours(u, i) => Ours(u, i)'
       /\ Ours(t, at)'
       /\ \A p \in pushed : /\ p.message \in 1..Len(messages') /\ p.message # at
                            /\ messages'[p.message].text = p.text
                            /\ [turn |-> messages'[p.message].turn, text |-> p.text] \in replies
  BY <1>10, RoomKept
<1>12. Ours(t, id)' /\ Unpushed(id) /\ Ours(t, 0)' /\ Unpushed(0)
  <2>1. \A i \in Nat : i = draft[t].id => Ours(t, i)' /\ Unpushed(i)
    <3>1. \A i \in Nat : i = draft[t].id => Ours(t, i) /\ Unpushed(i)
      BY DEF PushInv
    <3>2. QED
      BY <1>11, <3>1
  <2>2. Ours(t, 0)' /\ Unpushed(0)
    BY DEF Ours, Unpushed, Answers, TInv, TypeOK
  <2>3. QED
    BY <1>1, <1>4, <1>10, <1>11, <2>1, <2>2
<1>13. \A u \in Turns : u # t => /\ Ours(u, draft[u].id)' /\ Ours(u, draft[u].out.into)'
                                 /\ Unpushed(draft[u].id) /\ Unpushed(draft[u].out.into)
                                 /\ draft[u].id # at /\ draft[u].out.into # at
  <2> SUFFICES ASSUME NEW u \in Turns, u # t
               PROVE  /\ Ours(u, draft[u].id)' /\ Ours(u, draft[u].out.into)'
                      /\ Unpushed(draft[u].id) /\ Unpushed(draft[u].out.into)
                      /\ draft[u].id # at /\ draft[u].out.into # at
    OBVIOUS
  <2>1. draft[u].id \in Nat /\ draft[u].out.into \in Nat
    BY DraftFields DEF Outs, TInv, TypeOK
  <2>2. \A i \in Nat : Ours(u, i) => i # at
    <3> SUFFICES ASSUME NEW i \in Nat, Ours(u, i), i = at PROVE FALSE
      OBVIOUS
    <3>1. i \in 1..Len(messages) /\ messages[i].turn = u
      BY DEF Ours
    <3>2. messages'[i].turn = u /\ messages'[i].turn = t
      BY <1>10, <3>1 DEF Room
    <3>3. QED
      BY <3>2
  <2>3. Ours(u, draft[u].id) /\ Ours(u, draft[u].out.into)
        /\ Unpushed(draft[u].id) /\ Unpushed(draft[u].out.into)
    BY DEF PushInv
  <2>4. \A i \in Nat : Ours(u, i) => Ours(u, i)'
    BY <1>11
  <2>5. Ours(u, draft[u].id)' /\ Ours(u, draft[u].out.into)'
    <3> DEFINE a == draft[u].id
               b == draft[u].out.into
    <3>1. a' = a /\ b' = b
      BY <1>8
    <3>2. Ours(u, a) /\ Ours(u, b) /\ a \in Nat /\ b \in Nat
      BY <2>1, <2>3
    <3> HIDE DEF a, b
    <3>3. Ours(u, a)' /\ Ours(u, b)'
      BY <2>4, <3>1, <3>2 DEF Ours
    <3>4. QED
      BY <3>3 DEF a, b
  <2>6. QED
    BY <2>1, <2>2, <2>3, <2>5
<1>14. /\ \A u \in Turns : QueueOK(draft'[u], awaiting'[u])
       /\ \A u \in Turns : awaiting'[u] # 0 =>
             phase'[u] = "running" /\ [turn |-> u, text |-> awaiting'[u]] \in replies'
  BY <1>2, <1>8 DEF PushInv, w
<1>15. CASE ~out.final
  <2>1. pushed' = pushed
    BY <1>1, <1>15 DEF out
  <2>2. draft'[t].id \in {0, id} /\ draft'[t].out.into \in {0, id}
    BY <1>6, <1>8
  <2>3. \A u \in Turns : Ours(u, draft[u].id)' /\ Ours(u, draft[u].out.into)'
    BY <1>8, <1>12, <1>13, <2>2 DEF Ours
  <2>4. \A u \in Turns : Unpushed(draft[u].id)' /\ Unpushed(draft[u].out.into)'
    BY <1>8, <1>12, <1>13, <2>1, <2>2 DEF Unpushed
  <2>5. QED
    BY <1>2, <1>11, <1>14, <2>1, <2>3, <2>4 DEF PushInv
<1>16. CASE out.final
  <2>1. w # 0 /\ out.text = w /\ draft[t].ops = <<>>
    BY <1>3, <1>16 DEF QueueOK, out
  <2>2. Start(s) = s /\ Settled(s)
    BY <1>4, <2>1, Consts DEF Start, Settled
  <2>3. draft'[t].id = 0 /\ draft'[t].out.into = 0
    BY <1>5, <1>8, <2>1, <2>2
  <2>4. pushed' = pushed \cup {[message |-> at, text |-> w]}
    BY <1>1, <1>16, <2>1 DEF out
  <2>5. \A u \in Turns : Ours(u, draft[u].id)' /\ Ours(u, draft[u].out.into)'
    BY <1>8, <1>12, <1>13, <2>3 DEF Ours
  <2>6. \A u \in Turns : Unpushed(draft[u].id)' /\ Unpushed(draft[u].out.into)'
    BY <1>8, <1>12, <1>13, <2>3, <2>4 DEF Unpushed
  <2>7. [turn |-> t, text |-> w] \in replies
    BY <2>1 DEF PushInv, w
  <2>8. \A p \in pushed' : /\ p.message \in 1..Len(messages') /\ messages'[p.message].text = p.text
                           /\ [turn |-> messages'[p.message].turn, text |-> p.text] \in replies'
    <3> SUFFICES ASSUME NEW p \in pushed'
                 PROVE  /\ p.message \in 1..Len(messages') /\ messages'[p.message].text = p.text
                        /\ [turn |-> messages'[p.message].turn, text |-> p.text] \in replies'
      OBVIOUS
    <3>1. CASE p \in pushed
      BY <1>2, <1>11, <3>1
    <3>2. CASE p = [message |-> at, text |-> w]
      BY <1>2, <1>10, <2>1, <2>7, <3>2 DEF Room
    <3>3. QED
      BY <2>4, <3>1, <3>2
  <2>9. QED
    BY <1>14, <2>5, <2>6, <2>8 DEF PushInv
<1>17. QED
  BY <1>15, <1>16

\* A send that resolves, and one that is rejected, whether or not it was carried out.
LEMMA PushResolves ==
    ASSUME TurnAssumption, TInv, PushInv, NEW t \in Turns, SendResolves(t) PROVE PushInv'
<1>1. PICK id \in Nat : (id = Place(t) \/ id = draft[t].id) /\ SendSettles(t, Start(Sent(draft[t], id)))
  BY ResolvesFacts DEF TInv
<1> DEFINE s == Sent(draft[t], id)
<1>2. draft[t] \in Drafts
  BY DEF TInv, TypeOK
<1>3. /\ s \in Drafts /\ s.id = id /\ s.out = NoSend /\ s.ops = draft[t].ops
      /\ s.pending = draft[t].pending /\ s.timer = draft[t].timer
  BY <1>2, SentFacts
<1>4. SendSettles(t, Start(s))
  BY <1>1
<1>5. CarriedOut(t) /\ UNCHANGED <<phase, replies>>
  BY DEF SendResolves
<1> HIDE DEF s
<1>6. QED
  BY <1>1, <1>3, <1>4, <1>5, PushCarried

LEMMA PushRejects ==
    ASSUME TurnAssumption, TInv, PushInv, NEW t \in Turns, SendRejects(t) PROVE PushInv'
<1> DEFINE s == [draft[t] EXCEPT !.out = NoSend]
<1>1. SendSettles(t, Start(s)) /\ UNCHANGED <<phase, replies>>
      /\ (CarriedOut(t) \/ UNCHANGED <<messages, pushed>>)
  BY DEF SendRejects
<1>2. CASE UNCHANGED <<messages, pushed>>
  BY <1>2, PushRefused
<1>3. CASE CarriedOut(t)
  <2>1. /\ s \in Drafts /\ s.id = draft[t].id /\ s.out = NoSend /\ s.ops = draft[t].ops
        /\ s.pending = draft[t].pending /\ s.timer = draft[t].timer
    BY Consts DEF Drafts, Outs, TInv, TypeOK
  <2> HIDE DEF s
  <2>2. QED
    BY <1>1, <1>3, <2>1, PushCarried
<1>4. QED
  BY <1>1, <1>2, <1>3
\* A tool item that needs an answer to relate to: a placeholder becomes the draft's message.
LEMMA PushAnchor ==
    ASSUME TurnAssumption, TInv, PushInv, NEW c \in Calls, AnchorSent(c) PROVE PushInv'
<1> DEFINE t == call[c].turn
           at == Len(messages) + 1
           m == [turn |-> t, text |-> Dots]
<1>1. t \in Turns
  BY DEF AnchorSent, TInv, CallInv
<1>2. /\ messages' = Append(messages, m)
      /\ draft' = [draft EXCEPT ![t] = [draft[t] EXCEPT !.id = at, !.last = Dots]]
      /\ UNCHANGED <<phase, awaiting, pushed, replies>>
  BY <1>1 DEF AnchorSent, turnVars, TInv, TypeOK
<1>3. at \in Nat \ {0} /\ m \in [turn : Turns, text : Texts] /\ m.turn = t
  BY <1>1, Consts DEF TInv, TypeOK
<1> HIDE DEF t, m
<1> DEFINE d == [draft[t] EXCEPT !.id = at, !.last = Dots]
<1>4. /\ draft[t] \in Drafts /\ d.id = at /\ d.out = draft[t].out /\ d.ops = draft[t].ops
      /\ d.timer = draft[t].timer /\ d.pending = draft[t].pending
  BY <1>1 DEF Drafts, TInv, TypeOK
<1>5. draft'[t] = d /\ \A u \in Turns : u # t => draft'[u] = draft[u]
  BY <1>1, <1>2 DEF TInv, TypeOK
<1> HIDE DEF d
<1>6. QueueOK(d, awaiting[t])
  BY <1>1, <1>4 DEF QueueOK, PushInv
<1>7. /\ Len(messages) \in Nat /\ Len(messages') = Len(messages) + 1 /\ messages'[at] = m
      /\ \A k \in 1..Len(messages) : messages'[k] = messages[k]
  <2> DEFINE M == [turn : Turns, text : Texts]
  <2>1. messages \in Seq(M) /\ m \in M
    BY <1>3 DEF TInv, TypeOK
  <2> HIDE DEF M
  <2>2. QED
    BY <1>2, <2>1, Appended
<1> HIDE DEF at
<1>8. at = Len(messages) + 1
  BY DEF at
<1>9. \A u \in Turns, i \in Nat : (i = 0 \/ (i \in 1..Len(messages) /\ messages[i].turn = u))
        => (i = 0 \/ (i \in 1..Len(messages') /\ messages'[i].turn = u))
  BY <1>7
<1>10. /\ at \in 1..Len(messages') /\ messages'[at].turn = t
       /\ \A p \in pushed : p.message # at
  <2>1. at \in 1..Len(messages') /\ messages'[at].turn = t
    BY <1>3, <1>7, <1>8
  <2>2. ASSUME NEW p \in pushed PROVE p.message # at
    <3>1. p.message \in 1..Len(messages)
      BY <2>2 DEF PushInv
    <3>2. QED
      BY <1>7, <1>8, <3>1
  <2>3. QED
    BY <2>1, <2>2
<1>11. \A u \in Turns : /\ draft[u].id \in Nat /\ draft[u].out.into \in Nat
                        /\ Ours(u, draft[u].id) /\ Ours(u, draft[u].out.into)
                        /\ Unpushed(draft[u].id) /\ Unpushed(draft[u].out.into)
  BY DraftFields DEF Outs, TInv, TypeOK, PushInv
<1>12. \A u \in Turns : Ours(u, draft[u].id)' /\ Ours(u, draft[u].out.into)'
  BY <1>4, <1>5, <1>9, <1>10, <1>11 DEF Ours
<1>13. \A u \in Turns : Unpushed(draft[u].id)' /\ Unpushed(draft[u].out.into)'
  BY <1>2, <1>4, <1>5, <1>10, <1>11 DEF Unpushed
<1>14. \A p \in pushed' : /\ p.message \in 1..Len(messages') /\ messages'[p.message].text = p.text
                          /\ [turn |-> messages'[p.message].turn, text |-> p.text] \in replies'
  <2> SUFFICES ASSUME NEW p \in pushed
               PROVE  /\ p.message \in 1..Len(messages') /\ messages'[p.message].text = p.text
                      /\ [turn |-> messages'[p.message].turn, text |-> p.text] \in replies
    BY <1>2
  <2>1. /\ p.message \in 1..Len(messages) /\ messages[p.message].text = p.text
        /\ [turn |-> messages[p.message].turn, text |-> p.text] \in replies
    BY DEF PushInv
  <2>2. messages'[p.message] = messages[p.message] /\ p.message \in 1..Len(messages')
    BY <1>7, <2>1
  <2>3. QED
    BY <2>1, <2>2
<1>15. \A u \in Turns : QueueOK(draft'[u], awaiting'[u])
  BY <1>2, <1>5, <1>6 DEF PushInv
<1>16. \A u \in Turns : awaiting'[u] # 0 =>
          phase'[u] = "running" /\ [turn |-> u, text |-> awaiting'[u]] \in replies'
  BY <1>2 DEF PushInv
<1>17. QED
  BY <1>12, <1>13, <1>14, <1>15, <1>16 DEF PushInv

\* An item that is given up leaves at most a placeholder nobody refers to.
LEMMA PushGhost ==
    ASSUME TurnAssumption, TInv, PushInv, NEW c \in Calls, ItemFails(c) PROVE PushInv'
<1> DEFINE m == [turn |-> call[c].turn, text |-> Dots]
<1>1. UNCHANGED <<phase, draft, awaiting, pushed, replies>>
  BY DEF ItemFails, turnVars
<1>2. CASE messages' = messages
  BY <1>1, <1>2, PushSame
<1>3. CASE messages' = Append(messages, m)
  <2>1. m \in [turn : Turns, text : Texts]
    BY Consts DEF ItemFails, TInv, CallInv
  <2> HIDE DEF m
  <2>2. /\ Len(messages) \in Nat /\ Len(messages') = Len(messages) + 1
        /\ \A k \in 1..Len(messages) : messages'[k] = messages[k]
    <3> DEFINE M == [turn : Turns, text : Texts]
    <3>1. messages \in Seq(M) /\ m \in M
      BY <2>1 DEF TInv, TypeOK
    <3> HIDE DEF M
    <3>2. QED
      BY <1>3, <3>1, Appended
  <2>3. \A u \in Turns : Ours(u, draft[u].id)' /\ Ours(u, draft[u].out.into)'
    BY <1>1, <2>2 DEF PushInv, Ours
  <2>4. \A u \in Turns : Unpushed(draft[u].id)' /\ Unpushed(draft[u].out.into)'
    BY <1>1 DEF PushInv, Unpushed
  <2>5. \A p \in pushed' : /\ p.message \in 1..Len(messages') /\ messages'[p.message].text = p.text
                           /\ [turn |-> messages'[p.message].turn, text |-> p.text] \in replies'
    <3> SUFFICES ASSUME NEW p \in pushed
                 PROVE  /\ p.message \in 1..Len(messages') /\ messages'[p.message].text = p.text
                        /\ [turn |-> messages'[p.message].turn, text |-> p.text] \in replies
      BY <1>1
    <3>1. /\ p.message \in 1..Len(messages) /\ messages[p.message].text = p.text
          /\ [turn |-> messages[p.message].turn, text |-> p.text] \in replies
      BY DEF PushInv
    <3>2. messages'[p.message] = messages[p.message] /\ p.message \in 1..Len(messages')
      BY <2>2, <3>1
    <3>3. QED
      BY <3>1, <3>2
  <2>6. QED
    BY <1>1, <2>3, <2>4, <2>5 DEF PushInv
<1>4. QED
  BY <1>2, <1>3 DEF ItemFails

LEMMA PushNext ==
    ASSUME TurnAssumption, "text" \notin Overlap, TInv, PushInv, [Next]_vars PROVE PushInv'
<1>1. CASE UNCHANGED vars
  BY <1>1, PushSame DEF vars, turnVars, answerVars
<1>2. ASSUME NEW t \in Turns,
             BeginTurn(t) \/ SessionRecorded(t) \/ StatusCallback(t) \/ CardSent(t)
               \/ DispatchEnds(t) \/ TurnEnds(t)
      PROVE  PushInv'
  <2>1. UNCHANGED <<draft, awaiting, answerVars>>
    BY <1>2 DEF BeginTurn, SessionRecorded, StatusCallback, CardSent, DispatchEnds, TurnEnds, turnVars
  <2>2. \A u \in Turns : phase[u] = "running" /\ phase'[u] # "running" => awaiting[u] = 0
    BY <1>2 DEF BeginTurn, SessionRecorded, StatusCallback, CardSent, DispatchEnds, TurnEnds,
       turnVars, TInv, TypeOK
  <2>3. QED
    BY <2>1, <2>2, PushSame DEF answerVars
<1>3. ASSUME NEW t \in Turns, NEW x \in Tools,
             CloseTool(t, x) \/ \E c \in Calls : ItemArrives(t, x, c)
      PROVE  PushInv'
  <2>1. UNCHANGED <<turnVars, draft, answerVars>>
    BY <1>3 DEF CloseTool, ItemArrives
  <2>2. QED
    BY <2>1, PushSame DEF turnVars, answerVars
<1>4. ASSUME NEW c \in Calls, StartSent(c) \/ EndSent(c) PROVE PushInv'
  <2>1. UNCHANGED <<turnVars, draft, answerVars>>
    BY <1>4 DEF StartSent, EndSent
  <2>2. QED
    BY <2>1, PushSame DEF turnVars, answerVars
<1>5. QED
  BY <1>1, <1>2, <1>3, <1>4, PushDraft, PushDeliver, PushResolves, PushRejects, PushAnchor,
     PushGhost DEF Next

THEOREM PushInvariance == ASSUME "text" \notin Overlap PROVE Spec => []PushInv
<1>1. PushInv /\ TInv /\ TurnAssumption /\ [Next]_vars => PushInv'
  BY PushNext
<1>2. TurnAssumption
  BY TurnAssumption
<1>3. QED
  BY <1>1, <1>2, PushInit, TypeInvariance, PTL DEF Spec

\* If no partial text comes while deliver() is at work, only the text of a final reply is
\* ever sent with chat4000.push, whatever fails and however throttled edits, tool items and
\* turns interleave.
THEOREM OnlyFinalsPushed == ASSUME "text" \notin Overlap PROVE Spec => []PushedIsFinal
<1>1. PushInv => PushedIsFinal
  BY DEF PushInv, PushedIsFinal
<1>2. QED
  BY <1>1, PushInvariance, PTL

\* Under the same assumption, a message that was pushed is never edited again.
THEOREM PushedStands == ASSUME "text" \notin Overlap PROVE Spec => []FinalStands
<1>1. PushInv => FinalStands
  BY DEF PushInv, FinalStands
<1>2. QED
  BY <1>1, PushInvariance, PTL
-----------------------------------------------------------------------------
(* The tool bubbles, when the runtime handles a tool item to its end before the next and
   before the turn ends. *)

\* A bubble is its tool's, and shows an outcome, has lost an edit, or will get another one:
\* its tool is still open, or an item that closes it is being handled.  (A bubble whose
\* sendToolStart was rejected has no tool: it is lost from the start.)
Watched(i, x) ==
    LET r == tools[bubbles[i].turn][x]
    IN  /\ r.bubble = i
        /\ \/ r.status = "running" \/ bubbles[i].shown # "running" \/ bubbles[i].lost
           \/ \E c \in Calls : /\ call[c].at = "end" /\ call[c].turn = bubbles[i].turn
                               /\ call[c].tool = x

OneCall == \A c, k \in Calls : call[c].turn \in Turns /\ call[k].turn = call[c].turn => c = k
CallTools ==
    \A c \in Calls :
       LET r == tools[call[c].turn][call[c].tool]
       IN  /\ call[c].at \in {"anchor", "start"} => r = NoBubble
           /\ call[c].at = "end" => r = call[c].rec
BubbleOf ==
    \A t \in Turns, x \in Tools : tools[t][x] # NoBubble =>
       tools[t][x].bubble \in 1..Len(bubbles) /\ bubbles[tools[t][x].bubble].turn = t
AllWatched ==
    \A i \in 1..Len(bubbles) :
       bubbles[i].turn \in Turns /\ (bubbles[i].lost \/ \E x \in Tools : Watched(i, x))
NoneOpen ==
    \A t \in Turns : phase[t] \notin {"running", "closing"} =>
       \A x \in Tools : tools[t][x].status # "running"

SpinInv == OneCall /\ CallTools /\ BubbleOf /\ AllWatched /\ NoneOpen

LEMMA SpinInit == TurnAssumption /\ Init => SpinInv
BY DEF Init, SpinInv, OneCall, CallTools, BubbleOf, AllWatched, NoneOpen, NoCall, NoBubble,
   TurnAssumption

\* An edit of a bubble.
LEMMA EditFacts ==
    ASSUME TInv, NEW STATE r, r \in Recs, r.status # "none", EditBubble(r)
    PROVE  /\ Len(bubbles') = Len(bubbles) /\ Len(bubbles) \in Nat
           /\ \A i \in 1..Len(bubbles) :
                 /\ bubbles'[i].turn = bubbles[i].turn
                 /\ i # r.bubble => bubbles'[i] = bubbles[i]
                 /\ bubbles[i].lost => bubbles'[i].lost
                 /\ i = r.bubble => bubbles'[i].shown = r.status \/ bubbles'[i].lost
<1> DEFINE B == [turn : Turns, shown : {"running", "done"}, lost : BOOLEAN]
           b == r.bubble
<1>1. bubbles \in Seq(B) /\ r.status \in {"running", "done"}
  BY DEF Recs, TInv, TypeOK
<1>2. PICK v \in {[bubbles[b] EXCEPT !.shown = r.status], [bubbles[b] EXCEPT !.lost = TRUE]} :
         bubbles' = [bubbles EXCEPT ![b] = v]
  BY DEF EditBubble
<1>3. b \in 1..Len(bubbles) =>
         /\ v \in B /\ v.turn = bubbles[b].turn /\ (v.shown = r.status \/ v.lost)
         /\ (bubbles[b].lost => v.lost)
  <2>1. b \in 1..Len(bubbles) => bubbles[b] \in B
    <3> HIDE DEF B, b
    <3>1. QED
      BY <1>1, Element
  <2> HIDE DEF b
  <2>2. QED
    BY <1>1, <1>2, <2>1
<1> HIDE DEF B, b
<1>4. /\ Len(bubbles') = Len(bubbles) /\ Len(bubbles) \in Nat
      /\ \A k \in 1..Len(bubbles) : bubbles'[k] = IF k = b THEN v ELSE bubbles[k]
  <2>1. Len(bubbles) \in Nat
    BY <1>1
  <2>2. QED
    BY <1>1, <1>2, <1>3, <2>1, Replaced
<1>5. QED
  BY <1>3, <1>4 DEF b

LEMMA SpinNext ==
    ASSUME TurnAssumption, "items" \notin Overlap, TInv, QuietInv, SpinInv, [Next]_vars PROVE SpinInv'
<1> /\ phase \in [Turns -> Phases] /\ tools \in [Turns -> [Tools -> Recs]]
    /\ call \in [Calls -> CallTypes]
  BY DEF TInv, TypeOK, Phases, CallTypes
<1>1. ASSUME UNCHANGED toolVars,
             \A t \in Turns : phase'[t] \notin {"running", "closing"} =>
                \/ phase[t] \notin {"running", "closing"}
                \/ \A x \in Tools : tools[t][x].status # "running"
      PROVE  SpinInv'
  BY <1>1 DEF SpinInv, OneCall, CallTools, BubbleOf, AllWatched, NoneOpen, Watched, toolVars
<1>2. CASE UNCHANGED vars
  BY <1>1, <1>2 DEF vars, turnVars
<1>3. ASSUME NEW t \in Turns,
             StatusCallback(t) \/ PartialReply(t) \/ ThrottleFires(t) \/ SendResolves(t)
               \/ SendRejects(t) \/ CardSent(t) \/ DeliverNothing(t) \/ DeliverText(t)
      PROVE  SpinInv'
  BY <1>1, <1>3 DEF StatusCallback, PartialReply, ThrottleFires, SendResolves, SendRejects,
     CardSent, DeliverNothing, DeliverText, turnVars
<1>4. ASSUME NEW t \in Turns,
             BeginTurn(t) \/ SessionRecorded(t) \/ DispatchEnds(t) \/ Dispose(t) \/ TurnEnds(t)
      PROVE  SpinInv'
  <2>1. UNCHANGED toolVars
    BY <1>4 DEF BeginTurn, SessionRecorded, DispatchEnds, Dispose, TurnEnds
  <2>2. PICK p \in Phases : phase' = [phase EXCEPT ![t] = p]
    BY <1>4 DEF BeginTurn, SessionRecorded, DispatchEnds, Dispose, TurnEnds, Phases
  <2>3. \/ phase[t] \notin {"running", "closing"}
        \/ p = "closing"
        \/ \A x \in Tools : tools[t][x].status # "running"
    BY <1>4, <2>2 DEF BeginTurn, SessionRecorded, DispatchEnds, Dispose, TurnEnds
  <2>4. QED
    BY <1>1, <2>1, <2>2, <2>3
<1>5. ASSUME NEW t \in Turns, NEW x \in Tools, CloseTool(t, x) PROVE SpinInv'
  <2> DEFINE rec == [tools[t][x] EXCEPT !.status = "done"]
  <2>1. /\ tools[t][x] \in Recs /\ tools[t][x].status = "running" /\ tools[t][x] # NoBubble
        /\ phase[t] = "closing" /\ EditBubble(rec) /\ UNCHANGED <<phase, call>>
    BY <1>5 DEF CloseTool, NoBubble, turnVars
  <2>2. rec \in Recs /\ rec.status = "done" /\ rec.bubble = tools[t][x].bubble /\ rec # NoBubble
    BY <2>1 DEF Recs, NoBubble
  <2>3. tools' = [tools EXCEPT ![t] = [tools[t] EXCEPT ![x] = rec]]
    BY <1>5 DEF CloseTool
  <2> HIDE DEF rec
  <2>4. /\ tools'[t][x] = rec
        /\ \A u \in Turns, y \in Tools : u # t \/ y # x => tools'[u][y] = tools[u][y]
    BY <2>3
  <2>5. /\ Len(bubbles') = Len(bubbles) /\ Len(bubbles) \in Nat
        /\ \A i \in 1..Len(bubbles) :
              /\ bubbles'[i].turn = bubbles[i].turn
              /\ i # rec.bubble => bubbles'[i] = bubbles[i]
              /\ bubbles[i].lost => bubbles'[i].lost
              /\ i = rec.bubble => bubbles'[i].shown = "done" \/ bubbles'[i].lost
    BY <2>1, <2>2, EditFacts
  <2>6. NoCallOf(t)
    BY <2>1 DEF QuietInv
  <2>7. OneCall'
    BY <2>1 DEF SpinInv, OneCall
  <2>8. CallTools'
    BY <2>1, <2>4, <2>6 DEF SpinInv, CallTools, NoCallOf, TInv, CallInv, CallTypes
  <2>9. BubbleOf'
    BY <2>1, <2>2, <2>4, <2>5 DEF SpinInv, BubbleOf
  <2>10. AllWatched'
    <3> SUFFICES ASSUME NEW i \in 1..Len(bubbles), ~bubbles[i].lost
                 PROVE  bubbles'[i].turn \in Turns /\ \E y \in Tools : Watched(i, y)'
      BY <2>5 DEF SpinInv, AllWatched
    <3>1. bubbles[i].turn \in Turns /\ bubbles'[i].turn = bubbles[i].turn
      BY <2>5 DEF SpinInv, AllWatched
    <3>2. PICK y \in Tools : Watched(i, y)
      BY DEF SpinInv, AllWatched
    <3>3. tools'[bubbles[i].turn][y].bubble = i
      BY <2>2, <2>4, <3>1, <3>2 DEF Watched
    <3>4. CASE i = rec.bubble
      BY <2>5, <3>1, <3>3, <3>4 DEF Watched
    <3>5. CASE i # rec.bubble
      <4>1. bubbles'[i] = bubbles[i]
        BY <2>5, <3>5
      <4>2. tools'[bubbles[i].turn][y] = tools[bubbles[i].turn][y]
        BY <2>2, <2>4, <3>1, <3>2, <3>5 DEF Watched
      <4>3. QED
        BY <2>1, <3>1, <3>2, <4>1, <4>2 DEF Watched
    <3>6. QED
      BY <3>4, <3>5
  <2>11. NoneOpen'
    BY <2>1, <2>4 DEF SpinInv, NoneOpen
  <2>12. QED
    BY <2>7, <2>8, <2>9, <2>10, <2>11 DEF SpinInv
<1>6. ASSUME NEW t \in Turns, NEW x \in Tools, NEW c \in Calls, ItemArrives(t, x, c)
      PROVE  SpinInv'
  <2>1. /\ call[c].at = "free" /\ phase[t] = "running" /\ NoCallOf(t)
        /\ UNCHANGED <<phase, bubbles>>
    BY <1>6 DEF ItemArrives, Free, turnVars
  <2>2. PICK at \in {"anchor", "start", "end"}, ends \in BOOLEAN, rec \in Recs :
           /\ call' = [call EXCEPT ![c] = [at |-> at, turn |-> t, tool |-> x, ends |-> ends,
                                          rec |-> rec]]
           /\ tools' = [tools EXCEPT ![t] = [tools[t] EXCEPT ![x] = rec]]
           /\ rec.bubble = tools[t][x].bubble
           /\ \/ at # "end" /\ rec = NoBubble /\ tools[t][x] = NoBubble
              \/ at = "end" /\ tools[t][x] # NoBubble
    <3>1. CASE tools[t][x] = NoBubble
      <4>1. PICK at \in {"anchor", "start"}, ends \in BOOLEAN :
               call' = [call EXCEPT ![c] = [at |-> at, turn |-> t, tool |-> x, ends |-> ends,
                                            rec |-> NoBubble]]
        BY <1>6, <3>1 DEF ItemArrives
      <4>2. tools' = [tools EXCEPT ![t] = [tools[t] EXCEPT ![x] = NoBubble]]
        BY <1>6, <3>1 DEF ItemArrives
      <4>3. NoBubble \in Recs /\ at # "end"
        BY <3>1, <4>1
      <4>4. QED
        BY <3>1, <4>1, <4>2, <4>3
    <3>2. CASE tools[t][x] # NoBubble
      <4>1. PICK s \in {tools[t][x].status, "done"} :
               LET rec == [tools[t][x] EXCEPT !.status = s]
               IN  /\ tools' = [tools EXCEPT ![t][x] = rec]
                   /\ call' = [call EXCEPT ![c] = [at |-> "end", turn |-> t, tool |-> x,
                                                   ends |-> TRUE, rec |-> rec]]
        BY <1>6, <3>2 DEF ItemArrives
      <4> DEFINE rec == [tools[t][x] EXCEPT !.status = s]
      <4>2. tools[t][x] \in Recs
        OBVIOUS
      <4>3. rec \in Recs /\ rec.bubble = tools[t][x].bubble
        BY <4>1, <4>2 DEF Recs
      <4>4. /\ tools' = [tools EXCEPT ![t] = [tools[t] EXCEPT ![x] = rec]]
            /\ call' = [call EXCEPT ![c] = [at |-> "end", turn |-> t, tool |-> x,
                                            ends |-> TRUE, rec |-> rec]]
        BY <4>1
      <4> HIDE DEF rec
      <4>5. QED
        BY <3>2, <4>3, <4>4
    <3>3. QED
      BY <3>1, <3>2
  <2>3. /\ tools'[t][x] = rec
        /\ \A u \in Turns, y \in Tools : u # t \/ y # x => tools'[u][y] = tools[u][y]
    BY <2>2
  <2>4. /\ call'[c].turn = t /\ call'[c].tool = x /\ call'[c].at = at /\ call'[c].rec = rec
        /\ \A k \in Calls : k # c => call'[k] = call[k]
    BY <2>2
  <2>5. \A k \in Calls : call[k].turn # t
    BY <2>1 DEF NoCallOf
  <2>6. OneCall'
    BY <2>4, <2>5 DEF SpinInv, OneCall
  <2>7. CallTools'
    <3> SUFFICES ASSUME NEW k \in Calls
                 PROVE  LET r == tools'[call'[k].turn][call'[k].tool]
                        IN  /\ call'[k].at \in {"anchor", "start"} => r = NoBubble
                            /\ call'[k].at = "end" => r = call'[k].rec
      BY DEF CallTools
    <3>1. CASE k = c
      BY <2>2, <2>3, <2>4, <3>1
    <3>2. CASE k # c
      <4>1. call'[k] = call[k] /\ call[k].turn # t
        BY <2>4, <2>5, <3>2
      <4>2. call[k].at # "free" => tools'[call[k].turn][call[k].tool] = tools[call[k].turn][call[k].tool]
        BY <2>3, <4>1 DEF TInv, CallInv
      <4>3. QED
        BY <4>1, <4>2 DEF SpinInv, CallTools
    <3>3. QED
      BY <3>1, <3>2
  <2>8. BubbleOf'
    BY <2>1, <2>2, <2>3 DEF SpinInv, BubbleOf
  <2>9. AllWatched'
    <3> SUFFICES ASSUME NEW i \in 1..Len(bubbles), ~bubbles[i].lost
                 PROVE  bubbles[i].turn \in Turns /\ \E y \in Tools : Watched(i, y)'
      BY <2>1 DEF SpinInv, AllWatched
    <3>1. bubbles[i].turn \in Turns
      BY DEF SpinInv, AllWatched
    <3>2. PICK y \in Tools : Watched(i, y)
      BY DEF SpinInv, AllWatched
    <3>3. tools'[bubbles[i].turn][y].bubble = i
      BY <2>2, <2>3, <3>1, <3>2 DEF Watched
    <3>4. CASE bubbles[i].turn = t /\ y = x
      <4>1. tools[t][x].bubble = i /\ i # 0
        BY <3>2, <3>4 DEF Watched
      <4>2. at = "end"
        BY <2>2, <4>1 DEF NoBubble
      <4>3. Watched(i, x)'
        BY <2>1, <2>4, <3>3, <3>4, <4>2 DEF Watched
      <4>4. QED
        BY <3>1, <4>3
    <3>5. CASE ~(bubbles[i].turn = t /\ y = x)
      <4>1. tools'[bubbles[i].turn][y] = tools[bubbles[i].turn][y]
        BY <2>3, <3>1, <3>5
      <4>2. \A k \in Calls : call[k].at = "end" => call'[k] = call[k]
        BY <2>1, <2>4
      <4>3. Watched(i, y)'
        BY <2>1, <3>2, <4>1, <4>2 DEF Watched
      <4>4. QED
        BY <3>1, <4>3
    <3>6. QED
      BY <3>1, <3>4, <3>5
  <2>10. NoneOpen'
    BY <2>1, <2>3 DEF SpinInv, NoneOpen
  <2>11. QED
    BY <2>6, <2>7, <2>8, <2>9, <2>10 DEF SpinInv
<1>7. ASSUME NEW c \in Calls, AnchorSent(c) \/ ItemFails(c) PROVE SpinInv'
  <2>1. /\ call[c].at \in {"anchor", "start"} /\ UNCHANGED <<phase, tools>>
        /\ \/ call' = [call EXCEPT ![c] = [call[c] EXCEPT !.at = "start"]]
           \/ call' = [call EXCEPT ![c] = NoCall]
    BY <1>7 DEF AnchorSent, ItemFails, turnVars
  <2>2. /\ \A k \in Calls : k # c => call'[k] = call[k]
        /\ \/ /\ call'[c].at = "start" /\ call'[c].turn = call[c].turn
              /\ call'[c].tool = call[c].tool
           \/ call'[c].at = "free" /\ call'[c].turn = None
    BY <2>1 DEF NoCall, CallTypes
  <2>3. OneCall'
    BY <2>2 DEF TurnAssumption, SpinInv, OneCall
  <2>4. CallTools'
    BY <2>1, <2>2 DEF SpinInv, CallTools
  <2>5. /\ Len(bubbles) \in Nat /\ Len(bubbles') \in {Len(bubbles), Len(bubbles) + 1}
        /\ \A i \in 1..Len(bubbles) : bubbles'[i] = bubbles[i]
        /\ \A i \in 1..Len(bubbles') : i \notin 1..Len(bubbles) =>
              bubbles'[i].turn \in Turns /\ bubbles'[i].lost
    <3> DEFINE B == [turn : Turns, shown : {"running", "done"}, lost : BOOLEAN]
               b == [turn |-> call[c].turn, shown |-> "running", lost |-> TRUE]
    <3>1. bubbles \in Seq(B) /\ Len(bubbles) \in Nat
      BY DEF TInv, TypeOK
    <3>2. b \in B /\ b.turn \in Turns /\ b.lost
      BY <2>1 DEF TInv, CallInv
    <3>3. bubbles' = bubbles \/ bubbles' = Append(bubbles, b)
      BY <1>7 DEF AnchorSent, ItemFails
    <3> HIDE DEF B, b
    <3>4. CASE bubbles' = bubbles
      BY <3>1, <3>4
    <3>5. CASE bubbles' = Append(bubbles, b)
      <4>1. /\ Len(bubbles') = Len(bubbles) + 1 /\ bubbles'[Len(bubbles) + 1] = b
            /\ \A k \in 1..Len(bubbles) : bubbles'[k] = bubbles[k]
        BY <3>1, <3>2, <3>5, Appended
      <4>2. QED
        BY <3>1, <3>2, <4>1
    <3>6. QED
      BY <3>3, <3>4, <3>5
  <2>6. BubbleOf'
    BY <2>1, <2>5 DEF SpinInv, BubbleOf
  <2>7. NoneOpen'
    BY <2>1 DEF SpinInv, NoneOpen
  <2>8. AllWatched'
    <3> SUFFICES ASSUME NEW i \in 1..Len(bubbles), ~bubbles[i].lost
                 PROVE  \E y \in Tools : Watched(i, y)'
      BY <2>5 DEF SpinInv, AllWatched
    <3>1. PICK y \in Tools : Watched(i, y)
      BY DEF SpinInv, AllWatched
    <3>2. bubbles'[i] = bubbles[i] /\ \A k \in Calls : call[k].at = "end" => call'[k] = call[k]
      BY <2>1, <2>2, <2>5
    <3>3. Watched(i, y)'
      BY <2>1, <3>1, <3>2 DEF Watched
    <3>4. QED
      BY <3>3
  <2>9. QED
    BY <2>3, <2>4, <2>6, <2>7, <2>8 DEF SpinInv
<1>8. ASSUME NEW c \in Calls, StartSent(c) PROVE SpinInv'
  <2>1. call[c].at = "start" /\ UNCHANGED phase /\ Len(bubbles) \in Nat
    BY <1>8 DEF StartSent, turnVars, TInv, TypeOK
  <2>2. PICK t \in Turns, x \in Tools : call[c].turn = t /\ call[c].tool = x /\ tools[t][x] = NoBubble
    BY <2>1 DEF TInv, CallInv, SpinInv, CallTools
  <2>3. PICK new \in Nat : new = Len(bubbles) + 1
    BY <2>1
  <2>4. PICK s \in {"running", "done"} :
           LET rec == [bubble |-> new, status |-> s]
           IN  /\ ~call[c].ends => s = "running"
               /\ tools' = [tools EXCEPT ![t] = [tools[t] EXCEPT ![x] = rec]]
               /\ call' = [call EXCEPT ![c] = IF call[c].ends
                                              THEN [call[c] EXCEPT !.at = "end", !.rec = rec]
                                              ELSE NoCall]
    BY <1>8, <2>2, <2>3 DEF StartSent
  <2> DEFINE rec == [bubble |-> new, status |-> s]
  <2>5. rec \in Recs /\ rec.bubble = new /\ rec.status = s
    BY <2>4 DEF Recs
  <2>6. /\ tools' = [tools EXCEPT ![t] = [tools[t] EXCEPT ![x] = rec]]
        /\ call' = [call EXCEPT ![c] = IF call[c].ends
                                       THEN [call[c] EXCEPT !.at = "end", !.rec = rec] ELSE NoCall]
    BY <2>4
  <2> HIDE DEF rec
  <2>7. /\ tools'[t][x] = rec
        /\ \A u \in Turns, y \in Tools : u # t \/ y # x => tools'[u][y] = tools[u][y]
    BY <2>6
  <2>8. /\ \A k \in Calls : k # c => call'[k] = call[k]
        /\ \/ /\ call'[c].at = "end" /\ call'[c].turn = t /\ call'[c].tool = x
              /\ call'[c].rec = rec
           \/ call'[c].at = "free" /\ call'[c].turn = None /\ s = "running"
    <3>1. CASE call[c].ends
      BY <2>2, <2>6, <3>1 DEF CallTypes
    <3>2. CASE ~call[c].ends
      BY <2>4, <2>6, <3>2 DEF NoCall
    <3>3. QED
      BY <3>1, <3>2
  <2>9. /\ Len(bubbles') = new /\ bubbles'[new].turn = t
        /\ \A i \in 1..Len(bubbles) : bubbles'[i] = bubbles[i]
    <3> DEFINE B == [turn : Turns, shown : {"running", "done"}, lost : BOOLEAN]
               b == [turn |-> t, shown |-> "running", lost |-> FALSE]
    <3>1. bubbles' = Append(bubbles, b) /\ bubbles \in Seq(B) /\ b \in B /\ b.turn = t
      BY <1>8, <2>2 DEF StartSent, TInv, TypeOK
    <3> HIDE DEF B, b
    <3>2. QED
      BY <2>3, <3>1, Appended
  <2>10. phase[t] = "running" /\ \A k \in Calls : k # c => call[k].turn # t
    BY <2>2 DEF QuietInv, NoCallOf, SpinInv, OneCall
  <2>11. OneCall'
    BY <2>8, <2>10 DEF TurnAssumption, SpinInv, OneCall
  <2>12. CallTools'
    <3> SUFFICES ASSUME NEW k \in Calls
                 PROVE  LET r == tools'[call'[k].turn][call'[k].tool]
                        IN  /\ call'[k].at \in {"anchor", "start"} => r = NoBubble
                            /\ call'[k].at = "end" => r = call'[k].rec
      BY DEF CallTools
    <3>1. CASE k = c
      BY <2>7, <2>8, <3>1
    <3>2. CASE k # c
      <4>1. call'[k] = call[k] /\ call[k].turn # t
        BY <2>8, <2>10, <3>2
      <4>2. call[k].at # "free" => tools'[call[k].turn][call[k].tool] = tools[call[k].turn][call[k].tool]
        BY <2>7, <4>1 DEF TInv, CallInv
      <4>3. QED
        BY <4>1, <4>2 DEF SpinInv, CallTools
    <3>3. QED
      BY <3>1, <3>2
  <2>13. BubbleOf'
    <3> SUFFICES ASSUME NEW u \in Turns, NEW y \in Tools, tools'[u][y] # NoBubble
                 PROVE  /\ tools'[u][y].bubble \in 1..Len(bubbles')
                        /\ bubbles'[tools'[u][y].bubble].turn = u
      BY DEF BubbleOf
    <3>1. CASE u = t /\ y = x
      BY <2>1, <2>3, <2>5, <2>7, <2>9, <3>1
    <3>2. CASE u # t \/ y # x
      <4>1. tools'[u][y] = tools[u][y]
        BY <2>7, <3>2
      <4>2. tools[u][y].bubble \in 1..Len(bubbles) /\ bubbles[tools[u][y].bubble].turn = u
        BY <4>1 DEF SpinInv, BubbleOf
      <4>3. QED
        BY <2>1, <2>3, <2>9, <4>1, <4>2
    <3>3. QED
      BY <3>1, <3>2
  <2>14. NoneOpen'
    BY <2>1, <2>7, <2>10 DEF SpinInv, NoneOpen
  <2>15. AllWatched'
    <3> SUFFICES ASSUME NEW i \in 1..new
                 PROVE  /\ bubbles'[i].turn \in Turns
                        /\ bubbles'[i].lost \/ \E y \in Tools : Watched(i, y)'
      BY <2>9 DEF AllWatched
    <3>1. CASE i = new
      <4>1. bubbles'[i].turn = t /\ tools'[t][x].bubble = i /\ tools'[t][x].status = s
        BY <2>5, <2>7, <2>9, <3>1
      <4>2. Watched(i, x)'
        BY <2>8, <4>1 DEF Watched
      <4>3. QED
        BY <4>1, <4>2
    <3>2. CASE i # new /\ bubbles[i].lost
      BY <2>1, <2>3, <2>9, <3>2 DEF SpinInv, AllWatched
    <3>3. CASE i # new /\ ~bubbles[i].lost
      <4>1. i \in 1..Len(bubbles) /\ bubbles'[i] = bubbles[i]
        BY <2>1, <2>3, <2>9, <3>3
      <4>2. bubbles[i].turn \in Turns
        BY <4>1 DEF SpinInv, AllWatched
      <4>3. PICK y \in Tools : Watched(i, y)
        BY <3>3, <4>1 DEF SpinInv, AllWatched
      <4>4. bubbles[i].turn # t \/ y # x
        BY <2>2, <4>1, <4>3 DEF Watched, NoBubble
      <4>5. tools'[bubbles[i].turn][y] = tools[bubbles[i].turn][y]
        BY <2>7, <4>2, <4>4
      <4>6. \A k \in Calls : call[k].at = "end" => call'[k] = call[k]
        BY <2>1, <2>8
      <4>7. Watched(i, y)'
        BY <4>1, <4>3, <4>5, <4>6 DEF Watched
      <4>8. QED
        BY <4>1, <4>2, <4>7
    <3>4. QED
      BY <3>1, <3>2, <3>3
  <2>16. QED
    BY <2>11, <2>12, <2>13, <2>14, <2>15 DEF SpinInv
<1>9. ASSUME NEW c \in Calls, EndSent(c) PROVE SpinInv'
  <2>1. /\ call[c].at = "end" /\ UNCHANGED <<phase, tools>>
        /\ call' = [call EXCEPT ![c] = NoCall]
    BY <1>9 DEF EndSent, turnVars
  <2>2. PICK t \in Turns, x \in Tools, rec \in Recs :
           /\ call[c].turn = t /\ call[c].tool = x /\ call[c].rec = rec
           /\ rec.status # "none" /\ tools[t][x] = rec /\ EditBubble(rec)
    <3>1. /\ call[c].turn \in Turns /\ call[c].tool \in Tools /\ call[c].rec \in Recs
          /\ call[c].rec.status # "none" /\ tools[call[c].turn][call[c].tool] = call[c].rec
      BY <2>1 DEF CallTypes, TInv, CallInv, SpinInv, CallTools
    <3>2. EditBubble(call[c].rec)
      BY <1>9 DEF EndSent
    <3>3. QED
      BY <3>1, <3>2
  <2>3. rec.bubble \in 1..Len(bubbles) /\ bubbles[rec.bubble].turn = t
    BY <2>2 DEF NoBubble, SpinInv, BubbleOf
  <2>4. /\ Len(bubbles') = Len(bubbles) /\ Len(bubbles) \in Nat
        /\ \A i \in 1..Len(bubbles) :
              /\ bubbles'[i].turn = bubbles[i].turn
              /\ i # rec.bubble => bubbles'[i] = bubbles[i]
              /\ bubbles[i].lost => bubbles'[i].lost
              /\ i = rec.bubble => bubbles'[i].shown = rec.status \/ bubbles'[i].lost
    BY <2>1, <2>2, EditFacts
  <2>5. /\ \A k \in Calls : k # c => call'[k] = call[k]
        /\ call'[c].at = "free" /\ call'[c].turn = None
    BY <2>1 DEF NoCall
  <2>6. OneCall'
    BY <2>5 DEF TurnAssumption, SpinInv, OneCall
  <2>7. CallTools'
    BY <2>1, <2>5 DEF SpinInv, CallTools
  <2>8. BubbleOf'
    BY <2>1, <2>4 DEF SpinInv, BubbleOf
  <2>9. NoneOpen'
    BY <2>1 DEF SpinInv, NoneOpen
  <2>10. AllWatched'
    <3> SUFFICES ASSUME NEW i \in 1..Len(bubbles), ~bubbles[i].lost
                 PROVE  bubbles'[i].turn \in Turns /\ \E y \in Tools : Watched(i, y)'
      BY <2>4 DEF SpinInv, AllWatched
    <3>1. bubbles[i].turn \in Turns /\ bubbles'[i].turn = bubbles[i].turn
      BY <2>4 DEF SpinInv, AllWatched
    <3>2. CASE i = rec.bubble
      <4>1. tools'[bubbles'[i].turn][x] = rec
        BY <2>1, <2>2, <2>3, <3>1, <3>2
      <4>2. bubbles'[i].shown = rec.status \/ bubbles'[i].lost
        BY <2>4, <3>2
      <4>3. Watched(i, x)'
        BY <3>2, <4>1, <4>2 DEF Watched
      <4>4. QED
        BY <2>2, <3>1, <4>3
    <3>3. CASE i # rec.bubble
      <4>1. PICK y \in Tools : Watched(i, y)
        BY DEF SpinInv, AllWatched
      <4>2. bubbles'[i] = bubbles[i] /\ tools' = tools
        BY <2>1, <2>4, <3>3
      <4>3. ~(bubbles[i].turn = t /\ y = x)
        BY <2>2, <3>3, <4>1 DEF Watched
      <4>4. \A k \in Calls : call[k].turn = bubbles[i].turn /\ call[k].tool = y => call'[k] = call[k]
        BY <2>2, <2>5, <4>3
      <4>5. Watched(i, y)'
        BY <4>1, <4>2, <4>4 DEF Watched
      <4>6. QED
        BY <3>1, <4>5
    <3>4. QED
      BY <3>2, <3>3
  <2>11. QED
    BY <2>6, <2>7, <2>8, <2>9, <2>10 DEF SpinInv
<1>10. QED
  BY <1>2, <1>3, <1>4, <1>5, <1>6, <1>7, <1>8, <1>9 DEF Next
\* If the runtime waits for every tool item, no tool bubble of a turn that has ended is left
\* spinning, but for one of which a send or an edit was rejected.
THEOREM BubblesClosed == ASSUME "items" \notin Overlap PROVE Spec => []NoEternalSpinner
<1>1. TInv /\ QuietInv /\ SpinInv => NoEternalSpinner
  <2> SUFFICES ASSUME TInv, QuietInv, SpinInv, NEW i \in DOMAIN bubbles,
                      phase[bubbles[i].turn] \in {"draining", "over"}, ~bubbles[i].lost
               PROVE  bubbles[i].shown # "running"
    BY DEF NoEternalSpinner
  <2>1. i \in 1..Len(bubbles)
    BY DEF TInv, TypeOK
  <2>2. bubbles[i].turn \in Turns /\ \E x \in Tools : Watched(i, x)
    BY <2>1 DEF SpinInv, AllWatched
  <2>3. PICK x \in Tools : Watched(i, x)
    BY <2>2
  <2>4. NoCallOf(bubbles[i].turn) /\ tools[bubbles[i].turn][x].status # "running"
    BY <2>2, <2>3 DEF QuietInv, SpinInv, NoneOpen
  <2>5. QED
    BY <2>3, <2>4 DEF Watched, NoCallOf
<1>2. /\ QuietInv /\ TInv /\ TurnAssumption /\ [Next]_vars => QuietInv'
      /\ SpinInv /\ QuietInv /\ TInv /\ TurnAssumption /\ [Next]_vars => SpinInv'
  BY QuietNext, SpinNext
<1>3. TurnAssumption
  BY TurnAssumption
<1>4. QED
  BY <1>1, <1>2, <1>3, QuietInit, SpinInit, TypeInvariance, PTL DEF Spec
-----------------------------------------------------------------------------
(* What the user reads, when the runtime waits for deliver() and for every tool item. *)

Read == <<[t \in Turns |-> Stage(t)], messages, pushed, replies>>

LEMMA ReadSame ==
    ASSUME UNCHANGED <<phase, messages, pushed, replies>> PROVE UNCHANGED Read
BY DEF Read, Stage

\* A turn moves on and leaves the room alone.
LEMMA ReadMoves ==
    ASSUME TInv, NEW t \in Turns, NEW p \in Phases, phase' = [phase EXCEPT ![t] = p],
           UNCHANGED <<messages, pushed, replies>>,
           \/ phase[t] = "none" /\ p = "recording"
           \/ phase[t] \in {"recording", "running", "closing"} /\ p \in {"running", "closing", "draining"}
           \/ phase[t] \in {"recording", "draining"} /\ p = "over"
    PROVE  Reading!Next \/ UNCHANGED Read
<1> DEFINE stage == [u \in Turns |-> Stage(u)]
<1>1. phase \in [Turns -> Phases] /\ phase' \in [Turns -> Phases] /\ phase'[t] = p
      /\ \A u \in Turns : u # t => phase'[u] = phase[u]
  BY DEF TInv, TypeOK, Phases
<1>2. CASE phase[t] = "none" /\ p = "recording"
  <2>1. stage[t] = "new" /\ stage' = [stage EXCEPT ![t] = "open"]
    BY <1>1, <1>2 DEF Stage
  <2>2. Reading!Begins(t)
    BY <2>1 DEF Reading!Begins
  <2>3. QED
    BY <2>2 DEF Reading!Next
<1>3. CASE phase[t] \in {"recording", "running", "closing"} /\ p \in {"running", "closing", "draining"}
  <2>1. stage' = stage
    BY <1>1, <1>3 DEF Stage
  <2>2. QED
    BY <2>1 DEF Read
<1>4. CASE phase[t] \in {"recording", "draining"} /\ p = "over"
  <2>1. stage[t] = "open" /\ stage' = [stage EXCEPT ![t] = "over"]
    BY <1>1, <1>4 DEF Stage
  <2>2. Reading!Ends(t)
    BY <2>1 DEF Reading!Ends
  <2>3. QED
    BY <2>2 DEF Reading!Next
<1>5. QED
  BY <1>2, <1>3, <1>4

LEMMA ReadPhase ==
    ASSUME TInv, NEW t \in Turns,
           BeginTurn(t) \/ SessionRecorded(t) \/ DispatchEnds(t) \/ Dispose(t) \/ TurnEnds(t)
    PROVE  Reading!Next \/ UNCHANGED Read
<1>1. UNCHANGED <<messages, pushed, replies>>
  BY DEF BeginTurn, SessionRecorded, DispatchEnds, Dispose, TurnEnds, answerVars
<1>2. PICK p \in Phases :
         /\ phase' = [phase EXCEPT ![t] = p]
         /\ \/ phase[t] = "none" /\ p = "recording"
            \/ phase[t] \in {"recording", "running", "closing"} /\ p \in {"running", "closing", "draining"}
            \/ phase[t] \in {"recording", "draining"} /\ p = "over"
  <2>1. CASE BeginTurn(t)
    <3>1. phase[t] = "none" /\ phase' = [phase EXCEPT ![t] = "recording"]
      BY <2>1 DEF BeginTurn
    <3>2. QED
      BY <3>1 DEF Phases
  <2>2. CASE SessionRecorded(t)
    <3>1. phase[t] = "recording" /\ \E q \in {"running", "over"} : phase' = [phase EXCEPT ![t] = q]
      BY <2>2 DEF SessionRecorded
    <3>2. QED
      BY <3>1 DEF Phases
  <2>3. CASE DispatchEnds(t)
    <3>1. phase[t] = "running" /\ phase' = [phase EXCEPT ![t] = "closing"]
      BY <2>3 DEF DispatchEnds
    <3>2. QED
      BY <3>1 DEF Phases
  <2>4. CASE Dispose(t)
    <3>1. phase[t] = "closing" /\ phase' = [phase EXCEPT ![t] = "draining"]
      BY <2>4 DEF Dispose
    <3>2. QED
      BY <3>1 DEF Phases
  <2>5. CASE TurnEnds(t)
    <3>1. phase[t] = "draining" /\ phase' = [phase EXCEPT ![t] = "over"]
      BY <2>5 DEF TurnEnds
    <3>2. QED
      BY <3>1 DEF Phases
  <2>6. QED
    BY <2>1, <2>2, <2>3, <2>4, <2>5
<1>3. QED
  BY <1>1, <1>2, ReadMoves

\* A final text is handed to deliver().
LEMMA ReadDeliver ==
    ASSUME TurnAssumption, TInv, NEW t \in Turns, DeliverText(t) PROVE Reading!Next
<1>1. PICK n \in 1..MaxText : replies' = replies \cup {[turn |-> t, text |-> n]}
  BY DEF DeliverText
<1>2. phase[t] = "running" /\ UNCHANGED <<phase, messages, pushed>>
  BY DEF DeliverText
<1>3. [u \in Turns |-> Stage(u)][t] = "open" /\ UNCHANGED [u \in Turns |-> Stage(u)]
  BY <1>2 DEF Stage
<1>4. n \in Texts
  BY Consts
<1>5. Reading!Replies(t, n)
  BY <1>1, <1>2, <1>3 DEF Reading!Replies
<1>6. QED
  BY <1>4, <1>5 DEF Reading!Next

\* A send of the draft has reached the room: a draft, or the final text deliver() waits for.
LEMMA ReadCarried ==
    ASSUME TurnAssumption, TInv, QuietInv, PushInv, NEW t \in Turns,
           draft[t].out # NoSend, CarriedOut(t), UNCHANGED <<phase, replies>>
    PROVE  Reading!Next
<1> DEFINE out == draft[t].out
<1>1. PICK at \in Nat \ {0} :
         /\ out # NoSend /\ out \in Outs
         /\ \/ /\ out.into = 0 /\ at = Len(messages) + 1
               /\ messages' = Append(messages, [turn |-> t, text |-> out.text])
            \/ /\ out.into # 0 /\ at = out.into
               /\ messages' = [messages EXCEPT ![at] = [messages[at] EXCEPT !.text = out.text]]
         /\ pushed' = IF out.final THEN pushed \cup {[message |-> at, text |-> out.text]} ELSE pushed
  <2>1. Place(t) \in Nat \ {0}
    BY CarriedFacts DEF TInv
  <2>2. QED
    BY <2>1, CarriedFacts DEF TInv
<1>2. UNCHANGED <<phase, replies>>
  OBVIOUS
<1>3. phase[t] \notin {"none", "over"}
  BY <1>1 DEF QuietInv, Drained
<1>4. [u \in Turns |-> Stage(u)][t] = "open" /\ UNCHANGED [u \in Turns |-> Stage(u)]
  BY <1>2, <1>3 DEF Stage
<1>5. out.into # 0 => out.into \in 1..Len(messages) /\ messages[out.into].turn = t /\ Unpushed(out.into)
  BY DEF PushInv, Ours
<1>6. out.final => [turn |-> t, text |-> out.text] \in replies
  BY DEF PushInv, QueueOK
<1> HIDE DEF out
<1>7. out.text \in Texts /\ DOMAIN messages = 1..Len(messages) /\ Len(messages) \in Nat
  BY <1>1 DEF Outs, TInv, TypeOK
<1>8. Reading!Writes(t, at, out.text)
  BY <1>1, <1>2, <1>4, <1>5, <1>7 DEF Reading!Writes, Unpushed
<1>9. at \in 1..Len(messages) + 1
  BY <1>1, <1>5, <1>7
<1>10. Reading!Draft(t, at, out.text) \/ Reading!Final(t, at, out.text)
  BY <1>1, <1>6, <1>8 DEF Reading!Draft, Reading!Final
<1>11. QED
  BY <1>7, <1>9, <1>10 DEF Reading!Next

\* A placeholder has reached the room.
LEMMA ReadAnchor ==
    ASSUME TurnAssumption, TInv, QuietInv, NEW c \in Calls,
           call[c].at = "anchor", UNCHANGED <<phase, pushed, replies>>,
           messages' = Append(messages, [turn |-> call[c].turn, text |-> Dots])
    PROVE  Reading!Next
<1> DEFINE t == call[c].turn
<1>1. /\ call[c].at = "anchor" /\ UNCHANGED <<phase, pushed, replies>>
      /\ messages' = Append(messages, [turn |-> t, text |-> Dots])
  OBVIOUS
<1>2. t \in Turns /\ phase[t] = "running"
  BY <1>1 DEF TInv, CallInv, QuietInv, NoCallOf
<1> HIDE DEF t
<1>3. [u \in Turns |-> Stage(u)][t] = "open" /\ UNCHANGED [u \in Turns |-> Stage(u)]
  BY <1>1, <1>2 DEF Stage
<1>4. Dots \in Texts /\ Len(messages) + 1 \in 1..Len(messages) + 1
  BY Consts DEF TInv, TypeOK
<1>5. Reading!Draft(t, Len(messages) + 1, Dots)
  BY <1>1, <1>3 DEF Reading!Draft, Reading!Writes
<1>6. QED
  BY <1>2, <1>4, <1>5 DEF Reading!Next

\* Everything else leaves what the user reads as it is.
LEMMA ReadStep ==
    ASSUME TurnAssumption, TInv, QuietInv, PushInv, [Next]_vars
    PROVE  Reading!Next \/ UNCHANGED Read
<1>1. CASE UNCHANGED vars
  BY <1>1, ReadSame DEF vars, turnVars, answerVars
<1>2. ASSUME NEW t \in Turns,
             StatusCallback(t) \/ PartialReply(t) \/ CardSent(t) \/ DeliverNothing(t)
               \/ ThrottleFires(t) \/ (SendRejects(t) /\ UNCHANGED <<messages, pushed>>)
      PROVE  UNCHANGED Read
  <2>1. UNCHANGED <<phase, messages, pushed, replies>>
    BY <1>2 DEF StatusCallback, PartialReply, CardSent, DeliverNothing, ThrottleFires,
       SendRejects, turnVars, answerVars
  <2>2. QED
    BY <2>1, ReadSame
<1>3. ASSUME NEW t \in Turns, NEW x \in Tools,
             CloseTool(t, x) \/ \E c \in Calls : ItemArrives(t, x, c)
      PROVE  UNCHANGED Read
  <2>1. UNCHANGED <<turnVars, answerVars>>
    BY <1>3 DEF CloseTool, ItemArrives
  <2>2. QED
    BY <2>1, ReadSame DEF turnVars, answerVars
<1>4. ASSUME NEW c \in Calls, StartSent(c) \/ EndSent(c) PROVE UNCHANGED Read
  <2>1. UNCHANGED <<turnVars, answerVars>>
    BY <1>4 DEF StartSent, EndSent
  <2>2. QED
    BY <2>1, ReadSame DEF turnVars, answerVars
<1>5. ASSUME NEW t \in Turns, SendResolves(t) \/ (SendRejects(t) /\ CarriedOut(t)) PROVE Reading!Next
  <2>1. draft[t].out # NoSend /\ CarriedOut(t) /\ UNCHANGED <<phase, replies>>
    BY <1>5 DEF SendResolves, SendRejects
  <2>2. QED
    BY <2>1, ReadCarried
<1>6. ASSUME NEW c \in Calls, AnchorSent(c) \/ ItemFails(c) PROVE Reading!Next \/ UNCHANGED Read
  <2>1. UNCHANGED <<phase, pushed, replies>>
    BY <1>6 DEF AnchorSent, ItemFails, turnVars
  <2>2. CASE UNCHANGED messages
    BY <2>1, <2>2, ReadSame
  <2>3. CASE ~UNCHANGED messages
    <3>1. call[c].at = "anchor" /\ messages' = Append(messages, [turn |-> call[c].turn, text |-> Dots])
      BY <1>6, <2>3 DEF AnchorSent, ItemFails
    <3>2. QED
      BY <2>1, <3>1, ReadAnchor
  <2>4. QED
    BY <2>2, <2>3
<1>7. \A t \in Turns : SendRejects(t) => CarriedOut(t) \/ UNCHANGED <<messages, pushed>>
  BY DEF SendRejects
<1>8. QED
  BY <1>1, <1>2, <1>3, <1>4, <1>5, <1>6, <1>7, ReadPhase, ReadDeliver DEF Next

LEMMA ReadInit == ASSUME Init PROVE Reading!Init
BY DEF Init, Reading!Init, Stage

\* If the runtime waits for deliver() and for every tool item, the user reads what
\* Conversation says, however many turns share the room: a turn writes only while it is
\* under way, only its own messages, and none that has been pushed.
THEOREM ImplementsConversation ==
    ASSUME "text" \notin Overlap, "items" \notin Overlap PROVE Spec => RefinesConversation
<1>1. Init => Reading!Init
  BY ReadInit
<1>2. TInv /\ QuietInv /\ PushInv /\ [Next]_vars => [Reading!Next]_Read
  BY ReadStep, TurnAssumption
<1>3. TInv /\ QuietInv /\ TurnAssumption /\ [Next]_vars => QuietInv'
  BY QuietNext
<1>4. TurnAssumption
  BY TurnAssumption
<1>5. QED
  BY <1>1, <1>2, <1>3, <1>4, QuietInit, TypeInvariance, PushInvariance, PTL
     DEF Spec, RefinesConversation, Reading!Spec, Read
=============================================================================
