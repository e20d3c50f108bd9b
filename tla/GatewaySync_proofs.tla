------------------------- MODULE GatewaySync_proofs -------------------------
(***************************************************************************)
(* Proofs about GatewaySync: its type invariant; that no room key is       *)
(* deleted by the homeserver, nor passed by a durable cursor, before it is *)
(* on disk; that the transport implements KeyCustody; and that an ack      *)
(* echoes the frame it is for.                                             *)
(***************************************************************************)
EXTENDS GatewaySync, TLAPS

-----------------------------------------------------------------------------
(* The inductive invariant. *)

\* Keys that are on disk, or given up: discarded at a full backlog, or passed unsaved.
Safe == snapshot \cup overrun \cup blind

\* Keys the SDK has, or is about to have.
Known == store \cup inHand \cup overrun \cup blind

\* The SDK holds a frame only while it processes it, waits only for an empty
\* backlog, and an acknowledged flush is awaited exactly while it sleeps.
LoopInv ==
    /\ sdk # "processing" => inHand = {}
    /\ sdk = "waiting" => syncQueue = <<>>
    /\ \A i \in DOMAIN dumps : dumps[i].by = "ack" => sdk = "flushing"
    /\ \A i, j \in DOMAIN dumps : dumps[i].by = "ack" /\ dumps[j].by = "ack" => i = j

\* Snapshots only grow: on disk, then those being taken, then the store.
DumpInv ==
    /\ snapshot \subseteq store
    /\ \A i \in DOMAIN dumps : snapshot \subseteq dumps[i].keys /\ dumps[i].keys \subseteq store
    /\ \A i, j \in DOMAIN dumps : i <= j => dumps[i].keys \subseteq dumps[j].keys

\* What a frame's cursor covers is known, or carried by it or an earlier frame.
FlowInv ==
    /\ \A i \in DOMAIN syncQueue : \A k \in KeysUpTo(syncQueue[i].td) :
          k \in Known \/ \E j \in 1..i : k \in syncQueue[j].keys
    /\ \A i \in DOMAIN down : \A k \in KeysUpTo(down[i].td) :
          \/ k \in Known
          \/ \E j \in DOMAIN syncQueue : k \in syncQueue[j].keys
          \/ \E j \in 1..i : k \in down[j].keys
    /\ \A k \in KeysUpTo(since) :
          \/ k \in Known
          \/ \E j \in DOMAIN syncQueue : k \in syncQueue[j].keys
          \/ \E j \in DOMAIN down : k \in down[j].keys

\* The batch to ack covers known keys, and says whether it has any of its own; the
\* snapshot a flush waits for covers the batch being flushed.
BatchInv ==
    /\ pendingAck.hadKeys = (pendingAck.keys # {})
    /\ flushing.hadKeys = (flushing.keys # {})
    /\ KeysUpTo(pendingAck.td) \subseteq Known
    /\ KeysUpTo(flushing.td) \subseteq store \cup overrun \cup blind
    /\ \A i \in DOMAIN dumps :
          dumps[i].by = "ack"
             => KeysUpTo(flushing.td) \subseteq dumps[i].keys \cup overrun \cup blind

CustodyInv ==
    /\ LoopInv /\ DumpInv /\ FlowInv /\ BatchInv
    /\ AckedKeysSaved /\ CursorKeysSaved

IInv == TypeOK /\ CustodyInv
-----------------------------------------------------------------------------
(* Type correctness. *)

LEMMA FrameTypes ==
    ASSUME NEW f \in DownFrames, SyncAssumption
    PROVE  /\ [pos |-> f.pos, td |-> f.td, hadKeys |-> f.keys # {}, keys |-> f.keys] \in Batches
           /\ f.keys \in SUBSET KeyAt
           /\ f.pos \in 0..MaxFrames /\ f.td \in 0..StreamEnd
           /\ f.drop \in ResetCursors \cup {{}}
BY DEF DownFrames, Batches

\* Taking the next frame keeps the types, whatever batch stays pending.
LEMMA NextSyncFrameType ==
    ASSUME TypeOK, NEW kept \in Batches, NextSyncFrame(kept), SyncAssumption
    PROVE  /\ pendingAck' \in Batches
           /\ inHand' \in SUBSET KeyAt
           /\ sdk' \in {"ready", "flushing", "waiting", "processing"}
           /\ syncQueue' \in Seq(DownFrames) /\ Len(syncQueue') <= MaxSyncQueue
<1>1. CASE syncQueue # <<>> /\ Deliver(Head(syncQueue)) /\ syncQueue' = Tail(syncQueue)
  <2>1. Head(syncQueue) \in DownFrames /\ Tail(syncQueue) \in Seq(DownFrames)
        /\ Len(Tail(syncQueue)) <= MaxSyncQueue
    BY <1>1, SyncAssumption DEF TypeOK, SyncAssumption
  <2>2. QED
    BY <1>1, <2>1, FrameTypes DEF Deliver
<1>2. CASE syncQueue = <<>> /\ sdk' = "waiting" /\ pendingAck' = kept
           /\ UNCHANGED <<inHand, syncQueue>>
  BY <1>2 DEF TypeOK
<1>3. QED
  BY <1>1, <1>2 DEF NextSyncFrame

\* What a request sends is well typed.
LEMMA ServeType ==
    ASSUME TypeOK, NEW acks \in Seq(UpFrames), NEW c \in Cursors, NEW kept \in Batches,
           Serve(acks, c, kept), SyncAssumption
    PROVE  /\ up' \in Seq(UpFrames)
           /\ syncStarted' \in BOOLEAN
           /\ pendingAck' \in Batches
           /\ inHand' \in SUBSET KeyAt
           /\ sdk' \in {"ready", "flushing", "waiting", "processing"}
           /\ syncQueue' \in Seq(DownFrames) /\ Len(syncQueue') <= MaxSyncQueue
<1>1. SyncStart(c) \in UpFrames
  BY DEF SyncStart, UpFrames, Cursors
<1>2. up' \in Seq(UpFrames)
  BY <1>1 DEF Serve, Send, TypeOK
<1>3. QED
  BY <1>2, NextSyncFrameType DEF Serve

LEMMA BatchTypes ==
    ASSUME TypeOK, NEW b \in Batches, SyncAssumption
    PROVE  Durable(b) \in Cursors /\ AckOf(b) \in Seq(UpFrames)
<1>1. Durable(b) \in Cursors
  BY DEF Durable, Batches, Cursors, TypeOK
<1>2. [t |-> "sync_ack", pos |-> b.pos, td |-> b.td] \in UpFrames
  BY DEF UpFrames, Batches
<1>3. QED
  BY <1>1, <1>2 DEF AckOf

LEMMA NoBatchType == SyncAssumption => NoBatch \in Batches
BY DEF SyncAssumption, NoBatch, Batches

LEMMA InitType == SyncAssumption /\ Init => TypeOK
<1> SUFFICES ASSUME SyncAssumption, Init PROVE TypeOK
  OBVIOUS
<1>1. NoBatch \in Batches /\ NoCursors \in Cursors
  BY NoBatchType DEF SyncAssumption, NoCursors, Cursors
<1>2. since \in -1..StreamEnd /\ deleted \in 0..StreamEnd /\ expired \in 0..MaxFrames
  BY DEF Init, SyncAssumption
<1>3. Len(tdOf) <= MaxFrames /\ Len(syncQueue) <= MaxSyncQueue
  BY DEF Init, SyncAssumption
<1>4. QED
  <2>1. /\ tdOf \in Seq(0..StreamEnd) /\ down \in Seq(DownFrames) /\ up \in Seq(UpFrames)
        /\ syncQueue \in Seq(DownFrames) /\ dumps \in Seq(Dumps)
    BY DEF Init
  <2>2. QED
    BY <1>1, <1>2, <1>3, <2>1 DEF Init, TypeOK

LEMMA NextType ==
    ASSUME TypeOK, [Next]_vars, SyncAssumption
    PROVE  TypeOK'
<1> USE DEF gatewayVars, linkVars, batchVars, cursorVars, sdkVars, diskVars, historyVars
<1>1. CASE GatewaySync
  <2>1. PICK n \in since..StreamEnd :
          LET td == IF n > since THEN n ELSE 0
              ks == {k \in KeyAt : since < k /\ k <= n /\ k > deleted}
          IN  /\ down' = Append(down, SyncFrame(Len(tdOf) + 1, td, ks))
              /\ tdOf' = Append(tdOf, td)
              /\ since' = n
    BY <1>1 DEF GatewaySync
  <2> DEFINE td == IF n > since THEN n ELSE 0
             ks == {k \in KeyAt : since < k /\ k <= n /\ k > deleted}
  <2>2. n \in 0..StreamEnd /\ td \in 0..StreamEnd /\ Len(tdOf) + 1 \in 0..MaxFrames
    BY <1>1 DEF GatewaySync, TypeOK, SyncAssumption
  <2>3. SyncFrame(Len(tdOf) + 1, td, ks) \in DownFrames
    BY <2>2 DEF SyncFrame, DownFrames
  <2>4. down' \in Seq(DownFrames)
    BY <2>1, <2>3 DEF TypeOK
  <2>5. tdOf' \in Seq(0..StreamEnd) /\ Len(tdOf') <= MaxFrames /\ since' \in -1..StreamEnd
    BY <2>1, <2>2 DEF TypeOK, SyncAssumption
  <2>6. QED
    BY <1>1, <2>4, <2>5 DEF GatewaySync, TypeOK
<1>2. CASE GatewayReset
  <2>1. PICK c \in ResetCursors, s \in 0..since :
          down' = Append(down, ResetFrame(Len(tdOf), c)) /\ since' = s
    BY <1>2 DEF GatewayReset
  <2>2. ResetFrame(Len(tdOf), c) \in DownFrames
    BY <2>1 DEF ResetFrame, DownFrames, TypeOK, SyncAssumption
  <2>3. s \in -1..StreamEnd
    BY <2>1 DEF TypeOK, SyncAssumption
  <2>4. QED
    BY <1>2, <2>1, <2>2, <2>3 DEF GatewayReset, TypeOK
<1>3. CASE GatewayReads
  <2>1. Head(up) \in UpFrames /\ Tail(up) \in Seq(UpFrames)
    BY <1>3 DEF GatewayReads, TypeOK
  <2>2. Head(up).td \in 0..StreamEnd
    BY <2>1 DEF UpFrames
  <2>3. QED
    BY <1>3, <2>1, <2>2 DEF GatewayReads, TypeOK, Larger, SyncAssumption
<1>4. CASE RequestWithoutAck
  <2>1. <<>> \in Seq(UpFrames)
    OBVIOUS
  <2>2. QED
    BY <1>4, <2>1, ServeType DEF RequestWithoutAck, TypeOK
<1>5. CASE RequestWithAck
  <2> USE DEF TypeOK
  <2>a. Durable(pendingAck) \in Cursors
    BY BatchTypes
  <2>1. acked' \in Cursors /\ file' \in Cursors
    BY <1>5, <2>a DEF RequestWithAck, PersistCursors
  <2>2. NoBatch \in Batches
    BY NoBatchType
  <2>3. blind' \in SUBSET KeyAt
    BY <1>5 DEF RequestWithAck, Passes, KeysUpTo
  <2>4. QED
    BY <1>5, <2>1, <2>2, <2>3, BatchTypes, ServeType DEF RequestWithAck, TypeOK
<1>6. CASE RequestWithFlush
  <2>1. NoBatch \in Batches /\ [by |-> "ack", keys |-> store] \in Dumps
    BY NoBatchType DEF Dumps, TypeOK
  <2>2. QED
    BY <1>6, <2>1 DEF RequestWithFlush, BeginDump, TypeOK
<1>7. CASE FlushResolves
  <2> USE DEF TypeOK
  <2>a. Durable(flushing) \in Cursors
    BY BatchTypes
  <2>1. acked' \in Cursors /\ file' \in Cursors
    BY <1>7, <2>a DEF FlushResolves, PersistCursors
  <2>2. NoBatch \in Batches
    BY NoBatchType
  <2>3. Head(dumps) \in Dumps /\ Tail(dumps) \in Seq(Dumps)
    BY <1>7 DEF FlushResolves, OldestDumpIs, TypeOK
  <2>4. snapshot' \in SUBSET KeyAt /\ blind' \in SUBSET KeyAt
    BY <1>7, <2>3 DEF FlushResolves, Dumps, TypeOK, Passes, KeysUpTo
  <2>5. QED
    BY <1>7, <2>1, <2>2, <2>3, <2>4, BatchTypes, ServeType DEF FlushResolves, TypeOK
<1>8. CASE FlushRejects
  <2>1. <<>> \in Seq(UpFrames) /\ NoBatch \in Batches
    BY NoBatchType
  <2>2. Tail(dumps) \in Seq(Dumps)
    BY <1>8 DEF FlushRejects, OldestDumpIs, TypeOK
  <2>3. QED
    BY <1>8, <2>1, <2>2, ServeType DEF FlushRejects, TypeOK
<1>9. CASE WaitEnds
  BY <1>9 DEF WaitEnds, TypeOK
<1>10. CASE SdkProcesses
  BY <1>10 DEF SdkProcesses, TypeOK
<1>11. CASE ReceiveSync
  <2>1. Head(down) \in DownFrames /\ Tail(down) \in Seq(DownFrames)
    BY <1>11 DEF ReceiveSync, TypeOK
  <2>2. CASE sdk = "waiting" /\ Deliver(Head(down)) /\ UNCHANGED <<syncQueue, overrun>>
    BY <1>11, <2>1, <2>2, FrameTypes DEF ReceiveSync, Deliver, TypeOK
  <2>3. CASE sdk # "waiting" /\ UNCHANGED <<pendingAck, inHand, sdk>>
    <3> DEFINE q == Append(syncQueue, Head(down))
    <3>0. syncQueue \in Seq(DownFrames)
      BY DEF TypeOK
    <3>1. q \in Seq(DownFrames) /\ Len(q) = Len(syncQueue) + 1 /\ q # <<>>
      BY <2>1, <3>0
    <3>2. Head(q) \in DownFrames /\ Tail(q) \in Seq(DownFrames)
          /\ Len(Tail(q)) = Len(syncQueue)
      BY <3>1 DEF TypeOK
    <3>3. Head(q).keys \in SUBSET KeyAt
      BY <3>2, FrameTypes
    <3>4. \/ Len(q) > MaxSyncQueue /\ syncQueue' = Tail(q)
             /\ overrun' = overrun \cup Head(q).keys
          \/ ~(Len(q) > MaxSyncQueue) /\ syncQueue' = q /\ overrun' = overrun
      BY <1>11, <2>3 DEF ReceiveSync, Overfull
    <3> HIDE DEF q
    <3>a. /\ Len(syncQueue) \in Nat /\ Len(syncQueue) <= MaxSyncQueue
          /\ MaxSyncQueue \in Nat /\ overrun \in SUBSET KeyAt
      BY <3>0 DEF TypeOK, SyncAssumption
    <3>5. /\ syncQueue' \in Seq(DownFrames) /\ Len(syncQueue') <= MaxSyncQueue
          /\ overrun' \in SUBSET KeyAt
      <4>1. CASE Len(q) > MaxSyncQueue
        BY <4>1, <3>2, <3>3, <3>4, <3>a
      <4>2. CASE ~(Len(q) > MaxSyncQueue)
        <5>1. syncQueue' = q /\ overrun' = overrun
          BY <4>2, <3>4
        <5>2. Len(q) <= MaxSyncQueue
          BY <4>2, <3>1, <3>a
        <5>3. QED
          BY <5>1, <5>2, <3>1, <3>a
      <4>3. QED
        BY <4>1, <4>2
    <3>6. QED
      BY <1>11, <2>1, <2>3, <3>5 DEF ReceiveSync, TypeOK
  <2>4. QED
    BY <1>11, <2>2, <2>3 DEF ReceiveSync
<1>12. CASE ReceiveReset
  <2>1. Head(down) \in DownFrames /\ Tail(down) \in Seq(DownFrames)
    BY <1>12 DEF ReceiveReset, TypeOK
  <2>2. Head(down).pos \in 0..MaxFrames
    BY <2>1, FrameTypes
  <2>3. WithoutCursors(pendingAck, Head(down).drop) \in Batches
    BY DEF WithoutCursors, Batches, TypeOK, SyncAssumption
  <2>4. [pos |-> IF "pos" \in Head(down).drop THEN 0 ELSE acked.pos,
         td |-> IF "to_device_pos" \in Head(down).drop THEN 0 ELSE acked.td] \in Cursors
    BY DEF Cursors, TypeOK, SyncAssumption
  <2>5. pendingAck' \in Batches /\ acked' \in Cursors /\ file' \in Cursors
        /\ expired' \in 0..MaxFrames
    BY <1>12, <2>2, <2>3, <2>4 DEF ReceiveReset, PersistCursors, TypeOK
  <2>6. QED
    BY <1>12, <2>1, <2>5 DEF ReceiveReset, TypeOK
<1>13. CASE TimerDumpBegins
  <2>1. [by |-> "timer", keys |-> store] \in Dumps
    BY DEF Dumps, TypeOK
  <2>2. QED
    BY <1>13, <2>1 DEF TimerDumpBegins, BeginDump, TypeOK
<1>14. CASE TimerDumpEnds
  <2>1. Head(dumps) \in Dumps /\ Tail(dumps) \in Seq(Dumps)
    BY <1>14 DEF TimerDumpEnds, OldestDumpIs, TypeOK
  <2>2. QED
    BY <1>14, <2>1 DEF TimerDumpEnds, Dumps, TypeOK
<1>15. CASE Close
  <2>1. NoBatch \in Batches /\ <<>> \in Seq(DownFrames) /\ <<>> \in Seq(UpFrames)
    BY NoBatchType
  <2>2. since' \in -1..StreamEnd
    BY <1>15 DEF Close, SyncAssumption
  <2>3. QED
    BY <1>15, <2>1, <2>2 DEF Close, TypeOK
<1>16. CASE Reconnect
  <2>1. SyncStart(acked) \in UpFrames
    BY DEF SyncStart, UpFrames, Cursors, TypeOK
  <2>2. QED
    BY <1>16, <2>1 DEF Reconnect, TypeOK
<1>17. CASE Crash
  <2>1. /\ NoBatch \in Batches /\ <<>> \in Seq(DownFrames) /\ <<>> \in Seq(UpFrames)
        /\ <<>> \in Seq(Dumps) /\ Len(<<>>) <= MaxSyncQueue
    BY NoBatchType DEF SyncAssumption
  <2>2. since' \in -1..StreamEnd
    BY <1>17 DEF Crash, SyncAssumption
  <2>3. QED
    BY <1>17, <2>1, <2>2 DEF Crash, TypeOK
<1>18. CASE UNCHANGED vars
  BY <1>18 DEF vars, TypeOK
<1>19. QED
  BY <1>1, <1>2, <1>3, <1>4, <1>5, <1>6, <1>7, <1>8, <1>9, <1>10, <1>11, <1>12, <1>13,
     <1>14, <1>15, <1>16, <1>17, <1>18 DEF Next

\* Every behaviour of the transport is well typed; in particular the backlog
\* never exceeds MAX_SYNC_QUEUE frames (onSyncFrame).
THEOREM TypeCorrect == Spec => []TypeOK
<1>1. Init => TypeOK
  BY InitType, SyncAssumption
<1>2. TypeOK /\ [Next]_vars => TypeOK'
  BY NextType, SyncAssumption
<1>3. QED
  BY <1>1, <1>2, PTL DEF Spec
-----------------------------------------------------------------------------
(* Facts about cursors and frames. *)

LEMMA CursorFacts ==
    SyncAssumption => /\ KeysUpTo(0) = {} /\ KeysUpTo(-1) = {}
                      /\ \A a, b \in -1..StreamEnd : a <= b => KeysUpTo(a) \subseteq KeysUpTo(b)
<1> SUFFICES ASSUME SyncAssumption
             PROVE  /\ KeysUpTo(0) = {} /\ KeysUpTo(-1) = {}
                    /\ \A a, b \in -1..StreamEnd : a <= b => KeysUpTo(a) \subseteq KeysUpTo(b)
  OBVIOUS
<1>1. \A k \in KeyAt : k \in Nat /\ k >= 1
  BY DEF SyncAssumption
<1>2. KeysUpTo(0) = {} /\ KeysUpTo(-1) = {}
  <2>1. \A k \in KeyAt : ~(k <= 0) /\ ~(k <= -1)
    BY <1>1
  <2>2. QED
    BY <2>1 DEF KeysUpTo
<1>3. ASSUME NEW a \in -1..StreamEnd, NEW b \in -1..StreamEnd, a <= b
      PROVE  KeysUpTo(a) \subseteq KeysUpTo(b)
  <2>1. a \in Int /\ b \in Int
    BY DEF SyncAssumption
  <2>2. \A k \in KeyAt : k <= a => k <= b
    BY <1>1, <1>3, <2>1
  <2>3. QED
    BY <2>2 DEF KeysUpTo
<1>4. QED
  BY <1>2, <1>3

LEMMA NoBatchFacts ==
    SyncAssumption => KeysUpTo(NoBatch.td) = {} /\ NoBatch.hadKeys = (NoBatch.keys # {})
<1>1. NoBatch.td = 0 /\ ~NoBatch.hadKeys /\ NoBatch.keys = {}
  BY DEF NoBatch
<1>2. NoBatch.hadKeys \in BOOLEAN
  BY DEF NoBatch
<1>3. NoBatch.hadKeys = (NoBatch.keys # {})
  BY <1>1, <1>2
<1>4. QED
  BY <1>1, <1>3, CursorFacts

\* What is safe is known.
LEMMA SafeIsKnown == DumpInv => Safe \subseteq Known
BY DEF DumpInv, Safe, Known

LEMMA TailFacts ==
    ASSUME NEW S, NEW q \in Seq(S), q # <<>>
    PROVE  /\ Head(q) = q[1] /\ 1 \in DOMAIN q
           /\ DOMAIN Tail(q) = 1..(Len(q) - 1) /\ DOMAIN q = 1..Len(q) /\ Len(q) \in Nat
           /\ \A i \in DOMAIN Tail(q) : i + 1 \in DOMAIN q /\ Tail(q)[i] = q[i + 1]
OBVIOUS

LEMMA AppendFacts ==
    ASSUME NEW S, NEW q \in Seq(S), NEW e
    PROVE  /\ DOMAIN Append(q, e) = 1..(Len(q) + 1) /\ DOMAIN q = 1..Len(q) /\ Len(q) \in Nat
           /\ \A i \in DOMAIN q : i \in DOMAIN Append(q, e) /\ Append(q, e)[i] = q[i]
           /\ Append(q, e)[Len(q) + 1] = e
OBVIOUS

-----------------------------------------------------------------------------
(* Serving a request. *)

\* The next frame goes from the backlog to the SDK, or nothing moves.
LEMMA ServeFlow ==
    ASSUME SyncAssumption, TypeOK, DumpInv, FlowInv, inHand = {},
           NEW kept, NextSyncFrame(kept),
           UNCHANGED <<down, since, store, overrun>>,
           snapshot \subseteq snapshot', blind \subseteq blind',
           KeysUpTo(kept.td) \subseteq store \cup overrun \cup blind',
           kept.hadKeys = (kept.keys # {})
    PROVE  /\ FlowInv'
           /\ KeysUpTo(pendingAck.td)' \subseteq Known'
           /\ pendingAck'.hadKeys = (pendingAck'.keys # {})
           /\ sdk' # "processing" => inHand' = {}
           /\ sdk' = "waiting" => syncQueue' = <<>>
           /\ sdk' # "flushing"
<1> USE DEF KeysUpTo
<1>1. CASE syncQueue # <<>> /\ Deliver(Head(syncQueue)) /\ syncQueue' = Tail(syncQueue)
  <2> DEFINE q == syncQueue
  <2>1. /\ Head(q) = q[1] /\ 1 \in DOMAIN q
        /\ DOMAIN Tail(q) = 1..(Len(q) - 1) /\ DOMAIN q = 1..Len(q) /\ Len(q) \in Nat
        /\ \A i \in DOMAIN Tail(q) : i + 1 \in DOMAIN q /\ Tail(q)[i] = q[i + 1]
    BY <1>1, TailFacts DEF TypeOK
  <2>2. inHand' = q[1].keys /\ sdk' = "processing"
        /\ pendingAck' = [pos |-> q[1].pos, td |-> q[1].td, hadKeys |-> q[1].keys # {},
                         keys |-> q[1].keys]
    BY <1>1, <2>1 DEF Deliver
  <2>3. Known \cup q[1].keys \subseteq Known'
    BY <2>2 DEF Known
  <2>4. ASSUME NEW i \in DOMAIN syncQueue', NEW k \in KeysUpTo(syncQueue'[i].td)
        PROVE  k \in Known' \/ \E j \in 1..i : k \in syncQueue'[j].keys
    <3>1. i + 1 \in DOMAIN q /\ k \in KeysUpTo(q[i + 1].td)
      BY <1>1, <2>1, <2>4
    <3>2. k \in Known \/ \E j \in 1..(i + 1) : k \in q[j].keys
      BY <3>1 DEF FlowInv
    <3>3. CASE \E j \in 1..(i + 1) : k \in q[j].keys
      <4>1. PICK j \in 1..(i + 1) : k \in q[j].keys
        BY <3>3
      <4>2. CASE j = 1
        BY <4>1, <4>2, <2>3
      <4>3. CASE j # 1
        <5>0. i \in 1..(Len(q) - 1) /\ Len(q) \in Nat
          BY <1>1, <2>1, <2>4
        <5>1. j - 1 \in 1..i /\ j - 1 \in DOMAIN Tail(q) /\ (j - 1) + 1 = j
          BY <4>1, <4>3, <2>1, <5>0
        <5>2. Tail(q)[j - 1] = q[j]
          BY <5>1, <2>1
        <5>3. QED
          BY <4>1, <5>1, <5>2, <1>1
      <4>4. QED
        BY <4>2, <4>3
    <3>4. QED
      BY <3>2, <3>3, <2>3
  <2>5. ASSUME NEW k, \E j \in DOMAIN q : k \in q[j].keys
        PROVE  k \in Known' \/ \E j \in DOMAIN syncQueue' : k \in syncQueue'[j].keys
    <3>1. PICK j \in DOMAIN q : k \in q[j].keys
      BY <2>5
    <3>2. CASE j = 1
      BY <3>1, <3>2, <2>3
    <3>3. CASE j # 1
      <4>1. j - 1 \in DOMAIN Tail(q) /\ (j - 1) + 1 = j
        BY <3>1, <3>3, <2>1
      <4>2. Tail(q)[j - 1] = q[j]
        BY <4>1, <2>1
      <4>3. QED
        BY <3>1, <4>1, <4>2, <1>1
    <3>4. QED
      BY <3>2, <3>3
  <2>6. FlowInv'
    <3>1. \A i \in DOMAIN down' : \A k \in KeysUpTo(down'[i].td) :
            \/ k \in Known'
            \/ \E j \in DOMAIN syncQueue' : k \in syncQueue'[j].keys
            \/ \E j \in 1..i : k \in down'[j].keys
      BY <2>3, <2>5 DEF FlowInv
    <3>2. \A k \in KeysUpTo(since') :
            \/ k \in Known'
            \/ \E j \in DOMAIN syncQueue' : k \in syncQueue'[j].keys
            \/ \E j \in DOMAIN down' : k \in down'[j].keys
      BY <2>3, <2>5 DEF FlowInv
    <3>3. QED
      BY <2>4, <3>1, <3>2 DEF FlowInv
  <2>8. KeysUpTo(q[1].td) \subseteq Known'
    <3>1. ASSUME NEW k \in KeysUpTo(q[1].td) PROVE k \in Known'
      <4>1. k \in Known \/ \E j \in 1..1 : k \in q[j].keys
        BY <2>1, <3>1 DEF FlowInv
      <4>2. QED
        BY <4>1, <2>3
    <3>2. QED
      BY <3>1
  <2>9. QED
    BY <2>2, <2>6, <2>8
<1>2. CASE syncQueue = <<>> /\ sdk' = "waiting" /\ pendingAck' = kept
           /\ UNCHANGED <<inHand, syncQueue>>
  <2>1. Known \subseteq Known' /\ store \cup overrun \cup blind' \subseteq Known'
    BY <1>2 DEF Known
  <2>2. FlowInv'
    BY <1>2, <2>1 DEF FlowInv
  <2>3. QED
    BY <1>2, <2>1, <2>2
<1>3. QED
  BY <1>1, <1>2 DEF NextSyncFrame

\* What a request sends covers only saved keys if its ack and cursors do.
LEMMA SendCustody ==
    ASSUME SyncAssumption, TypeOK, NEW X, NEW acks \in Seq(UpFrames), NEW c \in Cursors,
           Send(acks \o IF syncStarted THEN <<>> ELSE <<SyncStart(c)>>),
           \A i \in DOMAIN up : KeysUpTo(up[i].td) \subseteq X,
           \A i \in DOMAIN acks : KeysUpTo(acks[i].td) \subseteq X,
           KeysUpTo(c.td) \subseteq X
    PROVE  \A i \in DOMAIN up' : KeysUpTo(up'[i].td) \subseteq X
<1> DEFINE starts == IF syncStarted THEN <<>> ELSE <<SyncStart(c)>>
           frames == acks \o starts
<1>1. starts \in Seq(UpFrames) /\ \A i \in DOMAIN starts : KeysUpTo(starts[i].td) \subseteq X
  <2>1. SyncStart(c) \in UpFrames /\ SyncStart(c).td = c.td
    BY DEF SyncStart, UpFrames, Cursors
  <2>2. CASE syncStarted
    BY <2>2
  <2>3. CASE ~syncStarted
    BY <2>1, <2>3
  <2>4. QED
    BY <2>2, <2>3
<1> HIDE DEF starts
<1>2. frames \in Seq(UpFrames) /\ \A i \in DOMAIN frames : KeysUpTo(frames[i].td) \subseteq X
  <2>1. frames \in Seq(UpFrames) /\ Len(frames) = Len(acks) + Len(starts)
    BY <1>1
  <2>2. ASSUME NEW i \in DOMAIN frames PROVE KeysUpTo(frames[i].td) \subseteq X
    <3>1. CASE i <= Len(acks)
      BY <1>1, <2>1, <2>2, <3>1
    <3>2. CASE i > Len(acks)
      <4>1. i - Len(acks) \in DOMAIN starts /\ frames[i] = starts[i - Len(acks)]
        BY <1>1, <2>1, <2>2, <3>2
      <4>2. QED
        BY <1>1, <4>1
    <3>3. QED
      BY <2>1, <2>2, <3>1, <3>2
  <2>3. QED
    BY <2>1, <2>2
<1>3. up' = IF connected THEN up \o frames ELSE up
  BY DEF Send, starts
<1> HIDE DEF frames
<1>4. up \in Seq(UpFrames)
  BY DEF TypeOK
<1>5. ASSUME NEW i \in DOMAIN (up \o frames) PROVE KeysUpTo((up \o frames)[i].td) \subseteq X
  <2>1. CASE i <= Len(up)
    BY <1>2, <1>4, <1>5, <2>1
  <2>2. CASE i > Len(up)
    <3>1. i - Len(up) \in DOMAIN frames /\ (up \o frames)[i] = frames[i - Len(up)]
      BY <1>2, <1>4, <1>5, <2>2
    <3>2. QED
      BY <1>2, <3>1
  <2>3. QED
    BY <1>2, <1>4, <1>5, <2>1, <2>2
<1>6. QED
  BY <1>3, <1>5

\* The cursors persisted for a batch, and its ack, cover what the batch and the last
\* persisted cursors do.
LEMMA DurableCovered ==
    ASSUME CursorKeysSaved, NEW b, NEW X, Safe \subseteq X, KeysUpTo(b.td) \subseteq X
    PROVE  KeysUpTo(Durable(b).td) \subseteq X
<1>1. KeysUpTo(acked.td) \subseteq X
  BY DEF CursorKeysSaved, Safe
<1>2. QED
  BY <1>1 DEF Durable

LEMMA AckCovered ==
    ASSUME SyncAssumption, NEW b \in Batches, NEW X, KeysUpTo(Durable(b).td) \subseteq X
    PROVE  \A i \in DOMAIN AckOf(b) : KeysUpTo(AckOf(b)[i].td) \subseteq X
<1>1. KeysUpTo(b.td) \subseteq X
  BY CursorFacts DEF Durable
<1>2. QED
  BY <1>1 DEF AckOf

\* Everything a served request touches keeps its part of the invariant.
LEMMA ServeCustody ==
    ASSUME SyncAssumption, IInv, inHand = {},
           NEW acks \in Seq(UpFrames), NEW c \in Cursors, NEW kept,
           Serve(acks, c, kept), acked' = c, file' \in {c, file},
           UNCHANGED <<deleted, down, since, store, overrun>>,
           snapshot \subseteq snapshot', blind \subseteq blind',
           KeysUpTo(c.td) \subseteq Safe',
           \A i \in DOMAIN acks : KeysUpTo(acks[i].td) \subseteq Safe',
           KeysUpTo(kept.td) \subseteq store \cup overrun \cup blind',
           kept.hadKeys = (kept.keys # {})
    PROVE  /\ FlowInv'
           /\ KeysUpTo(pendingAck.td)' \subseteq Known'
           /\ pendingAck'.hadKeys = (pendingAck'.keys # {})
           /\ sdk' # "processing" => inHand' = {}
           /\ sdk' = "waiting" => syncQueue' = <<>>
           /\ AckedKeysSaved' /\ CursorKeysSaved'
<1>1. Safe \subseteq Safe'
  BY DEF Safe
<1>2. AckedKeysSaved'
  BY <1>1 DEF IInv, CustodyInv, AckedKeysSaved, Safe, KeysUpTo
<1>3. CursorKeysSaved'
  <2>1. KeysUpTo(acked'.td) \subseteq Safe' /\ KeysUpTo(file'.td) \subseteq Safe'
    BY <1>1 DEF IInv, CustodyInv, CursorKeysSaved, Safe
  <2>2. \A i \in DOMAIN up : KeysUpTo(up[i].td) \subseteq Safe'
    BY <1>1 DEF IInv, CustodyInv, CursorKeysSaved, Safe
  <2>3. \A i \in DOMAIN up' : KeysUpTo(up'[i].td) \subseteq Safe'
    BY <2>2, SendCustody DEF Serve, IInv
  <2>4. QED
    BY <2>1, <2>3 DEF CursorKeysSaved, Safe, KeysUpTo
<1>4. QED
  BY <1>2, <1>3, ServeFlow DEF Serve, IInv, CustodyInv

-----------------------------------------------------------------------------
(* The invariant holds at first and is kept by every step. *)

LEMMA InitCustody == SyncAssumption /\ Init => CustodyInv
<1> SUFFICES ASSUME SyncAssumption, Init PROVE CustodyInv
  OBVIOUS
<1>1. KeysUpTo(0) = {} /\ KeysUpTo(-1) = {}
  BY CursorFacts
<1>2. LoopInv /\ DumpInv /\ FlowInv
  BY <1>1 DEF Init, LoopInv, DumpInv, FlowInv
<1>3. BatchInv /\ AckedKeysSaved /\ CursorKeysSaved
  <2>1. BatchInv
    BY NoBatchFacts DEF Init, BatchInv
  <2>2. QED
    BY <1>1, <2>1 DEF Init, NoCursors, AckedKeysSaved, CursorKeysSaved
<1>4. QED
  BY <1>2, <1>3 DEF CustodyInv

LEMMA RequestWithoutAckCustody ==
    ASSUME SyncAssumption, IInv, RequestWithoutAck PROVE CustodyInv'
<1> USE DEF IInv, CustodyInv, gatewayVars, cursorVars, diskVars, historyVars
<1>1. inHand = {} /\ \A i \in DOMAIN dumps : dumps[i].by # "ack"
  BY DEF RequestWithoutAck, LoopInv
<1>2. KeysUpTo(pendingAck.td) \subseteq store \cup overrun \cup blind
  BY <1>1 DEF BatchInv, Known
<1>3. /\ Safe' = Safe /\ snapshot' = snapshot /\ blind' = blind /\ acked' = acked /\ file' = file
      /\ <<>> \in Seq(UpFrames) /\ acked \in Cursors
      /\ KeysUpTo(acked.td) \subseteq Safe
      /\ pendingAck.hadKeys = (pendingAck.keys # {})
  BY DEF RequestWithoutAck, Safe, TypeOK, CursorKeysSaved, BatchInv
<1>4. /\ FlowInv' /\ AckedKeysSaved' /\ CursorKeysSaved'
      /\ KeysUpTo(pendingAck.td)' \subseteq Known'
      /\ pendingAck'.hadKeys = (pendingAck'.keys # {})
      /\ sdk' # "processing" => inHand' = {}
      /\ sdk' = "waiting" => syncQueue' = <<>>
  <2>1. /\ Serve(<<>>, acked, pendingAck) /\ UNCHANGED <<deleted, down, since, store, overrun>>
        /\ \A i \in DOMAIN <<>> : KeysUpTo(<<>>[i].td) \subseteq Safe'
    BY DEF RequestWithoutAck
  <2>2. QED
    BY <1>1, <1>2, <1>3, <2>1, ServeCustody
<1>5. LoopInv' /\ DumpInv'
  BY <1>1, <1>4 DEF RequestWithoutAck, LoopInv, DumpInv
<1>6. BatchInv'
  BY <1>1, <1>3, <1>4 DEF RequestWithoutAck, BatchInv, KeysUpTo
<1>7. QED
  BY <1>4, <1>5, <1>6

LEMMA RequestWithAckCustody ==
    ASSUME SyncAssumption, IInv, RequestWithAck PROVE CustodyInv'
<1> USE DEF IInv, CustodyInv, gatewayVars, diskVars, historyVars
<1>1. inHand = {} /\ \A i \in DOMAIN dumps : dumps[i].by # "ack"
  BY DEF RequestWithAck, LoopInv
<1>2. /\ snapshot' = snapshot /\ blind \subseteq blind' /\ Safe \subseteq Safe'
      /\ pendingAck \in Batches
      /\ KeysUpTo(Durable(pendingAck).td) \subseteq Safe'
  <2>1. /\ snapshot' = snapshot /\ overrun' = overrun
        /\ blind' = blind \cup (Passes(pendingAck) \ pendingAck.keys)
        /\ pendingAck.keys = {}
    BY DEF RequestWithAck, BatchInv
  <2>2. QED
    BY <2>1 DEF Safe, Passes, TypeOK
<1>3. /\ \A i \in DOMAIN AckOf(pendingAck) : KeysUpTo(AckOf(pendingAck)[i].td) \subseteq Safe'
      /\ Durable(pendingAck) \in Cursors /\ AckOf(pendingAck) \in Seq(UpFrames)
  BY <1>2, AckCovered, BatchTypes
<1>4. /\ KeysUpTo(NoBatch.td) = {} /\ NoBatch.hadKeys = (NoBatch.keys # {})
      /\ acked' = Durable(pendingAck) /\ file' \in {Durable(pendingAck), file}
  BY NoBatchFacts DEF RequestWithAck, PersistCursors
<1>5. /\ FlowInv' /\ AckedKeysSaved' /\ CursorKeysSaved'
      /\ KeysUpTo(pendingAck.td)' \subseteq Known'
      /\ pendingAck'.hadKeys = (pendingAck'.keys # {})
      /\ sdk' # "processing" => inHand' = {}
      /\ sdk' = "waiting" => syncQueue' = <<>>
  <2>1. /\ Serve(AckOf(pendingAck), Durable(pendingAck), NoBatch)
        /\ UNCHANGED <<deleted, down, since, store, overrun>>
    BY <1>4 DEF RequestWithAck
  <2> HIDE DEF IInv, CustodyInv
  <2>2. QED
    BY <1>1, <1>2, <1>3, <1>4, <2>1, ServeCustody
<1>6. LoopInv' /\ DumpInv'
  BY <1>1, <1>5 DEF RequestWithAck, LoopInv, DumpInv
<1>7. BatchInv'
  BY <1>1, <1>2, <1>5 DEF RequestWithAck, BatchInv, KeysUpTo
<1>8. QED
  BY <1>5, <1>6, <1>7

LEMMA RequestWithFlushCustody ==
    ASSUME SyncAssumption, IInv, RequestWithFlush PROVE CustodyInv'
<1> USE DEF IInv, CustodyInv, gatewayVars, linkVars, cursorVars, historyVars
<1>1. inHand = {} /\ \A i \in DOMAIN dumps : dumps[i].by # "ack"
  BY DEF RequestWithFlush, LoopInv
<1> DEFINE d == [by |-> "ack", keys |-> store]
<1>2. /\ DOMAIN dumps' = 1..(Len(dumps) + 1) /\ DOMAIN dumps = 1..Len(dumps)
      /\ Len(dumps) \in Nat
      /\ \A i \in DOMAIN dumps : dumps'[i] = dumps[i]
      /\ dumps'[Len(dumps) + 1] = d
  BY AppendFacts DEF RequestWithFlush, BeginDump, TypeOK
<1>3. LoopInv'
  BY <1>1, <1>2 DEF RequestWithFlush, LoopInv
<1>4. DumpInv'
  BY <1>2 DEF RequestWithFlush, DumpInv
<1>5. Safe' = Safe /\ Known' = Known
  BY DEF RequestWithFlush, Safe, Known
<1>6. FlowInv' /\ AckedKeysSaved' /\ CursorKeysSaved'
  BY <1>5 DEF RequestWithFlush, FlowInv, AckedKeysSaved, CursorKeysSaved, KeysUpTo
<1>7. BatchInv'
  <2>1. KeysUpTo(pendingAck.td) \subseteq store \cup overrun \cup blind
    BY <1>1 DEF BatchInv, Known
  <2>2. KeysUpTo(NoBatch.td) = {} /\ NoBatch.hadKeys = (NoBatch.keys # {})
    BY NoBatchFacts
  <2>3. /\ flushing' = pendingAck /\ pendingAck' = NoBatch /\ pendingAck.hadKeys
        /\ store' = store /\ overrun' = overrun /\ blind' = blind
    BY DEF RequestWithFlush
  <2>4. \A i \in DOMAIN dumps' : dumps'[i].by = "ack" =>
          KeysUpTo(flushing'.td) \subseteq dumps'[i].keys \cup overrun' \cup blind'
    BY <1>1, <1>2, <2>1, <2>3
  <2>5. QED
    BY <2>1, <2>2, <2>3, <2>4 DEF BatchInv, KeysUpTo
<1>8. QED
  BY <1>3, <1>4, <1>6, <1>7

\* Removing the oldest dump.
LEMMA DumpsTail ==
    ASSUME IInv, dumps # <<>>, dumps' = Tail(dumps)
    PROVE  /\ 1 \in DOMAIN dumps /\ Head(dumps) = dumps[1]
           /\ \A i \in DOMAIN dumps' : i + 1 \in DOMAIN dumps /\ dumps'[i] = dumps[i + 1]
                                      /\ i \in Nat /\ i >= 1
BY TailFacts DEF IInv, TypeOK

LEMMA FlushResolvesCustody ==
    ASSUME SyncAssumption, IInv, FlushResolves PROVE CustodyInv'
<1> USE DEF gatewayVars, historyVars
<1>1. /\ 1 \in DOMAIN dumps /\ Head(dumps) = dumps[1] /\ dumps[1].by = "ack"
      /\ \A i \in DOMAIN dumps' : i + 1 \in DOMAIN dumps /\ dumps'[i] = dumps[i + 1]
                                 /\ i \in Nat /\ i >= 1
  BY DumpsTail DEF FlushResolves, OldestDumpIs
<1>2. sdk = "flushing" /\ inHand = {} /\ \A i \in DOMAIN dumps' : dumps'[i].by # "ack"
  <2>1. sdk = "flushing" /\ inHand = {}
    BY <1>1 DEF IInv, CustodyInv, LoopInv
  <2>2. ASSUME NEW i \in DOMAIN dumps' PROVE dumps'[i].by # "ack"
    <3>1. i + 1 # 1
      BY <1>1, <2>2
    <3>2. QED
      BY <1>1, <2>2, <3>1 DEF IInv, CustodyInv, LoopInv
  <2>3. QED
    BY <2>1, <2>2
<1>3. /\ \/ snapshot' = dumps[1].keys /\ blind' = blind
         \/ snapshot' = snapshot /\ blind' = blind \cup Passes(flushing)
      /\ snapshot' \in {dumps[1].keys, snapshot} /\ snapshot \subseteq snapshot'
      /\ blind \subseteq blind'
      /\ UNCHANGED <<deleted, down, since, store, overrun>>
      /\ Safe \subseteq Safe' /\ flushing \in Batches
  BY <1>1 DEF FlushResolves, IInv, CustodyInv, DumpInv, Safe, TypeOK
<1>4. KeysUpTo(Durable(flushing).td) \subseteq Safe'
  <2>1. CASE snapshot' = dumps[1].keys /\ blind' = blind
    <3>1. KeysUpTo(flushing.td) \subseteq Safe'
      BY <1>1, <1>3, <2>1 DEF IInv, CustodyInv, BatchInv, Safe
    <3>2. QED
      BY <1>3, <3>1, DurableCovered DEF IInv, CustodyInv
  <2>2. CASE snapshot' = snapshot /\ blind' = blind \cup Passes(flushing)
    BY <2>2 DEF Safe, Passes
  <2>3. QED
    BY <1>3, <2>1, <2>2
<1>5. /\ KeysUpTo(Durable(flushing).td) \subseteq Safe'
      /\ \A i \in DOMAIN AckOf(flushing) : KeysUpTo(AckOf(flushing)[i].td) \subseteq Safe'
      /\ Durable(flushing) \in Cursors /\ AckOf(flushing) \in Seq(UpFrames)
  BY <1>3, <1>4, AckCovered, BatchTypes DEF IInv, CustodyInv
<1>6. /\ KeysUpTo(pendingAck.td) \subseteq store \cup overrun \cup blind'
      /\ pendingAck.hadKeys = (pendingAck.keys # {})
  BY <1>2, <1>3 DEF IInv, CustodyInv, BatchInv, Known
<1>7. /\ acked' = Durable(flushing) /\ file' \in {Durable(flushing), file}
      /\ Serve(AckOf(flushing), Durable(flushing), pendingAck)
  BY DEF FlushResolves, PersistCursors
<1>8. /\ FlowInv' /\ AckedKeysSaved' /\ CursorKeysSaved'
      /\ KeysUpTo(pendingAck.td)' \subseteq Known'
      /\ pendingAck'.hadKeys = (pendingAck'.keys # {})
      /\ sdk' # "processing" => inHand' = {}
      /\ sdk' = "waiting" => syncQueue' = <<>>
  BY <1>2, <1>3, <1>5, <1>6, <1>7, ServeCustody
<1>9. LoopInv'
  BY <1>2, <1>8 DEF LoopInv
<1>10. DumpInv'
  <2>1. \A i \in DOMAIN dumps' :
          snapshot' \subseteq dumps'[i].keys /\ dumps'[i].keys \subseteq store'
    BY <1>1, <1>3 DEF IInv, CustodyInv, DumpInv
  <2>2. snapshot' \subseteq store'
    BY <1>1, <1>3 DEF IInv, CustodyInv, DumpInv
  <2>3. \A i, j \in DOMAIN dumps' : i <= j => dumps'[i].keys \subseteq dumps'[j].keys
    BY <1>1 DEF IInv, CustodyInv, DumpInv
  <2>4. QED
    BY <2>1, <2>2, <2>3 DEF DumpInv
<1>11. BatchInv'
  <2>1. /\ flushing' = NoBatch /\ KeysUpTo(NoBatch.td) = {}
        /\ NoBatch.hadKeys = (NoBatch.keys # {})
    BY NoBatchFacts DEF FlushResolves
  <2>2. QED
    BY <1>2, <1>8, <2>1 DEF BatchInv, KeysUpTo
<1>12. QED
  BY <1>8, <1>9, <1>10, <1>11 DEF CustodyInv

LEMMA FlushRejectsCustody ==
    ASSUME SyncAssumption, IInv, FlushRejects PROVE CustodyInv'
<1> USE DEF gatewayVars, cursorVars, historyVars
<1>1. /\ 1 \in DOMAIN dumps /\ Head(dumps) = dumps[1] /\ dumps[1].by = "ack"
      /\ \A i \in DOMAIN dumps' : i + 1 \in DOMAIN dumps /\ dumps'[i] = dumps[i + 1]
                                 /\ i \in Nat /\ i >= 1
  BY DumpsTail DEF FlushRejects, OldestDumpIs
<1>2. sdk = "flushing" /\ inHand = {} /\ \A i \in DOMAIN dumps' : dumps'[i].by # "ack"
  <2>1. sdk = "flushing" /\ inHand = {}
    BY <1>1 DEF IInv, CustodyInv, LoopInv
  <2>2. ASSUME NEW i \in DOMAIN dumps' PROVE dumps'[i].by # "ack"
    <3>1. i + 1 # 1
      BY <1>1, <2>2
    <3>2. QED
      BY <1>1, <2>2, <3>1 DEF IInv, CustodyInv, LoopInv
  <2>3. QED
    BY <2>1, <2>2
<1>3. /\ Safe' = Safe /\ snapshot' = snapshot /\ blind' = blind /\ acked' = acked /\ file' = file
      /\ UNCHANGED <<deleted, down, since, store, overrun>>
      /\ Serve(<<>>, acked, flushing)
  BY DEF FlushRejects, Safe
<1>4. /\ KeysUpTo(flushing.td) \subseteq store \cup overrun \cup blind'
      /\ flushing.hadKeys = (flushing.keys # {})
      /\ acked \in Cursors /\ <<>> \in Seq(UpFrames) /\ KeysUpTo(acked.td) \subseteq Safe'
  BY <1>3 DEF IInv, CustodyInv, BatchInv, TypeOK, CursorKeysSaved, Safe
<1>5. /\ FlowInv' /\ AckedKeysSaved' /\ CursorKeysSaved'
      /\ KeysUpTo(pendingAck.td)' \subseteq Known'
      /\ pendingAck'.hadKeys = (pendingAck'.keys # {})
      /\ sdk' # "processing" => inHand' = {}
      /\ sdk' = "waiting" => syncQueue' = <<>>
  <2>1. \A i \in DOMAIN <<>> : KeysUpTo(<<>>[i].td) \subseteq Safe'
    OBVIOUS
  <2>2. QED
    BY <1>2, <1>3, <1>4, <2>1, ServeCustody
<1>6. LoopInv'
  BY <1>2, <1>5 DEF LoopInv
<1>7. DumpInv'
  BY <1>1, <1>3 DEF IInv, CustodyInv, DumpInv
<1>8. BatchInv'
  <2>1. /\ flushing' = NoBatch /\ KeysUpTo(NoBatch.td) = {}
        /\ NoBatch.hadKeys = (NoBatch.keys # {})
    BY NoBatchFacts DEF FlushRejects
  <2>2. QED
    BY <1>2, <1>5, <2>1 DEF BatchInv, KeysUpTo
<1>9. QED
  BY <1>5, <1>6, <1>7, <1>8 DEF CustodyInv

LEMMA GatewaySyncCustody ==
    ASSUME SyncAssumption, IInv, GatewaySync PROVE CustodyInv'
<1> USE DEF cursorVars, sdkVars, diskVars, historyVars, batchVars
<1>1. PICK n \in since..StreamEnd :
        LET td == IF n > since THEN n ELSE 0
            ks == {k \in KeyAt : since < k /\ k <= n /\ k > deleted}
        IN  down' = Append(down, SyncFrame(Len(tdOf) + 1, td, ks)) /\ since' = n
  BY DEF GatewaySync
<1> DEFINE td == IF n > since THEN n ELSE 0
           ks == {k \in KeyAt : since < k /\ k <= n /\ k > deleted}
           f == SyncFrame(Len(tdOf) + 1, td, ks)
<1>2. f.td = td /\ f.keys = ks /\ down' = Append(down, f) /\ since' = n
  BY <1>1 DEF SyncFrame
<1>3. /\ Safe' = Safe /\ Known' = Known
      /\ UNCHANGED <<deleted, up, batchVars, cursorVars, sdkVars, diskVars, historyVars>>
  BY DEF GatewaySync, Safe, Known
<1>4. /\ since \in Int /\ n \in Int /\ n \in -1..StreamEnd /\ since <= n /\ deleted \in 0..StreamEnd
      /\ StreamEnd \in Nat /\ since >= 0 /\ n \in 0..StreamEnd
  BY DEF IInv, TypeOK, SyncAssumption, GatewaySync
<1>5. \A k \in KeyAt : k \in Nat /\ k >= 1
  BY DEF SyncAssumption
<1> HIDE DEF f
<1>6. /\ DOMAIN down' = 1..(Len(down) + 1) /\ DOMAIN down = 1..Len(down) /\ Len(down) \in Nat
      /\ \A i \in DOMAIN down : i \in DOMAIN down' /\ down'[i] = down[i]
      /\ down'[Len(down) + 1] = f
  BY <1>2, AppendFacts DEF IInv, TypeOK
<1>7. ASSUME NEW k \in KeysUpTo(n)
      PROVE  \/ k \in Known \/ \E j \in DOMAIN syncQueue : k \in syncQueue[j].keys
             \/ \E j \in 1..(Len(down) + 1) : k \in down'[j].keys
  <2>1. k \in KeyAt /\ k <= n /\ k \in Nat
    BY <1>5 DEF KeysUpTo
  <2>2. CASE k <= since
    <3>1. k \in KeysUpTo(since)
      BY <2>1, <2>2 DEF KeysUpTo
    <3>2. \/ k \in Known \/ \E j \in DOMAIN syncQueue : k \in syncQueue[j].keys
          \/ \E j \in DOMAIN down : k \in down[j].keys
      BY <3>1 DEF IInv, CustodyInv, FlowInv
    <3>3. QED
      BY <3>2, <1>6
  <2>3. CASE k > since /\ k > deleted
    <3>1. k \in f.keys
      BY <2>1, <2>3, <1>2
    <3>2. Len(down) + 1 \in 1..(Len(down) + 1)
      BY <1>6
    <3>3. QED
      BY <3>1, <3>2, <1>6
  <2>4. CASE k <= deleted
    <3>1. k \in Safe
      BY <2>1, <2>4 DEF IInv, CustodyInv, AckedKeysSaved, KeysUpTo, Safe
    <3>2. QED
      BY <3>1, SafeIsKnown DEF IInv, CustodyInv
  <2>5. QED
    BY <2>1, <2>2, <2>3, <2>4, <1>4
<1>8. FlowInv'
  <2>1. \A i \in DOMAIN syncQueue' : \A k \in KeysUpTo(syncQueue'[i].td) :
          k \in Known' \/ \E j \in 1..i : k \in syncQueue'[j].keys
    BY <1>3 DEF IInv, CustodyInv, FlowInv
  <2>2. ASSUME NEW i \in DOMAIN down', NEW k \in KeysUpTo(down'[i].td)
        PROVE  \/ k \in Known'
               \/ \E j \in DOMAIN syncQueue' : k \in syncQueue'[j].keys
               \/ \E j \in 1..i : k \in down'[j].keys
    <3>1. CASE i \in DOMAIN down
      <4>1. \/ k \in Known
            \/ \E j \in DOMAIN syncQueue : k \in syncQueue[j].keys
            \/ \E j \in 1..i : k \in down[j].keys
        BY <2>2, <3>1, <1>6 DEF IInv, CustodyInv, FlowInv
      <4>2. \A j \in 1..i : down'[j] = down[j]
        BY <3>1, <1>6
      <4>3. QED
        BY <4>1, <4>2, <1>3
    <3>2. CASE i = Len(down) + 1
      <4>1. k \in KeysUpTo(td)
        BY <2>2, <3>2, <1>6, <1>2
      <4>2. k \in KeysUpTo(n)
        BY <4>1, CursorFacts
      <4>3. QED
        BY <4>2, <3>2, <1>7, <1>3
    <3>3. QED
      BY <3>1, <3>2, <1>6
  <2>3. \A k \in KeysUpTo(since') :
          \/ k \in Known'
          \/ \E j \in DOMAIN syncQueue' : k \in syncQueue'[j].keys
          \/ \E j \in DOMAIN down' : k \in down'[j].keys
    BY <1>2, <1>3, <1>6, <1>7
  <2>4. QED
    BY <2>1, <2>2, <2>3 DEF FlowInv, KeysUpTo
<1>9. AckedKeysSaved' /\ CursorKeysSaved' /\ LoopInv' /\ DumpInv' /\ BatchInv'
  BY <1>3 DEF IInv, CustodyInv, AckedKeysSaved, CursorKeysSaved, LoopInv, DumpInv, BatchInv,
              KeysUpTo
<1>10. QED
  BY <1>8, <1>9 DEF CustodyInv

LEMMA GatewayResetCustody ==
    ASSUME SyncAssumption, IInv, GatewayReset PROVE CustodyInv'
<1> USE DEF cursorVars, sdkVars, diskVars, historyVars, batchVars
<1>1. PICK c \in ResetCursors, s \in 0..since :
        down' = Append(down, ResetFrame(Len(tdOf), c)) /\ since' = s
  BY DEF GatewayReset
<1> DEFINE f == ResetFrame(Len(tdOf), c)
<1>2. f.td = 0 /\ f.keys = {} /\ down' = Append(down, f) /\ KeysUpTo(f.td) = {}
  BY <1>1, CursorFacts DEF ResetFrame
<1>3. /\ Safe' = Safe /\ Known' = Known
      /\ UNCHANGED <<deleted, up, batchVars, cursorVars, sdkVars, diskVars, historyVars>>
  BY DEF GatewayReset, Safe, Known
<1> HIDE DEF f
<1>4. /\ DOMAIN down' = 1..(Len(down) + 1) /\ DOMAIN down = 1..Len(down) /\ Len(down) \in Nat
      /\ \A i \in DOMAIN down : i \in DOMAIN down' /\ down'[i] = down[i]
      /\ down'[Len(down) + 1] = f
  BY <1>2, AppendFacts DEF IInv, TypeOK
<1>5. KeysUpTo(since') \subseteq KeysUpTo(since)
  <2>1. s \in -1..StreamEnd /\ since \in -1..StreamEnd /\ s <= since
    BY DEF IInv, TypeOK, SyncAssumption
  <2>2. QED
    BY <1>1, <2>1, CursorFacts
<1>6. FlowInv'
  <2>1. \A i \in DOMAIN syncQueue' : \A k \in KeysUpTo(syncQueue'[i].td) :
          k \in Known' \/ \E j \in 1..i : k \in syncQueue'[j].keys
    BY <1>3 DEF IInv, CustodyInv, FlowInv
  <2>2. ASSUME NEW i \in DOMAIN down', NEW k \in KeysUpTo(down'[i].td)
        PROVE  \/ k \in Known'
               \/ \E j \in DOMAIN syncQueue' : k \in syncQueue'[j].keys
               \/ \E j \in 1..i : k \in down'[j].keys
    <3>1. i \in DOMAIN down
      BY <2>2, <1>2, <1>4
    <3>2. \/ k \in Known
          \/ \E j \in DOMAIN syncQueue : k \in syncQueue[j].keys
          \/ \E j \in 1..i : k \in down[j].keys
      BY <2>2, <3>1, <1>4 DEF IInv, CustodyInv, FlowInv
    <3>3. \A j \in 1..i : down'[j] = down[j]
      BY <3>1, <1>4
    <3>4. QED
      BY <3>2, <3>3, <1>3
  <2>3. \A k \in KeysUpTo(since') :
          \/ k \in Known'
          \/ \E j \in DOMAIN syncQueue' : k \in syncQueue'[j].keys
          \/ \E j \in DOMAIN down' : k \in down'[j].keys
    BY <1>3, <1>4, <1>5 DEF IInv, CustodyInv, FlowInv
  <2>4. QED
    BY <2>1, <2>2, <2>3 DEF FlowInv, KeysUpTo
<1>7. AckedKeysSaved' /\ CursorKeysSaved' /\ LoopInv' /\ DumpInv' /\ BatchInv'
  BY <1>3 DEF IInv, CustodyInv, AckedKeysSaved, CursorKeysSaved, LoopInv, DumpInv, BatchInv,
              KeysUpTo
<1>8. QED
  BY <1>6, <1>7 DEF CustodyInv

LEMMA GatewayReadsCustody ==
    ASSUME SyncAssumption, IInv, GatewayReads PROVE CustodyInv'
<1> USE DEF cursorVars, sdkVars, diskVars, historyVars, batchVars
<1>1. /\ Head(up) = up[1] /\ 1 \in DOMAIN up
      /\ \A i \in DOMAIN up' : i + 1 \in DOMAIN up /\ up'[i] = up[i + 1]
  BY TailFacts DEF GatewayReads, IInv, TypeOK
<1>2. KeysUpTo(up[1].td) \subseteq Safe /\ KeysUpTo(deleted) \subseteq Safe
  BY <1>1 DEF IInv, CustodyInv, CursorKeysSaved, AckedKeysSaved, Safe
<1>3. /\ Safe' = Safe /\ Known' = Known
      /\ UNCHANGED <<down, batchVars, cursorVars, sdkVars, diskVars, historyVars>>
  BY DEF GatewayReads, Safe, Known
<1>4. deleted' \in {up[1].td, deleted} /\ since' \in {up[1].td, since}
  BY <1>1 DEF GatewayReads, Larger
<1>5. AckedKeysSaved'
  <2>1. KeysUpTo(deleted') \subseteq Safe
    BY <1>2, <1>4
  <2>2. QED
    BY <2>1, <1>3 DEF AckedKeysSaved, Safe, KeysUpTo
<1>6. CursorKeysSaved'
  <2>1. \A i \in DOMAIN up' : KeysUpTo(up'[i].td) \subseteq Safe
    BY <1>1 DEF IInv, CustodyInv, CursorKeysSaved, Safe
  <2>2. QED
    BY <2>1, <1>3 DEF IInv, CustodyInv, CursorKeysSaved, Safe, KeysUpTo
<1>7. FlowInv'
  <2>1. \A k \in KeysUpTo(since') :
          \/ k \in Known
          \/ \E j \in DOMAIN syncQueue : k \in syncQueue[j].keys
          \/ \E j \in DOMAIN down : k \in down[j].keys
    BY <1>2, <1>4, SafeIsKnown DEF IInv, CustodyInv, FlowInv
  <2>2. QED
    BY <2>1, <1>3 DEF IInv, CustodyInv, FlowInv, KeysUpTo
<1>8. LoopInv' /\ DumpInv' /\ BatchInv' 
  BY <1>3 DEF IInv, CustodyInv, LoopInv, DumpInv, BatchInv, KeysUpTo
<1>9. QED
  BY <1>5, <1>6, <1>7, <1>8 DEF CustodyInv

LEMMA WaitEndsCustody ==
    ASSUME SyncAssumption, IInv, WaitEnds PROVE CustodyInv'
<1> USE DEF gatewayVars, linkVars, batchVars, cursorVars, diskVars, historyVars
<1>1. Safe' = Safe /\ Known' = Known
  BY DEF WaitEnds, Safe, Known
<1>2. LoopInv'
  BY DEF WaitEnds, IInv, CustodyInv, LoopInv
<1>3. DumpInv' /\ FlowInv' /\ BatchInv' /\ AckedKeysSaved' /\ CursorKeysSaved'
  BY <1>1 DEF WaitEnds, IInv, CustodyInv, DumpInv, FlowInv, BatchInv,
              AckedKeysSaved, CursorKeysSaved, KeysUpTo
<1>4. QED
  BY <1>2, <1>3 DEF CustodyInv

LEMMA SdkProcessesCustody ==
    ASSUME SyncAssumption, IInv, SdkProcesses PROVE CustodyInv'
<1> USE DEF gatewayVars, linkVars, batchVars, cursorVars, diskVars, historyVars
<1>1. Safe' = Safe /\ Known' = Known
  BY DEF SdkProcesses, Safe, Known
<1>2. LoopInv'
  BY DEF SdkProcesses, IInv, CustodyInv, LoopInv
<1>3. DumpInv'
  BY DEF SdkProcesses, IInv, CustodyInv, DumpInv
<1>4. FlowInv' /\ AckedKeysSaved' /\ CursorKeysSaved'
  BY <1>1 DEF SdkProcesses, IInv, CustodyInv, FlowInv, AckedKeysSaved,
              CursorKeysSaved, KeysUpTo
<1>5. BatchInv'
  BY <1>1 DEF SdkProcesses, IInv, CustodyInv, BatchInv, KeysUpTo
<1>6. QED
  BY <1>2, <1>3, <1>4, <1>5 DEF CustodyInv

\* What a frame taken off the connection leaves behind.
LEMMA DownTail ==
    ASSUME IInv, down # <<>>, down' = Tail(down)
    PROVE  /\ 1 \in DOMAIN down /\ Head(down) = down[1] /\ down[1] \in DownFrames
           /\ \A i \in DOMAIN down' : i + 1 \in DOMAIN down /\ down'[i] = down[i + 1]
                                      /\ i \in Nat /\ i >= 1
           /\ \A j \in DOMAIN down : j # 1 => j - 1 \in DOMAIN down' /\ down'[j - 1] = down[j]
                                              /\ j \in Nat /\ j >= 1
<1>1. /\ Head(down) = down[1] /\ 1 \in DOMAIN down
      /\ DOMAIN Tail(down) = 1..(Len(down) - 1) /\ DOMAIN down = 1..Len(down)
      /\ Len(down) \in Nat
      /\ \A i \in DOMAIN Tail(down) : i + 1 \in DOMAIN down /\ Tail(down)[i] = down[i + 1]
  BY TailFacts DEF IInv, TypeOK
<1>2. down[1] \in DownFrames
  BY <1>1 DEF IInv, TypeOK
<1>3. ASSUME NEW j \in DOMAIN down, j # 1
      PROVE  j - 1 \in DOMAIN down' /\ down'[j - 1] = down[j] /\ j \in Nat /\ j >= 1
  <2>1. j - 1 \in DOMAIN Tail(down) /\ (j - 1) + 1 = j /\ j \in Nat /\ j >= 1
    BY <1>1, <1>3
  <2>2. QED
    BY <1>1, <2>1
<1>4. QED
  BY <1>1, <1>2, <1>3

\* Taking a frame off the connection keeps the flow if its keys go somewhere.
LEMMA DownTailFlow ==
    ASSUME IInv, down # <<>>, down' = Tail(down), NEW D, D \subseteq Known',
           NEW q, \A k : (\E j \in DOMAIN syncQueue : k \in syncQueue[j].keys)
                            => k \in D \/ \E j \in DOMAIN q : k \in q[j].keys,
           \A k \in down[1].keys : k \in D \/ \E j \in DOMAIN q : k \in q[j].keys,
           Known \subseteq D,
           since' = since
    PROVE  /\ \A i \in DOMAIN down' : \A k \in KeysUpTo(down'[i].td) :
                 k \in D \/ (\E j \in DOMAIN q : k \in q[j].keys)
                         \/ \E j \in 1..i : k \in down'[j].keys
           /\ \A k \in KeysUpTo(since') :
                 k \in D \/ (\E j \in DOMAIN q : k \in q[j].keys)
                         \/ \E j \in DOMAIN down' : k \in down'[j].keys
<1>1. /\ \A i \in DOMAIN down' : i + 1 \in DOMAIN down /\ down'[i] = down[i + 1]
                                /\ i \in Nat /\ i >= 1
      /\ \A j \in DOMAIN down : j # 1 => j - 1 \in DOMAIN down' /\ down'[j - 1] = down[j]
                                         /\ j \in Nat /\ j >= 1
  BY DownTail
<1>2. ASSUME NEW i \in DOMAIN down', NEW k \in KeysUpTo(down'[i].td)
      PROVE  \/ k \in D \/ \E j \in DOMAIN q : k \in q[j].keys
             \/ \E j \in 1..i : k \in down'[j].keys
  <2>1. \/ k \in Known \/ \E j \in DOMAIN syncQueue : k \in syncQueue[j].keys
        \/ \E j \in 1..(i + 1) : k \in down[j].keys
    BY <1>1, <1>2 DEF IInv, CustodyInv, FlowInv
  <2>2. CASE \E j \in 1..(i + 1) : k \in down[j].keys
    <3>1. PICK j \in 1..(i + 1) : k \in down[j].keys
      BY <2>2
    <3>2. CASE j = 1
      BY <3>1, <3>2
    <3>3. CASE j # 1
      <4>1. j \in DOMAIN down
        <5>1. i + 1 \in 1..Len(down) /\ DOMAIN down = 1..Len(down) /\ Len(down) \in Nat
          BY <1>1, <1>2 DEF IInv, TypeOK
        <5>2. QED
          BY <5>1, <3>1
      <4>2. j - 1 \in 1..i /\ down'[j - 1] = down[j]
        BY <1>1, <1>2, <3>1, <3>3, <4>1
      <4>3. QED
        BY <3>1, <4>2
    <3>4. QED
      BY <3>2, <3>3
  <2>3. QED
    BY <2>1, <2>2
<1>3. ASSUME NEW k \in KeysUpTo(since')
      PROVE  \/ k \in D \/ \E j \in DOMAIN q : k \in q[j].keys
             \/ \E j \in DOMAIN down' : k \in down'[j].keys
  <2>1. \/ k \in Known \/ \E j \in DOMAIN syncQueue : k \in syncQueue[j].keys
        \/ \E j \in DOMAIN down : k \in down[j].keys
    BY <1>3 DEF IInv, CustodyInv, FlowInv
  <2>2. CASE \E j \in DOMAIN down : k \in down[j].keys
    <3>1. PICK j \in DOMAIN down : k \in down[j].keys
      BY <2>2
    <3>2. CASE j = 1
      BY <3>1, <3>2
    <3>3. CASE j # 1
      BY <1>1, <3>1, <3>3
    <3>4. QED
      BY <3>2, <3>3
  <2>3. QED
    BY <2>1, <2>2
<1>4. QED
  BY <1>2, <1>3

LEMMA ReceiveSyncCustody ==
    ASSUME SyncAssumption, IInv, ReceiveSync PROVE CustodyInv'
<1> USE DEF gatewayVars, cursorVars, diskVars
<1> DEFINE f == down[1]
<1>1. /\ 1 \in DOMAIN down /\ Head(down) = f /\ f \in DownFrames
      /\ \A i \in DOMAIN down' : i + 1 \in DOMAIN down /\ down'[i] = down[i + 1]
                                /\ i \in Nat /\ i >= 1
      /\ down # <<>> /\ down' = Tail(down) /\ since' = since
  BY DownTail DEF ReceiveSync
<1>2. /\ UNCHANGED <<deleted, up, flushing, acked, file, store, dumps, snapshot, blind>>
      /\ Safe \subseteq Safe'
  BY DEF ReceiveSync, Safe
<1>3. AckedKeysSaved' /\ CursorKeysSaved' /\ DumpInv'
  BY <1>2 DEF IInv, CustodyInv, AckedKeysSaved, CursorKeysSaved, DumpInv, KeysUpTo, Safe
<1>6. CASE sdk = "waiting" /\ Deliver(Head(down)) /\ UNCHANGED <<syncQueue, overrun>>
  <2>1. syncQueue = <<>> /\ inHand = {} /\ \A i \in DOMAIN dumps : dumps[i].by # "ack"
    BY <1>6 DEF IInv, CustodyInv, LoopInv
  <2>2. /\ inHand' = f.keys /\ sdk' = "processing"
        /\ pendingAck' = [pos |-> f.pos, td |-> f.td, hadKeys |-> f.keys # {}, keys |-> f.keys]
    BY <1>1, <1>6 DEF Deliver
  <2>3. Known' = Known \cup f.keys
    BY <1>2, <1>6, <2>1, <2>2 DEF Known
  <2>4. FlowInv'
    <3>1. \A k : (\E j \in DOMAIN syncQueue : k \in syncQueue[j].keys)
                    => k \in Known' \/ \E j \in DOMAIN syncQueue' : k \in syncQueue'[j].keys
      BY <2>1
    <3>2. \A k \in f.keys : k \in Known' \/ \E j \in DOMAIN syncQueue' : k \in syncQueue'[j].keys
      BY <2>3
    <3>3. Known \subseteq Known' /\ DOMAIN syncQueue' = {}
      BY <1>6, <2>1, <2>3
    <3>4. /\ \A i \in DOMAIN down' : \A k \in KeysUpTo(down'[i].td) :
                 k \in Known' \/ (\E j \in DOMAIN syncQueue' : k \in syncQueue'[j].keys)
                         \/ \E j \in 1..i : k \in down'[j].keys
          /\ \A k \in KeysUpTo(since') :
                 k \in Known' \/ (\E j \in DOMAIN syncQueue' : k \in syncQueue'[j].keys)
                         \/ \E j \in DOMAIN down' : k \in down'[j].keys
      BY <1>1, <3>1, <3>2, <3>3, DownTailFlow
    <3>5. QED
      BY <3>3, <3>4 DEF FlowInv, KeysUpTo
  <2>6. KeysUpTo(f.td) \subseteq Known'
    <3>1. ASSUME NEW k \in KeysUpTo(f.td) PROVE k \in Known'
      <4>1. k \in Known \/ \E j \in 1..1 : k \in down[j].keys
        BY <1>1, <2>1, <3>1 DEF IInv, CustodyInv, FlowInv
      <4>2. QED
        BY <4>1, <2>3
    <3>2. QED
      BY <3>1
  <2>8. BatchInv'
    <3>1. /\ KeysUpTo(flushing'.td) \subseteq store' \cup overrun' \cup blind'
          /\ \A i \in DOMAIN dumps' : dumps'[i].by = "ack"
                => KeysUpTo(flushing'.td) \subseteq dumps'[i].keys \cup overrun' \cup blind'
          /\ flushing'.hadKeys = (flushing'.keys # {})
      BY <1>2, <1>6 DEF IInv, CustodyInv, BatchInv
    <3>2. /\ KeysUpTo(pendingAck'.td) \subseteq Known'
          /\ pendingAck'.hadKeys = (pendingAck'.keys # {})
      BY <2>2, <2>6
    <3>3. QED
      BY <3>1, <3>2 DEF BatchInv, KeysUpTo
  <2>9. LoopInv'
    BY <1>2, <1>6, <2>1, <2>2 DEF IInv, CustodyInv, LoopInv
  <2>10. QED
    BY <1>3, <2>4, <2>8, <2>9 DEF CustodyInv
<1>7. CASE sdk # "waiting" /\ UNCHANGED <<pendingAck, inHand, sdk>>
  <2> DEFINE q == Append(syncQueue, f)
  <2>1. /\ DOMAIN q = 1..(Len(syncQueue) + 1) /\ DOMAIN syncQueue = 1..Len(syncQueue)
        /\ Len(syncQueue) \in Nat
        /\ \A i \in DOMAIN syncQueue : i \in DOMAIN q /\ q[i] = syncQueue[i]
        /\ q[Len(syncQueue) + 1] = f
        /\ Len(syncQueue) + 1 \in DOMAIN q /\ q \in Seq(DownFrames) /\ q # <<>>
    <3>1. syncQueue \in Seq(DownFrames)
      BY DEF IInv, TypeOK
    <3>2. q \in Seq(DownFrames) /\ q # <<>>
      BY <3>1, <1>1
    <3>3. /\ DOMAIN q = 1..(Len(syncQueue) + 1) /\ DOMAIN syncQueue = 1..Len(syncQueue)
          /\ Len(syncQueue) \in Nat
          /\ \A i \in DOMAIN syncQueue : i \in DOMAIN q /\ q[i] = syncQueue[i]
          /\ q[Len(syncQueue) + 1] = f
      BY <3>1, AppendFacts
    <3> HIDE DEF q
    <3>4. Len(syncQueue) + 1 \in DOMAIN q
      BY <3>3
    <3>5. QED
      BY <3>2, <3>3, <3>4
  <2>2. \/ syncQueue' = Tail(q) /\ overrun' = overrun \cup Head(q).keys
        \/ syncQueue' = q /\ overrun' = overrun
    BY <1>1, <1>7 DEF ReceiveSync
  <2> HIDE DEF q
  <2>3. /\ Head(q) = q[1] /\ 1 \in DOMAIN q /\ DOMAIN Tail(q) = 1..(Len(q) - 1)
        /\ DOMAIN q = 1..Len(q) /\ Len(q) \in Nat
        /\ \A i \in DOMAIN Tail(q) : i + 1 \in DOMAIN q /\ Tail(q)[i] = q[i + 1]
    BY <2>1, TailFacts
  <2>4. Known \subseteq Known' /\ overrun \subseteq overrun'
    BY <1>2, <1>7, <2>2 DEF Known
  <2>5. ASSUME NEW i \in DOMAIN q, NEW k \in KeysUpTo(q[i].td)
        PROVE  k \in Known \/ \E j \in 1..i : k \in q[j].keys
    <3>1. CASE i \in DOMAIN syncQueue
      <4>1. k \in Known \/ \E j \in 1..i : k \in syncQueue[j].keys
        BY <2>1, <2>5, <3>1 DEF IInv, CustodyInv, FlowInv
      <4>2. \A j \in 1..i : q[j] = syncQueue[j]
        BY <2>1, <3>1
      <4>3. QED
        BY <4>1, <4>2
    <3>2. CASE i = Len(syncQueue) + 1
      <4>1. k \in KeysUpTo(f.td)
        BY <2>1, <2>5, <3>2
      <4>2. k \in Known \/ (\E j \in DOMAIN syncQueue : k \in syncQueue[j].keys)
            \/ \E j \in 1..1 : k \in down[j].keys
        BY <1>1, <4>1 DEF IInv, CustodyInv, FlowInv
      <4>3. CASE \E j \in DOMAIN syncQueue : k \in syncQueue[j].keys
        <5>1. PICK j \in DOMAIN syncQueue : k \in syncQueue[j].keys
          BY <4>3
        <5>2. j \in 1..i /\ q[j] = syncQueue[j]
          BY <5>1, <2>1, <3>2
        <5>3. QED
          BY <5>1, <5>2
      <4>4. CASE \E j \in 1..1 : k \in down[j].keys
        <5>1. k \in q[i].keys /\ i \in 1..i
          BY <4>4, <2>1, <3>2
        <5>2. QED
          BY <5>1
      <4>5. QED
        BY <4>2, <4>3, <4>4
    <3>3. QED
      BY <2>1, <3>1, <3>2
  <2>7. /\ \A i \in DOMAIN syncQueue' : \A k \in KeysUpTo(syncQueue'[i].td) :
             k \in Known' \/ \E j \in 1..i : k \in syncQueue'[j].keys
        /\ \A k : (\E j \in DOMAIN q : k \in q[j].keys)
             => k \in Known' \/ \E j \in DOMAIN syncQueue' : k \in syncQueue'[j].keys
    <3>1. CASE syncQueue' = q
      BY <3>1, <2>4, <2>5
    <3>2. CASE syncQueue' = Tail(q) /\ overrun' = overrun \cup Head(q).keys
      <4>1. q[1].keys \subseteq Known'
        BY <3>2, <2>3 DEF Known
      <4>2. ASSUME NEW i \in DOMAIN q, NEW k, \E j \in 1..i : k \in q[j].keys
            PROVE  k \in Known' \/ \E j \in 1..(i - 1) : j \in DOMAIN syncQueue'
                                                       /\ k \in syncQueue'[j].keys
        <5>1. PICK j \in 1..i : k \in q[j].keys
          BY <4>2
        <5>2. CASE j = 1
          BY <5>1, <5>2, <4>1
        <5>3. CASE j # 1
          <6>1. /\ j - 1 \in DOMAIN Tail(q) /\ (j - 1) + 1 = j /\ j - 1 \in 1..(i - 1)
            BY <5>1, <5>3, <4>2, <2>3
          <6>2. Tail(q)[j - 1] = q[j]
            BY <6>1, <2>3
          <6>3. QED
            BY <5>1, <6>1, <6>2, <3>2
        <5>4. QED
          BY <5>2, <5>3
      <4>3. ASSUME NEW i \in DOMAIN syncQueue', NEW k \in KeysUpTo(syncQueue'[i].td)
            PROVE  k \in Known' \/ \E j \in 1..i : k \in syncQueue'[j].keys
        <5>1. i + 1 \in DOMAIN q /\ syncQueue'[i] = q[i + 1] /\ (i + 1) - 1 = i
          BY <4>3, <3>2, <2>3
        <5>2. k \in Known \/ \E j \in 1..(i + 1) : k \in q[j].keys
          BY <5>1, <4>3, <2>5
        <5>3. CASE \E j \in 1..(i + 1) : k \in q[j].keys
          <6>1. k \in Known' \/ \E j \in 1..((i + 1) - 1) : k \in syncQueue'[j].keys
            BY <5>1, <5>3, <4>2
          <6>2. QED
            BY <6>1, <5>1
        <5>4. QED
          BY <5>2, <5>3, <2>4
      <4>4. ASSUME NEW k, NEW j \in DOMAIN q, k \in q[j].keys
            PROVE  k \in Known' \/ \E i \in DOMAIN syncQueue' : k \in syncQueue'[i].keys
        <5>1. j \in 1..j
          BY <4>4, <2>3
        <5>2. QED
          BY <5>1, <4>4, <4>2
      <4>5. QED
        BY <4>3, <4>4
    <3>3. QED
      BY <2>2, <3>1, <3>2
  <2>8. FlowInv'
    <3>1. \A k : (\E j \in DOMAIN syncQueue : k \in syncQueue[j].keys)
                    => k \in Known' \/ \E j \in DOMAIN syncQueue' : k \in syncQueue'[j].keys
      BY <2>1, <2>7
    <3>2. \A k \in down[1].keys :
             k \in Known' \/ \E j \in DOMAIN syncQueue' : k \in syncQueue'[j].keys
      BY <2>1, <2>7
    <3>3. /\ \A i \in DOMAIN down' : \A k \in KeysUpTo(down'[i].td) :
                 k \in Known' \/ (\E j \in DOMAIN syncQueue' : k \in syncQueue'[j].keys)
                         \/ \E j \in 1..i : k \in down'[j].keys
          /\ \A k \in KeysUpTo(since') :
                 k \in Known' \/ (\E j \in DOMAIN syncQueue' : k \in syncQueue'[j].keys)
                         \/ \E j \in DOMAIN down' : k \in down'[j].keys
      BY <1>1, <2>4, <3>1, <3>2, DownTailFlow
    <3>4. QED
      BY <2>7, <3>3 DEF FlowInv, KeysUpTo
  <2>10. BatchInv'
    BY <1>2, <1>7, <2>4 DEF IInv, CustodyInv, BatchInv, KeysUpTo, Safe
  <2>11. LoopInv'
    BY <1>2, <1>7 DEF IInv, CustodyInv, LoopInv
  <2>12. QED
    BY <1>3, <2>8, <2>10, <2>11 DEF CustodyInv
<1>8. QED
  BY <1>6, <1>7 DEF ReceiveSync

LEMMA ReceiveResetCustody ==
    ASSUME SyncAssumption, IInv, ReceiveReset PROVE CustodyInv'
<1> USE DEF gatewayVars, sdkVars, diskVars
<1> DEFINE f == down[1]
<1>1. /\ 1 \in DOMAIN down /\ Head(down) = f /\ f \in DownFrames /\ f.t = "sync_reset"
      /\ \A i \in DOMAIN down' : i + 1 \in DOMAIN down /\ down'[i] = down[i + 1]
                                /\ i \in Nat /\ i >= 1
      /\ down # <<>> /\ down' = Tail(down) /\ since' = since
  BY DownTail DEF ReceiveReset
<1>2. f.keys = {}
  BY <1>1 DEF DownFrames
<1>3. /\ UNCHANGED <<deleted, up, syncQueue, flushing, sdk, inHand, store, dumps, snapshot,
                  overrun, blind>>
      /\ Safe' = Safe /\ Known' = Known
  BY DEF ReceiveReset, Safe, Known
<1>4. /\ pendingAck'.td \in {0, pendingAck.td} /\ pendingAck'.hadKeys = pendingAck.hadKeys
      /\ pendingAck'.keys = pendingAck.keys
      /\ acked'.td \in {0, acked.td} /\ file'.td \in {0, acked.td, file.td}
  <2>1. CASE f.drop = {}
    BY <1>1, <2>1 DEF ReceiveReset, cursorVars
  <2>2. CASE f.drop # {}
    BY <1>1, <2>2 DEF ReceiveReset, PersistCursors, WithoutCursors
  <2>3. QED
    BY <2>1, <2>2
<1>5. FlowInv'
  <2>1. /\ \A k : (\E j \in DOMAIN syncQueue : k \in syncQueue[j].keys)
                     => k \in Known' \/ \E j \in DOMAIN syncQueue' : k \in syncQueue'[j].keys
        /\ Known \subseteq Known'
    BY <1>3
  <2>2. \A k \in down[1].keys :
           k \in Known' \/ \E j \in DOMAIN syncQueue' : k \in syncQueue'[j].keys
    BY <1>2
  <2>3. /\ \A i \in DOMAIN down' : \A k \in KeysUpTo(down'[i].td) :
               k \in Known' \/ (\E j \in DOMAIN syncQueue' : k \in syncQueue'[j].keys)
                       \/ \E j \in 1..i : k \in down'[j].keys
        /\ \A k \in KeysUpTo(since') :
               k \in Known' \/ (\E j \in DOMAIN syncQueue' : k \in syncQueue'[j].keys)
                       \/ \E j \in DOMAIN down' : k \in down'[j].keys
    BY <1>1, <2>1, <2>2, DownTailFlow
  <2>4. QED
    BY <1>3, <2>3 DEF IInv, CustodyInv, FlowInv, KeysUpTo
<1>7. BatchInv'
  <2>1. /\ KeysUpTo(pendingAck'.td) \subseteq Known
        /\ pendingAck'.hadKeys = (pendingAck'.keys # {})
    BY <1>4, CursorFacts DEF IInv, CustodyInv, BatchInv
  <2>2. QED
    BY <1>3, <2>1 DEF IInv, CustodyInv, BatchInv, KeysUpTo
<1>8. CursorKeysSaved'
  <2>1. KeysUpTo(acked'.td) \subseteq Safe /\ KeysUpTo(file'.td) \subseteq Safe
    BY <1>4, CursorFacts DEF IInv, CustodyInv, CursorKeysSaved, Safe
  <2>2. QED
    BY <1>3, <2>1 DEF IInv, CustodyInv, CursorKeysSaved, KeysUpTo, Safe
<1>9. AckedKeysSaved' /\ LoopInv' /\ DumpInv'
  BY <1>3 DEF IInv, CustodyInv, AckedKeysSaved, LoopInv, DumpInv, KeysUpTo
<1>10. QED
  BY <1>5, <1>7, <1>8, <1>9 DEF CustodyInv

LEMMA TimerDumpBeginsCustody ==
    ASSUME SyncAssumption, IInv, TimerDumpBegins PROVE CustodyInv'
<1> USE DEF gatewayVars, linkVars, batchVars, cursorVars, sdkVars, historyVars
<1> DEFINE d == [by |-> "timer", keys |-> store]
<1>1. /\ DOMAIN dumps' = 1..(Len(dumps) + 1) /\ DOMAIN dumps = 1..Len(dumps)
      /\ Len(dumps) \in Nat
      /\ \A i \in DOMAIN dumps : dumps'[i] = dumps[i]
      /\ dumps'[Len(dumps) + 1] = d
  BY AppendFacts DEF TimerDumpBegins, BeginDump, IInv, TypeOK
<1>2. LoopInv'
  BY <1>1 DEF TimerDumpBegins, IInv, CustodyInv, LoopInv
<1>3. DumpInv'
  BY <1>1 DEF TimerDumpBegins, IInv, CustodyInv, DumpInv
<1>4. Safe' = Safe /\ Known' = Known
  BY DEF TimerDumpBegins, Safe, Known
<1>5. FlowInv' /\ AckedKeysSaved' /\ CursorKeysSaved'
  BY <1>4 DEF TimerDumpBegins, IInv, CustodyInv, FlowInv, AckedKeysSaved,
              CursorKeysSaved, KeysUpTo
<1>6. BatchInv'
  <2>1. \A i \in DOMAIN dumps' : dumps'[i].by = "ack" => i \in DOMAIN dumps
    BY <1>1
  <2>2. QED
    BY <1>1, <1>4, <2>1 DEF TimerDumpBegins, IInv, CustodyInv, BatchInv, KeysUpTo
<1>7. QED
  BY <1>2, <1>3, <1>5, <1>6 DEF CustodyInv

LEMMA TimerDumpEndsCustody ==
    ASSUME SyncAssumption, IInv, TimerDumpEnds PROVE CustodyInv'
<1> USE DEF gatewayVars, linkVars, batchVars, cursorVars, sdkVars, historyVars
<1>1. /\ 1 \in DOMAIN dumps /\ Head(dumps) = dumps[1]
      /\ \A i \in DOMAIN dumps' : i + 1 \in DOMAIN dumps /\ dumps'[i] = dumps[i + 1]
                                 /\ i \in Nat /\ i >= 1
  BY DumpsTail DEF TimerDumpEnds, OldestDumpIs
<1>2. /\ snapshot' \in {dumps[1].keys, snapshot} /\ snapshot \subseteq snapshot'
      /\ UNCHANGED <<gatewayVars, linkVars, batchVars, cursorVars, sdkVars, historyVars>>
      /\ Safe \subseteq Safe' /\ Known' = Known
  BY <1>1 DEF TimerDumpEnds, IInv, CustodyInv, DumpInv, Safe, Known
<1>3. LoopInv'
  BY <1>1, <1>2 DEF IInv, CustodyInv, LoopInv
<1>4. DumpInv'
  <2>1. \A i \in DOMAIN dumps' :
          snapshot' \subseteq dumps'[i].keys /\ dumps'[i].keys \subseteq store'
    BY <1>1, <1>2 DEF IInv, CustodyInv, DumpInv
  <2>2. snapshot' \subseteq store'
    BY <1>1, <1>2 DEF IInv, CustodyInv, DumpInv
  <2>3. \A i, j \in DOMAIN dumps' : i <= j => dumps'[i].keys \subseteq dumps'[j].keys
    BY <1>1 DEF IInv, CustodyInv, DumpInv
  <2>4. QED
    BY <2>1, <2>2, <2>3 DEF DumpInv
<1>5. FlowInv' /\ AckedKeysSaved' /\ CursorKeysSaved'
  BY <1>2 DEF IInv, CustodyInv, FlowInv, AckedKeysSaved, CursorKeysSaved, KeysUpTo, Safe
<1>7. BatchInv'
  <2>1. \A i \in DOMAIN dumps' : dumps'[i].by = "ack"
          => KeysUpTo(flushing'.td) \subseteq dumps'[i].keys \cup overrun' \cup blind'
    BY <1>1, <1>2 DEF IInv, CustodyInv, BatchInv
  <2>2. QED
    BY <1>2, <2>1 DEF IInv, CustodyInv, BatchInv, KeysUpTo
<1>8. QED
  BY <1>3, <1>4, <1>5, <1>7 DEF CustodyInv

LEMMA CloseCustody ==
    ASSUME SyncAssumption, IInv, Close PROVE CustodyInv'
<1> USE DEF cursorVars, diskVars, historyVars
<1>1. /\ down' = <<>> /\ up' = <<>> /\ since' = -1 /\ pendingAck' = NoBatch
      /\ UNCHANGED <<deleted, syncQueue, flushing, cursorVars, inHand, store, diskVars, historyVars>>
      /\ Safe' = Safe /\ Known' = Known
      /\ KeysUpTo(NoBatch.td) = {} /\ KeysUpTo(-1) = {} /\ NoBatch.hadKeys = (NoBatch.keys # {})
      /\ DOMAIN down' = {} /\ DOMAIN up' = {}
  BY CursorFacts, NoBatchFacts DEF Close, Safe, Known
<1>2. LoopInv'
  BY DEF Close, IInv, CustodyInv, LoopInv
<1>3. DumpInv'
  BY <1>1 DEF IInv, CustodyInv, DumpInv
<1>4. FlowInv'
  <2>1. \A i \in DOMAIN syncQueue' : \A k \in KeysUpTo(syncQueue'[i].td) :
          k \in Known' \/ \E j \in 1..i : k \in syncQueue'[j].keys
    BY <1>1 DEF IInv, CustodyInv, FlowInv
  <2>2. QED
    BY <1>1, <2>1 DEF FlowInv, KeysUpTo
<1>5. BatchInv' /\ AckedKeysSaved' /\ CursorKeysSaved'
  BY <1>1 DEF IInv, CustodyInv, BatchInv, AckedKeysSaved, CursorKeysSaved, KeysUpTo
<1>6. QED
  BY <1>2, <1>3, <1>4, <1>5 DEF CustodyInv

LEMMA ReconnectCustody ==
    ASSUME SyncAssumption, IInv, Reconnect PROVE CustodyInv'
<1> USE DEF gatewayVars, batchVars, cursorVars, sdkVars, diskVars, historyVars
<1>1. Safe' = Safe /\ Known' = Known
  BY DEF Reconnect, Safe, Known
<1>2. \A i \in DOMAIN up' : KeysUpTo(up'[i].td) \subseteq Safe
  <2>1. SyncStart(acked).td = acked.td /\ KeysUpTo(acked.td) \subseteq Safe
    BY DEF SyncStart, IInv, CustodyInv, CursorKeysSaved, Safe
  <2>2. CASE syncStarted
    BY <2>1, <2>2 DEF Reconnect
  <2>3. CASE ~syncStarted
    BY <2>3 DEF Reconnect
  <2>4. QED
    BY <2>2, <2>3
<1>3. CursorKeysSaved'
  BY <1>1, <1>2 DEF Reconnect, IInv, CustodyInv, CursorKeysSaved, KeysUpTo, Safe
<1>4. LoopInv' /\ DumpInv' /\ FlowInv' /\ BatchInv' /\ AckedKeysSaved'
  BY <1>1 DEF Reconnect, IInv, CustodyInv, LoopInv, DumpInv, FlowInv, BatchInv,
              AckedKeysSaved, KeysUpTo
<1>5. QED
  BY <1>3, <1>4 DEF CustodyInv

LEMMA CrashCustody ==
    ASSUME SyncAssumption, IInv, Crash PROVE CustodyInv'
<1>1. /\ down' = <<>> /\ up' = <<>> /\ syncQueue' = <<>> /\ dumps' = <<>>
      /\ since' = -1 /\ pendingAck' = NoBatch /\ flushing' = NoBatch
      /\ sdk' = "ready" /\ inHand' = {} /\ store' = snapshot /\ acked' = file
      /\ UNCHANGED <<deleted, snapshot, file, overrun, blind>>
      /\ KeysUpTo(NoBatch.td) = {} /\ KeysUpTo(-1) = {} /\ NoBatch.hadKeys = (NoBatch.keys # {})
      /\ DOMAIN down' = {} /\ DOMAIN up' = {} /\ DOMAIN syncQueue' = {} /\ DOMAIN dumps' = {}
  BY CursorFacts, NoBatchFacts DEF Crash, historyVars
<1>2. LoopInv' /\ DumpInv' /\ FlowInv' /\ BatchInv'
  BY <1>1 DEF LoopInv, DumpInv, FlowInv, BatchInv, KeysUpTo
<1>3. AckedKeysSaved' /\ CursorKeysSaved'
  BY <1>1 DEF IInv, CustodyInv, AckedKeysSaved, CursorKeysSaved, KeysUpTo
<1>4. QED
  BY <1>2, <1>3 DEF CustodyInv

LEMMA NextCustody ==
    ASSUME SyncAssumption, IInv, [Next]_vars PROVE IInv'
<1>1. TypeOK'
  BY NextType DEF IInv
<1>2. CustodyInv'
  <2>1. CASE UNCHANGED vars
    BY <2>1 DEF vars, gatewayVars, linkVars, batchVars, cursorVars, sdkVars, diskVars,
                historyVars, IInv, CustodyInv, LoopInv, DumpInv, FlowInv,
                BatchInv, AckedKeysSaved, CursorKeysSaved, KeysUpTo, Known, Safe
  <2>2. CASE Next
    BY <2>2, GatewaySyncCustody, GatewayResetCustody, GatewayReadsCustody,
       RequestWithoutAckCustody, RequestWithAckCustody, RequestWithFlushCustody,
       FlushResolvesCustody, FlushRejectsCustody, WaitEndsCustody, SdkProcessesCustody,
       ReceiveSyncCustody, ReceiveResetCustody, TimerDumpBeginsCustody,
       TimerDumpEndsCustody, CloseCustody, ReconnectCustody, CrashCustody DEF Next
  <2>3. QED
    BY <2>1, <2>2
<1>3. QED
  BY <1>1, <1>2 DEF IInv

-----------------------------------------------------------------------------
(* The theorems. *)

LEMMA Inductive == Spec => []IInv
<1>1. Init => IInv
  BY InitType, InitCustody, SyncAssumption DEF IInv
<1>2. IInv /\ [Next]_vars => IInv'
  BY NextCustody, SyncAssumption
<1>3. QED
  BY <1>1, <1>2, PTL DEF Spec

\* flushBeforeAck: whatever disks fail, connections drop and whenever the process dies,
\* the homeserver deletes no key that is neither on the device's disk nor given up.
THEOREM KeysSavedBeforeDeleted == Spec => []AckedKeysSaved
<1>1. IInv => AckedKeysSaved
  BY DEF IInv, CustodyInv
<1>2. QED
  BY <1>1, Inductive, PTL

\* flushAndAckPending: no to-device cursor, in memory, on disk or on the wire, runs ahead
\* of the keys on disk and those given up.
THEOREM CursorsBehindKeys == Spec => []CursorKeysSaved
<1>1. IInv => CursorKeysSaved
  BY DEF IInv, CustodyInv
<1>2. QED
  BY <1>1, Inductive, PTL

\* Every step of the transport saves keys, lets the homeserver delete saved ones,
\* gives up keys it has no room for or passes unsaved, or does none of these.
LEMMA CustodyStep ==
    ASSUME SyncAssumption, IInv, IInv', [Next]_vars
    PROVE  [Custody!Next]_(Custody!custodyVars)
<1> USE DEF gatewayVars, linkVars, batchVars, cursorVars, sdkVars, diskVars, historyVars
<1> DEFINE held == KeyAt \ KeysUpTo(deleted)
<1>1. /\ 0 \in Nat /\ \A k \in KeyAt : k \in Nat
      /\ snapshot' \subseteq KeyAt /\ overrun' \subseteq KeyAt
      /\ blind' \subseteq KeyAt
  BY DEF IInv, TypeOK, SyncAssumption
<1>2. CASE deleted' = deleted /\ snapshot' = snapshot /\ overrun' = overrun /\ blind' = blind
  BY <1>2 DEF Custody!custodyVars, KeysUpTo
<1>3. CASE deleted' = deleted /\ overrun' = overrun /\ blind' = blind /\ snapshot \subseteq snapshot'
  <2>1. Custody!Save
    BY <1>1, <1>3 DEF Custody!Save, KeysUpTo
  <2>2. QED
    BY <2>1 DEF Custody!Next
<1>4. CASE deleted' = deleted /\ snapshot' = snapshot /\ overrun \subseteq overrun' /\ blind \subseteq blind'
  <2>1. Custody!GiveUp
    BY <1>1, <1>4 DEF Custody!GiveUp, KeysUpTo
  <2>2. QED
    BY <2>1 DEF Custody!Next
<1>5. CASE GatewayReads
  <2>1. snapshot' = snapshot /\ overrun' = overrun /\ blind' = blind
    BY <1>5 DEF GatewayReads
  <2>2. KeysUpTo(deleted') \subseteq snapshot \cup overrun \cup blind
    BY <2>1 DEF IInv, CustodyInv, AckedKeysSaved, KeysUpTo
  <2>3. KeysUpTo(deleted) \subseteq KeysUpTo(deleted')
    <3>1. Head(up).td \in 0..StreamEnd
      <4>1. Head(up) \in UpFrames
        BY <1>5 DEF GatewayReads, IInv, TypeOK
      <4>2. QED
        BY <4>1 DEF UpFrames
    <3>2. deleted <= deleted' /\ deleted \in -1..StreamEnd /\ deleted' \in -1..StreamEnd
      BY <1>5, <3>1 DEF GatewayReads, Larger, IInv, TypeOK, SyncAssumption
    <3>3. QED
      BY <3>2, CursorFacts
  <2>4. Custody!Release
    <3>1. KeysUpTo(deleted)' = KeysUpTo(deleted') /\ KeysUpTo(deleted') \subseteq KeyAt
      BY DEF KeysUpTo
    <3>2. QED
      BY <2>1, <2>2, <2>3, <3>1 DEF Custody!Release
  <2>5. QED
    BY <2>4 DEF Custody!Next
<1>6. CASE Next /\ ~GatewayReads
  <2>1. CASE FlushResolves
    <3>1. dumps # <<>> /\ 1 \in DOMAIN dumps /\ Head(dumps) = dumps[1]
      BY <2>1, TailFacts DEF FlushResolves, OldestDumpIs, IInv, TypeOK
    <3>2. QED
      BY <1>3, <1>4, <2>1, <3>1 DEF FlushResolves, IInv, CustodyInv, DumpInv
  <2>2. CASE TimerDumpEnds
    <3>1. dumps # <<>> /\ 1 \in DOMAIN dumps /\ Head(dumps) = dumps[1]
      BY <2>2, TailFacts DEF TimerDumpEnds, OldestDumpIs, IInv, TypeOK
    <3>2. QED
      BY <1>3, <2>2, <3>1 DEF TimerDumpEnds, IInv, CustodyInv, DumpInv
  <2>3. CASE ReceiveSync
    BY <1>4, <2>3 DEF ReceiveSync
  <2>4. CASE ReceiveReset
    BY <1>2, <2>4 DEF ReceiveReset
  <2>5. CASE GatewaySync \/ GatewayReset \/ RequestWithoutAck \/ RequestWithFlush
    BY <1>2, <2>5 DEF GatewaySync, GatewayReset, RequestWithoutAck, RequestWithFlush
  <2>6. CASE FlushRejects \/ WaitEnds \/ SdkProcesses \/ TimerDumpBegins \/ Close
             \/ Reconnect \/ Crash
    BY <1>2, <2>6 DEF FlushRejects, WaitEnds, SdkProcesses, TimerDumpBegins, Close,
                      Reconnect, Crash
  <2>7. CASE RequestWithAck
    BY <1>4, <2>7 DEF RequestWithAck
  <2>8. QED
    BY <1>6, <2>1, <2>2, <2>3, <2>4, <2>5, <2>6, <2>7 DEF Next
<1>7. CASE UNCHANGED vars
  BY <1>2, <1>7 DEF vars
<1>8. QED
  BY <1>5, <1>6, <1>7

\* The transport with its crypto snapshot implements KeyCustody: no key
\* disappears from both the homeserver and the disk but one given up before.
THEOREM ImplementsCustody == Spec => RefinesCustody
<1>1. Init => Custody!Init
  <2>1. KeysUpTo(0) = {}
    BY CursorFacts, SyncAssumption
  <2>2. QED
    BY <2>1 DEF Init, Custody!Init
<1>2. IInv /\ IInv' /\ [Next]_vars => [Custody!Next]_(Custody!custodyVars)
  BY CustodyStep, SyncAssumption
<1>3. Spec => []IInv
  BY Inductive
<1>4. QED
  BY <1>1, <1>2, <1>3, PTL DEF Spec, RefinesCustody, Custody!Spec

-----------------------------------------------------------------------------
(* The ack echo. *)

\* A sync_reset that forgets the to-device cursor forgets the room position too.
ResetsNamePos == \A cs \in ResetCursors : "to_device_pos" \in cs => "pos" \in cs

\* A frame, a batch or an ack has the two cursors of one frame the gateway sent.
Carried(f, h) == f.pos \in DOMAIN h /\ f.td = h[f.pos]

\* From the gateway through the backlog and the batch back to the gateway, a room
\* position and a to-device cursor travel together.
EchoInv ==
    /\ \A i \in DOMAIN down : down[i].t = "sync" => Carried(down[i], tdOf)
    /\ \A i \in DOMAIN syncQueue : Carried(syncQueue[i], tdOf)
    /\ pendingAck.pos # 0 => Carried(pendingAck, tdOf)
    /\ flushing.pos # 0 => Carried(flushing, tdOf)
    /\ \A i \in DOMAIN up : up[i].t = "sync_ack" => Carried(up[i], tdOf)

LEMMA InitEcho == Init => EchoInv
BY DEF Init, EchoInv, NoBatch

LEMMA NoBatchEcho == NoBatch.pos = 0
BY DEF NoBatch

\* A request acks a batch or nothing, and hands out the next frame.
LEMMA ServeEcho ==
    ASSUME TypeOK, EchoInv, UNCHANGED <<tdOf, down>>,
           NEW acks \in Seq(UpFrames), NEW c \in Cursors, NEW kept, Serve(acks, c, kept),
           \A i \in DOMAIN acks : Carried(acks[i], tdOf),
           kept.pos # 0 => Carried(kept, tdOf),
           flushing'.pos # 0 => Carried(flushing', tdOf)
    PROVE  EchoInv'
<1>1. \A i \in DOMAIN up' : up'[i].t = "sync_ack" => Carried(up'[i], tdOf)
  <2> DEFINE tail == IF syncStarted THEN <<>> ELSE <<SyncStart(c)>>
             sent == acks \o tail
  <2>1. /\ tail \in Seq(UpFrames) /\ Len(tail) \in Nat
        /\ \A i \in DOMAIN tail : tail[i].t # "sync_ack"
    <3>1. SyncStart(c) \in UpFrames /\ SyncStart(c).t # "sync_ack"
      BY DEF SyncStart, UpFrames, Cursors
    <3>2. QED
      BY <3>1
  <2> HIDE DEF tail
  <2>2. sent \in Seq(UpFrames) /\ Len(sent) = Len(acks) + Len(tail)
        /\ \A i \in 1..Len(sent) : sent[i] = IF i =< Len(acks) THEN acks[i]
                                             ELSE tail[i - Len(acks)]
    BY <2>1
  <2>3. \A i \in DOMAIN sent : sent[i].t = "sync_ack" => Carried(sent[i], tdOf)
    <3>1. ASSUME NEW i \in 1..Len(sent), sent[i].t = "sync_ack" PROVE Carried(sent[i], tdOf)
      <4>1. CASE i =< Len(acks)
        BY <2>2, <3>1, <4>1
      <4>2. CASE ~(i =< Len(acks))
        <5>1. i - Len(acks) \in 1..Len(tail)
          BY <2>1, <2>2, <3>1, <4>2
        <5>2. QED
          BY <2>1, <2>2, <3>1, <4>2, <5>1
      <4>3. QED
        BY <4>1, <4>2
    <3>2. QED
      BY <2>2, <3>1
  <2> HIDE DEF sent
  <2>4. up \in Seq(UpFrames) /\ DOMAIN up = 1..Len(up) /\ DOMAIN sent = 1..Len(sent)
    BY <2>2 DEF TypeOK
  <2>5. up' = IF connected THEN up \o sent ELSE up
    BY DEF Serve, Send, sent, tail
  <2>6. CASE connected
    <3>1. DOMAIN up' = 1..(Len(up) + Len(sent))
          /\ \A i \in DOMAIN up' : up'[i] = IF i =< Len(up) THEN up[i] ELSE sent[i - Len(up)]
      <4>1. up' = up \o sent /\ up \in Seq(UpFrames) /\ sent \in Seq(UpFrames)
        BY <2>2, <2>4, <2>5, <2>6
      <4>2. Len(up') = Len(up) + Len(sent) /\ DOMAIN up' = 1..Len(up')
        BY <4>1
      <4>3. \A i \in 1..(Len(up) + Len(sent)) :
              up'[i] = IF i =< Len(up) THEN up[i] ELSE sent[i - Len(up)]
        BY <4>1
      <4>4. QED
        BY <4>2, <4>3
    <3>2. ASSUME NEW i \in DOMAIN up', up'[i].t = "sync_ack" PROVE Carried(up'[i], tdOf)
      <4>1. CASE i =< Len(up)
        BY <2>4, <3>1, <3>2, <4>1 DEF EchoInv
      <4>2. CASE ~(i =< Len(up))
        <5>1. i - Len(up) \in DOMAIN sent
          BY <2>2, <2>4, <3>1, <3>2, <4>2
        <5>2. QED
          BY <2>3, <3>1, <3>2, <4>2, <5>1
      <4>3. QED
        BY <4>1, <4>2
    <3>3. QED
      BY <3>2
  <2>7. CASE ~connected
    BY <2>5, <2>7 DEF EchoInv
  <2>8. QED
    BY <2>6, <2>7
<1>2. /\ \A i \in DOMAIN syncQueue' : Carried(syncQueue'[i], tdOf)
      /\ pendingAck'.pos # 0 => Carried(pendingAck', tdOf)
  <2>1. CASE syncQueue # <<>> /\ Deliver(Head(syncQueue)) /\ syncQueue' = Tail(syncQueue)
    <3>1. /\ Head(syncQueue) = syncQueue[1] /\ 1 \in DOMAIN syncQueue
          /\ \A i \in DOMAIN Tail(syncQueue) :
                i + 1 \in DOMAIN syncQueue /\ Tail(syncQueue)[i] = syncQueue[i + 1]
      BY <2>1, TailFacts DEF TypeOK
    <3>2. pendingAck'.pos = syncQueue[1].pos /\ pendingAck'.td = syncQueue[1].td
      BY <2>1, <3>1 DEF Deliver
    <3>3. QED
      BY <2>1, <3>1, <3>2 DEF EchoInv, Carried
  <2>2. CASE pendingAck' = kept /\ UNCHANGED syncQueue
    BY <2>2 DEF EchoInv
  <2>3. QED
    BY <2>1, <2>2 DEF Serve, NextSyncFrame
<1>3. QED
  BY <1>1, <1>2 DEF EchoInv

\* The ack of a batch that has a room position.
LEMMA AckEcho ==
    ASSUME NEW b \in Batches, NEW h, b.pos # 0 => Carried(b, h)
    PROVE  \A i \in DOMAIN AckOf(b) : Carried(AckOf(b)[i], h)
BY DEF AckOf, Carried, Batches

LEMMA RequestEcho ==
    ASSUME SyncAssumption, TypeOK, EchoInv,
           RequestWithoutAck \/ RequestWithAck \/ FlushResolves \/ FlushRejects
    PROVE  EchoInv'
<1>1. /\ pendingAck \in Batches /\ flushing \in Batches /\ acked \in Cursors
      /\ <<>> \in Seq(UpFrames) /\ DOMAIN <<>> = {}
  BY DEF TypeOK
<1>2. CASE RequestWithoutAck
  <2>1. Serve(<<>>, acked, pendingAck) /\ UNCHANGED <<tdOf, down, flushing>>
    BY <1>2 DEF RequestWithoutAck, gatewayVars
  <2>2. QED
    BY <1>1, <2>1, ServeEcho DEF EchoInv
<1>3. CASE RequestWithAck
  <2>1. /\ Serve(AckOf(pendingAck), acked', NoBatch) /\ acked' = Durable(pendingAck)
        /\ UNCHANGED <<tdOf, down, flushing>>
    BY <1>3 DEF RequestWithAck, PersistCursors, gatewayVars
  <2>2. AckOf(pendingAck) \in Seq(UpFrames) /\ acked' \in Cursors
    BY <1>1, <2>1, BatchTypes
  <2>3. \A i \in DOMAIN AckOf(pendingAck) : Carried(AckOf(pendingAck)[i], tdOf)
    BY <1>1, AckEcho DEF EchoInv
  <2>4. flushing'.pos # 0 => Carried(flushing', tdOf)
    BY <2>1 DEF EchoInv
  <2>5. QED
    BY <2>1, <2>2, <2>3, <2>4, ServeEcho, NoBatchEcho
<1>4. CASE FlushResolves
  <2>1. /\ Serve(AckOf(flushing), acked', pendingAck) /\ acked' = Durable(flushing)
        /\ UNCHANGED <<tdOf, down>> /\ flushing' = NoBatch
    BY <1>4 DEF FlushResolves, PersistCursors, gatewayVars
  <2>2. AckOf(flushing) \in Seq(UpFrames) /\ acked' \in Cursors
    BY <1>1, <2>1, BatchTypes
  <2>3. \A i \in DOMAIN AckOf(flushing) : Carried(AckOf(flushing)[i], tdOf)
    BY <1>1, AckEcho DEF EchoInv
  <2>4. flushing'.pos = 0 /\ (pendingAck.pos # 0 => Carried(pendingAck, tdOf))
    BY <2>1, NoBatchEcho DEF EchoInv
  <2>5. QED
    BY <2>1, <2>2, <2>3, <2>4, ServeEcho
<1>5. CASE FlushRejects
  <2>1. Serve(<<>>, acked, flushing) /\ UNCHANGED <<tdOf, down>> /\ flushing' = NoBatch
    BY <1>5 DEF FlushRejects, gatewayVars
  <2>2. flushing'.pos = 0 /\ (flushing.pos # 0 => Carried(flushing, tdOf))
    BY <2>1, NoBatchEcho DEF EchoInv
  <2>3. QED
    BY <1>1, <2>1, <2>2, ServeEcho
<1>6. QED
  BY <1>2, <1>3, <1>4, <1>5

\* The gateway sends.
LEMMA SentEcho == ASSUME TypeOK, EchoInv, GatewaySync \/ GatewayReset PROVE EchoInv'
<1>1. CASE GatewaySync
  <2>1. PICK td, ks :
          /\ down' = Append(down, SyncFrame(Len(tdOf) + 1, td, ks))
          /\ tdOf' = Append(tdOf, td)
    BY <1>1 DEF GatewaySync
  <2>2. UNCHANGED <<syncQueue, pendingAck, flushing, up>>
    BY <1>1 DEF GatewaySync, batchVars
  <2> DEFINE f == SyncFrame(Len(tdOf) + 1, td, ks)
  <2>3. f.pos = Len(tdOf) + 1 /\ f.td = td
    BY DEF SyncFrame
  <2>4. /\ DOMAIN tdOf' = 1..(Len(tdOf) + 1) /\ Len(tdOf) \in Nat
        /\ \A p \in DOMAIN tdOf : p \in DOMAIN tdOf' /\ tdOf'[p] = tdOf[p]
        /\ tdOf'[Len(tdOf) + 1] = td
    BY <2>1, AppendFacts DEF TypeOK
  <2>5. Carried(f, tdOf')
    BY <2>3, <2>4 DEF Carried
  <2> HIDE DEF f
  <2>6. \A g : Carried(g, tdOf) => Carried(g, tdOf')
    BY <2>4 DEF Carried
  <2>7. /\ DOMAIN down' = 1..(Len(down) + 1) /\ DOMAIN down = 1..Len(down)
        /\ Len(down) \in Nat /\ \A i \in DOMAIN down : down'[i] = down[i]
        /\ down'[Len(down) + 1] = f
    BY <2>1, AppendFacts DEF TypeOK, f
  <2>8. \A i \in DOMAIN down' : down'[i].t = "sync" => Carried(down'[i], tdOf')
    BY <2>5, <2>6, <2>7 DEF EchoInv
  <2>9. QED
    BY <2>2, <2>6, <2>8 DEF EchoInv
<1>2. CASE GatewayReset
  <2>1. PICK c \in ResetCursors : down' = Append(down, ResetFrame(Len(tdOf), c))
    BY <1>2 DEF GatewayReset
  <2>2. UNCHANGED <<tdOf, syncQueue, pendingAck, flushing, up>>
    BY <1>2 DEF GatewayReset, batchVars
  <2> DEFINE f == ResetFrame(Len(tdOf), c)
  <2>3. f.t # "sync"
    BY DEF ResetFrame
  <2> HIDE DEF f
  <2>4. /\ DOMAIN down' = 1..(Len(down) + 1) /\ DOMAIN down = 1..Len(down)
        /\ Len(down) \in Nat /\ \A i \in DOMAIN down : down'[i] = down[i]
        /\ down'[Len(down) + 1] = f
    BY <2>1, AppendFacts DEF TypeOK, f
  <2>5. QED
    BY <2>2, <2>3, <2>4 DEF EchoInv
<1>3. QED
  BY <1>1, <1>2

\* Frames are read on either side.
LEMMA ReadEcho == ASSUME TypeOK, EchoInv, GatewayReads \/ ReceiveSync PROVE EchoInv'
<1>1. CASE GatewayReads
  <2>1. /\ up # <<>> /\ up' = Tail(up) /\ up \in Seq(UpFrames)
        /\ UNCHANGED <<tdOf, down, syncQueue, pendingAck, flushing>>
    BY <1>1 DEF GatewayReads, batchVars, TypeOK
  <2>2. \A i \in DOMAIN Tail(up) : i + 1 \in DOMAIN up /\ Tail(up)[i] = up[i + 1]
    BY <2>1, TailFacts
  <2>3. QED
    BY <2>1, <2>2 DEF EchoInv
<1>2. CASE ReceiveSync
  <2>1. /\ down # <<>> /\ down' = Tail(down) /\ Head(down).t = "sync"
        /\ UNCHANGED <<tdOf, up, flushing>>
    BY <1>2 DEF ReceiveSync, gatewayVars
  <2>2. /\ Head(down) = down[1] /\ 1 \in DOMAIN down
        /\ \A i \in DOMAIN Tail(down) : i + 1 \in DOMAIN down /\ Tail(down)[i] = down[i + 1]
    BY <2>1, TailFacts DEF TypeOK
  <2>3. Carried(Head(down), tdOf)
    BY <2>1, <2>2 DEF EchoInv
  <2>4. \A i \in DOMAIN down' : down'[i].t = "sync" => Carried(down'[i], tdOf)
    BY <2>1, <2>2 DEF EchoInv
  <2>5. CASE Deliver(Head(down)) /\ UNCHANGED syncQueue
    <3>1. pendingAck'.pos = Head(down).pos /\ pendingAck'.td = Head(down).td
      BY <2>5 DEF Deliver
    <3>2. Carried(pendingAck', tdOf)
      BY <2>3, <3>1 DEF Carried
    <3>3. QED
      BY <2>1, <2>4, <2>5, <3>2 DEF EchoInv
  <2>6. CASE /\ UNCHANGED pendingAck
             /\ \/ syncQueue' = Append(syncQueue, Head(down))
                \/ syncQueue' = Tail(Append(syncQueue, Head(down)))
    <3> DEFINE q == Append(syncQueue, Head(down))
    <3>1. /\ DOMAIN q = 1..(Len(syncQueue) + 1) /\ DOMAIN syncQueue = 1..Len(syncQueue)
          /\ Len(syncQueue) \in Nat /\ \A i \in DOMAIN syncQueue : q[i] = syncQueue[i]
          /\ q[Len(syncQueue) + 1] = Head(down)
      BY AppendFacts DEF TypeOK
    <3>2. \A i \in DOMAIN q : Carried(q[i], tdOf)
      BY <2>3, <3>1 DEF EchoInv
    <3>3. q \in Seq(DownFrames) /\ q # <<>>
      <4>1. Head(down) \in DownFrames /\ syncQueue \in Seq(DownFrames)
        BY <2>1, <2>2 DEF TypeOK
      <4>2. q \in Seq(DownFrames) /\ Len(q) = Len(syncQueue) + 1 /\ Len(syncQueue) \in Nat
        BY <4>1
      <4>3. q # <<>>
        BY <4>2
      <4>4. QED
        BY <4>2, <4>3
    <3> HIDE DEF q
    <3>4. \A i \in DOMAIN Tail(q) : i + 1 \in DOMAIN q /\ Tail(q)[i] = q[i + 1]
      BY <3>3, TailFacts
    <3>5. \A i \in DOMAIN Tail(q) : Carried(Tail(q)[i], tdOf)
      BY <3>2, <3>4
    <3>6. syncQueue' = q \/ syncQueue' = Tail(q)
      BY <2>6 DEF q
    <3>7. \A i \in DOMAIN syncQueue' : Carried(syncQueue'[i], tdOf)
      BY <3>2, <3>5, <3>6
    <3>8. QED
      BY <2>1, <2>4, <2>6, <3>7 DEF EchoInv
  <2>7. QED
    BY <1>2, <2>5, <2>6 DEF ReceiveSync
<1>3. QED
  BY <1>1, <1>2

\* A reset makes a batch have no room position, or leaves its two cursors alone.
LEMMA ResetEcho ==
    ASSUME SyncAssumption, ResetsNamePos, TypeOK, EchoInv, ReceiveReset
    PROVE  EchoInv'
<1>1. /\ down # <<>> /\ down' = Tail(down) /\ Head(down).t = "sync_reset"
      /\ UNCHANGED <<tdOf, up, flushing, syncQueue>>
      /\ \/ UNCHANGED pendingAck
         \/ pendingAck' = WithoutCursors(pendingAck, Head(down).drop)
  BY DEF ReceiveReset, gatewayVars
<1>2. /\ Head(down) = down[1] /\ 1 \in DOMAIN down
      /\ \A i \in DOMAIN Tail(down) : i + 1 \in DOMAIN down /\ Tail(down)[i] = down[i + 1]
  BY <1>1, TailFacts DEF TypeOK
<1>3. Head(down).drop \in ResetCursors
  BY <1>1, <1>2 DEF TypeOK, DownFrames
<1>4. pendingAck'.pos # 0 => pendingAck'.pos = pendingAck.pos /\ pendingAck'.td = pendingAck.td
  BY <1>1, <1>3 DEF WithoutCursors, ResetsNamePos
<1>5. pendingAck'.pos # 0 => Carried(pendingAck', tdOf)
  BY <1>4 DEF EchoInv, Carried
<1>6. QED
  BY <1>1, <1>2, <1>5 DEF EchoInv

\* The connection comes and goes, and the process dies.
LEMMA LinkEcho == ASSUME EchoInv, Close \/ Reconnect \/ Crash PROVE EchoInv'
<1>1. CASE Close
  BY <1>1, NoBatchEcho DEF Close, EchoInv
<1>2. CASE Reconnect
  BY <1>2 DEF Reconnect, SyncStart, EchoInv, gatewayVars, batchVars
<1>3. CASE Crash
  BY <1>3, NoBatchEcho DEF Crash, EchoInv
<1>4. QED
  BY <1>1, <1>2, <1>3

LEMMA NextEcho ==
    ASSUME SyncAssumption, ResetsNamePos, TypeOK, EchoInv, [Next]_vars PROVE EchoInv'
<1>1. CASE UNCHANGED vars \/ WaitEnds \/ SdkProcesses \/ TimerDumpBegins \/ TimerDumpEnds
  <2>1. UNCHANGED <<tdOf, down, syncQueue, pendingAck, flushing, up>>
    BY <1>1 DEF vars, WaitEnds, SdkProcesses, TimerDumpBegins, TimerDumpEnds, gatewayVars,
                linkVars, batchVars
  <2>2. QED
    BY <2>1 DEF EchoInv
<1>2. CASE RequestWithFlush
  BY <1>2, NoBatchEcho DEF RequestWithFlush, gatewayVars, linkVars, EchoInv
<1>3. QED
  BY <1>1, <1>2, RequestEcho, SentEcho, ReadEcho, ResetEcho, LinkEcho DEF Next

\* flushAndAckPending: whatever is reset, dropped or resumed, an ack names a frame's room
\* position with the to-device cursor that frame carried.
THEOREM AcksEcho == ResetsNamePos /\ Spec => []EchoExact
<1> SUFFICES ASSUME ResetsNamePos PROVE Spec => []EchoExact
  BY DEF ResetsNamePos
<1>1. SyncAssumption
  BY SyncAssumption
<1>2. EchoInv => EchoExact
  BY DEF EchoInv, EchoExact, Carried
<1>3. Init => EchoInv
  BY InitEcho
<1>4. SyncAssumption /\ ResetsNamePos /\ TypeOK /\ EchoInv /\ [Next]_vars => EchoInv'
  BY NextEcho
<1>5. QED
  BY <1>1, <1>2, <1>3, <1>4, TypeCorrect, PTL DEF Spec
=============================================================================
