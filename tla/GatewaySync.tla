---------------------------- MODULE GatewaySync ----------------------------
(***************************************************************************)
(* The sync half of src/src/matrix/gateway-transport.ts with the crypto    *)
(* snapshot of idb-persistence.ts: sliding-sync frames pushed by the       *)
(* gateway are handed one at a time to the Matrix SDK, whose next request  *)
(* stands for "I have processed the last one"; the transport then flushes  *)
(* the crypto store, persists its two cursors and acks the frame, and the  *)
(* homeserver may delete the to-device room keys the ack covers.           *)
(*                                                                         *)
(* The to-device stream is 1..StreamEnd; the positions in KeyAt carry a    *)
(* room key for this device, the others only move the cursor.  A to-device *)
(* cursor td covers the positions up to td; 0 stands for `undefined`, for  *)
(* cursors and for room positions (`pos`) alike.  Room positions are       *)
(* numbered in the order the gateway hands them out.                       *)
(*                                                                         *)
(* The socket itself is modelled in GatewaySocket: here a connection is up *)
(* (`connected`) or not, and what is sent on a dead one is lost.           *)
(***************************************************************************)
EXTENDS Integers, Sequences, FiniteSets

CONSTANTS
    StreamEnd,      \* last position of the to-device stream
    KeyAt,          \* positions of the stream that carry a room key
    MaxSyncQueue,   \* MAX_SYNC_QUEUE: frames buffered before the oldest is dropped
    ResetCursors,   \* sets of cursors a sync_reset frame may name
    DiskFaults,     \* failures of the local disk that may happen
    MaxFrames       \* bound: sync frames the gateway sends in a behaviour

Faults == {"flush_throws",      \* flushBeforeAck rejects
           "flush_swallowed",   \* the snapshot is not written and nobody is told
           "cursor_lost"}       \* the cursor file is not written, which is only logged

ASSUME SyncAssumption ==
    /\ StreamEnd \in Nat
    /\ KeyAt \subseteq 1..StreamEnd
    /\ MaxSyncQueue \in Nat \ {0}
    /\ ResetCursors \subseteq SUBSET {"pos", "to_device_pos"}
    /\ DiskFaults \subseteq Faults
    /\ MaxFrames \in Nat

VARIABLES
    \* the homeserver and the gateway (external)
    deleted,      \* the homeserver has deleted the stream up to here
    since,        \* the gateway has sent the stream up to here, -1: no sync loop
    tdOf,         \* history: to-device cursor of each frame, by its room position
    \* the connection
    connected,    \* auth_ok seen on the live socket
    down,         \* frames from the gateway not yet received
    up,           \* frames from the device the gateway has not yet read
    \* GatewayTransport
    syncStarted,  \* the first slidingSyncRequest has been made
    syncQueue,    \* frames buffered while the SDK is not waiting
    pendingAck,   \* the batch the SDK was last handed, not yet acked
    flushing,     \* the batch whose flush is awaited (a local of flushAndAckPending)
    acked,        \* ackedPos, ackedToDevicePos
    \* the Matrix SDK's sync loop and crypto store
    sdk,          \* what the loop is doing
    inHand,       \* keys of the frame being processed
    store,        \* keys in the in-memory crypto store
    \* durable storage
    dumps,        \* snapshots of the store being taken, oldest first
    snapshot,     \* keys in crypto-idb-snapshot.json
    file,         \* the cursors in sync-pos.txt
    \* history
    overrun,      \* keys of frames dropped at a full backlog
    blind,        \* keys a cursor has passed although no flush had saved them
    expired       \* last room position a processed sync_reset has invalidated

gatewayVars == <<deleted, since, tdOf>>
linkVars    == <<connected, down, up>>
cursorVars  == <<acked, file>>
sdkVars     == <<sdk, inHand, store>>
diskVars    == <<dumps, snapshot>>
historyVars == <<overrun, blind, expired>>
batchVars   == <<syncStarted, syncQueue, pendingAck, flushing>>
vars == <<gatewayVars, linkVars, batchVars, cursorVars, sdkVars, diskVars, historyVars>>

-----------------------------------------------------------------------------
(* Frames, batches and cursors. *)

Cursors == [pos : 0..MaxFrames, td : 0..StreamEnd]
NoCursors == [pos |-> 0, td |-> 0]

\* What markPending records of a frame, and (history) its keys; NoBatch is `undefined`.
Batches == [pos : 0..MaxFrames, td : 0..StreamEnd, hadKeys : BOOLEAN, keys : SUBSET KeyAt]
NoBatch == [pos |-> 0, td |-> 0, hadKeys |-> FALSE, keys |-> {}]

SyncFrame(p, t, ks) == [t |-> "sync", pos |-> p, td |-> t, keys |-> ks, drop |-> {}]
ResetFrame(p, cs) == [t |-> "sync_reset", pos |-> p, td |-> 0, keys |-> {}, drop |-> cs]

DownFrames ==
    [t : {"sync"}, pos : 0..MaxFrames, td : 0..StreamEnd, keys : SUBSET KeyAt, drop : {{}}]
    \cup [t : {"sync_reset"}, pos : 0..MaxFrames, td : {0}, keys : {{}}, drop : ResetCursors]
UpFrames == [t : {"sync_start", "sync_ack"}, pos : 0..MaxFrames, td : 0..StreamEnd]
Dumps == [by : {"ack", "timer"}, keys : SUBSET KeyAt]

\* A backlog over its limit.
Overfull(q) == Len(q) > MaxSyncQueue

\* The keys a to-device cursor covers.
KeysUpTo(td) == {k \in KeyAt : k <= td}

Larger(a, b) == IF a > b THEN a ELSE b

-----------------------------------------------------------------------------
(* Initial state: a fresh device, its transport connected and not syncing. *)

Init ==
    /\ deleted = 0 /\ since = -1 /\ tdOf = <<>>
    /\ connected = TRUE /\ down = <<>> /\ up = <<>>
    /\ syncStarted = FALSE /\ syncQueue = <<>>
    /\ pendingAck = NoBatch /\ flushing = NoBatch
    /\ acked = NoCursors /\ file = NoCursors
    /\ sdk = "ready" /\ inHand = {} /\ store = {}
    /\ dumps = <<>> /\ snapshot = {}
    /\ overrun = {} /\ blind = {} /\ expired = 0

-----------------------------------------------------------------------------
(* The gateway and the homeserver behind it (external). *)

\* Push the next delta: it takes the stream on to position n (a frame that does
\* not move the to-device cursor carries none) with the keys not yet deleted.
GatewaySync ==
    /\ connected /\ since >= 0
    /\ Len(tdOf) < MaxFrames
    /\ \E n \in since..StreamEnd :
         LET td == IF n > since THEN n ELSE 0
             ks == {k \in KeyAt : since < k /\ k <= n /\ k > deleted}
         IN  /\ down' = Append(down, SyncFrame(Len(tdOf) + 1, td, ks))
             /\ tdOf' = Append(tdOf, td)
             /\ since' = n
    /\ UNCHANGED <<deleted, connected, up, batchVars, cursorVars, sdkVars, diskVars,
                   historyVars>>

\* The homeserver expired the room cursor: the gateway starts its upstream sync
\* again on the same socket and may resend to-device messages not yet deleted.
GatewayReset ==
    /\ connected /\ since >= 0
    /\ \A i \in DOMAIN down : down[i].t # "sync_reset"     \* bound: one in flight
    /\ \E c \in ResetCursors, s \in 0..since :
         /\ down' = Append(down, ResetFrame(Len(tdOf), c))
         /\ since' = s
    /\ UNCHANGED <<deleted, tdOf, connected, up, batchVars, cursorVars, sdkVars, diskVars,
                   historyVars>>

\* Read sync_start or sync_ack.  Either hands the homeserver a to-device cursor,
\* and the homeserver deletes what the cursor covers.
GatewayReads ==
    /\ up # <<>>
    /\ LET f == Head(up)
       IN  /\ deleted' = Larger(deleted, f.td)
           /\ since' = IF f.t = "sync_start" THEN f.td ELSE since
    /\ up' = Tail(up)
    /\ UNCHANGED <<tdOf, connected, down, batchVars, cursorVars, sdkVars, diskVars,
                   historyVars>>

-----------------------------------------------------------------------------
(* Handing frames to the SDK. *)

\* Mutant: respHasToDevice overlooks the to-device section.
DeliverUnflagged(f) ==
    /\ pendingAck' = [pos |-> f.pos, td |-> f.td, hadKeys |-> FALSE, keys |-> f.keys]
    /\ inHand' = f.keys
    /\ sdk' = "processing"

\* markPending, and the frame's keys for the SDK to process.
Deliver(f) ==
    /\ pendingAck' = [pos |-> f.pos, td |-> f.td, hadKeys |-> f.keys # {}, keys |-> f.keys]
    /\ inHand' = f.keys
    /\ sdk' = "processing"

\* nextSyncFrame: the oldest buffered frame, or wait for one.  `kept` is the
\* batch that stays pending when no frame replaces it.
NextSyncFrame(kept) ==
    \/ /\ syncQueue # <<>>
       /\ Deliver(Head(syncQueue))
       /\ syncQueue' = Tail(syncQueue)
    \/ /\ syncQueue = <<>>
       /\ sdk' = "waiting"
       /\ pendingAck' = kept
       /\ UNCHANGED <<inHand, syncQueue>>

SyncStart(c) == [t |-> "sync_start", pos |-> c.pos, td |-> c.td]

\* safeSend: what is sent without a live connection is lost.
Send(frames) == up' = IF connected THEN up \o frames ELSE up

\* slidingSyncRequest after the flush: start the gateway's loop the first time,
\* after the ack of the last batch, and take the next frame.
Serve(acks, cursors, kept) ==
    /\ Send(acks \o IF syncStarted THEN <<>> ELSE <<SyncStart(cursors)>>)
    /\ syncStarted' = TRUE
    /\ NextSyncFrame(kept)

\* persistAckedCursors: a failed write is only logged.
PersistCursors(c) ==
    /\ acked' = c
    /\ \/ file' = c
       \/ /\ "cursor_lost" \in DiskFaults
          /\ file' = file

\* The durable to-device cursor carries the last one forward.
Durable(b) == [pos |-> b.pos, td |-> IF b.td # 0 THEN b.td ELSE acked.td]

\* The ack echoes the frame's cursors; without a room position there is none.
\* Mutant: it names the carried-forward to-device cursor.
AckOfDurable(b) ==
    IF b.pos = 0 THEN <<>> ELSE <<[t |-> "sync_ack", pos |-> b.pos, td |-> Durable(b).td]>>
AckOf(b) ==
    IF b.pos = 0 THEN <<>> ELSE <<[t |-> "sync_ack", pos |-> b.pos, td |-> b.td]>>

\* The keys the durable cursor of b passes that are not on disk.
Passes(b) == KeysUpTo(Durable(b).td) \ snapshot

-----------------------------------------------------------------------------
(* slidingSyncRequest. *)

\* Nothing pending, or no connection to ack on: the batch stays pending.
RequestWithoutAck ==
    /\ sdk = "ready"
    /\ pendingAck = NoBatch \/ ~connected
    /\ Serve(<<>>, acked, pendingAck)
    /\ UNCHANGED <<gatewayVars, connected, down, flushing, cursorVars, store, diskVars,
                   historyVars>>

\* A batch without room keys is acked at once, with a cursor that also covers the keys
\* of the batches before it, whatever became of their flush.
RequestWithAck ==
    /\ sdk = "ready"
    /\ pendingAck # NoBatch /\ connected
    /\ ~pendingAck.hadKeys
    /\ PersistCursors(Durable(pendingAck))
    /\ Serve(AckOf(pendingAck), acked', NoBatch)
    /\ blind' = blind \cup (Passes(pendingAck) \ pendingAck.keys)
    /\ UNCHANGED <<gatewayVars, connected, down, flushing, store, diskVars, overrun, expired>>

\* dumpIndexedDatabases of the store as it is now; mutant: a later dump overtakes
\* those under way.
BeginDumpAhead(by) == dumps' = <<[by |-> by, keys |-> store]>> \o dumps
BeginDump(by) == dumps' = Append(dumps, [by |-> by, keys |-> store])

\* Mutant: the cursors are persisted before the flush.
RequestPersistsFirst ==
    /\ sdk = "ready"
    /\ pendingAck.hadKeys /\ connected
    /\ sdk' = "flushing"
    /\ flushing' = pendingAck
    /\ pendingAck' = NoBatch
    /\ PersistCursors(Durable(pendingAck))
    /\ BeginDump("ack")
    /\ UNCHANGED <<gatewayVars, linkVars, syncStarted, syncQueue, inHand, store, snapshot,
                   historyVars>>

\* A batch with room keys waits for a snapshot of the crypto store.
RequestWithFlush ==
    /\ sdk = "ready"
    /\ pendingAck.hadKeys /\ connected
    /\ sdk' = "flushing"
    /\ flushing' = pendingAck
    /\ pendingAck' = NoBatch
    /\ BeginDump("ack")
    /\ UNCHANGED <<gatewayVars, linkVars, syncStarted, syncQueue, cursorVars, inHand, store,
                   snapshot, historyVars>>

\* Two dumps walk the same stores, so they end in the order they began.
OldestDumpIs(by) == dumps # <<>> /\ Head(dumps).by = by

\* The flush resolves: persist the cursors, ack, and serve the request that was
\* waiting for it.  The connection may have gone, or come back, meanwhile.
FlushResolves ==
    /\ OldestDumpIs("ack")
    /\ \/ /\ snapshot' = Head(dumps).keys
          /\ UNCHANGED blind
       \/ /\ "flush_swallowed" \in DiskFaults
          /\ blind' = blind \cup Passes(flushing)
          /\ UNCHANGED snapshot
    /\ dumps' = Tail(dumps)
    /\ flushing' = NoBatch
    /\ PersistCursors(Durable(flushing))
    /\ Serve(AckOf(flushing), acked', pendingAck)
    /\ UNCHANGED <<gatewayVars, connected, down, store, overrun, expired>>

\* The flush rejects: the batch is pending again, unless the next frame is
\* already there and takes its place.
FlushRejects ==
    /\ "flush_throws" \in DiskFaults
    /\ OldestDumpIs("ack")
    /\ dumps' = Tail(dumps)
    /\ flushing' = NoBatch
    /\ Serve(<<>>, acked, flushing)
    /\ UNCHANGED <<gatewayVars, connected, down, cursorVars, store, snapshot, historyVars>>

\* The wait for a frame times out with an empty delta, or the SDK aborts it; it
\* asks again.
WaitEnds ==
    /\ sdk = "waiting"
    /\ sdk' = "ready"
    /\ UNCHANGED <<gatewayVars, linkVars, batchVars, cursorVars, inHand, store, diskVars,
                   historyVars>>

\* The SDK has processed a frame: its keys are in the in-memory crypto store.
SdkProcesses ==
    /\ sdk = "processing"
    /\ store' = store \cup inHand
    /\ inHand' = {}
    /\ sdk' = "ready"
    /\ UNCHANGED <<gatewayVars, linkVars, batchVars, cursorVars, diskVars, historyVars>>

-----------------------------------------------------------------------------
(* Frames from the gateway. *)

\* onSyncFrame: to the waiting request, else into the backlog, where a full one
\* loses its oldest frame.
ReceiveSync ==
    /\ down # <<>> /\ Head(down).t = "sync"
    /\ down' = Tail(down)
    /\ \/ /\ sdk = "waiting"
          /\ Deliver(Head(down))
          /\ UNCHANGED <<syncQueue, overrun>>
       \/ /\ sdk # "waiting"
          /\ LET q == Append(syncQueue, Head(down))
             IN  IF Overfull(q)
                 THEN /\ syncQueue' = Tail(q)
                      /\ overrun' = overrun \cup Head(q).keys
                 ELSE /\ syncQueue' = q
                      /\ UNCHANGED overrun
          /\ UNCHANGED <<pendingAck, inHand, sdk>>
    /\ UNCHANGED <<gatewayVars, connected, up, syncStarted, flushing, cursorVars, store,
                   diskVars, blind, expired>>

\* discardPendingAckPos and the to-device half of onSyncReset.
WithoutCursors(b, cs) ==
    [pos |-> IF "pos" \in cs THEN 0 ELSE b.pos,
     td |-> IF "to_device_pos" \in cs THEN 0 ELSE b.td,
     hadKeys |-> b.hadKeys, keys |-> b.keys]

\* onSyncReset: forget the named cursors in memory, in the pending batch and in
\* the cursor file; the backlog and a batch being flushed are not looked at.
ReceiveReset ==
    /\ down # <<>> /\ Head(down).t = "sync_reset"
    /\ down' = Tail(down)
    /\ LET cs == Head(down).drop
       IN  IF cs = {}
           THEN UNCHANGED <<pendingAck, cursorVars, expired>>
           ELSE /\ pendingAck' = WithoutCursors(pendingAck, cs)
                /\ PersistCursors([pos |-> IF "pos" \in cs THEN 0 ELSE acked.pos,
                                   td |-> IF "to_device_pos" \in cs THEN 0 ELSE acked.td])
                /\ expired' = IF "pos" \in cs THEN Head(down).pos ELSE expired
    /\ UNCHANGED <<gatewayVars, connected, up, syncStarted, syncQueue, flushing, sdkVars,
                   diskVars, overrun, blind>>

-----------------------------------------------------------------------------
(* The periodic snapshot of client.ts (every 60 s, so never two at a time). *)

TimerDumpBegins ==
    /\ \A i \in DOMAIN dumps : dumps[i].by # "timer"
    /\ BeginDump("timer")
    /\ UNCHANGED <<gatewayVars, linkVars, batchVars, cursorVars, sdkVars, snapshot,
                   historyVars>>

\* persistIdbToDisk is best effort: the write may fail and is not repeated.
TimerDumpEnds ==
    /\ OldestDumpIs("timer")
    /\ dumps' = Tail(dumps)
    /\ \/ snapshot' = Head(dumps).keys
       \/ /\ DiskFaults # {}
          /\ UNCHANGED snapshot
    /\ UNCHANGED <<gatewayVars, linkVars, batchVars, cursorVars, sdkVars, historyVars>>

-----------------------------------------------------------------------------
(* The connection, and the process. *)

\* onClose and failInFlight: the un-acked batch is forgotten and the waiting
\* request fails, so the SDK asks again.  The backlog is kept.
Close ==
    /\ connected
    /\ connected' = FALSE
    /\ down' = <<>> /\ up' = <<>>
    /\ since' = -1
    /\ pendingAck' = NoBatch
    /\ sdk' = IF sdk = "waiting" THEN "ready" ELSE sdk
    /\ UNCHANGED <<deleted, tdOf, syncStarted, syncQueue, flushing, cursorVars, inHand, store,
                   diskVars, historyVars>>

\* auth_ok on the next socket: resume from the last durably acked cursors.
Reconnect ==
    /\ ~connected
    /\ connected' = TRUE
    /\ up' = IF syncStarted THEN <<SyncStart(acked)>> ELSE <<>>
    /\ UNCHANGED <<gatewayVars, down, batchVars, cursorVars, sdkVars, diskVars, historyVars>>

\* The process dies and starts again: the crypto store is restored from the
\* snapshot and the cursors from their file.
Crash ==
    /\ connected' = FALSE
    /\ down' = <<>> /\ up' = <<>>
    /\ since' = -1
    /\ syncStarted' = FALSE /\ syncQueue' = <<>>
    /\ pendingAck' = NoBatch /\ flushing' = NoBatch
    /\ acked' = file
    /\ sdk' = "ready" /\ inHand' = {} /\ store' = snapshot
    /\ dumps' = <<>>
    /\ UNCHANGED <<deleted, tdOf, snapshot, file, historyVars>>

-----------------------------------------------------------------------------
Next ==
    \/ GatewaySync \/ GatewayReset \/ GatewayReads
    \/ RequestWithoutAck \/ RequestWithAck \/ RequestWithFlush
    \/ FlushResolves \/ FlushRejects \/ WaitEnds \/ SdkProcesses
    \/ ReceiveSync \/ ReceiveReset
    \/ TimerDumpBegins \/ TimerDumpEnds
    \/ Close \/ Reconnect \/ Crash

Spec == Init /\ [][Next]_vars

-----------------------------------------------------------------------------
(* Properties. *)

\* Every variable has its type; the backlog keeps within its limit, and the SDK
\* waits only when the backlog is empty.
TypeOK ==
    /\ deleted \in 0..StreamEnd
    /\ since \in -1..StreamEnd
    /\ tdOf \in Seq(0..StreamEnd) /\ Len(tdOf) <= MaxFrames
    /\ connected \in BOOLEAN
    /\ down \in Seq(DownFrames) /\ up \in Seq(UpFrames)
    /\ syncStarted \in BOOLEAN
    /\ syncQueue \in Seq(DownFrames) /\ Len(syncQueue) <= MaxSyncQueue
    /\ pendingAck \in Batches /\ flushing \in Batches
    /\ acked \in Cursors /\ file \in Cursors
    /\ sdk \in {"ready", "flushing", "waiting", "processing"}
    /\ inHand \in SUBSET KeyAt /\ store \in SUBSET KeyAt
    /\ dumps \in Seq(Dumps) /\ snapshot \in SUBSET KeyAt
    /\ overrun \in SUBSET KeyAt /\ blind \in SUBSET KeyAt /\ expired \in 0..MaxFrames

\* flushBeforeAck, "never deletion of unsaved keys": whatever connections drop, disks fail
\* and whenever the process dies, the homeserver deletes no room key that is not on the
\* device's disk, but for those the code gives up in one of three ways: with a frame
\* discarded at a full backlog; when the snapshot taken for an ack is not written and
\* nobody is told (idb-persistence.ts logs it); when the cursor of a batch without keys
\* passes keys of an earlier one that was never flushed.
AckedKeysSaved == KeysUpTo(deleted) \subseteq snapshot \cup overrun \cup blind

\* flushAndAckPending: the to-device cursor, in memory or on disk or on its way
\* to the gateway, never runs ahead of the keys on disk, but for those given up, so a
\* restart resumes at a point from which nothing else is missing.
CursorKeysSaved ==
    /\ KeysUpTo(acked.td) \subseteq snapshot \cup overrun \cup blind
    /\ KeysUpTo(file.td) \subseteq snapshot \cup overrun \cup blind
    /\ \A i \in DOMAIN up : KeysUpTo(up[i].td) \subseteq snapshot \cup overrun \cup blind

\* No cursor passes a key that no flush has saved: what flushBeforeAck promises, and
\* false of the code where a snapshot fails silently or a batch has no keys of its own.
NoKeyPassed == blind = {}

\* "The ack echo": a sync_ack names a frame's room position with exactly the
\* to-device cursor that frame carried, never a carried-forward one.
EchoExact ==
    \A i \in DOMAIN up : up[i].t = "sync_ack" => up[i].td = tdOf[up[i].pos]

\* "So a later reconnect cannot replay a stale pos": once a sync_reset has been
\* processed, no room position it expired is persisted again.
ExpiredPosForgotten == file.pos = 0 \/ file.pos > expired

\* The device loses no key the homeserver let go of (see KeyCustody).
Custody == INSTANCE KeyCustody WITH
    Keys    <- KeyAt,
    held    <- KeyAt \ KeysUpTo(deleted),
    saved   <- snapshot,
    givenUp <- overrun \cup blind

RefinesCustody == Custody!Spec
=============================================================================
