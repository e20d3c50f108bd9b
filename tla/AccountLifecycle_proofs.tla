---------------------- MODULE AccountLifecycle_proofs ----------------------
(***************************************************************************)
(* Proofs about AccountLifecycle: its types, that an event is handed over  *)
(* at most once, that an account that has ended is clean, and that stop()  *)
(* saves what the crypto store held when it began.                         *)
(***************************************************************************)
EXTENDS AccountLifecycle, SequenceTheorems, TLAPS

Early == {"off", "restoring", "connecting", "crypto", "starting", "failed"}
Late == {"rooms", "sessions", "serving"}

\* stop() has begun or is over.
Stopped == ~started /\ (stopping \/ (client = "stopped" /\ transport = "disposed"))

\* Nothing runs before start(); an abort that comes after the first sync finds the
\* listener that stops the handle, and one that came before ends the start.
RunInv ==
    /\ at \in Early => ~started /\ client # "running"
    /\ at # "serving" => services = {}
    /\ stopping => at \in Late \cup {"ended"} /\ ~started
    /\ at = "syncing" \/ (at \in Late /\ ~aborted) => started
    /\ at \in Late /\ aborted => Stopped
    /\ at = "ended" => Stopped /\ ~registered

\* An event is admitted before it is handed over or waited for, and then once.
GateInv ==
    \A e \in Events : /\ handed[e] + listening[e] =< 1
                      /\ handed[e] + listening[e] > 0 => e \in delivered

\* A snapshot under way is the first one of the start, a periodic one or the last one.
DumpInv ==
    /\ at \in {"restoring", "connecting", "crypto"} => dumps = <<>>
    /\ at \in {"starting", "syncing"} \/ started => Len(dumps) =< 1

\* The last snapshot stop() took is not older than what it found in the store, and on disk
\* unless it failed.
SaveInv ==
    stopping => /\ store >= wanted
                /\ dumps # <<>> => dumps[Len(dumps)] >= wanted
                /\ dumps = <<>> => snapshot >= wanted \/ dumpFailed

IInv == TypeOK /\ RunInv /\ GateInv /\ DumpInv /\ SaveInv

USE DEF Never
-----------------------------------------------------------------------------
LEMMA InitInv == LifecycleAssumption /\ Init => IInv
<1> SUFFICES ASSUME LifecycleAssumption, Init PROVE IInv
  OBVIOUS
<1>1. Len(dumps) = 0 /\ dumps \in Seq(0..MaxChanges)
  BY DEF Init, NewProcess
<1>2. listening \in [Events -> 0..2] /\ handed \in [Events -> 0..2]
  BY DEF Init, NewProcess
<1>6. store \in 0..MaxChanges /\ snapshot \in 0..MaxChanges /\ wanted \in 0..MaxChanges
  BY DEF Init, NewProcess, LifecycleAssumption
<1>7. spent \in [failures : 0..MaxFailures, aborts : 0..MaxAborts]
  BY DEF Init, LifecycleAssumption
<1>3. TypeOK
  <2>1. Len(dumps) =< 2
    BY <1>1
  <2>2. /\ sent \subseteq Events /\ aged \subseteq sent /\ horizon \subseteq aged
        /\ keyed \subseteq sent /\ delivered \subseteq sent /\ surfaced \subseteq delivered
        /\ services \subseteq {"manager", "poller"}
    BY DEF Init, NewProcess
  <2>3. QED
    BY <1>1, <1>2, <1>6, <1>7, <2>1, <2>2 DEF Init, NewProcess, TypeOK
<1>4. GateInv
  BY DEF Init, NewProcess, GateInv
<1>5. RunInv /\ DumpInv /\ SaveInv
  BY <1>1 DEF Init, NewProcess, RunInv, DumpInv, SaveInv, Early, Late
<1>8. QED
  BY <1>3, <1>4, <1>5 DEF IInv

\* The queue of snapshots: one more at its end, or the first one gone.
LEMMA Appended ==
    ASSUME NEW S, NEW q \in Seq(S), NEW x \in S
    PROVE  /\ Append(q, x) \in Seq(S) /\ Len(Append(q, x)) = Len(q) + 1
           /\ Append(q, x)[Len(q) + 1] = x /\ Append(q, x) # <<>>
OBVIOUS

LEMMA Dropped ==
    ASSUME NEW S, NEW q \in Seq(S), q # <<>>
    PROVE  /\ Head(q) \in S /\ Head(q) = q[1] /\ Tail(q) \in Seq(S) /\ Len(Tail(q)) = Len(q) - 1
           /\ Tail(q) = <<>> => Len(q) = 1
           /\ Tail(q) # <<>> => Tail(q)[Len(Tail(q))] = q[Len(q)]
<1>1. Len(q) \in Nat /\ Len(q) # 0 /\ Len(Tail(q)) = Len(q) - 1 /\ Tail(q) \in Seq(S)
  OBVIOUS
<1>2. Tail(q) # <<>> => Len(Tail(q)) # 0
  BY <1>1
<1>3. \A i \in 1..Len(Tail(q)) : Tail(q)[i] = q[i + 1]
  OBVIOUS
<1>4. Tail(q) # <<>> => Len(Tail(q)) \in 1..Len(Tail(q))
  BY <1>1, <1>2
<1>5. Head(q) = q[1] /\ 1 \in 1..Len(q)
  BY <1>1
<1>6. \A i \in 1..Len(q) : q[i] \in S
  OBVIOUS
<1>7. Tail(q) = <<>> => Len(Tail(q)) = 0
  <2>1. Len(<<>>) = 0
    OBVIOUS
  <2>2. QED
    BY <2>1
<1>8. Tail(q) = <<>> => Len(q) = 1
  BY <1>1, <1>7
<1>9. Tail(q) # <<>> => Tail(q)[Len(Tail(q))] = q[Len(q)]
  BY <1>1, <1>3, <1>4
<1>10. QED
  BY <1>1, <1>5, <1>6, <1>8, <1>9

\* Each part of the invariant is kept by each action.
RunSteps == \/ StartAccount \/ restoreIdb \/ Connect \/ ConnectFails \/ InitCrypto
            \/ InitCryptoFails \/ Start \/ InitialSync \/ InitialSyncFails \/ RoomsReady
            \/ RoomsFail \/ StartServices \/ Ends \/ Abort \/ StopEnds \/ Crash
StoreSteps == StoreChanges \/ DumpBegins \/ DumpEnds \/ DumpFails
EventSteps == \E e \in Events : \/ SendEvent(e) \/ Age(e) \/ KeyArrives(e) \/ TimelineEvent(e)
                                \/ Decrypted(e) \/ reportUndecryptable(e)

LEMMA Steps == Next <=> RunSteps \/ StoreSteps \/ EventSteps
BY DEF Next, RunSteps, StoreSteps, EventSteps

\* What the steps of a start and a stop leave alone.
LEMMA RunNext == ASSUME LifecycleAssumption, IInv, RunSteps PROVE RunInv'
<1>1. CASE StartAccount \/ restoreIdb \/ Connect \/ ConnectFails
  BY <1>1 DEF StartAccount, restoreIdb, Connect, ConnectFails, Throws, Stopped, Early, Late,
     runVars, handleVars, IInv, RunInv
<1>2. CASE InitCrypto \/ InitCryptoFails \/ Start
  BY <1>2 DEF InitCrypto, InitCryptoFails, Start, Throws, Stopped, Early, Late,
     runVars, handleVars, IInv, RunInv
<1>3. CASE InitialSync \/ InitialSyncFails
  BY <1>3 DEF InitialSync, InitialSyncFails, Throws, Stopped, Early, Late,
     runVars, handleVars, IInv, RunInv
<1>4. CASE RoomsReady \/ RoomsFail \/ StartServices \/ Ends
  BY <1>4 DEF RoomsReady, RoomsFail, StartServices, Ends, Stopped, Early, Late,
     runVars, handleVars, IInv, RunInv
<1>5. CASE Abort
  BY <1>5 DEF Abort, StopBegins, Stopped, Early, Late, runVars, handleVars, IInv, TypeOK, RunInv
<1>6. CASE StopEnds \/ Crash
  BY <1>6 DEF StopEnds, Crash, Stopped, Early, Late, runVars, handleVars, IInv, RunInv
<1>7. QED
  BY <1>1, <1>2, <1>3, <1>4, <1>5, <1>6 DEF RunSteps

LEMMA GateNext == ASSUME LifecycleAssumption, IInv, RunSteps PROVE GateInv'
<1>1. CASE InitCrypto \/ Crash
  BY <1>1 DEF InitCrypto, Crash, GateInv
<1>2. CASE ~(InitCrypto \/ Crash)
  <2>1. UNCHANGED gateVars
    BY <1>2 DEF RunSteps, StartAccount, restoreIdb, Connect, ConnectFails, InitCryptoFails,
       Start, InitialSync, InitialSyncFails, RoomsReady, RoomsFail, StartServices, Ends, Abort,
       StopEnds
  <2>2. QED
    BY <2>1 DEF gateVars, IInv, GateInv
<1>3. QED
  BY <1>1, <1>2

LEMMA DumpNext == ASSUME LifecycleAssumption, IInv, RunSteps PROVE DumpInv' /\ SaveInv'
<1> Len(<<>>) = 0
  OBVIOUS
<1>1. CASE StartAccount \/ restoreIdb \/ Connect \/ ConnectFails
  BY <1>1 DEF StartAccount, restoreIdb, Connect, ConnectFails, Throws, Early, Late,
     runVars, handleVars, storeVars, IInv, RunInv, DumpInv, SaveInv
<1>2. CASE InitCrypto
  <2>1. dumps = <<>> /\ at' = "starting" /\ started' = started /\ stopping' = stopping
        /\ ~stopping
    BY <1>2 DEF InitCrypto, Late, IInv, RunInv, DumpInv
  <2>2. dumps' = <<>> \/ dumps' = Append(dumps, store + 1)
    BY <1>2, <2>1 DEF InitCrypto
  <2>3. Len(dumps') =< 1
    <3>1. dumps \in Seq(Int) /\ store + 1 \in Int /\ Len(dumps) = 0
      BY <2>1 DEF IInv, TypeOK
    <3>2. Len(Append(dumps, store + 1)) = 1
      BY <3>1, Appended
    <3>3. Len(dumps') = 0 \/ Len(dumps') = 1
      BY <2>1, <2>2, <3>1, <3>2
    <3>4. QED
      BY <3>3
  <2>4. QED
    BY <2>1, <2>3 DEF DumpInv, SaveInv
<1>3. CASE InitCryptoFails \/ Start
  BY <1>3 DEF InitCryptoFails, Start, Throws, Early, Late, runVars, handleVars, storeVars,
     IInv, RunInv, DumpInv, SaveInv
<1>4. CASE InitialSync \/ InitialSyncFails
  BY <1>4 DEF InitialSync, InitialSyncFails, Throws, Early, Late, runVars, handleVars,
     storeVars, IInv, RunInv, DumpInv, SaveInv
<1>5. CASE RoomsReady \/ RoomsFail \/ StartServices \/ Ends
  BY <1>5 DEF RoomsReady, RoomsFail, StartServices, Ends, Early, Late, runVars, handleVars,
     storeVars, IInv, RunInv, DumpInv, SaveInv
<1>6. CASE Abort
  <2>1. CASE started /\ at # "syncing"
    <3>1. /\ at' = at /\ started' = FALSE /\ stopping' = TRUE /\ wanted' = store
          /\ dumps' = Append(dumps, store) /\ store' = store /\ snapshot' = snapshot
      BY <1>6, <2>1 DEF Abort, StopBegins
    <3>2. at \notin Early
      BY <2>1 DEF IInv, RunInv
    <3>3. dumps \in Seq(0..MaxChanges) /\ store \in 0..MaxChanges
      BY DEF IInv, TypeOK
    <3>4. Len(dumps') = Len(dumps) + 1 /\ dumps'[Len(dumps')] = store /\ dumps' # <<>>
      BY <3>1, <3>3, Appended
    <3>5. store' >= wanted'
      BY <3>1, <3>3, LifecycleAssumption DEF LifecycleAssumption
    <3>6. SaveInv'
      BY <3>1, <3>4, <3>5 DEF SaveInv
    <3>7. DumpInv'
      BY <2>1, <3>1, <3>2 DEF Early, DumpInv
    <3>8. QED
      BY <3>6, <3>7
  <2>2. CASE ~(started /\ at # "syncing")
    BY <1>6, <2>2 DEF Abort, Early, Late, IInv, RunInv, DumpInv, SaveInv
  <2>3. QED
    BY <2>1, <2>2
<1>7. CASE StopEnds \/ Crash
  BY <1>7 DEF StopEnds, Crash, runVars, storeVars, IInv, DumpInv, SaveInv
<1>8. QED
  BY <1>1, <1>2, <1>3, <1>4, <1>5, <1>6, <1>7 DEF RunSteps

\* Failures and aborts are counted up to their bounds.
LEMMA Counted ==
    ASSUME LifecycleAssumption, IInv
    PROVE  /\ \A f \in Faults : Fault(f) =>
                  spent' \in [failures : 0..MaxFailures, aborts : 0..MaxAborts]
           /\ Abort => spent' \in [failures : 0..MaxFailures, aborts : 0..MaxAborts]
BY DEF Fault, Abort, LifecycleAssumption, IInv, TypeOK

LEMMA SpentNext ==
    ASSUME LifecycleAssumption, IInv, RunSteps
    PROVE  spent' \in [failures : 0..MaxFailures, aborts : 0..MaxAborts]
<1>1. CASE ConnectFails \/ InitCryptoFails \/ InitialSyncFails \/ Crash \/ Abort
  BY <1>1, Counted DEF ConnectFails, InitCryptoFails, InitialSyncFails, Crash, Fault, IInv, TypeOK
<1>2. CASE ~(ConnectFails \/ InitCryptoFails \/ InitialSyncFails \/ Crash \/ Abort)
  BY <1>2 DEF RunSteps, StartAccount, restoreIdb, Connect, InitCrypto, Start, InitialSync,
     RoomsReady, RoomsFail, StartServices, Ends, StopEnds, IInv, TypeOK
<1>3. QED
  BY <1>1, <1>2

\* Whether the last snapshot failed, and the transports of failed starts.
LEMMA FlagTypes ==
    ASSUME LifecycleAssumption, IInv, RunSteps
    PROVE  dumpFailed' \in BOOLEAN /\ strays' \in Nat
<1>1. dumpFailed' = dumpFailed \/ dumpFailed' = FALSE
  BY DEF RunSteps, StartAccount, restoreIdb, Connect, ConnectFails, InitCrypto,
     InitCryptoFails, Start, InitialSync, InitialSyncFails, RoomsReady, RoomsFail,
     StartServices, Ends, Abort, StopEnds, Crash, storeVars
<1>2. dumpFailed \in BOOLEAN
  BY DEF IInv, TypeOK
<1>3. strays \in Nat
  BY DEF IInv, TypeOK
<1>4. strays' = strays \/ strays' = strays + 1 \/ strays' = 0
  BY DEF RunSteps, StartAccount, restoreIdb, Connect, ConnectFails, InitCrypto,
     InitCryptoFails, Start, InitialSync, InitialSyncFails, RoomsReady, RoomsFail,
     StartServices, Ends, Abort, StopEnds, Crash, Throws, handleVars
<1>5. strays' \in Nat
  BY <1>3, <1>4
<1>6. QED
  BY <1>1, <1>2, <1>5

\* The store, its snapshot and the snapshots under way.
LEMMA StoreTypes ==
    ASSUME LifecycleAssumption, IInv, RunSteps
    PROVE  /\ store' \in 0..MaxChanges /\ snapshot' \in 0..MaxChanges
           /\ wanted' \in 0..MaxChanges
           /\ dumps' \in Seq(0..MaxChanges) /\ Len(dumps') =< 2
<1>1. CASE restoreIdb
  BY <1>1 DEF restoreIdb, IInv, TypeOK
<1>2. CASE InitCrypto
  <2>1. dumps = <<>> /\ dumps \in Seq(0..MaxChanges) /\ Len(dumps) = 0
    BY <1>2 DEF InitCrypto, IInv, TypeOK, DumpInv
  <2>2. CASE UNCHANGED <<store, dumps>>
    BY <1>2, <2>1, <2>2 DEF InitCrypto, IInv, TypeOK
  <2>3. CASE store < MaxChanges /\ store' = store + 1 /\ dumps' = Append(dumps, store + 1)
    <3>1. store + 1 \in 0..MaxChanges
      BY <2>3, LifecycleAssumption DEF LifecycleAssumption, IInv, TypeOK
    <3>2. Append(dumps, store + 1) \in Seq(0..MaxChanges)
          /\ Len(Append(dumps, store + 1)) = 1
      BY <2>1, <3>1, Appended
    <3>3. Len(dumps') =< 2
      BY <2>3, <3>2
    <3>4. QED
      BY <1>2, <2>3, <3>1, <3>2, <3>3 DEF InitCrypto, IInv, TypeOK
  <2>4. QED
    BY <1>2, <2>2, <2>3 DEF InitCrypto
<1>3. CASE Abort
  <2>1. CASE started /\ at # "syncing"
    <3>1. /\ wanted' = store /\ dumps' = Append(dumps, store) /\ store' = store
          /\ snapshot' = snapshot
      BY <1>3, <2>1 DEF Abort, StopBegins
    <3>2. dumps \in Seq(0..MaxChanges) /\ store \in 0..MaxChanges /\ Len(dumps) =< 1
      BY <2>1 DEF IInv, TypeOK, DumpInv
    <3>3. dumps' \in Seq(0..MaxChanges) /\ Len(dumps') = Len(dumps) + 1
      BY <3>1, <3>2, Appended
    <3>4. QED
      BY <3>1, <3>2, <3>3 DEF IInv, TypeOK
  <2>2. CASE ~(started /\ at # "syncing")
    BY <1>3, <2>2 DEF Abort, IInv, TypeOK
  <2>3. QED
    BY <2>1, <2>2
<1>4. CASE Crash
  <2>1. <<>> \in Seq(0..MaxChanges) /\ Len(<<>>) =< 2
    OBVIOUS
  <2>2. QED
    BY <1>4, <2>1 DEF Crash, IInv, TypeOK, LifecycleAssumption
<1>5. CASE ~(restoreIdb \/ InitCrypto \/ Abort \/ Crash)
  <2>1. UNCHANGED storeVars
    BY <1>5 DEF RunSteps, StartAccount, Connect, ConnectFails, InitCryptoFails, Start,
       InitialSync, InitialSyncFails, RoomsReady, RoomsFail, StartServices, Ends, StopEnds
  <2>2. QED
    BY <2>1 DEF storeVars, IInv, TypeOK
<1>6. QED
  BY <1>1, <1>2, <1>3, <1>4, <1>5

\* The events and what the handle did with them.
LEMMA GateTypes ==
    ASSUME LifecycleAssumption, IInv, RunSteps
    PROVE  /\ sent' \subseteq Events /\ aged' \subseteq sent' /\ horizon' \subseteq aged'
           /\ keyed' \subseteq sent' /\ delivered' \subseteq sent'
           /\ surfaced' \subseteq delivered'
           /\ listening' \in [Events -> 0..2] /\ handed' \in [Events -> 0..2]
<1>1. UNCHANGED roomVars
  BY DEF RunSteps, StartAccount, restoreIdb, Connect, ConnectFails, InitCrypto,
     InitCryptoFails, Start, InitialSync, InitialSyncFails, RoomsReady, RoomsFail,
     StartServices, Ends, Abort, StopEnds, Crash
<1>2. CASE InitCrypto \/ Crash
  BY <1>1, <1>2 DEF InitCrypto, Crash, roomVars, IInv, TypeOK
<1>3. CASE ~(InitCrypto \/ Crash)
  <2>1. UNCHANGED gateVars
    BY <1>3 DEF RunSteps, StartAccount, restoreIdb, Connect, ConnectFails, InitCryptoFails,
       Start, InitialSync, InitialSyncFails, RoomsReady, RoomsFail, StartServices, Ends, Abort,
       StopEnds
  <2>2. QED
    BY <1>1, <2>1 DEF gateVars, roomVars, IInv, TypeOK
<1>4. QED
  BY <1>2, <1>3

\* startAccount and the handle.
LEMMA RunTypes ==
    ASSUME LifecycleAssumption, IInv, RunSteps
    PROVE  /\ at' \in {"off", "restoring", "connecting", "crypto", "starting", "syncing",
                       "rooms", "sessions", "serving", "ended", "failed"}
           /\ aborted' \in BOOLEAN /\ blocked' \in BOOLEAN /\ registered' \in BOOLEAN
           /\ services' \subseteq {"manager", "poller"}
           /\ transport' \in {"none", "open", "disposed"}
           /\ client' \in {"none", "running", "stopped"}
           /\ started' \in BOOLEAN /\ stopping' \in BOOLEAN
<1>1. CASE StartAccount \/ restoreIdb \/ Connect \/ ConnectFails
  BY <1>1 DEF StartAccount, restoreIdb, Connect, ConnectFails, Throws,
     runVars, handleVars, IInv, TypeOK
<1>2. CASE InitCrypto \/ InitCryptoFails \/ Start
  BY <1>2 DEF InitCrypto, InitCryptoFails, Start, Throws, runVars, handleVars, IInv, TypeOK
<1>3. CASE InitialSync \/ InitialSyncFails
  BY <1>3 DEF InitialSync, InitialSyncFails, Throws, runVars, handleVars, IInv, TypeOK
<1>4. CASE RoomsReady \/ RoomsFail \/ StartServices \/ Ends
  BY <1>4 DEF RoomsReady, RoomsFail, StartServices, Ends, runVars, handleVars, IInv, TypeOK
<1>5. CASE Abort \/ StopEnds \/ Crash
  BY <1>5 DEF Abort, StopBegins, StopEnds, Crash, runVars, handleVars, IInv, TypeOK
<1>6. QED
  BY <1>1, <1>2, <1>3, <1>4, <1>5 DEF RunSteps

LEMMA RunStepsInv == ASSUME LifecycleAssumption, IInv, RunSteps PROVE IInv'
<1>1. TypeOK'
  BY SpentNext, FlagTypes, StoreTypes, GateTypes, RunTypes DEF TypeOK
<1>2. QED
  BY <1>1, RunNext, GateNext, DumpNext DEF IInv

LEMMA StoreStepsInv == ASSUME LifecycleAssumption, IInv, StoreSteps PROVE IInv'
<1>1. UNCHANGED <<runVars, handleVars, gateVars, roomVars, wanted>>
  BY DEF StoreSteps, StoreChanges, DumpBegins, DumpEnds, DumpFails
<1>7. spent' \in [failures : 0..MaxFailures, aborts : 0..MaxAborts]
  <2>1. CASE DumpFails
    BY <2>1, Counted DEF DumpFails, Fault
  <2>2. CASE ~DumpFails
    BY <2>2 DEF StoreSteps, StoreChanges, DumpBegins, DumpEnds, IInv, TypeOK
  <2>3. QED
    BY <2>1, <2>2
<1>2. RunInv' /\ GateInv'
  BY <1>1 DEF runVars, handleVars, gateVars, Early, Late, Stopped, IInv, RunInv, GateInv
<1>3. dumps \in Seq(0..MaxChanges) /\ store \in 0..MaxChanges /\ snapshot \in 0..MaxChanges
      /\ Len(dumps) =< 2 /\ Len(<<>>) = 0 /\ MaxChanges \in Nat
  BY DEF IInv, TypeOK, LifecycleAssumption
<1>4. /\ store' \in 0..MaxChanges /\ snapshot' \in 0..MaxChanges /\ dumpFailed' \in BOOLEAN
      /\ dumps' \in Seq(0..MaxChanges) /\ Len(dumps') =< 2 /\ DumpInv' /\ SaveInv'
  <2>1. CASE StoreChanges
    <3>1. store' \in 0..MaxChanges /\ store' >= store
      BY <1>3, <2>1 DEF StoreChanges
    <3>2. snapshot' = snapshot /\ dumps' = dumps /\ dumpFailed' = dumpFailed
      BY <2>1 DEF StoreChanges
    <3>3. SaveInv'
      BY <1>1, <1>3, <3>1, <3>2 DEF handleVars, IInv, TypeOK, SaveInv
    <3>4. QED
      BY <1>1, <1>3, <3>1, <3>2, <3>3 DEF runVars, handleVars, IInv, TypeOK, DumpInv
  <2>2. CASE DumpBegins
    <3>1. client = "running" /\ dumps = <<>> /\ dumps' = <<store>> /\ store' = store
          /\ snapshot' = snapshot /\ dumpFailed' = dumpFailed
      BY <2>2 DEF DumpBegins
    <3>2. Len(dumps') = 1 /\ dumps'[1] = store /\ dumps' \in Seq(0..MaxChanges)
      BY <1>3, <3>1
    <3>3. at \notin Early
      BY <3>1 DEF IInv, RunInv
    <3>4. DumpInv' /\ SaveInv'
      BY <1>1, <3>1, <3>2, <3>3 DEF runVars, handleVars, Early, IInv, DumpInv, SaveInv
    <3>5. QED
      BY <1>3, <3>1, <3>2, <3>4 DEF IInv, TypeOK
  <2>3. CASE DumpEnds \/ DumpFails
    <3>1. /\ dumps # <<>> /\ dumps' = Tail(dumps) /\ store' = store
          /\ \/ snapshot' = Head(dumps) /\ dumpFailed' = FALSE
             \/ snapshot' = snapshot /\ dumpFailed' = TRUE
      BY <2>3 DEF DumpEnds, DumpFails
    <3>2. /\ snapshot' \in 0..MaxChanges
          /\ snapshot' = dumps[1] \/ dumpFailed'
          /\ dumps' \in Seq(0..MaxChanges) /\ Len(dumps') = Len(dumps) - 1
          /\ dumps' = <<>> => Len(dumps) = 1
          /\ dumps' # <<>> => dumps'[Len(dumps')] = dumps[Len(dumps)]
      BY <1>3, <3>1, Dropped
    <3>3. SaveInv'
      BY <1>1, <3>1, <3>2 DEF handleVars, IInv, SaveInv
    <3>4. Len(dumps') =< 2 /\ (Len(dumps) =< 1 => Len(dumps') =< 1)
      BY <1>3, <3>2
    <3>5. DumpInv'
      BY <1>1, <3>1, <3>4 DEF runVars, handleVars, IInv, DumpInv
    <3>6. QED
      BY <1>3, <3>1, <3>2, <3>3, <3>4, <3>5
  <2>4. QED
    BY <2>1, <2>2, <2>3 DEF StoreSteps
<1>5. TypeOK'
  <2>1. TypeOK
    BY DEF IInv
  <2>2. /\ UNCHANGED <<at, aborted, blocked, registered, services, transport, strays, client>>
        /\ UNCHANGED <<started, stopping, horizon, delivered, listening, surfaced, handed>>
        /\ UNCHANGED <<sent, aged, keyed, wanted>>
    BY <1>1 DEF runVars, handleVars, gateVars, roomVars
  <2>3. QED
    BY <1>4, <1>7, <2>1, <2>2 DEF TypeOK
<1>6. QED
  BY <1>2, <1>4, <1>5 DEF IInv

LEMMA EventStepsInv == ASSUME LifecycleAssumption, IInv, EventSteps PROVE IInv'
<1>1. PICK e \in Events : \/ SendEvent(e) \/ Age(e) \/ KeyArrives(e) \/ TimelineEvent(e)
                          \/ Decrypted(e) \/ reportUndecryptable(e)
  BY DEF EventSteps
<1>2. UNCHANGED <<runVars, handleVars, storeVars, spent>>
  BY <1>1 DEF SendEvent, Age, KeyArrives, TimelineEvent, Decrypted, reportUndecryptable
<1>3. RunInv' /\ DumpInv' /\ SaveInv'
  BY <1>2 DEF runVars, handleVars, storeVars, Early, Late, Stopped, IInv, RunInv, DumpInv, SaveInv
<1>4. /\ sent' \subseteq Events /\ aged' \subseteq sent' /\ horizon' \subseteq aged'
      /\ keyed' \subseteq sent' /\ delivered' \subseteq sent' /\ surfaced' \subseteq delivered'
  <2>1. CASE SendEvent(e) \/ Age(e) \/ KeyArrives(e)
    BY <2>1 DEF SendEvent, Age, KeyArrives, gateVars, IInv, TypeOK
  <2>2. CASE TimelineEvent(e) \/ Decrypted(e)
    BY <2>2 DEF TimelineEvent, shouldProcessTimelineEvent, Decrypted, roomVars, IInv, TypeOK
  <2>3. CASE reportUndecryptable(e)
    BY <2>3 DEF reportUndecryptable, roomVars, IInv, TypeOK, GateInv
  <2>4. QED
    BY <1>1, <2>1, <2>2, <2>3
<1>5. /\ listening' \in [Events -> 0..2] /\ handed' \in [Events -> 0..2] /\ GateInv'
  <2>1. CASE SendEvent(e) \/ Age(e) \/ KeyArrives(e) \/ reportUndecryptable(e)
    BY <2>1 DEF SendEvent, Age, KeyArrives, reportUndecryptable, gateVars, IInv, TypeOK, GateInv
  <2>2. CASE TimelineEvent(e)
    <3>1. /\ listening[e] = 0 /\ handed[e] = 0 /\ delivered' = delivered \cup {e}
      BY <2>2 DEF TimelineEvent, shouldProcessTimelineEvent, IInv, TypeOK, GateInv
    <3>2. \/ handed' = [handed EXCEPT ![e] = 1] /\ listening' = listening
          \/ handed' = handed /\ listening' = [listening EXCEPT ![e] = 1]
      BY <2>2, <3>1 DEF TimelineEvent, deliver, IInv, TypeOK
    <3>3. QED
      BY <3>1, <3>2 DEF IInv, TypeOK, GateInv
  <2>3. CASE Decrypted(e)
    <3>1. /\ listening[e] = 1 /\ handed[e] = 0 /\ e \in delivered /\ delivered' = delivered
      BY <2>3 DEF Decrypted, IInv, TypeOK, GateInv
    <3>2. handed' = [handed EXCEPT ![e] = 1] /\ listening' = [listening EXCEPT ![e] = 0]
      BY <2>3, <3>1 DEF Decrypted, deliver, IInv, TypeOK
    <3>3. QED
      BY <3>1, <3>2 DEF IInv, TypeOK, GateInv
  <2>4. QED
    BY <1>1, <2>1, <2>2, <2>3
<1>6. TypeOK'
  BY <1>2, <1>4, <1>5 DEF runVars, handleVars, storeVars, IInv, TypeOK
<1>7. QED
  BY <1>3, <1>5, <1>6 DEF IInv

LEMMA NextInv == ASSUME LifecycleAssumption, IInv, [Next]_vars PROVE IInv'
<1>1. CASE UNCHANGED vars
  BY <1>1 DEF vars, runVars, handleVars, gateVars, roomVars, storeVars, Early, Late, Stopped,
     IInv, TypeOK, RunInv, GateInv, DumpInv, SaveInv
<1>2. CASE Next
  BY <1>2, Steps, RunStepsInv, StoreStepsInv, EventStepsInv
<1>3. QED
  BY <1>1, <1>2

THEOREM Invariance == Spec => []IInv
<1>1. LifecycleAssumption
  BY LifecycleAssumption
<1>2. QED
  BY <1>1, InitInv, NextInv, PTL DEF Spec

-----------------------------------------------------------------------------
\* The types of AccountLifecycle; with them, that there are never more than two
\* snapshots of the crypto store under way.
THEOREM TypeCorrect == Spec => []TypeOK
<1>1. IInv => TypeOK
  BY DEF IInv
<1>2. QED
  BY <1>1, Invariance, PTL

\* shouldProcessTimelineEvent: however often syncs emit an event and whenever its key
\* comes, a handle hands it over at most once.
THEOREM Once == Spec => []DeliveredOnce
<1>1. IInv => DeliveredOnce
  BY DEF IInv, TypeOK, GateInv, DeliveredOnce
<1>2. QED
  BY <1>1, Invariance, PTL

\* startAccount's end, whenever the abort came: no service and no registered handle of the
\* account is left, nor the client or the transport of the start that ended.  (Transports
\* of starts that failed may be left: NothingLeft.)
THEOREM EndClean == Spec => []EndedIsClean
<1>1. IInv => EndedIsClean
  BY DEF IInv, RunInv, Stopped, EndedIsClean
<1>2. QED
  BY <1>1, Invariance, PTL

\* stop(): when the transport is disposed of, the store as stop() found it is on disk,
\* unless the last snapshot failed.
THEOREM SavedAtStop == Spec => StopSaves
<1>1. ASSUME IInv, [Next]_vars, transport = "open", transport' = "disposed"
      PROVE  snapshot >= wanted' \/ dumpFailed
  <2>1. StopEnds
    <3>1. ~UNCHANGED vars
      BY <1>1 DEF vars, handleVars
    <3>2. ~StoreSteps /\ ~EventSteps
      BY <1>1 DEF StoreSteps, StoreChanges, DumpBegins, DumpEnds, DumpFails, EventSteps, SendEvent, Age,
         KeyArrives, TimelineEvent, Decrypted, reportUndecryptable, handleVars
    <3>3. ~(StartAccount \/ restoreIdb \/ Connect \/ ConnectFails \/ InitCrypto
            \/ InitCryptoFails \/ Start)
      BY <1>1 DEF StartAccount, restoreIdb, Connect, ConnectFails, InitCrypto,
         InitCryptoFails, Start, Throws, handleVars
    <3>4. ~(InitialSync \/ InitialSyncFails \/ RoomsReady \/ RoomsFail \/ StartServices
            \/ Ends)
      BY <1>1 DEF InitialSync, InitialSyncFails, RoomsReady, RoomsFail, StartServices, Ends,
         Throws, handleVars
    <3>5. ~Abort /\ ~Crash
      BY <1>1 DEF Abort, StopBegins, Crash
    <3>6. QED
      BY <1>1, <3>1, <3>2, <3>3, <3>4, <3>5, Steps DEF RunSteps
  <2>2. QED
    BY <1>1, <2>1 DEF StopEnds, storeVars, IInv, SaveInv
<1>2. QED
  BY <1>1, Invariance, PTL DEF Spec, StopSaves
=============================================================================
