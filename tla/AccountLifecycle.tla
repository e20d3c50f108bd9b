-------------------------- MODULE AccountLifecycle --------------------------
(***************************************************************************)
(* One account from its start to its end: startAccount of src/src/         *)
(* channel.ts, the MatrixClientHandle of matrix/client.ts (create, start,  *)
(* the gate for timeline events, stop), and the crypto store it restores   *)
(* and saves (idb-persistence.ts).                                         *)
(*                                                                         *)
(* External: the host, which starts an account, aborts it, and starts it   *)
(* again in the same process when its stop() is over; the Matrix SDK; the  *)
(* homeserver.  The boot guard is in SelfUpdate, pairing in DevicePairing, *)
(* the rooms in Setup, the turn that a message begins in AgentTurn.        *)
(*                                                                         *)
(* The crypto store lives in the memory of the process, across starts of   *)
(* the account; it is represented by its version, the number of changes    *)
(* made to its records.                                                    *)
(***************************************************************************)
EXTENDS Integers, Sequences, FiniteSets

CONSTANTS
    Events,       \* events others send to the bot's rooms, all encrypted
    MaxChanges,   \* bound: changes to the crypto store
    MaxFailures,  \* bound: starts and snapshots that fail, and crashes
    MaxAborts,    \* bound: aborts
    Faults        \* which of Mishaps happen

\* The connection, the crypto or the first sync fails; a snapshot cannot be taken or
\* written; the process dies; an event is sent so long before a start that it is history.
Mishaps == {"connect", "crypto", "sync", "dump", "crash", "age"}

ASSUME LifecycleAssumption ==
    /\ MaxChanges \in Nat /\ MaxFailures \in Nat /\ MaxAborts \in Nat
    /\ Faults \subseteq Mishaps

VARIABLES
    \* startAccount
    at,          \* where it is
    aborted,     \* its abort signal
    blocked,     \* versionBlock: the version policy forbids to relay messages
    registered,  \* the account's handle is registered
    services,    \* its pairing manager and its version poller
    \* MatrixClientHandle
    transport,   \* the gateway transport of this start: none, open or disposed
    strays,      \* those of failed starts, which nobody holds and nobody disposes of
    client,      \* the Matrix client: none, running or stopped
    started,     \* `started`
    stopping,    \* stop() awaits the last snapshot
    \* timeline events
    sent,        \* in the rooms
    aged,        \* older than the history horizon of a start from now on
    horizon,     \* not eligible for this handle
    keyed,       \* their room key is in the crypto store
    delivered,   \* deliveredEventIds
    listening,   \* Decrypted listeners armed for each
    surfaced,    \* reported as undecryptable
    handed,      \* how often each was handed over by this handle
    \* the crypto store
    store,       \* its version in memory
    snapshot,    \* the version in crypto-idb-snapshot.json
    dumps,       \* snapshots being taken, oldest first
    \* history
    wanted,      \* the version of the store when stop() began
    dumpFailed,  \* the last snapshot that ended is not on disk
    spent        \* failures and aborts so far

runVars == <<at, aborted, blocked, registered, services>>
handleVars == <<transport, strays, client, started, stopping>>
gateVars == <<horizon, delivered, listening, surfaced, handed>>
roomVars == <<sent, aged, keyed>>
storeVars == <<store, snapshot, dumps, wanted, dumpFailed>>
vars == <<runVars, handleVars, gateVars, roomVars, storeVars, spent>>

-----------------------------------------------------------------------------
Never == [e \in Events |-> 0]

\* A process in which the account has not been started.
NewProcess ==
    /\ at = "off" /\ aborted = FALSE /\ blocked = FALSE /\ registered = FALSE
    /\ services = {}
    /\ transport = "none" /\ strays = 0 /\ client = "none"
    /\ started = FALSE /\ stopping = FALSE
    /\ horizon = {} /\ delivered = {} /\ listening = Never /\ surfaced = {} /\ handed = Never
    /\ store = 0 /\ dumps = <<>> /\ wanted = 0 /\ dumpFailed = FALSE

Init ==
    /\ NewProcess
    /\ sent = {} /\ aged = {} /\ keyed = {}
    /\ snapshot = 0
    /\ spent = [failures |-> 0, aborts |-> 0]

Fault(f) ==
    /\ f \in Faults /\ spent.failures < MaxFailures
    /\ spent' = [spent EXCEPT !.failures = @ + 1]

-----------------------------------------------------------------------------
(* create(). *)

\* What checkVersion may answer; a check that fails counts as "ok".
Verdicts == {"ok", "recommend_upgrade", "force_upgrade"}

\* The host starts the account; the version policy is asked first.
StartAccount ==
    /\ at \in {"off", "ended", "failed"} /\ ~stopping /\ dumps = <<>>
    /\ at' = "restoring" /\ aborted' = FALSE
    /\ \E verdict \in Verdicts : blocked' = (verdict = "force_upgrade")
    /\ UNCHANGED <<registered, services, handleVars, gateVars, roomVars, storeVars, spent>>

\* restoreIdbFromDisk puts every record of the snapshot, also over those of a store that
\* this process has had open before.
restoreIdb ==
    /\ at = "restoring" /\ at' = "connecting"
    /\ store' = IF snapshot = 0 THEN store ELSE snapshot
    /\ UNCHANGED <<aborted, blocked, registered, services, handleVars, gateVars, roomVars,
                   snapshot, dumps, wanted, dumpFailed, spent>>

Connect ==
    /\ at = "connecting" /\ at' = "crypto"
    /\ transport' = "open"
    /\ UNCHANGED <<aborted, blocked, registered, services, strays, client, started, stopping,
                   gateVars, roomVars, storeVars, spent>>

\* A start has failed after connect().  The handle was not constructed, or is not stopped:
\* nothing disposes of its transport, which stays connected or goes on reconnecting, and
\* the next start makes one of its own.
Throws == at' = "failed" /\ transport' = "none" /\ strays' = strays + 1

\* connect() fails; the transport is then closed for good, or goes on reconnecting
\* (GatewaySocket).
ConnectFails ==
    /\ at = "connecting" /\ Fault("connect")
    /\ at' = "failed" /\ strays' \in {strays, strays + 1}
    /\ UNCHANGED <<aborted, blocked, registered, services, transport, client, started, stopping,
                   gateVars, roomVars, storeVars>>

\* initRustCrypto, then a cross-signing identity if there is none, saved at once.
InitCrypto ==
    /\ at = "crypto" /\ at' = "starting"
    /\ \/ UNCHANGED <<store, dumps>>
       \/ /\ store < MaxChanges /\ store' = store + 1
          /\ dumps' = Append(dumps, store + 1)
    /\ horizon' = aged
    /\ delivered' = {} /\ listening' = Never /\ surfaced' = {} /\ handed' = Never
    /\ client' = "none"
    /\ UNCHANGED <<aborted, blocked, registered, services, transport, strays, started,
                   stopping, roomVars, snapshot, wanted, dumpFailed, spent>>

InitCryptoFails ==
    /\ at = "crypto" /\ Fault("crypto") /\ Throws
    /\ UNCHANGED <<aborted, blocked, registered, services, client, started, stopping,
                   gateVars, roomVars, storeVars>>

-----------------------------------------------------------------------------
(* start(). *)

\* The handle is registered before it is started.
Start ==
    /\ at = "starting" /\ dumps = <<>> /\ at' = "syncing"
    /\ registered' = TRUE /\ started' = TRUE /\ client' = "running"
    /\ UNCHANGED <<aborted, blocked, services, transport, strays, stopping, gateVars,
                   roomVars, storeVars, spent>>

\* The first sync is there: the listener for an abort is armed, rooms are next unless
\* the version policy forbids it.
InitialSync ==
    /\ at = "syncing" /\ ~aborted
    /\ at' = IF blocked THEN "serving" ELSE "rooms"
    /\ UNCHANGED <<aborted, blocked, registered, services, handleVars, gateVars, roomVars,
                   storeVars, spent>>

\* It fails, is late, or the account is aborted before it is there.
InitialSyncFails ==
    /\ at = "syncing"
    /\ \/ aborted /\ UNCHANGED spent
       \/ ~aborted /\ Fault("sync")
    /\ Throws /\ started' = FALSE /\ client' = "stopped"
    /\ UNCHANGED <<aborted, blocked, registered, services, stopping, gateVars, roomVars,
                   storeVars>>

\* ensureRooms, then the scan for starter chats.
RoomsReady ==
    /\ at = "rooms" /\ client = "running" /\ at' = "sessions"
    /\ UNCHANGED <<aborted, blocked, registered, services, handleVars, gateVars, roomVars,
                   storeVars, spent>>

\* There is no workspace, or the transport is gone: the account goes on without.
RoomsFail ==
    /\ at = "rooms" /\ at' = "serving"
    /\ UNCHANGED <<aborted, blocked, registered, services, handleVars, gateVars, roomVars,
                   storeVars, spent>>

\* Whatever came of the scan: the pairing manager resumes and the poller starts, the one
\* with a registrar and a token, the other with a service token as well.
StartServices ==
    /\ at = "sessions" /\ at' = "serving"
    /\ services' \in {{}, {"manager"}, {"manager", "poller"}}
    /\ UNCHANGED <<aborted, blocked, registered, handleVars, gateVars, roomVars, storeVars,
                   spent>>

-----------------------------------------------------------------------------
(* The end. *)

\* Mutant: the last snapshot is left out.
StopUnsaved ==
    /\ started' = FALSE /\ stopping' = FALSE /\ wanted' = store
    /\ client' = "stopped" /\ transport' = "disposed"
    /\ UNCHANGED dumps

\* stop() begins: the last snapshot is taken while the client still runs.
StopBegins ==
    /\ started' = FALSE /\ stopping' = TRUE /\ wanted' = store
    /\ dumps' = Append(dumps, store)
    /\ UNCHANGED <<client, transport>>

\* The host aborts; start()'s listener, if it is armed, calls stop().
Abort ==
    /\ at \notin {"off", "ended", "failed"} /\ ~aborted /\ spent.aborts < MaxAborts
    /\ aborted' = TRUE /\ spent' = [spent EXCEPT !.aborts = @ + 1]
    /\ IF started /\ at # "syncing"
       THEN StopBegins
       ELSE UNCHANGED <<started, stopping, wanted, dumps, client, transport>>
    /\ UNCHANGED <<at, blocked, registered, services, strays, gateVars, roomVars, store,
                   snapshot, dumpFailed>>

\* stop() goes on when its snapshot is written, or could not be.
StopEnds ==
    /\ stopping /\ dumps = <<>>
    /\ stopping' = FALSE /\ client' = "stopped" /\ transport' = "disposed"
    /\ UNCHANGED <<runVars, strays, started, gateVars, roomVars, storeVars, spent>>

\* Mutant: the services are left as they are when the abort came first.
EndsInHaste ==
    /\ at = "serving" /\ aborted /\ at' = "ended"
    /\ registered' = FALSE
    /\ services' = IF stopping THEN {} ELSE services
    /\ UNCHANGED <<aborted, blocked, handleVars, gateVars, roomVars, storeVars, spent>>

\* Mutant: the wait misses an abort whose stop() is over when it begins.
EndsOnEvent ==
    /\ at = "serving" /\ stopping /\ at' = "ended"
    /\ services' = {} /\ registered' = FALSE
    /\ UNCHANGED <<aborted, blocked, handleVars, gateVars, roomVars, storeVars, spent>>

\* startAccount has waited for the abort; its own stop() finds nothing to do, and does
\* not wait for the listener's.
Ends ==
    /\ at = "serving" /\ aborted /\ at' = "ended"
    /\ services' = {} /\ registered' = FALSE
    /\ UNCHANGED <<aborted, blocked, handleVars, gateVars, roomVars, storeVars, spent>>

\* The process dies: all that is left is on disk.
Crash ==
    /\ Fault("crash")
    /\ at' = "off" /\ aborted' = FALSE /\ blocked' = FALSE /\ registered' = FALSE
    /\ services' = {}
    /\ transport' = "none" /\ strays' = 0 /\ client' = "none"
    /\ started' = FALSE /\ stopping' = FALSE
    /\ horizon' = {} /\ delivered' = {} /\ listening' = Never /\ surfaced' = {}
    /\ handed' = Never
    /\ store' = 0 /\ dumps' = <<>> /\ wanted' = 0 /\ dumpFailed' = FALSE
    /\ UNCHANGED <<roomVars, snapshot>>

-----------------------------------------------------------------------------
(* The crypto store. *)

\* Sessions and keys change as the client works.
StoreChanges ==
    /\ client = "running" /\ store < MaxChanges
    /\ store' = store + 1
    /\ UNCHANGED <<runVars, handleVars, gateVars, roomVars, snapshot, dumps, wanted, dumpFailed,
                   spent>>

\* The interval, and the flush before an ack.  Bound: one such dump at a time; it ends
\* before the account is started again.
DumpBegins ==
    /\ client = "running" /\ dumps = <<>> /\ snapshot < store
    /\ dumps' = <<store>>
    /\ UNCHANGED <<runVars, handleVars, gateVars, roomVars, store, snapshot, wanted, dumpFailed,
                   spent>>

DumpEnds ==
    /\ dumps # <<>>
    /\ snapshot' = Head(dumps) /\ dumps' = Tail(dumps) /\ dumpFailed' = FALSE
    /\ UNCHANGED <<runVars, handleVars, gateVars, roomVars, store, wanted, spent>>

\* It fails, which is logged: whoever waits for it goes on as if it were on disk.
DumpFails ==
    /\ dumps # <<>> /\ Fault("dump")
    /\ dumps' = Tail(dumps) /\ dumpFailed' = TRUE
    /\ UNCHANGED <<runVars, handleVars, gateVars, roomVars, store, snapshot, wanted>>

-----------------------------------------------------------------------------
(* Timeline events. *)

SendEvent(e) ==
    /\ e \notin sent /\ sent' = sent \cup {e}
    /\ UNCHANGED <<runVars, handleVars, gateVars, aged, keyed, storeVars, spent>>

\* Ten minutes pass without a start.
Age(e) ==
    /\ "age" \in Faults /\ e \in sent \ aged /\ aged' = aged \cup {e}
    /\ UNCHANGED <<runVars, handleVars, gateVars, sent, keyed, storeVars, spent>>

\* The room key arrives, maybe after the event.
KeyArrives(e) ==
    /\ client = "running" /\ e \in sent \ keyed /\ keyed' = keyed \cup {e}
    /\ UNCHANGED <<runVars, handleVars, gateVars, sent, aged, storeVars, spent>>

\* Mutant: an event is recorded when it is handed over, not when it is admitted.
AdmitReadable(e) ==
    /\ e \notin delivered /\ e \notin horizon
    /\ delivered' = IF e \in keyed THEN delivered \cup {e} ELSE delivered

\* shouldProcessTimelineEvent: once, and not from before the horizon.
shouldProcessTimelineEvent(e) ==
    /\ e \notin delivered /\ e \notin horizon
    /\ delivered' = delivered \cup {e}

\* Hand the event over n times: a command to handleCommand, a message to handleInbound.
deliver(e, n) == handed' = [handed EXCEPT ![e] = @ + n]

\* A sync emits an event, any number of times: readable, it is handed over; else a
\* listener waits for its decryption.  Bound: two listeners.
TimelineEvent(e) ==
    /\ client = "running" /\ e \in sent
    /\ shouldProcessTimelineEvent(e)
    /\ IF e \in keyed
       THEN deliver(e, 1) /\ UNCHANGED listening
       ELSE /\ listening[e] < 2 /\ listening' = [listening EXCEPT ![e] = @ + 1]
            /\ UNCHANGED handed
    /\ UNCHANGED <<runVars, handleVars, horizon, surfaced, roomVars, storeVars, spent>>

\* Mutant: a message that was reported as undecryptable is not waited for any longer.
DecryptedInTime(e) ==
    /\ client = "running" /\ listening[e] > 0 /\ e \in keyed /\ e \notin surfaced
    /\ deliver(e, listening[e])
    /\ listening' = [listening EXCEPT ![e] = 0]
    /\ UNCHANGED <<runVars, handleVars, horizon, delivered, surfaced, roomVars, storeVars, spent>>

\* Decrypted is emitted with success: every listener hands the event over.
Decrypted(e) ==
    /\ client = "running" /\ listening[e] > 0 /\ e \in keyed
    /\ deliver(e, listening[e])
    /\ listening' = [listening EXCEPT ![e] = 0]
    /\ UNCHANGED <<runVars, handleVars, horizon, delivered, surfaced, roomVars, storeVars, spent>>

\* The window for a key is over: it is said once, and the listener stays.
reportUndecryptable(e) ==
    /\ listening[e] > 0 /\ e \notin surfaced /\ e \notin keyed
    /\ surfaced' = surfaced \cup {e}
    /\ UNCHANGED <<runVars, handleVars, horizon, delivered, listening, handed, roomVars,
                   storeVars, spent>>

-----------------------------------------------------------------------------
\* What startAccount does next; the requests and the wait for the first sync have
\* timeouts.  connect() has none, and nothing listens for the abort while it waits: it may
\* never settle (GatewaySocket!ConnectSettles), and Connect is not among these.
Proceed ==
    \/ restoreIdb \/ InitCrypto
    \/ Start \/ InitialSync \/ (aborted /\ InitialSyncFails)
    \/ RoomsReady \/ RoomsFail \/ StartServices \/ Ends

Next ==
    \/ StartAccount \/ restoreIdb
    \/ Connect \/ ConnectFails \/ InitCrypto \/ InitCryptoFails
    \/ Start \/ InitialSync \/ InitialSyncFails
    \/ RoomsReady \/ RoomsFail \/ StartServices \/ Ends
    \/ Abort \/ StopEnds \/ Crash
    \/ StoreChanges \/ DumpBegins \/ DumpEnds \/ DumpFails
    \/ \E e \in Events : \/ SendEvent(e) \/ Age(e) \/ KeyArrives(e) \/ TimelineEvent(e)
                         \/ Decrypted(e) \/ reportUndecryptable(e)

Spec == Init /\ [][Next]_vars

\* A start and a stop go on; the SDK retries a decryption when the key is there.
Fairness ==
    /\ WF_vars(Proceed) /\ WF_vars(StopEnds) /\ WF_vars(DumpEnds \/ DumpFails)
    /\ \A e \in Events : WF_vars(Decrypted(e))

FairSpec == Spec /\ Fairness

-----------------------------------------------------------------------------
(* Properties. *)

\* Every variable has its type.
TypeOK ==
    /\ at \in {"off", "restoring", "connecting", "crypto", "starting", "syncing", "rooms",
               "sessions", "serving", "ended", "failed"}
    /\ aborted \in BOOLEAN /\ blocked \in BOOLEAN /\ registered \in BOOLEAN
    /\ services \subseteq {"manager", "poller"}
    /\ transport \in {"none", "open", "disposed"} /\ strays \in Nat
    /\ client \in {"none", "running", "stopped"}
    /\ started \in BOOLEAN /\ stopping \in BOOLEAN
    /\ sent \subseteq Events /\ aged \subseteq sent /\ horizon \subseteq aged
    /\ keyed \subseteq sent /\ delivered \subseteq sent /\ surfaced \subseteq delivered
    /\ listening \in [Events -> 0..2] /\ handed \in [Events -> 0..2]
    /\ store \in 0..MaxChanges /\ snapshot \in 0..MaxChanges /\ wanted \in 0..MaxChanges
    /\ dumps \in Seq(0..MaxChanges) /\ Len(dumps) =< 2 /\ dumpFailed \in BOOLEAN
    /\ spent \in [failures : 0..MaxFailures, aborts : 0..MaxAborts]

\* "Processed EXACTLY ONCE": however often syncs emit an event, and whenever its key
\* comes, a handle hands it over at most once.
DeliveredOnce == \A e \in Events : handed[e] =< 1

\* An account that has ended, whenever the abort came, leaves no service behind, nor a
\* registered handle, nor, once stop() is over, the client or the transport of the start
\* that ended.
EndedIsClean ==
    at = "ended" =>
       /\ services = {} /\ ~registered /\ ~started
       /\ stopping \/ (client # "running" /\ transport # "open")

\* What the code does not provide: that there is none of an earlier start, either.
NothingLeft == at = "ended" => strays = 0

\* "Final crypto snapshot so the latest keys and sessions survive this shutdown": when
\* stop() disposes of the transport, all that was in the store as it began is on disk,
\* unless the last snapshot failed, which stop() does not see.
StopSaves ==
    [][transport = "open" /\ transport' = "disposed" => snapshot >= wanted' \/ dumpFailed]_vars

\* "The bot keeps its device identity and keys across restarts": a start of the account
\* does not put an older record over a newer one of the same process.
StoreNeverGoesBack == [][at = "restoring" /\ at' = "connecting" => store' >= store]_vars

\* An abort is answered: the account ends or its start fails, unless it meets, or comes
\* to, a connect() that does not settle; it is answered after one that does.
AbortEnds == aborted ~> at \in {"ended", "failed", "off", "connecting"}

\* "Never dropped": an event that waits for its key is handed over when that comes, even
\* after it was reported, as long as the client runs.
LateKeysCount ==
    \A e \in Events : (listening[e] > 0 /\ e \in keyed) ~> (handed[e] > 0 \/ client # "running")
=============================================================================
