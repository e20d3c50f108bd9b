# A verification project for the chat4000 OpenClaw plugin

The plugin connects an OpenClaw agent to chat4000: it logs a bot into a Matrix
homeserver through a gateway WebSocket, keeps a space with a control room and
one room per session, turns messages into agent turns whose answers are streamed
back as edited drafts, pairs devices with six-digit codes, and updates itself.
Everything is TypeScript on one event loop; the interleavings that matter are those
of callbacks, timers and awaits, of several processes that share files
(the resident gateway and the CLI), and of restarts.

This directory holds TLA+ modules translated from the source (paths below are
relative to the repository), TLC configurations that check them on small
instances, and TLAPS proofs of what matters most. `PROJECT.json` maps every
definition to the lines it models, and lists runs, mutants, hazards, findings
and theorems.

    tlc -config MCGatewaySync.cfg MCGatewaySync
    tlapm GatewaySync_proofs.tla

## 1. Inventory

| component | state | operations | what is hard | what makes it correct |
|---|---|---|---|---|
| **Sync transport** `src/matrix/gateway-transport.ts` | backlog of sync frames, pending batch, acked cursors, `sync-pos.txt` | hand out a frame, flush-persist-ack on the next request, sync_reset, reconnect, restart | an ack lets the homeserver delete room keys; the flush is an await during which anything may happen; two files are written at different times | no key deleted before it is on disk; cursors never ahead of the keys; ack echoes the frame |
| **Socket** (same file) | current socket, handshake timer and promise, reconnect timer, requests in flight | connect, openSocket, teardown, auth_ok/auth_error/reauth/resp, close, dispose | events of replaced sockets, timers left over, promises nobody settles | one socket; one way back; every handshake bounded; a drop is recovered from |
| **Crypto snapshot** `src/matrix/idb-persistence.ts` | IndexedDB dump in one JSON file | dump, write, restore | dumps overlap; a failed one is only logged | newest dump wins; a failure is reported to who relies on it |
| **Agent turn** `src/channel.ts`, `matrix/streaming.ts`, `matrix/card-finalize.ts`, `turn-tracker.ts` | draft anchor, pending and last sent text, status keep-alive, card flag, turns in flight | deliver partials, blocks and the final answer; tool status; cleanup | throttled edits race resets and the final edit; callbacks after the cleanup; two turns share a room | the final text is what stays, sent once, flagged for push; nothing runs after the turn |
| **Device pairing** `device-pairing.ts`, `pairing/outstanding-codes.ts`, `pairing/registrar.ts`, `cli.ts` | one poller per code, outstanding codes and redeem indexes in a file | start, poll, cancel, resume; the CLI's own loop | two processes poll one code and rewrite one file; a code expires between polls; cancel during an await | every redeemed device onboarded, once; one terminal status per code |
| **Self-update** `update/*.ts` | marker file with attempt count, restart script, installed version | poll, apply, restart, reconcile at start, roll back | a restart between any two steps; a turn beginning as the installer starts | a bad version is rolled back in bounded attempts; no update during a turn |
| **Rooms** `matrix/space.ts`, `matrix/rooms.ts`, `matrix/onboarded-store.ts` | rooms on the homeserver, `onboarded.json` | ensure space, control room, rooms; create, rename, delete sessions; starter chat | check, await, mark; a room created but not linked | exactly one starter chat per user; ensuring twice changes nothing |
| **Account lifecycle, Matrix client** `channel.ts`, `matrix/client.ts` | transport, client, timers, listeners, delivered event ids | create, start, initial sync, abort, stop | start fails halfway; abort and stop both clean up; dedupe kept only in memory | whatever was started is stopped; an event is dispatched at most once per process |
| **Control-room commands** `commands.ts` | none | parse, dispatch | handlers interleave with the components above | those components' |
| **Messages, media, push** `matrix/inbound.ts`, `send.ts`, `media.ts`, `push-registry.ts` | push marks | convert, send, edit, mark | a mark set around an await | a mark reaches exactly its event |
| **Session bindings** `session-binding.ts` | a JSON file | load, set, clear | several processes, no lock | no update lost |
| **Final card tool** `final-card-tool.ts` | none of its own | send a card | sets the turn's card flag | the turn's |
| **Setup, CLI, wizard** `cli.ts`, `wizard.ts` | credentials | setup, pair, migrate, update, reset | steps fail halfway | setup can be repeated |
| **Migration** `migration/*.ts` | v1 state, snapshot | detect, snapshot, migrate | a crash halfway | snapshot before change |
| **Credentials, paths, accounts, configuration** | files read at start | resolve | none | |
| **Telemetry, analytics, logs** | none that is read back | emit | none | |
| **Installer, containers** `scripts/installer.py`, `install.sh`, `docker/` | the machine | shell out | none a model checker reaches | |

How they interact: the Matrix SDK calls the transport's `slidingSyncRequest` in a
loop and its `request` for everything else; `client.ts` gives the transport the
flush (`persistIdbToDisk`) and a dump every 60 s, and delivers timeline events to
`channel.ts`, which runs commands or agent turns; a turn sends through `send.ts`
and the draft stream; the version poller asks the turn tracker before it installs;
the pairing manager and the CLI share the outstanding-codes file and both
create rooms when a device has redeemed a code.

`PROJECT.json` lists the hazards, each with its line and the properties that would
catch it. Five have none, because the code does what the hazard fears; their
notes say so.

## 2. The modules

| module | models | beside | proofs |
|---|---|---|---|
| `KeyCustody` | what the sync transport promises | | |
| `GatewaySync` | sync frames, acks, cursors, the snapshot | implements `KeyCustody` | `GatewaySync_proofs` |
| `Tunnel` | what the users of the gateway transport may rely on | | |
| `GatewaySocket` | the socket, handshakes, requests | implements `Tunnel`; `GatewaySync` sees its `connected` | `GatewaySocket_proofs` |
| `Conversation` | what the user reads while the agent answers | | |
| `AgentTurn` | a turn of the agent in a room | implements `Conversation`; begins with an event `AccountLifecycle` hands over | `AgentTurn_proofs` |
| `Admission` | what a user who pairs devices may rely on | | |
| `DevicePairing` | codes, their two listeners, the file | implements `Admission`; its redeems begin `Setup`'s starter chats | `DevicePairing_proofs` |
| `SelfUpdate` | update, restart, boot guard, poller | its turns are `AgentTurn`'s, its accounts `AccountLifecycle`'s | `SelfUpdate_proofs` |
| `Setup` | bot, user, rooms, starter chat; setup, migrate, reset | | `Setup_proofs` |
| `Wizard` | the install wizard and the gateways it replaces | runs `Setup` and `DevicePairing` | `Wizard_proofs` |
| `AccountLifecycle` | start to stop of one account, the event gate | restores what `GatewaySync` saves | `AccountLifecycle_proofs` |

Each module keeps its faults in a CONSTANT set, so the run that shows the
property states exactly which failures it survives, and a second configuration
shows the failure it does not.

## 3. The sync transport: `KeyCustody`, `GatewaySync`

The homeserver holds the to-device messages that carry room keys and deletes them
once the device's cursor has passed them. The transport must let the cursor pass a
key only when the crypto store that holds it has been dumped to disk.

**`KeyCustody`** says only that: keys are *held* by the homeserver, *saved* by the
device or *given up* by it, for good; a key stops being held only if it was saved or
given up in an earlier step.

**`GatewaySync`** is the code.

| model | code |
|---|---|
| `syncQueue`, `pendingAck`, `acked`, `syncStarted` | fields of `GatewayTransport`; `acked` is `ackedPos` with `ackedToDevicePos` |
| `flushing` | the local `pending` of `flushAndAckPending` across its await |
| `file`, `snapshot`, `dumps` | `sync-pos.txt`, the JSON dump, dumps under way |
| `sdk`, `inHand`, `store` | where the SDK's loop is, the frame it works on, its in-memory crypto store |
| `deleted`, `since`, `down`, `up` | homeserver, gateway and the two directions of the socket |
| `RequestWithoutAck`, `RequestWithAck`, `RequestWithFlush` | the three ways through `slidingSyncRequest`/`flushAndAckPending` up to the await |
| `FlushResolves`, `FlushRejects` | the rest of `flushAndAckPending` and of the request |
| `WaitEnds` | the timeout with an empty delta, or the SDK's abort |
| `ReceiveSync`, `ReceiveReset` | `onSyncFrame`, `onSyncReset` |
| `Close`, `Reconnect`, `Crash` | `onClose` with `failInFlight`; `auth_ok` on a new socket; process death and `loadPersistedCursors` |
| `TimerDumpBegins`, `TimerDumpEnds` | the dump every 60 s |
| `overrun`, `blind` | history: the keys given up, with a frame discarded at a full backlog, or by a cursor that passed them although no flush had saved them |
| `GatewaySync`, `GatewayReset`, `GatewayReads` | external: what the gateway may do |

Abstractions. A frame is its two cursors and the keys it carries. A dump holds
what the store held when it began. Two dumps walk the same databases in the same
order, so they end in the order they began. A frame sent while the socket is
open but not authenticated is counted as lost, because the gateway ignores it.
`undefined` cursors are 0.

The code lets a cursor pass an unsaved key in two places, and `blind` collects the
keys exactly there: when the snapshot taken for an ack is not written, which
`persistIdbToDisk` only logs (`idb-persistence.ts:238`), the keys of the batch being
acked; and when a batch without keys of its own is acked without a flush, the keys of
the batches before it (`gateway-transport.ts:697` looks at the acked batch alone). It
never collects a batch's own keys when that batch is acked without a flush, nor
anything when a flush succeeds, so everything else that could let the homeserver
delete a key (order, resets, connections, restarts, overlapping dumps, the backlog)
is still in the properties' way.

Bounds. In `MCGatewaySync` the stream has two positions, the first of which carries
a key and the second none; every disk fault may happen; the backlog holds two frames
(`MaxSyncQueue`), three may be sent (`MaxFrames`), and a reset names the room
position alone or both cursors. This is the least in which a frame waits in the
backlog behind a batch whose flush is under way, one is dropped from the full
backlog, an old one survives a reconnect, and a batch without keys follows one with a
key whose flush failed. Closes, restarts and dumps are not bounded. 6.9 million
distinct states.

| run | checks | shows |
|---|---|---|
| `sync` | `AckedKeysSaved`, `CursorKeysSaved`, `EchoExact`, `RefinesCustody` | hold whatever disks fail and connections drop: a key is lost only where it was given up in one of the three ways above |

Three more configurations are kept beside the runs; each is refuted by TLC and says
what the code does not guarantee.

| configuration | refutes | because |
|---|---|---|
| `MCGatewaySyncSwallowed.cfg` | `NoKeyPassed` | the flush swallows its error, as `persistIdbToDisk` does |
| `MCGatewaySyncSparse.cfg` | `NoKeyPassed` | a batch without keys is not flushed, yet its cursor covers an earlier batch that never was |
| `MCGatewaySyncExpired.cfg` | `ExpiredPosForgotten` | an expired room position survives a reset in the backlog or in a flush under way |

Deadlock is checked.

**Proved** (`GatewaySync_proofs`, for every stream, set of keys, backlog limit, set of
disk faults and number of frames; nothing is assumed beyond `SyncAssumption`):

- `TypeCorrect`: `Spec => []TypeOK`.
- `KeysSavedBeforeDeleted`, `CursorsBehindKeys`: `AckedKeysSaved` and
  `CursorKeysSaved`.
- `ImplementsCustody`: `Spec` implements `KeyCustody!Spec` with *held* = not yet
  deleted, *saved* = on disk, *given up* = `overrun` with `blind`.
- `AcksEcho`: `EchoExact`, if a reset that names the to-device cursor names the room
  position too (`ResetsNamePos`), by `EchoInv`: a position and its cursor travel
  together from the gateway through backlog and batch back.

The two properties about keys are not inductive: nothing in them says that the keys a flush
is about to save are the keys its batch covers. `IInv` adds, by name, where the
SDK's loop is relative to the batch (`LoopInv`), that dumps grow and contain the
snapshot (`DumpInv`), that the frames in flight, in the backlog and in hand are
consecutive enough that the store has every key below the batch's cursor or it was
given up (`FlowInv`), and that a batch knows whether it has keys and its flush covers
it (`BatchInv`). Each action has one lemma.

## 4. The socket: `Tunnel`, `GatewaySocket`

`sock` gives each WebSocket's readyState; `ws` is the current one and the only one
with listeners, as `teardownSocket` detaches the others. The rest are the
fields of the class: `authTimer`, `authSettle` (the slot with the promise's
resolve and reject), `connected`, `closed`, `reconnectTimer`, and `request`,
`sentOn` for the pending map. One action per callback. `connectPromise` is what the
caller of `connect()` holds; `Dispose` and requests need it resolved, because
the callers get hold of the transport only then.

`Tunnel` is the same seen from outside, without sockets, handshakes, timers or
reconnects: `connect()` settles once, resolves only as the tunnel comes up and is not
rejected once it is up; a request is made only by who has been given the tunnel, is
pending only while it is up, settles once, and is rejected there and then when it
goes down; a tunnel that is shut (`dispose`, or a token refused) and goes down stays
down. `RefinesTunnel` maps `connect` to `connectPromise`, `up` to `connected`, `shut`
to `closed`. It is about what may happen: that `connect()` settles at all is refuted
below.

Delays, backoff lengths and jitter are left out: an armed timer may fire at any
time, which includes every order the real delays allow. Sockets are identities that
can be used again once gone, so three suffice for one current, one closing
and one being opened without bounding the number of reconnects; two requests
suffice for one to be answered while another is orphaned. The run stops when a
disposed transport has nothing left to do, hence `CHECK_DEADLOCK FALSE`.

Fairness (`FairSpec`): armed timers fire, and a socket told to close reports it
(weak fairness); a request's timeout fires (weak); a handshake that is tried again
and again gets through in the end (strong fairness of `Opens` for the current
socket and of `AuthOk`). The first two are what Node's event loop and the
WebSocket API guarantee; the last is the assumption that the network is not down for
ever. Nothing makes the user call anything.

| run | checks | shows |
|---|---|---|
| `socket` | `OneLiveSocket`, `OneWayBack`, `QuietWhenClosed`, `WaitsOnLiveSocket`, `HandshakeBounded`, `Recovers`, `RefinesTunnel` | hold for every order of events; a drop is recovered from unless the transport was closed or is stranded; nothing of the sockets and their timers shows in what the users of the transport see |
| `socket_stranded` | `NeverStranded` | fails: the handshake timer of a reconnect detaches its socket before closing it, so `onClose` never runs and nothing reconnects |

`MCGatewaySocketConnect.cfg` refutes `ConnectSettles`: a first socket that closes before
`auth_ok` leaves the promise of `connect()` to be overwritten by the reconnect.

**Proved** (`GatewaySocket_proofs`, for any sockets and requests): `TypeCorrect`;
`OneSocket` (`OneLiveSocket`), `OneWayBackAtATime` (`OneWayBack`) and `ClosedStaysQuiet`
(`QuietWhenClosed`), which are inductive only jointly with where `ws` points;
`RequestsWaitOnLiveSocket`; `HandshakesBounded`; and `ImplementsTunnel`, the refinement,
one step of `Tunnel` or a stutter for each action. What the refinement needs
is `SlotInv`: the slot `authSettle` holds the promise of `connect()` only as long as that
is pending, and is empty while connected. So an `auth_ok` settles
`connect()` at most once, and the slot a reconnect fills over it is never mistaken for
it. Liveness (`Recovers`) stays with TLC: fairness and ENABLED are beyond the prover.

## 5. The agent turn: `Conversation`, `AgentTurn`

One room. A turn is one call of `dispatchToAgentInner`: the OpenClaw runtime calls
its closures back (partial text, tool items, blocks and the final reply, typing)
and, when it is done, the `finally` runs. `draft` is its `MatrixDraftStream` (anchor,
last sent and pending text, throttle timer, the send under way and the edits that wait
for it), `awaiting` the text `deliver()` waits to have finalized, `tools`, `call` and
`bubbles` the tool messages, `status` and `keepAlive` the label and its timer,
`cardFlag` the process-wide flag of `card-finalize.ts`. `messages`, `pushed`,
`replies` and `finals` record what the room has been shown.

`Conversation` is the same without streams, throttles, queues and callbacks. Its state is
`messages`, `pushed` and `replies` and, for each turn, whether it is new, open or over
(`Stage` of `phase`); its steps are a turn that begins, ends, replies, or puts a text into
a new message or into one of its own that is still a draft, and pushes it if the text is
one of its replies. It binds together what the invariants say one by one: who
writes, into what, when, and what is pushed.

Abstractions. A text is its length, for a draft only grows until it is reset. The
labels *thinking*, *working* and *typing* are one, *active*: the properties ask
whether a label stands, not which. The throttle timer may fire at any time. A send
resolves or, with `SendFaults`, rejects. A rejection (an error, a timeout, a socket that
drops) does not say whether the homeserver carried the request out: with `CarriedOut` it
has, and the new message or bubble is in the room although the code does not know it. A
request that is carried out after its rejection is not modelled. `Init` allows a card flag
left by an earlier turn. A tool that failed and one that is done both show an end.

The runtime is external. It awaits the callbacks it is given, unless `Overlap` says
otherwise: `"text"` lets it deliver a reply while another is under way, `"items"` lets
a turn end while a tool item is, `"turns"` runs two turns of the room at once. In the
run `Overlap` is empty. With `"text"` TLC finds `PushedIsFinal` and `FinalStands`
violated, with `"items"` `QuietAfterTurn` and `NoEternalSpinner`, with `"turns"`
`CardOfThisTurn`: these are the properties that the code owes to the runtime, and the
hazards list says so at each line.

Bounds. One turn, one tool with one call, texts of length two (`MaxText`), one final
reply (`MaxFinals`), one call of each other kind at a time (`MaxOps`), one request that is
rejected although it was carried out (`MaxCarried`), no partial reply that repeats the
former (`Repeats`): enough for a throttled edit, a reset and a final edit to meet, for a
tool's end to be missing or to fail, for a bubble nobody knows, and for a card to precede
the answer. 964 thousand distinct states. A turn finishes, hence `CHECK_DEADLOCK FALSE`.

`NoEternalSpinner` excuses bubbles of which a send or an edit was rejected (`lost`). When
`sendToolStart` rejects although the homeserver has the bubble, `tools` has no entry for it
and nothing ends it: it spins for ever, and the code does not promise otherwise. For every
other bubble the property says that the tool's end, or the sweep after the turn, reaches it.

Fairness. Sends settle, as the transport bounds every request (`GatewaySocket`'s
timeout), and the steps of the cleanup go on (one weak fairness for each turn); nothing
makes the runtime call.

| run | checks | shows |
|---|---|---|
| `turn` | `FinalStands`, `PushedIsFinal`, `NoEternalSpinner`, `QuietAfterTurn`, `CardOfThisTurn`, `TurnCleansUp`, `RefinesConversation` | hold with failing sends and every order of the callbacks' sends: the user reads a `Conversation` |
| `turn_pushed` | `FinalPushed` | fails: when a throttled edit has already sent the whole answer, the final edit is skipped and nothing carries the push flag |

**Proved** (`AgentTurn_proofs`, for any turns, tools, calls and texts): `TypeCorrect`
without conditions; `CardIsOfTheTurn` (`CardOfThisTurn`) unless `"turns"` may overlap;
`QuietWhenOver` (`QuietAfterTurn`) and `BubblesClosed` (`NoEternalSpinner`) unless
`"items"` may; `OnlyFinalsPushed` (`PushedIsFinal`) and `PushedStands` (`FinalStands`)
unless `"text"` may; `ImplementsConversation` (`RefinesConversation`) unless `"text"` or
`"items"` may, and so for any number of turns at once, where the run has one. Each condition
is the one whose absence TLC refutes above.

What makes the properties inductive: `CardInv` ties the flag to the cards owed by the
one turn that is busy; `QuietInv` says what each phase of the cleanup has left
behind; `SpinInv` relates a bubble to the entry of `tools` that will end it, and
says that at most one call is about it; `PushInv`, the longest argument, says that no
edit queued behind the final one carries a text of its own and that the message
a draft writes into has not been pushed. The refinement needs
two of the four: by `QuietInv` a send settles before its turn is over, and by `PushInv` it
writes into a message of its own turn that was not pushed and, when it pushes, carries one of
that turn's replies. Liveness (`TurnCleansUp`) stays with TLC.

## 6. Device pairing: `Admission`, `DevicePairing`

Two kinds of process share `outstanding-codes.json`: the gateway, whose
`DevicePairingManager` polls every code in it, and one `chat4000 pair` per code,
which polls its own until the first redeem. `Interactive` codes are those of
`device.pair_start`; they have a `pair_id`, and so status events.

| model | code |
|---|---|
| `store`; `Add`, `Remove`, `Record` | the file and the three updates of it; `seen` is `deviceIds` |
| `missed`, `Views` | what a process may have read before another wrote (`"overlap"`), or finds unparsable (`"torn_read"`) |
| `poller`, `announced`, `interactive`, `minting` | `active` with the place in `poll()`; the local of that name; the map of pair_ids; `start()` under way |
| `Start`, `Minted`, `MintFails`, `Cancel` | `start`, `cancel` |
| `Rescan`; `Wakes` to `Closes` | `scanStore`; `poll` with `handleRedeems`, split at each await and before each removal |
| `CliMints` to `CliForgets` | `runPair` |
| `record`, `redeemed`, `past` | external: the registrar, the devices, the clock |
| `Restart` | process death and `resume()` |
| `RestartRecording`, `CliForgets`; `forgotten` | the death of a listener between the save in `recordRedeemedDevices` and what follows it; the redeems it took along |

`Admission` has neither polls nor entries nor processes that die: devices redeem codes
(`redeemed`), are let in (`admitted`, which is `reported`), and the phone is told (`told`,
which is `sent`). For a `device.pair_start` code it lets the one device in and tells
`completed` in the same step, once, and only if nothing was told before.

A process that dies between two writes is why `Polled` and `Removes` are two
steps although the gateway runs them in one go. It may also die inside `handleRedeems`, or
a `pair` in its counterpart, with the redeem saved as seen and nothing done about it
(`Forget`): everything that follows up to the next await only begins requests, which die
with the process, so that part of it done is none done. Such a redeem is lost for good: no
listener takes it for a new one, the device is not let in and the phone is not told.
`Admission` allows that, and `RedeemSeen` excuses the redeems in `forgotten`.

`sent` is what was handed to the transport, and `told` in `Admission` is no more than that:
an event whose request fails is reported and not sent again, and nothing else changes, so
that the failing path of `emit()` is the same step. Poll delays are left out: a listener
may ask at any time. The registrar's expiry and the local one are independent.

Bounds. `pairing` has a `device.pair_start` code and a reusable code of the CLI in one
file, two devices, so that the reusable code is redeemed after the CLI has gone, and any
number of restarts as long as no code has had more than one status event
(`MaxStatus`). 851 thousand distinct states. Everything comes to an end, hence
`CHECK_DEADLOCK FALSE`.

Fairness (`RedeemSeen`). Rescans and sleeps end and a status request is answered, each
infinitely often if it is infinitely often possible (strong fairness): a registrar
that never answers, or a gateway that always dies before it asks, is ruled out, and
single failures and deaths are not.

| run | checks | shows |
|---|---|---|
| `pairing` | `OneOutcome`, `CodeKept`, `RedeemSeen`, `RefinesAdmission` | hold across restarts and permanent errors when updates of the file do not overlap, and every redeem is processed by one of the two unless the code runs out first or the listener dies with it in hand; with `"overlap"` or `"torn_read"` TLC finds `CodeKept` and `RefinesAdmission` violated |
| `pairing_once` | `ProcessedOnce` | fails without any fault: the listener that removes a completed code removes the memory of its redeem |

**Proved** (`DevicePairing_proofs`, for any codes, devices and bounds): `TypeCorrect`;
and, under `Sole` (neither `"overlap"` nor `"torn_read"`), `ProcessedAtMostOnce`
(`InteractiveOnce`, a part of what `Admission` says), `StaysInFile` (`CodeKept`), `OutcomeIsOne` (`OneOutcome`) and
`ImplementsAdmission` (`RefinesAdmission`). `IInv` adds that no update of the
file is missed (`Alone`), for each code what the file must hold for a poller to be where
it is (`CodeInv`), and for an interactive one that a redeem is in the file's record or
among those about to be processed, never in both (`OnceInv`). `OutInv` adds what each event sent rules out: after
`completed` the entry, if there still is one, names the device, so that whoever polls next
knows it was announced; after `expired` nobody will ask again, or there is nothing to
find; and that a poller takes a redeem for announced exactly when the entry names one, which
is why a new redeem is always told. Model-checked only: the liveness property.

## 7. Replacing itself: `SelfUpdate`

One gateway process with its accounts, the files that outlive it (`disk`, the installed
version, and `marker`), and everything that may change them: `applyUpdate` as a job of
the `plugin.update` command, of the CLI or of a rollback; the shells it detaches to
restart the gateway (`restarts`); the installer a poller launches. A version is its
number; one in `Bad` starts its accounts and dies before it has synced.

| model | code |
|---|---|
| `Boot`, `Crash`, `Restart` | external: the host, and the shell of `scheduleRestart` |
| `UpdateCommand`, `UpdateFromCli`; `Probed`, `Installed`, `InstallFailed` | `applyUpdate`, split at the probes and at the install; the last two write the marker and schedule the restart, or report |
| `Reconcile`, `StartAccount` | `reconcileUpdateMarker` and what `startAccount` makes of its verdict: go on with a `confirmHealthy`, or roll back and end |
| `Connected`, `ConnectedAgain` | the first sync and later ones, which call `confirmHealthy` and start the poller |
| `TickAsks`, `TickLaunches`, `TickPutOff` | `VersionPoller.tick`, split at the registrar's answer |
| `InstallerInstalls` to `InstallerFails` | external: the registrar's installer |
| `beginAgentTurn`, `endAgentTurn` | `turn-tracker.ts` |

`trial`, a history variable, counts the boots of the version last restarted into and
whether one of its processes has synced.

Bounds. One account, two versions of which the newer one never comes up and is the one
the registrar wants, one turn, two updates asked for, one death of a good version, two
restarts pending, and every fault of `Mishaps`: enough for an update, its failing boots
and the rollback to meet a second update, an installer or a crash at any point.
513 thousand distinct states. A process with nothing to do may stop changing, hence
`CHECK_DEADLOCK FALSE`.

Fairness. What is under way goes on: the host boots a process that is gone, accounts
start, jobs, installers and turns end (weak fairness); a bad version does die. For the
poller, `TickLaunches` is strongly fair: a registrar that never answers when no turn
is in flight is ruled out, single failures are not.

| run | checks | shows |
|---|---|---|
| `update` | `RollbackOnlyUnconfirmed`, `MarkerResolved`, `WantedArrives` | a version that has synced is not rolled back, whoever else updates or crashes; no marker lingers; a poll put off, for a turn or a failure, is made again |

What the code's comments promise beyond that is refuted; each of these is a definition
of the module and not a run:

- `RollbackAfterBoots` (`MCSelfUpdateBoots.cfg`): attempts are counted per account, so two
  accounts use them up in one boot, and a rollback comes after fewer boots than
  `MAX_BOOT_ATTEMPTS`. What does hold is `RollbackAfterAttempts`: where there is one
  account and the host starts it once per process (`MCSelfUpdateAttempts.cfg`, which TLC
  confirms), the new version has had `MAX_BOOT_ATTEMPTS` boots, the last of which may still
  be under way.
- `FirstBootGuarded` (`MCSelfUpdateUnguarded.cfg`): a second update under way may delete or
  replace the marker before the first one's restart comes.
- `AbortedBootRestarts` with `Faults = {"install"}`: a rollback whose install fails has
  ended the account, and schedules nothing.
- `NoReplyDropped`: the poller looks at the turns as it launches the installer
  (`TickLaunches`), but the installer restarts the gateway later, and a turn may have begun.

**Proved** (`SelfUpdate_proofs`): `TypeCorrect` and `HealthyStays`
(`RollbackOnlyUnconfirmed`), for any accounts, versions, faults and bounds. `IInv` adds what
a job knows (`JobInv`), that no account runs without a process (`ProcessInv`), and the heart
of it, `MarkerInv`: once a process of the new version is healthy there is no marker, and
as long as there is one every running account of a booted process holds a
`confirmHealthy` that clears it. `AttemptsAreBoots` (`RollbackAfterAttempts`) assumes `Single`, one account
and no `"restart_account"` among the faults, without which TLC refutes it;
its `AttemptsInv` says that the marker counts no more attempts than its version had boots
while the account of the booted process has still to start (`Yet`), and at most one more
after. Liveness stays with TLC.

## 8. The bot, the user and the rooms: `Setup`

A `task` is a `setup`, a `migrate`, a gateway's scan at boot, its handling of a redeem, or a
`session.*` command under way; it makes one request at a time and keeps its local
variables in `task[t]`. `room` is the homeserver: what each room is for, whose it is,
whether the bot is still in, who was invited, and the two halves of its link to a space.
`creds`, `config`, `workspace`, `onboarded` and `v1` are files.

| model | code |
|---|---|
| `BeginSetup`, `provisionBot`, `ensureUser` | `runSetup` up to the rooms |
| `JoinedRooms` to `InviteToControl` | `ensurePluginRoomsViaApi` with `setupPluginRooms` and the invitations, one request a step; the file is written when both rooms are there and linked |
| `ensureInitialSession`, `CreateSession`, `LinkChild`, `LinkParent` | the functions of that name: `createSessionRoom`, and the two halves of `linkChild` |
| `writeChannelConfig`, `runMigration`, `runReset` | `writeChannelConfig`, `runChat4000Migration`, `runReset` |
| `GatewayStarts`, `LoadRooms`, `GatewayEnds` | `startAccount`, `ensurePluginRooms` with the scan for members of the control room |
| `onDeviceRedeemed`, `SessionNew`, `SessionArchive`, `SessionDelete`, `LeaveAndForget` | the callback of the pairing manager, and the commands |
| `Fails`, `Fault("request")` | a request that fails undone; one that is done without the answer arriving |
| `BotIsOut`, `Refused` | the bot has left or been removed; the homeserver's answer to it |

Abstractions. The user the registrar derives from a bot has its number. A process that
dies is a request that fails. A failed write of the marker file is the same as an
answer that does not arrive; what the code adds, that it then makes another chat at every
boot as long as the disk fails, is each time one failure more. `session.delete` takes any room id; the
model has it of rooms the app lists. `reset` leaves the config and a running gateway as they are,
and so does the model.

Bounds. Three bots and eleven rooms are all that one failure, one reset and two
commands can use up (`MaxFailures`, `MaxResets`, `MaxCommands`); the bot may lose its
control room. 908 thousand distinct states. When the bounds are used up nothing may be
left to do, hence `CHECK_DEADLOCK FALSE`.

Fairness. A task goes on (weak), and setup is run again and again (strong fairness of
`BeginSetup`): that is the hypothesis of `SetupConverges`, not a claim about users.

| run | checks | shows |
|---|---|---|
| `setup` | `DuplicatesHaveACause`, `WorkspaceLinked`, `OnboardedUsable`, `ListedIsLive`, `ServesOwnRooms`, `SetupConverges` | a second room of a kind needs a failure or a reset; what is on file is linked, what is marked usable, what is listed alive; setup run again completes |
| `setup_migrate` | `MigratedCanPair` | fails without any fault: the documented way from v1 has no user to pair |

The limits of it, as the code has them: `OneOfEach`, the unconditional form of
`DuplicatesHaveACause`, is refuted with `"request"` or with `"overlap"` (what
`matrix/rooms.ts:66-69` and `matrix/space.ts:183-187` promise: rooms are created first and
recorded later, without a lock), and
`WorkspaceLinked` with `"space"` (a control room that outlives its space is kept in the
old one).

**Proved** (`Setup_proofs`, for any bounds and faults, `"overlap"` included): `TypeCorrect`,
`MarkedHasAChat` (`OnboardedUsable`), `ListedCanBeOpened` (`ListedIsLive`),
`GatewayServesItsOwn` (`ServesOwnRooms`), and `ControlRoomLinked` (`WorkspaceLinked`) when
the bot does not lose its space. `IInv` says that a room's kind and bot never change and
its parent is a space of the same bot (`RoomInv`); that the rooms a task holds are of the kind
and the bot it takes them for (`FieldInv`), and the room it is making its own (`OwnInv`) and nobody
else's (`Distinct`); and the same of the files (`FileInv`, `MarkInv`). `LinkInv` adds, for
the last theorem, that a control room a task holds has been linked to the space
it holds.

`DuplicatesAreAccounted` is `DuplicatesHaveACause` for every bound, under the hypothesis
`Sole`: tasks do not overlap and the bot does not lose its space, which is what the run
checks it with (`Faults = {"request", "control"}`) and without which it is false.
`CauseInv` is why: one task at a time (`OneAtATime`), which works on the identity on file
(`ActiveOK`); the workspace on file belongs to that identity (`FileCred`); and `Balance`,
the rooms of a kind a bot has, with the request about to create another, are no more
than the failures, the resets and the one that is on file or being linked.
`OneOfEachIfAllGoesWell` follows: with no failure and no reset there is one of each.
The counting rests on the cardinalities of the library's `FiniteSetTheorems`; it takes no
induction over data. Liveness stays with TLC.

## 9. The install wizard: `Wizard`

The wizard prepares (`Setup`), gets the gateway restarted by whoever manages it or kills
and launches it itself, waits for a readiness line in the log and pairs (`DevicePairing`).
`gateway` is every process there has been, `line` the last readiness line of each: none;
stale, from more than a second before the restart instant; early, from the last second
before it or until the gateway was replaced; or late. A connected gateway writes one with
every sync, the old one too. At the start the host may manage a gateway, and one may have
been started by hand (`Beside` when the host manages gateways): the restart by the host
leaves it running.

| model | code |
|---|---|
| `prepare`, `pair` and their failures | the first and the last step of `runWizard` |
| `planGatewayRestart`, `RestartByHost` | `probeRestart` with `planGatewayRestart`; `docker restart`, `openclaw gateway restart` |
| `SeesGateway`, `SeesNoGateway`, `Shoots`, `Launch` | `killAllGateways` by rounds, and the launch in the foreground |
| `GatewayReady`, `GivesUpWaiting` | `waitForGatewayReady` with `runtimeLogReadySince` |
| `Connects` to `HostRespawns` | external: the gateways and the host |

Bounds. Two rounds of killing, and seven processes: two that may run at the start and
five that boot, so that deaths before, during and after the restart are followed by a new
one. 2.2 million distinct states. The wizard ends, hence `CHECK_DEADLOCK FALSE`.

Fairness (weak): the wizard goes on once the plugin is prepared, and so do the gateways that
boot. The preparation is `Setup`, whose connect() (`rooms.ts:94`) need not settle
(`ConnectSettles` in section 4): `WizardEnds` begins after it. The pairing has a deadline.

| run | checks | shows |
|---|---|---|
| `wizard` | `OneGateway`, `ReadyIsRecent`, `WizardEnds` | two gateways at once only if a probe missed one, the rounds were over or one was started by hand beside the host's; a line that ends the wait is never older than a second before the restart instant and, once the gateway is replaced, never the former one's; it ends |

`MCWizardReady.cfg` refutes `ReadyIsNew`, the comment of `wizard.ts` that a line after the
restart instant "proves THIS gateway loaded the plugin": the old gateway syncs once more
within the second that is subtracted, or before it is replaced, and is taken for the new one.
No fault is needed.

**Proved** (`Wizard_proofs`, for any number of processes and rounds and all faults):
`TypeCorrect`; `NoOverlap` (`OneGateway`), by `AliveInv`, which says at each step how many
gateways can be up beside those started by hand and who manages them; `ReadyLineIsRecent`
(`ReadyIsRecent`), by `LineInv`: once the gateway is replaced, what runs, and what has
written a line since, is new or was started by hand.

## 10. One account: `AccountLifecycle`

`at` is the await `startAccount` is in; the `MatrixClientHandle` it makes is `transport`,
`client`, `started` and `stopping`; `delivered`, `listening`, `surfaced` and `handed` are the gate
for timeline events, with the listeners for events that cannot be decrypted yet; `store`,
`snapshot` and `dumps` are the crypto store in memory, its file, and the snapshots being
taken. A store is its version, the number of changes made to it.

| model | code |
|---|---|
| `StartAccount` to `Ends` | `startAccount`, `MatrixClientHandle.create` and `start()`, one action for each await and for its failure |
| `Throws`, `strays` | a start that fails after connect(): its transport is left to itself |
| `Abort`, `StopEnds` | the abort listener with its `stop()`, split at the last snapshot |
| `Crash` | process death |
| `DumpBegins`, `DumpEnds`, `DumpFails` | the dump every 60 s, and any other; one that cannot be taken or written is logged and its waiter goes on |
| `TimelineEvent`, `Decrypted`, `reportUndecryptable` | the handler of `Room.timeline`, the listener of a late decryption, the timer that reports |
| `SendEvent`, `Age`, `KeyArrives`, `StoreChanges` | external: the rooms and the SDK |

Abstractions. `deliveredEventIds` belongs to a handle, so an event is handed over at most
once per handle; after a restart whose cursor was lost, one younger than ten minutes
is handed over again. The channel's `stop()` returns while the listener's is still saving;
the host is assumed to start the account again only when both are over, which is the
guard of `StartAccount`. A failed start leaves its transport connected or reconnecting, and
nobody holds it: `strays` counts them, and what they do at the gateway is not modelled
further. Under `versionBlock` the account connects without rooms.

Bounds. Events do not affect one another, so there is one; three changes of the store,
two failures (starts, snapshots, crashes), two aborts, every fault. 799 thousand distinct
states. An account that has ended may stay so, hence `CHECK_DEADLOCK FALSE`.

Fairness (weak): `startAccount` and the stop go on, snapshots end or fail, the SDK retries
a decryption once the key is there. `Connect` is not fair: connect() need not settle
(`ConnectSettles` in section 4), and nothing listens for the abort while it is awaited
(`client.ts:272`), so `AbortEnds` excuses an account that is connecting.

| run | checks | shows |
|---|---|---|
| `account` | `DeliveredOnce`, `EndedIsClean`, `StopSaves`, `AbortEnds`, `LateKeysCount` | an event is handed over once however it is repeated, and when its key comes late; an abort at any await but connect() ends the account, leaves no service, registration, client or transport of that start, and saves the store unless the last snapshot fails |

`MCAccountLifecycleRollback.cfg` refutes `StoreNeverGoesBack`: an account started again in
the same process after a failed start restores the last snapshot over its newer store.
`MCAccountLifecycleStrays.cfg` refutes `NothingLeft`: a start fails after `connect()`, the
host starts the account again, and when that ends the first transport is still there.
`EndedIsClean` is about the start that ended.

**Proved** (`AccountLifecycle_proofs`, for any events and bounds): `TypeCorrect`, `Once`
(`DeliveredOnce`), `EndClean` (`EndedIsClean`), `SavedAtStop` (`StopSaves`). `IInv` adds
what has been made by each await (`RunInv`), that an event is handed over or waited for,
never both (`GateInv`), that at most one snapshot is under way when the stop's own begins
(`DumpInv`), and that the last one queued is as new as the store was (`SaveInv`).

## 11. Findings

Each is a run that TLC refutes, and `PROJECT.json` quotes the line it contradicts.

1. **A reconnect whose handshake times out is the last one** (`gateway-transport.ts:336`, `socket_stranded`).
2. **A final reply may not be flagged for push** (`streaming.ts:127`, `turn_pushed`).
3. **A redeem of a CLI code may be processed twice** (`cli.ts:749`, `pairing_once`).
4. **A migrated account has no user to pair** (`migration/migrate.ts:84`, `setup_migrate`).

The further disagreements are in the sections above, each with its configuration:

    tlc -config MCGatewaySyncSwallowed.cfg MCGatewaySync
    tlc -config MCGatewaySyncSparse.cfg MCGatewaySync
    tlc -config MCGatewaySyncExpired.cfg MCGatewaySync
    tlc -config MCGatewaySocketConnect.cfg MCGatewaySocket
    tlc -config MCSelfUpdateBoots.cfg MCSelfUpdate
    tlc -config MCSelfUpdateUnguarded.cfg MCSelfUpdate
    tlc -config MCWizardReady.cfg MCWizard
    tlc -config MCAccountLifecycleRollback.cfg MCAccountLifecycle
    tlc -config MCAccountLifecycleStrays.cfg MCAccountLifecycle

## 12. Proofs at a glance

Every proof has the same shape: `Init => IInv`, one lemma per action (or group of
actions) for `IInv /\ [Next]_vars => IInv'`, `IInv => Inv`, and a temporal step.
What a theorem assumes of the faults is in its ASSUME, next to the named assumption on
the constants of its module. Every safety property a passing run checks, and all four
refinements (`ImplementsCustody`, `ImplementsTunnel`, `ImplementsConversation`,
`ImplementsAdmission`), are theorems. Only model-checked is
liveness (`Recovers`, `TurnCleansUp`, `RedeemSeen`,
`MarkerResolved`, `WantedArrives`, `SetupConverges`, `WizardEnds`, `AbortEnds`,
`LateKeysCount`), since fairness and ENABLED are beyond the prover. The types of
every module (`TypeCorrect`), which each inductive invariant begins with, are proved and not
checked by a run.

## 13. Not modelled

Of the modelled components: the routing and the envelope of a message (`AgentTurn`);
the shutdown of the pairing manager, for which a restart stands (`DevicePairing`);
credentials the operator or the environment supplies, `session.rename`, which changes a
name, and the `sessions`, `status` and `telemetry` commands (`Setup`); receipts, notices and
connection status (`AccountLifecycle`). What a frame of the gateway protocol contains
beyond cursors and keys, and what the gateway does with a second `sync_start` on one
socket, is not in the repository.

Left out for good: the conversions of messages, media and push rules, outbound
`sendText` and `sendMedia`, the card tool's own code, paths and configuration,
telemetry, installer and containers. They are straight-line input and output with no
concurrent actor, where a test reaches as far as a model. Session bindings are a file
that several processes rewrite, as the outstanding codes of `DevicePairing` are; no code
of the repository but the adapter's own reads it.
