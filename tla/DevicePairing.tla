--------------------------- MODULE DevicePairing ---------------------------
(***************************************************************************)
(* Pairing codes and who listens for their redemption:                     *)
(* DevicePairingManager of src/src/device-pairing.ts in the gateway        *)
(* process, runPair of src/src/cli.ts in a process of its own for each     *)
(* code, and the file of outstanding codes they share                      *)
(* (src/src/pairing/outstanding-codes.ts).  The registrar, which keeps the *)
(* codes, and the devices that redeem them are external.                   *)
(*                                                                         *)
(* Poll intervals and backoff are not modelled: a listener may ask at any  *)
(* time.  An aborted poller returns without effect, so it is gone at once. *)
(***************************************************************************)
EXTENDS Naturals, Sequences, FiniteSets

CONSTANTS
    Codes,          \* the codes registered in a behaviour
    Interactive,    \* those of device.pair_start, which have a pair_id
    Reusable,       \* those many devices may redeem
    Devices,        \* the devices that redeem codes
    MaxStatus,      \* bound: the status events of a code before the last restart
    Faults          \* what may go wrong

FaultKinds == {"restart",      \* the gateway process dies and starts again
               "bad_token",    \* the registrar refuses a status request for good
               "overlap",      \* two processes update the file at the same time
               "torn_read"}    \* a process reads the file while another writes it

ASSUME PairingAssumption ==
    /\ Interactive \subseteq Codes
    /\ Reusable \subseteq Codes \ Interactive
    /\ MaxStatus \in Nat
    /\ Faults \subseteq FaultKinds
    /\ "gateway" \notin Codes

VARIABLES
    \* the registrar, the devices and the clock (external)
    record,        \* the status of each code
    redeemed,      \* the devices that have redeemed it
    past,          \* codes whose expiresAt has passed
    \* outstanding-codes.json
    store,         \* the entry of each code
    missed,        \* file versions each process may have read before they were replaced
    \* DevicePairingManager
    minting,       \* start() waits for the registrar
    poller,        \* the poll loop of each code
    announced,     \* its local of that name
    interactive,   \* codes device.pair_cancel knows
    \* runPair
    cli,           \* where each process is
    \* history
    sent,          \* pair_status events of each code, in order
    reported,      \* how often each redeem was processed
    givenUp,       \* codes dropped on a cancel or a permanent error
    forgotten      \* the redeems recorded by a process that died before it processed them

registrarVars == <<record, redeemed, past>>
fileVars == <<store, missed>>
managerVars == <<minting, poller, announced, interactive>>
historyVars == <<sent, reported, givenUp, forgotten>>
vars == <<registrarVars, fileVars, managerVars, cli, historyVars>>

-----------------------------------------------------------------------------
Procs == {"gateway"} \cup (Codes \ Interactive)
Entries == [in : BOOLEAN, seen : SUBSET Devices]
NoEntry == [in |-> FALSE, seen |-> {}]
EmptyFile == [c \in Codes |-> NoEntry]

Init ==
    /\ record = [c \in Codes |-> "none"]
    /\ redeemed = [c \in Codes |-> {}]
    /\ past = {}
    /\ store = EmptyFile
    /\ missed = [p \in Procs |-> {}]
    /\ minting = {} /\ interactive = {}
    /\ poller = [c \in Codes |-> "none"]
    /\ announced = [c \in Codes |-> FALSE]
    /\ cli = [c \in Codes \ Interactive |-> "none"]
    /\ sent = [c \in Codes |-> <<>>]
    /\ reported = [c \in Codes |-> [d \in Devices |-> 0]]
    /\ givenUp = {}
    /\ forgotten = [c \in Codes |-> {}]

-----------------------------------------------------------------------------
(* The file.  An update reads it, and writes it back whole; a process that reads
   before another one writes, and writes after it, undoes the other's update. *)

\* What process p may have read when it writes now.
Views(p) == {store} \cup missed[p] \cup IF "torn_read" \in Faults THEN {EmptyFile} ELSE {}

\* A step of p ends what it may have read before; a write replaces a version.
Write(p, file) ==
    /\ store' = file
    /\ missed' = [q \in Procs |-> IF q = p \/ "overlap" \notin Faults THEN {}
                                  ELSE missed[q] \cup {store}]
NoWrite(p) ==
    /\ UNCHANGED store
    /\ missed' = [missed EXCEPT ![p] = {}]

\* addOutstandingCode.
Add(p, c) == \E v \in Views(p) : Write(p, [v EXCEPT ![c] = [in |-> TRUE, seen |-> {}]])

\* removeOutstandingCode.
Remove(p, c) ==
    \E v \in Views(p) : IF v[c].in THEN Write(p, [v EXCEPT ![c] = NoEntry]) ELSE NoWrite(p)

\* The redeems that an entry has not seen: all of them if there is no entry.
Fresh(v, c) == IF v[c].in THEN redeemed[c] \ v[c].seen ELSE redeemed[c]

\* What both listeners do with a new redeem: report it, and let the user in.
Process(c, ds) ==
    reported' = [reported EXCEPT ![c] = [d \in Devices |-> @[d] + IF d \in ds THEN 1 ELSE 0]]

\* The process dies between the save of recordRedeemedDevices and what follows it: the
\* entry has seen the redeems, and nobody processes them.
Forget(p, c) ==
    \E v \in Views(p) :
        /\ v[c].in /\ Fresh(v, c) # {}
        /\ Write(p, [v EXCEPT ![c].seen = @ \cup redeemed[c]])
        /\ forgotten' = [forgotten EXCEPT ![c] = @ \cup Fresh(v, c)]

\* recordRedeemedDevices.
Record(p, c, v) ==
    /\ IF v[c].in /\ Fresh(v, c) # {}
       THEN Write(p, [v EXCEPT ![c].seen = @ \cup redeemed[c]])
       ELSE NoWrite(p)
    /\ Process(c, Fresh(v, c))

-----------------------------------------------------------------------------
(* The registrar, the devices and the clock (external). *)

\* A device redeems a code: one that is not reusable is then completed.
Redeem(c, d) ==
    /\ record[c] = "pending" /\ d \notin redeemed[c]
    /\ redeemed' = [redeemed EXCEPT ![c] = @ \cup {d}]
    /\ record' = [record EXCEPT ![c] = IF c \in Reusable THEN @ ELSE "completed"]
    /\ UNCHANGED <<past, fileVars, managerVars, cli, historyVars>>

\* The registrar expires a code, by its own clock, and forgets it later.
RegistrarMovesOn(c) ==
    /\ \/ record[c] = "pending" /\ record' = [record EXCEPT ![c] = "expired"]
       \/ record[c] \in {"completed", "expired"} /\ record' = [record EXCEPT ![c] = "gone"]
    /\ UNCHANGED <<redeemed, past, fileVars, managerVars, cli, historyVars>>

ExpiryPasses(c) ==
    /\ record[c] # "none" /\ c \notin past
    /\ past' = past \cup {c}
    /\ UNCHANGED <<record, redeemed, fileVars, managerVars, cli, historyVars>>

-----------------------------------------------------------------------------
(* DevicePairingManager. *)

\* emit(): the event is handed to the transport.  When the request fails that is
\* reported and nothing else: the code goes on as if the phone had been told.
SendStatus(c, s) == sent' = [sent EXCEPT ![c] = Append(@, s)]

\* start().
Start(c) ==
    /\ c \in Interactive \ minting /\ record[c] = "none"
    /\ minting' = minting \cup {c}
    /\ NoWrite("gateway")
    /\ UNCHANGED <<registrarVars, poller, announced, interactive, cli, historyVars>>

\* The registrar has the code: remember it and listen.
Minted(c) ==
    /\ c \in minting
    /\ minting' = minting \ {c}
    /\ record' = [record EXCEPT ![c] = "pending"]
    /\ Add("gateway", c)
    /\ interactive' = interactive \cup {c}
    /\ poller' = [poller EXCEPT ![c] = "sleeping"]
    /\ announced' = [announced EXCEPT ![c] = FALSE]
    /\ UNCHANGED <<redeemed, past, cli, historyVars>>

\* The request fails, although the registrar may have registered the code.
MintFails(c) ==
    /\ c \in minting
    /\ minting' = minting \ {c}
    /\ \E r \in {"none", "pending"} : record' = [record EXCEPT ![c] = r]
    /\ NoWrite("gateway")
    /\ UNCHANGED <<redeemed, past, poller, announced, interactive, cli, historyVars>>

\* scanStore, at the start and every 15 s: one code of the file without a poller.
\* Mutant: a resumed code forgets what it announced.
RescanForgets(c) ==
    /\ poller[c] = "none" /\ c \notin past
    /\ \E v \in Views("gateway") : v[c].in
    /\ poller' = [poller EXCEPT ![c] = "sleeping"]
    /\ announced' = [announced EXCEPT ![c] = FALSE]
    /\ NoWrite("gateway")
    /\ UNCHANGED <<registrarVars, minting, interactive, cli, historyVars>>
\* Mutant: a resumed code is taken for announced.
RescanPresumes(c) ==
    /\ poller[c] = "none" /\ c \notin past
    /\ \E v \in Views("gateway") : v[c].in
    /\ poller' = [poller EXCEPT ![c] = "sleeping"]
    /\ announced' = [announced EXCEPT ![c] = TRUE]
    /\ NoWrite("gateway")
    /\ UNCHANGED <<registrarVars, minting, interactive, cli, historyVars>>
Rescan(c) ==
    /\ poller[c] = "none"
    /\ \E v \in Views("gateway") :
         /\ v[c].in
         /\ IF c \in past
            THEN /\ Remove("gateway", c)
                 /\ UNCHANGED <<poller, announced>>
            ELSE /\ poller' = [poller EXCEPT ![c] = "sleeping"]
                 /\ announced' = [announced EXCEPT ![c] = v[c].seen # {}]
                 /\ NoWrite("gateway")
    /\ UNCHANGED <<registrarVars, minting, interactive, cli, historyVars>>

\* The end of the life of a code: `expired` is sent unless a redeem was announced,
\* and waited for; the entry is then removed.
Expire(c, known) ==
    IF c \in Interactive /\ ~known
    THEN poller' = [poller EXCEPT ![c] = "expiring"] /\ SendStatus(c, "expired")
    ELSE poller' = [poller EXCEPT ![c] = "removing"] /\ UNCHANGED sent

\* The head of the poll loop.
Wakes(c) ==
    /\ poller[c] = "sleeping"
    /\ IF c \in past
       THEN Expire(c, announced[c])
       ELSE poller' = [poller EXCEPT ![c] = "asking"] /\ UNCHANGED sent
    /\ NoWrite("gateway")
    /\ UNCHANGED <<registrarVars, minting, announced, interactive, cli, reported, givenUp,
                   forgotten>>

\* The status request fails for now; mutant: as if for good.
PollFailsOut(c) ==
    /\ poller[c] = "asking"
    /\ poller' = [poller EXCEPT ![c] = "removing"]
    /\ NoWrite("gateway")
    /\ UNCHANGED <<registrarVars, minting, announced, interactive, cli, historyVars>>
PollFails(c) ==
    /\ poller[c] = "asking"
    /\ poller' = [poller EXCEPT ![c] = "sleeping"]
    /\ NoWrite("gateway")
    /\ UNCHANGED <<registrarVars, minting, announced, interactive, cli, historyVars>>

\* The registrar has forgotten the code.
NotFound(c) ==
    /\ poller[c] = "asking" /\ record[c] = "gone"
    /\ poller' = [poller EXCEPT ![c] = "removing"]
    /\ NoWrite("gateway")
    /\ UNCHANGED <<registrarVars, minting, announced, interactive, cli, historyVars>>

\* The request is refused for good: drop the code and say so.
Refused(c) ==
    /\ "bad_token" \in Faults
    /\ poller[c] = "asking"
    /\ poller' = [poller EXCEPT ![c] = "closing"]
    /\ Remove("gateway", c)
    /\ givenUp' = givenUp \cup {c}
    /\ IF c \in Interactive THEN SendStatus(c, "error") ELSE UNCHANGED sent
    /\ UNCHANGED <<registrarVars, minting, announced, interactive, cli, reported, forgotten>>

\* A status: record and announce the redeems, then go on, remove or expire.
Polled(c) ==
    /\ poller[c] = "asking"
    /\ record[c] \in {"pending", "completed", "expired"}
    /\ \E v \in Views("gateway") :
         LET new == Fresh(v, c) # {}
             known == announced[c] \/ new
         IN  /\ IF redeemed[c] # {} THEN Record("gateway", c, v)
                                    ELSE NoWrite("gateway") /\ UNCHANGED reported
             /\ announced' = [announced EXCEPT ![c] = known]
             /\ IF record[c] = "expired"
                THEN IF c \in Interactive /\ new /\ ~announced[c]
                     THEN /\ SendStatus(c, "completed")
                          /\ poller' = [poller EXCEPT ![c] = "removing"]
                     ELSE Expire(c, known)
                ELSE /\ poller' = [poller EXCEPT ![c] = IF record[c] = "completed" THEN "removing"
                                                                              ELSE "sleeping"]
                     /\ IF c \in Interactive /\ new /\ ~announced[c]
                        THEN SendStatus(c, "completed")
                        ELSE UNCHANGED sent
    /\ UNCHANGED <<registrarVars, minting, interactive, cli, givenUp, forgotten>>

\* The entry is removed and the poller returns.
Removes(c) ==
    /\ poller[c] \in {"expiring", "removing"}
    /\ Remove("gateway", c)
    /\ poller' = [poller EXCEPT ![c] = "none"]
    /\ interactive' = interactive \ {c}
    /\ UNCHANGED <<registrarVars, minting, announced, cli, historyVars>>

\* The `error` event has been sent.
Closes(c) ==
    /\ poller[c] = "closing"
    /\ poller' = [poller EXCEPT ![c] = "none"]
    /\ interactive' = interactive \ {c}
    /\ NoWrite("gateway")
    /\ UNCHANGED <<registrarVars, minting, announced, cli, historyVars>>

\* cancel(); a redeem is recorded and its code removed in one go.
Cancel(c) ==
    /\ c \in interactive /\ poller[c] # "removing"
    /\ interactive' = interactive \ {c}
    /\ poller' = [poller EXCEPT ![c] = "none"]
    /\ Remove("gateway", c)
    /\ SendStatus(c, "cancelled")
    /\ givenUp' = givenUp \cup {c}
    /\ UNCHANGED <<registrarVars, minting, announced, cli, reported, forgotten>>

\* The gateway process dies and starts again; the codes of the file are resumed by
\* Rescan.
Dies ==
    /\ "restart" \in Faults
    /\ \A c \in Codes : Len(sent[c]) <= MaxStatus
    /\ \E cs \in SUBSET minting :
         record' = [c \in Codes |-> IF c \in cs THEN "pending" ELSE record[c]]
    /\ minting' = {} /\ interactive' = {}
    /\ poller' = [c \in Codes |-> "none"]
    /\ announced' = [c \in Codes |-> FALSE]
    /\ UNCHANGED <<redeemed, past, cli, sent, reported, givenUp>>

\* It dies anywhere but in handleRedeems ...
Restart == Dies /\ NoWrite("gateway") /\ UNCHANGED forgotten

\* ... or there.  What follows the save up to the next await only begins requests,
\* which die with the process.
RestartRecording(c) ==
    /\ poller[c] = "asking" /\ record[c] \in {"pending", "completed", "expired"}
    /\ Forget("gateway", c)
    /\ Dies

-----------------------------------------------------------------------------
(* runPair, a process for each code; a register request that fails ends it. *)

\* What no step of the CLI changes.
CliVars == <<redeemed, past, managerVars, sent, givenUp>>

CliMints(c) ==
    /\ c \notin Interactive /\ cli[c] = "none"
    /\ record' = [record EXCEPT ![c] = "pending"]
    /\ \E s \in {"minted", "done"} : cli' = [cli EXCEPT ![c] = s]
    /\ NoWrite(c)
    /\ UNCHANGED <<CliVars, reported, forgotten>>

CliAdds(c) ==
    /\ c \notin Interactive /\ cli[c] = "minted"
    /\ Add(c, c)
    /\ cli' = [cli EXCEPT ![c] = "watching"]
    /\ UNCHANGED <<CliVars, record, reported, forgotten>>

\* A status: record the redeems; the first of them ends the watch.
\* Mutant: every code is done with once it is redeemed.
CliPolledRemoves(c) ==
    /\ c \notin Interactive /\ cli[c] = "watching"
    /\ record[c] \in {"pending", "completed", "expired"} /\ redeemed[c] # {}
    /\ \E v \in Views(c) : Record(c, c, v)
    /\ cli' = [cli EXCEPT ![c] = "removing"]
    /\ UNCHANGED <<CliVars, record, forgotten>>
CliPolled(c) ==
    /\ c \notin Interactive /\ cli[c] = "watching"
    /\ record[c] \in {"pending", "completed", "expired"}
    /\ \/ /\ redeemed[c] # {}
          /\ \E v \in Views(c) : Record(c, c, v)
          /\ cli' = [cli EXCEPT ![c] = IF record[c] = "completed" THEN "removing" ELSE "done"]
       \/ /\ redeemed[c] = {} /\ record[c] = "expired"
          /\ NoWrite(c)
          /\ cli' = [cli EXCEPT ![c] = "removing"]
          /\ UNCHANGED reported
    /\ UNCHANGED <<CliVars, record, forgotten>>

\* Telemetry is flushed between the two.
CliRemoves(c) ==
    /\ c \notin Interactive /\ cli[c] = "removing"
    /\ Remove(c, c)
    /\ cli' = [cli EXCEPT ![c] = "done"]
    /\ UNCHANGED <<CliVars, record, reported, forgotten>>

\* The window is over, the registrar refuses, or the process is killed.
CliStops(c) ==
    /\ c \notin Interactive /\ cli[c] \in {"minted", "watching", "removing"}
    /\ cli' = [cli EXCEPT ![c] = "done"]
    /\ NoWrite(c)
    /\ UNCHANGED <<CliVars, record, reported, forgotten>>

\* It is killed between the save of the redeems and the report of them.
CliForgets(c) ==
    /\ c \notin Interactive /\ cli[c] = "watching"
    /\ record[c] \in {"pending", "completed", "expired"}
    /\ Forget(c, c)
    /\ cli' = [cli EXCEPT ![c] = "done"]
    /\ UNCHANGED <<CliVars, record, reported>>

-----------------------------------------------------------------------------
Registrar(c) == RegistrarMovesOn(c) \/ ExpiryPasses(c) \/ \E d \in Devices : Redeem(c, d)
Poll(c) == \/ Rescan(c) \/ Wakes(c) \/ PollFails(c) \/ NotFound(c) \/ Refused(c) \/ Polled(c)
           \/ Removes(c) \/ Closes(c)
Command(c) == Start(c) \/ Minted(c) \/ MintFails(c) \/ Cancel(c)
Cli(c) == \/ CliMints(c) \/ CliAdds(c) \/ CliPolled(c) \/ CliRemoves(c) \/ CliStops(c)
          \/ CliForgets(c)

Next ==
    \/ Restart
    \/ \E c \in Codes : RestartRecording(c) \/ Registrar(c) \/ Poll(c) \/ Command(c) \/ Cli(c)

Spec == Init /\ [][Next]_vars

\* Timers fire and the registrar answers now and then, also when the process restarts
\* again and again.  For the codes of the CLI, which RedeemSeen is about.
Fairness ==
    \A c \in Codes \ Interactive : SF_vars(Rescan(c)) /\ SF_vars(Wakes(c)) /\ SF_vars(Polled(c))
FairSpec == Spec /\ Fairness

-----------------------------------------------------------------------------
(* Types, with what the shape of the state owes to pair_id: only a code that has one
   has status events, waits for one, or can be cancelled. *)

Statuses == {"completed", "expired", "error", "cancelled"}
TypeOK ==
    /\ record \in [Codes -> {"none", "pending", "completed", "expired", "gone"}]
    /\ redeemed \in [Codes -> SUBSET Devices]
    /\ past \subseteq Codes
    /\ store \in [Codes -> Entries]
    /\ missed \in [Procs -> SUBSET [Codes -> Entries]]
    /\ minting \subseteq Interactive /\ interactive \subseteq Interactive
    /\ poller \in [Codes -> {"none", "sleeping", "asking", "expiring", "removing", "closing"}]
    /\ announced \in [Codes -> BOOLEAN]
    /\ cli \in [Codes \ Interactive -> {"none", "minted", "watching", "removing", "done"}]
    /\ sent \in [Codes -> Seq(Statuses)]
    /\ \A c \in Codes \ Interactive : sent[c] = <<>> /\ poller[c] # "expiring"
    /\ reported \in [Codes -> [Devices -> Nat]]
    /\ givenUp \subseteq Codes
    /\ forgotten \in [Codes -> SUBSET Devices]

\* A pairing has one outcome for the phone that asked for it: `completed` is sent once
\* and never taken back by `expired` or `cancelled`, not even when the process restarts
\* in between (the local `announced`, which the entry's deviceIds restore); and nothing
\* follows `cancelled`.
OneOutcome ==
    \A c \in Codes : \A i, j \in DOMAIN sent[c] :
        i < j => /\ sent[c][i] # "cancelled" /\ sent[c][j] # "completed"
                 /\ sent[c][i] = "completed" => sent[c][j] = "error"

\* The redeem of a device.pair_start code is processed at most once, also when the
\* process dies between recording it and removing the code, and polls it again.
InteractiveOnce == \A c \in Interactive, d \in Devices : reported[c][d] <= 1

\* A code leaves the file only when it can no longer be redeemed, or was given up:
\* while it can, the gateway has it to poll, whichever process wrote the file last.
CodeKept ==
    [][\A c \in Codes : store[c].in /\ ~store'[c].in
          => record[c] # "pending" \/ c \in past \/ c \in givenUp']_vars

\* Whatever the two listeners, the file and the restarts do, the user sees an Admission: a
\* device that redeemed a device.pair_start code is let in exactly when the phone is told
\* `completed`, once, and no outcome contradicts another.
Pairing == INSTANCE Admission WITH admitted <- reported, told <- sent
RefinesAdmission == Pairing!Spec

\* A redeem of a code of the CLI is processed by one of the two listeners, unless the
\* code ran out, was given up, or the registrar forgot it before it was next asked, or
\* the listener that recorded it died before it processed it.
RedeemSeen ==
    \A c \in Codes \ Interactive, d \in Devices :
        (store[c].in /\ d \in redeemed[c])
            ~> (\/ reported[c][d] > 0 \/ d \in forgotten[c]
                \/ c \in past \cup givenUp \/ record[c] = "gone")

\* "so the CLI watcher and this listener never double-process one"
\* (device-pairing.ts:314).
ProcessedOnce == \A c \in Codes, d \in Devices : reported[c][d] <= 1
=============================================================================
