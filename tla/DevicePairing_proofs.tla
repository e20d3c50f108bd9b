------------------------ MODULE DevicePairing_proofs ------------------------
(***************************************************************************)
(* Proofs about DevicePairing: its types, and, when the two processes do   *)
(* not write the file of codes at the same time, that a code stays in it   *)
(* as long as it can be redeemed, that a redeem of a pair_start code is    *)
(* processed once, and that its phone is told one outcome.                 *)
(***************************************************************************)
EXTENDS DevicePairing, TLAPS

Files == [Codes -> Entries]
Polls == {"none", "sleeping", "asking", "expiring", "removing", "closing"}
Clis == {"none", "minted", "watching", "removing", "done"}

-----------------------------------------------------------------------------
(* Types. *)

LEMMA EntryTypes == NoEntry \in Entries /\ [in |-> TRUE, seen |-> {}] \in Entries
                    /\ EmptyFile \in Files
BY DEF NoEntry, Entries, EmptyFile, Files

LEMMA ViewTypes == ASSUME TypeOK, NEW p \in Procs PROVE Views(p) \subseteq Files
BY EntryTypes DEF Views, TypeOK, Files

LEMMA ProcTypes == /\ "gateway" \in Procs
                   /\ \A c \in Codes \ Interactive : c \in Procs
BY DEF Procs

\* The file and what the processes may have read of it, after a step of one of them.
FileOK == store \in Files /\ missed \in [Procs -> SUBSET Files]

LEMMA WriteTypes ==
    ASSUME TypeOK, NEW p \in Procs
    PROVE  /\ \A file \in Files : Write(p, file) => FileOK'
           /\ NoWrite(p) => FileOK'
<1>1. store \in Files /\ missed \in [Procs -> SUBSET Files]
  BY DEF TypeOK, Files
<1>2. ASSUME NEW file \in Files, Write(p, file) PROVE FileOK'
  BY <1>1, <1>2 DEF Write, FileOK
<1>3. ASSUME NoWrite(p) PROVE FileOK'
  BY <1>1, <1>3 DEF NoWrite, FileOK
<1>4. QED
  BY <1>2, <1>3

LEMMA AddTypes == ASSUME TypeOK, NEW p \in Procs, NEW c \in Codes, Add(p, c) PROVE FileOK'
<1>1. PICK v \in Views(p) : Write(p, [v EXCEPT ![c] = [in |-> TRUE, seen |-> {}]])
  BY DEF Add
<1>2. v \in Files
  BY ViewTypes
<1>3. [v EXCEPT ![c] = [in |-> TRUE, seen |-> {}]] \in Files
  BY <1>2, EntryTypes DEF Files
<1>4. QED
  BY <1>1, <1>3, WriteTypes

LEMMA RemoveTypes == ASSUME TypeOK, NEW p \in Procs, NEW c \in Codes, Remove(p, c) PROVE FileOK'
<1>1. PICK v \in Views(p) :
         IF v[c].in THEN Write(p, [v EXCEPT ![c] = NoEntry]) ELSE NoWrite(p)
  BY DEF Remove
<1>2. v \in Files
  BY ViewTypes
<1>3. [v EXCEPT ![c] = NoEntry] \in Files
  BY <1>2, EntryTypes DEF Files
<1>4. QED
  BY <1>1, <1>3, WriteTypes

LEMMA RecordTypes ==
    ASSUME TypeOK, NEW p \in Procs, NEW c \in Codes, NEW v \in Views(p), Record(p, c, v)
    PROVE  FileOK' /\ reported' \in [Codes -> [Devices -> Nat]]
<1>1. v \in Files /\ redeemed[c] \subseteq Devices
  BY ViewTypes DEF TypeOK
<1>2. v[c] \in Entries /\ v[c].seen \subseteq Devices
  BY <1>1 DEF Files, Entries
<1>3. [v EXCEPT ![c] = [v[c] EXCEPT !.seen = v[c].seen \cup redeemed[c]]] \in Files
  <2>1. [v[c] EXCEPT !.seen = v[c].seen \cup redeemed[c]] \in Entries
    BY <1>1, <1>2 DEF Entries
  <2>2. QED
    BY <1>1, <2>1 DEF Files
<1>4. [v EXCEPT ![c].seen = @ \cup redeemed[c]]
        = [v EXCEPT ![c] = [v[c] EXCEPT !.seen = v[c].seen \cup redeemed[c]]]
  BY <1>1 DEF Files
<1>5. FileOK'
  BY <1>3, <1>4, WriteTypes DEF Record
<1>6. reported' \in [Codes -> [Devices -> Nat]]
  <2>1. reported' = [reported EXCEPT ![c] =
                        [d \in Devices |-> reported[c][d] + IF d \in Fresh(v, c) THEN 1 ELSE 0]]
    BY DEF Record, Process, TypeOK
  <2>2. [d \in Devices |-> reported[c][d] + IF d \in Fresh(v, c) THEN 1 ELSE 0] \in [Devices -> Nat]
    BY DEF TypeOK
  <2>3. QED
    BY <2>1, <2>2 DEF TypeOK
<1>7. QED
  BY <1>5, <1>6

LEMMA ForgetTypes ==
    ASSUME TypeOK, NEW p \in Procs, NEW c \in Codes, Forget(p, c)
    PROVE  FileOK' /\ forgotten' \in [Codes -> SUBSET Devices]
<1>1. PICK v \in Views(p) :
          /\ Write(p, [v EXCEPT ![c].seen = @ \cup redeemed[c]])
          /\ forgotten' = [forgotten EXCEPT ![c] = @ \cup Fresh(v, c)]
  BY DEF Forget
<1>2. v \in Files /\ redeemed[c] \subseteq Devices
  BY ViewTypes DEF TypeOK
<1>3. [v[c] EXCEPT !.seen = v[c].seen \cup redeemed[c]] \in Entries
  BY <1>2 DEF Files, Entries
<1>4. [v EXCEPT ![c].seen = @ \cup redeemed[c]] \in Files
  <2>1. [v EXCEPT ![c].seen = @ \cup redeemed[c]]
          = [v EXCEPT ![c] = [v[c] EXCEPT !.seen = v[c].seen \cup redeemed[c]]]
    BY <1>2 DEF Files
  <2>2. QED
    BY <1>2, <1>3, <2>1 DEF Files
<1>5. FileOK'
  BY <1>1, <1>4, WriteTypes
<1>6. Fresh(v, c) \subseteq Devices
  BY <1>2 DEF Fresh
<1>7. forgotten' \in [Codes -> SUBSET Devices]
  BY <1>1, <1>6 DEF TypeOK
<1>8. QED
  BY <1>5, <1>7

\* A status event.
LEMMA SentTypes ==
    ASSUME TypeOK, NEW c \in Interactive, NEW s \in Statuses, SendStatus(c, s), PairingAssumption
    PROVE  /\ sent' \in [Codes -> Seq(Statuses)]
           /\ \A b \in Codes \ Interactive : sent'[b] = sent[b]
<1>1. c \in Codes /\ sent[c] \in Seq(Statuses)
  BY DEF TypeOK, PairingAssumption
<1>2. Append(sent[c], s) \in Seq(Statuses)
  BY <1>1
<1>3. QED
  BY <1>1, <1>2 DEF SendStatus, TypeOK

LEMMA TypeInit == PairingAssumption /\ Init => TypeOK
<1> SUFFICES ASSUME PairingAssumption, Init PROVE TypeOK
  OBVIOUS
<1>1. store \in [Codes -> Entries]
  BY EntryTypes DEF Init, Files
<1>2. /\ sent \in [Codes -> Seq(Statuses)]
      /\ \A c \in Codes \ Interactive : sent[c] = <<>> /\ poller[c] # "expiring"
  BY DEF Init
<1>3. reported \in [Codes -> [Devices -> Nat]]
  BY DEF Init
<1>4. missed \in [Procs -> SUBSET [Codes -> Entries]]
  BY DEF Init
<1>5. QED
  BY <1>1, <1>2, <1>3, <1>4 DEF Init, TypeOK

LEMMA TypeRegistrar ==
    ASSUME PairingAssumption, TypeOK, NEW c \in Codes, Registrar(c) PROVE TypeOK'
<1>1. UNCHANGED <<fileVars, managerVars, cli, historyVars>>
  BY DEF Registrar, Redeem, RegistrarMovesOn, ExpiryPasses
<1>2. record' \in [Codes -> {"none", "pending", "completed", "expired", "gone"}]
  BY DEF Registrar, Redeem, RegistrarMovesOn, ExpiryPasses, TypeOK
<1>3. past' \subseteq Codes
  BY DEF Registrar, Redeem, RegistrarMovesOn, ExpiryPasses, TypeOK
<1>4. redeemed' \in [Codes -> SUBSET Devices]
  <2>1. ASSUME NEW d \in Devices, Redeem(c, d) PROVE redeemed' \in [Codes -> SUBSET Devices]
    BY <2>1 DEF Redeem, TypeOK
  <2>2. QED
    BY <2>1 DEF Registrar, RegistrarMovesOn, ExpiryPasses, TypeOK
<1>5. QED
  BY <1>1, <1>2, <1>3, <1>4 DEF fileVars, managerVars, historyVars, TypeOK

LEMMA TypeCommand ==
    ASSUME PairingAssumption, TypeOK, NEW c \in Codes, Command(c) PROVE TypeOK'
<1>1. CASE Start(c) \/ MintFails(c)
  <2>1. FileOK'
    BY <1>1, ProcTypes, WriteTypes DEF Start, MintFails
  <2>2. /\ record' \in [Codes -> {"none", "pending", "completed", "expired", "gone"}]
        /\ minting' \subseteq Interactive
        /\ UNCHANGED <<redeemed, past, poller, announced, interactive, cli, historyVars>>
    BY <1>1 DEF Start, MintFails, registrarVars, TypeOK
  <2>3. QED
    BY <2>1, <2>2 DEF historyVars, FileOK, Files, TypeOK
<1>2. CASE Minted(c)
  <2>1. FileOK'
    BY <1>2, ProcTypes, AddTypes DEF Minted
  <2>2. QED
    BY <1>2, <2>1 DEF Minted, historyVars, FileOK, Files, TypeOK
<1>3. CASE Cancel(c)
  <2>1. FileOK'
    BY <1>3, ProcTypes, RemoveTypes DEF Cancel
  <2>2. c \in Interactive /\ "cancelled" \in Statuses
    BY <1>3 DEF Cancel, TypeOK, Statuses
  <2>3. /\ sent' \in [Codes -> Seq(Statuses)]
        /\ \A b \in Codes \ Interactive : sent'[b] = sent[b]
    BY <1>3, <2>2, SentTypes DEF Cancel
  <2>4. QED
    BY <1>3, <2>1, <2>3 DEF Cancel, registrarVars, FileOK, Files, TypeOK
<1>4. QED
  BY <1>1, <1>2, <1>3 DEF Command

LEMMA TypeCli ==
    ASSUME PairingAssumption, TypeOK, NEW c \in Codes, Cli(c) PROVE TypeOK'
<1>1. c \in Codes \ Interactive /\ c \in Procs
  BY ProcTypes DEF Cli, CliMints, CliAdds, CliPolled, CliRemoves, CliStops, CliForgets
<1>2. /\ FileOK' /\ reported' \in [Codes -> [Devices -> Nat]]
      /\ forgotten' \in [Codes -> SUBSET Devices]
  <2>1. CASE CliMints(c) \/ CliStops(c)
    BY <1>1, <2>1, WriteTypes DEF CliMints, CliStops, TypeOK
  <2>2. CASE CliAdds(c)
    BY <1>1, <2>2, AddTypes DEF CliAdds, TypeOK
  <2>3. CASE CliRemoves(c)
    BY <1>1, <2>3, RemoveTypes DEF CliRemoves, TypeOK
  <2>4. CASE CliPolled(c)
    BY <1>1, <2>4, RecordTypes, WriteTypes DEF CliPolled, TypeOK
  <2>5. CASE CliForgets(c)
    BY <1>1, <2>5, ForgetTypes DEF CliForgets, TypeOK
  <2>6. QED
    BY <2>1, <2>2, <2>3, <2>4, <2>5 DEF Cli
<1>3. /\ UNCHANGED CliVars
      /\ record' \in [Codes -> {"none", "pending", "completed", "expired", "gone"}]
      /\ cli' \in [Codes \ Interactive -> Clis]
  <2>1. CASE CliMints(c)
    BY <1>1, <2>1 DEF CliMints, TypeOK, Clis
  <2>2. CASE CliAdds(c) \/ CliRemoves(c) \/ CliStops(c)
    BY <1>1, <2>2 DEF CliAdds, CliRemoves, CliStops, TypeOK, Clis
  <2>3. CASE CliPolled(c)
    BY <1>1, <2>3 DEF CliPolled, TypeOK, Clis
  <2>4. CASE CliForgets(c)
    BY <1>1, <2>4 DEF CliForgets, TypeOK, Clis
  <2>5. QED
    BY <2>1, <2>2, <2>3, <2>4 DEF Cli
<1>4. QED
  BY <1>2, <1>3 DEF CliVars, managerVars, FileOK, Files, Clis, TypeOK

\* The end of the life of a code, for any value of `announced`.
LEMMA ExpireTypes ==
    ASSUME PairingAssumption, TypeOK, NEW c \in Codes, NEW known, Expire(c, known)
    PROVE  /\ poller' \in [Codes -> Polls] /\ sent' \in [Codes -> Seq(Statuses)]
           /\ \A b \in Codes \ Interactive : sent'[b] = <<>> /\ poller'[b] # "expiring"
<1>1. CASE c \in Interactive /\ ~known
  <2>1. poller' = [poller EXCEPT ![c] = "expiring"] /\ SendStatus(c, "expired")
    BY <1>1 DEF Expire
  <2>2. "expired" \in Statuses
    BY DEF Statuses
  <2>3. QED
    BY <1>1, <2>1, <2>2, SentTypes DEF TypeOK, Polls
<1>2. CASE ~(c \in Interactive /\ ~known)
  BY <1>2 DEF Expire, TypeOK, Polls
<1>3. QED
  BY <1>1, <1>2

LEMMA TypePoll ==
    ASSUME PairingAssumption, TypeOK, NEW c \in Codes, Poll(c) PROVE TypeOK'
<1>1. FileOK' /\ reported' \in [Codes -> [Devices -> Nat]]
  <2>1. CASE Rescan(c)
    BY <2>1, ProcTypes, RemoveTypes, WriteTypes DEF Rescan, historyVars, TypeOK
  <2>2. CASE Wakes(c) \/ PollFails(c) \/ NotFound(c) \/ Closes(c)
    BY <2>2, ProcTypes, WriteTypes DEF Wakes, PollFails, NotFound, Closes, historyVars, TypeOK
  <2>3. CASE Refused(c) \/ Removes(c)
    BY <2>3, ProcTypes, RemoveTypes DEF Refused, Removes, historyVars, TypeOK
  <2>4. CASE Polled(c)
    BY <2>4, ProcTypes, RecordTypes, WriteTypes DEF Polled, TypeOK
  <2>5. QED
    BY <2>1, <2>2, <2>3, <2>4 DEF Poll
<1>2. /\ poller' \in [Codes -> Polls] /\ sent' \in [Codes -> Seq(Statuses)]
      /\ \A b \in Codes \ Interactive : sent'[b] = <<>> /\ poller'[b] # "expiring"
  <2>1. CASE Rescan(c)
    BY <2>1 DEF Rescan, historyVars, TypeOK, Polls
  <2>2. CASE PollFails(c) \/ NotFound(c) \/ Closes(c) \/ Removes(c)
    BY <2>2 DEF PollFails, NotFound, Closes, Removes, historyVars, TypeOK, Polls
  <2>3. CASE Wakes(c)
    BY <2>3, ExpireTypes DEF Wakes, TypeOK, Polls
  <2>4. CASE Refused(c)
    <3>1. c \in Interactive => SendStatus(c, "error")
      BY <2>4 DEF Refused
    <3>2. "error" \in Statuses
      BY DEF Statuses
    <3>3. /\ sent' \in [Codes -> Seq(Statuses)]
          /\ \A b \in Codes \ Interactive : sent'[b] = <<>>
      BY <2>4, <3>1, <3>2, SentTypes DEF Refused, TypeOK
    <3>4. QED
      BY <2>4, <3>3 DEF Refused, TypeOK, Polls
  <2>5. CASE Polled(c)
    <3>1. \/ \E known : Expire(c, known)
          \/ /\ \E p \in {"removing", "sleeping"} : poller' = [poller EXCEPT ![c] = p]
             /\ UNCHANGED sent \/ (c \in Interactive /\ SendStatus(c, "completed"))
      BY <2>5 DEF Polled
    <3>2. "completed" \in Statuses
      BY DEF Statuses
    <3>3. CASE \E known : Expire(c, known)
      BY <3>3, ExpireTypes
    <3>4. CASE /\ \E p \in {"removing", "sleeping"} : poller' = [poller EXCEPT ![c] = p]
               /\ UNCHANGED sent \/ (c \in Interactive /\ SendStatus(c, "completed"))
      <4>1. /\ poller' \in [Codes -> Polls]
            /\ \A b \in Codes \ Interactive : poller'[b] # "expiring"
        BY <3>4 DEF TypeOK, Polls
      <4>2. CASE UNCHANGED sent
        BY <4>1, <4>2 DEF TypeOK
      <4>3. CASE c \in Interactive /\ SendStatus(c, "completed")
        BY <3>2, <4>1, <4>3, SentTypes DEF TypeOK
      <4>4. QED
        BY <3>4, <4>2, <4>3
    <3>5. QED
      BY <3>1, <3>3, <3>4
  <2>6. QED
    BY <2>1, <2>2, <2>3, <2>4, <2>5 DEF Poll
<1>3. announced' \in [Codes -> BOOLEAN]
  <2>1. CASE Polled(c)
    <3>1. PICK known \in BOOLEAN : announced' = [announced EXCEPT ![c] = known]
      BY <2>1 DEF Polled, TypeOK
    <3>2. QED
      BY <3>1 DEF TypeOK
  <2>2. CASE Rescan(c)
    BY <2>2 DEF Rescan, TypeOK
  <2>3. QED
    BY <2>1, <2>2 DEF Poll, Wakes, PollFails, NotFound, Refused, Removes, Closes, TypeOK
<1>4. /\ UNCHANGED <<registrarVars, minting, cli, forgotten>>
      /\ interactive' \subseteq interactive /\ givenUp' \subseteq Codes
  BY DEF Poll, Rescan, Wakes, PollFails, NotFound, Refused, Polled, Removes, Closes,
     historyVars, TypeOK
<1>5. QED
  BY <1>1, <1>2, <1>3, <1>4 DEF registrarVars, FileOK, Files, Polls, TypeOK

LEMMA TypeDies ==
    ASSUME PairingAssumption, TypeOK, Dies, FileOK', forgotten' \in [Codes -> SUBSET Devices]
    PROVE  TypeOK'
<1>1. record' \in [Codes -> {"none", "pending", "completed", "expired", "gone"}]
  BY DEF Dies, TypeOK
<1>2. QED
  BY <1>1 DEF Dies, FileOK, Files, TypeOK

LEMMA TypeRestart ==
    ASSUME PairingAssumption, TypeOK, Restart \/ \E c \in Codes : RestartRecording(c)
    PROVE  TypeOK'
<1>1. CASE Restart
  <2>1. FileOK'
    BY <1>1, ProcTypes, WriteTypes DEF Restart
  <2>2. forgotten' \in [Codes -> SUBSET Devices]
    BY <1>1 DEF Restart, TypeOK
  <2>3. QED
    BY <1>1, <2>1, <2>2, TypeDies DEF Restart
<1>2. ASSUME NEW c \in Codes, RestartRecording(c) PROVE TypeOK'
  BY <1>2, ProcTypes, ForgetTypes, TypeDies DEF RestartRecording
<1>3. QED
  BY <1>1, <1>2

LEMMA TypeNext == ASSUME PairingAssumption, TypeOK, [Next]_vars PROVE TypeOK'
<1>1. CASE UNCHANGED vars
  BY <1>1 DEF vars, registrarVars, fileVars, managerVars, historyVars, TypeOK
<1>2. CASE Next
  BY <1>2, TypeRestart, TypeRegistrar, TypePoll, TypeCommand, TypeCli DEF Next
<1>3. QED
  BY <1>1, <1>2

\* The types of DevicePairing, for every set of codes and devices and with every fault;
\* with them, that no code of the CLI ever has a status event.
THEOREM TypeCorrect == Spec => []TypeOK
<1>1. PairingAssumption
  BY PairingAssumption
<1>2. QED
  BY <1>1, TypeInit, TypeNext, PTL DEF Spec

-----------------------------------------------------------------------------
(* The file, when one process at a time reads and writes it. *)

Sole == Faults \cap {"overlap", "torn_read"} = {}

\* Nobody holds a version of the file that has been replaced.
Alone == \A p \in Procs : missed[p] = {}

\* What an update of the entry of c leaves: the other entries and, but for the redeems it
\* records, that of c.
Others(c) == \A b \in Codes \ {c} : store'[b] = store[b]

LEMMA AloneViews == ASSUME TypeOK, Sole, Alone, NEW p \in Procs PROVE Views(p) = {store}
BY DEF Sole, Alone, Views

LEMMA AloneWrites ==
    ASSUME TypeOK, Sole, Alone, NEW p \in Procs, NEW STATE file
    PROVE  /\ Write(p, file) => store' = file /\ Alone'
           /\ NoWrite(p) => store' = store /\ Alone'
BY DEF Sole, Alone, Write, NoWrite, TypeOK

LEMMA AloneAdd ==
    ASSUME TypeOK, Sole, Alone, NEW p \in Procs, NEW c \in Codes, Add(p, c)
    PROVE  Alone' /\ Others(c) /\ store'[c] = [in |-> TRUE, seen |-> {}]
<1>1. Write(p, [store EXCEPT ![c] = [in |-> TRUE, seen |-> {}]])
  BY AloneViews DEF Add
<1>2. Alone' /\ store' = [store EXCEPT ![c] = [in |-> TRUE, seen |-> {}]]
  BY <1>1 DEF Write, Alone, Sole, TypeOK
<1>3. QED
  BY <1>2 DEF Others, TypeOK

LEMMA AloneRemove ==
    ASSUME TypeOK, Sole, Alone, NEW p \in Procs, NEW c \in Codes, Remove(p, c)
    PROVE  Alone' /\ Others(c) /\ ~store'[c].in
<1>1. IF store[c].in THEN Write(p, [store EXCEPT ![c] = NoEntry]) ELSE NoWrite(p)
  BY AloneViews DEF Remove
<1>2. CASE store[c].in
  <2>1. Alone' /\ store' = [store EXCEPT ![c] = NoEntry]
    BY <1>1, <1>2 DEF Write, Alone, Sole, TypeOK
  <2>2. QED
    BY <2>1 DEF Others, NoEntry, TypeOK
<1>3. CASE ~store[c].in
  BY <1>1, <1>3 DEF NoWrite, Alone, Others, TypeOK
<1>4. QED
  BY <1>2, <1>3

LEMMA AloneKeep ==
    ASSUME TypeOK, Sole, Alone, NEW p \in Procs, NoWrite(p)
    PROVE  Alone' /\ store' = store
BY DEF NoWrite, Alone, TypeOK

LEMMA AloneRecord ==
    ASSUME TypeOK, Sole, Alone, NEW p \in Procs, NEW c \in Codes, NEW v \in Views(p),
           Record(p, c, v)
    PROVE  /\ Alone' /\ Others(c)
           /\ store'[c].in = store[c].in
           /\ store[c].in => store'[c].seen = store[c].seen \cup redeemed[c]
           /\ \A b \in Codes \ {c} : reported'[b] = reported[b]
           /\ \A d \in Devices : reported'[c][d] = reported[c][d] + IF d \in Fresh(store, c) THEN 1 ELSE 0
<1>1. v = store
  BY AloneViews
<1>2. /\ \A b \in Codes \ {c} : reported'[b] = reported[b]
      /\ \A d \in Devices : reported'[c][d] = reported[c][d] + IF d \in Fresh(store, c) THEN 1 ELSE 0
  BY <1>1 DEF Record, Process, TypeOK
<1>3. CASE store[c].in /\ Fresh(store, c) # {}
  <2>1. Write(p, [store EXCEPT ![c].seen = @ \cup redeemed[c]])
    BY <1>1, <1>3 DEF Record
  <2>2. Alone' /\ store' = [store EXCEPT ![c].seen = @ \cup redeemed[c]]
    BY <2>1 DEF Write, Alone, Sole, TypeOK
  <2>3. Others(c) /\ store'[c] = [store[c] EXCEPT !.seen = store[c].seen \cup redeemed[c]]
    BY <2>2 DEF Others, TypeOK
  <2>4. store[c] \in Entries
    BY DEF TypeOK
  <2>5. store'[c].in = store[c].in /\ store'[c].seen = store[c].seen \cup redeemed[c]
    BY <2>3, <2>4 DEF Entries
  <2>6. QED
    BY <1>2, <2>2, <2>3, <2>5
<1>4. CASE ~(store[c].in /\ Fresh(store, c) # {})
  <2>1. Alone' /\ store' = store
    BY <1>1, <1>4, AloneKeep DEF Record
  <2>2. store[c].in => store[c].seen = store[c].seen \cup redeemed[c]
    BY <1>4 DEF Fresh
  <2>3. QED
    BY <1>2, <2>1, <2>2 DEF Others
<1>5. QED
  BY <1>3, <1>4

LEMMA AloneForget ==
    ASSUME TypeOK, Sole, Alone, NEW p \in Procs, NEW c \in Codes, Forget(p, c)
    PROVE  /\ Alone' /\ Others(c)
           /\ store'[c].in = store[c].in
           /\ store'[c].seen = store[c].seen \cup redeemed[c]
<1>1. Write(p, [store EXCEPT ![c].seen = @ \cup redeemed[c]])
  BY AloneViews DEF Forget
<1>2. Alone' /\ store' = [store EXCEPT ![c].seen = @ \cup redeemed[c]]
  BY <1>1 DEF Write, Alone, Sole, TypeOK
<1>3. Others(c) /\ store'[c] = [store[c] EXCEPT !.seen = store[c].seen \cup redeemed[c]]
  BY <1>2 DEF Others, TypeOK
<1>4. store[c] \in Entries
  BY DEF TypeOK
<1>5. store'[c].in = store[c].in /\ store'[c].seen = store[c].seen \cup redeemed[c]
  BY <1>3, <1>4 DEF Entries
<1>6. QED
  BY <1>2, <1>3, <1>5

\* What the death of the gateway does to the file.
DiesFile ==
    \A c \in Codes : /\ store'[c].in = store[c].in
                     /\ store[c].seen \subseteq store'[c].seen
                     /\ store'[c].seen \subseteq store[c].seen \cup redeemed[c]

LEMMA AloneDies ==
    ASSUME TypeOK, Sole, Alone, Restart \/ \E c \in Codes : RestartRecording(c)
    PROVE  Dies /\ Alone' /\ DiesFile
<1>1. CASE Restart
  BY <1>1, ProcTypes, AloneKeep DEF Restart, DiesFile
<1>2. ASSUME NEW c \in Codes, RestartRecording(c) PROVE Dies /\ Alone' /\ DiesFile
  <2>1. Dies /\ Forget("gateway", c)
    BY <1>2 DEF RestartRecording
  <2>2. /\ Alone' /\ Others(c) /\ store'[c].in = store[c].in
        /\ store'[c].seen = store[c].seen \cup redeemed[c]
    BY <2>1, ProcTypes, AloneForget
  <2>3. QED
    BY <2>1, <2>2 DEF Others, DiesFile
<1>3. QED
  BY <1>1, <1>2

-----------------------------------------------------------------------------
(* A code, as the registrar, the gateway and the process of the CLI know it. *)

Over(c) == record[c] # "pending" \/ c \in past \/ c \in givenUp

\* Nothing is known of a code that is not registered, and a listener that is about to
\* remove one has seen that it is over.
CodeInv(c) ==
    /\ c \in minting => record[c] = "none"
    /\ record[c] = "none" => redeemed[c] = {} /\ ~store[c].in /\ poller[c] = "none"
    /\ c \notin Interactive => (cli[c] = "none" <=> record[c] = "none")
    /\ poller[c] \in {"expiring", "removing"} => Over(c)
    /\ c \notin Interactive /\ cli[c] = "removing" => Over(c)

\* A redeem that has been processed is in the entry as long as there is one, and only a
\* code with an entry is listened for.
OnceInv(c) ==
    /\ \A d \in Devices : reported[c][d] =< 1 /\ (reported[c][d] > 0 => d \in redeemed[c])
    /\ poller[c] \in {"sleeping", "asking"} => store[c].in
    /\ store[c].in => \A d \in Devices : reported[c][d] > 0 => d \in store[c].seen

IInv == /\ TypeOK /\ Alone
        /\ \A c \in Codes : CodeInv(c) /\ (c \in Interactive => OnceInv(c))

\* A code that leaves the file is over.
Leaves(c) == store[c].in /\ ~store'[c].in => record[c] # "pending" \/ c \in past \/ c \in givenUp'

\* What a step says of one code.
Kept(c) == CodeInv(c)' /\ (c \in Interactive => OnceInv(c)') /\ Leaves(c)

\* The step is about another code.
Same(c) ==
    /\ record'[c] = record[c] /\ redeemed'[c] = redeemed[c] /\ (c \in past' <=> c \in past)
    /\ store'[c] = store[c] /\ poller'[c] = poller[c] /\ (c \in minting' <=> c \in minting)
    /\ c \notin Interactive => cli'[c] = cli[c]
    /\ reported'[c] = reported[c] /\ (c \in givenUp' <=> c \in givenUp)

LEMMA SameKept == ASSUME IInv, NEW c \in Codes, Same(c) PROVE Kept(c)
BY DEF IInv, Same, Kept, CodeInv, OnceInv, Over, Leaves

\* Every step of the code c is about c alone.
LEMMA Frame ==
    ASSUME PairingAssumption, Sole, IInv, NEW c \in Codes,
           Registrar(c) \/ Poll(c) \/ Command(c) \/ Cli(c)
    PROVE  Alone' /\ \A b \in Codes \ {c} : Same(b)
<1>1. CASE Registrar(c)
  BY <1>1 DEF Registrar, Redeem, RegistrarMovesOn, ExpiryPasses, fileVars, managerVars,
     historyVars, Same, Alone, IInv, TypeOK
<1>2. CASE Command(c)
  BY <1>2, ProcTypes, AloneKeep, AloneAdd, AloneRemove
     DEF Command, Start, Minted, MintFails, Cancel, registrarVars, historyVars, Others, Same,
         IInv, TypeOK
<1>3. CASE Cli(c)
  <2>1. CASE CliForgets(c)
    BY <2>1, ProcTypes, AloneForget
       DEF CliForgets, CliVars, managerVars, Others, Same, IInv, TypeOK
  <2>2. CASE ~CliForgets(c)
    BY <1>3, <2>2, ProcTypes, AloneKeep, AloneAdd, AloneRemove, AloneRecord
       DEF Cli, CliMints, CliAdds, CliPolled, CliRemoves, CliStops, CliVars, managerVars,
           Others, Same, IInv, TypeOK
  <2>3. QED
    BY <2>1, <2>2
<1>4. CASE Poll(c)
  <2>1. CASE Rescan(c) \/ PollFails(c) \/ NotFound(c) \/ Removes(c) \/ Closes(c) \/ Refused(c)
    BY <2>1, ProcTypes, AloneKeep, AloneRemove
       DEF Rescan, PollFails, NotFound, Removes, Closes, Refused, registrarVars, historyVars,
           Others, Same, IInv, TypeOK
  <2>2. CASE Wakes(c)
    BY <2>2, ProcTypes, AloneKeep DEF Wakes, Expire, registrarVars, Same, IInv, TypeOK
  <2>3. CASE Polled(c)
    BY <2>3, ProcTypes, AloneKeep, AloneRecord
       DEF Polled, Expire, registrarVars, Others, Same, IInv, TypeOK
  <2>4. QED
    BY <1>4, <2>1, <2>2, <2>3 DEF Poll
<1>5. QED
  BY <1>1, <1>2, <1>3, <1>4

\* A step of the code itself keeps what is said of it.
LEMMA KeptRegistrar ==
    ASSUME PairingAssumption, Sole, IInv, NEW c \in Codes, Registrar(c) PROVE Kept(c)
<1>1. /\ store' = store /\ minting' = minting /\ poller' = poller /\ cli' = cli
      /\ reported' = reported /\ givenUp' = givenUp
      /\ record[c] # "none" /\ record'[c] # "none"
      /\ record[c] # "pending" => record'[c] # "pending"
      /\ redeemed[c] \subseteq redeemed'[c] /\ past \subseteq past'
  BY DEF Registrar, Redeem, RegistrarMovesOn, ExpiryPasses, fileVars, managerVars,
     historyVars, IInv, TypeOK
<1>2. QED
  BY <1>1 DEF Kept, CodeInv, OnceInv, Over, Leaves, IInv

LEMMA KeptCommand ==
    ASSUME PairingAssumption, Sole, IInv, NEW c \in Codes, Command(c) PROVE Kept(c)
<1>1. CodeInv(c) /\ c \in Interactive /\ OnceInv(c)
  BY DEF Command, Start, Minted, MintFails, Cancel, IInv, TypeOK
<1>2. CASE Start(c)
  BY <1>1, <1>2, ProcTypes, AloneKeep
     DEF Start, registrarVars, historyVars, Kept, CodeInv, OnceInv, Over, Leaves, IInv, TypeOK
<1>3. CASE Minted(c)
  <2>1. /\ record'[c] = "pending" /\ c \notin minting' /\ redeemed' = redeemed
        /\ poller'[c] = "sleeping" /\ reported' = reported /\ record[c] = "none"
    BY <1>1, <1>3 DEF Minted, historyVars, CodeInv, IInv, TypeOK
  <2>2. store'[c] = [in |-> TRUE, seen |-> {}]
    BY <1>3, ProcTypes, AloneAdd DEF Minted, IInv
  <2>3. \A d \in Devices : reported[c][d] = 0
    <3>1. \A d \in Devices : reported[c][d] \in Nat
      BY DEF IInv, TypeOK
    <3>2. redeemed[c] = {}
      BY <1>1, <2>1 DEF CodeInv
    <3>3. QED
      BY <1>1, <3>1, <3>2 DEF OnceInv
  <2>4. QED
    BY <1>1, <2>1, <2>2, <2>3 DEF Kept, CodeInv, OnceInv, Leaves
<1>4. CASE MintFails(c)
  <2>1. /\ record'[c] \in {"none", "pending"} /\ c \notin minting' /\ redeemed' = redeemed
        /\ poller' = poller /\ reported' = reported /\ record[c] = "none" /\ store' = store
    BY <1>1, <1>4, ProcTypes, AloneKeep DEF MintFails, historyVars, CodeInv, IInv, TypeOK
  <2>2. QED
    BY <1>1, <2>1 DEF Kept, CodeInv, OnceInv, Leaves
<1>5. CASE Cancel(c)
  <2>1. /\ poller'[c] = "none" /\ c \in givenUp' /\ UNCHANGED <<registrarVars, minting, reported>>
        /\ ~store'[c].in
    BY <1>5, ProcTypes, AloneRemove DEF Cancel, IInv, TypeOK
  <2>2. QED
    BY <1>1, <2>1 DEF registrarVars, Kept, CodeInv, OnceInv, Leaves
<1>6. QED
  BY <1>2, <1>3, <1>4, <1>5 DEF Command

LEMMA KeptCli ==
    ASSUME PairingAssumption, Sole, IInv, NEW c \in Codes, Cli(c) PROVE Kept(c)
<1>1. CodeInv(c) /\ c \in Codes \ Interactive /\ c \in Procs
  BY ProcTypes DEF Cli, CliMints, CliAdds, CliPolled, CliRemoves, CliStops, CliForgets, IInv
<1>2. redeemed' = redeemed /\ past' = past /\ minting' = minting /\ poller' = poller
      /\ givenUp' = givenUp
  BY DEF Cli, CliMints, CliAdds, CliPolled, CliRemoves, CliStops, CliForgets, CliVars, managerVars
<1>3. CASE CliMints(c)
  <2>1. record[c] = "none" /\ record'[c] = "pending" /\ cli'[c] \in {"minted", "done"} /\ store' = store
    BY <1>1, <1>3, AloneKeep DEF CliMints, CodeInv, IInv, TypeOK
  <2>2. c \notin minting
    BY <1>1 DEF IInv, TypeOK
  <2>3. QED
    BY <1>1, <1>2, <2>1, <2>2 DEF Kept, CodeInv, Leaves
<1>4. CASE CliAdds(c)
  <2>1. record' = record /\ cli[c] = "minted" /\ cli'[c] = "watching" /\ store'[c].in
    BY <1>1, <1>4, AloneAdd DEF CliAdds, IInv, TypeOK
  <2>2. QED
    BY <1>1, <1>2, <2>1 DEF Kept, CodeInv, Over, Leaves
<1>5. CASE CliPolled(c)
  <2>1. record' = record /\ cli[c] = "watching" /\ record[c] # "none"
        /\ store'[c].in = store[c].in
    BY <1>1, <1>5, AloneKeep, AloneRecord DEF CliPolled, IInv, TypeOK
  <2>2. cli'[c] = "done" \/ (cli'[c] = "removing" /\ record[c] # "pending")
    BY <1>1, <1>5 DEF CliPolled, IInv, TypeOK
  <2>3. QED
    BY <1>1, <1>2, <2>1, <2>2 DEF Kept, CodeInv, Over, Leaves
<1>6. CASE CliRemoves(c)
  <2>1. record' = record /\ cli[c] = "removing" /\ cli'[c] = "done" /\ ~store'[c].in
    BY <1>1, <1>6, AloneRemove DEF CliRemoves, IInv, TypeOK
  <2>2. QED
    BY <1>1, <1>2, <2>1 DEF Kept, CodeInv, Over, Leaves
<1>7. CASE CliStops(c)
  <2>1. record' = record /\ cli[c] # "none" /\ cli'[c] = "done" /\ store' = store
    BY <1>1, <1>7, AloneKeep DEF CliStops, IInv, TypeOK
  <2>2. QED
    BY <1>1, <1>2, <2>1 DEF Kept, CodeInv, Over, Leaves
<1>8. CASE CliForgets(c)
  <2>1. record' = record /\ record[c] # "none" /\ cli'[c] = "done" /\ store'[c].in = store[c].in
    BY <1>1, <1>8, AloneForget DEF CliForgets, IInv, TypeOK
  <2>2. QED
    BY <1>1, <1>2, <2>1 DEF Kept, CodeInv, Over, Leaves
<1>9. QED
  BY <1>3, <1>4, <1>5, <1>6, <1>7, <1>8 DEF Cli

LEMMA KeptPoll ==
    ASSUME PairingAssumption, Sole, IInv, NEW c \in Codes, Poll(c) PROVE Kept(c)
<1>1. CodeInv(c) /\ (c \in Interactive => OnceInv(c)) /\ "gateway" \in Procs
  BY ProcTypes DEF IInv
<1>2. record' = record /\ redeemed' = redeemed /\ past' = past /\ minting' = minting
      /\ cli' = cli /\ givenUp \subseteq givenUp'
  BY DEF Poll, Rescan, Wakes, PollFails, NotFound, Refused, Polled, Removes, Closes,
     registrarVars, historyVars
<1>3. CASE Rescan(c)
  <2>1. store[c].in /\ reported' = reported
    BY <1>1, <1>3, AloneViews DEF Rescan, historyVars, IInv
  <2>2. \/ c \in past /\ poller' = poller /\ poller[c] = "none" /\ ~store'[c].in
        \/ poller'[c] = "sleeping" /\ store' = store
    BY <1>1, <1>3, AloneRemove, AloneKeep DEF Rescan, IInv, TypeOK
  <2>3. QED
    BY <1>1, <1>2, <2>1, <2>2 DEF Kept, CodeInv, OnceInv, Over, Leaves
<1>4. CASE Wakes(c) \/ PollFails(c) \/ NotFound(c) \/ Closes(c)
  <2>1. store' = store /\ reported' = reported
    BY <1>1, <1>4, AloneKeep DEF Wakes, PollFails, NotFound, Closes, historyVars, IInv
  <2>2. poller[c] # "none"
    BY <1>4 DEF Wakes, PollFails, NotFound, Closes
  <2>3. \/ poller[c] = "sleeping" /\ poller'[c] = "asking"
        \/ poller[c] = "asking" /\ poller'[c] = "sleeping"
        \/ poller'[c] \in {"expiring", "removing"} /\ (c \in past \/ record[c] = "gone")
        \/ poller'[c] = "none"
    BY <1>4 DEF Wakes, Expire, PollFails, NotFound, Closes, IInv, TypeOK
  <2>4. QED
    BY <1>1, <1>2, <2>1, <2>2, <2>3 DEF Kept, CodeInv, OnceInv, Over, Leaves
<1>5. CASE Refused(c)
  <2>1. ~store'[c].in /\ reported' = reported /\ c \in givenUp' /\ poller[c] = "asking"
        /\ poller'[c] = "closing"
    BY <1>1, <1>5, AloneRemove DEF Refused, IInv, TypeOK
  <2>2. QED
    BY <1>1, <1>2, <2>1 DEF Kept, CodeInv, OnceInv, Over, Leaves
<1>6. CASE Removes(c)
  <2>1. ~store'[c].in /\ reported' = reported /\ poller[c] \in {"expiring", "removing"}
        /\ poller'[c] = "none"
    BY <1>1, <1>6, AloneRemove DEF Removes, historyVars, IInv, TypeOK
  <2>2. QED
    BY <1>1, <1>2, <2>1 DEF Kept, CodeInv, OnceInv, Over, Leaves
<1>7. CASE Polled(c)
  <2>1. poller[c] = "asking" /\ record[c] \in {"pending", "completed", "expired"}
        /\ givenUp' = givenUp
    BY <1>7 DEF Polled
  <2>2. /\ poller'[c] \in {"expiring", "removing"} => record[c] # "pending"
        /\ poller'[c] \in {"expiring", "removing", "sleeping"}
    BY <1>7, <2>1 DEF Polled, Expire, IInv, TypeOK
  <2>3. store'[c].in = store[c].in
    BY <1>1, <1>7, AloneKeep, AloneRecord DEF Polled, IInv
  <2>4. CodeInv(c)' /\ Leaves(c)
    BY <1>1, <1>2, <2>1, <2>2, <2>3 DEF CodeInv, Over, Leaves
  <2>5. CASE redeemed[c] = {}
    <3>1. store' = store /\ reported' = reported
      BY <1>1, <1>7, <2>5, AloneKeep DEF Polled, IInv
    <3>2. QED
      BY <1>1, <1>2, <2>1, <2>4, <3>1 DEF Kept, OnceInv
  <2>6. CASE redeemed[c] # {}
    <3>1. /\ store[c].in => store'[c].seen = store[c].seen \cup redeemed[c]
          /\ \A d \in Devices :
                reported'[c][d] = reported[c][d] + IF d \in Fresh(store, c) THEN 1 ELSE 0
      BY <1>1, <1>7, <2>6, AloneRecord DEF Polled, IInv
    <3>2. ASSUME c \in Interactive PROVE OnceInv(c)'
      <4>1. OnceInv(c) /\ store[c].in /\ \A d \in Devices : reported[c][d] \in Nat
        BY <1>1, <2>1, <3>2 DEF OnceInv, IInv, TypeOK
      <4>2. \A d \in Devices : d \in Fresh(store, c) => reported[c][d] = 0 /\ d \in redeemed[c]
        BY <4>1 DEF Fresh, OnceInv
      <4>3. \A d \in Devices : reported'[c][d] =< 1 /\ (reported'[c][d] > 0 => d \in redeemed[c])
        BY <3>1, <4>1, <4>2 DEF OnceInv
      <4>4. \A d \in Devices : reported'[c][d] > 0 => d \in store'[c].seen
        BY <3>1, <4>1, <4>3
      <4>5. QED
        BY <1>2, <2>3, <4>1, <4>3, <4>4 DEF OnceInv
    <3>3. QED
      BY <2>4, <3>2 DEF Kept
  <2>7. QED
    BY <2>5, <2>6
<1>8. QED
  BY <1>3, <1>4, <1>5, <1>6, <1>7 DEF Poll

\* A restart forgets the pollers, and may leave codes registered that nobody added.
LEMMA KeptRestart ==
    ASSUME PairingAssumption, Sole, IInv, Restart \/ \E c \in Codes : RestartRecording(c)
    PROVE  Alone' /\ \A c \in Codes : Kept(c)
<1>1. Dies /\ Alone' /\ DiesFile
  BY AloneDies DEF IInv
<1>2. ASSUME NEW c \in Codes PROVE Kept(c)
  <2>1. /\ redeemed' = redeemed /\ past' = past /\ cli' = cli /\ reported' = reported
        /\ givenUp' = givenUp /\ c \notin minting' /\ poller'[c] = "none"
        /\ record'[c] = record[c] \/ (c \in minting /\ record'[c] = "pending")
    BY <1>1 DEF Dies
  <2>2. CodeInv(c) /\ (c \in Interactive => OnceInv(c)) /\ minting \subseteq Interactive
    BY DEF IInv, TypeOK
  <2>3. store'[c].in = store[c].in /\ store[c].seen \subseteq store'[c].seen
    BY <1>1 DEF DiesFile
  <2>4. QED
    BY <2>1, <2>2, <2>3 DEF Kept, CodeInv, OnceInv, Over, Leaves
<1>3. QED
  BY <1>1, <1>2

LEMMA IInit == ASSUME PairingAssumption, Init PROVE IInv
<1>1. TypeOK
  BY TypeInit
<1>2. Alone
  BY DEF Init, Alone
<1>3. \A c \in Codes : CodeInv(c) /\ (c \in Interactive => OnceInv(c))
  BY DEF Init, EmptyFile, NoEntry, CodeInv, OnceInv
<1>4. QED
  BY <1>1, <1>2, <1>3 DEF IInv

LEMMA INext ==
    ASSUME PairingAssumption, Sole, IInv, [Next]_vars
    PROVE  IInv' /\ \A c \in Codes : Leaves(c)
<1>1. TypeOK'
  BY TypeNext DEF IInv
<1>2. Alone' /\ \A c \in Codes : Kept(c)
  <2>1. CASE UNCHANGED vars
    <3>1. \A c \in Codes : Same(c)
      BY <2>1 DEF vars, registrarVars, fileVars, managerVars, historyVars, Same
    <3>2. Alone'
      BY <2>1 DEF vars, fileVars, IInv, Alone
    <3>3. QED
      BY <3>1, <3>2, SameKept
  <2>2. CASE Restart \/ \E c \in Codes : RestartRecording(c)
    BY <2>2, KeptRestart
  <2>3. ASSUME NEW c \in Codes, Registrar(c) \/ Poll(c) \/ Command(c) \/ Cli(c)
        PROVE  Alone' /\ \A b \in Codes : Kept(b)
    <3>1. Alone' /\ \A b \in Codes \ {c} : Same(b)
      BY <2>3, Frame
    <3>2. Kept(c)
      BY <2>3, KeptRegistrar, KeptPoll, KeptCommand, KeptCli
    <3>3. QED
      BY <3>1, <3>2, SameKept
  <2>4. QED
    BY <2>1, <2>2, <2>3 DEF Next
<1>3. QED
  BY <1>1, <1>2 DEF IInv, Kept

THEOREM Invariance == ASSUME Sole PROVE Spec => []IInv
<1>1. PairingAssumption
  BY PairingAssumption
<1>2. QED
  BY <1>1, IInit, INext, PTL DEF Spec

\* recordRedeemedDevices before the announcement: a redeem of a device.pair_start code is
\* processed at most once, however often the gateway restarts, as long as no other process
\* is in the middle of an update of the file when one is made.
THEOREM ProcessedAtMostOnce == ASSUME Sole PROVE Spec => []InteractiveOnce
<1>1. PairingAssumption
  BY PairingAssumption
<1>2. IInv => InteractiveOnce
  BY <1>1 DEF PairingAssumption, IInv, OnceInv, InteractiveOnce
<1>3. QED
  BY <1>2, Invariance, PTL

\* removeOutstandingCode: under the same assumption no code leaves the file that could
\* still be redeemed and was not given up.
THEOREM StaysInFile == ASSUME Sole PROVE Spec => CodeKept
<1>1. PairingAssumption
  BY PairingAssumption
<1>2. ASSUME IInv, [Next]_vars
      PROVE  \A c \in Codes : store[c].in /\ ~store'[c].in
                => record[c] # "pending" \/ c \in past \/ c \in givenUp'
  BY <1>1, <1>2, INext DEF Leaves
<1>3. QED
  BY <1>2, Invariance, PTL DEF Spec, CodeKept

-----------------------------------------------------------------------------
(* The outcome of a pairing. *)

Had(q, s) == \E i \in DOMAIN q : q[i] = s

\* What OneOutcome says of the events of one code.
Tells(q) ==
    \A i, j \in DOMAIN q :
        i < j => /\ q[i] # "cancelled" /\ q[j] # "completed"
                 /\ q[i] = "completed" => q[j] = "error"

LEMMA Sends ==
    ASSUME NEW q \in Seq(Statuses), NEW s \in Statuses, Tells(q), ~Had(q, "cancelled"),
           s = "completed" => \A x \in Statuses : ~Had(q, x),
           Had(q, "completed") => s = "error"
    PROVE  /\ Tells(Append(q, s))
           /\ \A x : Had(Append(q, s), x) <=> Had(q, x) \/ x = s
<1>1. /\ DOMAIN q = 1..Len(q) /\ Len(q) \in Nat /\ DOMAIN Append(q, s) = 1..(Len(q) + 1)
      /\ \A i \in DOMAIN q : Append(q, s)[i] = q[i] /\ q[i] \in Statuses
      /\ Append(q, s)[Len(q) + 1] = s
  OBVIOUS
<1>2. \A i \in DOMAIN Append(q, s) : i \in DOMAIN q \/ i = Len(q) + 1
  BY <1>1
<1>3. ASSUME NEW i \in DOMAIN Append(q, s), NEW j \in DOMAIN Append(q, s), i < j
      PROVE  /\ Append(q, s)[i] # "cancelled" /\ Append(q, s)[j] # "completed"
             /\ Append(q, s)[i] = "completed" => Append(q, s)[j] = "error"
  <2>1. i \in DOMAIN q
    BY <1>1, <1>3
  <2>2. CASE j \in DOMAIN q
    BY <1>1, <1>3, <2>1, <2>2 DEF Tells
  <2>3. CASE j = Len(q) + 1
    BY <1>1, <2>1, <2>3 DEF Had
  <2>4. QED
    BY <1>2, <2>2, <2>3
<1>4. Tells(Append(q, s))
  BY <1>3 DEF Tells
<1>5. ASSUME NEW x PROVE Had(Append(q, s), x) <=> Had(q, x) \/ x = s
  BY <1>1, <1>2 DEF Had
<1>6. QED
  BY <1>4, <1>5

\* A code of device.pair_start is redeemed once, by a device its entry then names; the
\* poller knows that it was announced.
RedeemInv(c) ==
    /\ redeemed[c] # {} => record[c] \notin {"none", "pending"}
    /\ \A d, e \in redeemed[c] : d = e
    /\ store[c].seen \subseteq redeemed[c]
    /\ c \in interactive => record[c] # "none"
    /\ poller[c] \in {"sleeping", "asking"} => (announced[c] <=> store[c].seen # {})

\* What has been sent settles what can still be found out.
SentInv(c) ==
    /\ Tells(sent[c])
    /\ \A x \in Statuses : Had(sent[c], x) => record[c] # "none"
    /\ Had(sent[c], "completed") => /\ store[c].in => store[c].seen # {}
                                    /\ c \in interactive => poller[c] = "removing"
    /\ Had(sent[c], "expired") =>
          \/ record[c] \in {"expired", "gone"} /\ redeemed[c] = {}
          \/ c \in past /\ poller[c] \notin {"sleeping", "asking"}
    /\ Had(sent[c], "error") => ~store[c].in /\ poller[c] \notin {"sleeping", "asking"}
    /\ Had(sent[c], "cancelled") => /\ ~store[c].in /\ poller[c] = "none"
                                    /\ c \notin interactive

OutInv == \A c \in Interactive : RedeemInv(c) /\ SentInv(c)

LEMMA AloneRemoves ==
    ASSUME IInv, Sole, NEW p \in Procs, NEW c \in Codes, Remove(p, c)
    PROVE  ~store'[c].in /\ store'[c].seen \subseteq store[c].seen
<1>1. IF store[c].in THEN Write(p, [store EXCEPT ![c] = NoEntry]) ELSE NoWrite(p)
  BY AloneViews DEF Remove, IInv
<1>2. CASE store[c].in
  BY <1>1, <1>2 DEF Write, NoEntry, IInv, TypeOK
<1>3. CASE ~store[c].in
  BY <1>1, <1>3 DEF NoWrite
<1>4. QED
  BY <1>2, <1>3

OutKept(c) == RedeemInv(c)' /\ SentInv(c)'

Aside(c) ==
    /\ sent'[c] = sent[c] /\ announced'[c] = announced[c]
    /\ c \in interactive' <=> c \in interactive

LEMMA AsideKept ==
    ASSUME OutInv, NEW c \in Interactive, Same(c), Aside(c) PROVE OutKept(c)
BY DEF OutInv, Same, Aside, OutKept, RedeemInv, SentInv

LEMMA AsideFrame ==
    ASSUME PairingAssumption, IInv, NEW c \in Codes,
           Registrar(c) \/ Poll(c) \/ Command(c) \/ Cli(c)
    PROVE  \A b \in Codes \ {c} : Aside(b)
<1>1. CASE Registrar(c)
  BY <1>1 DEF Registrar, Redeem, RegistrarMovesOn, ExpiryPasses, managerVars, historyVars, Aside
<1>2. CASE Command(c)
  BY <1>2 DEF Command, Start, Minted, MintFails, Cancel, SendStatus, historyVars, Aside,
     IInv, TypeOK
<1>3. CASE Cli(c)
  BY <1>3 DEF Cli, CliMints, CliAdds, CliPolled, CliRemoves, CliStops, CliForgets, CliVars,
     managerVars, Aside
<1>4. CASE Poll(c)
  BY <1>4 DEF Poll, Rescan, Wakes, PollFails, NotFound, Refused, Polled, Removes, Closes,
     Expire, SendStatus, historyVars, Aside, IInv, TypeOK
<1>5. QED
  BY <1>1, <1>2, <1>3, <1>4

LEMMA OutRegistrar ==
    ASSUME PairingAssumption, Sole, IInv, OutInv, NEW c \in Interactive, Registrar(c)
    PROVE  OutKept(c)
<1>1. c \in Codes /\ c \notin Reusable /\ RedeemInv(c) /\ SentInv(c)
  BY DEF PairingAssumption, OutInv
<1>2. UNCHANGED <<store, poller, announced, interactive, sent>>
  BY DEF Registrar, Redeem, RegistrarMovesOn, ExpiryPasses, fileVars, managerVars, historyVars
<1>3. CASE RegistrarMovesOn(c)
  <2>1. /\ redeemed' = redeemed /\ past' = past
        /\ \/ record[c] = "pending" /\ record'[c] = "expired"
           \/ record[c] \in {"completed", "expired"} /\ record'[c] = "gone"
    BY <1>1, <1>3 DEF RegistrarMovesOn, IInv, TypeOK
  <2>2. QED
    BY <1>1, <1>2, <2>1 DEF OutKept, RedeemInv, SentInv, Statuses
<1>4. CASE ExpiryPasses(c)
  <2>1. redeemed' = redeemed /\ past \subseteq past' /\ record' = record
    BY <1>4 DEF ExpiryPasses
  <2>2. QED
    BY <1>1, <1>2, <2>1 DEF OutKept, RedeemInv, SentInv, Statuses
<1>5. ASSUME NEW d \in Devices, Redeem(c, d) PROVE OutKept(c)
  <2>1. /\ redeemed'[c] = redeemed[c] \cup {d} /\ past' = past
        /\ record[c] = "pending" /\ record'[c] = "completed"
    BY <1>1, <1>5 DEF Redeem, IInv, TypeOK
  <2>2. redeemed[c] = {}
    BY <1>1, <2>1 DEF RedeemInv
  <2>3. QED
    BY <1>1, <1>2, <2>1, <2>2 DEF OutKept, RedeemInv, SentInv, Statuses
<1>6. QED
  BY <1>3, <1>4, <1>5 DEF Registrar

LEMMA OutCommand ==
    ASSUME PairingAssumption, Sole, IInv, OutInv, NEW c \in Interactive, Command(c)
    PROVE  OutKept(c)
<1>1. /\ c \in Codes /\ RedeemInv(c) /\ SentInv(c) /\ CodeInv(c) /\ OnceInv(c)
      /\ "gateway" \in Procs
  BY ProcTypes DEF PairingAssumption, OutInv, IInv
<1>2. CASE Start(c)
  BY <1>1, <1>2, AloneKeep
     DEF Start, registrarVars, historyVars, IInv, OutKept, RedeemInv, SentInv
<1>3. CASE Minted(c)
  <2>1. /\ record'[c] = "pending" /\ redeemed' = redeemed /\ past' = past /\ record[c] = "none"
        /\ sent' = sent /\ redeemed[c] = {} /\ ~announced'[c]
    BY <1>1, <1>3 DEF Minted, historyVars, CodeInv, IInv, TypeOK
  <2>2. store'[c].seen = {}
    BY <1>1, <1>3, AloneAdd DEF Minted, IInv
  <2>3. \A x \in Statuses : ~Had(sent[c], x)
    BY <1>1, <2>1 DEF SentInv
  <2>4. QED
    BY <1>1, <2>1, <2>2, <2>3 DEF OutKept, RedeemInv, SentInv, Statuses
<1>4. CASE MintFails(c)
  <2>1. /\ UNCHANGED <<redeemed, past, sent, poller, announced, interactive>> /\ record[c] = "none"
        /\ redeemed[c] = {} /\ store' = store
    BY <1>1, <1>4, AloneKeep DEF MintFails, historyVars, CodeInv, IInv
  <2>2. \A x \in Statuses : ~Had(sent[c], x)
    BY <1>1, <2>1 DEF SentInv
  <2>3. QED
    BY <1>1, <2>1, <2>2 DEF OutKept, RedeemInv, SentInv, Statuses
<1>5. CASE Cancel(c)
  <2>1. /\ poller'[c] = "none" /\ UNCHANGED registrarVars /\ ~store'[c].in
        /\ c \notin interactive' /\ c \in interactive /\ poller[c] # "removing"
        /\ sent'[c] = Append(sent[c], "cancelled")
    BY <1>1, <1>5, AloneRemove DEF Cancel, SendStatus, IInv, TypeOK
  <2>2. store'[c].seen \subseteq store[c].seen
    BY <1>1, <1>5, AloneRemoves DEF Cancel
  <2>3. ~Had(sent[c], "cancelled") /\ ~Had(sent[c], "completed")
    BY <1>1, <2>1 DEF SentInv
  <2>4. record[c] # "none"
    BY <1>1, <1>5 DEF Cancel, RedeemInv
  <2>5. sent[c] \in Seq(Statuses) /\ "cancelled" \in Statuses
    BY <1>1 DEF IInv, TypeOK, Statuses
  <2>6. Tells(sent'[c]) /\ \A x : Had(sent'[c], x) <=> Had(sent[c], x) \/ x = "cancelled"
    BY <1>1, <2>1, <2>3, <2>5, Sends DEF SentInv
  <2>7. QED
    BY <1>1, <2>1, <2>2, <2>3, <2>4, <2>6 DEF registrarVars, OutKept, RedeemInv, SentInv
<1>6. QED
  BY <1>2, <1>3, <1>4, <1>5 DEF Command

\* A status event is sent by a poller that had not announced a redeem.
LEMMA OutSends ==
    ASSUME IInv, PairingAssumption, OutInv, NEW c \in Interactive, NEW s \in Statuses,
           poller[c] \in {"sleeping", "asking"}, SendStatus(c, s),
           s = "completed" => redeemed[c] # {} /\ ~announced[c] /\ poller[c] = "asking",
           s = "expired" => ~announced[c],
           s # "cancelled"
    PROVE  /\ Tells(sent'[c])
           /\ \A x : Had(sent'[c], x) <=> Had(sent[c], x) \/ x = s
           /\ ~Had(sent[c], "cancelled") /\ ~Had(sent[c], "error")
           /\ s \in {"completed", "expired"} => ~Had(sent[c], "completed")
           /\ s = "completed" => ~Had(sent[c], "expired")
<1>1. RedeemInv(c) /\ SentInv(c) /\ OnceInv(c) /\ c \in Codes
  BY DEF OutInv, IInv, PairingAssumption
<1>2. sent[c] \in Seq(Statuses) /\ sent'[c] = Append(sent[c], s)
  BY <1>1 DEF SendStatus, IInv, TypeOK
<1>3. ~Had(sent[c], "cancelled") /\ ~Had(sent[c], "error")
  BY <1>1 DEF SentInv
<1>4. s \in {"completed", "expired"} => ~Had(sent[c], "completed")
  BY <1>1 DEF SentInv, RedeemInv, OnceInv
<1>5. s = "completed" => ~Had(sent[c], "expired")
  BY <1>1 DEF SentInv
<1>6. s = "completed" => \A x \in Statuses : ~Had(sent[c], x)
  BY <1>3, <1>4, <1>5 DEF Statuses
<1>7. Had(sent[c], "completed") => s = "error"
  BY <1>4 DEF Statuses
<1>8. Tells(sent[c])
  BY <1>1 DEF SentInv
<1>9. QED
  BY <1>2, <1>3, <1>4, <1>5, <1>6, <1>7, <1>8, Sends

LEMMA OutWakes ==
    ASSUME PairingAssumption, Sole, IInv, OutInv, NEW c \in Interactive, Wakes(c)
    PROVE  OutKept(c)
<1>1. /\ c \in Codes /\ RedeemInv(c) /\ SentInv(c) /\ OnceInv(c)
      /\ UNCHANGED <<record, redeemed, past, interactive, announced>> /\ store' = store
      /\ poller[c] = "sleeping"
  BY ProcTypes, AloneKeep DEF Wakes, registrarVars, PairingAssumption, OutInv, IInv
<1>2. ~Had(sent[c], "cancelled")
  BY <1>1 DEF SentInv
<1>3. CASE c \in past /\ ~announced[c]
  <2>1. poller'[c] = "expiring" /\ SendStatus(c, "expired")
    BY <1>1, <1>3 DEF Wakes, Expire, IInv, TypeOK
  <2>2. "expired" \in Statuses
    BY DEF Statuses
  <2>3. /\ Tells(sent'[c]) /\ \A x : Had(sent'[c], x) <=> Had(sent[c], x) \/ x = "expired"
        /\ ~Had(sent[c], "error") /\ ~Had(sent[c], "completed")
    BY <1>1, <1>3, <2>1, <2>2, OutSends
  <2>4. record[c] # "none"
    BY <1>1 DEF IInv, CodeInv
  <2>5. QED
    BY <1>1, <1>2, <1>3, <2>1, <2>3, <2>4 DEF OutKept, RedeemInv, SentInv, Statuses
<1>4. CASE ~(c \in past /\ ~announced[c])
  <2>1. sent' = sent /\ (poller'[c] = "removing" \/ poller'[c] = "asking")
    BY <1>1, <1>4 DEF Wakes, Expire, IInv, TypeOK
  <2>2. QED
    BY <1>1, <1>2, <2>1 DEF OutKept, RedeemInv, SentInv, Statuses
<1>5. QED
  BY <1>3, <1>4

LEMMA OutPolled ==
    ASSUME PairingAssumption, Sole, IInv, OutInv, NEW c \in Interactive, Polled(c)
    PROVE  OutKept(c)
<1>1. /\ c \in Codes /\ "gateway" \in Procs
      /\ RedeemInv(c) /\ SentInv(c) /\ OnceInv(c) /\ CodeInv(c)
      /\ UNCHANGED <<record, redeemed, past, interactive>> /\ poller[c] = "asking"
      /\ record[c] \in {"pending", "completed", "expired"}
      /\ store[c].in
  BY ProcTypes DEF Polled, registrarVars, PairingAssumption, OutInv, IInv, OnceInv
<1>2. ~Had(sent[c], "cancelled") /\ ~Had(sent[c], "error")
  BY <1>1 DEF SentInv
<1>3. /\ redeemed[c] = {} => store' = store
      /\ redeemed[c] # {} => /\ store'[c].in
                             /\ store'[c].seen = store[c].seen \cup redeemed[c]
  BY <1>1, AloneKeep, AloneRecord DEF Polled, IInv
<1>4. store'[c].in /\ store'[c].seen = redeemed[c]
  BY <1>1, <1>3 DEF RedeemInv
<1> DEFINE new == Fresh(store, c) # {}
           known == announced[c] \/ new
<1>5. /\ announced'[c] = known
      /\ IF record[c] = "expired"
         THEN IF new /\ ~announced[c]
              THEN SendStatus(c, "completed") /\ poller'[c] = "removing"
              ELSE Expire(c, known)
         ELSE /\ poller'[c] = IF record[c] = "completed" THEN "removing" ELSE "sleeping"
              /\ IF new /\ ~announced[c] THEN SendStatus(c, "completed") ELSE UNCHANGED sent
  BY <1>1, AloneViews DEF Polled, IInv, TypeOK
<1>6. redeemed[c] # {} <=> known
  BY <1>1 DEF Fresh, RedeemInv
<1>7. new => redeemed[c] # {}
  BY DEF Fresh
<1>8. RedeemInv(c)'
  BY <1>1, <1>4, <1>5, <1>6 DEF RedeemInv
<1>9. CASE new /\ ~announced[c]
  <2>1. SendStatus(c, "completed") /\ poller'[c] = "removing" /\ "completed" \in Statuses
    BY <1>1, <1>5, <1>7, <1>9 DEF RedeemInv, Statuses
  <2>2. /\ Tells(sent'[c]) /\ \A x : Had(sent'[c], x) <=> Had(sent[c], x) \/ x = "completed"
        /\ ~Had(sent[c], "expired")
    BY <1>1, <1>7, <1>9, <2>1, OutSends
  <2>3. QED
    BY <1>1, <1>2, <1>4, <1>7, <1>8, <1>9, <2>1, <2>2 DEF OutKept, SentInv, Statuses
<1>10. CASE ~(new /\ ~announced[c]) /\ record[c] = "expired" /\ ~known
  <2>1. SendStatus(c, "expired") /\ poller'[c] = "expiring" /\ "expired" \in Statuses
    BY <1>1, <1>5, <1>10 DEF Expire, Statuses, IInv, TypeOK
  <2>2. /\ Tells(sent'[c]) /\ \A x : Had(sent'[c], x) <=> Had(sent[c], x) \/ x = "expired"
        /\ ~Had(sent[c], "completed")
    BY <1>1, <1>10, <2>1, OutSends
  <2>3. QED
    BY <1>1, <1>2, <1>6, <1>8, <1>10, <2>1, <2>2 DEF OutKept, SentInv, Statuses
<1>11. CASE ~(new /\ ~announced[c]) /\ ~(record[c] = "expired" /\ ~known)
  <2>1. /\ sent' = sent
        /\ \/ poller'[c] = "removing"
           \/ poller'[c] = "sleeping" /\ record[c] = "pending"
    BY <1>1, <1>5, <1>11 DEF Expire, IInv, TypeOK
  <2>2. record[c] = "pending" => redeemed[c] = {}
    BY <1>1 DEF RedeemInv
  <2>3. Had(sent[c], "completed") => store[c].seen # {} /\ redeemed[c] # {}
    BY <1>1 DEF SentInv, RedeemInv
  <2>4. QED
    BY <1>1, <1>2, <1>4, <1>8, <2>1, <2>2, <2>3 DEF OutKept, SentInv, Statuses
<1>12. QED
  BY <1>9, <1>10, <1>11

LEMMA OutPoll ==
    ASSUME PairingAssumption, Sole, IInv, OutInv, NEW c \in Interactive, Poll(c)
    PROVE  OutKept(c)
<1>1. /\ c \in Codes /\ "gateway" \in Procs
      /\ RedeemInv(c) /\ SentInv(c) /\ OnceInv(c) /\ CodeInv(c)
  BY ProcTypes DEF PairingAssumption, OutInv, IInv
<1>2. UNCHANGED <<record, redeemed, past>>
  BY DEF Poll, Rescan, Wakes, PollFails, NotFound, Refused, Polled, Removes, Closes,
     registrarVars
<1>3. CASE Rescan(c)
  <2>1. /\ sent' = sent /\ interactive' = interactive /\ store[c].in /\ poller[c] = "none"
        /\ record[c] # "none"
    BY <1>1, <1>3, AloneViews DEF Rescan, historyVars, IInv, CodeInv
  <2>2. CASE c \in past
    <3>1. poller'[c] = "none" /\ ~store'[c].in /\ store'[c].seen \subseteq store[c].seen
      BY <1>1, <1>3, <2>2, AloneRemoves DEF Rescan
    <3>2. QED
      BY <1>1, <1>2, <2>1, <3>1 DEF OutKept, RedeemInv, SentInv, Statuses
  <2>3. CASE c \notin past
    <3>1. poller'[c] = "sleeping" /\ announced'[c] = (store[c].seen # {}) /\ store' = store
      BY <1>1, <1>3, <2>3, AloneKeep, AloneViews DEF Rescan, IInv, TypeOK
    <3>2. QED
      BY <1>1, <1>2, <2>1, <2>3, <3>1 DEF OutKept, RedeemInv, SentInv, Statuses
  <2>4. QED
    BY <2>2, <2>3
<1>4. CASE PollFails(c) \/ NotFound(c)
  <2>1. /\ sent' = sent /\ interactive' = interactive /\ announced' = announced
        /\ poller[c] = "asking" /\ poller'[c] \in {"sleeping", "removing"} /\ store' = store
    BY <1>1, <1>4, AloneKeep DEF PollFails, NotFound, historyVars, IInv, TypeOK
  <2>2. QED
    BY <1>1, <1>2, <2>1 DEF OutKept, RedeemInv, SentInv, Statuses
<1>5. CASE Refused(c)
  <2>1. /\ interactive' = interactive /\ announced' = announced
        /\ poller[c] = "asking" /\ poller'[c] = "closing"
        /\ SendStatus(c, "error") /\ "error" \in Statuses
    BY <1>1, <1>5 DEF Refused, Statuses, IInv, TypeOK
  <2>2. ~store'[c].in /\ store'[c].seen \subseteq store[c].seen
    BY <1>1, <1>5, AloneRemoves DEF Refused
  <2>3. /\ Tells(sent'[c]) /\ \A x : Had(sent'[c], x) <=> Had(sent[c], x) \/ x = "error"
        /\ ~Had(sent[c], "cancelled")
    BY <2>1, OutSends
  <2>4. record[c] # "none"
    BY <1>1, <2>1 DEF CodeInv
  <2>5. Had(sent[c], "completed") => c \notin interactive
    BY <1>1, <2>1 DEF SentInv
  <2>6. QED
    BY <1>1, <1>2, <2>1, <2>2, <2>3, <2>4, <2>5 DEF OutKept, RedeemInv, SentInv, Statuses
<1>6. CASE Removes(c)
  <2>1. /\ sent' = sent /\ c \notin interactive' /\ poller'[c] = "none"
        /\ ~store'[c].in /\ store'[c].seen \subseteq store[c].seen
    BY <1>1, <1>6, AloneRemoves DEF Removes, historyVars, IInv, TypeOK
  <2>2. QED
    BY <1>1, <1>2, <2>1 DEF OutKept, RedeemInv, SentInv, Statuses
<1>7. CASE Closes(c)
  <2>1. /\ sent' = sent /\ c \notin interactive' /\ poller'[c] = "none" /\ store' = store
    BY <1>1, <1>7, AloneKeep DEF Closes, historyVars, IInv, TypeOK
  <2>2. QED
    BY <1>1, <1>2, <2>1 DEF OutKept, RedeemInv, SentInv, Statuses
<1>8. QED
  BY <1>3, <1>4, <1>5, <1>6, <1>7, OutWakes, OutPolled DEF Poll

LEMMA OutRestart ==
    ASSUME PairingAssumption, Sole, IInv, OutInv, NEW c \in Interactive,
           Restart \/ \E b \in Codes : RestartRecording(b)
    PROVE  OutKept(c)
<1>1. c \in Codes /\ RedeemInv(c) /\ SentInv(c) /\ CodeInv(c)
  BY DEF PairingAssumption, OutInv, IInv
<1>2. Dies /\ DiesFile
  BY AloneDies DEF IInv
<1>3. /\ UNCHANGED <<redeemed, past, sent>> /\ poller'[c] = "none" /\ interactive' = {}
      /\ record'[c] = record[c] \/ (c \in minting /\ record'[c] = "pending")
  BY <1>1, <1>2 DEF Dies
<1>4. /\ store'[c].in = store[c].in /\ store[c].seen \subseteq store'[c].seen
      /\ store'[c].seen \subseteq redeemed[c]
  BY <1>1, <1>2 DEF DiesFile, RedeemInv
<1>5. c \in minting => redeemed[c] = {} /\ \A x \in Statuses : ~Had(sent[c], x)
  BY <1>1 DEF CodeInv, SentInv
<1>6. QED
  BY <1>1, <1>3, <1>4, <1>5 DEF OutKept, RedeemInv, SentInv, Statuses

LEMMA OutInit == ASSUME PairingAssumption, Init PROVE OutInv
BY DEF PairingAssumption, Init, EmptyFile, NoEntry, OutInv, RedeemInv, SentInv, Tells, Had

LEMMA OutNext ==
    ASSUME PairingAssumption, Sole, IInv, OutInv, [Next]_vars PROVE OutInv'
<1>1. SUFFICES \A c \in Interactive : OutKept(c)
  BY DEF OutKept, OutInv
<1>2. CASE UNCHANGED vars
  BY <1>2 DEF vars, registrarVars, fileVars, managerVars, historyVars, OutInv, OutKept,
     RedeemInv, SentInv
<1>3. CASE Restart \/ \E b \in Codes : RestartRecording(b)
  BY <1>3, OutRestart
<1>4. ASSUME NEW b \in Codes, Registrar(b) \/ Poll(b) \/ Command(b) \/ Cli(b),
             NEW c \in Interactive
      PROVE  OutKept(c)
  <2>1. CASE b = c
    <3>1. ~Cli(c)
      BY DEF Cli, CliMints, CliAdds, CliPolled, CliRemoves, CliStops, CliForgets
    <3>2. QED
      BY <1>4, <2>1, <3>1, OutRegistrar, OutPoll, OutCommand
  <2>2. CASE b # c
    <3>1. c \in Codes \ {b}
      BY <2>2 DEF PairingAssumption
    <3>2. Same(c) /\ Aside(c)
      BY <1>4, <3>1, Frame, AsideFrame
    <3>3. QED
      BY <3>2, AsideKept
  <2>3. QED
    BY <2>1, <2>2
<1>5. QED
  BY <1>2, <1>3, <1>4 DEF Next

\* handleRedeems, poll and cancel: under the same assumption what was sent of a code agrees
\* with its entry, its poller and the registrar.
THEOREM OutInvariance == ASSUME Sole PROVE Spec => []OutInv
<1>1. PairingAssumption
  BY PairingAssumption
<1>2. QED
  BY <1>1, Invariance, OutInit, OutNext, PTL DEF Spec

\* poll() and its local `announced`, which the entry restores: the phone is told one
\* outcome of a pairing, however often the gateway restarts, as long as no other process is
\* in the middle of an update of the file when one is made.
THEOREM OutcomeIsOne == ASSUME Sole PROVE Spec => []OneOutcome
<1>1. PairingAssumption
  BY PairingAssumption
<1>2. ASSUME IInv, OutInv PROVE OneOutcome
  <2>1. ASSUME NEW c \in Codes PROVE Tells(sent[c])
    <3>1. CASE c \in Interactive
      BY <1>2, <3>1 DEF OutInv, SentInv
    <3>2. CASE c \notin Interactive
      BY <1>2, <3>2 DEF IInv, TypeOK, Tells
    <3>3. QED
      BY <3>1, <3>2
  <2>2. QED
    BY <2>1 DEF Tells, OneOutcome
<1>3. QED
  BY <1>2, Invariance, OutInvariance, PTL

-----------------------------------------------------------------------------
(* The user sees an Admission. *)

shown == <<redeemed, reported, sent>>

LEMMA SentTold ==
    ASSUME PairingAssumption, TypeOK, NEW c \in Interactive,
           NEW s \in {"expired", "error", "cancelled"},
           SendStatus(c, s), UNCHANGED <<redeemed, reported>>,
           ~Had(sent[c], "cancelled"), Had(sent[c], "completed") => s = "error"
    PROVE  Pairing!Tells(c, s)
<1>1. \A i \in DOMAIN sent[c] : /\ sent[c][i] # "cancelled"
                                /\ sent[c][i] = "completed" => s = "error"
  BY DEF Had
<1>2. QED
  BY <1>1 DEF SendStatus, Pairing!Tells

\* What is processed is what the entry has not seen.
LEMMA RecordLets ==
    ASSUME TypeOK, Sole, Alone, NEW p \in Procs, NEW c \in Codes, NEW v \in Views(p),
           Record(p, c, v), UNCHANGED redeemed
    PROVE  /\ Fresh(store, c) \in SUBSET Devices
           /\ Fresh(store, c) # {} => Pairing!Lets(c, Fresh(store, c))
           /\ Fresh(store, c) = {} => reported' = reported
<1>1. v = store
  BY AloneViews
<1>2. Fresh(store, c) \subseteq redeemed[c] /\ redeemed[c] \subseteq Devices
  BY DEF Fresh, TypeOK
<1>3. reported' = [reported EXCEPT ![c] =
         [d \in Devices |-> @[d] + IF d \in Fresh(store, c) THEN 1 ELSE 0]]
  BY <1>1 DEF Record, Process
<1>4. ASSUME Fresh(store, c) = {} PROVE reported' = reported
  <2>1. reported[c] \in [Devices -> Nat] /\ reported \in [Codes -> [Devices -> Nat]]
    BY DEF TypeOK
  <2>2. [d \in Devices |-> reported[c][d] + IF d \in Fresh(store, c) THEN 1 ELSE 0] = reported[c]
    BY <1>4, <2>1
  <2>3. QED
    BY <1>3, <2>1, <2>2
<1>5. QED
  BY <1>2, <1>3, <1>4 DEF Pairing!Lets

LEMMA UserInit == Init => Pairing!Init
BY DEF Init, Pairing!Init

LEMMA UserRegistrar ==
    ASSUME PairingAssumption, IInv, OutInv, NEW c \in Codes, Registrar(c)
    PROVE  UNCHANGED shown \/ \E d \in Devices : Pairing!Redeems(c, d)
<1>1. CASE RegistrarMovesOn(c) \/ ExpiryPasses(c)
  BY <1>1 DEF RegistrarMovesOn, ExpiryPasses, historyVars, shown
<1>2. ASSUME NEW d \in Devices, Redeem(c, d) PROVE Pairing!Redeems(c, d)
  <2>1. c \in Interactive => redeemed[c] = {}
    BY <1>2 DEF Redeem, OutInv, RedeemInv
  <2>2. QED
    BY <1>2, <2>1 DEF Redeem, historyVars, Pairing!Redeems
<1>3. QED
  BY <1>1, <1>2 DEF Registrar

LEMMA UserCommand ==
    ASSUME PairingAssumption, IInv, OutInv, NEW c \in Codes, Command(c)
    PROVE  UNCHANGED shown \/ (c \in Interactive /\ Pairing!Tells(c, "cancelled"))
<1>1. CASE Start(c) \/ Minted(c) \/ MintFails(c)
  BY <1>1 DEF Start, Minted, MintFails, registrarVars, historyVars, shown
<1>2. CASE Cancel(c)
  <2>1. c \in Interactive /\ c \in interactive /\ poller[c] # "removing"
    BY <1>2 DEF Cancel, IInv, TypeOK
  <2>2. ~Had(sent[c], "cancelled") /\ ~Had(sent[c], "completed")
    BY <2>1 DEF OutInv, SentInv
  <2>3. QED
    BY <1>2, <2>1, <2>2, SentTold DEF Cancel, registrarVars, IInv
<1>3. QED
  BY <1>1, <1>2 DEF Command

LEMMA UserCli ==
    ASSUME PairingAssumption, Sole, IInv, NEW c \in Codes, Cli(c)
    PROVE  UNCHANGED shown \/ \E ds \in SUBSET Devices : Pairing!Admits(c, ds)
<1>1. CliMints(c) \/ CliAdds(c) \/ CliRemoves(c) \/ CliStops(c) \/ CliForgets(c)
        => UNCHANGED shown
  BY DEF CliMints, CliAdds, CliRemoves, CliStops, CliForgets, CliVars, shown
<1>2. CASE CliPolled(c)
  <2>1. c \notin Interactive /\ UNCHANGED <<redeemed, sent>> /\ c \in Procs
    BY <1>2, ProcTypes DEF CliPolled, CliVars
  <2>2. CASE UNCHANGED reported
    BY <2>1, <2>2 DEF shown
  <2>3. ASSUME NEW v \in Views(c), Record(c, c, v)
        PROVE  UNCHANGED shown \/ Pairing!Admits(c, Fresh(store, c))
    BY <2>1, <2>3, RecordLets DEF IInv, shown, Pairing!Admits
  <2>4. Fresh(store, c) \in SUBSET Devices
    BY DEF Fresh, IInv, TypeOK
  <2>5. QED
    BY <1>2, <2>2, <2>3, <2>4 DEF CliPolled
<1>3. QED
  BY <1>1, <1>2 DEF Cli

\* The poller tells what OutSends lets it tell.
LEMMA UserExpires ==
    ASSUME PairingAssumption, IInv, OutInv, NEW c \in Interactive,
           poller[c] \in {"sleeping", "asking"}, NEW s \in {"expired", "error"},
           s = "expired" => ~announced[c],
           SendStatus(c, s), UNCHANGED <<redeemed, reported>>
    PROVE  Pairing!Tells(c, s)
<1>1. ~Had(sent[c], "cancelled") /\ (s = "expired" => ~Had(sent[c], "completed"))
  BY OutSends DEF Statuses
<1>2. QED
  BY <1>1, SentTold DEF IInv

LEMMA UserPolled ==
    ASSUME PairingAssumption, Sole, IInv, OutInv, NEW c \in Codes, Polled(c)
    PROVE  \/ UNCHANGED shown
           \/ \E ds \in SUBSET Devices : Pairing!Admits(c, ds) \/ Pairing!Completes(c, ds)
           \/ c \in Interactive /\ Pairing!Tells(c, "expired")
<1> DEFINE new == Fresh(store, c) # {}
           known == announced[c] \/ new
<1>1. /\ UNCHANGED redeemed /\ poller[c] = "asking" /\ "gateway" \in Procs
      /\ TypeOK /\ Alone
  BY ProcTypes DEF Polled, registrarVars, IInv
<1>2. Fresh(store, c) \in SUBSET Devices /\ (redeemed[c] = {} => ~new)
  BY <1>1 DEF Fresh, TypeOK
<1>3. IF new THEN Pairing!Lets(c, Fresh(store, c)) ELSE reported' = reported
  BY <1>1, <1>2, RecordLets DEF Polled
<1>4. IF record[c] = "expired"
      THEN IF c \in Interactive /\ new /\ ~announced[c]
           THEN SendStatus(c, "completed")
           ELSE Expire(c, known)
      ELSE IF c \in Interactive /\ new /\ ~announced[c]
           THEN SendStatus(c, "completed")
           ELSE UNCHANGED sent
  BY <1>1, AloneViews DEF Polled
<1>5. CASE c \notin Interactive
  <2>1. sent' = sent
    BY <1>4, <1>5 DEF Expire
  <2>2. QED
    BY <1>1, <1>2, <1>3, <1>5, <2>1 DEF shown, Pairing!Admits
<1>6. CASE c \in Interactive /\ new
  <2>1. ~announced[c]
    BY <1>1, <1>6 DEF OutInv, RedeemInv, IInv, OnceInv, Fresh
  <2>2. SendStatus(c, "completed") /\ redeemed[c] # {}
    BY <1>2, <1>4, <1>6, <2>1
  <2>3. \A x \in Statuses : ~Had(sent[c], x)
    BY <1>1, <1>6, <2>1, <2>2, OutSends DEF Statuses
  <2>4. sent[c] = <<>>
    <3>1. sent[c] \in Seq(Statuses)
      BY <1>1 DEF TypeOK
    <3>2. \A i \in DOMAIN sent[c] : sent[c][i] \in Statuses
      BY <3>1
    <3>3. DOMAIN sent[c] = {}
      BY <2>3, <3>2 DEF Had
    <3>4. DOMAIN sent[c] = 1 .. Len(sent[c]) /\ Len(sent[c]) \in Nat
      BY <3>1
    <3>5. Len(sent[c]) = 0
      <4>1. 1 \notin 1 .. Len(sent[c])
        BY <3>3, <3>4
      <4>2. QED
        BY <3>4, <4>1
    <3>6. QED
      BY <3>1, <3>5
  <2>5. Append(sent[c], "completed") = <<"completed">>
    BY <2>4
  <2>6. Pairing!Completes(c, Fresh(store, c))
    BY <1>3, <1>6, <2>2, <2>4, <2>5 DEF SendStatus, Pairing!Completes
  <2>7. QED
    BY <1>2, <2>6
<1>7. CASE c \in Interactive /\ ~new
  <2>1. \/ sent' = sent
        \/ SendStatus(c, "expired") /\ ~announced[c]
    BY <1>4, <1>7 DEF Expire
  <2>2. QED
    BY <1>1, <1>3, <1>7, <2>1, UserExpires DEF shown
<1>8. QED
  BY <1>5, <1>6, <1>7

LEMMA UserPoll ==
    ASSUME PairingAssumption, Sole, IInv, OutInv, NEW c \in Codes, Poll(c)
    PROVE  \/ UNCHANGED shown
           \/ \E ds \in SUBSET Devices : Pairing!Admits(c, ds) \/ Pairing!Completes(c, ds)
           \/ c \in Interactive /\ \E s \in {"expired", "error"} : Pairing!Tells(c, s)
<1>1. CASE Rescan(c) \/ PollFails(c) \/ NotFound(c) \/ Removes(c) \/ Closes(c)
  BY <1>1 DEF Rescan, PollFails, NotFound, Removes, Closes, registrarVars, historyVars, shown
<1>2. CASE Wakes(c)
  <2>1. /\ UNCHANGED <<redeemed, reported>> /\ poller[c] = "sleeping"
        /\ sent' = sent \/ (c \in Interactive /\ ~announced[c] /\ SendStatus(c, "expired"))
    BY <1>2 DEF Wakes, Expire, registrarVars
  <2>2. QED
    BY <2>1, UserExpires DEF shown
<1>3. CASE Refused(c)
  <2>1. /\ UNCHANGED <<redeemed, reported>> /\ poller[c] = "asking"
        /\ IF c \in Interactive THEN SendStatus(c, "error") ELSE UNCHANGED sent
    BY <1>3 DEF Refused, registrarVars
  <2>2. QED
    BY <2>1, UserExpires DEF shown
<1>4. QED
  BY <1>1, <1>2, <1>3, UserPolled DEF Poll

LEMMA UserNext ==
    ASSUME PairingAssumption, Sole, IInv, OutInv, [Next]_vars PROVE [Pairing!Next]_shown
<1>1. CASE UNCHANGED vars
  BY <1>1 DEF vars, registrarVars, historyVars, shown
<1>2. CASE Restart \/ \E c \in Codes : RestartRecording(c)
  BY <1>2 DEF Restart, RestartRecording, Dies, shown
<1>3. ASSUME NEW c \in Codes, Registrar(c) \/ Poll(c) \/ Command(c) \/ Cli(c)
      PROVE  [Pairing!Next]_shown
  BY <1>3, UserRegistrar, UserPoll, UserCommand, UserCli DEF Pairing!Next
<1>4. QED
  BY <1>1, <1>2, <1>3 DEF Next

\* DevicePairingManager, runPair and the file they share: under the same assumption a device
\* that redeems a device.pair_start code is let in exactly when the phone is told
\* `completed`, whatever restarts, fails or is cancelled in between.
THEOREM ImplementsAdmission == ASSUME Sole PROVE Spec => RefinesAdmission
<1>1. PairingAssumption
  BY PairingAssumption
<1>2. Init => Pairing!Init
  BY UserInit
<1>3. ASSUME IInv, OutInv, [Next]_vars PROVE [Pairing!Next]_<<redeemed, reported, sent>>
  BY <1>1, <1>3, UserNext DEF shown
<1>4. QED
  BY <1>2, <1>3, Invariance, OutInvariance, PTL DEF Spec, RefinesAdmission, Pairing!Spec
=============================================================================
