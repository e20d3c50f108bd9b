------------------------------- MODULE Wizard -------------------------------
(***************************************************************************)
(* The install wizard of src/src/wizard.ts: it prepares the plugin (setup  *)
(* without pairing), restarts the gateway so that it loads what was        *)
(* prepared, waits for a fresh line in the runtime log, and pairs.         *)
(*                                                                         *)
(* External: setup and pair (modules Setup and DevicePairing), the gateway *)
(* processes, and what manages them: a container or a service manager      *)
(* restarts a managed gateway when told to, and when it has died.          *)
(*                                                                         *)
(* A line of the log is stale if it is more than a second older than the   *)
(* restart instant of the wizard, early if it is younger and was written   *)
(* before the gateway was replaced, late if it was written after that.     *)
(***************************************************************************)
EXTENDS Integers, FiniteSets

CONSTANTS
    MaxProcesses,   \* bound: gateway processes there ever are
    MaxRounds,      \* rounds of killing before the deadline
    Faults          \* which of Mishaps happen

\* pgrep or a probe of the host does not see what is there; a command fails; a gateway
\* dies.
Mishaps == {"pgrep", "probe", "command", "death"}

ASSUME WizardAssumption ==
    MaxProcesses \in Nat \ {0, 1} /\ MaxRounds \in Nat \ {0} /\ Faults \subseteq Mishaps

VARIABLES
    host,       \* what manages the gateway: "docker", "supervised" or nothing
    before,     \* an identity was configured before the wizard ran
    gateway,    \* gateway processes: where each is
    fresh,      \* those that booted when the plugin was prepared
    managed,    \* those that the host manages
    line,       \* the last readiness line of each in the log
    step,       \* where the wizard is
    rounds,     \* rounds of killing
    seen,       \* a readiness line ended the wait
    \* history
    missed      \* a probe has not seen what was there, or what the host would start again

hostVars == <<host, before>>
gatewayVars == <<gateway, fresh, managed, line>>
wizardVars == <<step, rounds, seen, missed>>
vars == <<hostVars, gatewayVars, wizardVars>>

-----------------------------------------------------------------------------
Processes == 1..MaxProcesses
Hosts == {"docker", "supervised", "bare"}
Alive == {p \in Processes : gateway[p] \in {"booting", "idle", "connected"}}
Prepared == step \notin {"prepare", "failed"}

\* Gateways started by hand beside what manages the others: the host does not know them,
\* nor has the wizard launched them.
Beside == {p \in Processes \ (managed \cup fresh) : host # "bare"}

\* A new machine, or one with gateways that have been up for a while: maybe that of the
\* host, maybe one that was started by hand, whatever the host has.
Init ==
    /\ host \in Hosts /\ before \in BOOLEAN
    /\ managed \in SUBSET (IF host = "bare" THEN {} ELSE {1})
    /\ \E byHand \in SUBSET {2} :
          LET up == managed \cup byHand IN
          /\ gateway = [p \in Processes |->
                IF p \in up THEN (IF before THEN "connected" ELSE "idle") ELSE "none"]
          /\ line = [p \in Processes |-> IF p \in up /\ before THEN "stale" ELSE "none"]
    /\ fresh = {}
    /\ step = "prepare" /\ rounds = 0 /\ seen = FALSE /\ missed = FALSE

\* The processes in P die and, if there are enough, another one boots.
Replace(P, byHost) ==
    \E q \in Processes :
       /\ 2 < q /\ gateway[q] = "none" /\ \A p \in 3..(q - 1) : gateway[p] # "none"
       /\ gateway' = [p \in Processes |-> IF p = q THEN "booting"
                                          ELSE IF p \in P THEN "dead" ELSE gateway[p]]
       /\ fresh' = IF Prepared THEN fresh \cup {q} ELSE fresh
       /\ managed' = IF byHost THEN managed \cup {q} ELSE managed
       /\ UNCHANGED line

\* The time of a line that is written now.
Now == IF step \in {"wait", "pair", "done", "failed"} THEN "late" ELSE "early"

-----------------------------------------------------------------------------
(* The gateway processes. *)

\* Booted: it connects if there is an identity, and says so in the log.
Connects(p) ==
    /\ gateway[p] = "booting"
    /\ IF before \/ p \in fresh
       THEN /\ gateway' = [gateway EXCEPT ![p] = "connected"]
            /\ line' = [line EXCEPT ![p] = Now]
       ELSE gateway' = [gateway EXCEPT ![p] = "idle"] /\ UNCHANGED line
    /\ UNCHANGED <<hostVars, fresh, managed, wizardVars>>

\* Every sync is another line.
SaysHelloAgain(p) ==
    /\ gateway[p] = "connected"
    /\ line' = [line EXCEPT ![p] = Now]
    /\ UNCHANGED <<hostVars, gateway, fresh, managed, wizardVars>>

\* A line from more than a second before the restart instant is stale.
ASecondPasses ==
    /\ step = "prepare"
    /\ line' = [p \in Processes |-> IF line[p] = "early" THEN "stale" ELSE line[p]]
    /\ UNCHANGED <<hostVars, gateway, fresh, managed, wizardVars>>

Dies(p) ==
    /\ "death" \in Faults /\ p \in Alive
    /\ gateway' = [gateway EXCEPT ![p] = "dead"]
    /\ UNCHANGED <<hostVars, fresh, managed, line, wizardVars>>

\* The manager's gateway has died: it starts another.
HostRespawns ==
    /\ host # "bare" /\ managed # {} /\ managed \cap Alive = {}
    /\ Replace({}, TRUE)
    /\ UNCHANGED <<hostVars, wizardVars>>

-----------------------------------------------------------------------------
(* The wizard. *)

Fails(at) ==
    /\ step = at /\ "command" \in Faults /\ step' = "failed"
    /\ UNCHANGED <<hostVars, gatewayVars, rounds, seen, missed>>

\* setup has made an identity; now is the restart instant.
prepare ==
    /\ step = "prepare" /\ step' = "plan"
    /\ UNCHANGED <<hostVars, gatewayVars, rounds, seen, missed>>

PrepareFails == Fails("prepare")

\* What probeRestart says: a container that runs, then a service, else neither; a
\* probe that times out falls through.
Methods ==
    {m \in {"docker", "supervised", "foreground"} :
       \/ m = "docker" /\ host = "docker" /\ managed \cap Alive # {}
       \/ m = "supervised" /\ host = "supervised"
       \/ m = "foreground" /\ (host = "bare" \/ (host = "docker" /\ managed \cap Alive = {})
                               \/ "probe" \in Faults)}

\* Mutant: a gateway in the foreground is not stopped before another is launched.
LaunchAlongside ==
    /\ step = "plan"
    /\ \E m \in Methods :
          /\ step' = IF m = "foreground" THEN "launch" ELSE "restart"
          /\ missed' = (missed \/ (m = "foreground" /\ managed # {}))
    /\ UNCHANGED <<hostVars, gatewayVars, rounds, seen>>

\* planGatewayRestart.
planGatewayRestart ==
    /\ step = "plan"
    /\ \E m \in Methods :
          /\ step' = IF m = "foreground" THEN "kill" ELSE "restart"
          /\ missed' = (missed \/ (m = "foreground" /\ managed # {}))
    /\ UNCHANGED <<hostVars, gatewayVars, rounds, seen>>

\* docker restart, or openclaw gateway restart: the host does it, and leaves those it does
\* not manage as they are.
RestartByHost ==
    /\ step = "restart" /\ step' = "wait"
    /\ Replace(managed, TRUE)
    /\ UNCHANGED <<hostVars, rounds, seen, missed>>

RestartFails == Fails("restart")

\* killAllGateways, at the head of its loop: some gateway runs and the deadline is not
\* over, ...
SeesGateway ==
    /\ step = "kill" /\ Alive # {} /\ rounds < MaxRounds
    /\ step' = "shoot"
    /\ UNCHANGED <<hostVars, gatewayVars, rounds, seen, missed>>

\* ... or none is seen, or it is over.
SeesNoGateway ==
    /\ step = "kill" /\ step' = "launch"
    /\ \/ Alive = {} /\ UNCHANGED missed
       \/ Alive # {} /\ "pgrep" \in Faults /\ missed' = TRUE
       \/ Alive # {} /\ rounds = MaxRounds /\ missed' = TRUE
    /\ UNCHANGED <<hostVars, gatewayVars, rounds, seen>>

\* pkill -9, and a pause.
Shoots ==
    /\ step = "shoot" /\ step' = "kill"
    /\ gateway' = [p \in Processes |-> IF p \in Alive THEN "dead" ELSE gateway[p]]
    /\ rounds' = rounds + 1
    /\ UNCHANGED <<hostVars, fresh, managed, line, seen, missed>>

\* One gateway, detached.
Launch ==
    /\ step = "launch" /\ step' = "wait"
    /\ Replace({}, FALSE)
    /\ UNCHANGED <<hostVars, rounds, seen, missed>>

LaunchFails == Fails("launch")

\* Mutant: every line of the log counts.
runtimeLogReady == \E p \in Processes : line[p] # "none"
\* A line at or after the restart instant, less a second.
runtimeLogReadySince == \E p \in Processes : line[p] \in {"early", "late"}

\* waitForGatewayReady: the line is there, or three minutes are over; then the wizard
\* pairs in either case.
GatewayReady ==
    /\ step = "wait" /\ runtimeLogReadySince
    /\ step' = "pair" /\ seen' = TRUE
    /\ UNCHANGED <<hostVars, gatewayVars, rounds, missed>>

\* Mutant: there is no limit to the waiting.
WaitsOn ==
    /\ step = "wait" /\ runtimeLogReadySince
    /\ step' = "pair"
    /\ UNCHANGED <<hostVars, gatewayVars, rounds, seen, missed>>

GivesUpWaiting ==
    /\ step = "wait" /\ ~runtimeLogReadySince
    /\ step' = "pair"
    /\ UNCHANGED <<hostVars, gatewayVars, rounds, seen, missed>>

pair ==
    /\ step = "pair" /\ step' = "done"
    /\ UNCHANGED <<hostVars, gatewayVars, rounds, seen, missed>>

PairFails == Fails("pair")

-----------------------------------------------------------------------------
WizardSteps ==
    \/ prepare \/ PrepareFails \/ planGatewayRestart
    \/ RestartByHost \/ RestartFails
    \/ SeesGateway \/ SeesNoGateway \/ Shoots \/ Launch \/ LaunchFails
    \/ GatewayReady \/ GivesUpWaiting \/ pair \/ PairFails

Next ==
    \/ WizardSteps
    \/ \E p \in Processes : Connects(p) \/ SaysHelloAgain(p) \/ Dies(p)
    \/ ASecondPasses \/ HostRespawns

Spec == Init /\ [][Next]_vars

\* The wizard goes on, and so do the gateways that boot.  The preparation may not: its
\* connect() need not settle (GatewaySocket!ConnectSettles).
Fairness ==
    /\ WF_vars(step # "prepare" /\ WizardSteps)
    /\ \A p \in Processes : WF_vars(Connects(p))

FairSpec == Spec /\ Fairness

-----------------------------------------------------------------------------
(* Properties. *)

\* Every variable has its type.
TypeOK ==
    /\ host \in Hosts /\ before \in BOOLEAN
    /\ gateway \in [Processes -> {"none", "booting", "idle", "connected", "dead"}]
    /\ fresh \subseteq Processes /\ managed \subseteq Processes
    /\ line \in [Processes -> {"none", "stale", "early", "late"}]
    /\ step \in {"prepare", "plan", "restart", "kill", "shoot", "launch", "wait", "pair",
                 "done", "failed"}
    /\ rounds \in 0..MaxRounds /\ seen \in BOOLEAN /\ missed \in BOOLEAN

\* "A relaunched foreground gateway can never overlap and double-connect": two gateways
\* are up at once only if a probe did not see what was there, the deadline was over, or one
\* was started by hand beside what manages the other.
OneGateway == Cardinality(Alive) > 1 => missed \/ Alive \cap Beside # {}

\* "Anything logged before this instant is stale": as a line ends the wait, a gateway that
\* booted after the preparation has written one, or a gateway from before has done so in
\* the last second before the instant or until it was replaced.  Nothing older is read of a
\* gateway from before, and nothing younger, unless one was left running.
ReadyIsRecent ==
    [][~seen /\ seen' => \/ \E p \in fresh : line[p] = "late"
                         \/ \E p \in Processes : line[p] = "early"
                         \/ \E p \in Beside : line[p] = "late"
                         \/ missed]_vars

\* What the code does not provide: "only a readiness line at or after restartT0 proves THIS
\* gateway loaded the plugin".
ReadyIsNew == [][~seen /\ seen' => \E p \in fresh : line[p] \in {"early", "late"}]_vars

\* Once the plugin is prepared the wizard comes to an end, whatever the gateways and what
\* manages them do.
WizardEnds == step # "prepare" ~> step \in {"done", "failed"}
=============================================================================
