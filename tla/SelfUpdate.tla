----------------------------- MODULE SelfUpdate -----------------------------
(***************************************************************************)
(* The plugin replaces itself: applyUpdate of src/src/update/apply.ts (run *)
(* by the plugin.update command, by the CLI, and by a rollback), the boot  *)
(* guard of boot-guard.ts with its marker file, the resident poller of     *)
(* version-poller.ts, and the part of startAccount in channel.ts that      *)
(* ties them together.                                                     *)
(*                                                                         *)
(* External: the host, which loads the version on the disk when it boots,  *)
(* starts the accounts and restarts a process that has died; the package   *)
(* manager; the registrar's installer, a command of its own that installs  *)
(* a version and then restarts the gateway.                                *)
(*                                                                         *)
(* A version is its number.  A version in Bad comes up, starts accounts    *)
(* and dies before it has synced.                                          *)
(***************************************************************************)
EXTENDS Integers, FiniteSets

CONSTANTS
    Accounts,     \* accounts of the gateway
    Versions,     \* versions of the plugin
    Bad,          \* those that die before their first sync
    Wanted,       \* the version the registrar names
    Turns,        \* messages that may be relayed to the agent
    None,         \* no marker, nothing
    MaxUpdates,   \* bound: updates an operator asks for
    MaxCrashes,   \* bound: deaths of a good version
    Faults        \* which of Mishaps happen

\* An install fails; the registrar's installer fails; a state "connected" is reported
\* again while the account runs; an account is stopped and started within a process.
Mishaps == {"install", "installer", "resync", "restart_account"}

ASSUME UpdateAssumption ==
    /\ Versions \subseteq Nat \ {0} /\ Bad \subseteq Versions /\ Wanted \in Versions
    /\ MaxUpdates \in Nat /\ MaxCrashes \in Nat
    /\ Faults \subseteq Mishaps
    /\ None \notin Versions /\ None # "install" /\ Accounts \cap {"command", "cli"} = {}

VARIABLES
    disk,        \* the version in package.json
    code,        \* the version the gateway process has loaded; None: no process
    marker,      \* the update marker file
    account,     \* where startAccount is
    guard,       \* the account holds a confirmHealthy that clears the marker
    job,         \* applyUpdate calls under way
    restarts,    \* restarts scheduled, as detached shells
    poller,      \* VersionPoller of each account
    installer,   \* what the installer each poller launched still has to do
    inFlight,    \* turns that are being dispatched
    spent,       \* updates asked for and crashes so far
    \* history
    trial        \* the version last restarted into, its boots, whether one was healthy

updateVars == <<disk, job, restarts>>
guardVars == <<marker, guard, account>>
pollVars == <<poller, installer>>
vars == <<disk, code, marker, account, guard, job, restarts, poller, installer, inFlight,
          spent, trial>>

MaxBootAttempts == 2
MaxBoots == MaxBootAttempts + 1     \* bound: boots the history counts
MaxRestarts == 2                    \* bound: restarts scheduled at a time

-----------------------------------------------------------------------------
Jobs == Accounts \cup {"command", "cli"}
InGateway == Jobs \ {"cli"}

Idle == [at |-> "free", from |-> None, target |-> None, force |-> FALSE, restart |-> FALSE]
NoTrial == [to |-> None, boots |-> 0, healthy |-> FALSE]
PollerOff == [at |-> "off", running |-> FALSE, installed |-> None]

Init ==
    /\ disk \in Versions \ Bad /\ code = disk
    /\ marker = None /\ guard = [a \in Accounts |-> FALSE]
    /\ account = [a \in Accounts |-> "off"]
    /\ job = [j \in Jobs |-> Idle] /\ restarts = 0
    /\ poller = [a \in Accounts |-> PollerOff] /\ installer = [a \in Accounts |-> None]
    /\ inFlight = {}
    /\ spent = [updates |-> 0, crashes |-> 0]
    /\ trial = NoTrial

-----------------------------------------------------------------------------
(* The process. *)

\* Everything the gateway process was doing is gone.  The CLI, scheduled restarts
\* and installers are processes of their own.
ProcessEnds ==
    /\ code # None /\ code' = None
    /\ account' = [a \in Accounts |-> "off"] /\ guard' = [a \in Accounts |-> FALSE]
    /\ job' = [j \in Jobs |-> IF j \in InGateway THEN Idle ELSE job[j]]
    /\ poller' = [a \in Accounts |-> PollerOff]
    /\ inFlight' = {}

Boot ==
    /\ code = None /\ code' = disk
    /\ trial' = IF marker = None THEN NoTrial
                ELSE [trial EXCEPT !.boots = IF @ < MaxBoots THEN @ + 1 ELSE @]
    /\ UNCHANGED <<updateVars, guardVars, pollVars, inFlight, spent>>

\* The gateway dies: a version in Bad always does once it has started its accounts.
Crash ==
    /\ ProcessEnds
    /\ \/ /\ code \in Bad /\ \A a \in Accounts : account[a] # "off"
          /\ UNCHANGED spent
       \/ /\ code \notin Bad /\ spent.crashes < MaxCrashes
          /\ spent' = [spent EXCEPT !.crashes = @ + 1]
    /\ UNCHANGED <<disk, marker, restarts, installer, trial>>

\* A restart scheduled by applyUpdate comes.
Restart ==
    /\ restarts > 0 /\ restarts' = restarts - 1
    /\ ProcessEnds \/ (code = None /\ UNCHANGED <<code, account, guard, job, poller, inFlight>>)
    /\ UNCHANGED <<disk, marker, installer, spent, trial>>

-----------------------------------------------------------------------------
(* applyUpdate. *)

\* The installed version is read, then the probes run; a target of None stands for
\* the latest version.
StartUpdate(j, target, force, restart) ==
    job' = [job EXCEPT ![j] = [at |-> "probing", from |-> disk, target |-> target,
                               force |-> force, restart |-> restart]]

\* Neither way to ask looks at the turns in flight, nor at an update under way.
RequestUpdate(j) ==
    /\ job[j] = Idle /\ spent.updates < MaxUpdates
    /\ \E target \in Versions \cup {None}, force \in BOOLEAN, restart \in BOOLEAN :
          StartUpdate(j, target, force, restart)
    /\ spent' = [spent EXCEPT !.updates = @ + 1]
    /\ UNCHANGED <<disk, restarts, code, guardVars, pollVars, inFlight, trial>>

\* plugin.update in the control room of an account, and the CLI's `update --apply`.
UpdateCommand == (\E a \in Accounts : account[a] = "healthy") /\ RequestUpdate("command")
UpdateFromCli == RequestUpdate("cli")

\* A rollback's startAccount returns when applyUpdate does, whatever came of it.
Finish(j) ==
    /\ job' = [job EXCEPT ![j] = Idle]
    /\ account' = IF j \in Accounts THEN [account EXCEPT ![j] = "ended"] ELSE account

\* Only something newer, on a host that lets itself be updated.
Newer(v, w) == v > w
Updatable(from, latest, blocked) == latest # None /\ Newer(latest, from) /\ ~blocked

\* The probes have answered: which version is the latest (None: npm did not say), and
\* whether something blocks an update.
Probed(j) ==
    /\ job[j].at = "probing"
    /\ \E latest \in Versions \cup {None}, blocked \in BOOLEAN :
          LET target == IF job[j].target # None THEN job[j].target ELSE latest
          IN \/ /\ target = None \/ (~Updatable(job[j].from, latest, blocked) /\ ~job[j].force)
                /\ Finish(j)
             \/ /\ target # None
                /\ Updatable(job[j].from, latest, blocked) \/ job[j].force
                /\ job' = [job EXCEPT ![j].at = "installing", ![j].target = target,
                                          ![j].force = FALSE]
                /\ UNCHANGED account
    /\ UNCHANGED <<disk, restarts, code, marker, guard, pollVars, inFlight, spent, trial>>

NewMarker(from, to) == [from |-> from, to |-> to, attempts |-> 0]

\* Installed, and if so asked the marker is written and a restart scheduled; a
\* restart that cannot be scheduled takes the marker away again.
Installed(j) ==
    /\ job[j].at = "installing"
    /\ disk' = job[j].target
    /\ \/ ~job[j].restart /\ UNCHANGED <<marker, restarts, trial>>
       \/ /\ job[j].restart /\ restarts < MaxRestarts
          /\ marker' = NewMarker(job[j].from, job[j].target)
          /\ restarts' = restarts + 1
          /\ trial' = [NoTrial EXCEPT !.to = job[j].target]
       \/ /\ job[j].restart /\ "install" \in Faults
          /\ marker' = None
          /\ UNCHANGED <<restarts, trial>>
    /\ Finish(j)
    /\ UNCHANGED <<code, guard, pollVars, inFlight, spent>>

InstallFailed(j) ==
    /\ job[j].at = "installing" /\ "install" \in Faults
    /\ Finish(j)
    /\ UNCHANGED <<disk, restarts, code, marker, guard, pollVars, inFlight, spent, trial>>

-----------------------------------------------------------------------------
(* The boot guard. *)

\* Mutant: the count of attempts is not written back.
ReconcileForgets(a) ==
    IF marker = None \/ marker.to # disk
    THEN /\ marker' = None /\ guard' = [guard EXCEPT ![a] = FALSE]
         /\ account' = [account EXCEPT ![a] = "starting"] /\ UNCHANGED job
    ELSE IF marker.attempts + 1 > MaxBootAttempts
    THEN /\ marker' = None
         /\ StartUpdate(a, marker.from, TRUE, TRUE)
         /\ guard' = [guard EXCEPT ![a] = FALSE] /\ account' = [account EXCEPT ![a] = "rolling"]
    ELSE /\ marker' = marker /\ guard' = [guard EXCEPT ![a] = TRUE]
         /\ account' = [account EXCEPT ![a] = "starting"] /\ UNCHANGED job

\* reconcileUpdateMarker, and the rollback that startAccount begins when told to.
Reconcile(a) ==
    IF marker = None \/ marker.to # disk
    THEN /\ marker' = None /\ guard' = [guard EXCEPT ![a] = FALSE]
         /\ account' = [account EXCEPT ![a] = "starting"] /\ UNCHANGED job
    ELSE IF marker.attempts + 1 > MaxBootAttempts
    THEN /\ marker' = None
         /\ StartUpdate(a, marker.from, TRUE, TRUE)
         /\ guard' = [guard EXCEPT ![a] = FALSE] /\ account' = [account EXCEPT ![a] = "rolling"]
    ELSE /\ marker' = [marker EXCEPT !.attempts = @ + 1]
         /\ guard' = [guard EXCEPT ![a] = TRUE]
         /\ account' = [account EXCEPT ![a] = "starting"] /\ UNCHANGED job

\* The host starts the account.
StartAccount(a) ==
    /\ code # None /\ account[a] = "off"
    /\ Reconcile(a)
    /\ UNCHANGED <<disk, restarts, code, pollVars, inFlight, spent, trial>>

\* Mutant: a healthy sync does not clear the marker.
ConfirmNothing(a) == marker' = marker
\* confirmHealthy.
ConfirmHealthy(a) == marker' = IF guard[a] THEN None ELSE marker

\* The sync is prepared: the state "connected" is reported, rooms and poller follow.
Connected(a) ==
    /\ account[a] = "starting" /\ code \notin Bad
    /\ ConfirmHealthy(a)
    /\ account' = [account EXCEPT ![a] = "healthy"]
    /\ trial' = [trial EXCEPT !.healthy = @ \/ trial.boots > 0]
    /\ poller' = [poller EXCEPT ![a].running = TRUE,
                                ![a].at = IF poller[a].at = "off" THEN "waiting" ELSE @]
    /\ UNCHANGED <<updateVars, code, guard, installer, inFlight, spent>>

\* Every later sync reports "connected" too.
ConnectedAgain(a) ==
    /\ "resync" \in Faults /\ account[a] = "healthy"
    /\ ConfirmHealthy(a)
    /\ trial' = [trial EXCEPT !.healthy = @ \/ trial.boots > 0]
    /\ UNCHANGED <<updateVars, code, guard, account, pollVars, inFlight, spent>>

\* The host stops the account, or starts one again that has ended.
StopAccount(a) ==
    /\ "restart_account" \in Faults /\ account[a] \in {"starting", "healthy"}
    /\ account' = [account EXCEPT ![a] = "ended"]
    /\ guard' = [guard EXCEPT ![a] = FALSE]
    /\ poller' = [poller EXCEPT ![a].running = FALSE,
                                ![a].at = IF @ = "waiting" THEN "off" ELSE @]
    /\ UNCHANGED <<updateVars, code, marker, installer, inFlight, spent, trial>>

\* Bound: not before the last poll of its former run has been answered.
StartAgain(a) ==
    /\ "restart_account" \in Faults
    /\ account[a] = "ended" /\ poller[a].at = "off"
    /\ account' = [account EXCEPT ![a] = "off"]
    /\ UNCHANGED <<updateVars, code, marker, guard, pollVars, inFlight, spent, trial>>

-----------------------------------------------------------------------------
(* The poller. *)

\* The timer fires: the installed version is read, then the registrar is asked.
TickAsks(a) ==
    /\ poller[a].at = "waiting"
    /\ poller' = [poller EXCEPT ![a].at = "asking", ![a].installed = disk]
    /\ UNCHANGED <<updateVars, code, guardVars, installer, inFlight, spent, trial>>

\* schedule(): another tick, unless the poller has been stopped.
Schedule(p) == [p EXCEPT !.at = IF p.running THEN "waiting" ELSE "off", !.installed = None]

\* decideVersionPoll: any other version than the wanted one, older ones too.
DueToUpdate(a) == poller[a].at = "asking" /\ poller[a].installed # Wanted

\* The answer names another version and no turn is in flight: the installer is
\* launched, even by a poller stopped meanwhile, and the poller stops.  Bound: one
\* installer of an account at a time.
TickLaunches(a) ==
    /\ DueToUpdate(a) /\ inFlight = {}
    /\ installer[a] \in {None, "failed"}
    /\ installer' = [installer EXCEPT ![a] = "install"]
    /\ poller' = [poller EXCEPT ![a] = PollerOff]
    /\ UNCHANGED <<updateVars, code, guardVars, inFlight, spent, trial>>

\* Mutant: the poller does not go on after a tick that was put off.
TickIsLast(a) ==
    /\ poller[a].at = "asking"
    /\ poller' = [poller EXCEPT ![a] = PollerOff]
    /\ UNCHANGED <<updateVars, code, guardVars, installer, inFlight, spent, trial>>

\* Nothing to do, a turn in flight, no answer, or no shell to launch it with.
TickPutOff(a) ==
    /\ poller[a].at = "asking"
    /\ poller' = [poller EXCEPT ![a] = Schedule(@)]
    /\ UNCHANGED <<updateVars, code, guardVars, installer, inFlight, spent, trial>>

\* The installer installs what the registrar wants, without a marker, ...
InstallerInstalls(a) ==
    /\ installer[a] = "install" /\ disk' = Wanted
    /\ installer' = [installer EXCEPT ![a] = "restart"]
    /\ UNCHANGED <<code, guardVars, job, restarts, poller, inFlight, spent, trial>>

\* ... and restarts the gateway; ...
InstallerRestarts(a) ==
    /\ installer[a] = "restart" /\ installer' = [installer EXCEPT ![a] = None]
    /\ ProcessEnds \/ (code = None /\ UNCHANGED <<code, account, guard, job, poller, inFlight>>)
    /\ UNCHANGED <<disk, marker, restarts, spent, trial>>

\* ... or fails, of which nobody hears: the poller has stopped.
InstallerFails(a) ==
    /\ "installer" \in Faults /\ installer[a] = "install"
    /\ installer' = [installer EXCEPT ![a] = "failed"]
    /\ UNCHANGED <<updateVars, code, guardVars, poller, inFlight, spent, trial>>

-----------------------------------------------------------------------------
(* Turns; an attachment is fetched before its turn counts as being in flight. *)

beginAgentTurn(t) ==
    /\ \E a \in Accounts : account[a] = "healthy"
    /\ inFlight' = inFlight \cup {t}
    /\ UNCHANGED <<updateVars, code, guardVars, pollVars, spent, trial>>

endAgentTurn(t) ==
    /\ t \in inFlight /\ inFlight' = inFlight \ {t}
    /\ UNCHANGED <<updateVars, code, guardVars, pollVars, spent, trial>>

-----------------------------------------------------------------------------
Next ==
    \/ Boot \/ Crash \/ Restart
    \/ \E j \in Jobs : Probed(j) \/ Installed(j) \/ InstallFailed(j)
    \/ UpdateCommand \/ UpdateFromCli
    \/ \E a \in Accounts : \/ StartAccount(a) \/ Connected(a) \/ ConnectedAgain(a)
                           \/ StopAccount(a) \/ StartAgain(a)
                           \/ TickAsks(a) \/ TickLaunches(a) \/ TickPutOff(a)
                           \/ InstallerInstalls(a) \/ InstallerRestarts(a) \/ InstallerFails(a)
    \/ \E t \in Turns : beginAgentTurn(t) \/ endAgentTurn(t)

Spec == Init /\ [][Next]_vars

\* What is under way goes on: the process, accounts, jobs, installers and turns.  A
\* version in Bad dies.  The registrar is heard in the end if it is asked for ever.
Fairness ==
    /\ WF_vars(Boot) /\ WF_vars(Restart) /\ WF_vars(code \in Bad /\ Crash)
    /\ \A j \in Jobs : WF_vars(Probed(j)) /\ WF_vars(Installed(j))
    /\ \A a \in Accounts :
          /\ WF_vars(StartAccount(a)) /\ WF_vars(Connected(a)) /\ WF_vars(StartAgain(a))
          /\ WF_vars(TickAsks(a)) /\ WF_vars(TickPutOff(a)) /\ SF_vars(TickLaunches(a))
          /\ WF_vars(InstallerInstalls(a)) /\ WF_vars(InstallerRestarts(a))
    /\ \A t \in Turns : WF_vars(endAgentTurn(t))

FairSpec == Spec /\ Fairness

-----------------------------------------------------------------------------
(* Properties. *)

Markers == [from : Versions, to : Versions, attempts : 0..MaxBootAttempts]

\* Every variable has its type.
TypeOK ==
    /\ disk \in Versions /\ code \in Versions \cup {None}
    /\ marker \in Markers \cup {None}
    /\ account \in [Accounts -> {"off", "starting", "healthy", "rolling", "ended"}]
    /\ guard \in [Accounts -> BOOLEAN]
    /\ job \in [Jobs -> [at : {"free", "probing", "installing"}, from : Versions \cup {None},
                        target : Versions \cup {None}, force : BOOLEAN, restart : BOOLEAN]]
    /\ restarts \in 0..MaxRestarts
    /\ poller \in [Accounts -> [at : {"off", "waiting", "asking"}, running : BOOLEAN,
                                installed : Versions \cup {None}]]
    /\ installer \in [Accounts -> {None, "install", "restart", "failed"}]
    /\ inFlight \subseteq Turns
    /\ spent \in [updates : 0..MaxUpdates, crashes : 0..MaxCrashes]
    /\ trial \in [to : Versions \cup {None}, boots : 0..MaxBoots, healthy : BOOLEAN]

RollbackDecided == \E a \in Accounts : account[a] # "rolling" /\ account'[a] = "rolling"

\* "The new version comes up and confirms healthy: the marker is cleared": once a
\* process booted since the marker was written has synced, no rollback is decided,
\* whoever else updates, crashes or starts accounts.
RollbackOnlyUnconfirmed == [][RollbackDecided => ~trial.healthy]_vars

\* "After MAX_BOOT_ATTEMPTS boots the guard reports rollback": not before that many
\* boots of the new version have failed.
RollbackAfterBoots == [][RollbackDecided => trial.boots > MaxBootAttempts]_vars

\* What holds of it where one account counts, once in a process: a version is given
\* MAX_BOOT_ATTEMPTS boots, though the last may still be under way, for an attempt counts
\* from its beginning, and an account starting as another update ends takes one for nothing.
RollbackAfterAttempts == [][RollbackDecided => trial.boots >= MaxBootAttempts]_vars

\* "When a restart is scheduled we drop a boot marker; the next boot watches the new
\* version": no version that applyUpdate restarts into boots unwatched.
FirstBootGuarded ==
    [][code = None /\ code' # None /\ code' = trial.to /\ trial.boots = 0
         => marker # None]_vars

\* "A restart into the previous version is scheduled; abort this boot": an account that
\* has given way to a rollback sees one come.
AbortedBootRestarts ==
    \A a \in Accounts : account[a] = "ended" => restarts > 0

\* "We never drop a live reply": no installer of the poller's cuts a turn short.
NoReplyDropped ==
    [][(\E a \in Accounts : installer[a] = "restart" /\ installer'[a] = None) => inFlight = {}]_vars

\* A marker does not linger: whatever boots, crashes, updates and restarts follow, it
\* is cleared by a healthy sync, by a rollback or as out of date.
MarkerResolved == marker # None ~> marker = None

\* A poll that was put off or failed is made again: if turns do not follow one another
\* for ever, the version the registrar wants is installed while the account is served;
\* only an installer that fails ends this, for the poller does not look after it.
WantedArrives ==
    <>[](inFlight = {}) =>
       \A a \in Accounts : poller[a].running ~> \/ disk = Wanted \/ account[a] # "healthy"
                                             \/ installer[a] = "failed"
=============================================================================
