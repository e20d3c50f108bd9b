------------------------- MODULE SelfUpdate_proofs -------------------------
(***************************************************************************)
(* Proofs about SelfUpdate: its types, with the attempts of a marker in    *)
(* bounds, that a version that has synced is not rolled back, and when the *)
(* attempts are boots.                                                     *)
(***************************************************************************)
EXTENDS SelfUpdate, TLAPS

\* An update under way knows the version it came from, and the one it installs.
JobInv ==
    \A j \in Jobs : /\ job[j].at # "free" => job[j].from \in Versions
                    /\ job[j].at = "installing" => job[j].target \in Versions

\* Without a process no account is started.
ProcessInv == code = None => \A a \in Accounts : account[a] \notin {"starting", "healthy"}

\* The first healthy sync of a boot clears the marker: every account started since that
\* boot holds a guard as long as the marker is there.
MarkerInv ==
    /\ trial.healthy => marker = None
    /\ marker # None /\ trial.boots > 0 =>
          \A a \in Accounts : account[a] \in {"starting", "healthy"} => guard[a]

IInv == TypeOK /\ JobInv /\ ProcessInv /\ MarkerInv

\* The shapes of the records that are written.
LEMMA Shapes ==
    ASSUME UpdateAssumption
    PROVE  /\ Idle \in [at : {"free", "probing", "installing"}, from : Versions \cup {None},
                        target : Versions \cup {None}, force : BOOLEAN, restart : BOOLEAN]
           /\ Idle.at = "free"
           /\ PollerOff \in [at : {"off", "waiting", "asking"}, running : BOOLEAN,
                             installed : Versions \cup {None}]
           /\ NoTrial \in [to : Versions \cup {None}, boots : 0..MaxBoots, healthy : BOOLEAN]
           /\ NoTrial.boots = 0 /\ NoTrial.healthy = FALSE
BY DEF UpdateAssumption, Idle, PollerOff, NoTrial, MaxBoots, MaxBootAttempts

LEMMA InitInv == UpdateAssumption /\ Init => IInv
<1> SUFFICES ASSUME UpdateAssumption, Init PROVE IInv
  OBVIOUS
<1>1. TypeOK
  <2>1. /\ disk \in Versions /\ code \in Versions \cup {None} /\ marker \in Markers \cup {None}
        /\ restarts \in 0..MaxRestarts /\ inFlight \subseteq Turns
    BY DEF Init, MaxRestarts
  <2>2. spent \in [updates : 0..MaxUpdates, crashes : 0..MaxCrashes]
    BY DEF UpdateAssumption, Init
  <2>3. /\ account \in [Accounts -> {"off", "starting", "healthy", "rolling", "ended"}]
        /\ guard \in [Accounts -> BOOLEAN]
        /\ installer \in [Accounts -> {None, "install", "restart", "failed"}]
    BY DEF Init
  <2>4. QED
    BY <2>1, <2>2, <2>3, Shapes DEF Init, TypeOK
<1>2. JobInv /\ ProcessInv /\ MarkerInv
  BY Shapes DEF Init, JobInv, ProcessInv, MarkerInv
<1>3. QED
  BY <1>1, <1>2 DEF IInv

\* ProcessEnds takes every account, job of the gateway and poller with it.
LEMMA ProcessEndsFacts ==
    ASSUME UpdateAssumption, IInv, ProcessEnds
    PROVE  /\ code' = None /\ inFlight' = {}
           /\ account' \in [Accounts -> {"off", "starting", "healthy", "rolling", "ended"}]
           /\ \A a \in Accounts : account'[a] = "off"
           /\ guard' \in [Accounts -> BOOLEAN]
           /\ job' \in [Jobs -> [at : {"free", "probing", "installing"},
                                from : Versions \cup {None}, target : Versions \cup {None},
                                force : BOOLEAN, restart : BOOLEAN]]
           /\ \A j \in Jobs : job'[j] = job[j] \/ job'[j] = Idle
           /\ poller' \in [Accounts -> [at : {"off", "waiting", "asking"}, running : BOOLEAN,
                                        installed : Versions \cup {None}]]
BY Shapes DEF IInv, TypeOK, ProcessEnds

\* A process that ends, or was not there, leaves all of the invariant that is about the
\* process; the files and the history are untouched.
LEMMA EndsInv ==
    ASSUME UpdateAssumption, IInv,
           ProcessEnds \/ (code = None /\ UNCHANGED <<code, account, guard, job, poller, inFlight>>),
           UNCHANGED <<disk, marker, trial>>,
           restarts' \in 0..MaxRestarts,
           installer' \in [Accounts -> {None, "install", "restart", "failed"}],
           spent' \in [updates : 0..MaxUpdates, crashes : 0..MaxCrashes]
    PROVE  IInv'
<1>1. CASE ProcessEnds
  <2>1. TypeOK'
    BY <1>1, ProcessEndsFacts DEF IInv, TypeOK
  <2>2. JobInv'
    BY <1>1, ProcessEndsFacts, Shapes DEF IInv, JobInv
  <2>3. ProcessInv' /\ MarkerInv'
    BY <1>1, ProcessEndsFacts DEF IInv, ProcessInv, MarkerInv
  <2>4. QED
    BY <2>1, <2>2, <2>3 DEF IInv
<1>2. CASE code = None /\ UNCHANGED <<code, account, guard, job, poller, inFlight>>
  BY <1>2 DEF IInv, TypeOK, JobInv, ProcessInv, MarkerInv
<1>3. QED
  BY <1>1, <1>2

\* The end of an applyUpdate call.
LEMMA FinishFacts ==
    ASSUME UpdateAssumption, IInv, NEW j \in Jobs, Finish(j)
    PROVE  /\ job' \in [Jobs -> [at : {"free", "probing", "installing"},
                                from : Versions \cup {None}, target : Versions \cup {None},
                                force : BOOLEAN, restart : BOOLEAN]]
           /\ \A k \in Jobs : job'[k] = job[k] \/ job'[k] = Idle
           /\ account' \in [Accounts -> {"off", "starting", "healthy", "rolling", "ended"}]
           /\ \A a \in Accounts : account'[a] = account[a] \/ account'[a] = "ended"
BY Shapes DEF IInv, TypeOK, Finish

\* An applyUpdate call begins.
LEMMA StartUpdateFacts ==
    ASSUME UpdateAssumption, IInv, NEW j \in Jobs, NEW target \in Versions \cup {None},
           NEW force \in BOOLEAN, NEW restart \in BOOLEAN,
           StartUpdate(j, target, force, restart)
    PROVE  /\ job' \in [Jobs -> [at : {"free", "probing", "installing"},
                                from : Versions \cup {None}, target : Versions \cup {None},
                                force : BOOLEAN, restart : BOOLEAN]]
           /\ JobInv'
BY DEF IInv, TypeOK, StartUpdate, JobInv
\* A poller changes one field or two at a time.
Pollers == [at : {"off", "waiting", "asking"}, running : BOOLEAN, installed : Versions \cup {None}]

LEMMA PollerFacts ==
    ASSUME NEW p \in Pollers, NEW at \in {"off", "waiting", "asking"}, NEW running \in BOOLEAN,
           NEW installed \in Versions \cup {None}
    PROVE  /\ [p EXCEPT !.running = running, !.at = at] \in Pollers
           /\ [p EXCEPT !.at = at, !.installed = installed] \in Pollers
BY DEF Pollers

\* Each action keeps the invariant.
LEMMA ProcessSteps ==
    ASSUME UpdateAssumption, IInv, Boot \/ Crash \/ Restart PROVE IInv'
<1>1. CASE Boot
  <2>1. TypeOK'
    <3>1. trial' \in [to : Versions \cup {None}, boots : 0..MaxBoots, healthy : BOOLEAN]
      <4>1. trial.boots \in 0..MaxBoots /\ MaxBoots = 3
        BY DEF IInv, TypeOK, MaxBoots, MaxBootAttempts
      <4>2. (IF trial.boots < MaxBoots THEN trial.boots + 1 ELSE trial.boots) \in 0..MaxBoots
        BY <4>1
      <4>3. QED
        BY <1>1, <4>2, Shapes DEF IInv, TypeOK, Boot
    <3>2. QED
      BY <1>1, <3>1 DEF IInv, TypeOK, Boot, updateVars, guardVars, pollVars
  <2>2. JobInv'
    BY <1>1 DEF IInv, JobInv, Boot, updateVars
  <2>3. ProcessInv'
    BY <1>1 DEF IInv, ProcessInv, Boot, guardVars
  <2>4. MarkerInv'
    BY <1>1, Shapes DEF IInv, TypeOK, ProcessInv, MarkerInv, Boot, guardVars
  <2>5. QED
    BY <2>1, <2>2, <2>3, <2>4 DEF IInv
<1>2. CASE Crash
  <2>1. spent' \in [updates : 0..MaxUpdates, crashes : 0..MaxCrashes]
    BY <1>2 DEF IInv, TypeOK, Crash, UpdateAssumption
  <2>2. QED
    BY <1>2, <2>1, EndsInv DEF IInv, TypeOK, Crash
<1>3. CASE Restart
  <2>1. restarts' \in 0..MaxRestarts
    BY <1>3 DEF IInv, TypeOK, Restart, MaxRestarts
  <2>2. QED
    BY <1>3, <2>1, EndsInv DEF IInv, TypeOK, Restart
<1>4. QED
  BY <1>1, <1>2, <1>3

LEMMA RequestSteps ==
    ASSUME UpdateAssumption, IInv, NEW j \in {"command", "cli"}, RequestUpdate(j) PROVE IInv'
<1>1. PICK target \in Versions \cup {None}, force \in BOOLEAN, restart \in BOOLEAN :
          StartUpdate(j, target, force, restart)
  BY DEF RequestUpdate
<1>2. j \in Jobs
  BY DEF Jobs
<1>3. /\ job' \in [Jobs -> [at : {"free", "probing", "installing"},
                           from : Versions \cup {None}, target : Versions \cup {None},
                           force : BOOLEAN, restart : BOOLEAN]]
      /\ JobInv'
  BY <1>1, <1>2, StartUpdateFacts
<1>4. spent' \in [updates : 0..MaxUpdates, crashes : 0..MaxCrashes]
  BY DEF IInv, TypeOK, RequestUpdate, UpdateAssumption
<1>5. TypeOK' /\ ProcessInv' /\ MarkerInv'
  BY <1>3, <1>4 DEF RequestUpdate, guardVars, pollVars, IInv, TypeOK, ProcessInv, MarkerInv
<1>6. QED
  BY <1>3, <1>5 DEF IInv

\* An applyUpdate call that has probed keeps the version it came from.
JobRecords == [at : {"free", "probing", "installing"}, from : Versions \cup {None},
               target : Versions \cup {None}, force : BOOLEAN, restart : BOOLEAN]

LEMMA JobFacts ==
    ASSUME NEW r \in JobRecords, NEW target \in Versions
    PROVE  LET q == [r EXCEPT !.at = "installing", !.target = target, !.force = FALSE]
           IN q \in JobRecords /\ q.from = r.from /\ q.target = target
BY DEF JobRecords

LEMMA ProbedStep ==
    ASSUME UpdateAssumption, IInv, NEW j \in Jobs, Probed(j) PROVE IInv'
<1> DEFINE Free == Finish(j)
           Goes(target) == /\ target # None
                           /\ job' = [job EXCEPT ![j].at = "installing", ![j].target = target,
                                                 ![j].force = FALSE]
                           /\ UNCHANGED account
<1>1. \/ Free
      \/ \E target \in Versions \cup {None} : Goes(target)
  BY DEF Probed, IInv, TypeOK
<1>2. CASE Free
  <2>1. TypeOK' /\ JobInv'
    BY <1>2, FinishFacts, Shapes DEF Probed, pollVars, IInv, TypeOK, JobInv
  <2>2. ProcessInv' /\ MarkerInv'
    BY <1>2, FinishFacts DEF Probed, IInv, ProcessInv, MarkerInv
  <2>3. QED
    BY <2>1, <2>2 DEF IInv
<1>3. ASSUME NEW target \in Versions \cup {None}, Goes(target) PROVE IInv'
  <2>1. job[j].at = "probing" /\ job[j].from \in Versions
    BY DEF Probed, IInv, JobInv
  <2>2. job \in [Jobs -> JobRecords] /\ job[j] \in JobRecords /\ target \in Versions
    BY <1>3 DEF IInv, TypeOK, JobRecords
  <2>3. job' = [job EXCEPT ![j] = [job[j] EXCEPT !.at = "installing", !.target = target,
                                                 !.force = FALSE]]
    BY <1>3, <2>2
  <2>4. job' \in [Jobs -> JobRecords]
    BY <2>2, <2>3, JobFacts
  <2>5. \A k \in Jobs \ {j} : job'[k] = job[k]
    BY <2>2, <2>3
  <2>6. job'[j].from = job[j].from /\ job'[j].target = target
    BY <2>2, <2>3, JobFacts
  <2>7. JobInv'
    BY <2>1, <2>2, <2>5, <2>6 DEF IInv, JobInv
  <2>8. TypeOK' /\ ProcessInv' /\ MarkerInv'
    BY <1>3, <2>4 DEF Probed, pollVars, JobRecords, IInv, TypeOK, ProcessInv, MarkerInv
  <2>9. QED
    BY <2>7, <2>8 DEF IInv
<1>4. QED
  BY <1>1, <1>2, <1>3

LEMMA InstalledStep ==
    ASSUME UpdateAssumption, IInv, NEW j \in Jobs, Installed(j) PROVE IInv'
<1>1. Finish(j) /\ disk' \in Versions /\ job[j].from \in Versions /\ job[j].target \in Versions
  BY DEF Installed, IInv, TypeOK, JobInv
<1>2. JobInv' /\ ProcessInv'
  BY <1>1, FinishFacts, Shapes DEF Installed, IInv, JobInv, ProcessInv
<1>3. \/ UNCHANGED <<marker, restarts, trial>>
      \/ /\ restarts < MaxRestarts /\ restarts' = restarts + 1
         /\ marker' = NewMarker(job[j].from, job[j].target)
         /\ trial' = [NoTrial EXCEPT !.to = job[j].target]
      \/ marker' = None /\ UNCHANGED <<restarts, trial>>
  BY DEF Installed
<1>4. CASE UNCHANGED <<marker, restarts, trial>> \/ (marker' = None /\ UNCHANGED <<restarts, trial>>)
  <2>1. TypeOK'
    BY <1>1, <1>4, FinishFacts DEF Installed, pollVars, IInv, TypeOK
  <2>2. MarkerInv'
    BY <1>1, <1>4, FinishFacts DEF Installed, IInv, MarkerInv
  <2>3. QED
    BY <1>2, <2>1, <2>2 DEF IInv
<1>5. CASE /\ restarts < MaxRestarts /\ restarts' = restarts + 1
           /\ marker' = NewMarker(job[j].from, job[j].target)
           /\ trial' = [NoTrial EXCEPT !.to = job[j].target]
  <2>1. NewMarker(job[j].from, job[j].target) \in Markers
    BY <1>1 DEF NewMarker, Markers, MaxBootAttempts
  <2>2. restarts' \in 0..MaxRestarts
    BY <1>5 DEF IInv, TypeOK, MaxRestarts
  <2>3. trial' = [to |-> job[j].target, boots |-> 0, healthy |-> FALSE]
    BY <1>5 DEF NoTrial
  <2>4. trial' \in [to : Versions \cup {None}, boots : 0..MaxBoots, healthy : BOOLEAN]
    BY <1>1, <2>3 DEF MaxBoots, MaxBootAttempts
  <2>5. TypeOK'
    BY <1>1, <1>5, <2>1, <2>2, <2>4, FinishFacts DEF Installed, pollVars, IInv, TypeOK
  <2>6. MarkerInv'
    BY <2>3 DEF MarkerInv
  <2>7. QED
    BY <1>2, <2>5, <2>6 DEF IInv
<1>6. QED
  BY <1>3, <1>4, <1>5

LEMMA InstallFailedStep ==
    ASSUME UpdateAssumption, IInv, NEW j \in Jobs, InstallFailed(j) PROVE IInv'
<1>1. Finish(j)
  BY DEF InstallFailed
<1>2. TypeOK' /\ JobInv'
  BY <1>1, FinishFacts, Shapes DEF InstallFailed, pollVars, IInv, TypeOK, JobInv
<1>3. ProcessInv' /\ MarkerInv'
  BY <1>1, FinishFacts DEF InstallFailed, IInv, ProcessInv, MarkerInv
<1>4. QED
  BY <1>2, <1>3 DEF IInv
LEMMA StartStep ==
    ASSUME UpdateAssumption, IInv, NEW a \in Accounts, StartAccount(a) PROVE IInv'
<1>1. a \in Jobs /\ code # None /\ code' = code /\ account[a] = "off"
      /\ disk' = disk /\ restarts' = restarts /\ trial' = trial /\ Reconcile(a)
  BY DEF StartAccount, Jobs
<1>2. CASE marker = None \/ marker.to # disk
  <2>1. /\ marker' = None /\ guard' = [guard EXCEPT ![a] = FALSE] /\ job' = job
        /\ account' = [account EXCEPT ![a] = "starting"]
    BY <1>1, <1>2 DEF Reconcile
  <2>2. TypeOK' /\ JobInv' /\ ProcessInv' /\ MarkerInv'
    BY <1>1, <2>1 DEF StartAccount, pollVars, IInv, TypeOK, JobInv, ProcessInv, MarkerInv
  <2>3. QED
    BY <2>2 DEF IInv
<1>3. CASE ~(marker = None \/ marker.to # disk) /\ marker.attempts + 1 > MaxBootAttempts
  <2>1. /\ marker' = None /\ guard' = [guard EXCEPT ![a] = FALSE]
        /\ account' = [account EXCEPT ![a] = "rolling"]
        /\ StartUpdate(a, marker.from, TRUE, TRUE) /\ marker.from \in Versions
    BY <1>1, <1>3 DEF Reconcile, IInv, TypeOK, Markers
  <2>2. /\ job' \in [Jobs -> [at : {"free", "probing", "installing"},
                             from : Versions \cup {None}, target : Versions \cup {None},
                             force : BOOLEAN, restart : BOOLEAN]]
        /\ JobInv'
    BY <1>1, <2>1, StartUpdateFacts
  <2>3. TypeOK' /\ ProcessInv' /\ MarkerInv'
    BY <1>1, <2>1, <2>2 DEF StartAccount, pollVars, IInv, TypeOK, ProcessInv, MarkerInv
  <2>4. QED
    BY <2>2, <2>3 DEF IInv
<1>4. CASE ~(marker = None \/ marker.to # disk) /\ ~(marker.attempts + 1 > MaxBootAttempts)
  <2>1. /\ marker' = [marker EXCEPT !.attempts = @ + 1] /\ guard' = [guard EXCEPT ![a] = TRUE]
        /\ account' = [account EXCEPT ![a] = "starting"] /\ job' = job
    BY <1>1, <1>4 DEF Reconcile
  <2>2. marker \in Markers /\ marker.attempts + 1 \in 0..MaxBootAttempts
    BY <1>4 DEF IInv, TypeOK, Markers, MaxBootAttempts
  <2>3. marker' \in Markers
    BY <2>1, <2>2 DEF Markers
  <2>4. TypeOK' /\ JobInv' /\ ProcessInv'
    BY <1>1, <2>1, <2>3 DEF StartAccount, pollVars, IInv, TypeOK, JobInv, ProcessInv
  <2>5. MarkerInv'
    BY <1>1, <1>4, <2>1 DEF IInv, TypeOK, MarkerInv
  <2>6. QED
    BY <2>4, <2>5 DEF IInv
<1>5. QED
  BY <1>2, <1>3, <1>4

LEMMA ConfirmSteps ==
    ASSUME UpdateAssumption, IInv, NEW a \in Accounts, Connected(a) \/ ConnectedAgain(a)
    PROVE  IInv'
<1>1. /\ account[a] \in {"starting", "healthy"} /\ code # None /\ ConfirmHealthy(a)
      /\ trial' = [trial EXCEPT !.healthy = @ \/ trial.boots > 0]
      /\ UNCHANGED <<updateVars, code, guard, installer, inFlight, spent>>
  <2>1. CASE Connected(a)
    BY <2>1 DEF Connected, IInv, ProcessInv
  <2>2. CASE ConnectedAgain(a)
    BY <2>2 DEF ConnectedAgain, pollVars, IInv, ProcessInv
  <2>3. QED
    BY <2>1, <2>2
<1>8. /\ account' \in [Accounts -> {"off", "starting", "healthy", "rolling", "ended"}]
      /\ \A b \in Accounts : account'[b] = account[b] \/ (b = a /\ account'[b] = "healthy")
  BY DEF Connected, ConnectedAgain, IInv, TypeOK
<1>2. marker' \in Markers \cup {None} /\ (marker' = None \/ marker' = marker)
  BY <1>1 DEF ConfirmHealthy, IInv, TypeOK
<1>3. poller' \in [Accounts -> Pollers]
  <2>1. poller \in [Accounts -> Pollers] /\ poller[a] \in Pollers
    BY DEF IInv, TypeOK, Pollers
  <2>2. CASE Connected(a)
    <3> DEFINE at == IF poller[a].at = "off" THEN "waiting" ELSE poller[a].at
    <3>1. poller' = [poller EXCEPT ![a] = [poller[a] EXCEPT !.running = TRUE, !.at = at]]
      BY <2>1, <2>2 DEF Connected
    <3>2. at \in {"off", "waiting", "asking"}
      BY <2>1 DEF Pollers
    <3>3. [poller[a] EXCEPT !.running = TRUE, !.at = at] \in Pollers
      <4> HIDE DEF at
      <4> QED
        BY <2>1, <3>2, PollerFacts
    <3>4. QED
      BY <2>1, <3>1, <3>3
  <2>3. CASE ConnectedAgain(a)
    BY <2>1, <2>3 DEF ConnectedAgain, pollVars
  <2>4. QED
    BY <2>2, <2>3
<1>4. trial' \in [to : Versions \cup {None}, boots : 0..MaxBoots, healthy : BOOLEAN]
  BY <1>1 DEF IInv, TypeOK
<1>5. TypeOK' /\ JobInv' /\ ProcessInv'
  BY <1>1, <1>8, <1>2, <1>3, <1>4 DEF updateVars, IInv, TypeOK, JobInv, ProcessInv, Pollers
<1>6. MarkerInv'
  <2>1. trial.boots > 0 => marker' = None
    BY <1>1 DEF ConfirmHealthy, IInv, MarkerInv
  <2>2. trial.healthy => marker' = None
    BY <1>2 DEF IInv, MarkerInv
  <2>3. trial'.healthy = (trial.healthy \/ trial.boots > 0) /\ trial'.boots = trial.boots
    BY <1>1 DEF IInv, TypeOK
  <2>4. \A b \in Accounts : marker' # None /\ trial'.boots > 0 => FALSE
    BY <2>1, <2>3
  <2>5. QED
    BY <2>1, <2>2, <2>3, <2>4 DEF MarkerInv
<1>7. QED
  BY <1>5, <1>6 DEF IInv

LEMMA StopSteps ==
    ASSUME UpdateAssumption, IInv, NEW a \in Accounts, StopAccount(a) \/ StartAgain(a)
    PROVE  IInv'
<1>1. CASE StopAccount(a)
  <2>1. poller' \in [Accounts -> [at : {"off", "waiting", "asking"}, running : BOOLEAN,
                                 installed : Versions \cup {None}]]
    <3> DEFINE at == IF poller[a].at = "waiting" THEN "off" ELSE poller[a].at
    <3>1. poller \in [Accounts -> Pollers] /\ poller[a] \in Pollers
      BY DEF IInv, TypeOK, Pollers
    <3>2. poller' = [poller EXCEPT ![a] = [poller[a] EXCEPT !.running = FALSE, !.at = at]]
      BY <1>1, <3>1 DEF StopAccount
    <3>3. at \in {"off", "waiting", "asking"}
      BY <3>1 DEF Pollers
    <3>4. [poller[a] EXCEPT !.running = FALSE, !.at = at] \in Pollers
      <4> HIDE DEF at
      <4> QED
        BY <3>1, <3>3, PollerFacts
    <3>5. QED
      BY <3>1, <3>2, <3>4 DEF Pollers
  <2>2. TypeOK' /\ JobInv' /\ ProcessInv' /\ MarkerInv'
    BY <1>1, <2>1 DEF StopAccount, updateVars, IInv, TypeOK, JobInv, ProcessInv, MarkerInv
  <2>3. QED
    BY <2>2 DEF IInv
<1>2. CASE StartAgain(a)
  BY <1>2 DEF StartAgain, updateVars, pollVars, IInv, TypeOK, JobInv, ProcessInv, MarkerInv
<1>3. QED
  BY <1>1, <1>2

LEMMA PollSteps ==
    ASSUME UpdateAssumption, IInv, NEW a \in Accounts,
           TickAsks(a) \/ TickLaunches(a) \/ TickPutOff(a)
    PROVE  IInv'
<1>1. poller' \in [Accounts -> Pollers]
  <2>1. poller \in [Accounts -> Pollers] /\ poller[a] \in Pollers
    BY DEF IInv, TypeOK, Pollers
  <2>2. CASE TickAsks(a)
    <3>1. poller' = [poller EXCEPT ![a] = [poller[a] EXCEPT !.at = "asking", !.installed = disk]]
      BY <2>1, <2>2 DEF TickAsks
    <3>2. disk \in Versions \cup {None}
      BY DEF IInv, TypeOK
    <3>3. QED
      BY <2>1, <3>1, <3>2, PollerFacts
  <2>3. CASE TickLaunches(a)
    BY <2>1, <2>3, Shapes DEF TickLaunches, Pollers
  <2>4. CASE TickPutOff(a)
    <3> DEFINE at == IF poller[a].running THEN "waiting" ELSE "off"
    <3>1. poller' = [poller EXCEPT ![a] = [poller[a] EXCEPT !.at = at, !.installed = None]]
      BY <2>1, <2>4 DEF TickPutOff, Schedule
    <3>2. [poller[a] EXCEPT !.at = at, !.installed = None] \in Pollers
      <4>1. at \in {"off", "waiting", "asking"}
        OBVIOUS
      <4> HIDE DEF at
      <4>2. QED
        BY <2>1, <4>1, PollerFacts
    <3>3. QED
      BY <2>1, <3>1, <3>2
  <2>5. QED
    BY <2>2, <2>3, <2>4
<1>2. installer' \in [Accounts -> {None, "install", "restart", "failed"}]
  BY DEF TickAsks, TickLaunches, TickPutOff, IInv, TypeOK
<1>3. UNCHANGED <<updateVars, code, guardVars, inFlight, spent, trial>>
  BY DEF TickAsks, TickLaunches, TickPutOff
<1>4. QED
  BY <1>1, <1>2, <1>3
     DEF Pollers, updateVars, guardVars, IInv, TypeOK, JobInv, ProcessInv, MarkerInv

LEMMA InstallerSteps ==
    ASSUME UpdateAssumption, IInv, NEW a \in Accounts,
           InstallerInstalls(a) \/ InstallerRestarts(a) \/ InstallerFails(a)
    PROVE  IInv'
<1>1. installer' \in [Accounts -> {None, "install", "restart", "failed"}]
  BY DEF InstallerInstalls, InstallerRestarts, InstallerFails, IInv, TypeOK
<1>2. CASE InstallerInstalls(a)
  BY <1>1, <1>2 DEF InstallerInstalls, guardVars, UpdateAssumption,
     IInv, TypeOK, JobInv, ProcessInv, MarkerInv
<1>3. CASE InstallerRestarts(a)
  BY <1>1, <1>3, EndsInv DEF InstallerRestarts, IInv, TypeOK
<1>4. CASE InstallerFails(a)
  BY <1>1, <1>4 DEF InstallerFails, updateVars, guardVars,
     IInv, TypeOK, JobInv, ProcessInv, MarkerInv
<1>5. QED
  BY <1>2, <1>3, <1>4

LEMMA TurnSteps ==
    ASSUME UpdateAssumption, IInv, NEW t \in Turns, beginAgentTurn(t) \/ endAgentTurn(t)
    PROVE  IInv'
BY DEF beginAgentTurn, endAgentTurn, updateVars, guardVars, pollVars,
       IInv, TypeOK, JobInv, ProcessInv, MarkerInv

LEMMA NextInv == ASSUME UpdateAssumption, IInv, [Next]_vars PROVE IInv'
<1>1. CASE UNCHANGED vars
  BY <1>1 DEF vars, IInv, TypeOK, JobInv, ProcessInv, MarkerInv
<1>2. CASE Next
  BY <1>2, ProcessSteps, ProbedStep, InstalledStep, InstallFailedStep, RequestSteps, StartStep,
     ConfirmSteps, StopSteps, PollSteps, InstallerSteps, TurnSteps
     DEF Next, UpdateCommand, UpdateFromCli
<1>3. QED
  BY <1>1, <1>2

THEOREM Invariance == Spec => []IInv
<1>1. UpdateAssumption
  BY UpdateAssumption
<1>2. QED
  BY <1>1, InitInv, NextInv, PTL DEF Spec

\* The types of SelfUpdate, for every set of accounts and versions; with them, that a
\* marker never counts more than MAX_BOOT_ATTEMPTS attempts.
THEOREM TypeCorrect == Spec => []TypeOK
<1>1. IInv => TypeOK
  BY DEF IInv
<1>2. QED
  BY <1>1, Invariance, PTL

\* A rollback is decided by an account that starts and finds the attempts used up.
LEMMA Decides ==
    ASSUME UpdateAssumption, IInv, [Next]_vars, RollbackDecided
    PROVE  \E a \in Accounts : /\ StartAccount(a) /\ account[a] = "off" /\ code # None
                              /\ marker # None /\ marker.attempts + 1 > MaxBootAttempts
<1>1. PICK a \in Accounts : account[a] # "rolling" /\ account'[a] = "rolling"
  BY DEF RollbackDecided
<1>2. ~UNCHANGED account
  BY <1>1
<1>3. ASSUME NEW j \in Jobs, Finish(j) PROVE FALSE
  BY <1>1, <1>3, FinishFacts
<1>4. ~ProcessEnds
  BY <1>1, ProcessEndsFacts
<1>5. \A b \in Accounts : account' # [account EXCEPT ![b] = "healthy"]
                        /\ account' # [account EXCEPT ![b] = "ended"]
                        /\ account' # [account EXCEPT ![b] = "off"]
  BY <1>1 DEF IInv, TypeOK
<1>6. PICK b \in Accounts : StartAccount(b)
  BY <1>2, <1>3, <1>4, <1>5
     DEF Next, vars, guardVars, Boot, Crash, Restart, Probed, Installed, InstallFailed,
         UpdateCommand, UpdateFromCli, RequestUpdate, Connected, ConnectedAgain, StopAccount,
         StartAgain, TickAsks, TickLaunches, TickPutOff, InstallerInstalls, InstallerRestarts,
         InstallerFails, beginAgentTurn, endAgentTurn
<1>7. marker # None /\ marker.attempts + 1 > MaxBootAttempts
  BY <1>1, <1>6 DEF StartAccount, Reconcile, IInv, TypeOK
<1>8. QED
  BY <1>6, <1>7 DEF StartAccount

\* reconcileUpdateMarker: a version that has synced since its boot is not rolled back,
\* with any number of accounts, updates, crashes and restarts.
THEOREM HealthyStays == Spec => RollbackOnlyUnconfirmed
<1>1. ASSUME IInv, [Next]_vars, RollbackDecided PROVE ~trial.healthy
  <2>1. marker # None
    BY <1>1, Decides, UpdateAssumption
  <2>2. QED
    BY <1>1, <2>1 DEF IInv, MarkerInv
<1>2. QED
  BY <1>1, Invariance, PTL DEF Spec, RollbackOnlyUnconfirmed

-----------------------------------------------------------------------------
(* The attempts of a version, if one account counts them, once in a process. *)

Single == (\A a, b \in Accounts : a = b) /\ "restart_account" \notin Faults

\* A marker counts no more attempts than there were boots while the process has yet to
\* start the account, and at most one more once it has, or is gone.
Yet == \E a \in Accounts : code # None /\ account[a] = "off"
AttemptsInv ==
    marker # None => IF Yet THEN marker.attempts =< trial.boots
                            ELSE marker.attempts =< trial.boots + 1

\* Steps that neither let an account start nor count an attempt.
LEMMA AttemptsKept ==
    ASSUME AttemptsInv, UpdateAssumption, TypeOK, Yet' => Yet,
           marker' \in {marker, None}, trial'.boots = trial.boots
    PROVE  AttemptsInv'
BY DEF AttemptsInv, TypeOK, Markers, MaxBoots, MaxBootAttempts

LEMMA AttemptsBoot ==
    ASSUME UpdateAssumption, TypeOK, AttemptsInv, Boot PROVE AttemptsInv'
<1>1. CASE marker = None
  BY <1>1 DEF Boot, guardVars, AttemptsInv
<1>2. CASE marker # None
  <2>1. /\ marker' = marker /\ code = None
        /\ trial' = [trial EXCEPT !.boots = IF @ < MaxBoots THEN @ + 1 ELSE @]
    BY <1>2 DEF Boot, guardVars
  <2>2. trial.boots \in 0..3 /\ MaxBoots = 3 /\ marker.attempts \in 0..2
    BY <1>2 DEF TypeOK, Markers, MaxBoots, MaxBootAttempts
  <2>3. trial'.boots = IF trial.boots < 3 THEN trial.boots + 1 ELSE trial.boots
    BY <2>1, <2>2 DEF TypeOK
  <2>4. ~Yet
    BY <2>1 DEF Yet
  <2>5. marker.attempts =< trial.boots + 1
    BY <1>2, <2>4 DEF AttemptsInv
  <2>6. marker'.attempts =< trial'.boots
    BY <2>1, <2>2, <2>3, <2>5
  <2>7. QED
    BY <2>1, <2>2, <2>3, <2>6 DEF AttemptsInv
<1>3. QED
  BY <1>1, <1>2

LEMMA AttemptsStart ==
    ASSUME UpdateAssumption, Single, TypeOK, AttemptsInv, NEW a \in Accounts, StartAccount(a)
    PROVE  AttemptsInv'
<1>1. code # None /\ account[a] = "off" /\ Reconcile(a) /\ trial' = trial
  BY DEF StartAccount
<1>2. Yet
  BY <1>1 DEF Yet
<1>3. ~Yet'
  <2>1. account'[a] # "off"
    BY <1>1 DEF Reconcile, TypeOK
  <2>2. QED
    BY <2>1 DEF Yet, Single
<1>4. CASE marker' = None
  BY <1>4 DEF AttemptsInv
<1>5. CASE marker' # None
  <2>1. marker # None /\ marker' = [marker EXCEPT !.attempts = @ + 1]
    BY <1>1, <1>5 DEF Reconcile
  <2>2. marker'.attempts = marker.attempts + 1 /\ marker.attempts \in Nat
    BY <2>1 DEF TypeOK, Markers, MaxBootAttempts
  <2>3. marker.attempts =< trial.boots /\ trial.boots \in Nat
    BY <1>2, <2>1 DEF AttemptsInv, TypeOK, MaxBoots, MaxBootAttempts
  <2>4. marker'.attempts =< trial'.boots + 1
    BY <1>1, <2>2, <2>3
  <2>5. QED
    BY <1>3, <2>4 DEF AttemptsInv
<1>6. QED
  BY <1>4, <1>5

LEMMA AttemptsInstalled ==
    ASSUME UpdateAssumption, IInv, AttemptsInv, NEW j \in Jobs, Installed(j) PROVE AttemptsInv'
<1>1. Finish(j) /\ code' = code
  BY DEF Installed
<1>2. Yet' => Yet
  BY <1>1, FinishFacts DEF Yet
<1>3. \/ marker' \in {marker, None} /\ trial' = trial
      \/ marker' = NewMarker(job[j].from, job[j].target) /\ trial' = [NoTrial EXCEPT !.to = job[j].target]
  BY DEF Installed
<1>4. CASE marker' \in {marker, None} /\ trial' = trial
  BY <1>2, <1>4, AttemptsKept DEF IInv
<1>5. CASE /\ marker' = NewMarker(job[j].from, job[j].target)
           /\ trial' = [NoTrial EXCEPT !.to = job[j].target]
  <2>1. marker'.attempts = 0 /\ trial'.boots = 0
    BY <1>5 DEF NewMarker, NoTrial
  <2>2. QED
    BY <2>1 DEF AttemptsInv
<1>6. QED
  BY <1>3, <1>4, <1>5

LEMMA AttemptsEnds ==
    ASSUME UpdateAssumption, IInv, AttemptsInv, UNCHANGED <<marker, trial>>,
           ProcessEnds \/ (code = None /\ UNCHANGED <<code, account, guard, job, poller, inFlight>>)
    PROVE  AttemptsInv'
<1>1. ~Yet'
  BY ProcessEndsFacts DEF Yet
<1>2. QED
  BY <1>1, AttemptsKept DEF IInv

LEMMA AttemptsConfirm ==
    ASSUME UpdateAssumption, TypeOK, AttemptsInv, NEW a \in Accounts,
           Connected(a) \/ ConnectedAgain(a)
    PROVE  AttemptsInv'
<1>1. marker' \in {marker, None} /\ code' = code
      /\ trial' = [trial EXCEPT !.healthy = @ \/ trial.boots > 0]
  BY DEF Connected, ConnectedAgain, ConfirmHealthy
<1>2. trial'.boots = trial.boots
  BY <1>1 DEF TypeOK
<1>3. Yet' => Yet
  BY <1>1 DEF Connected, ConnectedAgain, Yet, TypeOK
<1>4. QED
  BY <1>1, <1>2, <1>3, AttemptsKept

LEMMA AttemptsNext ==
    ASSUME UpdateAssumption, Single, IInv, AttemptsInv, [Next]_vars PROVE AttemptsInv'
<1>1. ASSUME UNCHANGED <<code, account, marker, trial>> PROVE AttemptsInv'
  BY <1>1 DEF AttemptsInv, Yet
<1>2. CASE UNCHANGED vars
  BY <1>1, <1>2 DEF vars
<1>3. CASE Crash \/ Restart
  BY <1>3, AttemptsEnds DEF Crash, Restart
<1>4. ASSUME NEW j \in Jobs, Probed(j) \/ InstallFailed(j) PROVE AttemptsInv'
  <2>1. UNCHANGED <<code, marker, trial>> /\ (Finish(j) \/ UNCHANGED account)
    BY <1>4 DEF Probed, InstallFailed
  <2>2. Yet' => Yet
    BY <2>1, FinishFacts DEF Yet
  <2>3. QED
    BY <2>1, <2>2, AttemptsKept DEF IInv
<1>5. CASE UpdateCommand \/ UpdateFromCli
  BY <1>1, <1>5 DEF UpdateCommand, UpdateFromCli, RequestUpdate, guardVars
<1>6. ASSUME NEW a \in Accounts,
             \/ TickAsks(a) \/ TickLaunches(a) \/ TickPutOff(a)
             \/ InstallerInstalls(a) \/ InstallerFails(a)
      PROVE  AttemptsInv'
  BY <1>1, <1>6 DEF TickAsks, TickLaunches, TickPutOff, InstallerInstalls, InstallerFails, guardVars
<1>7. ASSUME NEW a \in Accounts, InstallerRestarts(a) PROVE AttemptsInv'
  BY <1>7, AttemptsEnds DEF InstallerRestarts
<1>8. ASSUME NEW a \in Accounts, StopAccount(a) \/ StartAgain(a) PROVE FALSE
  BY <1>8 DEF StopAccount, StartAgain, Single
<1>9. ASSUME NEW t \in Turns, beginAgentTurn(t) \/ endAgentTurn(t) PROVE AttemptsInv'
  BY <1>1, <1>9 DEF beginAgentTurn, endAgentTurn, guardVars
<1>10. QED
  BY <1>2, <1>3, <1>4, <1>5, <1>6, <1>7, <1>8, <1>9, AttemptsBoot, AttemptsStart,
     AttemptsInstalled, AttemptsConfirm DEF Next, IInv

\* MAX_BOOT_ATTEMPTS (boot-guard.ts): with one account, started once in each process, a
\* version is not given up before its MAX_BOOT_ATTEMPTS-th boot.  Several accounts use up
\* the attempts in fewer.
THEOREM AttemptsAreBoots == Single => (Spec => RollbackAfterAttempts)
<1> SUFFICES ASSUME Single PROVE Spec => RollbackAfterAttempts
  OBVIOUS
<1>1. Init => AttemptsInv
  BY DEF Init, AttemptsInv
<1>2. IInv /\ AttemptsInv /\ [Next]_vars => AttemptsInv'
  BY AttemptsNext, UpdateAssumption
<1>3. ASSUME IInv, AttemptsInv, [Next]_vars, RollbackDecided
      PROVE  trial.boots >= MaxBootAttempts
  <2>1. Yet /\ marker # None /\ marker.attempts + 1 > MaxBootAttempts
    BY <1>3, Decides, UpdateAssumption DEF Yet
  <2>2. marker.attempts =< trial.boots
    BY <1>3, <2>1 DEF AttemptsInv
  <2>3. marker.attempts \in Nat /\ trial.boots \in Nat
    BY <1>3, <2>1 DEF IInv, TypeOK, Markers, MaxBoots, MaxBootAttempts
  <2>4. QED
    BY <2>1, <2>2, <2>3 DEF MaxBootAttempts
<1>4. QED
  BY <1>1, <1>2, <1>3, Invariance, PTL DEF Spec, RollbackAfterAttempts

=============================================================================
