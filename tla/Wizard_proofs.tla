--------------------------- MODULE Wizard_proofs ---------------------------
(***************************************************************************)
(* Proofs about Wizard: its types, that there is one gateway at a time,    *)
(* and what the line that ends the wait says.                              *)
(***************************************************************************)
EXTENDS Wizard, FiniteSetTheorems, TLAPS

AtMostOne(S) == \A p, q \in S : p = q

\* As long as every probe has seen what is there, of those that were not started by hand a
\* gateway that nothing manages is gone before another is launched, and a managed one is
\* restarted by its manager alone: it and those the wizard launches exclude each other.
AliveInv ==
    /\ step = "shoot" => rounds < MaxRounds
    /\ host = "bare" => managed = {}
    /\ step = "restart" => host # "bare"
    /\ ~missed =>
          /\ AtMostOne(Alive \ Beside)
          /\ managed # {} \/ step \in {"prepare", "plan", "restart"} => fresh \subseteq managed
          /\ step \in {"kill", "shoot", "launch"} => managed = {}
          /\ step = "launch" => Alive = {}

Waiting == step \in {"wait", "pair", "done"}

\* Once the gateway is replaced, what runs is new or was started by hand, and so is what has
\* written a line since.
LineInv ==
    /\ Waiting \/ step = "failed" \/ \A p \in Processes : line[p] # "late"
    /\ Waiting /\ ~missed =>
          \A p \in Processes : p \in Alive \/ line[p] = "late" => p \in fresh \cup Beside

TInv == TypeOK /\ AliveInv

-----------------------------------------------------------------------------
LEMMA InitInv == WizardAssumption /\ Init => TInv /\ LineInv
<1> SUFFICES ASSUME WizardAssumption, Init PROVE TInv /\ LineInv
  OBVIOUS
<1>1. PICK byHand \in SUBSET {2} :
        /\ gateway = [p \in Processes |-> IF p \in managed \cup byHand
                                           THEN (IF before THEN "connected" ELSE "idle")
                                           ELSE "none"]
        /\ line = [p \in Processes |-> IF p \in managed \cup byHand /\ before THEN "stale"
                                                                             ELSE "none"]
  BY DEF Init
<1>2. {1, 2} \subseteq Processes /\ managed \subseteq {1} /\ host \in Hosts
      /\ (host = "bare" => managed = {})
  BY DEF Init, WizardAssumption, Processes
<1>3. Alive \subseteq managed \cup byHand
  BY <1>1 DEF Alive
<1>4. /\ gateway \in [Processes -> {"none", "idle", "connected"}]
      /\ line \in [Processes -> {"none", "stale"}]
  BY <1>1
<1>5. TypeOK
  <2>1. rounds \in 0..MaxRounds
    BY DEF Init, WizardAssumption
  <2>2. QED
    BY <1>2, <1>4, <2>1 DEF Init, TypeOK
<1>6. AliveInv
  <2>1. CASE host = "bare"
    <3>1. Alive \subseteq {2}
      BY <1>2, <1>3, <2>1
    <3>2. QED
      BY <1>2, <3>1 DEF Init, AliveInv, AtMostOne
  <2>2. CASE host # "bare"
    <3>1. Alive \ Beside \subseteq {1}
      BY <1>2, <2>2 DEF Beside, Alive, Init
    <3>2. QED
      BY <1>2, <3>1 DEF Init, AliveInv, AtMostOne
  <2>3. QED
    BY <2>1, <2>2
<1>7. LineInv
  BY <1>4 DEF Init, LineInv, Waiting
<1>8. QED
  BY <1>5, <1>6, <1>7 DEF TInv

\* What becomes of the gateways when one boots in the place of those in P.
LEMMA Replaced ==
    ASSUME TypeOK, NEW STATE P, NEW byHost, Replace(P, byHost)
    PROVE  /\ \E q \in Processes :
                 /\ gateway[q] = "none" /\ gateway'[q] = "booting"
                 /\ \A p \in Processes \ {q} : gateway'[p] = IF p \in P THEN "dead" ELSE gateway[p]
                 /\ fresh' = IF Prepared THEN fresh \cup {q} ELSE fresh
                 /\ managed' = IF byHost THEN managed \cup {q} ELSE managed
                 /\ Alive' = (Alive \ P) \cup {q}
           /\ line' = line
           /\ gateway' \in [Processes -> {"none", "booting", "idle", "connected", "dead"}]
<1>1. PICK q \in Processes :
         /\ gateway[q] = "none"
         /\ gateway' = [p \in Processes |-> IF p = q THEN "booting"
                                            ELSE IF p \in P THEN "dead" ELSE gateway[p]]
         /\ fresh' = IF Prepared THEN fresh \cup {q} ELSE fresh
         /\ managed' = IF byHost THEN managed \cup {q} ELSE managed
  BY DEF Replace
<1>2. /\ gateway'[q] = "booting"
      /\ \A p \in Processes \ {q} : gateway'[p] = IF p \in P THEN "dead" ELSE gateway[p]
  BY <1>1
<1>3. Alive' = (Alive \ P) \cup {q}
  BY <1>1, <1>2 DEF Alive
<1>4. gateway' \in [Processes -> {"none", "booting", "idle", "connected", "dead"}]
  BY <1>1 DEF TypeOK
<1>5. QED
  BY <1>1, <1>2, <1>3, <1>4 DEF Replace

-----------------------------------------------------------------------------
(* One gateway. *)

\* Steps that leave the gateways alone.
Quiet == \/ prepare \/ PrepareFails \/ planGatewayRestart \/ RestartFails
         \/ SeesGateway \/ SeesNoGateway \/ LaunchFails
         \/ GatewayReady \/ GivesUpWaiting \/ pair \/ PairFails

Gateways == \E p \in Processes : Connects(p) \/ SaysHelloAgain(p) \/ Dies(p)

LEMMA QuietSteps == ASSUME TInv, Quiet PROVE TInv'
<1>1. /\ UNCHANGED <<host, before, gateway, fresh, managed, line, rounds>>
      /\ step' \in {"plan", "failed", "kill", "restart", "shoot", "launch", "pair", "done"}
      /\ seen' \in BOOLEAN /\ missed' \in BOOLEAN
  BY DEF Quiet, prepare, PrepareFails, planGatewayRestart, Methods, RestartFails, SeesGateway,
     SeesNoGateway, LaunchFails, Fails, GatewayReady, GivesUpWaiting, pair, PairFails,
     hostVars, gatewayVars, TInv, TypeOK
<1>2. TypeOK'
  BY <1>1 DEF TInv, TypeOK
<1>3. Alive' = Alive /\ Beside' = Beside
  BY <1>1 DEF Alive, Beside
<1>4. /\ missed => missed'
      /\ step' = "shoot" => rounds < MaxRounds
      /\ step' = "restart" => host # "bare"
      /\ step' \in {"plan", "restart"} => step \in {"prepare", "plan"}
      /\ ~missed' /\ step' \in {"kill", "shoot", "launch"} =>
            managed = {} \/ step \in {"kill", "shoot", "launch"}
      /\ ~missed' /\ step' = "launch" => Alive = {}
  BY DEF Quiet, prepare, PrepareFails, planGatewayRestart, Methods, RestartFails,
     SeesGateway, SeesNoGateway, LaunchFails, Fails, GatewayReady, GivesUpWaiting, pair,
     PairFails, TInv, TypeOK, Hosts
<1>5. AliveInv'
  BY <1>1, <1>3, <1>4 DEF TInv, AliveInv, AtMostOne
<1>6. QED
  BY <1>2, <1>5 DEF TInv

LEMMA GatewaySteps == ASSUME TInv, Gateways PROVE TInv'
<1>1. PICK p \in Processes : Connects(p) \/ SaysHelloAgain(p) \/ Dies(p)
  BY DEF Gateways
<1>2. Now \in {"early", "late"}
  BY DEF Now
<1>3. /\ UNCHANGED <<hostVars, fresh, managed, wizardVars>>
      /\ gateway' \in [Processes -> {"none", "booting", "idle", "connected", "dead"}]
      /\ line' \in [Processes -> {"none", "stale", "early", "late"}]
  BY <1>1, <1>2 DEF Connects, SaysHelloAgain, Dies, TInv, TypeOK
<1>4. Alive' \subseteq Alive
  BY <1>1 DEF Connects, SaysHelloAgain, Dies, Alive, TInv, TypeOK
<1>5. TypeOK'
  BY <1>3 DEF hostVars, wizardVars, TInv, TypeOK
<1>6. AliveInv'
  BY <1>3, <1>4 DEF hostVars, wizardVars, Beside, TInv, AliveInv, AtMostOne
<1>7. QED
  BY <1>5, <1>6 DEF TInv

LEMMA TNext == ASSUME WizardAssumption, TInv, [Next]_vars PROVE TInv'
<1>1. CASE Quiet
  BY <1>1, QuietSteps
<1>2. CASE Gateways
  BY <1>2, GatewaySteps
<1>3. CASE ASecondPasses
  <2>1. Alive' = Alive /\ Beside' = Beside
    BY <1>3 DEF ASecondPasses, hostVars, Alive, Beside
  <2>2. QED
    BY <1>3, <2>1 DEF ASecondPasses, hostVars, wizardVars, TInv, TypeOK, AliveInv, AtMostOne
<1>4. CASE HostRespawns
  <2>1. /\ host # "bare" /\ managed # {} /\ managed \cap Alive = {} /\ Replace({}, TRUE)
        /\ UNCHANGED <<hostVars, wizardVars>>
    BY <1>4 DEF HostRespawns
  <2>2. PICK q \in Processes :
            /\ gateway[q] = "none"
            /\ managed' = managed \cup {q}
            /\ fresh' = IF Prepared THEN fresh \cup {q} ELSE fresh
            /\ Alive' = (Alive \ {}) \cup {q}
            /\ gateway' \in [Processes -> {"none", "booting", "idle", "connected", "dead"}]
            /\ line' = line
    BY <2>1, Replaced DEF TInv
  <2>3. TypeOK'
    BY <2>1, <2>2 DEF hostVars, wizardVars, TInv, TypeOK
  <2>4. ~missed => fresh \subseteq managed /\ Alive \ Beside = {}
    BY <2>1 DEF TInv, TypeOK, AliveInv, Beside, Alive
  <2>5. ~missed => /\ fresh' \subseteq managed' /\ Alive' \ Beside' \subseteq {q}
                   /\ step \notin {"kill", "shoot", "launch"}
    BY <2>1, <2>2, <2>4 DEF hostVars, TInv, AliveInv, Beside
  <2>6. AliveInv'
    BY <2>1, <2>2, <2>5 DEF hostVars, wizardVars, TInv, AliveInv, AtMostOne
  <2>7. QED
    BY <2>3, <2>6 DEF TInv
<1>5. CASE RestartByHost
  <2>1. /\ step = "restart" /\ step' = "wait" /\ Replace(managed, TRUE)
        /\ UNCHANGED <<hostVars, rounds, seen, missed>>
    BY <1>5 DEF RestartByHost
  <2>2. PICK q \in Processes :
            /\ gateway[q] = "none"
            /\ managed' = managed \cup {q}
            /\ fresh' = IF Prepared THEN fresh \cup {q} ELSE fresh
            /\ Alive' = (Alive \ managed) \cup {q}
            /\ gateway' \in [Processes -> {"none", "booting", "idle", "connected", "dead"}]
            /\ line' = line
    BY <2>1, Replaced DEF TInv
  <2>3. TypeOK'
    BY <2>1, <2>2 DEF hostVars, wizardVars, TInv, TypeOK
  <2>4. host # "bare" /\ (~missed => fresh \subseteq managed)
    BY <2>1 DEF TInv, AliveInv
  <2>5. ~missed => fresh' \subseteq managed' /\ Alive' \ Beside' \subseteq {q}
    BY <2>1, <2>2, <2>4 DEF hostVars, TInv, Beside, Alive
  <2>6. AliveInv'
    BY <2>1, <2>2, <2>4, <2>5 DEF hostVars, TInv, AliveInv, AtMostOne
  <2>7. QED
    BY <2>3, <2>6 DEF TInv
<1>6. CASE Shoots
  <2>1. /\ UNCHANGED <<hostVars, fresh, managed, line, seen, missed>>
        /\ step = "shoot" /\ step' = "kill" /\ rounds' = rounds + 1
        /\ gateway' \in [Processes -> {"none", "booting", "idle", "connected", "dead"}]
        /\ Alive' = {}
    BY <1>6 DEF Shoots, Alive, TInv, TypeOK
  <2>2. rounds' \in 0..MaxRounds
    BY <2>1 DEF TInv, TypeOK, AliveInv, WizardAssumption
  <2>3. TypeOK'
    BY <2>1, <2>2 DEF hostVars, TInv, TypeOK
  <2>4. AliveInv'
    BY <2>1 DEF hostVars, TInv, AliveInv, AtMostOne
  <2>5. QED
    BY <2>3, <2>4 DEF TInv
<1>7. CASE Launch
  <2>1. /\ step = "launch" /\ step' = "wait" /\ Replace({}, FALSE)
        /\ UNCHANGED <<hostVars, rounds, seen, missed>>
    BY <1>7 DEF Launch
  <2>2. PICK q \in Processes :
            /\ gateway' = [p \in Processes |-> IF p = q THEN "booting" ELSE gateway[p]]
            /\ fresh' = IF Prepared THEN fresh \cup {q} ELSE fresh
            /\ managed' = managed
    BY <2>1 DEF Replace
  <2>7. Alive' = Alive \cup {q}
    BY <2>2 DEF Alive
  <2>6. /\ gateway' \in [Processes -> {"none", "booting", "idle", "connected", "dead"}]
        /\ line' = line
    BY <2>1, Replaced, Zenon DEF TInv
  <2>3. TypeOK'
    BY <2>1, <2>2, <2>6 DEF hostVars, TInv, TypeOK
  <2>4. AliveInv'
    BY <2>1, <2>2, <2>7 DEF hostVars, TInv, AliveInv, AtMostOne
  <2>5. QED
    BY <2>3, <2>4 DEF TInv
<1>8. CASE UNCHANGED vars
  <2>1. Alive' = Alive /\ Beside' = Beside
    BY <1>8 DEF vars, hostVars, gatewayVars, Alive, Beside
  <2>2. QED
    BY <1>8, <2>1 DEF vars, hostVars, gatewayVars, wizardVars, TInv, TypeOK, AliveInv, AtMostOne
<1>9. QED
  BY <1>1, <1>2, <1>3, <1>4, <1>5, <1>6, <1>7, <1>8 DEF Next, WizardSteps, Quiet, Gateways

THEOREM Invariance == Spec => []TInv
<1>1. WizardAssumption
  BY WizardAssumption
<1>2. QED
  BY <1>1, InitInv, TNext, PTL DEF Spec

\* The types of Wizard, for every number of processes and of rounds.
THEOREM TypeCorrect == Spec => []TypeOK
<1>1. TInv => TypeOK
  BY DEF TInv
<1>2. QED
  BY <1>1, Invariance, PTL

\* killAllGateways and the restart by the host: two gateways are up at once only if a
\* probe missed one, the deadline was over, or one was started by hand beside the host's.
THEOREM NoOverlap == Spec => []OneGateway
<1>1. TInv => OneGateway
  <2> SUFFICES ASSUME TInv, ~missed, Alive \cap Beside = {} PROVE ~(Cardinality(Alive) > 1)
    BY DEF OneGateway
  <2>1. AtMostOne(Alive)
    BY DEF TInv, AliveInv, AtMostOne
  <2>2. CASE Alive = {}
    BY <2>2, FS_EmptySet
  <2>3. CASE Alive # {}
    <3>1. PICK p \in Alive : Alive = {p}
      BY <2>1, <2>3 DEF AtMostOne
    <3>2. Cardinality({p}) = 1
      BY FS_Singleton
    <3>3. QED
      BY <3>1, <3>2
  <2>4. QED
    BY <2>2, <2>3
<1>2. QED
  BY <1>1, Invariance, PTL

-----------------------------------------------------------------------------
(* The line that ends the wait. *)

LEMMA LineNext == ASSUME TInv, LineInv, [Next]_vars PROVE LineInv'
<1>1. CASE Quiet
  <2>1. /\ UNCHANGED <<host, gateway, fresh, managed, line>>
        /\ Waiting' => Waiting /\ (missed => missed')
        /\ Waiting \/ step = "failed" => Waiting' \/ step' = "failed"
    BY <1>1 DEF Quiet, prepare, PrepareFails, planGatewayRestart, RestartFails, SeesGateway,
       SeesNoGateway, LaunchFails, Fails, GatewayReady, GivesUpWaiting, pair, PairFails,
       hostVars, gatewayVars, Waiting
  <2>2. Alive' = Alive /\ Beside' = Beside
    BY <2>1 DEF Alive, Beside
  <2>3. QED
    BY <2>1, <2>2 DEF LineInv
<1>2. CASE Gateways
  <2>1. PICK p \in Processes : Connects(p) \/ SaysHelloAgain(p) \/ Dies(p)
    BY <1>2 DEF Gateways
  <2>2. UNCHANGED <<host, fresh, managed, step, missed>>
    BY <2>1 DEF Connects, SaysHelloAgain, Dies, hostVars, wizardVars
  <2>3. /\ p \in Alive
        /\ \A q \in Processes \ {p} : gateway'[q] = gateway[q] /\ line'[q] = line[q]
    BY <2>1 DEF Connects, SaysHelloAgain, Dies, Alive, TInv, TypeOK
  <2>4. line'[p] = "late" => line[p] = "late" \/ Waiting \/ step = "failed"
    BY <2>1 DEF Connects, SaysHelloAgain, Dies, Now, Waiting, TInv, TypeOK
  <2>5. Alive' \subseteq Alive /\ Beside' = Beside
    BY <2>2, <2>3 DEF Alive, Beside
  <2>6. Waiting' = Waiting
    BY <2>2 DEF Waiting
  <2>7. (Waiting \/ step = "failed" \/ \A q \in Processes : line[q] # "late")'
    BY <2>2, <2>3, <2>4, <2>6 DEF LineInv
  <2>8. ASSUME Waiting, ~missed, NEW q \in Processes, q \in Alive' \/ line'[q] = "late"
        PROVE  q \in fresh' \cup Beside'
    <3>1. q \in Alive \/ line[q] = "late"
      BY <2>3, <2>5, <2>8
    <3>2. QED
      BY <2>2, <2>5, <2>8, <3>1 DEF LineInv
  <2>9. QED
    BY <2>2, <2>6, <2>7, <2>8 DEF LineInv
<1>3. CASE ASecondPasses
  <2>1. step = "prepare" /\ step' = "prepare" /\ \A p \in Processes : line'[p] # "late"
    BY <1>3 DEF ASecondPasses, wizardVars, LineInv, Waiting, TInv, TypeOK
  <2>2. QED
    BY <2>1 DEF LineInv, Waiting
<1>4. CASE HostRespawns
  <2>1. UNCHANGED <<host, step, missed>>
    BY <1>4 DEF HostRespawns, hostVars, wizardVars
  <2>6. Replace({}, TRUE)
    BY <1>4 DEF HostRespawns
  <2>2. PICK q \in Processes :
            /\ gateway' = [p \in Processes |-> IF p = q THEN "booting" ELSE gateway[p]]
            /\ managed' = managed \cup {q}
            /\ fresh' = IF Prepared THEN fresh \cup {q} ELSE fresh
            /\ line' = line
    BY <2>6 DEF Replace
  <2>7. Alive' = Alive \cup {q}
    BY <2>2 DEF Alive
  <2>3. Waiting' = Waiting /\ (Waiting => Prepared)
    BY <2>1 DEF Waiting, Prepared
  <2>4. ASSUME Waiting, ~missed, NEW p \in Processes, p \in Alive' \/ line'[p] = "late"
        PROVE  p \in fresh' \cup Beside'
    <3>1. CASE p = q
      BY <2>2, <2>3, <2>4, <3>1
    <3>2. CASE p # q
      <4>1. p \in Alive \/ line[p] = "late"
        BY <2>2, <2>4, <2>7, <3>2
      <4>2. p \in fresh \cup Beside
        BY <2>4, <4>1 DEF LineInv
      <4>3. QED
        BY <2>1, <2>2, <3>2, <4>2 DEF Beside
    <3>3. QED
      BY <3>1, <3>2
  <2>5. QED
    BY <2>1, <2>2, <2>3, <2>4 DEF LineInv
<1>5. CASE RestartByHost
  <2>1. /\ step = "restart" /\ step' = "wait" /\ Replace(managed, TRUE)
        /\ UNCHANGED <<host, missed>>
    BY <1>5 DEF RestartByHost, hostVars
  <2>2. PICK q \in Processes :
            /\ gateway[q] = "none"
            /\ managed' = managed \cup {q}
            /\ fresh' = IF Prepared THEN fresh \cup {q} ELSE fresh
            /\ Alive' = (Alive \ managed) \cup {q}
            /\ gateway' \in [Processes -> {"none", "booting", "idle", "connected", "dead"}]
            /\ line' = line
    BY <2>1, Replaced DEF TInv
  <2>3. Prepared /\ Waiting' /\ host # "bare" /\ \A p \in Processes : line[p] # "late"
    BY <2>1 DEF Prepared, Waiting, LineInv, TInv, AliveInv
  <2>4. \A p \in Processes : p \in Alive' => p \in fresh' \cup Beside'
    BY <2>1, <2>2, <2>3 DEF Beside
  <2>5. QED
    BY <2>2, <2>3, <2>4 DEF LineInv
<1>6. CASE Launch
  <2>1. /\ step = "launch" /\ step' = "wait" /\ Replace({}, FALSE)
        /\ UNCHANGED <<host, missed>>
    BY <1>6 DEF Launch, hostVars
  <2>2. PICK q \in Processes :
            /\ gateway' = [p \in Processes |-> IF p = q THEN "booting" ELSE gateway[p]]
            /\ fresh' = IF Prepared THEN fresh \cup {q} ELSE fresh
            /\ line' = line
    BY <2>1 DEF Replace
  <2>3. Alive' = Alive \cup {q}
    BY <2>2 DEF Alive
  <2>4. Prepared /\ Waiting' /\ (~missed => Alive = {})
        /\ \A p \in Processes : line[p] # "late"
    BY <2>1 DEF Prepared, Waiting, LineInv, TInv, AliveInv
  <2>5. QED
    BY <2>1, <2>2, <2>3, <2>4 DEF LineInv
<1>7. CASE Shoots
  <2>1. /\ ~Waiting' /\ line' = line /\ \A p \in Processes : line[p] # "late"
    BY <1>7 DEF Shoots, Waiting, LineInv
  <2>2. QED
    BY <2>1 DEF LineInv
<1>8. CASE UNCHANGED vars
  <2>1. Alive' = Alive /\ Beside' = Beside /\ Waiting' = Waiting
    BY <1>8 DEF vars, hostVars, gatewayVars, wizardVars, Alive, Beside, Waiting
  <2>2. QED
    BY <1>8, <2>1 DEF vars, gatewayVars, wizardVars, LineInv
<1>9. QED
  BY <1>1, <1>2, <1>3, <1>4, <1>5, <1>6, <1>7, <1>8 DEF Next, WizardSteps, Quiet, Gateways

\* waitForGatewayReady: a line that ends the wait is a new gateway's, or was written by one
\* from before in the last second before the restart instant or until it was replaced,
\* unless a gateway from before was left running.
THEOREM ReadyLineIsRecent == Spec => ReadyIsRecent
<1>1. WizardAssumption
  BY WizardAssumption
<1>2. Init => LineInv
  BY <1>1, InitInv
<1>3. TInv /\ LineInv /\ [Next]_vars => LineInv'
  BY LineNext
<1>4. ASSUME LineInv, [Next]_vars, ~seen, seen'
      PROVE  \/ \E p \in fresh : line[p] = "late"
             \/ \E p \in Processes : line[p] = "early"
             \/ \E p \in Beside : line[p] = "late"
             \/ missed
  <2>1. GatewayReady
    BY <1>4 DEF Next, WizardSteps, vars, wizardVars, prepare, PrepareFails, planGatewayRestart,
       RestartByHost, RestartFails, SeesGateway, SeesNoGateway, Shoots, Launch, LaunchFails,
       Fails, GivesUpWaiting, pair, PairFails, Connects, SaysHelloAgain, Dies, ASecondPasses,
       HostRespawns
  <2>2. Waiting /\ \E p \in Processes : line[p] \in {"early", "late"}
    BY <2>1 DEF GatewayReady, runtimeLogReadySince, Waiting
  <2>3. QED
    BY <1>4, <2>2 DEF LineInv
<1>5. QED
  BY <1>2, <1>3, <1>4, Invariance, PTL DEF Spec, ReadyIsRecent
=============================================================================
