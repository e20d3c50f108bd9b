---------------------------- MODULE MCSelfUpdate ----------------------------
(* SelfUpdate on small instances. *)
EXTENDS SelfUpdate

CONSTANTS a, b, t

MCOneAccount == {a}
MCAccounts == {a, b}
MCTurns == {t}

\* The second version never comes up.
MCVersions == {1, 2}
MCBad == {2}

MCFaults == Mishaps
\* An account is started once in a process.
MCOnceStarted == Mishaps \ {"restart_account"}
MCInstall == {"install"}
MCResync == {"resync"}
MCNone == {}
=============================================================================
