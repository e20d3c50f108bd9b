---------------------------- MODULE MCAgentTurn ----------------------------
(* AgentTurn on small instances. *)
EXTENDS AgentTurn

CONSTANTS a, x1, c1

MCTurns == {a}
MCTools == {x1}
MCCalls == {c1}

\* The runtime waits for everything.
MCWaits == {}

\* A turn without tools.
MCNoTools == {}
MCNoCalls == {}
=============================================================================
