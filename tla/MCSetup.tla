------------------------------ MODULE MCSetup ------------------------------
(* Setup on small instances. *)
EXTENDS Setup

\* The bot never loses its space, and tasks do not overlap.
MCFaults == {"request", "control"}
MCNone == {}
=============================================================================
