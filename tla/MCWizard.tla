------------------------------ MODULE MCWizard ------------------------------
(* Wizard on small instances. *)
EXTENDS Wizard

MCFaults == Mishaps
=============================================================================
