------------------------- MODULE MCAccountLifecycle -------------------------
(* AccountLifecycle on a small instance: events do not affect one another, so one *)
(* event is enough.                                                               *)
EXTENDS AccountLifecycle

CONSTANT message

MCEvents == {message}
MCFaults == Mishaps
MCSync == {"sync"}
=============================================================================
