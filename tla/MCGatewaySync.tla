--------------------------- MODULE MCGatewaySync ---------------------------
(* GatewaySync on small instances. *)
EXTENDS GatewaySync

\* sync_reset frames that name the room cursor, or both cursors.
MCResets == {{"pos"}, {"pos", "to_device_pos"}}
MCNoResets == {}

\* A flush fails and tells the transport, or nobody; the cursor file is not written.
MCFaults == {"flush_throws", "flush_swallowed", "cursor_lost"}
\* persistIdbToDisk as client.ts wires it: a failed snapshot is only logged.
MCSwallowed == {"flush_swallowed"}
MCNoFaults == {}

\* Every position of the to-device stream is a key for this device, or not the last.
MCDense == 1..StreamEnd
MCSparse == 1..StreamEnd - 1
=============================================================================
