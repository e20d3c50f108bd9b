-------------------------- MODULE MCGatewaySocket --------------------------
(* GatewaySocket on small instances. *)
EXTENDS GatewaySocket

CONSTANTS s1, s2, s3, r1, r2

MCSockets == {s1, s2, s3}
MCRequests == {r1, r2}
=============================================================================
