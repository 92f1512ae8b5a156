-------------------------- MODULE MCGatewayAccess --------------------------
(* Two concurrent requests; agents' clocks at both ends of what is tolerated *)
EXTENDS GatewayAccess

MCOffsets == {-1, 1, 2}
=============================================================================
