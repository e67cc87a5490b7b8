------------------------- MODULE MCGatewayLifecycle -------------------------
(* A small instance of GatewayLifecycle: two provisions that race, and      *)
(* turns that write to the profile and to a slot of the agent's.            *)
EXTENDS GatewayLifecycle

CONSTANTS p1, p2, none, persona, user

MCTwo   == {p1, p2}
MCSlots == {persona, user}
=============================================================================
