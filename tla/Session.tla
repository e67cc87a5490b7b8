------------------------------ MODULE Session -------------------------------
(***************************************************************************)
(* What a client may rely on about a gateway session: it is claimed by one *)
(* owner at most and for good, its runtime is started once, it serves only *)
(* when that start has succeeded, and it never comes back from its end.    *)
(* GatewayLifecycle implements it.                                         *)
(***************************************************************************)
CONSTANTS Owners, NoOwner

VARIABLES phase, owner, start

Init == phase = "Bootstrapping" /\ owner = NoOwner /\ start = "no"

Claim == /\ phase = "Bootstrapping" /\ phase' = "Provisioned"
         /\ owner' \in Owners
         /\ start = "no" /\ start' = "building"

Started == /\ start = "building" /\ start' = "done"
           /\ phase' = (IF phase = "Provisioned" THEN "Ready" ELSE phase)
           /\ phase # "Bootstrapping" /\ UNCHANGED owner

NotStarted == start = "building" /\ start' = "failed" /\ UNCHANGED <<phase, owner>>

End == phase' = "ShuttingDown" /\ UNCHANGED <<owner, start>>

Spec == Init /\ [][Claim \/ Started \/ NotStarted \/ End]_<<phase, owner, start>>
=============================================================================
