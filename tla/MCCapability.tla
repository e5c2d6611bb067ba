----------------------------- MODULE MCCapability -----------------------------
(* Instances of Capability for TLC: the parameters of its nodes. The state   *)
(* space is finite as it stands, for time and the lifecycle go round.        *)
EXTENDS Capability

Off == {FALSE}
On == {TRUE}
===============================================================================
