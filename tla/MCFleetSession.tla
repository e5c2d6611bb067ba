---------------------------- MODULE MCFleetSession ----------------------------
(***************************************************************************)
(* A robot with two capabilities, for TLC.                                 *)
(***************************************************************************)
EXTENDS FleetSession, TLC

CONSTANTS robot, navigation, perception

OneRobot == {robot}
TwoCapabilities == {navigation, perception}
BothOfIt == [c \in TwoCapabilities |-> robot]

\* The capabilities only differ by their names.
EitherCapability == Permutations(TwoCapabilities)
===============================================================================
