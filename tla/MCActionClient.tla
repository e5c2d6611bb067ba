---------------------------- MODULE MCActionClient ----------------------------
(* Instances of ActionClient for TLC.                                        *)
EXTENDS ActionClient

CONSTANTS first, second   \* callers

TwoCallers == {first, second}
===============================================================================
