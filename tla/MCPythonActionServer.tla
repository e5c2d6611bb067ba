------------------------- MODULE MCPythonActionServer -------------------------
(* Instances of PythonActionServer for TLC.                                  *)
EXTENDS PythonActionServer

OnAndOff == BOOLEAN
Off == {FALSE}
===============================================================================
