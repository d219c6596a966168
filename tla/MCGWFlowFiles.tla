----------------------------- MODULE MCGWFlowFiles -----------------------------
(* An instance of GWFlowFiles for TLC: the file that changes comes second.  *)
EXTENDS GWFlowFiles
Paths    == {1, 2}
Changing == {2}
===============================================================================
