--------------------------- MODULE MCGWFlowChildren ---------------------------
(* An instance of GWFlowChildren for TLC: one superevent.                   *)
EXTENDS GWFlowChildren
Superevents == {1}
===============================================================================
