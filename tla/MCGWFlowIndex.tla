----------------------------- MODULE MCGWFlowIndex -----------------------------
(* An instance of GWFlowIndex for TLC: two superevents.    *)
EXTENDS GWFlowIndex
===============================================================================
