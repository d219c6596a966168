------------------------------ MODULE MCSlurmJob ------------------------------
(* The stages of the bundle's tests: an analysis, then final_result and     *)
(* plot, each of which depends on the analysis alone.                       *)
EXTENDS SlurmJob
Stages == <<{}, {1}, {1}>>
===============================================================================
