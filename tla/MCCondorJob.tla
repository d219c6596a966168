------------------------------ MODULE MCCondorJob ------------------------------
(* The DAG of the bundle's tests: final_result stands beside the plots.     *)
EXTENDS CondorJob
CONSTANTS g, a, f, p
Nodes == {g, a, f, p}
Dag == [m \in Nodes |-> CASE m = g -> {} [] m = a -> {g} [] m \in {f, p} -> {a}]
===============================================================================
