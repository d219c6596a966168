----------------------------- MODULE MCGwoscIngest -----------------------------
(* An instance of GwoscIngest for TLC: two versions of one event, one that   *)
(* GWCloud does not want, and one without event id or configurations.        *)
EXTENDS GwoscIngest
Keys    == {1, 2}
Events  == {1, 2, 3, 4}
Configs == [e \in Events |-> CASE e = 1 -> {1, 2} [] e \in {2, 3} -> {1} [] e = 4 -> {}]
Names   == [e \in Events |-> IF e = 4 THEN "none" ELSE "GW1"]
===============================================================================
