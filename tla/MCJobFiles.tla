------------------------------ MODULE MCJobFiles ------------------------------
(* An instance of JobFiles for TLC: two uploads, two tokens, two readers.       *)
EXTENDS JobFiles, TLC

CONSTANTS u1, u2, t1, t2, r1, r2
Uploads == {u1, u2}
Tokens == {t1, t2}
Readers == {r1, r2}
OneEach == t1 :> u1 @@ t2 :> u2
Interchangeable == Permutations(Readers)
===============================================================================
