----------------------------- MODULE MCJobListing -----------------------------
(* An instance of JobListing for TLC: two jobs, one of them under embargo, and  *)
(* two writers.                                                                 *)
EXTENDS JobListing, TLC

CONSTANTS open, closed, w1, w2
Jobs == {open, closed}
Hidden == {closed}
Writers == {w1, w2}
Interchangeable == Permutations(Writers)
===============================================================================
