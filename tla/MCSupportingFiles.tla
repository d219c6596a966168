--------------------------- MODULE MCSupportingFiles ---------------------------
(* Instances of SupportingFiles for TLC.                                    *)
EXTENDS SupportingFiles, TLC
Symmetric == Permutations(File) \cup Permutations(Req)
===============================================================================
