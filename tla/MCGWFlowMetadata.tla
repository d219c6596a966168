--------------------------- MODULE MCGWFlowMetadata ---------------------------
(* Small instances of GWFlowMetadata for TLC.                                *)
EXTENDS GWFlowMetadata

TwoSnames == 1..2
OneSname == {1}
NoSname == {}
===============================================================================
