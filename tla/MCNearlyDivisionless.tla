------------------------ MODULE MCNearlyDivisionless ------------------------
(* NearlyDivisionless on a word of five bits: every bound, every draw.     *)
EXTENDS NearlyDivisionless
=============================================================================
