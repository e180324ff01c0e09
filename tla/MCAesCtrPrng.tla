---------------------------- MODULE MCAesCtrPrng ----------------------------
(* AesCtrPrng for vectors of two halves (256 bits), with lanes of three    *)
(* bits, used for as many blocks as a lane has values.                     *)
EXTENDS AesCtrPrng, TLC

FourWyprimes == 0 :> 5 @@ 1 :> 1 @@ 2 :> 3 @@ 3 :> 7

FourMasks == 0 :> {0} @@ 1 :> {1} @@ 2 :> {0, 1} @@ 3 :> {}
=============================================================================
