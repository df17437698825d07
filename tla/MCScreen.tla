------------------------------ MODULE MCScreen ------------------------------
(***************************************************************************)
(* Two outputs that share images, sizes and blurs: a large image that is   *)
(* opaque, the fallback, and one that does not decode.                     *)
(***************************************************************************)
EXTENDS Screen, TLC

CONSTANTS o1, o2, wa, wb, wc

NativeSizes == [w \in Wallpapers |-> IF w = wa THEN 2 ELSE 1]

(* The outputs are alike.                                                  *)
Symmetry == Permutations(Outputs)
=============================================================================
