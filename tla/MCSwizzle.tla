-------------------------------- MODULE MCSwizzle --------------------------------
(* Every map moves each bit by itself: pixels with one bit, with all but one, and *)
(* with all or none of them show where each one goes.                             *)
EXTENDS Swizzle

ThePixels ==
  UNION {{{}, 1 .. n} \cup {{b} : b \in 1 .. n} \cup {(1 .. n) \ {b} : b \in 1 .. n} : n \in {32, 64}}
================================================================================
