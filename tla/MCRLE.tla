--------------------------------- MODULE MCRLE ---------------------------------
(* Every chunk of up to MaxLen words, for TLC. *)
EXTENDS RLE

CONSTANT MaxLen

AllInputs == UNION {[1 .. n -> Word] : n \in 0 .. MaxLen}
================================================================================
