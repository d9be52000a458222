---------------------------- MODULE MCDataCompressor ----------------------------
(* The chunk bound of the RLE engine, for TLC. *)
EXTENDS DataCompressor

TwiceTheSize == [n \in 0 .. MaxSize |-> 2 * n]
================================================================================
