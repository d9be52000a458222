------------------------------ MODULE MCPixelGroups ------------------------------
(* Numbers of pixels for TLC: none, one, a pixel more than three even groups, odd  *)
(* groups, fewer groups than processors, and widths that a float rounds down and *)
(* up so far that the last pixel is lost or the end is passed; as a line, as an  *)
(* area, or as a line with the dimensions of an area.  One engine has words of a *)
(* byte, the other one half floats.                                              *)
EXTENDS PixelGroups

TheEngines  == {"RLE4B", "RLE4HF"}
TheWords    == [name \in TheEngines |-> IF name = "RLE4B" THEN 1 ELSE 2]
BothOrders  == {<<"RLE4B", "RLE4HF">>, <<"RLE4HF", "RLE4B">>}
Line(n)     == [dims |-> <<0, n>>, flags |-> {"DATA_1D"}]
TheRequests ==
  {Line(0), Line(1), Line(12582913), Line(12582917),
   [dims |-> <<0, 29, 0, 53>>, flags |-> {}],
   [dims |-> <<0, 683, 0, 3>>, flags |-> {"IGNORE_ALPHA"}],
   [dims |-> <<0, 5, 0, 4>>, flags |-> {"DATA_1D", "IGNORE_ALPHA"}]}
================================================================================
