------------------------------- MODULE MCArchives --------------------------------
(* Short files, runs over one, two and a part of a block, and magic letters.     *)
EXTENDS Archives

Run(n) == [k \in 1 .. n |-> 1]

SomeContents ==
  UNION {[1 .. n -> {0, 2}] : n \in 0 .. 2} \cup
  {Run(n) : n \in {7, 14}} \cup
  {Run(7) \o <<2, 3, 0, 0, 1>>, <<2, 3, 0, 0, 1>> \o Run(9)}
================================================================================
