------------------------------ MODULE MCDataEngines ------------------------------
(* All short chunks of two byte values, and long ones at the limits of the      *)
(* formats, for TLC.                                                            *)
EXTENDS DataEngines

CONSTANTS
  Longest, \* the longest of the chunks that are all checked
  Gaps,    \* how far apart the two copies of a word are
  Ends     \* how many bytes follow the second copy

AllBinary == UNION {[1 .. n -> 0 .. 1] : n \in 0 .. Longest}

\* A word, zeros, the first bytes of the word again, and zeros.
Word == <<1, 2, 3, 4, 5, 6>>
Zeros(n) == [k \in 1 .. n |-> 0]
Apart == {<<0>> \o Word \o Zeros(gap) \o SubSeq(Word, 1, again) \o Zeros(end) :
            gap \in Gaps, again \in 3 .. Len(Word), end \in Ends}

\* Runs, and pairs of bytes again and again.
Runs == {Zeros(n) : n \in 0 .. 10} \cup {[k \in 1 .. n |-> k % 2] : n \in 7 .. 10}

SomeInputs == AllBinary \cup Apart \cup Runs

\* One slot for everything, or a slot for each first byte.
SmallHash(name, a, b, c) == IF name = "collide" THEN 0 ELSE a

\* Just enough room, and what lzf.c grants.
TightRooms ==
  [n \in {Len(chunk) : chunk \in SomeInputs} |->
     {IF n > 4 THEN n - 4 ELSE n, Enough(n)}]

\* powf(speed, .3f) / ratio in thousandths.
Ratings == "Snappy" :> 1139 @@ "ZSTD1" :> 1083 @@ "LZF" :> 956 @@ "FastLZ" :> 943

TwoOrders == {<<"LZF", "FastLZ", "ZSTD1", "Snappy">>,
              <<"Snappy", "ZSTD1", "FastLZ", "LZF">>}
================================================================================
