--------------------------------- MODULE Swizzle ---------------------------------
(****************************************************************************)
(* One pixel on its way through a pixel engine: its bits are sorted into     *)
(* four words, one for each stream of its group, and back into a pixel; what *)
(* comes out may be compressed again.                                        *)
(*                                                                           *)
(* A pixel and a word are sets of bits, counted from 1 as LB_BIT1 .. do.     *)
(* That the streams restore their words is the subject of RLE.               *)
(****************************************************************************)
EXTENDS Integers

CONSTANTS
  Pixels,       \* the pixels compressed
  Generations   \* bound: how often a pixel is compressed again

ASSUME SwizzleAssumption == Pixels \subseteq SUBSET (1 .. 64) /\ Generations \in Nat

\* The engines and what the pixels they are registered for look like: colours of
\* a byte (RGB or YUV), of ten bits, or half floats, and depth values without alpha.
Registered ==
  {<<"RLE4B", "byte">>, <<"RLE4B", "ten">>, <<"RLE4B", "depth">>, <<"DiffRLE4B", "byte">>,
   <<"RLEYUV", "byte">>, <<"DiffRLEYUV", "byte">>,
   <<"RLE10A2", "ten">>, <<"RLE565", "byte">>, <<"RLE4HF", "half">>, <<"DiffRLE4HF", "half">>}

VARIABLES
  engine,       \* the engine
  layout,       \* what the pixel looks like
  ignoreAlpha,  \* EQ_COMPRESSOR_IGNORE_ALPHA is set
  original,     \* the pixel
  pixel,        \* what the last decompression made of it
  words,        \* one, two, three, four
  generation,   \* how often it was decompressed
  pc            \* "pixel" or "words": what there is to work on

vars == <<engine, layout, ignoreAlpha, original, pixel, words, generation, pc>>

WordBits(e)  == IF e \in {"RLE4HF", "DiffRLE4HF"} THEN 16 ELSE 8
PixelBits(e) == 4 * WordBits(e)

\* The alpha channel, the most significant bits.
Alpha(l) ==
  IF l = "byte" THEN 25 .. 32 ELSE IF l = "ten" THEN 31 .. 32
  ELSE IF l = "half" THEN 49 .. 64 ELSE {}

\* (bits & mask) << by, to the right if by is negative.
Move(bits, mask, by) == {b + by : b \in bits \cap mask}

------------------------------------------------------------------------------
(* The bit maps *)

\* NoSwizzle: consecutive bits of a word's size, and back.
Split(bits, size, n) ==
  [c \in 1 .. 4 |-> IF c <= n THEN {b \in 1 .. size : b + size * (c - 1) \in bits} ELSE {}]
Join(w, size, n) == UNION {Move(w[c], 1 .. size, size * (c - 1)) : c \in 1 .. n}

SwizzleUInt32(bits) ==
  Move(bits, {32, 31, 22, 21, 12, 11, 2, 1}, 0)
    \cup Move(bits, {8, 7}, 18)
    \cup Move(bits, {24, 23, 14, 13}, 6)
    \cup Move(bits, {16, 15, 6, 5, 4, 3}, 12)
    \cup Move(bits, {28, 27, 26, 25}, -18)
    \cup Move(bits, {18, 17}, -12)
    \cup Move(bits, {30, 29, 20, 19, 10, 9}, -6)

\* Mutant of DeswizzleUInt32: one bit is missing in a mask.
DeswizzleUInt32Lossy(bits) ==
  Move(bits, {32, 31, 22, 21, 11, 12, 2, 1}, 0)
    \cup Move(bits, {26, 25}, -18)
    \cup Move(bits, {30, 29, 20, 19}, -6)
    \cup Move(bits, {28, 27, 18, 17, 16, 15}, -12)
    \cup Move(bits, {10, 9, 8, 7}, 18)
    \cup Move(bits, {6, 5}, 12)
    \cup Move(bits, {24, 23, 14, 13, 3}, 6)

DeswizzleUInt32(bits) ==
  Move(bits, {32, 31, 22, 21, 11, 12, 2, 1}, 0)
    \cup Move(bits, {26, 25}, -18)
    \cup Move(bits, {30, 29, 20, 19}, -6)
    \cup Move(bits, {28, 27, 18, 17, 16, 15}, -12)
    \cup Move(bits, {10, 9, 8, 7}, 18)
    \cup Move(bits, {6, 5}, 12)
    \cup Move(bits, {24, 23, 14, 13, 4, 3}, 6)

SwizzleUInt24(bits) ==
  Move(bits, {24, 23, 22, 13, 12, 3, 2, 1}, 0)
    \cup Move(bits, {16, 15, 14}, 5)
    \cup Move(bits, {11, 10, 9}, -5)
    \cup Move(bits, {8, 7, 6, 5, 4}, 10)
    \cup Move(bits, {21, 20, 19, 18, 17}, -10)

\* Mutant of DeswizzleUInt24: three bits are shifted the wrong way.
DeswizzleUInt24Wrong(bits) ==
  Move(bits, {24, 23, 22, 13, 12, 3, 2, 1}, 0)
    \cup Move(bits, {21, 20, 19}, -5)
    \cup Move(bits, {6, 5, 4}, -5)
    \cup Move(bits, {18, 17, 16, 15, 14}, -10)
    \cup Move(bits, {11, 10, 9, 8, 7}, 10)

DeswizzleUInt24(bits) ==
  Move(bits, {24, 23, 22, 13, 12, 3, 2, 1}, 0)
    \cup Move(bits, {21, 20, 19}, -5)
    \cup Move(bits, {6, 5, 4}, 5)
    \cup Move(bits, {18, 17, 16, 15, 14}, -10)
    \cup Move(bits, {11, 10, 9, 8, 7}, 10)

\* The YUV engines have classes of their own, bit for bit the same.
SwizzleYUVA(bits)   == SwizzleUInt32(bits)
DeswizzleYUVA(bits) == DeswizzleUInt32(bits)
SwizzleYUV(bits)    == SwizzleUInt24(bits)
DeswizzleYUV(bits)  == DeswizzleUInt24(bits)

\* Two or three bits of each colour and of alpha, the most significant ones in
\* the last word.
Swizzle10A2(bits) ==
  <<Move(bits, 1 .. 4, 0) \cup Move(bits, {14, 13}, -8) \cup Move(bits, {24, 23}, -16),
    Move(bits, {26, 25}, -24) \cup Move(bits, {6, 5}, 0)
      \cup Move(bits, {16, 15}, -12) \cup Move(bits, {12, 11}, -4),
    Move(bits, {28, 27}, -22) \cup Move(bits, {18, 17}, -14)
      \cup Move(bits, {8, 7}, 0) \cup Move(bits, {22, 21}, -20),
    Move(bits, {32, 31, 30, 29}, -24) \cup Move(bits, {20, 19}, -16)
      \cup Move(bits, {10, 9}, -8)>>

Deswizzle10A2(w) ==
  Move(w[1], 1 .. 4, 0) \cup Move(w[1], {5, 6}, 8) \cup Move(w[1], {7, 8}, 16)
    \cup Move(w[2], {1, 2}, 24) \cup Move(w[2], {3, 4}, 12)
    \cup Move(w[2], 5 .. 6, 0) \cup Move(w[2], {7, 8}, 4)
    \cup Move(w[3], 7 .. 8, 0) \cup Move(w[3], {6, 5}, 22)
    \cup Move(w[3], {4, 3}, 14) \cup Move(w[3], {2, 1}, 20)
    \cup Move(w[4], 5 .. 8, 24) \cup Move(w[4], {4, 3}, 16) \cup Move(w[4], {2, 1}, 8)

\* Sixteen bits with five of each colour and one of alpha.
Swizzle565Alpha(bits) ==
  Move(bits, {6, 5, 4}, -3)
    \cup Move(bits, {14, 13, 12}, -8)
    \cup Move(bits, {8, 7}, 5)
    \cup Move(bits, {24, 23, 22, 21, 20}, -13)
    \cup Move(bits, {16, 15}, -1)
    \cup Move(bits, {32}, -16)

\* The bits that are not kept become 0x3f040404.
Deswizzle565Alpha(bits) ==
  Move(bits, {3, 2, 1}, 3)
    \cup Move(bits, {6, 5, 4}, 8)
    \cup Move(bits, {13, 12}, -5)
    \cup Move(bits, {11, 10, 9, 8, 7}, 13)
    \cup Move(bits, {15, 14}, 1)
    \cup Move(bits, {16}, 16)
    \cup 25 .. 30 \cup {19, 11, 3}

\* Sixteen bits with five of red and blue and six of green.
Swizzle565(bits) ==
  Move(bits, {6, 5, 4}, -3)
    \cup Move(bits, {13, 12, 11}, -7)
    \cup Move(bits, {8, 7}, 5)
    \cup Move(bits, {24, 23, 22, 21, 20}, -13)
    \cup Move(bits, {16, 15, 14}, 0)

\* Mutant of Deswizzle565: green is shifted as in the map with alpha.
Deswizzle565Shifted(bits) ==
  ((Move(bits, {3, 2, 1}, 3)
      \cup Move(bits, {6, 5, 4}, 8)
      \cup Move(bits, {13, 12}, -5)
      \cup Move(bits, {11, 10, 9, 8, 7}, 13)
      \cup Move(bits, {16, 15, 14}, 0)) \cap (4 .. 8 \cup 11 .. 16 \cup 20 .. 24))
    \cup {18, 10, 2}

\* The others become 0x020202.
Deswizzle565(bits) ==
  ((Move(bits, {3, 2, 1}, 3)
      \cup Move(bits, {6, 5, 4}, 7)
      \cup Move(bits, {13, 12}, -5)
      \cup Move(bits, {11, 10, 9, 8, 7}, 13)
      \cup Move(bits, {16, 15, 14}, 0)) \cap (4 .. 8 \cup 11 .. 16 \cup 20 .. 24))
    \cup {18, 10, 2}

Swizzle4HFAlpha(bits) ==
  Move(bits, 1 .. 5 \cup 23 .. 27 \cup 55 .. 64, 0)
    \cup Move(bits, 17 .. 22, -11)
    \cup Move(bits, 33 .. 43, -21)
    \cup Move(bits, 6 .. 14 \cup 31 .. 32, 22)
    \cup Move(bits, 28 .. 30, 9)
    \cup Move(bits, 49 .. 54, -9)
    \cup Move(bits, 44 .. 48, 2)
    \cup Move(bits, 15 .. 16, 36)

Deswizzle4HFAlpha(bits) ==
  Move(bits, 1 .. 5 \cup 23 .. 27 \cup 55 .. 64, 0)
    \cup Move(bits, 6 .. 11, 11)
    \cup Move(bits, 12 .. 22, 21)
    \cup Move(bits, 28 .. 36 \cup 53 .. 54, -22)
    \cup Move(bits, 37 .. 39, -9)
    \cup Move(bits, 40 .. 45, 9)
    \cup Move(bits, 46 .. 50, -2)
    \cup Move(bits, 51 .. 52, -36)

Swizzle4HF(bits) ==
  Move(bits, 8 .. 10 \cup 15 .. 16 \cup 21 .. 23 \cup 29 .. 30 \cup 33 .. 35 \cup 43 .. 44, 0)
    \cup Move(bits, 39 .. 42, -38)
    \cup Move(bits, 24 .. 26, -19)
    \cup Move(bits, 47 .. 48, -36)
    \cup Move(bits, 31 .. 32 \cup 45 .. 46, -18)
    \cup Move(bits, 4 .. 7, 13)
    \cup Move(bits, 36 .. 38, -12)
    \cup Move(bits, 11 .. 12, 36)
    \cup Move(bits, 1 .. 3, 39)
    \cup Move(bits, 13 .. 14 \cup 27 .. 28, 18)
    \cup Move(bits, 17 .. 20, 19)

Deswizzle4HF(bits) ==
  Move(bits, 8 .. 10 \cup 15 .. 16 \cup 21 .. 23 \cup 29 .. 30 \cup 33 .. 35 \cup 43 .. 44, 0)
    \cup Move(bits, 1 .. 4, 38)
    \cup Move(bits, 5 .. 7, 19)
    \cup Move(bits, 11 .. 12, 36)
    \cup Move(bits, 13 .. 14 \cup 27 .. 28, 18)
    \cup Move(bits, 17 .. 20, -13)
    \cup Move(bits, 24 .. 26, 12)
    \cup Move(bits, 47 .. 48, -36)
    \cup Move(bits, 40 .. 42, -39)
    \cup Move(bits, 31 .. 32 \cup 45 .. 46, -18)
    \cup Move(bits, 36 .. 39, -19)

------------------------------------------------------------------------------
(* The engines *)

\* What compress() chooses by useAlpha.
WordsAlpha(e, bits) ==
  IF e = "RLE10A2" THEN Swizzle10A2(bits)
  ELSE LET moved == IF e = "DiffRLE4B" THEN SwizzleUInt32(bits)
                    ELSE IF e = "DiffRLEYUV" THEN SwizzleYUVA(bits)
                    ELSE IF e = "RLE565" THEN Swizzle565Alpha(bits)
                    ELSE IF e = "DiffRLE4HF" THEN Swizzle4HFAlpha(bits)
                    ELSE bits
       IN Split(moved, WordBits(e), 4)

WordsNoAlpha(e, bits) ==
  LET moved == IF e = "DiffRLE4B" THEN SwizzleUInt24(bits)
               ELSE IF e = "DiffRLEYUV" THEN SwizzleYUV(bits)
               ELSE IF e = "RLE565" THEN Swizzle565(bits)
               ELSE IF e = "DiffRLE4HF" THEN Swizzle4HF(bits)
               ELSE bits
  IN Split(moved, WordBits(e), 3)

\* What decompress() chooses by EQ_COMPRESSOR_IGNORE_ALPHA.
PixelAlpha(e, w) ==
  LET bits == Join(w, WordBits(e), 4)
  IN IF e = "RLE10A2" THEN Deswizzle10A2(w)
     ELSE IF e = "DiffRLE4B" THEN DeswizzleUInt32(bits)
     ELSE IF e = "DiffRLEYUV" THEN DeswizzleYUVA(bits)
     ELSE IF e = "RLE565" THEN Deswizzle565Alpha(bits)
     ELSE IF e = "DiffRLE4HF" THEN Deswizzle4HFAlpha(bits)
     ELSE bits

PixelNoAlpha(e, w) ==
  LET bits == Join(w, WordBits(e), 3)
  IN IF e = "DiffRLE4B" THEN DeswizzleUInt24(bits)
     ELSE IF e = "DiffRLEYUV" THEN DeswizzleYUV(bits)
     ELSE IF e = "RLE565" THEN Deswizzle565(bits)
     ELSE IF e = "DiffRLE4HF" THEN Deswizzle4HF(bits)
     ELSE bits

\* The flag is never set for an engine that did not indicate it: the one of
\* depth values. RLE10A2 pays no heed to it.
DropsAlpha == ignoreAlpha /\ engine # "RLE10A2"

Init ==
  /\ \E it \in Registered : engine = it[1] /\ layout = it[2]
  /\ ignoreAlpha \in BOOLEAN /\ (ignoreAlpha => layout # "depth")
  /\ original \in {p \in Pixels : p \subseteq 1 .. PixelBits(engine)}
  /\ pixel = original /\ words = [c \in 1 .. 4 |-> {}]
  /\ generation = 0 /\ pc = "pixel"

Compress ==
  /\ pc = "pixel" /\ generation < Generations
  /\ words' = IF DropsAlpha THEN WordsNoAlpha(engine, pixel) ELSE WordsAlpha(engine, pixel)
  /\ pc' = "words"
  /\ UNCHANGED <<engine, layout, ignoreAlpha, original, pixel, generation>>

Decompress ==
  /\ pc = "words"
  /\ pixel' = IF DropsAlpha THEN PixelNoAlpha(engine, words) ELSE PixelAlpha(engine, words)
  /\ generation' = generation + 1 /\ pc' = "pixel"
  /\ UNCHANGED <<engine, layout, ignoreAlpha, original, words>>

Finished == pc = "pixel" /\ generation = Generations /\ UNCHANGED vars

Next == Compress \/ Decompress \/ Finished

Spec == Init /\ [][Next]_vars

------------------------------------------------------------------------------
(* Properties *)

\* Every variable has its type; in particular no map moves a bit out of the
\* words or out of the pixel.
TypeOK ==
  /\ <<engine, layout>> \in Registered /\ ignoreAlpha \in BOOLEAN
  /\ original \subseteq 1 .. PixelBits(engine) /\ pixel \subseteq 1 .. PixelBits(engine)
  /\ words \in [1 .. 4 -> SUBSET (1 .. WordBits(engine))]
  /\ generation \in 0 .. Generations /\ pc \in {"pixel", "words"}

Colours == 1 .. PixelBits(engine) \ Alpha(layout)

\* An engine with quality 1 returns every bit of the colours, and of alpha
\* unless it was told to drop it. The plain engine then drops a byte, which
\* has six bits of a colour if colours have ten bits.
Lossless ==
  engine # "RLE565" =>
    /\ ~ignoreAlpha => pixel = original
    /\ ~(engine = "RLE4B" /\ layout = "ten") => pixel \cap Colours = original \cap Colours

\* The bits of each colour the 565 engine promises to keep, and of alpha.
Kept565 ==
  IF ignoreAlpha THEN 4 .. 8 \cup 11 .. 16 \cup 20 .. 24
  ELSE 4 .. 8 \cup 12 .. 16 \cup 20 .. 24 \cup {32}

\* The lossy engine returns the most significant bits of each colour.
MostSignificant ==
  engine = "RLE565" => pixel \cap Kept565 = original \cap Kept565

\* A pixel that was decompressed and is compressed again stays as it is: also
\* the lossy engine loses nothing more.
NoDrift ==
  [][(generation >= 1 /\ generation' > generation) => pixel' = pixel]_vars
================================================================================
