------------------------------ MODULE Swizzle_proofs ------------------------------
(****************************************************************************)
(* Proofs about Swizzle, for every pixel and any number of passes.  Each map *)
(* is described bit by bit (MoveMember); that the bits come back is then a   *)
(* question of linear arithmetic, one lemma per pair of maps.  The words of  *)
(* an engine lie between the maps (SplitJoin), and PassAlpha and PassNoAlpha *)
(* put the two together.                                                     *)
(****************************************************************************)
EXTENDS Swizzle, TLAPS

\* A masked shift, bit by bit.
LEMMA MoveMember ==
  ASSUME NEW bits \in SUBSET Int, NEW mask \in SUBSET Int, NEW by \in Int
  PROVE  /\ Move(bits, mask, by) \in SUBSET Int
         /\ \A b \in Int : b \in Move(bits, mask, by) <=> b - by \in bits /\ b - by \in mask
<1>1. Move(bits, mask, by) \in SUBSET Int
  BY DEF Move
<1>2. ASSUME NEW b \in Int, b \in Move(bits, mask, by) PROVE b - by \in bits /\ b - by \in mask
  BY <1>2 DEF Move
<1>3. ASSUME NEW b \in Int, b - by \in bits, b - by \in mask PROVE b \in Move(bits, mask, by)
  <2>1. b = (b - by) + by OBVIOUS
  <2> QED BY <1>3, <2>1 DEF Move
<1> QED BY <1>1, <1>2, <1>3

\* Sets of bits are equal if they have the same bits.
LEMMA SameBits ==
  ASSUME NEW S \in SUBSET Int, NEW T \in SUBSET Int, \A b \in Int : b \in S <=> b \in T
  PROVE  S = T
OBVIOUS

\* The maps of DiffRLE4B with alpha restore all bits.
LEMMA UInt32 ==
  ASSUME NEW bits \in SUBSET (1 .. 32)
  PROVE  /\ SwizzleUInt32(bits) \in SUBSET (1 .. 32)
         /\ DeswizzleUInt32(SwizzleUInt32(bits)) = bits
<1> DEFINE moved == SwizzleUInt32(bits)
<1>1. moved \in SUBSET Int BY MoveMember DEF SwizzleUInt32
<1>2. \A b \in Int : b \in moved <=>
         \/ b \in bits /\ b \in {32, 31, 22, 21, 12, 11, 2, 1}
         \/ b - 18 \in bits /\ b - 18 \in {8, 7}
         \/ b - 6 \in bits /\ b - 6 \in {24, 23, 14, 13}
         \/ b - 12 \in bits /\ b - 12 \in {16, 15, 6, 5, 4, 3}
         \/ b + 18 \in bits /\ b + 18 \in {28, 27, 26, 25}
         \/ b + 12 \in bits /\ b + 12 \in {18, 17}
         \/ b + 6 \in bits /\ b + 6 \in {30, 29, 20, 19, 10, 9}
  BY MoveMember, SMTT(60) DEF SwizzleUInt32
<1>3. DeswizzleUInt32(moved) \in SUBSET Int BY <1>1, MoveMember DEF DeswizzleUInt32
<1>4. \A b \in Int : b \in DeswizzleUInt32(moved) <=>
         \/ b \in moved /\ b \in {32, 31, 22, 21, 11, 12, 2, 1}
         \/ b + 18 \in moved /\ b + 18 \in {26, 25}
         \/ b + 6 \in moved /\ b + 6 \in {30, 29, 20, 19}
         \/ b + 12 \in moved /\ b + 12 \in {28, 27, 18, 17, 16, 15}
         \/ b - 18 \in moved /\ b - 18 \in {10, 9, 8, 7}
         \/ b - 12 \in moved /\ b - 12 \in {6, 5}
         \/ b - 6 \in moved /\ b - 6 \in {24, 23, 14, 13, 4, 3}
  BY <1>1, MoveMember, SMTT(60) DEF DeswizzleUInt32
<1> HIDE DEF moved
<1>5. ASSUME NEW b \in Int PROVE b \in moved => b \in 1 .. 32
  BY <1>2, SMTT(60)
<1>6. ASSUME NEW b \in Int PROVE b \in DeswizzleUInt32(moved) <=> b \in bits
  BY <1>2, <1>4, SMTT(60)
<1>7. DeswizzleUInt32(moved) = bits
  BY <1>3, <1>6, SameBits
<1>8. moved \in SUBSET (1 .. 32)
  BY <1>1, <1>5
<1> QED BY <1>7, <1>8 DEF moved

\* Those without alpha restore all but the last byte.
LEMMA UInt24 ==
  ASSUME NEW bits \in SUBSET (1 .. 32)
  PROVE  /\ SwizzleUInt24(bits) \in SUBSET (1 .. 24)
         /\ DeswizzleUInt24(SwizzleUInt24(bits)) = bits \cap 1 .. 24
<1> DEFINE moved == SwizzleUInt24(bits)
<1>1. moved \in SUBSET Int BY MoveMember DEF SwizzleUInt24
<1>2. \A b \in Int : b \in moved <=>
         \/ b \in bits /\ b \in {24, 23, 22, 13, 12, 3, 2, 1}
         \/ b - 5 \in bits /\ b - 5 \in {16, 15, 14}
         \/ b + 5 \in bits /\ b + 5 \in {11, 10, 9}
         \/ b - 10 \in bits /\ b - 10 \in {8, 7, 6, 5, 4}
         \/ b + 10 \in bits /\ b + 10 \in {21, 20, 19, 18, 17}
  BY MoveMember, SMTT(60) DEF SwizzleUInt24
<1>3. DeswizzleUInt24(moved) \in SUBSET Int BY <1>1, MoveMember DEF DeswizzleUInt24
<1>4. \A b \in Int : b \in DeswizzleUInt24(moved) <=>
         \/ b \in moved /\ b \in {24, 23, 22, 13, 12, 3, 2, 1}
         \/ b + 5 \in moved /\ b + 5 \in {21, 20, 19}
         \/ b - 5 \in moved /\ b - 5 \in {6, 5, 4}
         \/ b + 10 \in moved /\ b + 10 \in {18, 17, 16, 15, 14}
         \/ b - 10 \in moved /\ b - 10 \in {11, 10, 9, 8, 7}
  BY <1>1, MoveMember, SMTT(60) DEF DeswizzleUInt24
<1> HIDE DEF moved
<1>5. ASSUME NEW b \in Int PROVE b \in moved => b \in 1 .. 24
  BY <1>2, SMTT(60)
<1>6. ASSUME NEW b \in Int PROVE b \in DeswizzleUInt24(moved) <=> b \in bits \cap 1 .. 24
  BY <1>2, <1>4, SMTT(60)
<1>7. DeswizzleUInt24(moved) = bits \cap 1 .. 24
  BY <1>3, <1>6, SameBits
<1>8. moved \in SUBSET (1 .. 24)
  BY <1>1, <1>5
<1> QED BY <1>7, <1>8 DEF moved

\* The maps of DiffRLE4HF with alpha restore all bits.
LEMMA HalfFloatsAlpha ==
  ASSUME NEW bits \in SUBSET (1 .. 64)
  PROVE  /\ Swizzle4HFAlpha(bits) \in SUBSET (1 .. 64)
         /\ Deswizzle4HFAlpha(Swizzle4HFAlpha(bits)) = bits
<1> DEFINE moved == Swizzle4HFAlpha(bits)
<1>1. moved \in SUBSET Int BY MoveMember DEF Swizzle4HFAlpha
<1>2. \A b \in Int : b \in moved <=>
         \/ b \in bits /\ b \in (1 .. 5 \cup 23 .. 27 \cup 55 .. 64)
         \/ b + 11 \in bits /\ b + 11 \in 17 .. 22
         \/ b + 21 \in bits /\ b + 21 \in 33 .. 43
         \/ b - 22 \in bits /\ b - 22 \in (6 .. 14 \cup 31 .. 32)
         \/ b - 9 \in bits /\ b - 9 \in 28 .. 30
         \/ b + 9 \in bits /\ b + 9 \in 49 .. 54
         \/ b - 2 \in bits /\ b - 2 \in 44 .. 48
         \/ b - 36 \in bits /\ b - 36 \in 15 .. 16
  BY MoveMember, SMTT(60) DEF Swizzle4HFAlpha
<1>3. Deswizzle4HFAlpha(moved) \in SUBSET Int BY <1>1, MoveMember DEF Deswizzle4HFAlpha
<1>4. \A b \in Int : b \in Deswizzle4HFAlpha(moved) <=>
         \/ b \in moved /\ b \in (1 .. 5 \cup 23 .. 27 \cup 55 .. 64)
         \/ b - 11 \in moved /\ b - 11 \in 6 .. 11
         \/ b - 21 \in moved /\ b - 21 \in 12 .. 22
         \/ b + 22 \in moved /\ b + 22 \in (28 .. 36 \cup 53 .. 54)
         \/ b + 9 \in moved /\ b + 9 \in 37 .. 39
         \/ b - 9 \in moved /\ b - 9 \in 40 .. 45
         \/ b + 2 \in moved /\ b + 2 \in 46 .. 50
         \/ b + 36 \in moved /\ b + 36 \in 51 .. 52
  BY <1>1, MoveMember, SMTT(60) DEF Deswizzle4HFAlpha
<1> HIDE DEF moved
<1>5. ASSUME NEW b \in Int PROVE b \in moved => b \in 1 .. 64
  BY <1>2, SMTT(60)
<1>6. ASSUME NEW b \in Int PROVE b \in Deswizzle4HFAlpha(moved) <=> b \in bits
  BY <1>2, <1>4, SMTT(60)
<1>7. Deswizzle4HFAlpha(moved) = bits
  BY <1>3, <1>6, SameBits
<1>8. moved \in SUBSET (1 .. 64)
  BY <1>1, <1>5
<1> QED BY <1>7, <1>8 DEF moved

\* Those without alpha restore all but the last 16 bits.
LEMMA HalfFloats ==
  ASSUME NEW bits \in SUBSET (1 .. 64)
  PROVE  /\ Swizzle4HF(bits) \in SUBSET (1 .. 48)
         /\ Deswizzle4HF(Swizzle4HF(bits)) = bits \cap 1 .. 48
<1> DEFINE moved == Swizzle4HF(bits)
<1>1. moved \in SUBSET Int BY MoveMember DEF Swizzle4HF
<1>2. \A b \in Int : b \in moved <=>
         \/ b \in bits /\ b \in (8 .. 10 \cup 15 .. 16 \cup 21 .. 23 \cup 29 .. 30 \cup 33 .. 35 \cup 43 .. 44)
         \/ b + 38 \in bits /\ b + 38 \in 39 .. 42
         \/ b + 19 \in bits /\ b + 19 \in 24 .. 26
         \/ b + 36 \in bits /\ b + 36 \in 47 .. 48
         \/ b + 18 \in bits /\ b + 18 \in (31 .. 32 \cup 45 .. 46)
         \/ b - 13 \in bits /\ b - 13 \in 4 .. 7
         \/ b + 12 \in bits /\ b + 12 \in 36 .. 38
         \/ b - 36 \in bits /\ b - 36 \in 11 .. 12
         \/ b - 39 \in bits /\ b - 39 \in 1 .. 3
         \/ b - 18 \in bits /\ b - 18 \in (13 .. 14 \cup 27 .. 28)
         \/ b - 19 \in bits /\ b - 19 \in 17 .. 20
  BY MoveMember, SMTT(60) DEF Swizzle4HF
<1>3. Deswizzle4HF(moved) \in SUBSET Int BY <1>1, MoveMember DEF Deswizzle4HF
<1>4. \A b \in Int : b \in Deswizzle4HF(moved) <=>
         \/ b \in moved /\ b \in (8 .. 10 \cup 15 .. 16 \cup 21 .. 23 \cup 29 .. 30 \cup 33 .. 35 \cup 43 .. 44)
         \/ b - 38 \in moved /\ b - 38 \in 1 .. 4
         \/ b - 19 \in moved /\ b - 19 \in 5 .. 7
         \/ b - 36 \in moved /\ b - 36 \in 11 .. 12
         \/ b - 18 \in moved /\ b - 18 \in (13 .. 14 \cup 27 .. 28)
         \/ b + 13 \in moved /\ b + 13 \in 17 .. 20
         \/ b - 12 \in moved /\ b - 12 \in 24 .. 26
         \/ b + 36 \in moved /\ b + 36 \in 47 .. 48
         \/ b + 39 \in moved /\ b + 39 \in 40 .. 42
         \/ b + 18 \in moved /\ b + 18 \in (31 .. 32 \cup 45 .. 46)
         \/ b + 19 \in moved /\ b + 19 \in 36 .. 39
  BY <1>1, MoveMember, SMTT(60) DEF Deswizzle4HF
<1> HIDE DEF moved
<1>5. ASSUME NEW b \in Int PROVE b \in moved => b \in 1 .. 48
  BY <1>2, SMTT(60)
<1>6. ASSUME NEW b \in Int PROVE b \in Deswizzle4HF(moved) <=> b \in bits \cap 1 .. 48
  BY <1>2, <1>4, SMTT(60)
<1>7. Deswizzle4HF(moved) = bits \cap 1 .. 48
  BY <1>3, <1>6, SameBits
<1>8. moved \in SUBSET (1 .. 48)
  BY <1>1, <1>5
<1> QED BY <1>7, <1>8 DEF moved

\* The maps of RLE565 with alpha restore five bits of each colour and one of alpha,
\* and set bits of the others.
LEMMA Colours565Alpha ==
  ASSUME NEW bits \in SUBSET (1 .. 32)
  PROVE  /\ Swizzle565Alpha(bits) \in SUBSET (1 .. 16)
         /\ Deswizzle565Alpha(Swizzle565Alpha(bits)) = (bits \cap (4 .. 8 \cup 12 .. 16 \cup 20 .. 24 \cup {32})) \cup 25 .. 30 \cup {19, 11, 3}
<1> DEFINE moved == Swizzle565Alpha(bits)
<1>1. moved \in SUBSET Int BY MoveMember DEF Swizzle565Alpha
<1>2. \A b \in Int : b \in moved <=>
         \/ b + 3 \in bits /\ b + 3 \in {6, 5, 4}
         \/ b + 8 \in bits /\ b + 8 \in {14, 13, 12}
         \/ b - 5 \in bits /\ b - 5 \in {8, 7}
         \/ b + 13 \in bits /\ b + 13 \in {24, 23, 22, 21, 20}
         \/ b + 1 \in bits /\ b + 1 \in {16, 15}
         \/ b + 16 \in bits /\ b + 16 \in {32}
  BY MoveMember, SMTT(60) DEF Swizzle565Alpha
<1>3. Deswizzle565Alpha(moved) \in SUBSET Int BY <1>1, MoveMember DEF Deswizzle565Alpha
<1>4. \A b \in Int : b \in Deswizzle565Alpha(moved) <=>
         \/ b - 3 \in moved /\ b - 3 \in {3, 2, 1}
         \/ b - 8 \in moved /\ b - 8 \in {6, 5, 4}
         \/ b + 5 \in moved /\ b + 5 \in {13, 12}
         \/ b - 13 \in moved /\ b - 13 \in {11, 10, 9, 8, 7}
         \/ b - 1 \in moved /\ b - 1 \in {15, 14}
         \/ b - 16 \in moved /\ b - 16 \in {16}
         \/ b \in 25 .. 30 \/ b \in {19, 11, 3}
  BY <1>1, MoveMember, SMTT(60) DEF Deswizzle565Alpha
<1> HIDE DEF moved
<1>5. ASSUME NEW b \in Int PROVE b \in moved => b \in 1 .. 16
  BY <1>2, SMTT(60)
<1>6. ASSUME NEW b \in Int
      PROVE  b \in Deswizzle565Alpha(moved) <=> b \in (bits \cap (4 .. 8 \cup 12 .. 16 \cup 20 .. 24 \cup {32})) \cup 25 .. 30 \cup {19, 11, 3}
  BY <1>2, <1>4, SMTT(60)
<1>7. Deswizzle565Alpha(moved) = (bits \cap (4 .. 8 \cup 12 .. 16 \cup 20 .. 24 \cup {32})) \cup 25 .. 30 \cup {19, 11, 3}
  BY <1>3, <1>6, SameBits
<1>8. moved \in SUBSET (1 .. 16)
  BY <1>1, <1>5
<1> QED BY <1>7, <1>8 DEF moved

\* Those without alpha restore five, six and five bits of the colours.
LEMMA Colours565 ==
  ASSUME NEW bits \in SUBSET (1 .. 32)
  PROVE  /\ Swizzle565(bits) \in SUBSET (1 .. 16)
         /\ Deswizzle565(Swizzle565(bits)) = (bits \cap (4 .. 8 \cup 11 .. 16 \cup 20 .. 24)) \cup {18, 10, 2}
<1> DEFINE moved == Swizzle565(bits)
<1>1. moved \in SUBSET Int BY MoveMember DEF Swizzle565
<1>2. \A b \in Int : b \in moved <=>
         \/ b + 3 \in bits /\ b + 3 \in {6, 5, 4}
         \/ b + 7 \in bits /\ b + 7 \in {13, 12, 11}
         \/ b - 5 \in bits /\ b - 5 \in {8, 7}
         \/ b + 13 \in bits /\ b + 13 \in {24, 23, 22, 21, 20}
         \/ b \in bits /\ b \in {16, 15, 14}
  BY MoveMember, SMTT(60) DEF Swizzle565
<1>3. Deswizzle565(moved) \in SUBSET Int BY <1>1, MoveMember DEF Deswizzle565
<1>4. \A b \in Int : b \in Deswizzle565(moved) <=>
         \/ /\ b \in 4 .. 8 \cup 11 .. 16 \cup 20 .. 24
            /\ \/ b - 3 \in moved /\ b - 3 \in {3, 2, 1}
               \/ b - 7 \in moved /\ b - 7 \in {6, 5, 4}
               \/ b + 5 \in moved /\ b + 5 \in {13, 12}
               \/ b - 13 \in moved /\ b - 13 \in {11, 10, 9, 8, 7}
               \/ b \in moved /\ b \in {16, 15, 14}
         \/ b \in {18, 10, 2}
  BY <1>1, MoveMember, SMTT(60) DEF Deswizzle565
<1> HIDE DEF moved
<1>5. ASSUME NEW b \in Int PROVE b \in moved => b \in 1 .. 16
  BY <1>2, SMTT(60)
<1>6. ASSUME NEW b \in Int
      PROVE  b \in Deswizzle565(moved) <=> b \in (bits \cap (4 .. 8 \cup 11 .. 16 \cup 20 .. 24)) \cup {18, 10, 2}
  BY <1>2, <1>4, SMTT(60)
<1>7. Deswizzle565(moved) = (bits \cap (4 .. 8 \cup 11 .. 16 \cup 20 .. 24)) \cup {18, 10, 2}
  BY <1>3, <1>6, SameBits
<1>8. moved \in SUBSET (1 .. 16)
  BY <1>1, <1>5
<1> QED BY <1>7, <1>8 DEF moved

\* The maps of RLE10A2 restore all bits.
LEMMA TenBits ==
  ASSUME NEW bits \in SUBSET (1 .. 32)
  PROVE  /\ Swizzle10A2(bits) \in [1 .. 4 -> SUBSET (1 .. 8)]
         /\ Deswizzle10A2(Swizzle10A2(bits)) = bits
<1> DEFINE w == Swizzle10A2(bits)
<1>1. /\ DOMAIN w = 1 .. 4
      /\ w[1] = Move(bits, 1 .. 4, 0) \cup Move(bits, {14, 13}, -8) \cup Move(bits, {24, 23}, -16)
      /\ w[2] = Move(bits, {26, 25}, -24) \cup Move(bits, {6, 5}, 0)
                  \cup Move(bits, {16, 15}, -12) \cup Move(bits, {12, 11}, -4)
      /\ w[3] = Move(bits, {28, 27}, -22) \cup Move(bits, {18, 17}, -14)
                  \cup Move(bits, {8, 7}, 0) \cup Move(bits, {22, 21}, -20)
      /\ w[4] = Move(bits, {32, 31, 30, 29}, -24) \cup Move(bits, {20, 19}, -16)
                  \cup Move(bits, {10, 9}, -8)
  BY DEF Swizzle10A2
<1>2. w[1] \in SUBSET Int /\ w[2] \in SUBSET Int /\ w[3] \in SUBSET Int /\ w[4] \in SUBSET Int
  BY <1>1, MoveMember
<1>3. \A b \in Int :
        /\ b \in w[1] <=> \/ b \in bits /\ b \in 1 .. 4
                          \/ b + 8 \in bits /\ b + 8 \in {14, 13}
                          \/ b + 16 \in bits /\ b + 16 \in {24, 23}
        /\ b \in w[2] <=> \/ b + 24 \in bits /\ b + 24 \in {26, 25}
                          \/ b \in bits /\ b \in {6, 5}
                          \/ b + 12 \in bits /\ b + 12 \in {16, 15}
                          \/ b + 4 \in bits /\ b + 4 \in {12, 11}
        /\ b \in w[3] <=> \/ b + 22 \in bits /\ b + 22 \in {28, 27}
                          \/ b + 14 \in bits /\ b + 14 \in {18, 17}
                          \/ b \in bits /\ b \in {8, 7}
                          \/ b + 20 \in bits /\ b + 20 \in {22, 21}
        /\ b \in w[4] <=> \/ b + 24 \in bits /\ b + 24 \in {32, 31, 30, 29}
                          \/ b + 16 \in bits /\ b + 16 \in {20, 19}
                          \/ b + 8 \in bits /\ b + 8 \in {10, 9}
  <2>1. bits \in SUBSET Int OBVIOUS
  <2> HIDE DEF w
  <2> QED BY <1>1, <2>1, MoveMember, SMTT(60)
<1>4. w \in [1 .. 4 -> SUBSET (1 .. 8)]
  <2> HIDE DEF w
  <2>1. ASSUME NEW b \in Int
        PROVE  /\ b \in w[1] => b \in 1 .. 8
               /\ b \in w[2] => b \in 1 .. 8
               /\ b \in w[3] => b \in 1 .. 8
               /\ b \in w[4] => b \in 1 .. 8
    BY <1>3, SMTT(60)
  <2>2. /\ w[1] \in SUBSET (1 .. 8) /\ w[2] \in SUBSET (1 .. 8)
        /\ w[3] \in SUBSET (1 .. 8) /\ w[4] \in SUBSET (1 .. 8)
    BY <2>1, <1>2
  <2>3. w = [c \in 1 .. 4 |-> w[c]]
    BY DEF w, Swizzle10A2
  <2> QED BY <2>2, <2>3
<1>5. Deswizzle10A2(w) \in SUBSET Int
  <2> HIDE DEF w
  <2> QED BY <1>2, MoveMember DEF Deswizzle10A2
<1>6. \A b \in Int : b \in Deswizzle10A2(w) <=>
         \/ b \in w[1] /\ b \in 1 .. 4
         \/ b - 8 \in w[1] /\ b - 8 \in {5, 6}
         \/ b - 16 \in w[1] /\ b - 16 \in {7, 8}
         \/ b - 24 \in w[2] /\ b - 24 \in {1, 2}
         \/ b - 12 \in w[2] /\ b - 12 \in {3, 4}
         \/ b \in w[2] /\ b \in 5 .. 6
         \/ b - 4 \in w[2] /\ b - 4 \in {7, 8}
         \/ b \in w[3] /\ b \in 7 .. 8
         \/ b - 22 \in w[3] /\ b - 22 \in {6, 5}
         \/ b - 14 \in w[3] /\ b - 14 \in {4, 3}
         \/ b - 20 \in w[3] /\ b - 20 \in {2, 1}
         \/ b - 24 \in w[4] /\ b - 24 \in 5 .. 8
         \/ b - 16 \in w[4] /\ b - 16 \in {4, 3}
         \/ b - 8 \in w[4] /\ b - 8 \in {2, 1}
  <2> HIDE DEF w
  <2> QED BY <1>2, MoveMember, SMTT(60) DEF Deswizzle10A2
<1> HIDE DEF w
<1>7. ASSUME NEW b \in Int PROVE b \in Deswizzle10A2(w) <=> b \in bits
  BY <1>3, <1>6, SMTT(60)
<1>8. Deswizzle10A2(w) = bits
  BY <1>5, <1>7, SameBits
<1> QED BY <1>4, <1>8 DEF w

\* The bits of the words of a pixel are those of the pixel, as far as they go.
LEMMA SplitJoin ==
  ASSUME NEW size \in {8, 16}, NEW n \in {3, 4}, NEW bits \in SUBSET (1 .. 64)
  PROVE  /\ Split(bits, size, n) \in [1 .. 4 -> SUBSET (1 .. size)]
         /\ Join(Split(bits, size, n), size, n) = bits \cap 1 .. size * n
<1> DEFINE w == Split(bits, size, n)
<1>1. w \in [1 .. 4 -> SUBSET (1 .. size)]
  BY DEF Split
<1>2. \A c \in 1 .. n : w[c] = {b \in 1 .. size : b + size * (c - 1) \in bits}
  BY DEF Split
<1>3. \A c \in 1 .. n : size * (c - 1) \in Int
  OBVIOUS
<1>4. \A c \in 1 .. n : w[c] \in SUBSET Int
  BY <1>2
<1> HIDE DEF w
<1>5. Join(w, size, n) \in SUBSET Int
  BY <1>3, <1>4, MoveMember DEF Join
<1>6. ASSUME NEW b \in Int
      PROVE  b \in Join(w, size, n) <=>
               \E c \in 1 .. n : b - size * (c - 1) \in 1 .. size /\ b \in bits
  <2>1. b \in Join(w, size, n) <=> \E c \in 1 .. n : b \in Move(w[c], 1 .. size, size * (c - 1))
    BY DEF Join
  <2>2. ASSUME NEW c \in 1 .. n
        PROVE  b \in Move(w[c], 1 .. size, size * (c - 1)) <=>
                 b - size * (c - 1) \in 1 .. size /\ b \in bits
    <3>1. b \in Move(w[c], 1 .. size, size * (c - 1)) <=>
            b - size * (c - 1) \in w[c] /\ b - size * (c - 1) \in 1 .. size
      BY <1>3, <1>4, MoveMember
    <3>2. (b - size * (c - 1)) + size * (c - 1) = b
      BY <1>3
    <3> QED BY <1>2, <3>1, <3>2
  <2> QED BY <2>1, <2>2
<1>7. ASSUME NEW b \in Int
      PROVE  (\E c \in 1 .. n : b - size * (c - 1) \in 1 .. size) <=> b \in 1 .. size * n
  <2>1. ASSUME NEW c \in 1 .. n
        PROVE  c \in {1, 2, 3} \/ (c = 4 /\ n = 4)
    OBVIOUS
  <2>2. CASE size = 8 /\ n = 3
    <3>1. 1 \in 1 .. n /\ 2 \in 1 .. n /\ 3 \in 1 .. n BY <2>2
    <3> QED BY <2>1, <2>2, <3>1
  <2>3. CASE size = 8 /\ n = 4
    <3>1. 1 \in 1 .. n /\ 2 \in 1 .. n /\ 3 \in 1 .. n /\ 4 \in 1 .. n BY <2>3
    <3> QED BY <2>1, <2>3, <3>1
  <2>4. CASE size = 16 /\ n = 3
    <3>1. 1 \in 1 .. n /\ 2 \in 1 .. n /\ 3 \in 1 .. n BY <2>4
    <3> QED BY <2>1, <2>4, <3>1
  <2>5. CASE size = 16 /\ n = 4
    <3>1. 1 \in 1 .. n /\ 2 \in 1 .. n /\ 3 \in 1 .. n /\ 4 \in 1 .. n BY <2>5
    <3> QED BY <2>1, <2>5, <3>1
  <2> QED BY <2>2, <2>3, <2>4, <2>5
<1>8. Join(w, size, n) = bits \cap 1 .. size * n
  <2>1. ASSUME NEW b \in Int PROVE b \in Join(w, size, n) <=> b \in bits \cap 1 .. size * n
    BY <1>6, <1>7
  <2> QED BY <1>5, <2>1, SameBits
<1> QED BY <1>1, <1>8 DEF w

\* They are all of them if the pixel fits into the words.
LEMMA SplitRestored ==
  /\ \A bits \in SUBSET (1 .. 32) : /\ Split(bits, 8, 4) \in [1 .. 4 -> SUBSET (1 .. 8)]
                                   /\ Join(Split(bits, 8, 4), 8, 4) = bits
  /\ \A bits \in SUBSET (1 .. 24) : /\ Split(bits, 8, 3) \in [1 .. 4 -> SUBSET (1 .. 8)]
                                   /\ Join(Split(bits, 8, 3), 8, 3) = bits
  /\ \A bits \in SUBSET (1 .. 64) : /\ Split(bits, 16, 4) \in [1 .. 4 -> SUBSET (1 .. 16)]
                                   /\ Join(Split(bits, 16, 4), 16, 4) = bits
  /\ \A bits \in SUBSET (1 .. 48) : /\ Split(bits, 16, 3) \in [1 .. 4 -> SUBSET (1 .. 16)]
                                   /\ Join(Split(bits, 16, 3), 16, 3) = bits
<1>1. /\ 1 .. 8 * 4 = 1 .. 32 /\ 1 .. 8 * 3 = 1 .. 24
      /\ 1 .. 16 * 4 = 1 .. 64 /\ 1 .. 16 * 3 = 1 .. 48
  OBVIOUS
<1>2. ASSUME NEW bits \in SUBSET (1 .. 32)
      PROVE  /\ Split(bits, 8, 4) \in [1 .. 4 -> SUBSET (1 .. 8)]
             /\ Join(Split(bits, 8, 4), 8, 4) = bits
  <2>1. bits \in SUBSET (1 .. 64) OBVIOUS
  <2>2. bits \cap 1 .. 32 = bits OBVIOUS
  <2> QED BY <1>1, <2>1, <2>2, SplitJoin
<1>3. ASSUME NEW bits \in SUBSET (1 .. 24)
      PROVE  /\ Split(bits, 8, 3) \in [1 .. 4 -> SUBSET (1 .. 8)]
             /\ Join(Split(bits, 8, 3), 8, 3) = bits
  <2>1. bits \in SUBSET (1 .. 64) OBVIOUS
  <2>2. bits \cap 1 .. 24 = bits OBVIOUS
  <2> QED BY <1>1, <2>1, <2>2, SplitJoin
<1>4. ASSUME NEW bits \in SUBSET (1 .. 64)
      PROVE  /\ Split(bits, 16, 4) \in [1 .. 4 -> SUBSET (1 .. 16)]
             /\ Join(Split(bits, 16, 4), 16, 4) = bits
  <2>1. bits \cap 1 .. 64 = bits OBVIOUS
  <2> QED BY <1>1, <2>1, SplitJoin
<1>5. ASSUME NEW bits \in SUBSET (1 .. 48)
      PROVE  /\ Split(bits, 16, 3) \in [1 .. 4 -> SUBSET (1 .. 16)]
             /\ Join(Split(bits, 16, 3), 16, 3) = bits
  <2>1. bits \in SUBSET (1 .. 64) OBVIOUS
  <2>2. bits \cap 1 .. 48 = bits OBVIOUS
  <2> QED BY <1>1, <2>1, <2>2, SplitJoin
<1> QED BY <1>2, <1>3, <1>4, <1>5

------------------------------------------------------------------------------
(* One pass through an engine *)

\* The engines by name.
Engines == {"RLE4B", "DiffRLE4B", "RLEYUV", "DiffRLEYUV", "RLE10A2", "RLE565", "RLE4HF", "DiffRLE4HF"}

\* The bits of a pixel that come back, and those that are always set.
Kept(e, drops) ==
  IF e = "RLE565"
  THEN IF drops THEN 4 .. 8 \cup 11 .. 16 \cup 20 .. 24
       ELSE 4 .. 8 \cup 12 .. 16 \cup 20 .. 24 \cup {32}
  ELSE 1 .. WordBits(e) * (IF drops THEN 3 ELSE 4)

Filled(e, drops) ==
  IF e # "RLE565" THEN {} ELSE IF drops THEN {18, 10, 2} ELSE 25 .. 30 \cup {19, 11, 3}

Pass(e, drops, bits) == (bits \cap Kept(e, drops)) \cup Filled(e, drops)

\* What an engine makes of a pixel with alpha, over all its words.
LEMMA PassAlpha ==
  ASSUME NEW e \in Engines, NEW bits \in SUBSET (1 .. PixelBits(e))
  PROVE  /\ WordsAlpha(e, bits) \in [1 .. 4 -> SUBSET (1 .. WordBits(e))]
         /\ PixelAlpha(e, WordsAlpha(e, bits)) = Pass(e, FALSE, bits)
<1>1. CASE e = "RLE10A2"
  <2>1. WordBits(e) = 8 /\ bits \in SUBSET (1 .. 32)
    BY <1>1 DEF WordBits, PixelBits
  <2>2. Pass(e, FALSE, bits) = bits
    <3>1. Kept(e, FALSE) = 1 .. PixelBits(e) /\ Filled(e, FALSE) = {}
      BY <1>1, <2>1 DEF Kept, Filled, PixelBits
    <3> QED BY <3>1 DEF Pass
  <2> QED BY <1>1, <2>1, <2>2, TenBits DEF WordsAlpha, PixelAlpha
<1>2. CASE e \in {"RLE4B", "DiffRLE4B", "RLEYUV", "DiffRLEYUV"}
  <2>1. WordBits(e) = 8 /\ bits \in SUBSET (1 .. 32)
    BY <1>2 DEF WordBits, PixelBits
  <2>2. Pass(e, FALSE, bits) = bits
    <3>1. Kept(e, FALSE) = 1 .. PixelBits(e) /\ Filled(e, FALSE) = {}
      BY <1>2, <2>1 DEF Kept, Filled, PixelBits
    <3> QED BY <3>1 DEF Pass
  <2> DEFINE moved == IF e \in {"DiffRLE4B", "DiffRLEYUV"} THEN SwizzleUInt32(bits) ELSE bits
  <2>3. moved \in SUBSET (1 .. 32)
    BY <2>1, UInt32
  <2>4. WordsAlpha(e, bits) = Split(moved, 8, 4)
    BY <1>2, <2>1 DEF WordsAlpha, SwizzleYUVA
  <2>5. PixelAlpha(e, WordsAlpha(e, bits))
          = IF e \in {"DiffRLE4B", "DiffRLEYUV"} THEN DeswizzleUInt32(Join(WordsAlpha(e, bits), 8, 4))
            ELSE Join(WordsAlpha(e, bits), 8, 4)
    BY <1>2, <2>1 DEF PixelAlpha, DeswizzleYUVA
  <2> HIDE DEF moved
  <2>6. Split(moved, 8, 4) \in [1 .. 4 -> SUBSET (1 .. 8)] /\ Join(Split(moved, 8, 4), 8, 4) = moved
    BY <2>3, SplitRestored
  <2> QED BY <2>1, <2>2, <2>4, <2>5, <2>6, UInt32 DEF moved
<1>3. CASE e \in {"RLE4HF", "DiffRLE4HF"}
  <2>1. WordBits(e) = 16 /\ bits \in SUBSET (1 .. 64)
    BY <1>3 DEF WordBits, PixelBits
  <2>2. Pass(e, FALSE, bits) = bits
    <3>1. Kept(e, FALSE) = 1 .. PixelBits(e) /\ Filled(e, FALSE) = {}
      BY <1>3, <2>1 DEF Kept, Filled, PixelBits
    <3> QED BY <3>1 DEF Pass
  <2> DEFINE moved == IF e = "DiffRLE4HF" THEN Swizzle4HFAlpha(bits) ELSE bits
  <2>3. moved \in SUBSET (1 .. 64)
    BY <2>1, HalfFloatsAlpha
  <2>4. WordsAlpha(e, bits) = Split(moved, 16, 4)
    BY <1>3, <2>1 DEF WordsAlpha
  <2>5. PixelAlpha(e, WordsAlpha(e, bits))
          = IF e = "DiffRLE4HF" THEN Deswizzle4HFAlpha(Join(WordsAlpha(e, bits), 16, 4))
            ELSE Join(WordsAlpha(e, bits), 16, 4)
    BY <1>3, <2>1 DEF PixelAlpha
  <2> HIDE DEF moved
  <2>6. Split(moved, 16, 4) \in [1 .. 4 -> SUBSET (1 .. 16)] /\ Join(Split(moved, 16, 4), 16, 4) = moved
    BY <2>3, SplitRestored
  <2> QED BY <2>1, <2>2, <2>4, <2>5, <2>6, HalfFloatsAlpha DEF moved
<1>4. CASE e = "RLE565"
  <2>1. WordBits(e) = 8 /\ bits \in SUBSET (1 .. 32)
    BY <1>4 DEF WordBits, PixelBits
  <2> DEFINE moved == Swizzle565Alpha(bits)
  <2>2. moved \in SUBSET (1 .. 16) /\ Deswizzle565Alpha(moved) = Pass(e, FALSE, bits)
    BY <1>4, <2>1, Colours565Alpha DEF Pass, Kept, Filled
  <2>3. WordsAlpha(e, bits) = Split(moved, 8, 4)
    BY <1>4, <2>1 DEF WordsAlpha
  <2>4. PixelAlpha(e, WordsAlpha(e, bits)) = Deswizzle565Alpha(Join(WordsAlpha(e, bits), 8, 4))
    BY <1>4, <2>1 DEF PixelAlpha
  <2> HIDE DEF moved
  <2>5. Split(moved, 8, 4) \in [1 .. 4 -> SUBSET (1 .. 8)] /\ Join(Split(moved, 8, 4), 8, 4) = moved
    BY <2>2, SplitRestored
  <2> QED BY <2>1, <2>2, <2>3, <2>4, <2>5
<1> QED BY <1>1, <1>2, <1>3, <1>4 DEF Engines

\* What an engine makes of a pixel without alpha.
LEMMA PassNoAlpha ==
  ASSUME NEW e \in Engines \ {"RLE10A2"}, NEW bits \in SUBSET (1 .. PixelBits(e))
  PROVE  /\ WordsNoAlpha(e, bits) \in [1 .. 4 -> SUBSET (1 .. WordBits(e))]
         /\ PixelNoAlpha(e, WordsNoAlpha(e, bits)) = Pass(e, TRUE, bits)
<1>1. CASE e \in {"RLE4B", "RLEYUV"}
  <2>1. WordBits(e) = 8 /\ bits \in SUBSET (1 .. 64)
    BY <1>1 DEF WordBits, PixelBits
  <2>2. Pass(e, TRUE, bits) = bits \cap 1 .. 8 * 3
    BY <1>1, <2>1 DEF Pass, Kept, Filled
  <2> QED BY <1>1, <2>1, <2>2, SplitJoin DEF WordsNoAlpha, PixelNoAlpha
<1>2. CASE e = "RLE4HF"
  <2>1. WordBits(e) = 16 /\ bits \in SUBSET (1 .. 64)
    BY <1>2 DEF WordBits, PixelBits
  <2>2. Pass(e, TRUE, bits) = bits \cap 1 .. 16 * 3
    BY <1>2, <2>1 DEF Pass, Kept, Filled
  <2> QED BY <1>2, <2>1, <2>2, SplitJoin DEF WordsNoAlpha, PixelNoAlpha
<1>3. CASE e \in {"DiffRLE4B", "DiffRLEYUV"}
  <2>1. WordBits(e) = 8 /\ bits \in SUBSET (1 .. 32)
    BY <1>3 DEF WordBits, PixelBits
  <2> DEFINE moved == SwizzleUInt24(bits)
  <2>2. moved \in SUBSET (1 .. 24) /\ DeswizzleUInt24(moved) = Pass(e, TRUE, bits)
    BY <1>3, <2>1, UInt24 DEF Pass, Kept, Filled
  <2>3. WordsNoAlpha(e, bits) = Split(moved, 8, 3)
    BY <1>3, <2>1 DEF WordsNoAlpha, SwizzleYUV
  <2>4. PixelNoAlpha(e, WordsNoAlpha(e, bits)) = DeswizzleUInt24(Join(WordsNoAlpha(e, bits), 8, 3))
    BY <1>3, <2>1 DEF PixelNoAlpha, DeswizzleYUV
  <2> HIDE DEF moved
  <2>5. Split(moved, 8, 3) \in [1 .. 4 -> SUBSET (1 .. 8)] /\ Join(Split(moved, 8, 3), 8, 3) = moved
    BY <2>2, SplitRestored
  <2> QED BY <2>1, <2>2, <2>3, <2>4, <2>5
<1>4. CASE e = "DiffRLE4HF"
  <2>1. WordBits(e) = 16 /\ bits \in SUBSET (1 .. 64)
    BY <1>4 DEF WordBits, PixelBits
  <2> DEFINE moved == Swizzle4HF(bits)
  <2>2. moved \in SUBSET (1 .. 48) /\ Deswizzle4HF(moved) = Pass(e, TRUE, bits)
    BY <1>4, <2>1, HalfFloats DEF Pass, Kept, Filled
  <2>3. WordsNoAlpha(e, bits) = Split(moved, 16, 3)
    BY <1>4, <2>1 DEF WordsNoAlpha
  <2>4. PixelNoAlpha(e, WordsNoAlpha(e, bits)) = Deswizzle4HF(Join(WordsNoAlpha(e, bits), 16, 3))
    BY <1>4, <2>1 DEF PixelNoAlpha
  <2> HIDE DEF moved
  <2>5. Split(moved, 16, 3) \in [1 .. 4 -> SUBSET (1 .. 16)] /\ Join(Split(moved, 16, 3), 16, 3) = moved
    BY <2>2, SplitRestored
  <2> QED BY <2>1, <2>2, <2>3, <2>4, <2>5
<1>5. CASE e = "RLE565"
  <2>1. WordBits(e) = 8 /\ bits \in SUBSET (1 .. 32)
    BY <1>5 DEF WordBits, PixelBits
  <2> DEFINE moved == Swizzle565(bits)
  <2>2. moved \in SUBSET (1 .. 16) /\ Deswizzle565(moved) = Pass(e, TRUE, bits)
    BY <1>5, <2>1, Colours565 DEF Pass, Kept, Filled
  <2>3. WordsNoAlpha(e, bits) = Split(moved, 8, 3)
    BY <1>5, <2>1 DEF WordsNoAlpha
  <2>4. PixelNoAlpha(e, WordsNoAlpha(e, bits)) = Deswizzle565(Join(WordsNoAlpha(e, bits), 8, 3))
    BY <1>5, <2>1 DEF PixelNoAlpha
  <2> HIDE DEF moved
  <2>5. Split(moved, 8, 3) \in [1 .. 4 -> SUBSET (1 .. 8)] /\ Join(Split(moved, 8, 3), 8, 3) = moved
    BY <2>2, SplitRestored
  <2> QED BY <2>1, <2>2, <2>3, <2>4, <2>5
<1> QED BY <1>1, <1>2, <1>3, <1>4, <1>5 DEF Engines

------------------------------------------------------------------------------
(* The invariant *)

\* A pixel that went through the engine is what one pass makes of the original,
\* however often it did; and the words are those of the pixel.
IInv ==
  /\ TypeOK
  /\ ignoreAlpha => layout # "depth"
  /\ pixel = IF generation = 0 THEN original ELSE Pass(engine, DropsAlpha, original)
  /\ pc = "words" =>
       /\ generation < Generations
       /\ words = IF DropsAlpha THEN WordsNoAlpha(engine, pixel) ELSE WordsAlpha(engine, pixel)

\* A second pass returns what the first one did.
LEMMA PassTwice ==
  ASSUME NEW e, NEW drops, NEW bits
  PROVE  Pass(e, drops, Pass(e, drops, bits)) = Pass(e, drops, bits)
BY DEF Pass

\* A pass makes a pixel of a pixel.
LEMMA PassType ==
  ASSUME NEW e \in Engines, NEW drops \in BOOLEAN, NEW bits \in SUBSET (1 .. PixelBits(e))
  PROVE  Pass(e, drops, bits) \in SUBSET (1 .. PixelBits(e))
<1>1. Filled(e, drops) \in SUBSET (1 .. PixelBits(e))
  BY DEF Filled, PixelBits, WordBits
<1> QED BY <1>1 DEF Pass

\* The engine is one of those above, and RLE10A2 never drops alpha.
LEMMA EngineType ==
  ASSUME TypeOK
  PROVE  engine \in Engines /\ DropsAlpha \in BOOLEAN /\ (DropsAlpha => engine # "RLE10A2")
BY DEF TypeOK, Registered, Engines, DropsAlpha

\* The invariant holds: by induction over Compress and Decompress.
THEOREM Inductive == Spec => []IInv
<1>1. Init => IInv
  <2> SUFFICES ASSUME Init PROVE IInv
    OBVIOUS
  <2>1. <<engine, layout>> \in Registered
    BY DEF Init, Registered
  <2>2. words \in [1 .. 4 -> SUBSET (1 .. WordBits(engine))]
    BY DEF Init
  <2>3. 0 \in 0 .. Generations
    BY SwizzleAssumption
  <2> QED BY <2>1, <2>2, <2>3 DEF Init, IInv, TypeOK
<1>2. IInv /\ [Next]_vars => IInv'
  <2> SUFFICES ASSUME IInv, [Next]_vars PROVE IInv'
    OBVIOUS
  <2>1. /\ engine \in Engines /\ DropsAlpha \in BOOLEAN
        /\ DropsAlpha => engine \in Engines \ {"RLE10A2"}
    BY EngineType DEF IInv
  <2>2. pixel \in SUBSET (1 .. PixelBits(engine)) /\ original \in SUBSET (1 .. PixelBits(engine))
    BY DEF IInv, TypeOK
  <2>3. CASE Compress
    <3>1. words' \in [1 .. 4 -> SUBSET (1 .. WordBits(engine))]
      BY <2>1, <2>2, <2>3, PassAlpha, PassNoAlpha DEF Compress
    <3>2. TypeOK'
      BY <2>3, <3>1 DEF Compress, IInv, TypeOK
    <3>3. DropsAlpha' = DropsAlpha
      BY <2>3 DEF Compress, DropsAlpha
    <3> QED BY <2>3, <3>2, <3>3 DEF Compress, IInv
  <2>4. CASE Decompress
    <3>1. pixel' = Pass(engine, DropsAlpha, pixel)
      BY <2>1, <2>2, <2>4, PassAlpha, PassNoAlpha DEF Decompress, IInv
    <3>2. pixel' = Pass(engine, DropsAlpha, original)
      BY <3>1, PassTwice DEF IInv
    <3>3. pixel' \in SUBSET (1 .. PixelBits(engine))
      BY <2>1, <2>2, <3>1, PassType
    <3>4. generation' \in 0 .. Generations /\ generation' # 0
      BY <2>4, SwizzleAssumption DEF Decompress, IInv, TypeOK
    <3>5. TypeOK'
      BY <2>4, <3>3, <3>4 DEF Decompress, IInv, TypeOK
    <3>6. DropsAlpha' = DropsAlpha
      BY <2>4 DEF Decompress, DropsAlpha
    <3> QED BY <2>4, <3>2, <3>4, <3>5, <3>6 DEF Decompress, IInv
  <2>5. CASE UNCHANGED vars
    BY <2>5 DEF vars, IInv, TypeOK, DropsAlpha
  <2> QED BY <2>3, <2>4, <2>5 DEF Next, Finished
<1> QED BY <1>1, <1>2, PTL DEF Spec

\* Every variable keeps its type, for all pixels and any number of passes: no
\* map moves a bit out of a word or of the pixel.
THEOREM TypeCorrect == Spec => []TypeOK
<1>1. IInv => TypeOK
  BY DEF IInv
<1> QED BY <1>1, Inductive, PTL

\* Every pixel keeps all bits of its colours in a lossless engine, and alpha
\* unless it is to be dropped.
THEOREM LosslessAlways == Spec => []Lossless
<1>1. IInv => Lossless
  <2> SUFFICES ASSUME IInv, engine # "RLE565"
               PROVE  /\ ~ignoreAlpha => pixel = original
                      /\ ~(engine = "RLE4B" /\ layout = "ten") =>
                           pixel \cap Colours = original \cap Colours
    BY DEF Lossless
  <2>1. original \in SUBSET (1 .. PixelBits(engine)) /\ <<engine, layout>> \in Registered
    BY DEF IInv, TypeOK
  <2>2. pixel = original \/ pixel = original \cap Kept(engine, DropsAlpha)
    BY DEF IInv, Pass, Filled
  <2>3. CASE ~DropsAlpha
    <3>1. Kept(engine, DropsAlpha) = 1 .. PixelBits(engine)
      BY <2>3, <2>1 DEF Kept, PixelBits, WordBits
    <3> QED BY <2>1, <2>2, <3>1
  <2>4. CASE DropsAlpha
    <3>1. ignoreAlpha
      BY <2>4 DEF DropsAlpha
    <3>2. layout # "depth"
      BY <3>1 DEF IInv
    <3>3. ASSUME ~(engine = "RLE4B" /\ layout = "ten")
          PROVE  Colours \in SUBSET Kept(engine, DropsAlpha)
      BY <2>1, <2>4, <3>2, <3>3 DEF Registered, Colours, Alpha, Kept, PixelBits, WordBits, DropsAlpha
    <3> QED BY <2>2, <3>1, <3>3
  <2> QED BY <2>3, <2>4
<1> QED BY <1>1, Inductive, PTL

\* The lossy engine returns the significant bits of every pixel.
THEOREM MostSignificantAlways == Spec => []MostSignificant
<1>1. IInv => MostSignificant
  <2> SUFFICES ASSUME IInv, engine = "RLE565"
               PROVE  pixel \cap Kept565 = original \cap Kept565
    BY DEF MostSignificant
  <2>1. DropsAlpha = ignoreAlpha /\ ignoreAlpha \in BOOLEAN
    BY DEF DropsAlpha, IInv, TypeOK
  <2>2. Kept(engine, DropsAlpha) = Kept565
    BY <2>1 DEF Kept, Kept565
  <2>3. Filled(engine, DropsAlpha) \cap Kept565 = {}
    BY <2>1 DEF Filled, Kept565
  <2> QED BY <2>2, <2>3 DEF IInv, Pass
<1> QED BY <1>1, Inductive, PTL

\* What came out of an engine once comes out unchanged ever after.
THEOREM Stable == Spec => NoDrift
<1>1. IInv /\ IInv' /\ [Next]_vars => [(generation >= 1 /\ generation' > generation) => pixel' = pixel]_vars
  <2> SUFFICES ASSUME IInv, IInv', [Next]_vars, generation >= 1, generation' > generation
               PROVE  pixel' = pixel
    OBVIOUS
  <2>1. generation \in Nat
    BY SwizzleAssumption DEF IInv, TypeOK
  <2>2. Decompress
    BY <2>1 DEF Next, Compress, Finished, vars
  <2>3. generation # 0 /\ generation' # 0
    BY <2>1, <2>2 DEF Decompress
  <2>4. Pass(engine, DropsAlpha, original)' = Pass(engine, DropsAlpha, original)
    BY <2>2 DEF Decompress, DropsAlpha
  <2> QED BY <2>3, <2>4 DEF IInv
<1> QED BY <1>1, Inductive, PTL DEF Spec, NoDrift
===================================================================================
