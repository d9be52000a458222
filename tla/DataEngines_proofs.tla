---------------------------- MODULE DataEngines_proofs ----------------------------
(****************************************************************************)
(* Proofs about DataEngines for any size of the fields of the formats, any   *)
(* hash functions, chunks, rooms and damages.                                *)
(*                                                                           *)
(* The inductive invariant divides a stream by cuts: places between codes,   *)
(* each with the position of the chunk reached there.  The compressors add   *)
(* cuts at the end, and the decompressors go from one cut to the next.       *)
(****************************************************************************)
EXTENDS DataEngines, SequenceTheorems, WellFoundedInduction, TLAPS

------------------------------------------------------------------------------
(* Fields of bytes *)

\* Multiplication is monotonic.
LEMMA TimesMonotonic ==
  \A a, b, c \in Nat : a <= b => a * c <= b * c
<1> SUFFICES ASSUME NEW a \in Nat, NEW b \in Nat, NEW c \in Nat, a <= b
             PROVE  a * c <= b * c
  OBVIOUS
<1>1. PICK d \in Nat : b = a + d
  <2>1. b - a \in Nat /\ b = a + (b - a)
    OBVIOUS
  <2> QED
    BY <2>1
<1>2. (a + d) * c = a * c + d * c
  OBVIOUS
<1>3. d * c \in Nat /\ a * c \in Nat
  OBVIOUS
<1> QED
  BY <1>1, <1>2, <1>3

\* What quotient and remainder mean.
LEMMA Division ==
  ASSUME NEW n \in Nat, NEW c \in Nat \ {0}
  PROVE  /\ n \div c \in Nat /\ n % c \in 0 .. c - 1
         /\ n = (n \div c) * c + (n % c)
OBVIOUS

\* A number has one quotient and one remainder.
LEMMA DivisionUnique ==
  ASSUME NEW c \in Nat \ {0}, NEW q \in Nat, NEW r \in 0 .. c - 1
  PROVE  (q * c + r) \div c = q /\ (q * c + r) % c = r
<1> DEFINE n == q * c + r
           p == n \div c
           s == n % c
<1>1. q * c \in Nat /\ n \in Nat
  OBVIOUS
<1>2. p \in Nat /\ s \in 0 .. c - 1 /\ n = p * c + s
  BY <1>1, Division
<1>3. n = q * c + r
  OBVIOUS
<1> HIDE DEF n, p, s
<1>4. ~(p + 1 <= q)
  <2>1. (p + 1) * c = p * c + c
    BY <1>2
  <2>2. p + 1 <= q => (p + 1) * c <= q * c
    BY <1>2, TimesMonotonic
  <2> QED
    BY <1>1, <1>2, <1>3, <2>1, <2>2
<1>5. ~(q + 1 <= p)
  <2>1. (q + 1) * c = q * c + c
    OBVIOUS
  <2>2. q + 1 <= p => (q + 1) * c <= p * c
    BY <1>2, TimesMonotonic
  <2>3. p * c \in Nat
    BY <1>2
  <2> QED
    BY <1>1, <1>2, <1>3, <2>1, <2>2, <2>3
<1>6. p = q
  BY <1>2, <1>4, <1>5
<1>7. s = r
  BY <1>1, <1>2, <1>3, <1>6
<1> QED
  BY <1>6, <1>7 DEF n, p, s

\* The quotient grows with the number.
LEMMA DivisionBound ==
  ASSUME NEW c \in Nat \ {0}, NEW n \in Nat, NEW q \in Nat, n < q * c
  PROVE  n \div c < q
<1>1. n \div c \in Nat /\ (n \div c) * c <= n
  <2>1. n \div c \in Nat /\ n % c \in Nat /\ n = (n \div c) * c + (n % c)
    BY Division
  <2>2. (n \div c) * c \in Nat
    BY <2>1
  <2> QED
    BY <2>1, <2>2
<1>2. q <= n \div c => q * c <= (n \div c) * c
  BY <1>1, TimesMonotonic
<1>3. q * c \in Nat /\ (n \div c) * c \in Nat
  BY <1>1
<1> QED
  BY <1>1, <1>2, <1>3

\* The sizes of the fields, and the largest byte.
LEMMA Sizes ==
  /\ Lengths \in Nat /\ Lengths >= 3 /\ Highs \in Nat /\ Highs >= 3
  /\ Bytes \in Nat /\ Bytes >= 9 /\ Bytes >= Highs + Highs + Highs
  /\ Bytes >= Lengths + Lengths + Lengths
  /\ Byte = 0 .. Bytes - 1
<1>1. Lengths \in Nat /\ Lengths >= 3 /\ Highs \in Nat /\ Highs >= 3
  BY LZ77Assumption
<1>2. 3 * Highs <= Lengths * Highs /\ 3 * Lengths <= Highs * Lengths
  BY <1>1, TimesMonotonic
<1>3. Lengths * Highs = Highs * Lengths /\ Lengths * Highs \in Nat
  BY <1>1
<1> QED
  BY <1>1, <1>2, <1>3 DEF Bytes, Byte

\* A byte of a length and the high part of a distance splits into these again.
LEMMA Fields ==
  ASSUME NEW len \in 0 .. Lengths - 1, NEW high \in 0 .. Highs - 1
  PROVE  /\ high + len * Highs \in Byte /\ len * Highs + high = high + len * Highs
         /\ (high + len * Highs) \div Highs = len /\ (high + len * Highs) % Highs = high
         /\ len > 0 => high + len * Highs >= Highs
<1>1. Highs \in Nat \ {0} /\ Lengths \in Nat /\ Bytes = Lengths * Highs /\ Byte = 0 .. Bytes - 1
  BY Sizes DEF Bytes
<1>2. len * Highs \in Nat /\ len * Highs + high = high + len * Highs
  BY <1>1
<1>3. (len * Highs + high) \div Highs = len /\ (len * Highs + high) % Highs = high
  <2>1. len \in Nat /\ high \in 0 .. Highs - 1
    OBVIOUS
  <2> QED
    BY <1>1, <2>1, DivisionUnique
<1>4. (len + 1) * Highs = len * Highs + Highs /\ (len + 1) * Highs <= Lengths * Highs
  BY <1>1, TimesMonotonic
<1>5. len > 0 => 1 * Highs <= len * Highs
  BY <1>1, TimesMonotonic
<1> QED
  BY <1>1, <1>2, <1>3, <1>4, <1>5

\* A byte is at least Highs exactly if its length is not 0.
LEMMA FieldsOf ==
  ASSUME NEW byte \in Byte
  PROVE  /\ byte \div Highs \in 0 .. Lengths - 1 /\ byte % Highs \in 0 .. Highs - 1
         /\ byte < Highs => byte \div Highs = 0 /\ byte % Highs = byte
         /\ byte >= Highs => byte \div Highs >= 1
<1>1. Highs \in Nat \ {0} /\ Lengths \in Nat /\ byte \in Nat /\ byte < Lengths * Highs
  BY Sizes DEF Bytes
<1>2. byte \div Highs \in Nat /\ byte % Highs \in 0 .. Highs - 1
      /\ byte = (byte \div Highs) * Highs + (byte % Highs)
  BY <1>1, Division
<1>3. byte \div Highs < Lengths
  BY <1>1, DivisionBound
<1>4. byte < Highs => (0 * Highs + byte) \div Highs = 0 /\ (0 * Highs + byte) % Highs = byte
  <2> SUFFICES ASSUME byte < Highs
               PROVE  (0 * Highs + byte) \div Highs = 0 /\ (0 * Highs + byte) % Highs = byte
    OBVIOUS
  <2>1. byte \in 0 .. Highs - 1
    BY <1>1
  <2> QED
    BY <1>1, <2>1, DivisionUnique
<1>5. 0 * Highs + byte = byte
  BY <1>1
<1>6. byte \div Highs = 0 => byte < Highs
  BY <1>1, <1>2
<1> QED
  BY <1>1, <1>2, <1>3, <1>4, <1>5, <1>6

------------------------------------------------------------------------------
(* Codes and cuts *)

\* What the byte behind place c of a stream says; the first one is without mark.
Ctrl(s, c) == IF c = 0 THEN s[1] % Highs ELSE s[c + 1]

Holds(s, c, code) == \A i \in 1 .. Len(code) : s[c + i] = code[i]

\* The bytes of a chunk from k to j are those that are back bytes before them.
Copies(chunk, k, j, back) ==
  /\ back \in 1 .. k
  /\ \A i \in k + 1 .. j : chunk[i] = chunk[i - back]

\* The distances and lengths of the two formats, and the codes of a match.  LZF
\* writes the format of level 1.
Offsets(l)  == IF l = 1 THEN 0 .. Highs * Bytes - 1 ELSE 0 .. Fast!MaxFar - 2
Matched(l)  == IF l = 1 THEN 1 .. Bytes + Lengths - 2 ELSE Nat \ {0}
BackCode(l, off, len) ==
  IF l = 1 THEN Lzf!Reference(off, len) ELSE Fast!LevelTwo(off, len)

\* The code from place c of a stream to place d restores the bytes from k to j.
RunCode(chunk, s, c, k, d, j) ==
  \E n \in 1 .. Highs :
    /\ Ctrl(s, c) = n - 1 /\ d = c + 1 + n /\ j = k + n
    /\ \A i \in 1 .. n : s[c + 1 + i] = chunk[k + i]

MatchCode(l, chunk, s, c, k, d, j) ==
  \E off \in Offsets(l), len \in Matched(l) :
    /\ d = c + Len(BackCode(l, off, len)) /\ j = k + len + 2
    /\ Holds(s, c, BackCode(l, off, len))
    /\ Copies(chunk, k, j, off + 1)

Code(l, chunk, s, c, k, d, j) ==
  RunCode(chunk, s, c, k, d, j) \/ (c > 0 /\ MatchCode(l, chunk, s, c, k, d, j))

\* The first n bytes of a stream are codes of the first k bytes of a chunk: at
\* gives the position in the chunk for each cut of the stream.
Cuts(l, chunk, s, n, k, at) ==
  /\ DOMAIN at \subseteq 0 .. n /\ 0 \in DOMAIN at /\ n \in DOMAIN at
  /\ at[0] = 0 /\ at[n] = k
  /\ \A c \in DOMAIN at : at[c] \in 0 .. k
  /\ \A c \in DOMAIN at \ {n} :
       \E d \in DOMAIN at : c < d /\ Code(l, chunk, s, c, at[c], d, at[d])

Coded(l, chunk, s, n, k) ==
  n \in Nat /\ k \in Nat /\ \E at : Cuts(l, chunk, s, n, k, at)

\* A code depends on its bytes only.
LEMMA CodeKept ==
  ASSUME NEW l, NEW chunk, NEW s, NEW t, NEW c \in Nat, NEW k, NEW d \in Nat, NEW j,
         Code(l, chunk, s, c, k, d, j), c < d,
         Ctrl(t, c) = Ctrl(s, c), \A i \in c + 2 .. d : t[i] = s[i]
  PROVE  Code(l, chunk, t, c, k, d, j)
<1>1. CASE RunCode(chunk, s, c, k, d, j)
  <2>1. PICK n \in 1 .. Highs :
          /\ Ctrl(s, c) = n - 1 /\ d = c + 1 + n /\ j = k + n
          /\ \A i \in 1 .. n : s[c + 1 + i] = chunk[k + i]
    BY <1>1 DEF RunCode
  <2>2. \A i \in 1 .. n : t[c + 1 + i] = s[c + 1 + i]
    <3> SUFFICES ASSUME NEW i \in 1 .. n PROVE t[c + 1 + i] = s[c + 1 + i]
      OBVIOUS
    <3>1. c + 1 + i \in c + 2 .. d
      BY <2>1, Sizes
    <3> QED
      BY <3>1
  <2>3. RunCode(chunk, t, c, k, d, j)
    BY <2>1, <2>2 DEF RunCode
  <2> QED
    BY <2>3 DEF Code
<1>2. CASE c > 0 /\ MatchCode(l, chunk, s, c, k, d, j)
  <2>1. PICK off \in Offsets(l), len \in Matched(l) :
          /\ d = c + Len(BackCode(l, off, len)) /\ j = k + len + 2
          /\ Holds(s, c, BackCode(l, off, len))
          /\ Copies(chunk, k, j, off + 1)
    BY <1>2 DEF MatchCode
  <2> DEFINE code == BackCode(l, off, len)
  <2>2. \A i \in 1 .. Len(code) : t[c + i] = s[c + i]
    <3> SUFFICES ASSUME NEW i \in 1 .. Len(code) PROVE t[c + i] = s[c + i]
      OBVIOUS
    <3>1. i \in Int /\ (i = 1 => t[c + i] = s[c + i])
      BY <1>2 DEF Ctrl
    <3>2. d = c + Len(code) /\ i >= 1 /\ i <= Len(code)
      BY <2>1
    <3> HIDE DEF code
    <3>3. CASE i # 1
      <4>1. c + i \in c + 2 .. c + Len(code)
        BY <3>1, <3>2, <3>3
      <4> QED
        BY <3>2, <4>1
    <3> QED
      BY <3>1, <3>3
  <2>3. Holds(t, c, code)
    BY <2>1, <2>2 DEF Holds
  <2> QED
    BY <1>2, <2>1, <2>3 DEF Code, MatchCode
<1> QED
  BY <1>1, <1>2 DEF Code

\* The codes stay when bytes behind them, or the mark of the first one, change.
LEMMA CodedKept ==
  ASSUME NEW l, NEW chunk, NEW s, NEW t, NEW n, NEW k, Coded(l, chunk, s, n, k),
         n > 0 => Ctrl(t, 0) = Ctrl(s, 0), \A i \in 2 .. n : t[i] = s[i]
  PROVE  Coded(l, chunk, t, n, k)
<1>1. PICK at : Cuts(l, chunk, s, n, k, at)
  BY DEF Coded
<1>2. n \in Nat /\ k \in Nat /\ DOMAIN at \subseteq 0 .. n
  BY <1>1 DEF Coded, Cuts
<1>3. ASSUME NEW c \in DOMAIN at \ {n}
      PROVE  \E d \in DOMAIN at : c < d /\ Code(l, chunk, t, c, at[c], d, at[d])
  <2>1. PICK d \in DOMAIN at : c < d /\ Code(l, chunk, s, c, at[c], d, at[d])
    BY <1>1, <1>3 DEF Cuts
  <2>2. c \in Nat /\ d \in Nat /\ d <= n
    BY <1>2, <1>3
  <2>3. \A i \in c + 2 .. d : t[i] = s[i]
    BY <1>2, <2>2
  <2>4. Ctrl(t, c) = Ctrl(s, c)
    <3>1. CASE c = 0
      BY <1>2, <2>1, <2>2, <3>1
    <3>2. CASE c # 0
      <4>1. c + 1 \in 2 .. n
        BY <1>2, <2>1, <2>2, <3>2
      <4> QED
        BY <3>2, <4>1 DEF Ctrl
    <3> QED
      BY <3>1, <3>2
  <2> QED
    BY <2>1, <2>2, <2>3, <2>4, CodeKept
<1>4. Cuts(l, chunk, t, n, k, at)
  BY <1>1, <1>3 DEF Cuts
<1> QED
  BY <1>2, <1>4 DEF Coded

\* In the beginning nothing is coded.
LEMMA NothingCoded ==
  ASSUME NEW l, NEW chunk, NEW s
  PROVE  Coded(l, chunk, s, 0, 0)
<1> DEFINE at == [c \in {0} |-> 0]
<1>1. DOMAIN at = {0} /\ at[0] = 0
  OBVIOUS
<1> HIDE DEF at
<1>2. Cuts(l, chunk, s, 0, 0, at)
  BY <1>1 DEF Cuts
<1> QED
  BY <1>2 DEF Coded

\* One more code.
LEMMA OneMore ==
  ASSUME NEW l, NEW chunk, NEW s, NEW n, NEW k, Coded(l, chunk, s, n, k),
         NEW m \in Nat, NEW j \in Nat, n < m, k <= j, Code(l, chunk, s, n, k, m, j)
  PROVE  Coded(l, chunk, s, m, j)
<1>1. PICK at : Cuts(l, chunk, s, n, k, at)
  BY DEF Coded
<1>2. n \in Nat /\ k \in Nat
  BY DEF Coded
<1> DEFINE more == [c \in DOMAIN at \cup {m} |-> IF c = m THEN j ELSE at[c]]
<1>3. /\ DOMAIN more = DOMAIN at \cup {m} /\ more[m] = j
      /\ \A c \in DOMAIN at : c # m /\ more[c] = at[c] /\ c \in 0 .. n /\ at[c] \in 0 .. k
  BY <1>1, <1>2 DEF Cuts
<1> HIDE DEF more
<1>4. /\ DOMAIN more \subseteq 0 .. m /\ 0 \in DOMAIN more /\ m \in DOMAIN more
      /\ more[0] = 0 /\ more[m] = j /\ n \in DOMAIN at /\ at[n] = k
      /\ \A c \in DOMAIN more : more[c] \in 0 .. j
  BY <1>1, <1>2, <1>3 DEF Cuts
<1>5. ASSUME NEW c \in DOMAIN more \ {m}
      PROVE  \E d \in DOMAIN more : c < d /\ Code(l, chunk, s, c, more[c], d, more[d])
  <2>1. CASE c = n
    BY <1>2, <1>3, <1>4, <2>1
  <2>2. CASE c # n
    <3>1. c \in DOMAIN at \ {n}
      BY <1>3, <1>5, <2>2
    <3>2. PICK d \in DOMAIN at : c < d /\ Code(l, chunk, s, c, at[c], d, at[d])
      BY <1>1, <3>1 DEF Cuts
    <3> QED
      BY <1>3, <3>1, <3>2
  <2> QED
    BY <2>1, <2>2
<1>6. Cuts(l, chunk, s, m, j, more)
  BY <1>4, <1>5 DEF Cuts
<1> QED
  BY <1>6 DEF Coded

------------------------------------------------------------------------------
(* What the compressors write *)

\* All of s codes the first p bytes of the chunk.
Closed(l, chunk, s, p) ==
  /\ s \in Seq(Byte) /\ p \in Nat
  /\ s # <<>> => s[1] < Highs
  /\ Coded(l, chunk, s, Len(s), p)

\* The last m bytes of s are an open run of literals, with the byte before it
\* reserved, and the bytes before that are codes.
OpenRun(l, chunk, s, p, m) ==
  /\ s \in Seq(Byte) /\ p \in Nat /\ m \in 0 .. Highs /\ m <= p /\ m < Len(s)
  /\ s[1] < Highs
  /\ Coded(l, chunk, s, Len(s) - m - 1, p - m)
  /\ \A i \in 1 .. m : s[Len(s) - m + i] = chunk[p - m + i]

\* What Append does, in terms of places.
LEMMA Appended ==
  ASSUME NEW s \in Seq(Byte), NEW b \in Byte
  PROVE  /\ Append(s, b) \in Seq(Byte) /\ Len(s) \in Nat
         /\ Len(Append(s, b)) = Len(s) + 1
         /\ \A i \in 1 .. Len(s) : Append(s, b)[i] = s[i]
         /\ Append(s, b)[Len(s) + 1] = b
OBVIOUS

\* A byte smaller than Highs is its own remainder.
LEMMA Unmarked ==
  ASSUME NEW s, s[1] \in Byte, s[1] < Highs
  PROVE  Ctrl(s, 0) = s[1]
BY FieldsOf DEF Ctrl

\* A literal joins the open run.
LEMMA OpenPut ==
  ASSUME NEW l, NEW chunk, NEW s, NEW p, NEW m, OpenRun(l, chunk, s, p, m),
         chunk[p + 1] \in Byte, m < Highs
  PROVE  OpenRun(l, chunk, Append(s, chunk[p + 1]), p + 1, m + 1)
<1> DEFINE t == Append(s, chunk[p + 1])
<1>1. /\ s \in Seq(Byte) /\ p \in Nat /\ m \in Nat /\ m <= p /\ m < Len(s) /\ s[1] < Highs
      /\ Highs \in Nat
  BY Sizes DEF OpenRun
<1>2. /\ t \in Seq(Byte) /\ Len(s) \in Nat /\ Len(t) = Len(s) + 1
      /\ \A i \in 1 .. Len(s) : t[i] = s[i]
      /\ t[Len(s) + 1] = chunk[p + 1]
  BY <1>1, Appended
<1> HIDE DEF t
<1>3. t[1] = s[1]
  BY <1>1, <1>2
<1>4. Coded(l, chunk, t, Len(t) - (m + 1) - 1, (p + 1) - (m + 1))
  <2>1. Coded(l, chunk, s, Len(s) - m - 1, p - m)
    BY DEF OpenRun
  <2>2. Len(t) - (m + 1) - 1 = Len(s) - m - 1 /\ (p + 1) - (m + 1) = p - m
    BY <1>1, <1>2
  <2>3. Ctrl(t, 0) = Ctrl(s, 0) /\ \A i \in 2 .. Len(s) - m - 1 : t[i] = s[i]
    BY <1>1, <1>2, <1>3 DEF Ctrl
  <2>4. Coded(l, chunk, t, Len(s) - m - 1, p - m)
    BY <2>1, <2>3, CodedKept
  <2> QED
    BY <2>2, <2>4
<1>5. ASSUME NEW i \in 1 .. m + 1
      PROVE  t[Len(t) - (m + 1) + i] = chunk[(p + 1) - (m + 1) + i]
  <2>1. Len(t) - (m + 1) + i = Len(s) - m + i /\ (p + 1) - (m + 1) + i = p - m + i /\ i \in Int
    BY <1>1, <1>2
  <2>2. CASE i \in 1 .. m
    <3>1. s[Len(s) - m + i] = chunk[p - m + i]
      BY <2>2 DEF OpenRun
    <3>2. Len(s) - m + i \in 1 .. Len(s)
      BY <1>1, <1>2, <2>2
    <3> QED
      BY <1>2, <2>1, <3>1, <3>2
  <2>3. CASE i = m + 1
    <3>1. Len(s) - m + i = Len(s) + 1 /\ p - m + i = p + 1
      BY <1>1, <1>2, <2>3
    <3> QED
      BY <1>2, <2>1, <3>1
  <2>4. i \in 1 .. m \/ i = m + 1
    BY <1>1
  <2> QED
    BY <2>2, <2>3, <2>4
<1>6. p + 1 \in Nat /\ m + 1 \in 0 .. Highs /\ m + 1 <= p + 1 /\ m + 1 < Len(t) /\ t[1] < Highs
  BY <1>1, <1>2, <1>3
<1> QED
  BY <1>2, <1>4, <1>5, <1>6 DEF OpenRun, t

\* An open run is ended.
LEMMA RunEnded ==
  ASSUME NEW l, NEW chunk, NEW s, NEW p, NEW m, OpenRun(l, chunk, s, p, m)
  PROVE  /\ Closed(l, chunk, EndRun(s, m), p)
         /\ Len(EndRun(s, m)) = Len(s) - (IF m = 0 THEN 1 ELSE 0)
<1> DEFINE t == EndRun(s, m)
           n == Len(s) - m - 1
<1>1. /\ s \in Seq(Byte) /\ p \in Nat /\ m \in Nat /\ m <= Highs /\ m <= p /\ m < Len(s)
      /\ s[1] < Highs /\ Highs \in Nat /\ Len(s) \in Nat /\ n \in Nat
  BY Sizes DEF OpenRun
<1>2. Coded(l, chunk, s, n, p - m)
  BY DEF OpenRun
<1>3. CASE m = 0
  <2>1. t = SubSeq(s, 1, Len(s) - 1)
    BY <1>3 DEF EndRun
  <2>2. /\ t \in Seq(Byte) /\ Len(t) = Len(s) - 1
        /\ \A i \in 1 .. Len(s) - 1 : t[i] = s[i]
    <3> DEFINE last == Len(s) - 1
    <3>1. last \in Nat /\ \A i \in 1 .. last : s[i] \in Byte
      BY <1>1, <1>3
    <3> HIDE DEF t, last
    <3>2. SubSeq(s, 1, last) \in Seq(Byte)
      BY <3>1, SubSeqProperties
    <3>3. Len(SubSeq(s, 1, last)) = last
      BY <3>1, SubSeqProperties
    <3>4. \A i \in 1 .. last : SubSeq(s, 1, last)[i] = s[i]
      BY <3>1, SubSeqProperties
    <3> QED
      BY <2>1, <3>2, <3>3, <3>4 DEF last
  <2> HIDE DEF t
  <2>3. n = Len(t) /\ p - m = p
    BY <1>1, <1>3, <2>2
  <2>4. t # <<>> => t[1] = s[1]
    BY <1>1, <2>2
  <2>5. Len(t) > 0 => Ctrl(t, 0) = Ctrl(s, 0)
    BY <1>1, <2>2 DEF Ctrl
  <2>6. Coded(l, chunk, t, Len(t), p)
    BY <1>2, <2>2, <2>3, <2>5, CodedKept
  <2> QED
    BY <1>1, <1>3, <2>2, <2>4, <2>6 DEF Closed, t
<1>4. CASE m # 0
  <2>1. t = [s EXCEPT ![Len(s) - m] = m - 1]
    BY <1>4 DEF EndRun
  <2>2. m - 1 \in Byte /\ Len(s) - m \in 1 .. Len(s)
    BY <1>1, <1>4, Sizes
  <2>3. /\ t \in Seq(Byte) /\ Len(t) = Len(s)
        /\ \A i \in 1 .. Len(s) : t[i] = IF i = Len(s) - m THEN m - 1 ELSE s[i]
    BY <1>1, <2>1, <2>2, ExceptSeq
  <2> HIDE DEF t
  <2>4. t[1] < Highs /\ t[1] \in Byte
    BY <1>1, <1>4, <2>2, <2>3
  <2>5. n > 0 => Ctrl(t, 0) = Ctrl(s, 0)
    BY <1>1, <2>3 DEF Ctrl
  <2>6. Coded(l, chunk, t, n, p - m)
    BY <1>1, <1>2, <2>3, <2>5, CodedKept, SMTT(20)
  <2>7. Ctrl(t, n) = m - 1
    <3>1. CASE n = 0
      <4>1. t[1] = m - 1
        BY <1>1, <2>3, <3>1
      <4> QED
        BY <2>4, <3>1, <4>1, Unmarked
    <3>2. CASE n # 0
      BY <1>1, <2>3, <3>2 DEF Ctrl
    <3> QED
      BY <3>1, <3>2
  <2>8. \A i \in 1 .. m : t[n + 1 + i] = chunk[p - m + i]
    <3> SUFFICES ASSUME NEW i \in 1 .. m PROVE t[n + 1 + i] = chunk[p - m + i]
      OBVIOUS
    <3>1. s[Len(s) - m + i] = chunk[p - m + i]
      BY DEF OpenRun
    <3>2. n + 1 + i = Len(s) - m + i /\ n + 1 + i \in 1 .. Len(s) /\ n + 1 + i # Len(s) - m
      BY <1>1
    <3> QED
      BY <2>3, <3>1, <3>2
  <2>9. RunCode(chunk, t, n, p - m, Len(t), p)
    <3>1. m \in 1 .. Highs /\ Len(t) = n + 1 + m /\ p = p - m + m
      BY <1>1, <1>4, <2>3
    <3> QED
      BY <2>7, <2>8, <3>1 DEF RunCode
  <2>10. Len(t) \in Nat /\ n < Len(t) /\ p - m <= p
    BY <1>1, <1>4, <2>3
  <2>11. Coded(l, chunk, t, Len(t), p)
    <3>1. Code(l, chunk, t, n, p - m, Len(t), p)
      BY <2>9 DEF Code
    <3> HIDE DEF n
    <3> QED
      BY <1>1, <2>6, <2>10, <3>1, OneMore
  <2> QED
    BY <1>1, <1>4, <2>3, <2>4, <2>11 DEF Closed, t
<1> QED
  BY <1>3, <1>4

\* The first byte of the next run is reserved.
LEMMA RunOpened ==
  ASSUME NEW l, NEW chunk, NEW s, NEW p, Closed(l, chunk, s, p), NEW b \in 0 .. Highs - 1
  PROVE  /\ OpenRun(l, chunk, Append(s, b), p, 0)
         /\ Len(Append(s, b)) = Len(s) + 1
<1> DEFINE t == Append(s, b)
<1>1. s \in Seq(Byte) /\ p \in Nat /\ b \in Byte /\ b < Highs /\ Highs \in Nat
  BY Sizes DEF Closed
<1>2. /\ t \in Seq(Byte) /\ Len(s) \in Nat /\ Len(t) = Len(s) + 1
      /\ \A i \in 1 .. Len(s) : t[i] = s[i]
      /\ t[Len(s) + 1] = b
  BY <1>1, Appended
<1> HIDE DEF t
<1>3. t[1] < Highs
  <2>1. CASE s = <<>>
    BY <1>1, <1>2, <2>1
  <2>2. CASE s # <<>>
    <3>1. 1 \in 1 .. Len(s) /\ s[1] < Highs
      BY <1>1, <1>2, <2>2 DEF Closed
    <3> QED
      BY <1>2, <3>1
  <2> QED
    BY <2>1, <2>2
<1>4. Coded(l, chunk, t, Len(s), p)
  <2>1. Coded(l, chunk, s, Len(s), p)
    BY DEF Closed
  <2>2. Len(s) > 0 => Ctrl(t, 0) = Ctrl(s, 0)
    BY <1>2 DEF Ctrl
  <2> QED
    BY <1>2, <2>1, <2>2, CodedKept
<1>5. Len(t) - 0 - 1 = Len(s) /\ p - 0 = p /\ 0 < Len(t)
  BY <1>1, <1>2
<1> QED
  BY <1>1, <1>2, <1>3, <1>4, <1>5 DEF OpenRun, t

------------------------------------------------------------------------------
(* The codes of matches *)

\* The formats' limits, as the instances see them.
LEMMA Limits ==
  /\ Lzf!Bytes = Bytes /\ Fast!Bytes = Bytes
  /\ Lzf!MaxOff = Highs * Bytes /\ Lzf!MaxRef = Bytes + Lengths
  /\ Fast!MaxLen = Bytes + Lengths
  /\ Fast!MaxDistance(1) = Highs * Bytes /\ Fast!MaxDistance(2) = Highs * Bytes - 1
  /\ Fast!MaxFar = Bytes * Bytes - 1 + (Highs * Bytes - 1) - 1
BY DEF Lzf!Bytes, Fast!Bytes, Bytes, Lzf!MaxOff, Lzf!MaxRef, Fast!MaxLen, Fast!MaxDistance,
       Fast!MaxFar

LEMMA Products ==
  /\ Highs * Bytes \in Nat /\ Highs * Bytes >= 3 * Bytes
  /\ Bytes * Bytes \in Nat /\ Bytes * Bytes >= 9 * Bytes
<1>1. 3 * Bytes <= Highs * Bytes /\ 9 * Bytes <= Bytes * Bytes
  BY Sizes, TimesMonotonic
<1>2. Highs * Bytes \in Nat /\ Bytes * Bytes \in Nat
  BY Sizes
<1> QED
  BY <1>1, <1>2, Sizes

\* A distance below Highs * Bytes splits into two fields.
LEMMA DistanceFields ==
  ASSUME NEW d \in Nat, d < Highs * Bytes
  PROVE  /\ d \div Bytes \in 0 .. Highs - 1 /\ d % Bytes \in Byte
         /\ d = (d \div Bytes) * Bytes + (d % Bytes)
<1>1. Bytes \in Nat \ {0} /\ Highs \in Nat /\ Byte = 0 .. Bytes - 1
  BY Sizes
<1>2. d \div Bytes \in Nat /\ d % Bytes \in 0 .. Bytes - 1
      /\ d = (d \div Bytes) * Bytes + (d % Bytes)
  BY <1>1, Division
<1>3. d \div Bytes < Highs
  BY <1>1, DivisionBound
<1> QED
  BY <1>1, <1>2, <1>3

\* The length a code of level 1, or of LZF, has in its first byte.
Field(len) == IF len < Lengths - 1 THEN len ELSE Lengths - 1

\* The bytes of a code of level 1.
LEMMA ReferenceBytes ==
  ASSUME NEW off \in Offsets(1), NEW len \in Matched(1)
  PROVE  LET code == Lzf!Reference(off, len)
             n == IF len < Lengths - 1 THEN 2 ELSE 3
         IN /\ code \in Seq(Byte) /\ Len(code) = n
            /\ code[1] = (off \div Bytes) + Field(len) * Highs
            /\ n = 3 => code[2] = len - (Lengths - 1)
            /\ code[n] = off % Bytes
<1>1. off \in Nat /\ off < Highs * Bytes /\ len \in Nat /\ len >= 1
      /\ len <= Bytes + Lengths - 2
  BY Sizes, Products DEF Offsets, Matched
<1>2. /\ Lengths \in Nat /\ Lengths >= 3 /\ Highs \in Nat /\ Highs >= 3
      /\ Bytes \in Nat /\ Byte = 0 .. Bytes - 1
  BY Sizes
<1>3. off \div Bytes \in 0 .. Highs - 1 /\ off % Bytes \in Byte
  BY <1>1, DistanceFields
<1>4. Field(len) \in 0 .. Lengths - 1
  BY <1>1, <1>2 DEF Field
<1>5. (off \div Bytes) + Field(len) * Highs \in Byte
  BY <1>3, <1>4, Fields
<1> DEFINE first == (off \div Bytes) + Field(len) * Highs
           low == off % Bytes
<1>6. CASE len < Lengths - 1
  <2>1. Lzf!Reference(off, len) = <<first>> \o <<low>>
    BY <1>6, Limits DEF Lzf!Reference, Field
  <2> HIDE DEF first, low
  <2>2. first \in Byte /\ low \in Byte
    BY <1>3, <1>5 DEF first, low
  <2>3. /\ <<first>> \o <<low>> \in Seq(Byte) /\ Len(<<first>> \o <<low>>) = 2
        /\ (<<first>> \o <<low>>)[1] = first /\ (<<first>> \o <<low>>)[2] = low
    BY <2>2
  <2> QED
    BY <1>6, <2>1, <2>3 DEF first, low
<1>7. CASE ~(len < Lengths - 1)
  <2> DEFINE more == len - (Lengths - 1)
  <2>1. Lzf!Reference(off, len) = <<first, more>> \o <<low>>
    BY <1>7, Limits DEF Lzf!Reference, Field
  <2>2. more \in Byte
    BY <1>1, <1>2, <1>7
  <2> HIDE DEF first, low, more
  <2>3. first \in Byte /\ low \in Byte
    BY <1>3, <1>5 DEF first, low
  <2>4. more \in Byte
    BY <2>2 DEF more
  <2>5. /\ <<first, more>> \o <<low>> \in Seq(Byte) /\ Len(<<first, more>> \o <<low>>) = 3
        /\ (<<first, more>> \o <<low>>)[1] = first /\ (<<first, more>> \o <<low>>)[2] = more
        /\ (<<first, more>> \o <<low>>)[3] = low
    BY <2>3, <2>4
  <2> QED
    BY <1>7, <2>1, <2>5 DEF first, low, more
<1> QED
  BY <1>6, <1>7

\* Length bytes of level 2: full ones, and one that is not full.
LEMMA LengthBytesAre ==
  ASSUME NEW n \in Nat
  PROVE  LET bytes == Fast!LengthBytes(n)
             full == n \div (Bytes - 1)
             rest == n % (Bytes - 1)
         IN /\ full \in Nat /\ rest \in 0 .. Bytes - 2 /\ n = full * (Bytes - 1) + rest
            /\ bytes \in Seq(Byte) /\ Len(bytes) = full + 1
            /\ \A i \in 1 .. full : bytes[i] = Bytes - 1
            /\ bytes[full + 1] = rest
<1> DEFINE full == n \div (Bytes - 1)
           rest == n % (Bytes - 1)
<1>1. Bytes \in Nat /\ Bytes - 1 \in Nat \ {0} /\ Bytes - 1 \in Byte /\ Byte = 0 .. Bytes - 1
  BY Sizes
<1>2. full \in Nat /\ rest \in 0 .. Bytes - 2 /\ n = full * (Bytes - 1) + rest
  <2> DEFINE b == Bytes - 1
  <2>1. b \in Nat \ {0} /\ b - 1 = Bytes - 2
    BY <1>1
  <2> HIDE DEF b
  <2>2. n \div b \in Nat /\ n % b \in 0 .. b - 1 /\ n = (n \div b) * b + (n % b)
    BY <2>1, Division
  <2> QED
    BY <2>1, <2>2 DEF b
<1> DEFINE fulls == [k \in 1 .. full |-> Bytes - 1]
<1>3. Fast!LengthBytes(n) = fulls \o <<rest>>
  BY Limits DEF Fast!LengthBytes
<1>4. rest \in Byte
  BY <1>1, <1>2
<1> HIDE DEF full, rest
<1>5. /\ fulls \in Seq(Byte) /\ Len(fulls) = full
      /\ \A i \in 1 .. full : fulls[i] = Bytes - 1
  BY <1>1, <1>2
<1> HIDE DEF fulls
<1>6. /\ fulls \o <<rest>> \in Seq(Byte) /\ Len(fulls \o <<rest>>) = full + 1
      /\ \A i \in 1 .. full : (fulls \o <<rest>>)[i] = Bytes - 1
      /\ (fulls \o <<rest>>)[full + 1] = rest
  BY <1>2, <1>4, <1>5
<1> QED
  BY <1>2, <1>3, <1>6 DEF full, rest

\* The length bytes of a match of level 2.
More(len) == IF len >= Lengths - 1 THEN Fast!LengthBytes(len - (Lengths - 1)) ELSE <<>>

\* The bytes of a code of level 2.
LEMMA LevelTwoBytes ==
  ASSUME NEW off \in Offsets(2), NEW len \in Matched(2)
  PROVE  LET code == Fast!LevelTwo(off, len)
             n == Len(More(len))
             far == off - Fast!MaxDistance(2)
         IN /\ code \in Seq(Byte) /\ n \in Nat /\ More(len) \in Seq(Byte)
            /\ \A i \in 1 .. n : code[1 + i] = More(len)[i]
            /\ off < Fast!MaxDistance(2) =>
                 /\ Len(code) = n + 2
                 /\ code[1] = (off \div Bytes) + Field(len) * Highs
                 /\ code[n + 2] = off % Bytes
            /\ off >= Fast!MaxDistance(2) =>
                 /\ Len(code) = n + 4
                 /\ code[1] = (Highs - 1) + Field(len) * Highs
                 /\ code[n + 2] = Bytes - 1
                 /\ code[n + 3] = far \div Bytes /\ code[n + 4] = far % Bytes
                 /\ far \div Bytes \in Byte /\ far % Bytes \in Byte
                 /\ far = (far \div Bytes) * Bytes + (far % Bytes)
<1> DEFINE max == Fast!MaxDistance(2)
           far == off - max
<1>1. /\ Lengths \in Nat /\ Lengths >= 3 /\ Highs \in Nat /\ Highs >= 3
      /\ Bytes \in Nat \ {0} /\ Byte = 0 .. Bytes - 1
  BY Sizes
<1>2. off \in Nat /\ off <= Fast!MaxFar - 2 /\ len \in Nat /\ len >= 1
      /\ max \in Nat /\ max = Highs * Bytes - 1
      /\ Fast!MaxFar = Bytes * Bytes - 1 + max - 1
  BY <1>1, Limits, Products DEF Offsets, Matched
<1>3. Field(len) \in 0 .. Lengths - 1
  BY <1>1, <1>2 DEF Field
<1>4. More(len) \in Seq(Byte) /\ Len(More(len)) \in Nat
  <2>1. CASE len >= Lengths - 1
    <3>1. len - (Lengths - 1) \in Nat
      BY <1>1, <1>2, <2>1
    <3> QED
      BY <2>1, <3>1, LengthBytesAre, SMTT(20) DEF More
  <2>2. CASE ~(len >= Lengths - 1)
    BY <2>2 DEF More
  <2> QED
    BY <2>1, <2>2
<1> DEFINE more == More(len)
           n == Len(more)
<1>5. CASE off < max
  <2>0. off \in Nat /\ off < Highs * Bytes
    <3> HIDE DEF max
    <3> QED
      BY <1>2, <1>5, Products
  <2> DEFINE first == (off \div Bytes) + Field(len) * Highs
             low == off % Bytes
  <2>1. Fast!LevelTwo(off, len) = <<first>> \o more \o <<low>>
    <3>1. Fast!LevelTwo(off, len) = <<(Field(len) * Highs) + (off \div Bytes)>> \o more \o <<low>>
      <4>1. CASE len >= Lengths - 1
        <5>1. Field(len) = Lengths - 1
          BY <1>1, <1>2, <4>1 DEF Field
        <5>2. more = Fast!LengthBytes(len - (Lengths - 1))
          BY <4>1 DEF More
        <5> QED
          BY <1>5, <4>1, <5>1, <5>2, Limits DEF Fast!LevelTwo
      <4>2. CASE ~(len >= Lengths - 1)
        <5>1. Field(len) = len
          BY <1>1, <1>2, <4>2 DEF Field
        <5>2. more = <<>>
          BY <4>2 DEF More
        <5> QED
          BY <1>5, <4>2, <5>1, <5>2, Limits DEF Fast!LevelTwo
      <4> QED
        BY <4>1, <4>2
    <3>2. off \div Bytes \in 0 .. Highs - 1
      BY <2>0, DistanceFields
    <3>3. Field(len) * Highs + (off \div Bytes) = first
      BY <1>3, <3>2, Fields
    <3> QED
      BY <3>1, <3>3
  <2>2. off \div Bytes \in 0 .. Highs - 1 /\ low \in Byte
    BY <2>0, DistanceFields
  <2>3. first \in Byte
    BY <1>3, <2>2, Fields
  <2> HIDE DEF first, low, more
  <2>4. /\ <<first>> \o more \o <<low>> \in Seq(Byte)
        /\ Len(<<first>> \o more \o <<low>>) = n + 2
        /\ (<<first>> \o more \o <<low>>)[1] = first
        /\ \A i \in 1 .. n : (<<first>> \o more \o <<low>>)[1 + i] = more[i]
        /\ (<<first>> \o more \o <<low>>)[n + 2] = low
    BY <1>4, <2>2, <2>3 DEF more
  <2> QED
    BY <1>2, <1>4, <1>5, <2>1, <2>4 DEF first, low, more
<1>6. CASE ~(off < max)
  <2> DEFINE first == (Highs - 1) + Field(len) * Highs
             high == far \div Bytes
             low == far % Bytes
  <2>1. Fast!LevelTwo(off, len) = <<first>> \o more \o <<Bytes - 1, high, low>>
    <3>1. Fast!LevelTwo(off, len)
            = <<(Field(len) * Highs) + Highs - 1>> \o more \o <<Bytes - 1, high, low>>
      <4>1. CASE len >= Lengths - 1
        <5>1. Field(len) = Lengths - 1
          BY <1>1, <1>2, <4>1 DEF Field
        <5>2. more = Fast!LengthBytes(len - (Lengths - 1))
          BY <4>1 DEF More
        <5> QED
          BY <1>6, <4>1, <5>1, <5>2, Limits DEF Fast!LevelTwo
      <4>2. CASE ~(len >= Lengths - 1)
        <5>1. Field(len) = len
          BY <1>1, <1>2, <4>2 DEF Field
        <5>2. more = <<>>
          BY <4>2 DEF More
        <5> QED
          BY <1>6, <4>2, <5>1, <5>2, Limits DEF Fast!LevelTwo
      <4> QED
        BY <4>1, <4>2
    <3>2. Field(len) * Highs \in Nat
      BY <1>1, <1>3
    <3>3. (Field(len) * Highs) + Highs - 1 = first
      BY <1>1, <3>2
    <3> QED
      BY <3>1, <3>3
  <2>2. far \in Nat /\ far < Bytes * Bytes
    BY <1>1, <1>2, <1>6, Products
  <2>3. high \in Byte /\ low \in Byte /\ far = high * Bytes + low
    <3> HIDE DEF far
    <3>1. high \in Nat /\ low \in 0 .. Bytes - 1 /\ far = high * Bytes + low
      BY <1>1, <2>2, Division
    <3>2. high < Bytes
      BY <1>1, <2>2, DivisionBound
    <3> QED
      BY <1>1, <3>1, <3>2
  <2>4. first \in Byte /\ Bytes - 1 \in Byte
    <3>1. Highs - 1 \in 0 .. Highs - 1 /\ Bytes - 1 \in Byte
      BY <1>1
    <3> QED
      BY <1>3, <3>1, Fields
  <2> HIDE DEF first, high, low, more, far
  <2>5. <<first>> \o more \o <<Bytes - 1, high, low>> \in Seq(Byte)
    BY <1>4, <2>3, <2>4 DEF more
  <2>6. /\ Len(<<first>> \o more \o <<Bytes - 1, high, low>>) = n + 4
        /\ (<<first>> \o more \o <<Bytes - 1, high, low>>)[1] = first
        /\ \A i \in 1 .. n : (<<first>> \o more \o <<Bytes - 1, high, low>>)[1 + i] = more[i]
    BY <1>4, <2>3, <2>4 DEF more
  <2>7. /\ (<<first>> \o more \o <<Bytes - 1, high, low>>)[n + 2] = Bytes - 1
        /\ (<<first>> \o more \o <<Bytes - 1, high, low>>)[n + 3] = high
        /\ (<<first>> \o more \o <<Bytes - 1, high, low>>)[n + 4] = low
    BY <1>4, <2>3, <2>4 DEF more
  <2> QED
    BY <1>2, <1>4, <1>6, <2>1, <2>3, <2>5, <2>6, <2>7 DEF first, high, low, more, far
<1> QED
  BY <1>5, <1>6

\* Every code of a match is a sequence of two bytes at least.
LEMMA BackCodeBytes ==
  ASSUME NEW l \in {1, 2}, NEW off \in Offsets(l), NEW len \in Matched(l)
  PROVE  BackCode(l, off, len) \in Seq(Byte) /\ Len(BackCode(l, off, len)) >= 2
<1>1. CASE l = 1
  BY <1>1, ReferenceBytes DEF BackCode
<1>2. CASE l = 2
  <2> DEFINE code == Fast!LevelTwo(off, len)
             n == Len(More(len))
  <2>1. code \in Seq(Byte) /\ n \in Nat /\ (Len(code) = n + 2 \/ Len(code) = n + 4)
    <3>1. off \in Nat /\ Fast!MaxDistance(2) \in Int
      BY <1>2, Limits, Products DEF Offsets
    <3> QED
      BY <1>2, <3>1, LevelTwoBytes
  <2>2. BackCode(l, off, len) = code
    BY <1>2 DEF BackCode
  <2> HIDE DEF code, n
  <2> QED
    BY <2>1, <2>2
<1> QED
  BY <1>1, <1>2

\* A set of natural numbers that is not empty has a least one.
LEMMA Least ==
  ASSUME NEW S \in SUBSET Nat, S # {}
  PROVE  \E x \in S : \A y \in S : x <= y
<1> DEFINE R == {ss \in Nat \X Nat : ss[1] < ss[2]}
<1>1. IsWellFoundedOn(R, Nat)
  BY NatLessThanWellFounded, Zenon DEF OpToRel
<1> HIDE DEF R
<1>2. PICK x \in S : \A y \in S : ~(<<y, x>> \in R)
  BY <1>1, WFMin
<1>3. ASSUME NEW y \in S PROVE x <= y
  <2>1. <<y, x>> \in Nat \X Nat /\ <<y, x>>[1] = y /\ <<y, x>>[2] = x
    OBVIOUS
  <2>2. ~(y < x)
    BY <1>2, <2>1 DEF R
  <2> QED
    BY <2>2
<1> QED
  BY <1>3

\* What concatenation does, in terms of places.
LEMMA Joined ==
  ASSUME NEW s \in Seq(Byte), NEW t \in Seq(Byte)
  PROVE  /\ s \o t \in Seq(Byte) /\ Len(s) \in Nat /\ Len(t) \in Nat
         /\ Len(s \o t) = Len(s) + Len(t)
         /\ \A i \in 1 .. Len(s) : (s \o t)[i] = s[i]
         /\ \A i \in 1 .. Len(t) : (s \o t)[Len(s) + i] = t[i]
<1>1. s \o t \in Seq(Byte) /\ Len(s \o t) = Len(s) + Len(t) /\ Len(s) \in Nat /\ Len(t) \in Nat
  OBVIOUS
<1>2. \A i \in 1 .. Len(s) + Len(t) :
        (s \o t)[i] = IF i <= Len(s) THEN s[i] ELSE t[i - Len(s)]
  BY ConcatProperties
<1>3. ASSUME NEW i \in 1 .. Len(t) PROVE (s \o t)[Len(s) + i] = t[i]
  <2>1. /\ Len(s) + i \in 1 .. Len(s) + Len(t) /\ ~(Len(s) + i <= Len(s))
        /\ (Len(s) + i) - Len(s) = i
    BY <1>1
  <2> QED
    BY <1>2, <2>1
<1> QED
  BY <1>1, <1>2, <1>3

\* What is coded stays so when something is written behind it.
LEMMA ClosedKept ==
  ASSUME NEW l, NEW chunk, NEW t, NEW p, Closed(l, chunk, t, p), NEW more \in Seq(Byte)
  PROVE  Coded(l, chunk, t \o more, Len(t), p)
<1>1. t \in Seq(Byte) /\ Coded(l, chunk, t, Len(t), p)
  BY DEF Closed
<1> DEFINE u == t \o more
<1>2. Len(t) \in Nat /\ \A i \in 1 .. Len(t) : u[i] = t[i]
  BY <1>1, Joined
<1> HIDE DEF u
<1>3. Len(t) > 0 => Ctrl(u, 0) = Ctrl(t, 0)
  BY <1>2 DEF Ctrl
<1>4. \A i \in 2 .. Len(t) : u[i] = t[i]
  BY <1>2
<1>5. Coded(l, chunk, u, Len(t), p)
  BY <1>1, <1>3, <1>4, CodedKept
<1> QED
  BY <1>5 DEF u

\* A match is written behind the codes before it.
LEMMA MatchAdded ==
  ASSUME NEW l \in {1, 2}, NEW chunk, NEW t, NEW p, Closed(l, chunk, t, p), t # <<>>,
         NEW off \in Offsets(l), NEW len \in Matched(l),
         Copies(chunk, p, p + len + 2, off + 1)
  PROVE  Closed(l, chunk, t \o BackCode(l, off, len), p + len + 2)
<1> DEFINE code == BackCode(l, off, len)
           u == t \o code
<1>1. code \in Seq(Byte) /\ Len(code) >= 2
  BY BackCodeBytes
<1>2. t \in Seq(Byte) /\ p \in Nat /\ t[1] < Highs
  BY DEF Closed
<1>3. len \in Nat
  BY Sizes DEF Matched
<1> HIDE DEF code
<1>4. /\ u \in Seq(Byte) /\ Len(t) \in Nat /\ Len(code) \in Nat /\ Len(u) = Len(t) + Len(code)
      /\ \A i \in 1 .. Len(t) : u[i] = t[i]
      /\ \A i \in 1 .. Len(code) : u[Len(t) + i] = code[i]
  BY <1>1, <1>2, Joined
<1>5. Coded(l, chunk, u, Len(t), p)
  BY <1>1, ClosedKept
<1> HIDE DEF u
<1>6. Len(t) > 0 /\ u[1] = t[1] /\ u # <<>>
  BY <1>1, <1>2, <1>4
<1>7. Code(l, chunk, u, Len(t), p, Len(u), p + len + 2)
  <2>1. Holds(u, Len(t), code)
    BY <1>4 DEF Holds
  <2> QED
    BY <1>4, <1>6, <2>1 DEF code, Code, MatchCode
<1>8. Coded(l, chunk, u, Len(u), p + len + 2)
  <2>1. p + len + 2 \in Nat /\ Len(u) \in Nat /\ Len(t) < Len(u) /\ p <= p + len + 2
    BY <1>1, <1>2, <1>3, <1>4
  <2> QED
    BY <1>5, <1>7, <2>1, OneMore
<1> QED
  BY <1>2, <1>3, <1>4, <1>6, <1>8 DEF Closed, u, code

\* Level 1 splits a long match into pieces of this many bytes.
Piece == (Bytes + Lengths) - 2

\* The full pieces of a long match of level 1.
LEMMA PiecesCoded ==
  ASSUME NEW chunk, NEW u, NEW n \in Nat \ {0}, NEW p \in Nat, Coded(1, chunk, u, n, p),
         NEW off \in Offsets(1), NEW q \in Nat,
         \A i \in 0 .. q - 1 : Holds(u, n + 3 * i, Lzf!Reference(off, Piece - 2)),
         Copies(chunk, p, p + q * Piece, off + 1)
  PROVE  Coded(1, chunk, u, n + 3 * q, p + q * Piece)
<1>1. Piece \in Nat /\ Piece >= 10 /\ Piece - 2 >= Lengths - 1 /\ Lengths \in Nat /\ Lengths >= 3
  BY Sizes DEF Piece
<1>2. Piece - 2 \in Matched(1)
  BY <1>1, Sizes DEF Piece, Matched
<1> DEFINE code == Lzf!Reference(off, Piece - 2)
<1>3. Len(code) = 3 /\ code = BackCode(1, off, Piece - 2)
  BY <1>1, <1>2, ReferenceBytes DEF BackCode
<1> HIDE DEF code
<1>4. off + 1 \in 1 .. p /\ \A i \in p + 1 .. p + q * Piece : chunk[i] = chunk[i - (off + 1)]
  BY DEF Copies
<1> DEFINE S == {i \in 0 .. q : ~Coded(1, chunk, u, n + 3 * i, p + i * Piece)}
<1>5. ASSUME S # {}
      PROVE  FALSE
  <2>1. PICK m \in S : \A i \in S : m <= i
    <3>1. S \in SUBSET Nat
      OBVIOUS
    <3> HIDE DEF S
    <3> QED
      BY <1>5, <3>1, Least
  <2>2. m # 0
    <3>1. n + 3 * 0 = n /\ p + 0 * Piece = p
      BY <1>1
    <3> QED
      BY <3>1
  <2> DEFINE b == m - 1
  <2>3. b \in 0 .. q - 1 /\ b + 1 = m /\ m \in 1 .. q
    BY <2>2
  <2>4. b \in 0 .. q /\ b \notin S
    BY <2>1, <2>3
  <2>5. Coded(1, chunk, u, n + 3 * b, p + b * Piece)
    BY <2>4
  <2>6. ~Coded(1, chunk, u, n + 3 * m, p + m * Piece)
    BY <2>1
  <2> HIDE DEF b, S
  <2>7. /\ m * Piece = b * Piece + Piece /\ m * Piece \in Nat /\ b * Piece \in Nat
        /\ m * Piece <= q * Piece /\ q * Piece \in Nat
    <3>1. (b + 1) * Piece = b * Piece + Piece /\ b * Piece \in Nat /\ q * Piece \in Nat
      BY <1>1, <2>3
    <3>2. m * Piece <= q * Piece
      BY <1>1, <2>3, TimesMonotonic
    <3> QED
      BY <1>1, <2>3, <3>1, <3>2
  <2> DEFINE from == n + 3 * b
             at == p + b * Piece
  <2>8. from \in Nat /\ from > 0 /\ at \in Nat /\ n + 3 * m = from + 3 /\ p + m * Piece = at + Piece
    <3> DEFINE v == b * Piece
               w == m * Piece
    <3>1. v \in Nat /\ w = v + Piece
      BY <2>7
    <3> HIDE DEF v, w
    <3>2. p + w = (p + v) + Piece /\ p + v \in Nat
      BY <1>1, <3>1
    <3> QED
      BY <2>3, <3>2 DEF v, w
  <2>9. Copies(chunk, at, at + Piece, off + 1)
    <3>1. off + 1 \in 1 .. at
      BY <1>4, <2>7
    <3>2. \A i \in at + 1 .. at + Piece : i \in p + 1 .. p + q * Piece
      BY <1>1, <2>7
    <3> QED
      BY <1>4, <3>1, <3>2 DEF Copies
  <2>10. Holds(u, from, code)
    BY <2>3 DEF code
  <2> HIDE DEF from, at
  <2>11. MatchCode(1, chunk, u, from, at, from + 3, at + Piece)
    <3>1. at + Piece = at + (Piece - 2) + 2
      BY <1>1, <2>8
    <3> QED
      BY <1>2, <1>3, <2>9, <2>10, <3>1 DEF MatchCode
  <2>12. Coded(1, chunk, u, from, at)
    BY <2>5 DEF from, at
  <2>13. Coded(1, chunk, u, from + 3, at + Piece)
    <3>1. Code(1, chunk, u, from, at, from + 3, at + Piece)
      BY <2>8, <2>11 DEF Code
    <3>2. from + 3 \in Nat /\ at + Piece \in Nat /\ from < from + 3 /\ at <= at + Piece
      BY <1>1, <2>8
    <3> QED
      BY <2>12, <3>1, <3>2, OneMore
  <2> QED
    BY <2>6, <2>8, <2>13
<1> QED
  BY <1>5

\* A sequence of three bytes again and again.
LEMMA Repeated ==
  ASSUME NEW f \in Seq(Byte), Len(f) = 3, NEW q \in Nat
  PROVE  LET all == [k \in 1 .. 3 * q |-> f[((k - 1) % 3) + 1]]
         IN /\ all \in Seq(Byte) /\ Len(all) = 3 * q
            /\ \A i \in 0 .. q - 1 : Holds(all, 3 * i, f)
<1> DEFINE all == [k \in 1 .. 3 * q |-> f[((k - 1) % 3) + 1]]
<1>1. 3 * q \in Nat /\ \A k \in 1 .. 3 * q : f[((k - 1) % 3) + 1] \in Byte
  <2>1. \A k \in 1 .. 3 * q : ((k - 1) % 3) + 1 \in 1 .. 3
    OBVIOUS
  <2>2. \A i \in 1 .. 3 : f[i] \in Byte
    BY ElementOfSeq
  <2> QED
    BY <2>1, <2>2
<1>2. /\ all \in Seq(Byte) /\ Len(all) = 3 * q
      /\ \A k \in 1 .. 3 * q : all[k] = f[((k - 1) % 3) + 1]
  BY <1>1, IsASeq, LenProperties
<1> HIDE DEF all
<1>3. ASSUME NEW i \in 0 .. q - 1
      PROVE  Holds(all, 3 * i, f)
  <2> SUFFICES ASSUME NEW j \in 1 .. 3 PROVE all[3 * i + j] = f[j]
    BY DEF Holds
  <2>1. 3 * i + j \in 1 .. 3 * q /\ (((3 * i + j) - 1) % 3) + 1 = j
    OBVIOUS
  <2> QED
    BY <1>2, <2>1
<1> QED
  BY <1>2, <1>3 DEF all

\* A match of level 1: its full pieces, and the code of the rest.
LEMMA LevelOneBytes ==
  ASSUME NEW off \in Offsets(1), NEW len \in Nat \ {0}
  PROVE  \E q \in Nat, rest \in Matched(1) :
           LET code == Fast!LevelOne(off, len)
               last == Lzf!Reference(off, rest)
           IN /\ q * Piece \in Nat /\ len = q * Piece + rest
              /\ code \in Seq(Byte) /\ Len(code) = 3 * q + Len(last)
              /\ \A i \in 0 .. q - 1 : Holds(code, 3 * i, Lzf!Reference(off, Piece - 2))
              /\ Holds(code, 3 * q, last)
<1> DEFINE q == (len - 1) \div Piece
           rest == len - q * Piece
           code == Fast!LevelOne(off, len)
           last == Lzf!Reference(off, rest)
           full == Lzf!Reference(off, Piece - 2)
<1>1. /\ Piece \in Nat /\ Piece >= 10 /\ Piece - 2 >= Lengths - 1 /\ Piece = Bytes + Lengths - 2
      /\ Lengths \in Nat /\ Lengths >= 3 /\ Highs \in Nat /\ Highs >= 3
  BY Sizes DEF Piece
<1>2. q \in Nat /\ q * Piece \in Nat /\ rest \in 1 .. Piece /\ len = q * Piece + rest
  <2> DEFINE m == len - 1
  <2>1. m \in Nat /\ Piece \in Nat \ {0} /\ len = m + 1
    BY <1>1
  <2> HIDE DEF m
  <2>2. m \div Piece \in Nat /\ m % Piece \in 0 .. Piece - 1
        /\ m = (m \div Piece) * Piece + (m % Piece)
    BY <2>1, Division
  <2> DEFINE v == (m \div Piece) * Piece
  <2>3. v \in Nat
    BY <1>1, <2>2
  <2>4. q = m \div Piece
    BY DEF m
  <2> HIDE DEF v
  <2> DEFINE r == m % Piece
  <2>r. r \in 0 .. Piece - 1 /\ m = v + r
    BY <2>2 DEF v
  <2> HIDE DEF r
  <2>5. len - v \in 1 .. Piece /\ len = v + (len - v)
    BY <1>1, <2>1, <2>3, <2>r
  <2> HIDE DEF q
  <2> QED
    BY <2>2, <2>3, <2>4, <2>5 DEF v
<1> HIDE DEF q
<1>3. rest \in Matched(1) /\ Piece - 2 \in Matched(1)
  <2> HIDE DEF rest
  <2> QED
    BY <1>1, <1>2 DEF Matched
<1> DEFINE high == off \div Bytes
           low == off % Bytes
           triple == <<(Lengths - 1) * Highs + high, Piece - (Lengths - 1) - 2, low>>
           all == [k \in 1 .. 3 * q |-> triple[((k - 1) % 3) + 1]]
           end == IF rest < Lengths - 1
                  THEN <<rest * Highs + high, low>>
                  ELSE <<(Lengths - 1) * Highs + high, rest - (Lengths - 1), low>>
<1>4. code = all \o end
  BY DEF Fast!LevelOne, Fast!MaxLen, Fast!Bytes, Piece, Bytes, q
<1>5. high \in Nat /\ low \in Nat /\ (Lengths - 1) * Highs \in Nat /\ rest * Highs \in Nat
  <2>1. off \in Nat /\ off < Highs * Bytes
    BY Products, Sizes DEF Offsets
  <2>2. high \in 0 .. Highs - 1 /\ low \in Byte
    BY <2>1, DistanceFields
  <2> HIDE DEF high, low, rest
  <2> QED
    BY <1>1, <1>2, <2>2, Sizes
<1>6. triple \in Seq(Byte) /\ Len(triple) = 3 /\ \A i \in 1 .. 3 : triple[i] = full[i]
  <2>1. /\ full \in Seq(Byte) /\ Len(full) = 3
        /\ full[1] = high + (Lengths - 1) * Highs
        /\ full[2] = Piece - 2 - (Lengths - 1)
        /\ full[3] = low
    <3>1. ~(Piece - 2 < Lengths - 1)
      BY <1>1
    <3>2. Field(Piece - 2) = Lengths - 1
      BY <3>1 DEF Field
    <3> QED
      BY <1>3, <3>1, <3>2, ReferenceBytes
  <2> HIDE DEF high, low, full
  <2>2. /\ (Lengths - 1) * Highs + high = high + (Lengths - 1) * Highs
        /\ Piece - (Lengths - 1) - 2 = Piece - 2 - (Lengths - 1)
    BY <1>1, <1>5
  <2>3. full[1] \in Byte /\ full[2] \in Byte /\ full[3] \in Byte
    <3>1. \A i \in 1 .. 3 : full[i] \in Byte
      BY <2>1, ElementOfSeq
    <3> QED
      BY <3>1
  <2>4. triple = <<full[1], full[2], full[3]>>
    BY <2>1, <2>2
  <2> HIDE DEF triple
  <2> QED
    BY <2>3, <2>4
<1>7. end \in Seq(Byte) /\ Len(end) = Len(last) /\ \A i \in 1 .. Len(last) : end[i] = last[i]
  <2>1. CASE rest < Lengths - 1
    <3>1. /\ last \in Seq(Byte) /\ Len(last) = 2
          /\ last[1] = high + rest * Highs /\ last[2] = low
      <4>1. Field(rest) = rest
        BY <2>1 DEF Field
      <4> QED
        BY <1>3, <2>1, <4>1, ReferenceBytes
    <3> HIDE DEF high, low, last, rest
    <3>2. rest * Highs + high = high + rest * Highs
      BY <1>5
    <3>3. end = <<last[1], last[2]>>
      BY <2>1, <3>1, <3>2
    <3> HIDE DEF end
    <3>4. last[1] \in Byte /\ last[2] \in Byte
      <4>1. \A i \in 1 .. 2 : last[i] \in Byte
        BY <3>1, ElementOfSeq
      <4> QED
        BY <4>1
    <3> QED
      BY <3>1, <3>3, <3>4
  <2>2. CASE ~(rest < Lengths - 1)
    <3>1. /\ last \in Seq(Byte) /\ Len(last) = 3
          /\ last[1] = high + (Lengths - 1) * Highs /\ last[2] = rest - (Lengths - 1)
          /\ last[3] = low
      <4>1. Field(rest) = Lengths - 1
        BY <2>2 DEF Field
      <4> QED
        BY <1>3, <2>2, <4>1, ReferenceBytes
    <3> HIDE DEF high, low, last, rest
    <3>2. (Lengths - 1) * Highs + high = high + (Lengths - 1) * Highs
      BY <1>5
    <3>3. end = <<last[1], last[2], last[3]>>
      BY <2>2, <3>1, <3>2
    <3> HIDE DEF end
    <3>4. last[1] \in Byte /\ last[2] \in Byte /\ last[3] \in Byte
      <4>1. \A i \in 1 .. 3 : last[i] \in Byte
        BY <3>1, ElementOfSeq
      <4> QED
        BY <4>1
    <3> QED
      BY <3>1, <3>3, <3>4
  <2> QED
    BY <2>1, <2>2
<1> HIDE DEF code, last, full, rest, triple, end
<1>8. /\ all \in Seq(Byte) /\ Len(all) = 3 * q
      /\ \A i \in 0 .. q - 1 : Holds(all, 3 * i, triple)
  BY <1>2, <1>6, Repeated
<1> HIDE DEF all
<1>9. /\ code \in Seq(Byte) /\ Len(code) = 3 * q + Len(last)
      /\ \A i \in 1 .. 3 * q : code[i] = all[i]
      /\ \A i \in 1 .. Len(last) : code[3 * q + i] = last[i]
  <2>1. /\ all \o end \in Seq(Byte) /\ Len(all \o end) = Len(all) + Len(end)
        /\ \A i \in 1 .. Len(all) : (all \o end)[i] = all[i]
        /\ \A i \in 1 .. Len(end) : (all \o end)[Len(all) + i] = end[i]
    BY <1>7, <1>8, Joined
  <2>2. Len(end) = Len(last) /\ Len(all) = 3 * q
    BY <1>7, <1>8
  <2>3. /\ code \in Seq(Byte) /\ Len(code) = 3 * q + Len(last)
        /\ \A i \in 1 .. 3 * q : code[i] = all[i]
        /\ \A i \in 1 .. Len(last) : code[3 * q + i] = end[i]
    BY <1>4, <2>1, <2>2
  <2> QED
    BY <1>7, <2>3
<1>10. ASSUME NEW i \in 0 .. q - 1
       PROVE  Holds(code, 3 * i, full)
  <2>1. Len(full) = 3
    BY <1>1, <1>3, ReferenceBytes DEF full
  <2> SUFFICES ASSUME NEW j \in 1 .. 3 PROVE code[3 * i + j] = full[j]
    BY <2>1 DEF Holds
  <2>2. 3 * i + j \in 1 .. 3 * q /\ j \in 1 .. Len(triple)
    BY <1>2, <1>6
  <2>3. all[3 * i + j] = triple[j]
    BY <1>8, <2>2 DEF Holds
  <2> QED
    BY <1>6, <1>9, <2>2, <2>3
<1>11. Holds(code, 3 * q, last)
  BY <1>9 DEF Holds
<1> QED
  BY <1>2, <1>3, <1>9, <1>10, <1>11 DEF code, last, full

\* A match of level 1 is written behind the codes before it.
LEMMA LevelOneAdded ==
  ASSUME NEW chunk, NEW t, NEW p, Closed(1, chunk, t, p), t # <<>>,
         NEW off \in Offsets(1), NEW len \in Nat \ {0},
         Copies(chunk, p, p + len + 2, off + 1)
  PROVE  Closed(1, chunk, t \o Fast!LevelOne(off, len), p + len + 2)
<1>1. PICK q \in Nat, rest \in Matched(1) :
        LET code == Fast!LevelOne(off, len)
            last == Lzf!Reference(off, rest)
        IN /\ q * Piece \in Nat /\ len = q * Piece + rest
           /\ code \in Seq(Byte) /\ Len(code) = 3 * q + Len(last)
           /\ \A i \in 0 .. q - 1 : Holds(code, 3 * i, Lzf!Reference(off, Piece - 2))
           /\ Holds(code, 3 * q, last)
  BY LevelOneBytes
<1> DEFINE code == Fast!LevelOne(off, len)
           last == Lzf!Reference(off, rest)
           full == Lzf!Reference(off, Piece - 2)
           u == t \o code
           n == Len(t)
           v == q * Piece
<1>2. /\ Piece \in Nat /\ Piece >= 10 /\ Piece - 2 \in Matched(1) /\ rest \in Nat /\ rest >= 1
      /\ Lengths \in Nat /\ q \in Nat
  BY Sizes DEF Piece, Matched
<1>3. /\ last \in Seq(Byte) /\ Len(last) \in Nat /\ Len(last) >= 2 /\ Len(full) = 3
      /\ last = BackCode(1, off, rest)
  <2>1. ~(Piece - 2 < Lengths - 1)
    BY Sizes DEF Piece
  <2>2. last \in Seq(Byte) /\ Len(last) \in Nat /\ Len(last) >= 2
    <3>1. last = BackCode(1, off, rest)
      BY DEF BackCode
    <3>2. BackCode(1, off, rest) \in Seq(Byte) /\ Len(BackCode(1, off, rest)) >= 2
      BY BackCodeBytes
    <3> HIDE DEF last
    <3> QED
      BY <3>1, <3>2
  <2>3. Len(full) = 3
    BY <1>2, <2>1, ReferenceBytes
  <2> QED
    BY <2>2, <2>3 DEF BackCode
<1>4. /\ v \in Nat /\ len = v + rest /\ code \in Seq(Byte) /\ Len(code) = 3 * q + Len(last)
      /\ \A i \in 0 .. q - 1 : Holds(code, 3 * i, full)
      /\ Holds(code, 3 * q, last)
  BY <1>1
<1>5. t \in Seq(Byte) /\ p \in Nat /\ t[1] < Highs
  BY DEF Closed
<1> HIDE DEF code, last, full
<1>6. /\ u \in Seq(Byte) /\ n \in Nat /\ Len(u) = n + Len(code)
      /\ \A i \in 1 .. n : u[i] = t[i]
      /\ \A i \in 1 .. Len(code) : u[n + i] = code[i]
  BY <1>4, <1>5, Joined
<1>7. Coded(1, chunk, u, n, p)
  BY <1>4, ClosedKept
<1>8. off + 1 \in 1 .. p /\ \A i \in p + 1 .. p + len + 2 : chunk[i] = chunk[i - (off + 1)]
  BY DEF Copies
<1> HIDE DEF u, n
<1>9. n \in Nat \ {0} /\ u[1] = t[1] /\ u # <<>>
  <2>1. n # 0
    BY <1>5 DEF n
  <2> QED
    BY <1>4, <1>6, <2>1
<1>10. Coded(1, chunk, u, n + 3 * q, p + v)
  <2>1. \A i \in 0 .. q - 1 : Holds(u, n + 3 * i, full)
    <3> SUFFICES ASSUME NEW i \in 0 .. q - 1, NEW j \in 1 .. 3
                 PROVE  u[n + 3 * i + j] = full[j]
      BY <1>3 DEF Holds
    <3>1. code[3 * i + j] = full[j]
      BY <1>3, <1>4 DEF Holds
    <3>2. 3 * i + j \in 1 .. Len(code)
      BY <1>3, <1>4
    <3>3. n + 3 * i + j = n + (3 * i + j)
      BY <1>9
    <3> QED
      BY <1>6, <3>1, <3>2, <3>3
  <2>2. Copies(chunk, p, p + v, off + 1)
    <3> HIDE DEF v
    <3>1. \A i \in p + 1 .. p + v : i \in p + 1 .. p + len + 2
      BY <1>2, <1>4, <1>5
    <3> QED
      BY <1>8, <3>1 DEF Copies
  <2> QED
    BY <1>5, <1>7, <1>9, <2>1, <2>2, PiecesCoded DEF full
<1> HIDE DEF v
<1>11. Code(1, chunk, u, n + 3 * q, p + v, Len(u), p + len + 2)
  <2> DEFINE m == n + 3 * q
  <2>1. m \in Nat /\ m > 0 /\ Len(u) = m + Len(last) /\ p + len + 2 = (p + v) + rest + 2
    BY <1>2, <1>3, <1>4, <1>5, <1>6, <1>9
  <2>2. \A i \in 1 .. Len(last) : u[m + i] = last[i]
    <3> SUFFICES ASSUME NEW i \in 1 .. Len(last) PROVE u[m + i] = last[i]
      OBVIOUS
    <3>1. 3 * q + i \in 1 .. Len(code) /\ m + i = n + (3 * q + i)
      BY <1>3, <1>4, <1>9
    <3>2. code[3 * q + i] = last[i]
      BY <1>4 DEF Holds
    <3> QED
      BY <1>6, <3>1, <3>2
  <2>3. Copies(chunk, p + v, p + len + 2, off + 1)
    <3>1. off + 1 \in 1 .. p + v /\ \A i \in (p + v) + 1 .. p + len + 2 : i \in p + 1 .. p + len + 2
      BY <1>2, <1>4, <1>5, <1>8
    <3> QED
      BY <1>8, <3>1 DEF Copies
  <2> HIDE DEF m
  <2>4. Holds(u, m, last)
    BY <2>2 DEF Holds
  <2>5. MatchCode(1, chunk, u, m, p + v, Len(u), p + len + 2)
    BY <1>3, <2>1, <2>3, <2>4 DEF MatchCode
  <2>6. Code(1, chunk, u, m, p + v, Len(u), p + len + 2)
    BY <2>1, <2>5 DEF Code
  <2> QED
    BY <2>6 DEF m
<1>12. Coded(1, chunk, u, Len(u), p + len + 2)
  <2>1. /\ p + len + 2 \in Nat /\ Len(u) \in Nat /\ n + 3 * q < Len(u)
        /\ p + v <= p + len + 2
    <3>1. 3 * q \in Nat
      BY <1>2
    <3>2. Len(u) = n + (3 * q + Len(last))
      BY <1>4, <1>6
    <3>3. Len(u) \in Nat /\ n + 3 * q < Len(u)
      BY <1>3, <1>9, <3>1, <3>2
    <3>4. p + len + 2 \in Nat /\ p + v <= p + len + 2
      BY <1>2, <1>4, <1>5
    <3> QED
      BY <3>3, <3>4
  <2> QED
    BY <1>10, <1>11, <2>1, OneMore
<1>13. p + len + 2 \in Nat
  BY <1>5
<1> QED
  BY <1>5, <1>6, <1>9, <1>12, <1>13 DEF Closed, u, code

\* The codes FastLZ writes for a match.
FastCode(l, off, len) == IF l = 1 THEN Fast!LevelOne(off, len) ELSE Fast!LevelTwo(off, len)

\* A match of FastLZ is written behind the codes before it.
LEMMA FastMatchAdded ==
  ASSUME NEW l \in {1, 2}, NEW chunk, NEW t, NEW p, Closed(l, chunk, t, p), t # <<>>,
         NEW off \in Offsets(l), NEW len \in Nat \ {0},
         Copies(chunk, p, p + len + 2, off + 1)
  PROVE  Closed(l, chunk, t \o FastCode(l, off, len), p + len + 2)
<1>1. CASE l = 1
  BY <1>1, LevelOneAdded DEF FastCode
<1>2. CASE l = 2
  <2>1. len \in Matched(l)
    BY <1>2 DEF Matched
  <2>2. FastCode(l, off, len) = BackCode(l, off, len)
    BY <1>2 DEF FastCode, BackCode
  <2> QED
    BY <2>1, <2>2, MatchAdded
<1> QED
  BY <1>1, <1>2

------------------------------------------------------------------------------
(* The size of what is written *)

\* n bytes of codes for k bytes of a chunk are no more than one for each full
\* run of literals in addition.
Thrifty(n, k) == n * Highs <= k * Highs + k

\* With a full run of literals the codes stay thrifty.
LEMMA ThriftyRun ==
  ASSUME NEW n \in Nat, NEW k \in Nat, Thrifty(n, k)
  PROVE  Thrifty(n + 1 + Highs, k + Highs)
<1>1. Highs \in Nat
  BY Sizes
<1>2. /\ (n + 1 + Highs) * Highs = n * Highs + Highs + Highs * Highs
      /\ (k + Highs) * Highs = k * Highs + Highs * Highs
      /\ n * Highs \in Nat /\ k * Highs \in Nat /\ Highs * Highs \in Nat
  BY <1>1
<1>3. n * Highs <= k * Highs + k
  BY DEF Thrifty
<1>4. (n + 1 + Highs) * Highs <= (k + Highs) * Highs + (k + Highs)
  BY <1>1, <1>2, <1>3
<1> QED
  BY <1>4 DEF Thrifty

\* With a match of c bytes for len + 2 bytes of the chunk, and the run of m
\* literals before it, they do.
LEMMA ThriftyMatch ==
  ASSUME NEW n \in Nat, NEW k \in Nat, Thrifty(n, k),
         NEW m \in Nat, NEW c \in Nat, NEW len \in Nat, c <= len + 2,
         c = len + 2 => m = 0 \/ (len >= 3 /\ Highs <= 6)
  PROVE  Thrifty((n + c) + (IF m = 0 THEN 0 ELSE 1 + m), k + m + len + 2)
<1>1. Highs \in Nat /\ Highs >= 3
  BY Sizes
<1> DEFINE j == m + len + 2
           all == (n + c) + (IF m = 0 THEN 0 ELSE 1 + m)
<1>2. n * Highs <= k * Highs + k /\ n * Highs \in Nat /\ k * Highs \in Nat
  BY <1>1 DEF Thrifty
<1>3. j \in Nat /\ all \in Nat /\ (k + j) * Highs = k * Highs + j * Highs
      /\ (n + j) * Highs = n * Highs + j * Highs /\ j * Highs \in Nat
      /\ ((n + j) + 1) * Highs = n * Highs + j * Highs + Highs
  BY <1>1
<1>4. all <= n + j \/ (all <= (n + j) + 1 /\ j >= Highs)
  BY <1>1
<1> HIDE DEF all, j
<1>5. all * Highs <= (k + j) * Highs + (k + j)
  <2>1. CASE all <= n + j
    <3>1. all * Highs <= (n + j) * Highs
      BY <1>1, <1>3, <2>1, TimesMonotonic
    <3>2. all * Highs \in Nat
      BY <1>1, <1>3
    <3> QED
      BY <1>2, <1>3, <3>1, <3>2
  <2>2. CASE all <= (n + j) + 1 /\ j >= Highs
    <3>1. all * Highs <= ((n + j) + 1) * Highs
      BY <1>1, <1>3, <2>2, TimesMonotonic
    <3>2. all * Highs \in Nat
      BY <1>1, <1>3
    <3> QED
      BY <1>1, <1>2, <1>3, <2>2, <3>1, <3>2
  <2> QED
    BY <1>4, <2>1, <2>2
<1>6. k + j = k + m + len + 2
  BY DEF j
<1> QED
  BY <1>5, <1>6 DEF Thrifty, all

\* Thrifty codes and an open run are not much larger than what they stand for.
LEMMA ThriftyBound ==
  ASSUME NEW n \in Nat, NEW k \in Nat, Thrifty(n, k), NEW size \in Nat, k <= size
  PROVE  size \div Highs \in Nat /\ n <= k + (size \div Highs)
<1>1. Highs \in Nat \ {0}
  BY Sizes
<1> DEFINE q == size \div Highs
           r == size % Highs
<1>2. q \in Nat /\ r \in 0 .. Highs - 1 /\ size = q * Highs + r
  BY <1>1, Division
<1> HIDE DEF q, r
<1>3. (k + q + 1) * Highs = k * Highs + q * Highs + Highs
      /\ q * Highs \in Nat /\ k * Highs \in Nat /\ n * Highs \in Nat
  BY <1>1, <1>2
<1>4. k < q * Highs + Highs
  BY <1>1, <1>2, <1>3
<1>5. n * Highs < (k + q + 1) * Highs
  BY <1>1, <1>3, <1>4 DEF Thrifty
<1>6. k + q + 1 <= n => (k + q + 1) * Highs <= n * Highs
  BY <1>1, <1>2, TimesMonotonic
<1>7. (k + q + 1) * Highs \in Nat
  BY <1>1, <1>3
<1>8. ~(k + q + 1 <= n)
  BY <1>3, <1>5, <1>6, <1>7
<1>9. n <= k + q
  BY <1>2, <1>8
<1> QED
  BY <1>2, <1>9 DEF q

\* The code of a match of LZF is shorter than the match.
LEMMA ReferenceCost ==
  ASSUME NEW off \in Offsets(1), NEW len \in Matched(1)
  PROVE  /\ Lzf!Reference(off, len) \in Seq(Byte) /\ Len(Lzf!Reference(off, len)) \in Nat
         /\ Len(Lzf!Reference(off, len)) >= 2 /\ Len(Lzf!Reference(off, len)) <= 3
         /\ Len(Lzf!Reference(off, len)) <= len + 1
<1> DEFINE n == IF len < Lengths - 1 THEN 2 ELSE 3
<1>1. Lzf!Reference(off, len) \in Seq(Byte) /\ Len(Lzf!Reference(off, len)) = n
  BY ReferenceBytes
<1>2. n \in Nat /\ n >= 2 /\ n <= 3 /\ n <= len + 1
  BY Sizes DEF Matched
<1> HIDE DEF n
<1> QED
  BY <1>1, <1>2

\* The codes of a match of FastLZ are shorter than the match, but for a far one
\* when the length field is small.
LEMMA FastCodeCost ==
  ASSUME NEW l \in {1, 2}, NEW off \in Offsets(l), NEW len \in Nat \ {0},
         l = 2 /\ off >= Fast!MaxDistance(2) => len >= 3
  PROVE  /\ FastCode(l, off, len) \in Seq(Byte) /\ Len(FastCode(l, off, len)) \in Nat
         /\ Len(FastCode(l, off, len)) <= len + 2
         /\ Len(FastCode(l, off, len)) = len + 2 => len >= 3 /\ Highs <= 6
<1>1. Lengths \in Nat /\ Lengths >= 3 /\ Bytes \in Nat /\ Bytes >= 9
  BY Sizes
<1>2. CASE l = 1
  <2>1. PICK q \in Nat, rest \in Matched(1) :
          LET code == Fast!LevelOne(off, len)
              last == Lzf!Reference(off, rest)
          IN /\ q * Piece \in Nat /\ len = q * Piece + rest
             /\ code \in Seq(Byte) /\ Len(code) = 3 * q + Len(last)
    BY <1>2, LevelOneBytes
  <2> DEFINE n == Len(Lzf!Reference(off, rest))
             v == q * Piece
             code == Fast!LevelOne(off, len)
  <2>2. n \in Nat /\ n <= rest + 1
    BY <1>2, ReferenceCost
  <2>3. /\ v \in Nat /\ len = v + rest /\ code \in Seq(Byte) /\ Len(code) = 3 * q + n
        /\ q \in Nat /\ rest \in Nat
    BY <2>1, Sizes DEF Matched
  <2>4. 3 * q <= v
    <3>1. 3 * q <= Piece * q /\ Piece * q = q * Piece
      <4>1. Piece \in Nat /\ 3 <= Piece
        BY Sizes DEF Piece
      <4> QED
        BY <2>3, <4>1, TimesMonotonic
    <3> QED
      BY <3>1
  <2>5. FastCode(l, off, len) = code
    BY <1>2 DEF FastCode
  <2> HIDE DEF n, v, code
  <2> QED
    BY <2>2, <2>3, <2>4, <2>5
<1>3. CASE l = 2
  <2> DEFINE code == Fast!LevelTwo(off, len)
             n == Len(More(len))
             far == off >= Fast!MaxDistance(2)
  <2>0. len \in Matched(2)
    BY DEF Matched
  <2>1. off \in Nat /\ Fast!MaxDistance(2) \in Nat
    BY <1>3, Limits, Products, Sizes DEF Offsets
  <2>2. /\ code \in Seq(Byte) /\ n \in Nat
        /\ ~far => Len(code) = n + 2
        /\ far => Len(code) = n + 4
    BY <1>3, <2>0, <2>1, LevelTwoBytes
  <2>3. FastCode(l, off, len) = code
    BY <1>3 DEF FastCode
  <2>4. far => len >= 3
    BY <1>3
  <2>5. CASE len < Lengths - 1
    <3>1. n = 0
      BY <1>1, <2>5 DEF More
    <3> DEFINE c == Len(code)
    <3>2. c \in Nat /\ (c = 2 \/ (far /\ c = 4))
      BY <2>2, <3>1
    <3> HIDE DEF c, n, far
    <3>3. c \in Nat /\ c <= len + 2 /\ (c = len + 2 => len >= 3 /\ Highs <= 6)
      BY <2>4, <3>2
    <3> HIDE DEF code
    <3> QED
      BY <2>2, <2>3, <3>3 DEF c
  <2>6. CASE ~(len < Lengths - 1)
    <3> DEFINE x == len - (Lengths - 1)
               q == x \div (Bytes - 1)
    <3>1. x \in Nat /\ len = x + (Lengths - 1)
      BY <1>1, <2>6
    <3>2. n = q + 1 /\ q \in Nat
      <4>1. len >= Lengths - 1
        BY <1>1, <2>6
      <4>2. More(len) = Fast!LengthBytes(x)
        BY <4>1 DEF More
      <4> HIDE DEF x
      <4>3. Len(Fast!LengthBytes(x)) = q + 1 /\ q \in Nat
        BY <3>1, LengthBytesAre
      <4> HIDE DEF q
      <4> QED
        BY <4>2, <4>3
    <3>3. q <= x /\ (x > 0 => q < x)
      <4> DEFINE b == Bytes - 1
      <4>1. b \in Nat \ {0} /\ b >= 2
        BY <1>1
      <4> HIDE DEF b, x
      <4>2. x < (x + 1) * b /\ (x > 0 => x < x * b)
        <5>1. 2 * (x + 1) <= b * (x + 1) /\ 2 * x <= b * x
          BY <3>1, <4>1, TimesMonotonic
        <5>2. b * (x + 1) = (x + 1) * b /\ b * x = x * b /\ (x + 1) * b \in Nat /\ x * b \in Nat
          BY <3>1, <4>1
        <5> QED
          BY <3>1, <5>1, <5>2
      <4>3. x \div b < x + 1 /\ (x > 0 => x \div b < x)
        <5>1. x + 1 \in Nat
          BY <3>1
        <5>2. x \div b < x + 1
          BY <3>1, <4>1, <4>2, <5>1, DivisionBound
        <5>3. x > 0 => x \div b < x
          BY <3>1, <4>1, <4>2, DivisionBound
        <5> QED
          BY <5>2, <5>3
      <4>4. q = x \div b
        BY DEF b
      <4> HIDE DEF q
      <4> QED
        BY <3>1, <3>2, <4>3, <4>4
    <3>4. Lengths >= 5 \/ Highs <= 6
      BY DataEnginesAssumption
    <3> DEFINE c == Len(code)
    <3>5. c \in Nat /\ c <= q + 5 /\ (~far => c = q + 3)
      <4> HIDE DEF far, n, q
      <4>1. c \in Nat /\ n \in Nat /\ (~far => c = n + 2) /\ (far => c = n + 4)
        BY <2>2
      <4> HIDE DEF c
      <4> QED
        BY <3>2, <4>1
    <3> HIDE DEF c, n, far, x, q
    <3>6. c \in Nat /\ c <= len + 2 /\ (c = len + 2 => len >= 3 /\ Highs <= 6)
      BY <1>1, <2>4, <3>1, <3>2, <3>3, <3>4, <3>5
    <3> HIDE DEF code
    <3> QED
      BY <2>2, <2>3, <3>6 DEF c
  <2> QED
    BY <2>5, <2>6
<1> QED
  BY <1>2, <1>3

------------------------------------------------------------------------------
(* What the decompressors read *)

\* A remainder does not change by the divisor.
LEMMA Remainder ==
  ASSUME NEW c \in Nat \ {0}, NEW n \in Nat
  PROVE  /\ n < c => n % c = n
         /\ n >= c => n - c \in Nat /\ (n - c) % c = n % c
<1>1. n < c => n % c = n
  <2> SUFFICES ASSUME n < c PROVE n % c = n
    OBVIOUS
  <2>1. n \in 0 .. c - 1 /\ 0 * c + n = n
    OBVIOUS
  <2>2. (0 * c + n) % c = n
    BY <2>1, DivisionUnique
  <2> QED
    BY <2>1, <2>2
<1>2. n >= c => n - c \in Nat /\ (n - c) % c = n % c
  <2> SUFFICES ASSUME n >= c PROVE n - c \in Nat /\ (n - c) % c = n % c
    OBVIOUS
  <2> DEFINE q == n \div c
             r == n % c
  <2>1. q \in Nat /\ r \in 0 .. c - 1 /\ n = q * c + r
    BY Division
  <2>2. q # 0
    BY <2>1
  <2> HIDE DEF q, r
  <2>3. PICK p \in Nat : q = p + 1
    <3>1. q - 1 \in Nat /\ q = (q - 1) + 1
      BY <2>1, <2>2
    <3> QED
      BY <3>1
  <2>4. (p + 1) * c = p * c + c /\ p * c \in Nat
    BY <2>3
  <2>5. n - c = p * c + r
    BY <2>1, <2>3, <2>4
  <2>6. (p * c + r) % c = r
    BY <2>1, <2>3, DivisionUnique
  <2> QED
    BY <2>5, <2>6 DEF r
<1> QED
  BY <1>1, <1>2

\* What has been written is the beginning of the chunk.
Prefix(d, chunk) ==
  /\ d \in Seq(Byte) /\ Len(d) <= Len(chunk)
  /\ \A i \in 1 .. Len(d) : d[i] = chunk[i]

\* A copy, byte by byte, from behind the end continues the chunk.
LEMMA CopiedPrefix ==
  ASSUME NEW chunk \in Seq(Byte), NEW d, Prefix(d, chunk), NEW n \in Nat, NEW back,
         Copies(chunk, Len(d), Len(d) + n, back), Len(d) + n <= Len(chunk)
  PROVE  Prefix(Copied(d, back, n), chunk) /\ Len(Copied(d, back, n)) = Len(d) + n
<1> DEFINE k == Len(d)
           from(j) == k - back + 1 + ((j - 1) % back)
           more == [j \in 1 .. n |-> d[from(j)]]
<1>1. d \in Seq(Byte) /\ k \in Nat /\ back \in 1 .. k /\ \A i \in 1 .. k : d[i] = chunk[i]
  BY DEF Prefix, Copies
<1>2. \A i \in k + 1 .. k + n : chunk[i] = chunk[i - back]
  BY DEF Copies
<1>3. ASSUME NEW j \in 1 .. n
      PROVE  from(j) \in 1 .. k
  <2>1. (j - 1) % back \in 0 .. back - 1
    <3>1. j - 1 \in Nat /\ back \in Nat \ {0}
      BY <1>1
    <3> QED
      BY <3>1, Division
  <2> HIDE DEF k
  <2> QED
    BY <1>1, <2>1
<1> HIDE DEF k
<1> DEFINE S == {j \in 1 .. n : chunk[k + j] # chunk[from(j)]}
<1>4. ASSUME S # {}
      PROVE  FALSE
  <2>1. PICK j \in S : \A i \in S : j <= i
    <3>1. S \in SUBSET Nat
      OBVIOUS
    <3> HIDE DEF S
    <3> QED
      BY <1>4, <3>1, Least
  <2>2. j \in 1 .. n /\ chunk[k + j] # chunk[from(j)]
    BY <2>1
  <2>3. k + j \in k + 1 .. k + n /\ chunk[k + j] = chunk[(k + j) - back]
    BY <1>1, <1>2, <2>2
  <2>4. j - 1 \in Nat /\ back \in Nat \ {0}
    BY <1>1, <2>2
  <2>5. CASE j <= back
    <3>1. (j - 1) % back = j - 1
      <4> DEFINE m == j - 1
      <4>1. m \in Nat /\ back \in Nat \ {0} /\ m < back
        BY <1>1, <2>2, <2>4, <2>5
      <4> HIDE DEF m
      <4>2. m % back = m
        BY <4>1, Remainder
      <4> QED
        BY <4>2 DEF m
    <3>2. from(j) = (k + j) - back
      <4> HIDE DEF S
      <4> QED
        BY <1>1, <2>2, <3>1
    <3> QED
      BY <2>2, <2>3, <3>2
  <2>6. CASE ~(j <= back)
    <3>1. j - back \in 1 .. n /\ j - back < j
      BY <1>1, <2>2, <2>6
    <3>2. ((j - 1) - back) % back = (j - 1) % back
      <4> DEFINE m == j - 1
      <4>1. m \in Nat /\ back \in Nat \ {0} /\ m >= back
        BY <1>1, <2>2, <2>4, <2>6
      <4> HIDE DEF m
      <4>2. (m - back) % back = m % back
        BY <4>1, Remainder
      <4> QED
        BY <4>2 DEF m
    <3>3. (j - back) - 1 = (j - 1) - back
      BY <1>1, <2>2
    <3>4. from(j - back) = from(j)
      BY <3>2, <3>3
    <3>5. j - back \notin S
      <4> HIDE DEF S
      <4> QED
        BY <2>1, <3>1, <1>1, <2>2
    <3>6. chunk[k + (j - back)] = chunk[from(j - back)]
      BY <3>1, <3>5
    <3>7. k + (j - back) = (k + j) - back
      BY <1>1, <2>2
    <3> QED
      BY <2>2, <2>3, <3>4, <3>6, <3>7
  <2> QED
    BY <2>5, <2>6
<1>5. ASSUME NEW j \in 1 .. n
      PROVE  d[from(j)] \in Byte /\ d[from(j)] = chunk[k + j]
  <2>1. chunk[k + j] = chunk[from(j)]
    BY <1>4
  <2>2. d[from(j)] = chunk[from(j)] /\ d[from(j)] \in Byte
    <3>1. from(j) \in 1 .. k
      BY <1>3
    <3> HIDE DEF from
    <3>2. d[from(j)] = chunk[from(j)]
      BY <1>1, <3>1
    <3>3. d[from(j)] \in Byte
      BY <1>1, <3>1, ElementOfSeq DEF k
    <3> QED
      BY <3>2, <3>3
  <2> QED
    BY <2>1, <2>2
<1>6. Copied(d, back, n) = d \o more
  BY DEF Copied, k
<1> HIDE DEF from
<1>7. more \in Seq(Byte) /\ Len(more) = n /\ \A j \in 1 .. n : more[j] = chunk[k + j]
  <2>1. \A j \in 1 .. n : d[from(j)] \in Byte /\ d[from(j)] = chunk[k + j]
    BY <1>5
  <2> QED
    BY <2>1, IsASeq, LenProperties
<1> HIDE DEF more
<1>8. /\ d \o more \in Seq(Byte) /\ Len(d \o more) = k + n
      /\ \A i \in 1 .. k : (d \o more)[i] = d[i]
      /\ \A j \in 1 .. n : (d \o more)[k + j] = more[j]
  <2>1. /\ d \o more \in Seq(Byte) /\ Len(d \o more) = Len(d) + Len(more)
        /\ \A i \in 1 .. Len(d) : (d \o more)[i] = d[i]
        /\ \A j \in 1 .. Len(more) : (d \o more)[Len(d) + j] = more[j]
    BY <1>1, <1>7, Joined
  <2> QED
    BY <1>7, <2>1 DEF k
<1> DEFINE e == d \o more
<1> HIDE DEF e
<1>9. \A i \in 1 .. k + n : e[i] = chunk[i]
  <2> SUFFICES ASSUME NEW i \in 1 .. k + n PROVE e[i] = chunk[i]
    OBVIOUS
  <2>1. CASE i \in 1 .. k
    BY <1>1, <1>8, <2>1 DEF e
  <2>2. CASE i \notin 1 .. k
    <3>1. i - k \in 1 .. n /\ k + (i - k) = i
      BY <1>1, <2>2
    <3> QED
      BY <1>7, <1>8, <3>1 DEF e
  <2> QED
    BY <2>1, <2>2
<1>10. e \in Seq(Byte) /\ Len(e) = k + n
  BY <1>8 DEF e
<1>11. Prefix(e, chunk)
  BY <1>9, <1>10 DEF Prefix, k
<1> QED
  BY <1>6, <1>10, <1>11 DEF e, k

\* n bytes of a stream are those of the chunk.
Literals(s, c, chunk, k, n) == \A i \in 1 .. n : s[c + i] = chunk[k + i]

\* Literals continue the chunk.
LEMMA LiteralsPrefix ==
  ASSUME NEW chunk \in Seq(Byte), NEW d, Prefix(d, chunk), NEW s \in Seq(Byte),
         NEW c \in Nat, NEW n \in Nat, c + n <= Len(s), Len(d) + n <= Len(chunk),
         Literals(s, c, chunk, Len(d), n)
  PROVE  /\ Prefix(d \o SubSeq(s, c + 1, c + n), chunk)
         /\ Len(d \o SubSeq(s, c + 1, c + n)) = Len(d) + n
<1> DEFINE k == Len(d)
           first == c + 1
           end == c + n
           more == SubSeq(s, first, end)
           e == d \o more
<1>1. d \in Seq(Byte) /\ k \in Nat /\ \A i \in 1 .. k : d[i] = chunk[i]
  BY DEF Prefix
<1>0. \A i \in 1 .. n : s[c + i] = chunk[k + i]
  BY DEF Literals
<1>2. more \in Seq(Byte) /\ Len(more) = n /\ \A i \in 1 .. n : more[i] = chunk[k + i]
  <2>1. /\ first \in Nat /\ end \in Nat /\ end - first + 1 = n /\ first >= 1
        /\ \A i \in first .. end : s[i] \in Byte
    <3>1. \A i \in first .. end : i \in 1 .. Len(s)
      OBVIOUS
    <3> QED
      BY <3>1, ElementOfSeq
  <2>2. \A i \in 1 .. n : first + i - 1 = c + i
    OBVIOUS
  <2> HIDE DEF first, end
  <2>3. SubSeq(s, first, end) \in Seq(Byte)
    BY <2>1, SubSeqProperties
  <2>4. Len(SubSeq(s, first, end)) = IF first <= end THEN end - first + 1 ELSE 0
    BY <2>1, SubSeqProperties
  <2>5. \A i \in 1 .. end - first + 1 : SubSeq(s, first, end)[i] = s[first + i - 1]
    BY <2>1, SubSeqProperties
  <2>6. Len(SubSeq(s, first, end)) = n
    BY <2>1, <2>4
  <2> QED
    BY <1>0, <2>1, <2>2, <2>3, <2>5, <2>6 DEF k
<1> HIDE DEF more
<1>3. /\ e \in Seq(Byte) /\ Len(e) = k + n
      /\ \A i \in 1 .. k : e[i] = d[i]
      /\ \A j \in 1 .. n : e[k + j] = more[j]
  <2>1. /\ d \o more \in Seq(Byte) /\ Len(d \o more) = Len(d) + Len(more)
        /\ \A i \in 1 .. Len(d) : (d \o more)[i] = d[i]
        /\ \A j \in 1 .. Len(more) : (d \o more)[Len(d) + j] = more[j]
    BY <1>1, <1>2, Joined
  <2> QED
    BY <1>2, <2>1
<1> HIDE DEF e, k
<1>4. \A i \in 1 .. k + n : e[i] = chunk[i]
  <2> SUFFICES ASSUME NEW i \in 1 .. k + n PROVE e[i] = chunk[i]
    OBVIOUS
  <2>1. CASE i \in 1 .. k
    BY <1>1, <1>3, <2>1
  <2>2. CASE i \notin 1 .. k
    <3>1. i - k \in 1 .. n /\ k + (i - k) = i
      BY <1>1, <2>2
    <3> QED
      BY <1>2, <1>3, <3>1
  <2> QED
    BY <2>1, <2>2
<1>5. Prefix(e, chunk) /\ Len(e) = k + n
  BY <1>3, <1>4 DEF Prefix, k
<1> QED
  BY <1>5 DEF e, more, k

\* The decompressor is at a cut of the stream, and has written what the codes
\* before it stand for.
Reached(l, chunk, s, c, d) ==
  \E at : /\ Cuts(l, chunk, s, Len(s), Len(chunk), at)
          /\ c \in DOMAIN at /\ at[c] = Len(d) /\ Prefix(d, chunk)

\* It begins at the first one.
LEMMA ReachedFirst ==
  ASSUME NEW l, NEW chunk \in Seq(Byte), NEW s, Coded(l, chunk, s, Len(s), Len(chunk))
  PROVE  Reached(l, chunk, s, 0, <<>>)
<1>1. PICK at : Cuts(l, chunk, s, Len(s), Len(chunk), at)
  BY DEF Coded
<1>2. Prefix(<<>>, chunk)
  BY DEF Prefix
<1>3. 0 \in DOMAIN at /\ at[0] = 0 /\ Len(<<>>) = 0
  BY <1>1 DEF Cuts
<1> QED
  BY <1>1, <1>2, <1>3 DEF Reached

\* From a cut there is a code to the next one, and the last one is the end.
LEMMA ReachedNext ==
  ASSUME NEW l, NEW chunk \in Seq(Byte), NEW s \in Seq(Byte), NEW c \in Nat, NEW d,
         Reached(l, chunk, s, c, d), c # Len(s)
  PROVE  \E m, j \in Nat :
           /\ c < m /\ m <= Len(s) /\ j <= Len(chunk)
           /\ Code(l, chunk, s, c, Len(d), m, j)
           /\ \A e : Prefix(e, chunk) /\ Len(e) = j =>
                       Reached(l, chunk, s, m, e) /\ (m = Len(s) => e = chunk)
<1>1. PICK at : /\ Cuts(l, chunk, s, Len(s), Len(chunk), at)
                /\ c \in DOMAIN at /\ at[c] = Len(d)
  BY DEF Reached
<1>2. PICK m \in DOMAIN at : c < m /\ Code(l, chunk, s, c, at[c], m, at[m])
  BY <1>1 DEF Cuts
<1>3. /\ m \in 0 .. Len(s) /\ at[m] \in 0 .. Len(chunk)
      /\ m = Len(s) => at[m] = Len(chunk)
  BY <1>1 DEF Cuts
<1>4. ASSUME NEW e, Prefix(e, chunk), Len(e) = at[m]
      PROVE  Reached(l, chunk, s, m, e) /\ (m = Len(s) => e = chunk)
  <2>1. Reached(l, chunk, s, m, e)
    BY <1>1, <1>2, <1>4 DEF Reached
  <2>2. ASSUME m = Len(s)
        PROVE  e = chunk
    <3>1. e \in Seq(Byte) /\ Len(e) = Len(chunk) /\ \A i \in 1 .. Len(e) : e[i] = chunk[i]
      BY <1>3, <1>4, <2>2 DEF Prefix
    <3> QED
      BY <3>1, SeqEqual
  <2> QED
    BY <2>1, <2>2
<1>5. m \in Nat /\ at[m] \in Nat /\ m <= Len(s) /\ at[m] <= Len(chunk)
  BY <1>3
<1>6. \A e : Prefix(e, chunk) /\ Len(e) = at[m] =>
               Reached(l, chunk, s, m, e) /\ (m = Len(s) => e = chunk)
  BY <1>4
<1> DEFINE j == at[m]
<1>7. /\ c < m /\ m <= Len(s) /\ j <= Len(chunk) /\ Code(l, chunk, s, c, Len(d), m, j)
      /\ m \in Nat /\ j \in Nat
      /\ \A e : Prefix(e, chunk) /\ Len(e) = j =>
                  Reached(l, chunk, s, m, e) /\ (m = Len(s) => e = chunk)
  BY <1>1, <1>2, <1>5, <1>6
<1> QED
  BY <1>7

\* What the decompressor does with a code up to place m that stands for the
\* bytes up to j.
Decoded(m, j) ==
  /\ read' = m /\ Prefix(data', input) /\ Len(data') = j
  /\ pc' = IF m < Len(stream) THEN "decompress" ELSE "done"

\* The parts both decompressors share are the same.
LEMMA SameRuns ==
  ASSUME NEW n
  PROVE  /\ Lzf!LiteralRun(n) <=> LiteralRun(n)
         /\ Fast!LiteralRun(n) <=> LiteralRun(n)
BY DEF Lzf!LiteralRun, Fast!LiteralRun, LiteralRun, Lzf!Error, Fast!Error, Error, Lzf!Advance,
       Fast!Advance, Advance, Lzf!Size, Fast!Size, Size

LEMMA SameCopies ==
  ASSUME NEW bytes, NEW n, NEW back
  PROVE  /\ Lzf!CopyRun(bytes, n, back) <=> CopyRun(bytes, n, back)
         /\ Fast!CopyRun(bytes, n, back) <=> CopyRun(bytes, n, back)
BY DEF Lzf!CopyRun, Fast!CopyRun, CopyRun, Lzf!Error, Fast!Error, Error, Lzf!Advance,
       Fast!Advance, Advance, Lzf!Size, Fast!Size, Size, Lzf!Copied, Fast!Copied, Copied

LEMMA SameReads ==
  ASSUME NEW k
  PROVE  Lzf!Readable(k) = Readable(k) /\ Fast!Readable(k) = Readable(k)
BY DEF Lzf!Readable, Fast!Readable, Readable, Lzf!Byte, Fast!Byte, Byte

\* A run of literals is copied.
LEMMA RunDecoded ==
  ASSUME input \in Seq(Byte), stream \in Seq(Byte), read \in Nat, Prefix(data, input),
         NEW n \in Nat, NEW m \in Nat, NEW j \in Nat, m <= Len(stream), j <= Len(input),
         m = read + 1 + n, j = Len(data) + n,
         \A i \in 1 .. n : stream[read + 1 + i] = input[Len(data) + i],
         LiteralRun(n)
  PROVE  Decoded(m, j)
<1>1. data \in Seq(Byte) /\ Len(data) \in Nat
  BY DEF Prefix
<1>2. ~(Len(data) + n > Size \/ read + 1 + n > Len(stream))
  BY <1>1 DEF Size
<1>3. /\ read' = read + (1 + n)
      /\ data' = data \o SubSeq(stream, read + 2, read + 1 + n)
      /\ pc' = IF read + (1 + n) < Len(stream) THEN "decompress" ELSE "done"
  BY <1>2 DEF LiteralRun, Advance
<1> DEFINE c == read + 1
           e == data \o SubSeq(stream, c + 1, c + n)
<1>4. c \in Nat /\ c + n <= Len(stream) /\ Len(data) + n <= Len(input)
  OBVIOUS
<1>5. Literals(stream, c, input, Len(data), n)
  BY DEF Literals
<1>6. data' = e /\ read' = m /\ pc' = IF m < Len(stream) THEN "decompress" ELSE "done"
  <2>1. c + 1 = read + 2 /\ c + n = read + 1 + n /\ read + (1 + n) = m
    OBVIOUS
  <2> QED
    BY <1>3, <2>1
<1> HIDE DEF c
<1>7. ASSUME NEW k \in Nat, NEW s \in Seq(Byte), k + n <= Len(s), Literals(s, k, input, Len(data), n)
      PROVE  /\ Prefix(data \o SubSeq(s, k + 1, k + n), input)
             /\ Len(data \o SubSeq(s, k + 1, k + n)) = Len(data) + n
  BY <1>4, <1>7, LiteralsPrefix
<1>8. Prefix(e, input) /\ Len(e) = Len(data) + n
  BY <1>4, <1>5, <1>7
<1> HIDE DEF e
<1> QED
  BY <1>6, <1>8 DEF Decoded

\* A match is copied.
LEMMA CopyDecoded ==
  ASSUME input \in Seq(Byte), stream \in Seq(Byte), read \in Nat, Prefix(data, input),
         NEW bytes \in Nat, NEW n \in Nat, NEW m \in Nat, NEW j \in Nat, NEW back,
         m <= Len(stream), j <= Len(input), m = read + bytes, j = Len(data) + n,
         Copies(input, Len(data), j, back),
         CopyRun(bytes, n, back)
  PROVE  Decoded(m, j)
<1>1. data \in Seq(Byte) /\ Len(data) \in Nat /\ back \in 1 .. Len(data)
  BY DEF Prefix, Copies
<1>2. ~(Len(data) + n > Size \/ back > Len(data))
  BY <1>1 DEF Size
<1>3. /\ read' = read + bytes /\ data' = Copied(data, back, n)
      /\ pc' = IF read + bytes < Len(stream) THEN "decompress" ELSE "done"
  BY <1>2 DEF CopyRun, Advance
<1>4. Prefix(Copied(data, back, n), input) /\ Len(Copied(data, back, n)) = Len(data) + n
  BY CopiedPrefix
<1> QED
  BY <1>3, <1>4 DEF Decoded

\* liblzf decodes every code.
LEMMA LzfDecoded ==
  ASSUME input \in Seq(Byte), stream \in Seq(Byte), read \in Nat, Prefix(data, input),
         stream[1] < Highs,
         NEW m \in Nat, NEW j \in Nat, read < m, m <= Len(stream), j <= Len(input),
         Code(1, input, stream, read, Len(data), m, j),
         Lzf!Decompress
  PROVE  Decoded(m, j)
<1>1. /\ Lengths \in Nat /\ Lengths >= 3 /\ Highs \in Nat /\ Highs >= 3
      /\ Bytes \in Nat /\ Bytes >= 9 /\ Byte = 0 .. Bytes - 1
  BY Sizes
<1>2. /\ Len(data) \in Nat /\ Len(stream) \in Nat
      /\ \A k \in 1 .. Len(stream) : stream[k] \in Byte /\ Readable(k) = {stream[k]}
  BY ElementOfSeq DEF Prefix, Readable
<1>3. read + 1 \in 1 .. Len(stream)
  OBVIOUS
<1> DEFINE ctrl == stream[read + 1]
<1>4. IF ctrl < Highs THEN LiteralRun(ctrl + 1) ELSE Lzf!BackReference(ctrl)
  BY <1>2, <1>3, SameReads, SameRuns DEF Lzf!Decompress
<1>5. ctrl \in Byte /\ Ctrl(stream, read) = ctrl
  <2>1. ctrl \in Byte
    BY <1>2, <1>3
  <2>2. CASE read = 0
    BY <2>1, <2>2, Unmarked
  <2>3. CASE read # 0
    BY <2>3 DEF Ctrl
  <2> QED
    BY <2>1, <2>2, <2>3
<1> HIDE DEF ctrl
<1>6. CASE RunCode(input, stream, read, Len(data), m, j)
  <2>1. PICK n \in 1 .. Highs :
          /\ Ctrl(stream, read) = n - 1 /\ m = read + 1 + n /\ j = Len(data) + n
          /\ \A i \in 1 .. n : stream[read + 1 + i] = input[Len(data) + i]
    BY <1>6 DEF RunCode
  <2>2. ctrl < Highs /\ ctrl + 1 = n /\ n \in Nat
    BY <1>1, <1>5, <2>1
  <2>3. LiteralRun(n)
    BY <1>4, <2>2
  <2> QED
    BY <2>1, <2>2, <2>3, RunDecoded
<1>7. CASE read > 0 /\ MatchCode(1, input, stream, read, Len(data), m, j)
  <2>1. PICK off \in Offsets(1), len \in Matched(1) :
          /\ m = read + Len(Lzf!Reference(off, len)) /\ j = Len(data) + len + 2
          /\ Holds(stream, read, Lzf!Reference(off, len))
          /\ Copies(input, Len(data), j, off + 1)
    BY <1>7 DEF MatchCode, BackCode
  <2> DEFINE n == IF len < Lengths - 1 THEN 2 ELSE 3
             code == Lzf!Reference(off, len)
  <2>2. /\ code \in Seq(Byte) /\ Len(code) = n
        /\ code[1] = (off \div Bytes) + Field(len) * Highs
        /\ n = 3 => code[2] = len - (Lengths - 1)
        /\ code[n] = off % Bytes
    BY ReferenceBytes
  <2>3. /\ m = read + n /\ n \in Nat /\ len \in Nat /\ len >= 1
        /\ \A i \in 1 .. n : stream[read + i] = code[i]
    BY <1>1, <2>1, <2>2 DEF Holds, Matched
  <2>4. off \in Nat /\ off < Highs * Bytes
    BY <1>1, Products DEF Offsets
  <2>5. /\ off \div Bytes \in 0 .. Highs - 1 /\ off % Bytes \in Byte
        /\ off = (off \div Bytes) * Bytes + (off % Bytes)
    BY <2>4, DistanceFields
  <2>6. Field(len) \in 0 .. Lengths - 1 /\ Field(len) > 0
    BY <1>1, <2>3 DEF Field
  <2>7. ctrl = (off \div Bytes) + Field(len) * Highs /\ stream[read + n] = off % Bytes
    <3>1. 1 \in 1 .. n /\ n \in 1 .. n
      OBVIOUS
    <3> HIDE DEF n, code
    <3> QED
      BY <2>2, <2>3, <3>1 DEF ctrl
  <2>8. ctrl >= Highs /\ ctrl \div Highs = Field(len) /\ ctrl % Highs = off \div Bytes
    BY <2>5, <2>6, <2>7, Fields
  <2>9. ~(ctrl < Highs)
    BY <1>1, <1>5, <2>8
  <2>10. Lzf!BackReference(ctrl)
    BY <1>4, <2>9
  <2>11. n = 3 => stream[read + 2] = len - (Lengths - 1)
    BY <2>2, <2>3
  <2> HIDE DEF code
  <2>12. CopyRun(n, len + 2, off + 1)
    <3>1. CASE len < Lengths - 1
      <4>1. n = 2 /\ ctrl \div Highs = len /\ len # Lengths - 1
        BY <1>1, <2>3, <2>8, <3>1 DEF Field
      <4> HIDE DEF n
      <4>2. ~(read + 2 > Len(stream)) /\ 2 + len = len + 2
        BY <2>3, <4>1
      <4>3. CopyRun(2, 2 + len, (ctrl % Highs) * Bytes + stream[read + 2] + 1)
        BY <2>10, <4>1, <4>2, Limits, SameCopies DEF Lzf!BackReference
      <4>4. (ctrl % Highs) * Bytes + stream[read + 2] + 1 = off + 1
        BY <2>5, <2>7, <2>8, <4>1
      <4> QED
        BY <4>1, <4>2, <4>3, <4>4
    <3>2. CASE ~(len < Lengths - 1)
      <4>1. n = 3 /\ ctrl \div Highs = Lengths - 1
        BY <1>1, <2>3, <2>8, <3>2 DEF Field
      <4> HIDE DEF n
      <4>2. ~(read + 3 > Len(stream)) /\ 2 + (Lengths - 1 + stream[read + 2]) = len + 2
        <5>1. ~(read + 3 > Len(stream))
          BY <2>3, <4>1
        <5>2. stream[read + 2] = len - (Lengths - 1)
          BY <2>11, <4>1
        <5> QED
          BY <1>1, <2>3, <5>1, <5>2
      <4>3. CopyRun(3, 2 + (Lengths - 1 + stream[read + 2]),
                    (ctrl % Highs) * Bytes + stream[read + 3] + 1)
        BY <2>10, <4>1, <4>2, Limits, SameCopies DEF Lzf!BackReference
      <4>4. (ctrl % Highs) * Bytes + stream[read + 3] + 1 = off + 1
        BY <2>5, <2>7, <2>8, <4>1
      <4> QED
        BY <4>1, <4>2, <4>3, <4>4
    <3> QED
      BY <3>1, <3>2
  <2> HIDE DEF n
  <2>13. len + 2 \in Nat /\ j = Len(data) + (len + 2)
    BY <1>2, <2>1, <2>3
  <2> QED
    BY <2>1, <2>3, <2>12, <2>13, CopyDecoded
<1> QED
  BY <1>6, <1>7 DEF Code

\* The number of full length bytes of a match of level 2 is found.
LEMMA FullBytesAre ==
  ASSUME stream \in Seq(Byte), NEW k \in Nat \ {0}, NEW f \in Nat, k + f <= Len(stream),
         \A i \in k .. k + f - 1 : stream[i] = Bytes - 1, stream[k + f] # Bytes - 1
  PROVE  Fast!FullBytes(k) = {f}
<1> DEFINE full == {n \in 0 .. Len(stream) :
                      k + n - 1 <= Len(stream) /\ \A i \in k .. k + n - 1 : stream[i] = Bytes - 1}
           most == CHOOSE n \in full : n + 1 \notin full
<1>1. Len(stream) \in Nat
  OBVIOUS
<1>2. ASSUME NEW n \in Nat
      PROVE  n \in full <=> n <= f
  <2>1. ASSUME n <= f
        PROVE  n \in full
    <3>1. \A i \in k .. k + n - 1 : i \in k .. k + f - 1
      BY <1>2, <2>1
    <3>2. \A i \in k .. k + n - 1 : stream[i] = Bytes - 1
      BY <3>1
    <3>3. n \in 0 .. Len(stream) /\ k + n - 1 <= Len(stream)
      BY <1>1, <1>2, <2>1
    <3> QED
      BY <3>2, <3>3
  <2>2. ASSUME n \in full, ~(n <= f)
        PROVE  FALSE
    <3>1. k + f \in k .. k + n - 1
      BY <1>2, <2>2
    <3> QED
      BY <2>2, <3>1
  <2> QED
    BY <2>1, <2>2
<1>3. \A n \in full : n \in Nat
  OBVIOUS
<1>4. Fast!FullBytes(k) = IF k + most <= Len(stream) THEN {most}
                          ELSE most .. most + (Size \div (Bytes - 1)) + 1
  BY DEF Fast!FullBytes, Fast!Bytes, Fast!Size, Bytes, Size
<1> HIDE DEF full
<1>5. f \in full /\ f + 1 \notin full
  BY <1>2
<1>6. most \in full /\ most + 1 \notin full
  BY <1>5
<1>7. most = f
  <2> HIDE DEF most
  <2>1. most \in Nat /\ most <= f
    BY <1>2, <1>3, <1>6
  <2>2. ~(most + 1 <= f)
    BY <1>2, <1>6, <2>1
  <2> QED
    BY <2>1, <2>2
<1> HIDE DEF most
<1> QED
  BY <1>4, <1>7

\* A match of level 1 is decoded.
LEMMA MatchOneDecoded ==
  ASSUME input \in Seq(Byte), stream \in Seq(Byte), read \in Nat, Prefix(data, input),
         NEW m \in Nat, NEW j \in Nat, m <= Len(stream), j <= Len(input),
         NEW off \in Offsets(1), NEW len \in Matched(1),
         m = read + Len(Lzf!Reference(off, len)), j = Len(data) + len + 2,
         Holds(stream, read, Lzf!Reference(off, len)),
         Copies(input, Len(data), j, off + 1),
         Fast!MatchOne(Field(len), off \div Bytes)
  PROVE  Decoded(m, j)
<1>1. /\ Lengths \in Nat /\ Lengths >= 3 /\ Highs \in Nat /\ Highs >= 3
      /\ Bytes \in Nat /\ Bytes >= 9 /\ Byte = 0 .. Bytes - 1
  BY Sizes
<1>2. /\ Len(data) \in Nat /\ Len(stream) \in Nat
      /\ \A k \in 1 .. Len(stream) : stream[k] \in Byte /\ Readable(k) = {stream[k]}
  BY ElementOfSeq DEF Prefix, Readable
<1> DEFINE n == IF len < Lengths - 1 THEN 2 ELSE 3
           code == Lzf!Reference(off, len)
<1>3. /\ code \in Seq(Byte) /\ Len(code) = n
      /\ n = 3 => code[2] = len - (Lengths - 1)
      /\ code[n] = off % Bytes
  BY ReferenceBytes
<1>4. /\ m = read + n /\ n \in Nat /\ len \in Nat /\ len >= 1
      /\ \A i \in 1 .. n : stream[read + i] = code[i]
  BY <1>1, <1>3 DEF Holds, Matched
<1>5. off \in Nat /\ off < Highs * Bytes
  BY <1>1, Products DEF Offsets
<1>6. /\ off \div Bytes \in 0 .. Highs - 1 /\ off % Bytes \in Byte
      /\ off = (off \div Bytes) * Bytes + (off % Bytes)
  BY <1>5, DistanceFields
<1>7. stream[read + n] = off % Bytes /\ (n = 3 => stream[read + 2] = len - (Lengths - 1))
  BY <1>3, <1>4
<1> HIDE DEF code
<1>8. CopyRun(n, len + 2, off + 1)
  <2>1. CASE len < Lengths - 1
    <3>1. n = 2 /\ Field(len) = len /\ len # Lengths - 1
      <4>1. len \in Nat /\ len # Lengths - 1
        BY <1>1, <1>4, <2>1
      <4> QED
        BY <2>1, <4>1 DEF Field
    <3> HIDE DEF n
    <3>2. read + 2 \in 1 .. Len(stream) /\ len + 2 + 0 = len + 2
      BY <1>4, <3>1
    <3>3. CopyRun(2, len + 2 + 0, (off \div Bytes) * Bytes + stream[read + 2] + 1)
      BY <1>2, <3>1, <3>2, Limits, SameCopies, SameReads DEF Fast!MatchOne
    <3>4. (off \div Bytes) * Bytes + stream[read + 2] + 1 = off + 1
      BY <1>6, <1>7, <3>1
    <3> QED
      BY <3>1, <3>2, <3>3, <3>4
  <2>2. CASE ~(len < Lengths - 1)
    <3>1. n = 3 /\ Field(len) = Lengths - 1
      BY <1>1, <1>4, <2>2 DEF Field
    <3> HIDE DEF n
    <3>2. read + 2 \in 1 .. Len(stream) /\ read + 3 \in 1 .. Len(stream)
      <4>1. m = read + 3 /\ Len(stream) \in Nat
        BY <1>2, <1>4, <3>1
      <4> QED
        BY <4>1
    <3>3. CopyRun(3, Lengths - 1 + 2 + stream[read + 2],
                  (off \div Bytes) * Bytes + stream[read + 3] + 1)
      BY <1>2, <3>1, <3>2, Limits, SameCopies, SameReads DEF Fast!MatchOne
    <3>4. (off \div Bytes) * Bytes + stream[read + 3] + 1 = off + 1
      BY <1>6, <1>7, <3>1
    <3>5. Lengths - 1 + 2 + stream[read + 2] = len + 2
      <4>1. stream[read + 2] = len - (Lengths - 1)
        BY <1>7, <3>1
      <4> QED
        BY <1>1, <1>4, <4>1
    <3> QED
      BY <3>1, <3>3, <3>4, <3>5
  <2> QED
    BY <2>1, <2>2
<1> HIDE DEF n
<1>9. len + 2 \in Nat /\ j = Len(data) + (len + 2)
  BY <1>2, <1>4
<1> QED
  BY <1>4, <1>8, <1>9, CopyDecoded

\* A match of level 2 is decoded.
LEMMA MatchTwoDecoded ==
  ASSUME input \in Seq(Byte), stream \in Seq(Byte), read \in Nat, Prefix(data, input),
         NEW m \in Nat, NEW j \in Nat, m <= Len(stream), j <= Len(input),
         NEW off \in Offsets(2), NEW len \in Matched(2),
         m = read + Len(Fast!LevelTwo(off, len)), j = Len(data) + len + 2,
         Holds(stream, read, Fast!LevelTwo(off, len)),
         Copies(input, Len(data), j, off + 1),
         NEW high, high = IF off < Fast!MaxDistance(2) THEN off \div Bytes ELSE Highs - 1,
         Fast!MatchTwo(Field(len), high)
  PROVE  Decoded(m, j)
<1>1. /\ Lengths \in Nat /\ Lengths >= 3 /\ Highs \in Nat /\ Highs >= 3
      /\ Bytes \in Nat /\ Bytes >= 9 /\ Byte = 0 .. Bytes - 1
  BY Sizes
<1>2. /\ Len(data) \in Nat /\ Len(stream) \in Nat
      /\ \A k \in 1 .. Len(stream) : stream[k] \in Byte /\ Readable(k) = {stream[k]}
  BY ElementOfSeq DEF Prefix, Readable
<1> DEFINE max == Fast!MaxDistance(2)
           code == Fast!LevelTwo(off, len)
           n == Len(More(len))
           far == off - max
<1>3. /\ off \in Nat /\ len \in Nat /\ len >= 1 /\ max \in Nat /\ max + 1 = Highs * Bytes
  <2>1. off \in Nat
    BY <1>1, Limits, Products DEF Offsets
  <2>2. len \in Nat /\ len >= 1
    BY DEF Matched
  <2>3. max = Highs * Bytes - 1
    BY Limits
  <2>4. Highs * Bytes - 1 \in Nat /\ Highs * Bytes - 1 + 1 = Highs * Bytes
    <3> DEFINE p == Highs * Bytes
    <3>1. p \in Nat /\ p >= 3 * Bytes
      BY Products
    <3> HIDE DEF p
    <3>2. p - 1 \in Nat /\ p - 1 + 1 = p
      BY <1>1, <3>1
    <3> QED
      BY <3>2 DEF p
  <2> HIDE DEF max
  <2> QED
    BY <2>1, <2>2, <2>3, <2>4
<1>4. /\ n \in Nat /\ More(len) \in Seq(Byte)
      /\ \A i \in 1 .. n : code[1 + i] = More(len)[i]
      /\ off < max => Len(code) = n + 2 /\ code[n + 2] = off % Bytes
      /\ off >= max =>
           /\ Len(code) = n + 4
           /\ code[n + 2] = Bytes - 1
           /\ code[n + 3] = far \div Bytes /\ code[n + 4] = far % Bytes
           /\ far = (far \div Bytes) * Bytes + (far % Bytes)
           /\ far \div Bytes \in Byte /\ far % Bytes \in Byte
  BY LevelTwoBytes
<1>5. \A i \in 1 .. Len(code) : stream[read + i] = code[i]
  BY DEF Holds
<1>6. /\ off < max => m = read + n + 2
      /\ off >= max => m = read + n + 4
      /\ \A i \in 1 .. n : stream[read + 1 + i] = More(len)[i]
      /\ off < max => stream[read + n + 2] = off % Bytes
      /\ off >= max => /\ stream[read + n + 2] = Bytes - 1
                       /\ stream[read + n + 3] = far \div Bytes
                       /\ stream[read + n + 4] = far % Bytes
  <2> HIDE DEF n, code, far, max
  <2>1. m = read + Len(code)
    BY DEF code
  <2>2. Len(code) \in Nat /\ Len(code) >= n + 2
    BY <1>3, <1>4, SMTT(20)
  <2>3. ASSUME NEW i \in 1 .. n
        PROVE  stream[read + 1 + i] = More(len)[i]
    <3>1. 1 + i \in 1 .. Len(code) /\ read + (1 + i) = read + 1 + i
      BY <1>4, <2>2
    <3>2. stream[read + (1 + i)] = code[1 + i]
      BY <1>5, <3>1
    <3> QED
      BY <1>4, <3>1, <3>2
  <2>4. stream[read + n + 2] = code[n + 2]
    <3>1. n + 2 \in 1 .. Len(code) /\ read + (n + 2) = read + n + 2
      BY <1>4, <2>2
    <3> QED
      BY <1>5, <3>1
  <2>5. off >= max => stream[read + n + 3] = code[n + 3] /\ stream[read + n + 4] = code[n + 4]
    <3> SUFFICES ASSUME off >= max
                 PROVE  stream[read + n + 3] = code[n + 3] /\ stream[read + n + 4] = code[n + 4]
      OBVIOUS
    <3>1. /\ n + 3 \in 1 .. Len(code) /\ read + (n + 3) = read + n + 3
          /\ n + 4 \in 1 .. Len(code) /\ read + (n + 4) = read + n + 4
      BY <1>4, <2>2
    <3>2. stream[read + (n + 3)] = code[n + 3]
      BY <1>5, <3>1
    <3>3. stream[read + (n + 4)] = code[n + 4]
      BY <1>5, <3>1
    <3> QED
      BY <3>1, <3>2, <3>3
  <2> QED
    BY <1>4, <2>1, <2>3, <2>4, <2>5, SMTT(20)
<1> HIDE DEF code, far, max, n
<1> DEFINE full == n - 1
           some == IF Field(len) = Lengths - 1 THEN Fast!FullBytes(read + 2) ELSE {-1}
           last == IF n = 0 THEN 0 ELSE stream[read + n + 1]
           times == IF full > 0 THEN full * (Bytes - 1) ELSE 0
\* The length bytes.
<1>7. /\ some = {full}
      /\ n > 0 => last # Bytes - 1
      /\ Field(len) + 2 + last + times = len + 2
  <2>1. CASE len < Lengths - 1
    <3>1. n = 0
      BY <1>1, <1>3, <2>1 DEF n, More
    <3>2. len # Lengths - 1 /\ Field(len) = len
      BY <1>1, <1>3, <2>1 DEF Field
    <3> QED
      BY <1>3, <3>1, <3>2
  <2>2. CASE ~(len < Lengths - 1)
    <3> DEFINE x == len - (Lengths - 1)
               f == x \div (Bytes - 1)
               r == x % (Bytes - 1)
               bytes == Fast!LengthBytes(x)
    <3>1. x \in Nat /\ len = x + (Lengths - 1) /\ len >= Lengths - 1
      BY <1>1, <1>3, <2>2
    <3>2. More(len) = bytes
      BY <3>1 DEF More
    <3> HIDE DEF x
    <3>3. /\ f \in Nat /\ r \in 0 .. Bytes - 2 /\ x = f * (Bytes - 1) + r
          /\ Len(bytes) = f + 1
          /\ \A i \in 1 .. f : bytes[i] = Bytes - 1
          /\ bytes[f + 1] = r
      BY <3>1, LengthBytesAre
    <3> HIDE DEF bytes, f, r
    <3>4. n = f + 1
      BY <3>2, <3>3 DEF n
    <3>5. last = r
      <4>1. n \in 1 .. n /\ n # 0 /\ read + 1 + n = read + n + 1
        BY <3>3, <3>4
      <4>2. stream[read + 1 + n] = bytes[n]
        BY <1>6, <3>2, <4>1
      <4> QED
        BY <3>3, <3>4, <4>1, <4>2
    <3>6. Fast!FullBytes(read + 2) = {f}
      <4> DEFINE k == read + 2
      <4>1. k \in Nat \ {0} /\ k + f <= Len(stream) /\ k + f = read + n + 1
        <5>1. m >= read + n + 2
          BY <1>3, <1>4, <1>6
        <5> QED
          BY <1>2, <3>3, <3>4, <5>1
      <4>2. \A i \in k .. k + f - 1 : stream[i] = Bytes - 1
        <5> SUFFICES ASSUME NEW i \in k .. k + f - 1 PROVE stream[i] = Bytes - 1
          OBVIOUS
        <5> DEFINE h == i - (read + 1)
        <5>1. h \in 1 .. f /\ h \in 1 .. n /\ read + 1 + h = i
          BY <3>3, <3>4
        <5> HIDE DEF h, k
        <5>2. stream[read + 1 + h] = bytes[h]
          BY <1>6, <3>2, <5>1
        <5> QED
          BY <3>3, <5>1, <5>2
      <4>3. stream[k + f] # Bytes - 1
        <5>1. n # 0
          BY <3>3, <3>4
        <5>2. stream[k + f] = r
          BY <3>5, <4>1, <5>1
        <5> QED
          BY <1>1, <3>3, <5>2
      <4> HIDE DEF k
      <4>4. Fast!FullBytes(k) = {f}
        BY <3>3, <4>1, <4>2, <4>3, FullBytesAre
      <4> QED
        BY <4>4 DEF k
    <3>7. Field(len) = Lengths - 1
      BY <2>2 DEF Field
    <3>8. full = f /\ times = f * (Bytes - 1)
      <4>1. full = f
        BY <3>3, <3>4
      <4>2. f > 0 \/ f = 0
        BY <3>3
      <4>3. f = 0 => f * (Bytes - 1) = 0
        BY <1>1
      <4> QED
        BY <4>1, <4>2, <4>3
    <3> HIDE DEF last, times, full
    <3>9. Field(len) + 2 + last + times = len + 2
      <4> DEFINE v == f * (Bytes - 1)
      <4>1. v \in Nat /\ x = v + r
        <5> DEFINE b == Bytes - 1
        <5>1. b \in Nat
          BY <1>1
        <5> HIDE DEF b
        <5>2. f * b \in Nat
          BY <3>3, <5>1
        <5> QED
          BY <3>3, <5>2 DEF b
      <4>2. times = v
        BY <3>8
      <4>3. r \in Nat /\ x \in Nat /\ Lengths \in Nat /\ len = x + (Lengths - 1)
        BY <1>1, <3>1, <3>3
      <4> HIDE DEF v
      <4>4. (Lengths - 1) + 2 + r + v = x + (Lengths - 1) + 2
        BY <4>1, <4>3
      <4> QED
        BY <3>5, <3>7, <4>2, <4>3, <4>4
    <3>10. last # Bytes - 1
      BY <1>1, <3>3, <3>5
    <3> QED
      BY <3>6, <3>7, <3>8, <3>9, <3>10
  <2> QED
    BY <2>1, <2>2
\* The distance.
<1>8. \E l \in IF full >= 0 THEN Readable(read + 2 + full) \ {Bytes - 1} ELSE {0},
         c \in Readable(read + 3 + full) :
        LET length == Field(len) + 2 + l + IF full > 0 THEN full * (Bytes - 1) ELSE 0
        IN IF c = Bytes - 1 /\ high = Highs - 1
           THEN \E a \in Readable(read + 4 + full), b \in Readable(read + 5 + full) :
                  CopyRun(5 + full, length, a * Bytes + b + max + 1)
           ELSE CopyRun(3 + full, length, high * Bytes + c + 1)
  <2>1. \E e \in some :
          \E l \in IF e >= 0 THEN Readable(read + 2 + e) \ {Bytes - 1} ELSE {0},
             c \in Readable(read + 3 + e) :
            LET length == Field(len) + 2 + l + IF e > 0 THEN e * (Bytes - 1) ELSE 0
            IN IF c = Bytes - 1 /\ high = Highs - 1
               THEN \E a \in Readable(read + 4 + e), b \in Readable(read + 5 + e) :
                      CopyRun(5 + e, length, a * Bytes + b + max + 1)
               ELSE CopyRun(3 + e, length, high * Bytes + c + 1)
    BY DEF Fast!MatchTwo, max, Fast!CopyRun, CopyRun, Fast!Error, Error, Fast!Advance, Advance,
           Fast!Size, Size, Fast!Copied, Copied, Fast!Readable, Readable, Fast!Byte, Byte,
           Fast!Bytes, Bytes
  <2> HIDE DEF some, full
  <2> QED
    BY <1>7, <2>1
<1>9. ~(off < max) \/ ~(off \div Bytes = Highs - 1 /\ off % Bytes = Bytes - 1)
  <2> SUFFICES ASSUME off < max, off \div Bytes = Highs - 1, off % Bytes = Bytes - 1
               PROVE  FALSE
    OBVIOUS
  <2>1. off = (off \div Bytes) * Bytes + (off % Bytes)
    <3>1. off < Highs * Bytes
      BY <1>3
    <3> QED
      BY <1>3, <3>1, DistanceFields
  <2>2. off = (Highs - 1) * Bytes + (Bytes - 1)
    BY <2>1
  <2>3. (Highs - 1) * Bytes = Highs * Bytes - Bytes /\ Highs * Bytes \in Nat
    BY <1>1
  <2> QED
    BY <1>1, <1>3, <2>2, <2>3
<1>10. PICK l \in IF full >= 0 THEN Readable(read + 2 + full) \ {Bytes - 1} ELSE {0},
            c \in Readable(read + 3 + full) :
         IF c = Bytes - 1 /\ high = Highs - 1
         THEN \E a \in Readable(read + 4 + full), b \in Readable(read + 5 + full) :
                CopyRun(5 + full, Field(len) + 2 + l + times, a * Bytes + b + max + 1)
         ELSE CopyRun(3 + full, Field(len) + 2 + l + times, high * Bytes + c + 1)
  BY <1>8
<1>11. l = last /\ c = stream[read + n + 2]
  <2>1. read + n + 2 \in 1 .. Len(stream) /\ read + 3 + full = read + n + 2
    <3>1. m >= read + n + 2
      BY <1>3, <1>4, <1>6
    <3> QED
      BY <1>2, <1>4, <3>1
  <2>2. c = stream[read + n + 2]
    BY <1>2, <1>10, <2>1
  <2>3. CASE n = 0
    <3>1. ~(full >= 0)
      BY <2>3
    <3> QED
      BY <1>10, <2>2, <2>3, <3>1
  <2>4. CASE n # 0
    <3>1. full >= 0 /\ read + 2 + full = read + n + 1 /\ read + n + 1 \in 1 .. Len(stream)
      BY <1>4, <2>1, <2>4
    <3>2. Readable(read + 2 + full) = {stream[read + n + 1]}
      BY <1>2, <3>1
    <3> QED
      BY <1>10, <2>2, <2>4, <3>1, <3>2
  <2> QED
    BY <2>3, <2>4
<1>12. len + 2 \in Nat /\ j = Len(data) + (len + 2)
  BY <1>2, <1>3
<1>13. CASE off < max
  <2>1. c = off % Bytes /\ high = off \div Bytes /\ m = read + n + 2
    BY <1>6, <1>11, <1>13 DEF max
  <2>2. CopyRun(3 + full, len + 2, high * Bytes + c + 1)
    BY <1>7, <1>9, <1>10, <1>11, <1>13, <2>1
  <2>3. high * Bytes + c + 1 = off + 1
    <3>1. off < Highs * Bytes
      BY <1>3, <1>13
    <3>2. off = (off \div Bytes) * Bytes + (off % Bytes)
      BY <1>3, <3>1, DistanceFields
    <3> QED
      BY <2>1, <3>2
  <2>4. 3 + full = n + 2 /\ n + 2 \in Nat /\ m = read + (n + 2)
    BY <1>4, <2>1
  <2>5. CopyRun(n + 2, len + 2, off + 1)
    BY <2>2, <2>3, <2>4
  <2> QED
    BY <1>12, <2>4, <2>5, CopyDecoded
<1>14. CASE ~(off < max)
  <2>1. /\ off >= max /\ c = Bytes - 1 /\ high = Highs - 1 /\ m = read + n + 4
        /\ stream[read + n + 3] = far \div Bytes /\ stream[read + n + 4] = far % Bytes
    <3>1. off >= max
      BY <1>3, <1>14
    <3>2. high = Highs - 1
      BY <1>14 DEF max
    <3> QED
      BY <1>6, <1>11, <3>1, <3>2
  <2>2. /\ read + 4 + full = read + n + 3 /\ read + 5 + full = read + n + 4
        /\ read + n + 3 \in 1 .. Len(stream) /\ read + n + 4 \in 1 .. Len(stream)
    BY <1>2, <1>4, <2>1, SMTT(20)
  <2>3. CopyRun(5 + full, len + 2, (far \div Bytes) * Bytes + (far % Bytes) + max + 1)
    BY <1>2, <1>7, <1>10, <1>11, <2>1, <2>2
  <2>4. (far \div Bytes) * Bytes + (far % Bytes) + max + 1 = off + 1
    <3>1. far = (far \div Bytes) * Bytes + (far % Bytes)
      BY <1>4, <2>1
    <3>2. far + max + 1 = off + 1
      BY <1>3 DEF far
    <3> QED
      BY <3>1, <3>2
  <2>5. 5 + full = n + 4 /\ n + 4 \in Nat /\ m = read + (n + 4)
    BY <1>4, <2>1, SMTT(20)
  <2>6. CopyRun(n + 4, len + 2, off + 1)
    BY <2>3, <2>4, <2>5
  <2> QED
    BY <1>12, <2>5, <2>6, CopyDecoded
<1> QED
  BY <1>13, <1>14

\* FastLZ decodes every code.
LEMMA FastDecoded ==
  ASSUME input \in Seq(Byte), stream \in Seq(Byte), read \in Nat, Prefix(data, input),
         NEW l \in {1, 2}, stream[1] \div Highs = l - 1,
         NEW m \in Nat, NEW j \in Nat, read < m, m <= Len(stream), j <= Len(input),
         Code(l, input, stream, read, Len(data), m, j),
         Fast!Decompress
  PROVE  Decoded(m, j)
<1>1. /\ Lengths \in Nat /\ Lengths >= 3 /\ Highs \in Nat /\ Highs >= 3
      /\ Bytes \in Nat /\ Bytes >= 9 /\ Byte = 0 .. Bytes - 1
  BY Sizes
<1>2. /\ Len(data) \in Nat /\ Len(stream) \in Nat
      /\ \A k \in 1 .. Len(stream) : stream[k] \in Byte /\ Readable(k) = {stream[k]}
  BY ElementOfSeq DEF Prefix, Readable
<1>3. read + 1 \in 1 .. Len(stream)
  OBVIOUS
<1> DEFINE byte == stream[read + 1]
           ctrl == IF read = 0 THEN byte % Highs ELSE byte
<1>4. IF read = 0 /\ byte \div Highs \notin {0, 1} THEN Fast!Error
      ELSE IF ctrl < Highs THEN LiteralRun(ctrl + 1)
           ELSE Fast!MatchRun(ctrl \div Highs, ctrl % Highs)
  BY <1>2, <1>3, SameReads, SameRuns DEF Fast!Decompress
<1>5. byte \in Byte /\ Ctrl(stream, read) = ctrl
  BY <1>2, <1>3 DEF Ctrl
<1>6. ctrl \in Byte /\ (read = 0 => byte \div Highs \in {0, 1})
  <2>1. byte % Highs \in 0 .. Highs - 1
    BY <1>5, FieldsOf
  <2>2. 0 .. Highs - 1 \subseteq Byte
    BY <1>1, Sizes
  <2>3. read = 0 => byte \div Highs \in {0, 1}
    <3> SUFFICES ASSUME read = 0 PROVE byte \div Highs \in {0, 1}
      OBVIOUS
    <3>1. byte = stream[1]
      OBVIOUS
    <3> HIDE DEF byte
    <3>2. byte \div Highs = l - 1
      BY <3>1
    <3> QED
      BY <3>2
  <2> QED
    BY <1>5, <2>1, <2>2, <2>3
<1>7. IF ctrl < Highs THEN LiteralRun(ctrl + 1)
      ELSE Fast!MatchRun(ctrl \div Highs, ctrl % Highs)
  BY <1>4, <1>6
<1>8. read > 0 => ctrl = stream[read + 1]
  OBVIOUS
<1> HIDE DEF byte, ctrl
<1>9. CASE RunCode(input, stream, read, Len(data), m, j)
  <2>1. PICK n \in 1 .. Highs :
          /\ Ctrl(stream, read) = n - 1 /\ m = read + 1 + n /\ j = Len(data) + n
          /\ \A i \in 1 .. n : stream[read + 1 + i] = input[Len(data) + i]
    BY <1>9 DEF RunCode
  <2>2. ctrl < Highs /\ ctrl + 1 = n /\ n \in Nat
    BY <1>1, <1>5, <2>1
  <2>3. LiteralRun(n)
    BY <1>7, <2>2
  <2> QED
    BY <2>1, <2>2, <2>3, RunDecoded
<1>10. CASE read > 0 /\ MatchCode(l, input, stream, read, Len(data), m, j)
  <2>1. PICK off \in Offsets(l), len \in Matched(l) :
          /\ m = read + Len(BackCode(l, off, len)) /\ j = Len(data) + len + 2
          /\ Holds(stream, read, BackCode(l, off, len))
          /\ Copies(input, Len(data), j, off + 1)
    BY <1>10 DEF MatchCode
  <2> DEFINE code == BackCode(l, off, len)
             high == IF l = 1 \/ off < Fast!MaxDistance(2) THEN off \div Bytes ELSE Highs - 1
  <2>2. Len(code) >= 2 /\ code \in Seq(Byte)
    BY BackCodeBytes
  <2>3. Field(len) \in 0 .. Lengths - 1 /\ Field(len) > 0
    <3>1. len \in Nat /\ len >= 1
      <4>1. l = 1 => len \in Nat /\ len >= 1
        BY DEF Matched
      <4>2. l = 2 => len \in Nat /\ len >= 1
        BY DEF Matched
      <4> QED
        BY <4>1, <4>2
    <3> QED
      BY <1>1, <3>1 DEF Field
  <2>4. high \in 0 .. Highs - 1
    <3>1. CASE l = 1 \/ off < Fast!MaxDistance(2)
      <4>1. off \in Nat /\ off < Highs * Bytes
        <5>1. CASE l = 1
          BY <1>1, <5>1, Products DEF Offsets
        <5>2. CASE l = 2 /\ off < Fast!MaxDistance(2)
          BY <1>1, <5>2, Limits, Products DEF Offsets
        <5> QED
          BY <3>1, <5>1, <5>2
      <4>2. off \div Bytes \in 0 .. Highs - 1
        BY <4>1, DistanceFields
      <4> QED
        BY <3>1, <4>2
    <3>2. CASE ~(l = 1 \/ off < Fast!MaxDistance(2))
      BY <1>1, <3>2
    <3> QED
      BY <3>1, <3>2
  <2>5. code[1] = high + Field(len) * Highs
    <3>1. CASE l = 1
      BY <3>1, ReferenceBytes DEF BackCode
    <3>2. CASE l = 2
      <4>1. off \in Nat /\ Fast!MaxDistance(2) \in Int
        BY <1>1, <3>2, Limits, Products DEF Offsets
      <4> QED
        BY <3>2, <4>1, LevelTwoBytes DEF BackCode
    <3> QED
      BY <3>1, <3>2
  <2> HIDE DEF high, code
  <2>6. ctrl = high + Field(len) * Highs
    <3>1. 1 \in 1 .. Len(code)
      BY <2>2
    <3>2. stream[read + 1] = code[1]
      BY <2>1, <3>1 DEF Holds, code
    <3> QED
      BY <1>8, <1>10, <2>5, <3>2
  <2>7. ctrl >= Highs /\ ctrl \div Highs = Field(len) /\ ctrl % Highs = high
    BY <2>3, <2>4, <2>6, Fields
  <2>8. ~(ctrl < Highs)
    BY <1>1, <1>6, <2>7
  <2>9. Fast!MatchRun(Field(len), high)
    BY <1>7, <2>7, <2>8
  <2>10. Fast!StreamLevel = l
    BY DEF Fast!StreamLevel
  <2>11. CASE l = 1
    <3>1. Fast!MatchOne(Field(len), off \div Bytes)
      BY <2>9, <2>10, <2>11 DEF Fast!MatchRun, high
    <3>2. BackCode(l, off, len) = Lzf!Reference(off, len)
      BY <2>11 DEF BackCode
    <3> QED
      BY <2>1, <2>11, <3>1, <3>2, MatchOneDecoded
  <2>12. CASE l = 2
    <3>1. Fast!MatchTwo(Field(len), high)
      BY <2>9, <2>10, <2>12 DEF Fast!MatchRun
    <3>2. BackCode(l, off, len) = Fast!LevelTwo(off, len)
      BY <2>12 DEF BackCode
    <3>3. high = IF off < Fast!MaxDistance(2) THEN off \div Bytes ELSE Highs - 1
      BY <2>12 DEF high
    <3> QED
      BY <2>1, <2>12, <3>1, <3>2, <3>3, MatchTwoDecoded
  <2> QED
    BY <2>11, <2>12
<1> QED
  BY <1>9, <1>10 DEF Code

------------------------------------------------------------------------------
(* The steps of the compressors *)

\* No bytes code nothing.
LEMMA NothingOnly ==
  ASSUME NEW l, NEW chunk, NEW s, NEW k, Coded(l, chunk, s, 0, k)
  PROVE  k = 0
<1>1. PICK at : Cuts(l, chunk, s, 0, k, at)
  BY DEF Coded
<1>2. at[0] = 0 /\ at[0] = k
  BY <1>1 DEF Cuts
<1> QED
  BY <1>2

\* A literal is put into the open run, and the next one opened if it is full.
LEMMA LiteralPut ==
  ASSUME NEW l, NEW chunk, NEW s, NEW p, NEW m, OpenRun(l, chunk, s, p, m),
         Thrifty(Len(s) - m - 1, p - m), chunk[p + 1] \in Byte, m < Highs
  PROVE  LET t == Append(s, chunk[p + 1])
         IN /\ OpenRun(l, chunk, t, p + 1, m + 1)
            /\ Thrifty(Len(t) - (m + 1) - 1, (p + 1) - (m + 1))
            /\ Len(t) = Len(s) + 1
            /\ m + 1 = Highs =>
                 \A b \in 0 .. Highs - 1 :
                   LET u == Append(EndRun(t, Highs), b)
                   IN /\ OpenRun(l, chunk, u, p + 1, 0)
                      /\ Thrifty(Len(u) - 0 - 1, (p + 1) - 0)
                      /\ Len(u) = Len(s) + 2
                      /\ u[Len(u)] = b
<1> DEFINE t == Append(s, chunk[p + 1])
<1>1. s \in Seq(Byte) /\ p \in Nat /\ m \in Nat /\ m <= p /\ m < Len(s) /\ Len(s) \in Nat
  BY DEF OpenRun
<1>2. OpenRun(l, chunk, t, p + 1, m + 1)
  BY OpenPut
<1>3. Len(t) = Len(s) + 1
  BY <1>1, Appended
<1> HIDE DEF t
<1>4. Len(t) - (m + 1) - 1 = Len(s) - m - 1 /\ (p + 1) - (m + 1) = p - m
  BY <1>1, <1>3
<1>5. ASSUME m + 1 = Highs, NEW b \in 0 .. Highs - 1
      PROVE  LET u == Append(EndRun(t, Highs), b)
             IN /\ OpenRun(l, chunk, u, p + 1, 0)
                /\ Thrifty(Len(u) - 0 - 1, (p + 1) - 0)
                /\ Len(u) = Len(s) + 2
                /\ u[Len(u)] = b
  <2> DEFINE e == EndRun(t, Highs)
             u == Append(e, b)
  <2>1. Closed(l, chunk, e, p + 1) /\ Len(e) = Len(t)
    <3>1. OpenRun(l, chunk, t, p + 1, Highs) /\ Highs # 0
      BY <1>2, <1>5, Sizes
    <3>2. Len(e) = Len(t) - (IF Highs = 0 THEN 1 ELSE 0)
      BY <3>1, RunEnded
    <3>3. Closed(l, chunk, e, p + 1)
      BY <3>1, RunEnded
    <3> QED
      BY <1>1, <1>3, <3>1, <3>2, <3>3
  <2> HIDE DEF e
  <2>2. OpenRun(l, chunk, u, p + 1, 0) /\ Len(u) = Len(e) + 1
    BY <2>1, RunOpened
  <2>3. u[Len(e) + 1] = b
    <3>1. e \in Seq(Byte) /\ b \in Byte
      BY <2>1, Sizes DEF Closed
    <3> QED
      BY <3>1, Appended
  <2> HIDE DEF u
  <2>4. Thrifty((Len(s) - m - 1) + 1 + Highs, (p - m) + Highs)
    <3>1. Len(s) - m - 1 \in Nat /\ p - m \in Nat
      BY <1>1
    <3> QED
      BY <3>1, ThriftyRun
  <2>5. Len(u) - 0 - 1 = (Len(s) - m - 1) + 1 + Highs /\ (p + 1) - 0 = (p - m) + Highs
    BY <1>1, <1>3, <1>5, <2>1, <2>2
  <2>6. Len(u) = Len(s) + 2 /\ u[Len(u)] = b
    BY <1>1, <1>3, <2>1, <2>2, <2>3
  <2>7. Thrifty(Len(u) - 0 - 1, (p + 1) - 0)
    BY <2>4, <2>5
  <2> QED
    BY <2>2, <2>6, <2>7 DEF u, e
<1> QED
  BY <1>2, <1>3, <1>4, <1>5 DEF t

\* A run that was full from the beginning is not changed when it is ended.
LEMMA FullRun ==
  ASSUME NEW s \in Seq(Byte), NEW b \in Byte, NEW m \in Nat, m + 1 = Highs, m < Len(s),
         s[Len(s) - m] = Highs - 1
  PROVE  /\ EndRun(Append(s, b), Highs) = Append(s, b)
         /\ s \o <<b, Highs - 1>> = Append(Append(s, b), Highs - 1)
<1> DEFINE t == Append(s, b)
<1>1. /\ t \in Seq(Byte) /\ Len(s) \in Nat /\ Len(t) = Len(s) + 1
      /\ \A i \in 1 .. Len(s) : t[i] = s[i]
      /\ t[Len(s) + 1] = b
  BY Appended
<1>2. Highs \in Nat /\ Highs >= 3 /\ Highs - 1 \in Byte
  BY Sizes
<1> HIDE DEF t
<1>3. Len(t) - Highs = Len(s) - m /\ Len(s) - m \in 1 .. Len(s) /\ Len(t) - Highs \in 1 .. Len(t)
  <2>1. Len(s) \in Nat /\ Len(t) = Len(s) + 1 /\ Highs = m + 1
    BY <1>1, <1>2
  <2> DEFINE x == Len(s)
             y == Len(t)
  <2>2. m < x
    OBVIOUS
  <2> HIDE DEF x, y
  <2>3. y - Highs = x - m /\ x - m \in 1 .. x /\ y - Highs \in 1 .. y
    BY <2>1, <2>2 DEF x, y
  <2> QED
    BY <2>3 DEF x, y
<1>4. EndRun(t, Highs) = [t EXCEPT ![Len(t) - Highs] = Highs - 1]
  BY <1>2 DEF EndRun
<1>5. t[Len(t) - Highs] = Highs - 1
  BY <1>1, <1>3
<1>6. [t EXCEPT ![Len(t) - Highs] = Highs - 1] = t
  <2> DEFINE k == Len(t) - Highs
             w == Highs - 1
             v == [t EXCEPT ![k] = w]
  <2> HIDE DEF k, w
  <2>1. v \in Seq(Byte) /\ Len(v) = Len(t) /\ \A i \in 1 .. Len(t) : v[i] = IF i = k THEN w ELSE t[i]
    BY <1>1, <1>2, <1>3, ExceptSeq DEF k, w
  <2>2. t[k] = w
    BY <1>5 DEF k, w
  <2> HIDE DEF v
  <2>3. \A i \in 1 .. Len(v) : v[i] = t[i]
    BY <2>1, <2>2
  <2>4. v = t
    BY <1>1, <2>1, <2>3, SeqEqual
  <2> QED
    BY <2>4 DEF v, k, w
<1>7. s \o <<b, Highs - 1>> = Append(t, Highs - 1)
  <2> DEFINE w == Highs - 1
             x == s \o <<b, w>>
             y == Append(t, w)
  <2>1. w \in Byte
    BY <1>2
  <2> HIDE DEF w
  <2>2. <<b, w>> \in Seq(Byte) /\ Len(<<b, w>>) = 2 /\ <<b, w>>[1] = b /\ <<b, w>>[2] = w
    BY <2>1
  <2>3. /\ x \in Seq(Byte) /\ Len(x) = Len(s) + Len(<<b, w>>)
        /\ \A i \in 1 .. Len(s) : x[i] = s[i]
        /\ \A i \in 1 .. Len(<<b, w>>) : x[Len(s) + i] = <<b, w>>[i]
    BY <2>2, Joined
  <2>4. Len(x) = Len(s) + 2 /\ x[Len(s) + 1] = b /\ x[Len(s) + 2] = w
    <3> DEFINE z == <<b, w>>
    <3>1. Len(z) = 2 /\ z[1] = b /\ z[2] = w
      BY <2>2
    <3>2. Len(x) = Len(s) + Len(z) /\ \A i \in 1 .. Len(z) : x[Len(s) + i] = z[i]
      BY <2>3
    <3> HIDE DEF z, x
    <3> QED
      BY <3>1, <3>2
  <2>5. /\ y \in Seq(Byte) /\ Len(y) = Len(t) + 1
        /\ \A i \in 1 .. Len(t) : y[i] = t[i]
        /\ y[Len(t) + 1] = w
    BY <1>1, <2>1, Appended
  <2> HIDE DEF x, y
  <2>6. x \in Seq(Byte) /\ \A i \in 1 .. Len(s) : x[i] = s[i]
    BY <2>3
  <2>7. Len(x) = Len(y) /\ \A i \in 1 .. Len(x) : x[i] = y[i]
    <3>1. Len(x) = Len(y) /\ Len(y) = Len(s) + 2
      BY <1>1, <2>4, <2>5
    <3>2. ASSUME NEW i \in 1 .. Len(s) + 2 PROVE x[i] = y[i]
      <4>1. CASE i \in 1 .. Len(s)
        BY <1>1, <2>5, <2>6, <4>1
      <4>2. CASE i = Len(s) + 1
        BY <1>1, <2>4, <2>5, <4>2
      <4>3. CASE i = Len(s) + 2
        BY <1>1, <2>4, <2>5, <4>3
      <4> QED
        BY <1>1, <4>1, <4>2, <4>3, SMTT(20)
    <3> QED
      BY <3>1, <3>2
  <2>8. x = y
    BY <2>5, <2>6, <2>7, SeqEqual
  <2> QED
    BY <2>8 DEF x, y, w
<1> QED
  BY <1>4, <1>6, <1>7 DEF t

\* What the compressors write for a match.
MatchBytes(l, off, len, code) ==
  \/ code = FastCode(l, off, len)
  \/ l = 1 /\ len \in Matched(1) /\ code = Lzf!Reference(off, len)

\* The open run is ended, a match written, and the next run opened.
LEMMA MatchPut ==
  ASSUME NEW l \in {1, 2}, NEW chunk, NEW s, NEW p, NEW m, OpenRun(l, chunk, s, p, m),
         Thrifty(Len(s) - m - 1, p - m),
         NEW off \in Offsets(l), NEW len \in Nat \ {0},
         l = 2 /\ off >= Fast!MaxDistance(2) => len >= 3,
         Copies(chunk, p, p + len + 2, off + 1),
         NEW code, MatchBytes(l, off, len, code), NEW b \in 0 .. Highs - 1
  PROVE  LET u == Append(EndRun(s, m) \o code, b)
         IN /\ OpenRun(l, chunk, u, p + len + 2, 0)
            /\ Thrifty(Len(u) - 0 - 1, p + len + 2 - 0)
            /\ Len(u) = Len(s) - (IF m = 0 THEN 1 ELSE 0) + Len(code) + 1
            /\ u[Len(u)] = b
<1> DEFINE t == EndRun(s, m)
           e == t \o code
           u == Append(e, b)
<1>1. s \in Seq(Byte) /\ p \in Nat /\ m \in Nat /\ m <= p /\ m < Len(s) /\ Len(s) \in Nat
  BY DEF OpenRun
<1>2. Closed(l, chunk, t, p) /\ Len(t) = Len(s) - (IF m = 0 THEN 1 ELSE 0)
  BY RunEnded
<1> HIDE DEF t
<1>3. p >= 1 /\ t \in Seq(Byte)
  BY <1>2 DEF Copies, Closed
<1>4. t # <<>>
  <2> SUFFICES ASSUME t = <<>> PROVE FALSE
    OBVIOUS
  <2>1. Len(t) = 0
    OBVIOUS
  <2>2. Coded(l, chunk, t, 0, p)
    BY <1>2, <2>1 DEF Closed
  <2> QED
    BY <1>3, <2>2, NothingOnly
<1>5. /\ Closed(l, chunk, e, p + len + 2)
      /\ code \in Seq(Byte) /\ Len(code) \in Nat /\ Len(code) <= len + 2
      /\ Len(code) = len + 2 => len >= 3 /\ Highs <= 6
  <2>1. CASE code = FastCode(l, off, len)
    <3>1. Closed(l, chunk, t \o FastCode(l, off, len), p + len + 2)
      BY <1>2, <1>4, FastMatchAdded
    <3> QED
      BY <2>1, <3>1, FastCodeCost
  <2>2. CASE l = 1 /\ len \in Matched(1) /\ code = Lzf!Reference(off, len)
    <3>1. code = BackCode(l, off, len)
      BY <2>2 DEF BackCode
    <3>2. Closed(l, chunk, t \o BackCode(l, off, len), p + len + 2)
      BY <1>2, <1>4, <2>2, MatchAdded
    <3>3. code \in Seq(Byte) /\ Len(code) \in Nat /\ Len(code) <= len + 1
      BY <2>2, ReferenceCost
    <3> QED
      BY <3>1, <3>2, <3>3
  <2> QED
    BY <2>1, <2>2 DEF MatchBytes
<1>6. e \in Seq(Byte) /\ Len(e) = Len(t) + Len(code)
  BY <1>3, <1>5, Joined
<1> HIDE DEF e
<1>7. OpenRun(l, chunk, u, p + len + 2, 0) /\ Len(u) = Len(e) + 1
  BY <1>5, RunOpened
<1>8. u[Len(e) + 1] = b
  <2>1. b \in Byte
    BY Sizes
  <2> QED
    BY <1>6, <2>1, Appended
<1> HIDE DEF u
<1> DEFINE n == Len(s) - m - 1
           k == p - m
           c == Len(code)
<1>9. Thrifty((n + c) + (IF m = 0 THEN 0 ELSE 1 + m), k + m + len + 2)
  <2>1. n \in Nat /\ k \in Nat /\ c \in Nat /\ len \in Nat /\ c <= len + 2
        /\ (c = len + 2 => len >= 3 /\ Highs <= 6) /\ Thrifty(n, k)
    BY <1>1, <1>5
  <2> HIDE DEF n, k, c
  <2> QED
    BY <1>1, <2>1, ThriftyMatch
<1>10. /\ Len(u) - 0 - 1 = (n + c) + (IF m = 0 THEN 0 ELSE 1 + m)
       /\ p + len + 2 - 0 = k + m + len + 2
       /\ Len(u) = Len(s) - (IF m = 0 THEN 1 ELSE 0) + Len(code) + 1
       /\ Len(u) = Len(e) + 1
  <2>1. k + m + len + 2 = p + len + 2 - 0
    BY <1>1
  <2>2. Len(e) = Len(s) - (IF m = 0 THEN 1 ELSE 0) + c /\ Len(u) = Len(e) + 1
        /\ c \in Nat /\ n \in Nat /\ Len(s) = n + m + 1
    BY <1>1, <1>2, <1>5, <1>6, <1>7
  <2> HIDE DEF n, k, c
  <2>3. CASE m = 0
    BY <1>1, <2>1, <2>2, <2>3 DEF c
  <2>4. CASE m # 0
    BY <1>1, <2>1, <2>2, <2>4 DEF c
  <2> QED
    BY <2>3, <2>4
<1>11. Thrifty(Len(u) - 0 - 1, p + len + 2 - 0)
  <2> HIDE DEF n, k, c
  <2> QED
    BY <1>9, <1>10
<1> QED
  BY <1>7, <1>8, <1>10, <1>11 DEF u, e, t

------------------------------------------------------------------------------
(* The search for matches *)

\* The parts of the compressors that both share are the same.
LEMMA SameCoders ==
  /\ Lzf!Size = Size /\ Fast!Size = Size
  /\ \A s : \A m : Lzf!EndRun(s, m) = EndRun(s, m)
  /\ \A s : \A m : Fast!EndRun(s, m) = EndRun(s, m)
  /\ \A p : Lzf!At(p) = At(p) /\ Fast!At(p) = At(p)
  /\ \A p : Lzf!SlotAt(p) = SlotAt(p) /\ Fast!SlotAt(p) = SlotAt(p)
BY DEF Lzf!Size, Fast!Size, Size, Lzf!EndRun, Fast!EndRun, EndRun, Lzf!At, Fast!At, At,
       Lzf!SlotAt, Fast!SlotAt, SlotAt

LEMMA SameSearches ==
  ASSUME NEW p, NEW q, NEW n, NEW most
  PROVE  /\ Lzf!Equal(p, q, n) <=> Equal(p, q, n)
         /\ Fast!Equal(p, q, n) <=> Equal(p, q, n)
         /\ Lzf!Common(p, q, n, most) = Common(p, q, n, most)
         /\ Fast!Common(p, q, n, most) = Common(p, q, n, most)
BY DEF Lzf!Equal, Fast!Equal, Equal, Lzf!Common, Fast!Common, Common, Lzf!At, Fast!At, At

\* The bytes before the end that is found are equal.
LEMMA CommonIs ==
  ASSUME NEW p, NEW q, NEW n \in Nat, NEW most \in Nat, n <= most
  PROVE  /\ Common(p, q, n, most) \in n .. most
         /\ \A k \in n .. Common(p, q, n, most) - 1 : At(p + k) = At(q + k)
<1> DEFINE differ == {k \in n .. most - 1 : At(p + k) # At(q + k)}
           first  == CHOOSE k \in differ : \A j \in differ : k <= j
<1>1. Common(p, q, n, most) = IF differ = {} THEN most ELSE first
  BY DEF Common
<1>2. differ \in SUBSET Nat /\ \A k \in differ : k \in n .. most - 1
  OBVIOUS
<1>3. \A k \in n .. most - 1 : k \notin differ => At(p + k) = At(q + k)
  OBVIOUS
<1> HIDE DEF differ
<1>4. CASE differ = {}
  BY <1>1, <1>3, <1>4
<1>5. CASE differ # {}
  <2>1. \E k \in differ : \A j \in differ : k <= j
    BY <1>2, <1>5, Least
  <2>2. first \in differ /\ \A j \in differ : first <= j
    BY <2>1
  <2> HIDE DEF first
  <2>3. first \in n .. most - 1
    BY <1>2, <2>2
  <2>4. \A k \in n .. first - 1 : k \in n .. most - 1 /\ k \notin differ
    <3> SUFFICES ASSUME NEW k \in n .. first - 1 PROVE k \in n .. most - 1 /\ k \notin differ
      OBVIOUS
    <3>1. k \in n .. most - 1 /\ ~(first <= k)
      BY <2>3
    <3> QED
      BY <2>2, <3>1
  <2> QED
    BY <1>1, <1>3, <1>5, <2>3, <2>4
<1> QED
  BY <1>4, <1>5

\* Equal bytes at an earlier position can be copied.
LEMMA EqualCopies ==
  ASSUME NEW p \in Nat, NEW q \in Nat, q < p, NEW n \in Nat,
         \A k \in 0 .. n - 1 : At(q + k) = At(p + k)
  PROVE  Copies(input, p, p + n, p - q)
<1>1. p - q \in 1 .. p
  OBVIOUS
<1>2. ASSUME NEW i \in p + 1 .. p + n
      PROVE  input[i] = input[i - (p - q)]
  <2> DEFINE k == i - p - 1
  <2>1. k \in 0 .. n - 1 /\ p + k + 1 = i /\ q + k + 1 = i - (p - q)
    OBVIOUS
  <2> HIDE DEF k
  <2>2. At(q + k) = At(p + k)
    BY <2>1
  <2> QED
    BY <2>1, <2>2 DEF At
<1> QED
  BY <1>1, <1>2 DEF Copies

\* What LZF finds is inside the chunk, and a length of the format.
LEMMA LzfMatchLength ==
  ASSUME ip \in Nat, Size \in Nat, ip < Size - 2, NEW ref \in Int, Lzf!Matches(ref)
  PROVE  /\ Lzf!MatchLength(ref) \in 3 .. Bytes + Lengths
         /\ ip + Lzf!MatchLength(ref) <= Size
         /\ ip - ref - 1 \in Offsets(1)
         /\ Copies(input, ip, ip + Lzf!MatchLength(ref), ip - ref)
<1>1. /\ ref > 0 /\ ref < ip /\ ip - ref - 1 < Highs * Bytes
      /\ \A k \in 0 .. 2 : At(ref + k) = At(ip + k)
  <2>1. ref > 0 /\ ref < ip /\ ip - ref - 1 < Highs * Bytes /\ Lzf!Equal(ref, ip, 3)
    BY Limits DEF Lzf!Matches
  <2>2. Equal(ref, ip, 3)
    BY <2>1, SameSearches
  <2>3. 3 - 1 = 2
    OBVIOUS
  <2> QED
    BY <2>1, <2>2, <2>3 DEF Equal
<1>2. /\ Unrolled \in Nat /\ Unrolled + 3 <= Bytes + Lengths
      /\ Bytes + Lengths \in Nat /\ Bytes + Lengths >= 3
  BY Sizes, DataEnginesAssumption
<1> DEFINE rest   == Size - ip - 2
           max    == Bytes + Lengths
           maxlen == IF rest > max THEN max ELSE rest
           least  == IF maxlen > Unrolled THEN Unrolled + 3 ELSE 3
           most   == IF maxlen > least THEN maxlen ELSE least
           n      == Lzf!MatchLength(ref)
<1>3. n = Common(ref, ip, 3, most)
  BY SameCoders, SameSearches, Limits DEF Lzf!MatchLength
<1>4. most \in Nat /\ 3 <= most /\ most <= max /\ ip + most <= Size
  BY <1>2
<1> HIDE DEF most, n
<1>5. n \in 3 .. most /\ \A k \in 3 .. n - 1 : At(ref + k) = At(ip + k)
  BY <1>3, <1>4, CommonIs
<1>6. ASSUME NEW k \in 0 .. n - 1
      PROVE  At(ref + k) = At(ip + k)
  <2>1. k \in 0 .. 2 \/ k \in 3 .. n - 1
    BY <1>5
  <2> QED
    BY <1>1, <1>5, <2>1
<1>7. ref \in Nat /\ n \in Nat
  BY <1>1, <1>5
<1>8. Copies(input, ip, ip + n, ip - ref)
  BY <1>1, <1>6, <1>7, EqualCopies
<1>9. n \in 3 .. max /\ ip + n <= Size
  BY <1>2, <1>4, <1>5
<1>10. ip - ref - 1 \in Offsets(1)
  BY <1>1, Products DEF Offsets
<1> QED
  BY <1>8, <1>9, <1>10 DEF n, max

------------------------------------------------------------------------------
(* The inductive invariant *)

\* A chunk travels from the engine of the sender to the same engine of the
\* receiver; LZF writes the format of level 1.
EngineInv ==
  /\ pc \in {"idle", "loop", "tail", "sent", "decompress", "done", "error", "returned"}
  /\ level \in {1, 2} /\ infos \in [Sides -> Orders] /\ transport \in Transports
  /\ engine \in [Sides -> Names \cup {NoName}]
  /\ engine["receiver"] \in {NoName, engine["sender"]}
  /\ pc # "idle" => engine["sender"] \in {"LZF", "FastLZ"}
                    /\ engine["receiver"] = engine["sender"]
  /\ pc = "idle" \/ engine["sender"] = "LZF" => level = 1

\* Before a chunk is taken there is none.
SourceInv ==
  /\ input \in Inputs \cup {<<>>} /\ room \in Nat /\ hash \in Hashes
  /\ pc = "idle" => input = <<>> /\ out = <<>>

\* What the compressor has written are codes for what it has read, and an open
\* run of literals.  FastLZ starts runs with the byte of a full one, and its
\* table holds earlier positions only.
CoderInv ==
  /\ pc # "idle" => table \in [Slots -> -1 .. Size]
  /\ ip \in 0 .. Size /\ lit \in 0 .. Highs - 1 /\ out \in Seq(Byte)
  /\ pc \in {"loop", "tail"} =>
       /\ OpenRun(level, input, out, ip, lit)
       /\ Thrifty(Len(out) - lit - 1, ip - lit)
       /\ engine["sender"] = "FastLZ" =>
            /\ pc = "loop" /\ ip >= 2 /\ out[Len(out) - lit] = Highs - 1
            /\ table \in [Slots -> 0 .. ip - 1]

\* The bytes LZF may still write for the rest of the chunk fit.
RestFits ==
  /\ ip >= Size - 2
  /\ Len(out) + (Size - ip) + (IF lit + (Size - ip) >= Highs THEN 1 ELSE 0) <= room
RoomInv ==
  engine["sender"] = "LZF" => Used <= room /\ (pc = "tail" => RestFits)

\* A whole stream, of level l.
Stream(l, chunk, s) ==
  /\ s \in Seq(Byte) /\ s # <<>> /\ s[1] \div Highs = l - 1
  /\ Coded(l, chunk, s, Len(s), Len(chunk))

\* The compressor has written a stream for the chunk, or nothing if LZF had
\* no room for it or the chunk is empty.
WrittenInv ==
  pc \notin {"idle", "loop", "tail"} =>
    /\ out # <<>> => \E l \in {1, 2} : Stream(l, input, out)
    /\ engine["sender"] = "LZF" =>
         /\ out # <<>> => Stream(1, input, out)
         /\ Size > 0 /\ room >= Enough(Size) => out # <<>>
    /\ engine["sender"] = "FastLZ" =>
         /\ out = <<>> => input = <<>>
         /\ Len(out) <= Enough(Size)

\* What the decompressor has read and written, whatever arrived.
SinkInv ==
  /\ stream \in Seq(Byte) /\ read \in Nat /\ data \in Seq(Byte) /\ Len(data) <= Size
  /\ pc \in {"idle", "loop", "tail", "sent"} => stream = <<>> /\ read = 0 /\ data = <<>>
  /\ pc = "decompress" => read < Len(stream) \/ (stream = <<>> /\ read = 0 /\ data = <<>>)
  /\ engine["receiver"] = "LZF" /\ stream # <<>> => read <= Len(stream)

\* If the stream arrives as it was written, the decompressor goes from one of
\* its cuts to the next.
ReliableInv ==
  transport = "reliable" /\ pc \in {"decompress", "done", "error", "returned"} =>
    /\ stream = out
    /\ pc = "decompress" /\ stream # <<>> =>
         \E l \in {1, 2} : /\ stream[1] \div Highs = l - 1
                           /\ Reached(l, input, stream, read, data)
    /\ pc = "done" => data = input /\ read = Len(stream)
    /\ pc = "error" => stream = <<>> /\ data = <<>>
    /\ pc = "returned" => data = input \/ (stream = <<>> /\ data = <<>>)

IInv == /\ EngineInv /\ SourceInv /\ CoderInv /\ RoomInv /\ WrittenInv /\ SinkInv
        /\ ReliableInv

\* The chunk is a sequence of bytes.
LEMMA InputType ==
  ASSUME SourceInv
  PROVE  input \in Seq(Byte) /\ Size \in Nat /\ Size = Len(input)
<1>1. Inputs \subseteq Seq(Byte) /\ <<>> \in Seq(Byte)
  BY LZ77Assumption
<1>2. input \in Seq(Byte)
  BY <1>1 DEF SourceInv
<1> QED
  BY <1>2 DEF Size

\* A byte of the chunk.
LEMMA ByteAt ==
  ASSUME SourceInv, NEW p \in Nat, p < Size
  PROVE  At(p) \in Byte /\ At(p) = input[p + 1]
<1>1. input \in Seq(Byte) /\ p + 1 \in 1 .. Len(input)
  BY InputType
<1> QED
  BY <1>1, ElementOfSeq DEF At

\* The slot of three bytes.
LEMMA SlotType ==
  ASSUME SourceInv, NEW p \in Nat, p < Size - 2
  PROVE  SlotAt(p) \in Slots
<1>1. Size \in Nat
  BY InputType
<1>2. At(p) \in Byte /\ At(p + 1) \in Byte /\ At(p + 2) \in Byte
  BY <1>1, ByteAt
<1>3. hash \in Hashes
  BY DEF SourceInv
<1> QED
  BY <1>2, <1>3, LZ77Assumption DEF SlotAt

\* What a table holds after an entry.
LEMMA Entered ==
  ASSUME NEW S, NEW T, NEW f \in [Slots -> S], S \subseteq T, NEW s, NEW v \in T
  PROVE  [f EXCEPT ![s] = v] \in [Slots -> T]
OBVIOUS

\* The end of what LZF writes for a chunk.
LEMMA LzfOverflow ==
  ASSUME IInv, engine["sender"] = "LZF", pc \in {"loop", "tail"}, UNCHANGED <<level, engine>>,
         Lzf!Overflow, table' \in [Slots -> -1 .. Size],
         ~(Size > 0 /\ room >= Enough(Size))
  PROVE  CoderInv' /\ RoomInv' /\ WrittenInv'
<1>1. /\ pc' = "sent" /\ out' = <<>> /\ ip' = ip /\ lit' = lit
      /\ input' = input /\ room' = room /\ engine' = engine
  BY DEF Lzf!Overflow, Lzf!source
<1>2. Size' = Size /\ Enough(Size)' = Enough(Size)
  BY <1>1 DEF Size, Enough
<1>3. CoderInv'
  BY <1>1, <1>2 DEF CoderInv, IInv
<1>4. RoomInv'
  <2>1. Used' = 0 /\ room' \in Nat
    BY <1>1 DEF Used, SourceInv, IInv
  <2> QED
    BY <1>1, <2>1 DEF RoomInv
<1>5. WrittenInv'
  BY <1>1, <1>2 DEF WrittenInv
<1> QED
  BY <1>3, <1>4, <1>5

------------------------------------------------------------------------------
(* Steps of LZF *)

\* While a chunk is compressed, what is written is not much more than what is
\* read.
LEMMA CoderBound ==
  ASSUME IInv, pc \in {"loop", "tail"}
  PROVE  /\ Size \div Highs \in Nat /\ Size \in Nat /\ room \in Nat
         /\ Len(out) \in Nat /\ ip \in Nat /\ ip <= Size /\ lit \in Nat /\ lit <= ip
         /\ lit < Len(out) /\ lit < Highs /\ Highs \in Nat /\ Highs >= 3
         /\ Len(out) <= ip + (Size \div Highs) + 1
         /\ Enough(Size) = Size + (Size \div Highs) + 4
<1>1. Size \in Nat /\ Highs \in Nat /\ Highs >= 3 /\ room \in Nat
  BY InputType, Sizes DEF IInv, SourceInv
<1>2. /\ ip \in 0 .. Size /\ lit \in 0 .. Highs - 1 /\ out \in Seq(Byte)
      /\ OpenRun(level, input, out, ip, lit) /\ Thrifty(Len(out) - lit - 1, ip - lit)
  BY DEF IInv, CoderInv
<1>3. lit <= ip /\ lit < Len(out) /\ Len(out) \in Nat
  BY <1>2 DEF OpenRun
<1> DEFINE n == Len(out) - lit - 1
           k == ip - lit
<1>4. n \in Nat /\ k \in Nat /\ k <= Size /\ Thrifty(n, k)
  BY <1>1, <1>2, <1>3
<1>5. Len(out) = n + lit + 1 /\ ip = k + lit
  BY <1>1, <1>2, <1>3
<1> HIDE DEF n, k
<1>6. Size \div Highs \in Nat /\ n <= k + (Size \div Highs)
  BY <1>1, <1>4, ThriftyBound
<1> DEFINE q == Size \div Highs
<1> HIDE DEF q
<1>7. q \in Nat /\ n <= k + q
  BY <1>6 DEF q
<1>8. Len(out) <= ip + q + 1
  BY <1>1, <1>2, <1>4, <1>5, <1>7
<1> QED
  BY <1>1, <1>2, <1>3, <1>7, <1>8 DEF q, Enough

\* After a match there is still room.
LEMMA LzfMatchStep ==
  ASSUME IInv, engine["sender"] = "LZF", pc = "loop", ip < Size - 2, UNCHANGED <<level, engine>>,
         NEW ref \in Int, Lzf!Matches(ref), ~Lzf!NoRoom, Lzf!Match(ref)
  PROVE  CoderInv' /\ RoomInv' /\ WrittenInv'
<1> DEFINE n == Lzf!MatchLength(ref)
           off == ip - ref - 1
           len == n - 2
           code == Lzf!Reference(off, len)
           u == Append(EndRun(out, lit) \o code, 0)
<1>1. /\ Size \in Nat /\ room \in Nat /\ Len(out) \in Nat /\ ip \in Nat /\ lit \in Nat
      /\ Highs \in Nat /\ Highs >= 3
  BY CoderBound
<1>2. /\ n \in 3 .. Bytes + Lengths /\ ip + n <= Size /\ off \in Offsets(1)
      /\ Copies(input, ip, ip + n, ip - ref)
  BY <1>1, LzfMatchLength
<1> HIDE DEF n
<1>3. Bytes + Lengths \in Nat
  BY Sizes
<1>4. len \in Matched(1) /\ len \in Nat \ {0} /\ ip + len + 2 = ip + n /\ off + 1 = ip - ref
  <2>1. Matched(1) = 1 .. Bytes + Lengths - 2
    BY DEF Matched
  <2>2. len \in Nat \ {0} /\ ip + len + 2 = ip + n /\ off + 1 = ip - ref
    BY <1>1, <1>2, <1>3
  <2>3. Bytes \in Nat /\ Lengths \in Nat
    BY Sizes
  <2>4. len \in 1 .. Bytes + Lengths - 2
    BY <1>2, <2>3
  <2> QED
    BY <2>1, <2>2, <2>4
<1>5. level = 1 /\ OpenRun(1, input, out, ip, lit) /\ Thrifty(Len(out) - lit - 1, ip - lit)
  BY DEF IInv, EngineInv, CoderInv
<1>6. /\ pc' = "loop" /\ input' = input /\ room' = room /\ engine' = engine /\ level' = 1
      /\ lit' = 0 /\ ip' = ip + n /\ out' = u
  BY <1>5, SameCoders DEF Lzf!Match, Lzf!source, n
<1>7. MatchBytes(1, off, len, code)
  BY <1>4 DEF MatchBytes
<1>8. Copies(input, ip, ip + len + 2, off + 1)
  BY <1>2, <1>4
<1> HIDE DEF off, len, code
<1>9. /\ OpenRun(1, input, u, ip + len + 2, 0)
      /\ Thrifty(Len(u) - 0 - 1, ip + len + 2 - 0)
      /\ Len(u) = Len(out) - (IF lit = 0 THEN 1 ELSE 0) + Len(code) + 1
  <2>1. 0 \in 0 .. Highs - 1
    BY <1>1
  <2> QED
    BY <1>2, <1>4, <1>5, <1>7, <1>8, <2>1, MatchPut
<1>10. Len(code) \in Nat /\ Len(code) <= 3
  BY <1>2, <1>4, ReferenceCost DEF code
<1>11. ip + len + 2 = ip'
  BY <1>4, <1>6
<1> HIDE DEF u
<1>12. Size' = Size
  BY <1>6 DEF Size
<1>13. table' \in [Slots -> -1 .. Size]
  <2>1. table \in [Slots -> -1 .. Size]
    BY DEF IInv, CoderInv
  <2> DEFINE found == [table EXCEPT ![SlotAt(ip)] = ip]
             one == [found EXCEPT ![SlotAt((ip + n) - 2)] = (ip + n) - 2]
             two == [one EXCEPT ![SlotAt((ip + n) - 1)] = (ip + n) - 1]
  <2>2. table' = IF ip + n >= Size - 2 THEN found ELSE two
    BY SameCoders DEF Lzf!Match, n
  <2>3. ip \in -1 .. Size /\ (ip + n) - 2 \in -1 .. Size /\ (ip + n) - 1 \in -1 .. Size
    BY <1>1, <1>2, <1>3
  <2>4. found \in [Slots -> -1 .. Size]
    BY <2>1, <2>3, Entered
  <2> HIDE DEF found
  <2>5. one \in [Slots -> -1 .. Size]
    BY <2>3, <2>4, Entered
  <2> HIDE DEF one
  <2>6. two \in [Slots -> -1 .. Size]
    BY <2>3, <2>5, Entered
  <2> QED
    BY <2>2, <2>4, <2>6
<1>14. CoderInv'
  <2>1. ip' \in 0 .. Size' /\ lit' \in 0 .. Highs - 1
    BY <1>1, <1>2, <1>3, <1>6, <1>12
  <2>2. OpenRun(level', input', out', ip', lit') /\ Thrifty(Len(out') - lit' - 1, ip' - lit')
    BY <1>6, <1>9, <1>11
  <2>3. out' \in Seq(Byte)
    BY <2>2 DEF OpenRun
  <2> QED
    BY <1>6, <1>12, <1>13, <2>1, <2>2, <2>3 DEF CoderInv
<1>15. RoomInv'
  <2>1. ~(Len(out) - (IF lit = 0 THEN 1 ELSE 0) + 4 >= room)
    BY DEF Lzf!NoRoom
  <2>2. Used' = Len(u) - 1
    BY <1>6 DEF Used
  <2>3. Len(u) - 1 <= room
    <3> DEFINE c == Len(code)
               v == Len(u)
               o == Len(out)
    <3>1. v = o - (IF lit = 0 THEN 1 ELSE 0) + c + 1 /\ c \in Nat /\ c <= 3 /\ o \in Nat
          /\ ~(o - (IF lit = 0 THEN 1 ELSE 0) + 4 >= room)
      BY <1>1, <1>9, <1>10, <2>1
    <3> HIDE DEF c, v, o
    <3>2. v - 1 <= room
      BY <1>1, <3>1
    <3> QED
      BY <3>2 DEF v
  <2> QED
    BY <1>6, <2>2, <2>3 DEF RoomInv
<1>16. WrittenInv'
  BY <1>6 DEF WrittenInv
<1> QED
  BY <1>14, <1>15, <1>16

\* The next byte is put into the open run.
LEMMA LzfPut ==
  ASSUME IInv, engine["sender"] = "LZF", pc \in {"loop", "tail"}, ip < Size,
         UNCHANGED <<level, engine, pc, input, room>>,
         table' \in [Slots -> -1 .. Size], Lzf!PutLiteral
  PROVE  /\ CoderInv' /\ WrittenInv'
         /\ lit + 1 = Highs => Len(out') = Len(out) + 2 /\ lit' = 0
         /\ lit + 1 # Highs => Len(out') = Len(out) + 1 /\ lit' = lit + 1
         /\ ip' = ip + 1
<1>1. /\ Size \in Nat /\ room \in Nat /\ Len(out) \in Nat /\ ip \in Nat /\ lit \in Nat
      /\ lit < Highs /\ Highs \in Nat /\ Highs >= 3 /\ lit <= ip
  BY CoderBound
<1>2. level = 1 /\ OpenRun(1, input, out, ip, lit) /\ Thrifty(Len(out) - lit - 1, ip - lit)
  BY DEF IInv, EngineInv, CoderInv
<1>3. At(ip) = input[ip + 1] /\ input[ip + 1] \in Byte
  BY <1>1, ByteAt DEF IInv
<1> DEFINE t == Append(out, input[ip + 1])
           u == Append(EndRun(t, Highs), 0)
<1>4. /\ ip' = ip + 1
      /\ lit + 1 = Highs => out' = u /\ lit' = 0
      /\ lit + 1 # Highs => out' = t /\ lit' = lit + 1
  BY <1>3, SameCoders DEF Lzf!PutLiteral
<1>5. /\ OpenRun(1, input, t, ip + 1, lit + 1)
      /\ Thrifty(Len(t) - (lit + 1) - 1, (ip + 1) - (lit + 1))
      /\ Len(t) = Len(out) + 1
      /\ lit + 1 = Highs => /\ OpenRun(1, input, u, ip + 1, 0)
                            /\ Thrifty(Len(u) - 0 - 1, (ip + 1) - 0)
                            /\ Len(u) = Len(out) + 2
  <2>1. /\ OpenRun(1, input, t, ip + 1, lit + 1)
        /\ Thrifty(Len(t) - (lit + 1) - 1, (ip + 1) - (lit + 1))
        /\ Len(t) = Len(out) + 1
        /\ lit + 1 = Highs =>
             \A b \in 0 .. Highs - 1 :
               LET v == Append(EndRun(t, Highs), b)
               IN /\ OpenRun(1, input, v, ip + 1, 0)
                  /\ Thrifty(Len(v) - 0 - 1, (ip + 1) - 0)
                  /\ Len(v) = Len(out) + 2
                  /\ v[Len(v)] = b
    <3>1. lit < Highs /\ input[ip + 1] \in Byte
      BY <1>1, <1>3
    <3> QED
      BY <1>2, <3>1, LiteralPut
  <2>2. 0 \in 0 .. Highs - 1
    BY <1>1
  <2> HIDE DEF t
  <2> QED
    BY <2>1, <2>2
<1> HIDE DEF t, u
<1>6. /\ OpenRun(level', input', out', ip', lit') /\ Thrifty(Len(out') - lit' - 1, ip' - lit')
      /\ lit' \in 0 .. Highs - 1
  <2>1. CASE lit + 1 = Highs
    <3>1. lit' = 0 /\ lit' \in 0 .. Highs - 1
      BY <1>1, <1>4, <2>1
    <3> QED
      BY <1>2, <1>4, <1>5, <2>1, <3>1
  <2>2. CASE lit + 1 # Highs
    <3>1. lit' \in 0 .. Highs - 1
      BY <1>1, <1>4, <2>2
    <3> QED
      BY <1>2, <1>4, <1>5, <2>2, <3>1
  <2> QED
    BY <2>1, <2>2
<1>7. ip' \in 0 .. Size' /\ Size' = Size
  BY <1>1, <1>4 DEF Size
<1>8. out' \in Seq(Byte)
  BY <1>6 DEF OpenRun
<1>9. CoderInv'
  BY <1>6, <1>7, <1>8 DEF CoderInv
<1>10. WrittenInv'
  BY DEF WrittenInv
<1> QED
  BY <1>4, <1>5, <1>9, <1>10

\* One iteration of the main loop of LZF.
LEMMA LzfLoopStep ==
  ASSUME IInv, engine["sender"] = "LZF", UNCHANGED <<level, engine>>, Lzf!Loop
  PROVE  CoderInv' /\ RoomInv' /\ WrittenInv'
<1> DEFINE slot == SlotAt(ip)
           looked == Lzf!Looked(slot)
           hits == {ref \in looked : Lzf!Matches(ref)}
<1>1. pc = "loop" /\ ip < Size - 2
  BY SameCoders DEF Lzf!Loop
<1>2. /\ Size \div Highs \in Nat /\ Size \in Nat /\ room \in Nat /\ Highs \in Nat /\ Highs >= 3
      /\ Len(out) \in Nat /\ ip \in Nat /\ ip <= Size /\ lit \in Nat /\ lit < Highs
      /\ Len(out) <= ip + (Size \div Highs) + 1
      /\ Enough(Size) = Size + (Size \div Highs) + 4
  BY <1>1, CoderBound
<1>3. table \in [Slots -> -1 .. Size] /\ slot \in Slots
  BY <1>1, <1>2, SlotType DEF IInv, CoderInv
<1>4. looked \subseteq Int
  <2>1. table[slot] \in Int
    BY <1>3
  <2> HIDE DEF slot
  <2> QED
    BY <2>1, <1>2, SameCoders DEF Lzf!Looked
<1>5. \/ ~Lzf!NoRoom /\ \E ref \in hits : Lzf!Match(ref)
      \/ Len(out) < room /\ Lzf!Literal
      \/ /\ Lzf!NoRoom \/ Len(out) >= room
         /\ table' = [table EXCEPT ![slot] = ip]
         /\ Lzf!Overflow
  BY SameCoders DEF Lzf!Loop
<1>6. [table EXCEPT ![slot] = ip] \in [Slots -> -1 .. Size]
  <2>1. ip \in -1 .. Size
    BY <1>2
  <2> QED
    BY <1>3, <2>1, Entered
<1>7. CASE ~Lzf!NoRoom /\ \E ref \in hits : Lzf!Match(ref)
  <2>1. PICK ref \in hits : Lzf!Match(ref)
    BY <1>7
  <2>2. ref \in Int /\ Lzf!Matches(ref)
    BY <1>4
  <2> QED
    BY <1>1, <1>7, <2>1, <2>2, LzfMatchStep
<1>8. CASE Len(out) < room /\ Lzf!Literal
  <2>1. /\ Lzf!PutLiteral /\ table' = [table EXCEPT ![slot] = ip]
        /\ pc' = pc /\ input' = input /\ room' = room
    BY <1>8, SameCoders DEF Lzf!Literal, Lzf!source
  <2>2. pc \in {"loop", "tail"} /\ ip < Size
    BY <1>1, <1>2
  <2>3. /\ CoderInv' /\ WrittenInv'
        /\ lit + 1 = Highs => Len(out') = Len(out) + 2 /\ lit' = 0
        /\ lit + 1 # Highs => Len(out') = Len(out) + 1 /\ lit' = lit + 1
    BY <1>6, <2>1, <2>2, LzfPut
  <2>4. Used' <= room /\ pc' = "loop"
    <3>1. CASE lit + 1 = Highs
      <4>1. Used' = (Len(out) + 2) - 1
        BY <1>1, <2>1, <2>3, <3>1 DEF Used
      <4> QED
        BY <1>1, <1>2, <1>8, <2>1, <4>1
    <3>2. CASE lit + 1 # Highs
      <4>1. Used' = Len(out) + 1
        <5>1. lit' # 0
          BY <1>2, <2>3, <3>2
        <5> QED
          BY <2>3, <3>2, <5>1 DEF Used
      <4> QED
        BY <1>1, <1>2, <1>8, <2>1, <4>1
    <3> QED
      BY <3>1, <3>2
  <2>5. RoomInv'
    BY <2>1, <2>4 DEF RoomInv
  <2> QED
    BY <2>3, <2>5
<1>9. CASE /\ Lzf!NoRoom \/ Len(out) >= room
           /\ table' = [table EXCEPT ![slot] = ip]
           /\ Lzf!Overflow
  <2>1. ~(Size > 0 /\ room >= Enough(Size))
    <3>1. CASE Lzf!NoRoom
      <4>1. Len(out) - (IF lit = 0 THEN 1 ELSE 0) + 4 >= room
        BY <3>1 DEF Lzf!NoRoom
      <4>2. Len(out) + 4 >= room
        BY <1>2, <4>1
      <4> QED
        BY <1>1, <1>2, <4>2
    <3>2. CASE Len(out) >= room
      BY <1>1, <1>2, <3>2
    <3> QED
      BY <1>9, <3>1, <3>2
  <2>2. table' \in [Slots -> -1 .. Size]
    BY <1>6, <1>9
  <2> QED
    BY <1>1, <1>9, <2>1, <2>2, LzfOverflow
<1> QED
  BY <1>5, <1>7, <1>8, <1>9

\* The loop is left, if there is room for the rest.
LEMMA LzfEndLoopStep ==
  ASSUME IInv, engine["sender"] = "LZF", UNCHANGED <<level, engine>>, Lzf!EndLoop
  PROVE  CoderInv' /\ RoomInv' /\ WrittenInv'
<1>1. pc = "loop" /\ ip >= Size - 2
  BY SameCoders DEF Lzf!EndLoop
<1>2. /\ Size \div Highs \in Nat /\ Size \in Nat /\ room \in Nat /\ Highs \in Nat /\ Highs >= 3
      /\ Len(out) \in Nat /\ ip \in Nat /\ ip <= Size /\ lit \in Nat /\ lit < Highs
      /\ Len(out) <= ip + (Size \div Highs) + 1
      /\ Enough(Size) = Size + (Size \div Highs) + 4
  BY <1>1, CoderBound
<1>3. table \in [Slots -> -1 .. Size]
  BY <1>1 DEF IInv, CoderInv
<1>4. CASE Len(out) + 3 > room /\ Lzf!Overflow /\ table' = table
  <2>1. ~(Size > 0 /\ room >= Enough(Size))
    BY <1>2, <1>4
  <2>2. table' \in [Slots -> -1 .. Size]
    BY <1>3, <1>4
  <2> QED
    BY <1>1, <1>4, <2>1, <2>2, LzfOverflow
<1>5. CASE Len(out) + 3 <= room /\ pc' = "tail" /\ UNCHANGED <<input, room, table, ip, lit, out>>
  <2>1. Size' = Size
    BY <1>5 DEF Size
  <2>2. CoderInv'
    BY <1>1, <1>5, <2>1 DEF CoderInv, IInv
  <2>3. RoomInv'
    <3>1. Used' = Len(out)
      BY <1>5 DEF Used
    <3>2. RestFits
      BY <1>1, <1>2, <1>5 DEF RestFits
    <3>3. RestFits'
      BY <1>5, <2>1, <3>2 DEF RestFits
    <3>4. Used' <= room'
      BY <1>2, <1>5, <3>1
    <3> QED
      BY <3>3, <3>4 DEF RoomInv
  <2>4. WrittenInv'
    BY <1>5 DEF WrittenInv
  <2> QED
    BY <2>2, <2>3, <2>4
<1> QED
  BY <1>4, <1>5 DEF Lzf!EndLoop, Lzf!source, Lzf!coder

\* The rest is literal.
LEMMA LzfRestStep ==
  ASSUME IInv, engine["sender"] = "LZF", UNCHANGED <<level, engine>>, Lzf!Rest
  PROVE  CoderInv' /\ RoomInv' /\ WrittenInv'
<1>1. /\ pc = "tail" /\ ip < Size /\ Lzf!PutLiteral
      /\ UNCHANGED <<pc, input, room, table>>
  BY SameCoders DEF Lzf!Rest, Lzf!source
<1>2. /\ Size \in Nat /\ room \in Nat /\ Highs \in Nat /\ Highs >= 3
      /\ Len(out) \in Nat /\ ip \in Nat /\ ip <= Size /\ lit \in Nat /\ lit < Highs
  BY <1>1, CoderBound
<1>3. table' \in [Slots -> -1 .. Size]
  BY <1>1 DEF IInv, CoderInv
<1>4. /\ CoderInv' /\ WrittenInv' /\ ip' = ip + 1
      /\ lit + 1 = Highs => Len(out') = Len(out) + 2 /\ lit' = 0
      /\ lit + 1 # Highs => Len(out') = Len(out) + 1 /\ lit' = lit + 1
  BY <1>1, <1>3, LzfPut
<1>5. /\ ip >= Size - 2
      /\ Len(out) + (Size - ip) + (IF lit + (Size - ip) >= Highs THEN 1 ELSE 0) <= room
  BY <1>1 DEF IInv, RoomInv, RestFits
<1> DEFINE o == Len(out)
           v == Len(out')
<1>6. v + (Size - (ip + 1)) + (IF lit' + (Size - (ip + 1)) >= Highs THEN 1 ELSE 0) <= room
  <2>1. o \in Nat /\ o + (Size - ip) + (IF lit + (Size - ip) >= Highs THEN 1 ELSE 0) <= room
    BY <1>2, <1>5
  <2>2. CASE lit + 1 = Highs
    <3>1. v = o + 2 /\ lit' = 0
      BY <1>4, <2>2
    <3> HIDE DEF o, v
    <3>2. ~(lit' + (Size - (ip + 1)) >= Highs) /\ lit + (Size - ip) >= Highs
      BY <1>1, <1>2, <1>5, <2>2, <3>1
    <3> QED
      BY <1>2, <2>1, <3>1, <3>2
  <2>3. CASE lit + 1 # Highs
    <3>1. v = o + 1 /\ lit' = lit + 1
      BY <1>4, <2>3
    <3> HIDE DEF o, v
    <3>2. lit' + (Size - (ip + 1)) = lit + (Size - ip)
      BY <1>2, <3>1
    <3> QED
      BY <1>2, <2>1, <3>1, <3>2
  <2> QED
    BY <2>2, <2>3
<1>7. RestFits'
  <2>1. Size' = Size /\ room' = room /\ ip + 1 >= Size - 2
    BY <1>1, <1>2, <1>5 DEF Size
  <2> QED
    BY <1>4, <1>6, <2>1 DEF RestFits
<1>8. Used' <= room'
  <2>1. Used' = v /\ room' = room
    BY <1>1 DEF Used
  <2>2. v \in Nat /\ Size - (ip + 1) \in Nat
    BY <1>1, <1>2, <1>4
  <2> HIDE DEF v
  <2>3. v <= room
    BY <1>2, <1>6, <2>2
  <2> QED
    BY <2>1, <2>3
<1>9. RoomInv'
  BY <1>7, <1>8 DEF RoomInv
<1> QED
  BY <1>4, <1>9

\* Codes for the whole chunk are a stream of level 1.
LEMMA ClosedStream ==
  ASSUME NEW chunk, NEW s, Closed(1, chunk, s, Len(chunk)), s # <<>>
  PROVE  Stream(1, chunk, s)
<1>1. s \in Seq(Byte) /\ s[1] < Highs /\ Coded(1, chunk, s, Len(s), Len(chunk))
  BY DEF Closed
<1>2. 1 \in 1 .. Len(s)
  BY <1>1
<1>3. s[1] \in Byte
  BY <1>1, <1>2, ElementOfSeq
<1>4. s[1] \div Highs = 0
  BY <1>1, <1>3, FieldsOf
<1> QED
  BY <1>1, <1>4 DEF Stream

\* With the mark in the first byte, they are one of level 2.
LEMMA MarkedStream ==
  ASSUME NEW chunk, NEW s, Closed(2, chunk, s, Len(chunk)), s # <<>>
  PROVE  LET t == [s EXCEPT ![1] = @ + Highs]
         IN Stream(2, chunk, t) /\ Len(t) = Len(s)
<1> DEFINE t == [s EXCEPT ![1] = s[1] + Highs]
<1>1. s \in Seq(Byte) /\ s[1] < Highs /\ Coded(2, chunk, s, Len(s), Len(chunk))
  BY DEF Closed
<1>2. 1 \in 1 .. Len(s) /\ Len(s) \in Nat
  BY <1>1
<1>3. s[1] \in Byte
  BY <1>1, <1>2, ElementOfSeq
<1>4. /\ Highs \in Nat \ {0} /\ Lengths \in Nat /\ Lengths >= 3 /\ s[1] \in 0 .. Highs - 1
      /\ 1 \in 0 .. Lengths - 1
  BY <1>1, <1>3, Sizes
<1>5. /\ s[1] + 1 * Highs \in Byte
      /\ (s[1] + 1 * Highs) \div Highs = 1 /\ (s[1] + 1 * Highs) % Highs = s[1]
  BY <1>4, Fields
<1>6. s[1] + 1 * Highs = s[1] + Highs
  BY <1>4
<1> DEFINE b == s[1] + Highs
<1>7. b \in Byte /\ b \div Highs = 1 /\ b % Highs = s[1]
  BY <1>5, <1>6
<1> HIDE DEF b
<1>8. /\ [s EXCEPT ![1] = b] \in Seq(Byte) /\ Len([s EXCEPT ![1] = b]) = Len(s)
      /\ \A i \in 1 .. Len(s) : [s EXCEPT ![1] = b][i] = IF i = 1 THEN b ELSE s[i]
  BY <1>1, <1>2, <1>7, ExceptSeq
<1>9. t = [s EXCEPT ![1] = b]
  BY DEF b
<1> HIDE DEF t
<1>10. t \in Seq(Byte) /\ Len(t) = Len(s) /\ t[1] = b /\ \A i \in 2 .. Len(s) : t[i] = s[i]
  <2>1. \A i \in 1 .. Len(s) : t[i] = IF i = 1 THEN b ELSE s[i]
    BY <1>8, <1>9
  <2>2. \A i \in 2 .. Len(s) : i \in 1 .. Len(s) /\ i # 1
    BY <1>2
  <2> QED
    BY <1>2, <1>8, <1>9, <2>1, <2>2
<1>11. Ctrl(t, 0) = Ctrl(s, 0)
  <2>1. Ctrl(s, 0) = s[1]
    BY <1>1, <1>3, Unmarked
  <2> QED
    BY <1>7, <1>10, <2>1 DEF Ctrl
<1>12. Coded(2, chunk, t, Len(t), Len(chunk))
  <2>1. Coded(2, chunk, t, Len(s), Len(chunk))
    BY <1>1, <1>10, <1>11, CodedKept
  <2> QED
    BY <1>10, <2>1
<1>13. t # <<>> /\ t[1] \div Highs = 2 - 1
  BY <1>2, <1>7, <1>10
<1>14. Stream(2, chunk, t)
  BY <1>10, <1>12, <1>13 DEF Stream
<1>15. t = [s EXCEPT ![1] = @ + Highs]
  BY DEF t
<1> QED
  BY <1>10, <1>14, <1>15

\* The last run is ended.
LEMMA LzfEndStreamStep ==
  ASSUME IInv, engine["sender"] = "LZF", UNCHANGED <<level, engine>>, Lzf!EndStream
  PROVE  CoderInv' /\ RoomInv' /\ WrittenInv'
<1>1. /\ pc = "tail" /\ ip = Size /\ pc' = "sent" /\ out' = EndRun(out, lit)
      /\ UNCHANGED <<input, room, table, ip, lit>>
  BY SameCoders DEF Lzf!EndStream, Lzf!source
<1>2. /\ Size \in Nat /\ room \in Nat /\ Len(out) \in Nat /\ lit \in Nat
      /\ Highs \in Nat /\ lit < Highs
  BY <1>1, CoderBound
<1>3. OpenRun(1, input, out, Size, lit)
  BY <1>1 DEF IInv, EngineInv, CoderInv
<1> DEFINE s == EndRun(out, lit)
<1>4. Closed(1, input, s, Size) /\ Len(s) = Len(out) - (IF lit = 0 THEN 1 ELSE 0)
  BY <1>3, RunEnded
<1> HIDE DEF s
<1>5. s \in Seq(Byte) /\ Len(s) \in Nat /\ Len(s) <= Len(out)
  BY <1>2, <1>4 DEF Closed
<1>6. Size' = Size /\ out' = s
  BY <1>1 DEF Size, s
<1>7. CoderInv'
  BY <1>1, <1>5, <1>6 DEF CoderInv, IInv
<1>8. RoomInv'
  <2>1. Len(out) <= room
    BY <1>1 DEF IInv, RoomInv, Used
  <2>2. Used' = Len(s)
    BY <1>1, <1>6 DEF Used
  <2> QED
    BY <1>1, <1>2, <1>5, <2>1, <2>2 DEF RoomInv
<1>9. s # <<>> => Stream(1, input, s)
  BY <1>4, ClosedStream DEF Size
<1>10. Size > 0 => s # <<>>
  <2> SUFFICES ASSUME s = <<>> PROVE Size = 0
    BY <1>2
  <2>1. Coded(1, input, s, 0, Size)
    BY <1>4 DEF Closed
  <2> QED
    BY <2>1, NothingOnly
<1>11. WrittenInv'
  BY <1>1, <1>6, <1>9, <1>10 DEF WrittenInv
<1> QED
  BY <1>7, <1>8, <1>11

------------------------------------------------------------------------------
(* Steps of FastLZ *)

\* The next byte is put into the open run.
LEMMA FastPut ==
  ASSUME IInv, engine["sender"] = "FastLZ", pc = "loop", ip < Size,
         UNCHANGED <<level, engine, pc, input, room>>,
         table' \in [Slots -> 0 .. ip], Fast!PutLiteral
  PROVE  CoderInv' /\ RoomInv' /\ WrittenInv'
<1>1. /\ Size \in Nat /\ Len(out) \in Nat /\ ip \in Nat /\ lit \in Nat /\ lit < Len(out)
      /\ lit < Highs /\ Highs \in Nat /\ Highs >= 3 /\ lit <= ip
  BY CoderBound
<1>2. /\ OpenRun(level, input, out, ip, lit) /\ Thrifty(Len(out) - lit - 1, ip - lit)
      /\ ip >= 2 /\ out[Len(out) - lit] = Highs - 1 /\ out \in Seq(Byte)
  BY DEF IInv, CoderInv
<1>3. At(ip) = input[ip + 1] /\ input[ip + 1] \in Byte
  BY <1>1, ByteAt DEF IInv
<1> DEFINE b == input[ip + 1]
           t == Append(out, b)
           u == Append(EndRun(t, Highs), Highs - 1)
<1>4. /\ ip' = ip + 1
      /\ lit + 1 = Highs => out' = out \o <<b, Highs - 1>> /\ lit' = 0
      /\ lit + 1 # Highs => out' = t /\ lit' = lit + 1
  BY <1>3, SameCoders DEF Fast!PutLiteral
<1>5. lit + 1 = Highs => out \o <<b, Highs - 1>> = u
  <2> SUFFICES ASSUME lit + 1 = Highs PROVE out \o <<b, Highs - 1>> = u
    OBVIOUS
  <2>1. b \in Byte
    BY <1>3
  <2> HIDE DEF b
  <2> QED
    BY <1>1, <1>2, <2>1, FullRun
<1>6. /\ OpenRun(level, input, t, ip + 1, lit + 1)
      /\ Thrifty(Len(t) - (lit + 1) - 1, (ip + 1) - (lit + 1))
      /\ Len(t) = Len(out) + 1
      /\ lit + 1 = Highs => /\ OpenRun(level, input, u, ip + 1, 0)
                            /\ Thrifty(Len(u) - 0 - 1, (ip + 1) - 0)
                            /\ u[Len(u)] = Highs - 1
  <2>1. /\ OpenRun(level, input, t, ip + 1, lit + 1)
        /\ Thrifty(Len(t) - (lit + 1) - 1, (ip + 1) - (lit + 1))
        /\ Len(t) = Len(out) + 1
        /\ lit + 1 = Highs =>
             \A c \in 0 .. Highs - 1 :
               LET v == Append(EndRun(t, Highs), c)
               IN /\ OpenRun(level, input, v, ip + 1, 0)
                  /\ Thrifty(Len(v) - 0 - 1, (ip + 1) - 0)
                  /\ Len(v) = Len(out) + 2
                  /\ v[Len(v)] = c
    <3>1. lit < Highs /\ input[ip + 1] \in Byte
      BY <1>1, <1>3
    <3> QED
      BY <1>2, <3>1, LiteralPut
  <2>2. Highs - 1 \in 0 .. Highs - 1
    BY <1>1
  <2> HIDE DEF t
  <2> QED
    BY <2>1, <2>2
<1>7. \A i \in 1 .. Len(out) : t[i] = out[i]
  BY <1>2, <1>3, Appended
<1> HIDE DEF t, u
<1>8. /\ OpenRun(level, input, out', ip', lit') /\ Thrifty(Len(out') - lit' - 1, ip' - lit')
      /\ lit' \in 0 .. Highs - 1 /\ out'[Len(out') - lit'] = Highs - 1
  <2>1. CASE lit + 1 = Highs
    <3>1. out' = u /\ lit' = 0 /\ lit' \in 0 .. Highs - 1
      BY <1>1, <1>4, <1>5, <2>1
    <3>2. Len(u) \in Nat /\ u[Len(u)] = Highs - 1
      BY <1>6, <2>1 DEF OpenRun
    <3>3. Len(u) - 0 = Len(u)
      BY <3>2
    <3> QED
      BY <1>4, <1>6, <2>1, <3>1, <3>2, <3>3
  <2>2. CASE lit + 1 # Highs
    <3>1. lit' \in 0 .. Highs - 1
      BY <1>1, <1>4, <2>2
    <3>2. Len(t) - (lit + 1) = Len(out) - lit /\ Len(out) - lit \in 1 .. Len(out)
      BY <1>1, <1>6
    <3>3. t[Len(t) - (lit + 1)] = Highs - 1
      BY <1>2, <1>7, <3>2
    <3> QED
      BY <1>4, <1>6, <2>2, <3>1, <3>3
  <2> QED
    BY <2>1, <2>2
<1>9. /\ ip' \in 0 .. Size' /\ Size' = Size /\ ip' >= 2 /\ ip' - 1 = ip
      /\ 0 .. ip \subseteq -1 .. Size
  <2>1. Size' = Size
    BY DEF Size
  <2> QED
    BY <1>1, <1>2, <1>4, <2>1
<1>10. table' \in [Slots -> -1 .. Size'] /\ table' \in [Slots -> 0 .. ip' - 1]
  <2>1. \A s \in Slots : table'[s] \in 0 .. ip
    OBVIOUS
  <2>2. table' = [s \in Slots |-> table'[s]]
    OBVIOUS
  <2> QED
    BY <1>9, <2>1, <2>2
<1>11. out' \in Seq(Byte)
  BY <1>8 DEF OpenRun
<1>12. CoderInv'
  BY <1>8, <1>9, <1>10, <1>11 DEF CoderInv
<1>13. RoomInv' /\ WrittenInv'
  BY DEF RoomInv, WrittenInv
<1> QED
  BY <1>12, <1>13

\* A match is followed and written.
LEMMA FastMatchStep ==
  ASSUME IInv, engine["sender"] = "FastLZ", pc = "loop", ip < Size - (Unroll + 4),
         UNCHANGED <<level, engine>>,
         NEW distance \in 1 .. ip, NEW first \in {3, 5}, NEW entered \in [Slots -> 0 .. ip],
         distance = 1 => first = 3, distance - 1 \in Offsets(level),
         level = 2 /\ distance - 1 >= Fast!MaxDistance(2) => first = 5,
         Equal(ip - distance, ip, first), Fast!Match(distance, first, entered)
  PROVE  CoderInv' /\ RoomInv' /\ WrittenInv'
<1> DEFINE start == ip + first
           bound == IF start + Unroll > Size - 2 THEN start + Unroll ELSE Size - 2
           last  == IF distance = 1 THEN Size - 2 ELSE bound
           most  == last - 1 - start
           c     == Common(start - distance, start, 0, most)
           end   == start + c + 1
           len   == end - 3 - ip
           code  == FastCode(level, distance - 1, len)
           u     == Append(EndRun(out, lit) \o code, Highs - 1)
<1>1. /\ Size \in Nat /\ Len(out) \in Nat /\ ip \in Nat /\ lit \in Nat
      /\ Highs \in Nat /\ Highs >= 3 /\ Unroll \in Nat /\ Unroll >= 1
  BY CoderBound, DataEnginesAssumption
<1>2. /\ OpenRun(level, input, out, ip, lit) /\ Thrifty(Len(out) - lit - 1, ip - lit)
      /\ ip >= 2 /\ level \in {1, 2}
  BY DEF IInv, EngineInv, CoderInv
<1>3. /\ out' = u /\ lit' = 0 /\ ip' = end - 1
      /\ UNCHANGED <<pc, input, room>>
      /\ \E s \in Fast!SlotsAt(end - 3), t \in Fast!SlotsAt(end - 2) :
           table' = [entered EXCEPT ![s] = end - 3, ![t] = end - 2]
  <2>1. Fast!Common(start - distance, start, 0, most) = c
    BY SameSearches
  <2>2. Fast!EndRun(out, lit) = EndRun(out, lit) /\ Fast!Size = Size
    BY SameCoders
  <2>3. /\ lit' = 0 /\ UNCHANGED <<pc, input, room>>
        /\ out' = Append(Fast!EndRun(out, lit) \o
                          (IF level = 1
                           THEN Fast!LevelOne(distance - 1, (start + Fast!Common(start - distance, start, 0, most) + 1) - 3 - ip)
                           ELSE Fast!LevelTwo(distance - 1, (start + Fast!Common(start - distance, start, 0, most) + 1) - 3 - ip)), Highs - 1)
        /\ ip' = (start + Fast!Common(start - distance, start, 0, most) + 1) - 1
        /\ \E s \in Fast!SlotsAt((start + Fast!Common(start - distance, start, 0, most) + 1) - 3),
              t \in Fast!SlotsAt((start + Fast!Common(start - distance, start, 0, most) + 1) - 2) :
             table' = [entered EXCEPT ![s] = (start + Fast!Common(start - distance, start, 0, most) + 1) - 3,
                                      ![t] = (start + Fast!Common(start - distance, start, 0, most) + 1) - 2]
    BY <2>2 DEF Fast!Match, Fast!source
  <2> HIDE DEF c, most, start
  <2> QED
    BY <2>1, <2>2, <2>3 DEF FastCode
<1>4. start \in Nat /\ most \in Nat /\ start + most + 1 <= Size
  BY <1>1
<1> HIDE DEF most
<1>5. c \in 0 .. most /\ \A k \in 0 .. c - 1 : At((start - distance) + k) = At(start + k)
  BY <1>4, CommonIs
<1> HIDE DEF c
<1>6. /\ end \in Nat /\ end <= Size /\ end - 1 = ip + (first + c) /\ first + c \in Nat
      /\ len \in Nat \ {0} /\ (first = 5 => len >= 3)
      /\ ip + len + 2 = end - 1 /\ end - 1 > ip + 2
  BY <1>1, <1>4, <1>5
<1>7. ASSUME NEW k \in 0 .. (first + c) - 1
      PROVE  At((ip - distance) + k) = At(ip + k)
  <2>1. CASE k \in 0 .. first - 1
    BY <2>1 DEF Equal
  <2>2. CASE k \notin 0 .. first - 1
    <3> DEFINE i == k - first
    <3>1. i \in 0 .. c - 1 /\ (ip - distance) + k = (start - distance) + i /\ ip + k = start + i
      BY <1>1, <1>5, <2>2
    <3> HIDE DEF i
    <3> QED
      BY <1>5, <3>1
  <2> QED
    BY <2>1, <2>2
<1>8. Copies(input, ip, ip + (first + c), distance)
  <2>1. ip - distance \in Nat /\ ip - distance < ip /\ ip - (ip - distance) = distance
    BY <1>1
  <2> QED
    BY <1>1, <1>6, <1>7, <2>1, EqualCopies
<1>9. Copies(input, ip, ip + len + 2, (distance - 1) + 1)
  <2>1. (distance - 1) + 1 = distance
    OBVIOUS
  <2> QED
    BY <1>6, <1>8, <2>1
<1> HIDE DEF end, len
<1>10. MatchBytes(level, distance - 1, len, code)
  BY DEF MatchBytes
<1> HIDE DEF code
<1>11. /\ OpenRun(level, input, u, ip + len + 2, 0)
       /\ Thrifty(Len(u) - 0 - 1, ip + len + 2 - 0)
       /\ u[Len(u)] = Highs - 1
  <2>1. Highs - 1 \in 0 .. Highs - 1
    BY <1>1
  <2>2. level = 2 /\ distance - 1 >= Fast!MaxDistance(2) => len >= 3
    <3>1. first = 5 => len >= 3
      BY <1>6
    <3> QED
      BY <3>1
  <2> DEFINE off == distance - 1
             b == Highs - 1
  <2>3. off \in Offsets(level) /\ Copies(input, ip, ip + len + 2, off + 1)
    BY <1>9
  <2>4. MatchBytes(level, off, len, code) /\ b \in 0 .. Highs - 1
        /\ (level = 2 /\ off >= Fast!MaxDistance(2) => len >= 3)
    BY <1>10, <2>1, <2>2
  <2> HIDE DEF off, b
  <2>5. LET v == Append(EndRun(out, lit) \o code, b)
        IN /\ OpenRun(level, input, v, ip + len + 2, 0)
           /\ Thrifty(Len(v) - 0 - 1, ip + len + 2 - 0)
           /\ v[Len(v)] = b
    <3>1. len \in Nat \ {0} /\ level \in {1, 2}
      BY <1>2, <1>6
    <3>2. OpenRun(level, input, out, ip, lit) /\ Thrifty(Len(out) - lit - 1, ip - lit)
      BY <1>2
    <3> QED
      BY <2>3, <2>4, <3>1, <3>2, MatchPut
  <2> QED
    BY <2>5 DEF b
<1>12. ip + len + 2 = ip'
  BY <1>3, <1>6
<1> HIDE DEF u
<1>13. Size' = Size /\ ip' \in 0 .. Size' /\ ip' >= 2 /\ lit' \in 0 .. Highs - 1
  <2>1. Size' = Size
    BY <1>3 DEF Size
  <2> QED
    BY <1>1, <1>3, <1>6, <2>1
<1>14. /\ OpenRun(level', input', out', ip', lit') /\ Thrifty(Len(out') - lit' - 1, ip' - lit')
       /\ out'[Len(out') - lit'] = Highs - 1
  <2>1. Len(u) \in Nat
    BY <1>11 DEF OpenRun
  <2>2. Len(u) - 0 = Len(u)
    BY <2>1
  <2> QED
    BY <1>3, <1>11, <1>12, <2>2
<1>15. table' \in [Slots -> 0 .. ip' - 1]
  <2>1. PICK s, t : table' = [entered EXCEPT ![s] = end - 3, ![t] = end - 2]
    BY <1>3
  <2>2. /\ 0 .. ip \subseteq 0 .. ip' - 1 /\ end - 3 \in 0 .. ip' - 1
        /\ end - 2 \in 0 .. ip' - 1
    BY <1>1, <1>3, <1>6
  <2> DEFINE one == [entered EXCEPT ![s] = end - 3]
             two == [one EXCEPT ![t] = end - 2]
  <2>3. one \in [Slots -> 0 .. ip' - 1]
    BY <2>2, Entered
  <2>4. table' = two
    BY <2>1
  <2> HIDE DEF one
  <2>5. two \in [Slots -> 0 .. ip' - 1]
    BY <2>2, <2>3, Entered
  <2> QED
    BY <2>4, <2>5
<1>16. table' \in [Slots -> -1 .. Size']
  <2>1. 0 .. ip' - 1 \subseteq -1 .. Size'
    <3> DEFINE p == ip'
               n == Size'
    <3>1. n \in Nat /\ p \in 0 .. n
      BY <1>1, <1>13
    <3> HIDE DEF p, n
    <3>2. 0 .. p - 1 \subseteq -1 .. n
      BY <3>1
    <3> QED
      BY <3>2 DEF p, n
  <2>2. table' = [s \in Slots |-> table'[s]] /\ \A s \in Slots : table'[s] \in 0 .. ip' - 1
    BY <1>15
  <2> QED
    BY <2>1, <2>2
<1>17. CoderInv'
  <2>1. out' \in Seq(Byte)
    BY <1>14 DEF OpenRun
  <2> QED
    BY <1>3, <1>13, <1>14, <1>15, <1>16, <2>1 DEF CoderInv
<1>18. RoomInv' /\ WrittenInv'
  BY <1>3 DEF RoomInv, WrittenInv
<1> QED
  BY <1>17, <1>18

\* One iteration of the main loop of FastLZ.
LEMMA FastLoopStep ==
  ASSUME IInv, engine["sender"] = "FastLZ", UNCHANGED <<level, engine>>, Fast!Loop
  PROVE  CoderInv' /\ RoomInv' /\ WrittenInv'
<1> DEFINE slot     == SlotAt(ip)
           distance == ip - table[slot]
           entered  == [table EXCEPT ![slot] = ip]
           first    == Fast!Least(distance)
<1>1. pc = "loop" /\ ip < Size - (Unroll + 4)
  BY SameCoders DEF Fast!Loop
<1>2. Size \in Nat /\ ip \in Nat /\ ip >= 2 /\ Unroll \in Nat /\ level \in {1, 2}
      /\ table \in [Slots -> 0 .. ip - 1]
  BY <1>1, CoderBound, DataEnginesAssumption DEF IInv, CoderInv, EngineInv
<1>3. slot \in Slots
  BY <1>1, <1>2, SlotType DEF IInv
<1>4. table[slot] \in 0 .. ip - 1
  BY <1>2, <1>3
<1> HIDE DEF slot
<1>5. distance \in 1 .. ip /\ ip - distance = table[slot]
  BY <1>2, <1>4
<1>6. entered \in [Slots -> 0 .. ip] /\ table \in [Slots -> 0 .. ip]
  <2>1. ip \in 0 .. ip /\ 0 .. ip - 1 \subseteq 0 .. ip
    BY <1>2
  <2>2. entered \in [Slots -> 0 .. ip]
    BY <1>2, <2>1, Entered
  <2>3. table = [s \in Slots |-> table[s]] /\ \A s \in Slots : table[s] \in 0 .. ip
    BY <1>2, <2>1
  <2> QED
    BY <2>2, <2>3
<1>7. /\ Highs * Bytes \in Nat /\ Highs * Bytes >= 27
      /\ Fast!MaxDistance(1) = Highs * Bytes /\ Fast!MaxDistance(2) = Highs * Bytes - 1
      /\ Fast!MaxFar \in Nat /\ Fast!MaxFar >= 3
      /\ Offsets(1) = 0 .. Highs * Bytes - 1 /\ Offsets(2) = 0 .. Fast!MaxFar - 2
  BY Products, Limits, Sizes DEF Offsets
<1>8. CASE Fast!IsRun /\ Fast!Match(1, 3, table)
  <2>1. level = 2 /\ Equal(ip - 1, ip, 3)
    BY <1>8, SameSearches DEF Fast!IsRun
  <2>2. 1 \in 1 .. ip /\ 3 \in {3, 5} /\ 1 - 1 = 0 /\ 0 \in Offsets(level)
        /\ ~(0 >= Fast!MaxDistance(2))
    BY <1>2, <1>7, <2>1
  <2>3. 1 - 1 \in Offsets(level) /\ ~(1 - 1 >= Fast!MaxDistance(2))
    BY <2>2
  <2> QED
    BY <1>1, <1>6, <1>8, <2>1, <2>2, <2>3, FastMatchStep
<1>9. CASE ~Fast!IsRun /\ distance < Fast!Reach
           /\ Fast!Equal(table[slot], ip, first) /\ Fast!Match(distance, first, entered)
  <2>1. first = IF level = 2 /\ distance >= Fast!MaxDistance(2) THEN 5 ELSE 3
    BY DEF Fast!Least
  <2>2. distance < IF level = 1 THEN Fast!MaxDistance(1) ELSE Fast!MaxFar
    BY <1>9 DEF Fast!Reach
  <2>3. Equal(ip - distance, ip, first)
    BY <1>5, <1>9, SameSearches
  <2> HIDE DEF distance, first
  <2>4. first \in {3, 5} /\ (distance = 1 => first = 3)
        /\ (level = 2 /\ distance - 1 >= Fast!MaxDistance(2) => first = 5)
    BY <1>5, <1>7, <2>1
  <2>5. distance - 1 \in Offsets(level)
    <3>1. CASE level = 1
      BY <1>5, <1>7, <2>2, <3>1
    <3>2. CASE level = 2
      BY <1>5, <1>7, <2>2, <3>2
    <3> QED
      BY <1>2, <3>1, <3>2
  <2> QED
    BY <1>1, <1>5, <1>6, <1>9, <2>3, <2>4, <2>5, FastMatchStep
<1>10. CASE Fast!Literal(entered)
  <2>1. Fast!PutLiteral /\ table' = entered /\ UNCHANGED <<pc, input, room>>
    BY <1>10 DEF Fast!Literal, Fast!source
  <2>2. ip < Size
    BY <1>1, <1>2
  <2>3. table' \in [Slots -> 0 .. ip]
    BY <1>6, <2>1
  <2> QED
    BY <1>1, <2>1, <2>2, <2>3, FastPut
<1> QED
  <2>1. Fast!SlotAt(ip) = slot
    BY SameCoders DEF slot
  <2> QED
    BY <1>8, <1>9, <1>10, <2>1 DEF Fast!Loop

\* The rest is literal.
LEMMA FastRestStep ==
  ASSUME IInv, engine["sender"] = "FastLZ", UNCHANGED <<level, engine>>, Fast!Rest
  PROVE  CoderInv' /\ RoomInv' /\ WrittenInv'
<1>1. /\ pc = "loop" /\ ip < Size /\ Fast!PutLiteral
      /\ UNCHANGED <<pc, input, room, table>>
  BY SameCoders DEF Fast!Rest, Fast!source
<1>2. ip \in Nat /\ table \in [Slots -> 0 .. ip - 1]
  BY <1>1, CoderBound DEF IInv, CoderInv
<1>3. table' \in [Slots -> 0 .. ip]
  <2>1. 0 .. ip - 1 \subseteq 0 .. ip
    BY <1>2
  <2>2. table = [s \in Slots |-> table[s]] /\ \A s \in Slots : table[s] \in 0 .. ip
    BY <1>2, <2>1
  <2> QED
    BY <1>1, <2>2
<1> QED
  BY <1>1, <1>3, FastPut

\* The last run is ended, and a stream of level 2 marked.
LEMMA FastEndStreamStep ==
  ASSUME IInv, engine["sender"] = "FastLZ", UNCHANGED <<level, engine>>, Fast!EndStream
  PROVE  CoderInv' /\ RoomInv' /\ WrittenInv'
<1> DEFINE s == EndRun(out, lit)
           t == IF level = 1 THEN s ELSE [s EXCEPT ![1] = @ + Highs]
<1>1. /\ pc = "loop" /\ ip = Size /\ pc' = "sent" /\ out' = t
      /\ UNCHANGED <<input, room, table, ip, lit>>
  BY SameCoders DEF Fast!EndStream, Fast!source
<1>2. /\ Size \div Highs \in Nat /\ Size \in Nat /\ Len(out) \in Nat
      /\ Len(out) <= ip + (Size \div Highs) + 1
      /\ Enough(Size) = Size + (Size \div Highs) + 4
  BY <1>1, CoderBound
<1>3. OpenRun(level, input, out, Size, lit) /\ level \in {1, 2} /\ Size >= 2
  BY <1>1 DEF IInv, EngineInv, CoderInv
<1>4. Closed(level, input, s, Size) /\ Len(s) = Len(out) - (IF lit = 0 THEN 1 ELSE 0)
  BY <1>3, RunEnded
<1> HIDE DEF s
<1>5. Len(s) \in Nat /\ Len(s) <= Len(out)
  BY <1>2, <1>4 DEF Closed
<1>6. s # <<>>
  <2> SUFFICES ASSUME s = <<>> PROVE Size = 0
    BY <1>2, <1>3
  <2>1. Coded(level, input, s, 0, Size)
    BY <1>4 DEF Closed
  <2> QED
    BY <2>1, NothingOnly
<1>7. Stream(level, input, t) /\ Len(t) = Len(s)
  <2>1. Closed(level, input, s, Len(input))
    BY <1>4 DEF Size
  <2>2. CASE level = 1
    BY <1>6, <2>1, <2>2, ClosedStream
  <2>3. CASE level = 2
    BY <1>6, <2>1, <2>3, MarkedStream
  <2> QED
    BY <1>3, <2>2, <2>3
<1> HIDE DEF t
<1>8. Size' = Size /\ Enough(Size)' = Enough(Size)
  BY <1>1 DEF Size, Enough
<1>9. t \in Seq(Byte) /\ t # <<>>
  BY <1>7 DEF Stream
<1>10. CoderInv'
  BY <1>1, <1>8, <1>9 DEF CoderInv, IInv
<1>11. Len(t) <= Enough(Size)
  BY <1>1, <1>2, <1>5, <1>7
<1>12. WrittenInv'
  BY <1>1, <1>3, <1>7, <1>8, <1>9, <1>11 DEF WrittenInv
<1> QED
  BY <1>10, <1>12 DEF RoomInv

------------------------------------------------------------------------------
(* The beginning of a chunk *)

LEMMA FirstRun ==
  ASSUME NEW l \in {1, 2}, NEW chunk, NEW b \in 0 .. Highs - 1
  PROVE  OpenRun(l, chunk, <<b>>, 0, 0) /\ Thrifty(0, 0)
<1>1. b \in Byte /\ Highs \in Nat
  BY Sizes
<1>2. Coded(l, chunk, <<b>>, 0, 0)
  BY NothingCoded
<1>3. <<b>> \in Seq(Byte) /\ Len(<<b>>) = 1 /\ <<b>>[1] = b
  BY <1>1
<1>4. OpenRun(l, chunk, <<b>>, 0, 0)
  <2> DEFINE s == <<b>>
  <2>1. s \in Seq(Byte) /\ Len(s) = 1 /\ s[1] = b /\ Coded(l, chunk, s, 0, 0)
    BY <1>2, <1>3
  <2> HIDE DEF s
  <2>2. Len(s) - 0 - 1 = 0 /\ 0 - 0 = 0
    BY <2>1
  <2>3. OpenRun(l, chunk, s, 0, 0)
    BY <1>1, <2>1, <2>2 DEF OpenRun
  <2> QED
    BY <2>3 DEF s
<1>5. 0 * Highs <= 0 * Highs + 0
  BY <1>1
<1> QED
  BY <1>4, <1>5 DEF Thrifty

\* FastLZ begins with a run of two literals.
LEMMA FirstLiterals ==
  ASSUME NEW l \in {1, 2}, NEW chunk \in Seq(Byte), Len(chunk) >= 2
  PROVE  LET s == <<Highs - 1, chunk[1], chunk[2]>>
         IN /\ OpenRun(l, chunk, s, 2, 2) /\ Thrifty(Len(s) - 2 - 1, 2 - 2)
            /\ s[Len(s) - 2] = Highs - 1
<1> DEFINE a == Highs - 1
           b == chunk[1]
           c == chunk[2]
           s == <<a, b, c>>
<1>1. Highs \in Nat /\ Highs >= 3 /\ a \in Byte
  BY Sizes
<1>2. b \in Byte /\ c \in Byte
  <2>1. 1 \in 1 .. Len(chunk) /\ 2 \in 1 .. Len(chunk)
    OBVIOUS
  <2> QED
    BY <2>1, ElementOfSeq
<1>3. a < Highs
  BY <1>1
<1> HIDE DEF a, b, c
<1>4. s \in Seq(Byte) /\ Len(s) = 3 /\ s[1] = a /\ s[2] = b /\ s[3] = c
  BY <1>1, <1>2
<1> HIDE DEF s
<1>5. Len(s) - 2 - 1 = 0 /\ 2 - 2 = 0 /\ 3 - 2 = 1
  BY <1>4
<1>6. Coded(l, chunk, s, 0, 0)
  BY NothingCoded
<1>7. \A i \in 1 .. 2 : s[Len(s) - 2 + i] = chunk[2 - 2 + i]
  <2> SUFFICES ASSUME NEW i \in 1 .. 2 PROVE s[Len(s) - 2 + i] = chunk[2 - 2 + i]
    OBVIOUS
  <2>1. Len(s) - 2 + i = i + 1 /\ 2 - 2 + i = i
    BY <1>4
  <2>2. s[i + 1] = chunk[i]
    <3>1. CASE i = 1
      BY <1>4, <3>1 DEF b
    <3>2. CASE i = 2
      BY <1>4, <3>2 DEF c
    <3> QED
      BY <3>1, <3>2
  <2> QED
    BY <2>1, <2>2
<1>8. OpenRun(l, chunk, s, 2, 2)
  <2>1. 2 \in 0 .. Highs /\ 2 < Len(s) /\ s[1] < Highs
    BY <1>1, <1>3, <1>4
  <2>2. Coded(l, chunk, s, Len(s) - 2 - 1, 2 - 2)
    BY <1>5, <1>6
  <2> QED
    BY <1>4, <1>7, <2>1, <2>2 DEF OpenRun
<1>9. Thrifty(Len(s) - 2 - 1, 2 - 2)
  <2>1. 0 * Highs <= 0 * Highs + 0
    BY <1>1
  <2> QED
    BY <1>5, <2>1 DEF Thrifty
<1>10. s[Len(s) - 2] = a
  BY <1>4, <1>5
<1> QED
  BY <1>8, <1>9, <1>10 DEF s, a, b, c

\* A short chunk of FastLZ is one run.
LEMMA ShortStream ==
  ASSUME NEW chunk \in Seq(Byte), chunk # <<>>, Len(chunk) < 4
  PROVE  LET s == <<Len(chunk) - 1>> \o chunk
         IN Stream(1, chunk, s) /\ Len(s) = Len(chunk) + 1
<1> DEFINE n == Len(chunk)
           head == <<n - 1>>
           s == head \o chunk
<1>1. n \in 1 .. 3
  <2>1. n # 0 /\ n \in Nat /\ n < 4
    BY EmptySeq
  <2> HIDE DEF n
  <2> QED
    BY <2>1
<1>2. Highs \in Nat /\ Highs >= 3 /\ n - 1 \in Byte /\ n - 1 < Highs
  BY <1>1, Sizes
<1>3. head \in Seq(Byte) /\ Len(head) = 1 /\ head[1] = n - 1
  BY <1>2
<1> HIDE DEF head
<1>4. /\ s \in Seq(Byte) /\ Len(s) = 1 + n /\ s[1] = n - 1
      /\ \A i \in 1 .. n : s[1 + i] = chunk[i]
  <2>1. /\ s \in Seq(Byte) /\ Len(s) = Len(head) + Len(chunk)
        /\ \A i \in 1 .. Len(head) : s[i] = head[i]
        /\ \A i \in 1 .. Len(chunk) : s[Len(head) + i] = chunk[i]
    BY <1>3, Joined
  <2> QED
    BY <1>3, <2>1
<1> HIDE DEF s, n
<1>5. Ctrl(s, 0) = n - 1
  BY <1>2, <1>4, Unmarked
<1>6. RunCode(chunk, s, 0, 0, 1 + n, n)
  <2>1. n \in 1 .. Highs /\ 1 + n = 0 + 1 + n /\ n = 0 + n
    BY <1>1, <1>2
  <2>2. \A i \in 1 .. n : s[0 + 1 + i] = chunk[0 + i]
    <3> SUFFICES ASSUME NEW i \in 1 .. n PROVE s[0 + 1 + i] = chunk[0 + i]
      OBVIOUS
    <3>1. 0 + 1 + i = 1 + i /\ 0 + i = i
      BY <1>1
    <3> QED
      BY <1>4, <3>1
  <2> QED
    BY <1>5, <2>1, <2>2 DEF RunCode
<1>7. Coded(1, chunk, s, 1 + n, n)
  <2>1. Coded(1, chunk, s, 0, 0)
    BY NothingCoded
  <2>2. Code(1, chunk, s, 0, 0, 1 + n, n)
    BY <1>6 DEF Code
  <2>3. 1 + n \in Nat /\ n \in Nat /\ 0 < 1 + n /\ 0 <= n
    BY <1>1
  <2> QED
    BY <2>1, <2>2, <2>3, OneMore
<1>8. s # <<>> /\ s[1] \div Highs = 1 - 1
  <2>1. s[1] \div Highs = 0
    BY <1>2, <1>4, FieldsOf
  <2>2. Len(s) # 0
    BY <1>1, <1>4
  <2> QED
    BY <2>1, <2>2
<1>9. Stream(1, chunk, s)
  BY <1>4, <1>7, <1>8 DEF Stream, n
<1>10. Len(s) = n + 1
  BY <1>1, <1>4
<1> QED
  BY <1>9, <1>10 DEF s, n, head

\* What the assumptions say of the chunks, rooms, hash functions and levels.
LEMMA Offered ==
  ASSUME NEW chunk \in Inputs
  PROVE  chunk \in Seq(Byte) /\ Rooms[Len(chunk)] \subseteq Nat /\ Levels \subseteq {1, 2}
BY LZ77Assumption, DataEnginesAssumption

LEMMA Quotients ==
  \A n \in Nat : n \div Highs \in Nat
<1>1. Highs \in Nat \ {0}
  BY Sizes
<1> QED
  BY <1>1, Division

\* A chunk is given to LZF.
LEMMA LzfBegin ==
  ASSUME IInv, pc = "idle", engine["sender"] = "LZF", UNCHANGED <<level, engine>>,
         NEW chunk \in Inputs, NEW h \in Hashes, NEW bytes \in Rooms[Len(chunk)],
         Lzf!Begin(chunk, bytes, h)
  PROVE  SourceInv' /\ CoderInv' /\ RoomInv' /\ WrittenInv' /\ pc' \in {"loop", "sent"}
<1>1. chunk \in Seq(Byte) /\ Len(chunk) \in Nat /\ bytes \in Nat /\ level = 1
  BY Offered DEF IInv, EngineInv
<1>2. /\ input' = chunk /\ room' = bytes /\ hash' = h /\ ip' = 0 /\ lit' = 0
      /\ table' = [s \in Slots |-> -1]
      /\ IF Len(chunk) = 0 \/ bytes = 0 THEN pc' = "sent" /\ out' = <<>>
         ELSE pc' = "loop" /\ out' = <<0>>
  BY DEF Lzf!Begin, Lzf!Unset
<1>3. Size' = Len(chunk) /\ Size' \in Nat
  BY <1>1, <1>2 DEF Size
<1>4. Highs \in Nat /\ Highs >= 3 /\ 0 \in 0 .. Highs - 1 /\ 0 \in Byte
  BY Sizes
<1>5. table' \in [Slots -> -1 .. Size']
  <2>1. -1 \in -1 .. Size'
    BY <1>3
  <2> QED
    BY <1>2, <2>1
<1>6. SourceInv' /\ pc' \in {"loop", "sent"}
  <2>1. pc' \in {"loop", "sent"}
    BY <1>2
  <2> QED
    BY <1>1, <1>2, <2>1 DEF SourceInv
<1>7. ip' \in 0 .. Size' /\ lit' \in 0 .. Highs - 1
  BY <1>2, <1>3, <1>4
<1>8. CASE pc' = "sent" /\ out' = <<>> /\ (Len(chunk) = 0 \/ bytes = 0)
  <2>1. CoderInv'
    BY <1>5, <1>7, <1>8 DEF CoderInv
  <2>2. RoomInv'
    <3>1. Used' = 0
      BY <1>8 DEF Used
    <3> QED
      BY <1>1, <1>2, <1>8, <3>1 DEF RoomInv
  <2>3. ~(Size' > 0 /\ room' >= Enough(Size)')
    <3> SUFFICES ASSUME Size' > 0 PROVE ~(room' >= Enough(Size)')
      OBVIOUS
    <3>1. room' = 0
      BY <1>2, <1>3, <1>8
    <3>2. Size' \div Highs \in Nat
      BY <1>3, Quotients
    <3>3. Enough(Size)' = Size' + (Size' \div Highs) + 4
      BY DEF Enough
    <3> QED
      BY <1>3, <3>1, <3>2, <3>3
  <2>4. WrittenInv'
    BY <1>8, <2>3 DEF WrittenInv
  <2> QED
    BY <1>6, <2>1, <2>2, <2>4
<1>9. CASE pc' = "loop" /\ out' = <<0>>
  <2>1. OpenRun(1, chunk, <<0>>, 0, 0) /\ Thrifty(0, 0)
    BY <1>4, FirstRun
  <2>2. Len(<<0>>) = 1 /\ 1 - 0 - 1 = 0 /\ 0 - 0 = 0 /\ <<0>> \in Seq(Byte)
    BY <1>4
  <2>3. OpenRun(level', input', out', ip', lit') /\ Thrifty(Len(out') - lit' - 1, ip' - lit')
        /\ out' \in Seq(Byte)
    BY <1>1, <1>2, <1>9, <2>1, <2>2
  <2>4. CoderInv'
    BY <1>5, <1>7, <2>3 DEF CoderInv
  <2>5. RoomInv'
    <3>1. Used' = 0
      BY <1>2, <1>9, <2>2 DEF Used
    <3> QED
      BY <1>1, <1>2, <1>9, <3>1 DEF RoomInv
  <2>6. WrittenInv'
    BY <1>9 DEF WrittenInv
  <2> QED
    BY <1>6, <2>4, <2>5, <2>6
<1> QED
  BY <1>2, <1>8, <1>9

\* A chunk is given to FastLZ.
LEMMA FastBegin ==
  ASSUME IInv, pc = "idle", engine["sender"] = "FastLZ", UNCHANGED engine,
         NEW chunk \in Inputs, NEW h \in Hashes, NEW l \in {1, 2},
         Fast!Begin(chunk, 0, h, l)
  PROVE  /\ SourceInv' /\ CoderInv' /\ RoomInv' /\ WrittenInv' /\ pc' \in {"loop", "sent"}
         /\ level' = l
<1>1. chunk \in Seq(Byte) /\ Len(chunk) \in Nat
  BY Offered
<1>2. /\ input' = chunk /\ room' = 0 /\ hash' = h /\ level' = l
      /\ table' = [s \in Slots |-> 0]
      /\ IF Len(chunk) < 4
         THEN /\ pc' = "sent" /\ ip' = Len(chunk) /\ lit' = 0
              /\ out' = IF chunk = <<>> THEN <<>> ELSE <<Len(chunk) - 1>> \o chunk
         ELSE /\ pc' = "loop" /\ ip' = 2 /\ lit' = 2
              /\ out' = <<Highs - 1, chunk[1], chunk[2]>>
  BY DEF Fast!Begin
<1>3. Size' = Len(chunk) /\ Size' \in Nat
  BY <1>1, <1>2 DEF Size
<1>4. Highs \in Nat /\ Highs >= 3 /\ 0 \in 0 .. Highs - 1 /\ 2 \in 0 .. Highs - 1
  BY Sizes
<1>5. table' \in [Slots -> -1 .. Size'] /\ table' \in [Slots -> 0 .. 1]
  <2>1. 0 \in -1 .. Size' /\ 0 \in 0 .. 1
    BY <1>3
  <2> QED
    BY <1>2, <2>1
<1>6. SourceInv' /\ pc' \in {"loop", "sent"}
  <2>1. pc' \in {"loop", "sent"}
    BY <1>2
  <2> QED
    BY <1>2, <2>1 DEF SourceInv
<1>7. RoomInv'
  BY DEF RoomInv
<1>8. CASE Len(chunk) < 4
  <2>1. pc' = "sent" /\ ip' \in 0 .. Size' /\ lit' \in 0 .. Highs - 1
    BY <1>2, <1>3, <1>4, <1>8
  <2>2. Size' \div Highs \in Nat /\ Enough(Size)' = Size' + (Size' \div Highs) + 4
    <3>1. Enough(Size)' = Size' + (Size' \div Highs) + 4
      BY DEF Enough
    <3> QED
      BY <1>3, <3>1, Quotients
  <2>3. CASE chunk = <<>>
    <3>1. out' = <<>> /\ <<>> \in Seq(Byte) /\ Len(<<>>) = 0
      BY <1>2, <1>8, <2>3
    <3>2. CoderInv'
      BY <1>5, <2>1, <3>1 DEF CoderInv
    <3>3. Len(out') <= Enough(Size)'
      BY <1>3, <2>2, <3>1
    <3>4. WrittenInv'
      BY <1>2, <2>3, <3>1, <3>3 DEF WrittenInv
    <3> QED
      BY <1>2, <1>6, <1>7, <3>2, <3>4
  <2>4. CASE chunk # <<>>
    <3> DEFINE s == <<Len(chunk) - 1>> \o chunk
    <3>1. Stream(1, chunk, s) /\ Len(s) = Len(chunk) + 1
      BY <1>1, <1>8, <2>4, ShortStream
    <3>2. out' = s
      BY <1>2, <1>8, <2>4
    <3> HIDE DEF s
    <3>3. s \in Seq(Byte) /\ s # <<>>
      BY <3>1 DEF Stream
    <3>4. CoderInv'
      BY <1>5, <2>1, <3>2, <3>3 DEF CoderInv
    <3>5. Len(out') <= Enough(Size)'
      BY <1>3, <2>2, <3>1, <3>2
    <3>6. WrittenInv'
      BY <1>2, <3>1, <3>2, <3>3, <3>5 DEF WrittenInv
    <3> QED
      BY <1>2, <1>6, <1>7, <3>4, <3>6
  <2> QED
    BY <2>3, <2>4
<1>9. CASE ~(Len(chunk) < 4)
  <2> DEFINE s == <<Highs - 1, chunk[1], chunk[2]>>
  <2>1. pc' = "loop" /\ ip' = 2 /\ lit' = 2 /\ out' = s
    BY <1>2, <1>9
  <2>2. Len(chunk) >= 2
    BY <1>1, <1>9
  <2>3. OpenRun(l, chunk, s, 2, 2) /\ Thrifty(Len(s) - 2 - 1, 2 - 2) /\ s[Len(s) - 2] = Highs - 1
    BY <1>1, <2>2, FirstLiterals
  <2> HIDE DEF s
  <2>4. s \in Seq(Byte)
    BY <2>3 DEF OpenRun
  <2>5. ip' \in 0 .. Size' /\ lit' \in 0 .. Highs - 1 /\ ip' >= 2 /\ ip' - 1 = 1
    BY <1>3, <1>4, <2>1, <2>2
  <2>6. CoderInv'
    BY <1>2, <1>5, <2>1, <2>3, <2>4, <2>5 DEF CoderInv
  <2>7. WrittenInv'
    BY <2>1 DEF WrittenInv
  <2> QED
    BY <1>2, <1>6, <1>7, <2>6, <2>7
<1> QED
  BY <1>8, <1>9

\* The beginning keeps the invariant.
LEMMA BeginStep ==
  ASSUME IInv, Begin, UNCHANGED registries
  PROVE  IInv'
<1>1. /\ pc = "idle" /\ engine["receiver"] # NoName
      /\ infos' = infos /\ engine' = engine /\ transport' = transport
  BY DEF Begin, registries
<1>2. PICK chunk \in Inputs, h \in Hashes :
        \/ /\ engine["sender"] = "LZF"
           /\ \E bytes \in Rooms[Len(chunk)] : Lzf!Begin(chunk, bytes, h)
           /\ UNCHANGED level
        \/ /\ engine["sender"] = "FastLZ"
           /\ \E l \in {Fast!Dispatch(Len(chunk))} \cup Levels : Fast!Begin(chunk, 0, h, l)
  BY DEF Begin
<1>3. /\ SourceInv' /\ CoderInv' /\ RoomInv' /\ WrittenInv' /\ pc' \in {"loop", "sent"}
      /\ engine["sender"] \in {"LZF", "FastLZ"} /\ level' \in {1, 2}
      /\ engine["sender"] = "LZF" => level' = 1
      /\ stream' = stream /\ read' = read /\ data' = data
  <2>1. CASE /\ engine["sender"] = "LZF"
             /\ \E bytes \in Rooms[Len(chunk)] : Lzf!Begin(chunk, bytes, h)
             /\ UNCHANGED level
    <3>1. PICK bytes \in Rooms[Len(chunk)] : Lzf!Begin(chunk, bytes, h)
      BY <2>1
    <3>2. SourceInv' /\ CoderInv' /\ RoomInv' /\ WrittenInv' /\ pc' \in {"loop", "sent"}
      BY <1>1, <2>1, <3>1, LzfBegin
    <3>3. stream' = stream /\ read' = read /\ data' = data
      BY <3>1 DEF Lzf!Begin, Lzf!sink
    <3>4. level' = 1
      BY <1>1, <2>1 DEF IInv, EngineInv
    <3> QED
      BY <2>1, <3>2, <3>3, <3>4
  <2>2. CASE /\ engine["sender"] = "FastLZ"
             /\ \E l \in {Fast!Dispatch(Len(chunk))} \cup Levels : Fast!Begin(chunk, 0, h, l)
    <3>1. PICK l \in {Fast!Dispatch(Len(chunk))} \cup Levels : Fast!Begin(chunk, 0, h, l)
      BY <2>2
    <3>2. l \in {1, 2}
      <4>1. Levels \subseteq {1, 2}
        BY Offered
      <4>2. Fast!Dispatch(Len(chunk)) \in {1, 2}
        BY DEF Fast!Dispatch
      <4> QED
        BY <4>1, <4>2
    <3>3. /\ SourceInv' /\ CoderInv' /\ RoomInv' /\ WrittenInv' /\ pc' \in {"loop", "sent"}
          /\ level' = l
      BY <1>1, <2>2, <3>1, <3>2, FastBegin
    <3>4. stream' = stream /\ read' = read /\ data' = data
      BY <3>1 DEF Fast!Begin, Fast!sink
    <3> QED
      BY <2>2, <3>2, <3>3, <3>4
  <2> QED
    BY <1>2, <2>1, <2>2
<1>4. EngineInv'
  BY <1>1, <1>3 DEF IInv, EngineInv
<1>5. SinkInv'
  <2>1. stream = <<>> /\ read = 0 /\ data = <<>>
    BY <1>1 DEF IInv, SinkInv
  <2>2. Size' \in Nat
    <3>1. Inputs \subseteq Seq(Byte) /\ <<>> \in Seq(Byte)
      BY LZ77Assumption
    <3>2. input' \in Seq(Byte)
      BY <1>3, <3>1 DEF SourceInv
    <3> QED
      BY <3>2 DEF Size
  <2>3. <<>> \in Seq(Byte) /\ Len(<<>>) = 0
    OBVIOUS
  <2> QED
    BY <1>3, <2>1, <2>2, <2>3 DEF SinkInv
<1>6. ReliableInv'
  BY <1>3 DEF ReliableInv
<1> QED
  BY <1>3, <1>4, <1>5, <1>6 DEF IInv

------------------------------------------------------------------------------
(* Every step *)

\* While the chunk is compressed, the rest does not change.
LEMMA CompressFrame ==
  ASSUME IInv, Compress
  PROVE  /\ pc \in {"loop", "tail"} /\ pc' \in {"loop", "tail", "sent"}
         /\ UNCHANGED <<input, room, hash, stream, read, data, level>>
<1>1. CASE engine["sender"] = "LZF" /\ Lzf!Compress /\ UNCHANGED level
  <2>1. CASE Lzf!Loop
    BY <1>1, <2>1 DEF Lzf!Loop, Lzf!Match, Lzf!Literal, Lzf!Overflow, Lzf!source, Lzf!sink
  <2>2. CASE Lzf!EndLoop
    BY <1>1, <2>2 DEF Lzf!EndLoop, Lzf!Overflow, Lzf!source, Lzf!coder, Lzf!sink
  <2>3. CASE Lzf!Rest
    BY <1>1, <2>3 DEF Lzf!Rest, Lzf!source, Lzf!sink
  <2>4. CASE Lzf!EndStream
    BY <1>1, <2>4 DEF Lzf!EndStream, Lzf!source, Lzf!sink
  <2> QED
    BY <1>1, <2>1, <2>2, <2>3, <2>4 DEF Lzf!Compress
<1>2. CASE engine["sender"] = "FastLZ" /\ Fast!Compress
  <2>1. CASE Fast!Loop
    BY <2>1 DEF Fast!Loop, Fast!Match, Fast!Literal, Fast!source, Fast!sink
  <2>2. CASE Fast!Rest
    BY <2>2 DEF Fast!Rest, Fast!source, Fast!sink
  <2>3. CASE Fast!EndStream
    BY <2>3 DEF Fast!EndStream, Fast!source, Fast!sink
  <2> QED
    BY <1>2, <2>1, <2>2, <2>3 DEF Fast!Compress
<1> QED
  BY <1>1, <1>2 DEF Compress

LEMMA CompressStep ==
  ASSUME IInv, Compress, UNCHANGED registries
  PROVE  IInv'
<1>1. /\ pc \in {"loop", "tail"} /\ pc' \in {"loop", "tail", "sent"}
      /\ UNCHANGED <<input, room, hash, stream, read, data, level>>
  BY CompressFrame
<1>2. UNCHANGED <<infos, engine, transport>>
  BY DEF registries
<1>3. CoderInv' /\ RoomInv' /\ WrittenInv'
  <2>1. CASE engine["sender"] = "LZF" /\ Lzf!Compress
    BY <1>1, <1>2, <2>1, LzfLoopStep, LzfEndLoopStep, LzfRestStep, LzfEndStreamStep
       DEF Lzf!Compress
  <2>2. CASE engine["sender"] = "FastLZ" /\ Fast!Compress
    BY <1>1, <1>2, <2>2, FastLoopStep, FastRestStep, FastEndStreamStep DEF Fast!Compress
  <2> QED
    BY <2>1, <2>2 DEF Compress
<1>4. EngineInv'
  BY <1>1, <1>2 DEF IInv, EngineInv
<1>5. SourceInv'
  <2>1. pc' # "idle"
    BY <1>1
  <2> QED
    BY <1>1, <2>1 DEF IInv, SourceInv
<1>6. SinkInv'
  <2>1. Size' = Size
    BY <1>1 DEF Size
  <2>2. stream = <<>> /\ read = 0 /\ data = <<>>
    BY <1>1 DEF IInv, SinkInv
  <2> QED
    BY <1>1, <1>2, <2>1, <2>2 DEF IInv, SinkInv
<1>7. ReliableInv'
  BY <1>1 DEF ReliableInv
<1> QED
  BY <1>3, <1>4, <1>5, <1>6, <1>7 DEF IInv

\* What arrives is a sequence of bytes, damaged or not.
LEMMA DamagedType ==
  ASSUME NEW s \in Seq(Byte), NEW t \in Damaged(s)
  PROVE  t \in Seq(Byte)
<1>1. CASE \E k \in DOMAIN s, b \in Byte : t = [s EXCEPT ![k] = b]
  <2>1. PICK k \in DOMAIN s, b \in Byte : t = [s EXCEPT ![k] = b]
    BY <1>1
  <2>2. k \in 1 .. Len(s)
    OBVIOUS
  <2> QED
    BY <2>1, <2>2, ExceptSeq
<1>2. CASE \E k \in 1 .. Len(s) - 1 : t = SubSeq(s, 1, k)
  <2>1. PICK k \in 1 .. Len(s) - 1 : t = SubSeq(s, 1, k)
    BY <1>2
  <2>2. k \in Nat /\ 1 \in Nat /\ \A i \in 1 .. k : i \in 1 .. Len(s)
    OBVIOUS
  <2>3. \A i \in 1 .. k : s[i] \in Byte
    BY <2>2, ElementOfSeq
  <2> QED
    BY <2>1, <2>2, <2>3, SubSeqProperties
<1> QED
  BY <1>1, <1>2 DEF Damaged

LEMMA TransferStep ==
  ASSUME IInv, Transfer, UNCHANGED registries
  PROVE  IInv'
<1>1. /\ pc = "sent" /\ pc' = "decompress"
      /\ UNCHANGED <<input, room, hash, table, ip, lit, out, read, data, level>>
      /\ UNCHANGED <<infos, engine, transport>>
      /\ stream' \in {out} \cup (IF transport = "damaged" THEN Damaged(out) ELSE {})
  BY DEF Transfer, Arrive, source, coder, registries
<1>2. out \in Seq(Byte) /\ read = 0 /\ data = <<>> /\ Size' = Size
  BY <1>1 DEF IInv, CoderInv, SinkInv, Size
<1>3. stream' \in Seq(Byte) /\ (transport = "reliable" => stream' = out)
  BY <1>1, <1>2, DamagedType
<1>4. EngineInv'
  BY <1>1 DEF IInv, EngineInv
<1>5. SourceInv'
  BY <1>1 DEF IInv, SourceInv
<1>6. CoderInv'
  BY <1>1, <1>2 DEF IInv, CoderInv
<1>7. RoomInv'
  <2>1. Used' = Used
    BY <1>1 DEF Used
  <2> QED
    BY <1>1, <2>1 DEF IInv, RoomInv
<1>8. WrittenInv'
  <2>1. Enough(Size)' = Enough(Size)
    BY <1>1, <1>2 DEF Enough
  <2> QED
    BY <1>1, <1>2, <2>1 DEF IInv, WrittenInv
<1>9. SinkInv'
  <2>1. stream' # <<>> => 0 < Len(stream')
    BY <1>3, EmptySeq
  <2>2. data \in Seq(Byte) /\ Len(data) <= Size
    BY DEF IInv, SinkInv
  <2> QED
    BY <1>1, <1>2, <1>3, <2>1, <2>2 DEF SinkInv
<1>10. ReliableInv'
  <2> SUFFICES ASSUME transport' = "reliable" PROVE ReliableInv'
    BY DEF ReliableInv
  <2>1. stream' = out'
    BY <1>1, <1>3
  <2>2. ASSUME out # <<>>
        PROVE  \E l \in {1, 2} : out[1] \div Highs = l - 1 /\ Reached(l, input, out, 0, <<>>)
    <3>1. PICK l \in {1, 2} : Stream(l, input, out)
      BY <1>1, <2>2 DEF IInv, WrittenInv
    <3>2. input \in Seq(Byte)
      BY InputType DEF IInv
    <3> QED
      BY <3>1, <3>2, ReachedFirst DEF Stream
  <2> QED
    BY <1>1, <1>2, <2>1, <2>2 DEF ReliableInv
<1> QED
  BY <1>4, <1>5, <1>6, <1>7, <1>8, <1>9, <1>10 DEF IInv

\* What follows the transfer leaves the compressor alone.
LEMMA SenderKept ==
  ASSUME IInv, pc \notin {"idle", "loop", "tail"}, pc' \in {"decompress", "done", "error", "returned"},
         UNCHANGED <<input, room, hash, table, ip, lit, out, level>>, UNCHANGED registries
  PROVE  EngineInv' /\ SourceInv' /\ CoderInv' /\ RoomInv' /\ WrittenInv' /\ Size' = Size
<1>1. UNCHANGED <<infos, engine, transport>> /\ Size' = Size
  BY DEF registries, Size
<1>2. pc' \notin {"idle", "loop", "tail"}
  OBVIOUS
<1>3. EngineInv'
  <2>1. pc # "idle" /\ pc' # "idle"
    BY <1>2
  <2> QED
    BY <1>1, <2>1 DEF IInv, EngineInv
<1>4. SourceInv'
  BY <1>2 DEF IInv, SourceInv
<1>5. CoderInv'
  BY <1>1, <1>2 DEF IInv, CoderInv
<1>6. RoomInv'
  <2>1. Used' = Used
    BY <1>2 DEF Used
  <2> QED
    BY <1>1, <1>2, <2>1 DEF IInv, RoomInv
<1>7. WrittenInv'
  <2>1. Enough(Size)' = Enough(Size)
    BY <1>1 DEF Enough
  <2> QED
    BY <1>1, <1>2, <2>1 DEF IInv, WrittenInv
<1> QED
  BY <1>1, <1>3, <1>4, <1>5, <1>6, <1>7

\* A decompressor has read on and written inside the output, or returned 0.
Moved ==
  \/ Error
  \/ /\ read' \in Nat /\ data' \in Seq(Byte) /\ Len(data') <= Size
     /\ pc' = IF read' < Len(stream) THEN "decompress" ELSE "done"

LEMMA CopiedType ==
  ASSUME NEW d \in Seq(Byte), NEW n \in Nat, NEW back \in 1 .. Len(d)
  PROVE  Copied(d, back, n) \in Seq(Byte) /\ Len(Copied(d, back, n)) = Len(d) + n
<1> DEFINE k == Len(d)
           from(j) == k - back + 1 + ((j - 1) % back)
           more == [j \in 1 .. n |-> d[from(j)]]
<1>1. k \in Nat /\ back \in 1 .. k
  OBVIOUS
<1>2. ASSUME NEW j \in 1 .. n
      PROVE  d[from(j)] \in Byte
  <2>1. (j - 1) % back \in 0 .. back - 1
    <3>1. j - 1 \in Nat /\ back \in Nat \ {0}
      BY <1>1
    <3> QED
      BY <3>1, Division
  <2>2. from(j) \in 1 .. Len(d)
    BY <1>1, <2>1
  <2> QED
    BY <2>2, ElementOfSeq
<1>3. more \in Seq(Byte) /\ Len(more) = n
  <2>1. \A j \in 1 .. n : d[from(j)] \in Byte
    BY <1>2
  <2>2. more \in [1 .. n -> Byte]
    BY <2>1
  <2> HIDE DEF more
  <2> QED
    BY <2>2
<1>4. Copied(d, back, n) = d \o more
  BY DEF Copied
<1> HIDE DEF more
<1> QED
  BY <1>3, <1>4, Joined

LEMMA RunMoves ==
  ASSUME input \in Seq(Byte), stream \in Seq(Byte), read \in Nat, data \in Seq(Byte),
         NEW n \in Nat, LiteralRun(n)
  PROVE  Error \/ (Moved /\ read' <= Len(stream))
<1>1. Len(stream) \in Nat /\ Len(data) \in Nat /\ Size \in Nat
  BY DEF Size
<1>2. CASE Len(data) + n > Size \/ read + 1 + n > Len(stream)
  BY <1>2 DEF LiteralRun
<1>3. CASE ~(Len(data) + n > Size \/ read + 1 + n > Len(stream))
  <2> DEFINE first == read + 2
             end == read + 1 + n
             more == SubSeq(stream, first, end)
  <2>1. /\ read' = read + (1 + n) /\ data' = data \o more
        /\ pc' = IF read + (1 + n) < Len(stream) THEN "decompress" ELSE "done"
    BY <1>3 DEF LiteralRun, Advance
  <2>2. /\ first \in Nat /\ end \in Nat /\ end - first + 1 = n
        /\ \A i \in first .. end : i \in 1 .. Len(stream)
    BY <1>1, <1>3
  <2>3. \A i \in first .. end : stream[i] \in Byte
    BY <2>2, ElementOfSeq
  <2> HIDE DEF first, end
  <2>4. SubSeq(stream, first, end) \in Seq(Byte)
    BY <2>2, <2>3, SubSeqProperties
  <2>5. Len(SubSeq(stream, first, end)) = IF first <= end THEN end - first + 1 ELSE 0
    BY <2>2, <2>3, SubSeqProperties
  <2>6. more \in Seq(Byte) /\ Len(more) = n
    BY <2>2, <2>4, <2>5
  <2> HIDE DEF more
  <2>7. data' \in Seq(Byte) /\ Len(data') = Len(data) + n
    BY <2>1, <2>6, Joined
  <2>8. read' \in Nat /\ read' <= Len(stream) /\ Len(data') <= Size
    BY <1>1, <1>3, <2>1, <2>7
  <2> QED
    BY <2>1, <2>7, <2>8 DEF Moved
<1> QED
  BY <1>2, <1>3

LEMMA CopyMoves ==
  ASSUME input \in Seq(Byte), stream \in Seq(Byte), read \in Nat, data \in Seq(Byte),
         NEW bytes \in Nat, NEW n \in Nat, NEW back \in Nat \ {0}, CopyRun(bytes, n, back)
  PROVE  Error \/ (Moved /\ read' = read + bytes)
<1>1. Len(data) \in Nat /\ Size \in Nat
  BY DEF Size
<1>2. CASE Len(data) + n > Size \/ back > Len(data)
  BY <1>2 DEF CopyRun
<1>3. CASE ~(Len(data) + n > Size \/ back > Len(data))
  <2> DEFINE d == Copied(data, back, n)
  <2>1. /\ read' = read + bytes /\ data' = d
        /\ pc' = IF read + bytes < Len(stream) THEN "decompress" ELSE "done"
    BY <1>3 DEF CopyRun, Advance
  <2>2. back \in 1 .. Len(data)
    BY <1>1, <1>3
  <2>3. d \in Seq(Byte) /\ Len(d) = Len(data) + n
    BY <2>2, CopiedType
  <2> HIDE DEF d
  <2>4. Len(data') <= Size /\ read' \in Nat /\ data' \in Seq(Byte)
    BY <1>1, <1>3, <2>1, <2>3
  <2> QED
    BY <2>1, <2>4 DEF Moved
<1> QED
  BY <1>2, <1>3

\* What is read is a byte, whatever is there.
LEMMA ReadableType ==
  ASSUME stream \in Seq(Byte), NEW k \in Int
  PROVE  /\ Readable(k) \subseteq Byte
         /\ k \in 1 .. Len(stream) => stream[k] \in Byte /\ Readable(k) = {stream[k]}
<1>1. DOMAIN stream = 1 .. Len(stream)
  OBVIOUS
<1>2. k \in 1 .. Len(stream) => stream[k] \in Byte
  BY ElementOfSeq
<1> QED
  BY <1>1, <1>2 DEF Readable

\* An empty stream is an error, and another one is not read beyond its end.
LEMMA LzfMoves ==
  ASSUME input \in Seq(Byte), stream \in Seq(Byte), read \in Nat, data \in Seq(Byte),
         read < Len(stream) \/ (stream = <<>> /\ read = 0), Lzf!Decompress
  PROVE  Error \/ (Moved /\ read' <= Len(stream) /\ stream # <<>>)
<1>1. /\ Lengths \in Nat /\ Lengths >= 3 /\ Highs \in Nat /\ Highs >= 3
      /\ Bytes \in Nat /\ Byte = 0 .. Bytes - 1 /\ Len(stream) \in Nat
      /\ stream = <<>> => Len(stream) = 0
  BY Sizes
<1>2. PICK ctrl \in Readable(read + 1) :
        IF ctrl < Highs THEN LiteralRun(ctrl + 1) ELSE Lzf!BackReference(ctrl)
  BY SameReads, SameRuns DEF Lzf!Decompress
<1>3. ctrl \in Byte
  BY ReadableType
<1>4. CASE ctrl < Highs
  <2>1. ctrl + 1 \in Nat /\ LiteralRun(ctrl + 1) /\ ctrl + 1 >= 1
    BY <1>1, <1>2, <1>3, <1>4
  <2>2. CASE stream = <<>>
    <3>1. read + 1 + (ctrl + 1) > Len(stream)
      BY <1>1, <2>1, <2>2
    <3> QED
      BY <2>1, <3>1 DEF LiteralRun
  <2>3. CASE stream # <<>>
    BY <2>1, <2>3, RunMoves
  <2> QED
    BY <2>2, <2>3
<1>5. CASE ~(ctrl < Highs)
  <2> DEFINE long == ctrl \div Highs = Lengths - 1
             all  == IF long THEN 3 ELSE 2
             len  == 2 + (IF long THEN Lengths - 1 + stream[read + 2] ELSE ctrl \div Highs)
             back == (ctrl % Highs) * Bytes + stream[read + all] + 1
  <2>1. IF read + all > Len(stream) THEN Error ELSE CopyRun(all, len, back)
    <3>1. \/ read + all > Len(stream) /\ Lzf!Error
          \/ ~(read + all > Len(stream)) /\ Lzf!CopyRun(all, len, back)
      BY <1>2, <1>5 DEF Lzf!BackReference, Lzf!Bytes, Bytes
    <3>2. Lzf!Error => Error
      BY DEF Lzf!Error, Error
    <3> QED
      BY <3>1, <3>2, SameCopies
  <2>2. CASE ~(read + all > Len(stream))
    <3>1. all \in {2, 3} /\ all \in Nat
      OBVIOUS
    <3>2. read + 2 \in 1 .. Len(stream) /\ read + all \in 1 .. Len(stream) /\ read + all <= Len(stream)
      <4> DEFINE n == Len(stream)
      <4>1. n \in Nat /\ all \in {2, 3} /\ ~(read + all > n)
        BY <1>1, <2>2, <3>1
      <4> HIDE DEF all, n
      <4>2. read + 2 \in 1 .. n /\ read + all \in 1 .. n /\ read + all <= n
        BY <4>1
      <4> QED
        BY <4>2 DEF n
    <3>3. stream[read + 2] \in Byte /\ stream[read + all] \in Byte
      BY <3>2, ElementOfSeq
    <3>4. ctrl \div Highs \in 0 .. Lengths - 1 /\ ctrl % Highs \in 0 .. Highs - 1
      BY <1>3, FieldsOf
    <3>5. len \in Nat
      <4> DEFINE a == stream[read + 2]
                 b == ctrl \div Highs
      <4>1. a \in Nat /\ b \in Nat
        BY <1>1, <3>3, <3>4
      <4>2. len = 2 + (IF long THEN Lengths - 1 + a ELSE b)
        OBVIOUS
      <4> HIDE DEF a, b, len, long
      <4> QED
        BY <1>1, <4>1, <4>2
    <3>6. back \in Nat \ {0}
      <4> DEFINE a == stream[read + all]
                 b == ctrl % Highs
      <4>1. a \in Nat /\ b \in Nat
        BY <1>1, <3>3, <3>4
      <4>2. back = b * Bytes + a + 1
        OBVIOUS
      <4> HIDE DEF a, b, back
      <4>3. b * Bytes \in Nat
        BY <1>1, <4>1
      <4> QED
        BY <4>1, <4>2, <4>3
    <3>7. stream # <<>>
      BY <1>1, <3>2
    <3> HIDE DEF all, len, back
    <3>8. CopyRun(all, len, back)
      BY <2>1, <2>2
    <3>9. Error \/ (Moved /\ read' = read + all)
      BY <3>1, <3>5, <3>6, <3>8, CopyMoves
    <3> QED
      BY <3>2, <3>7, <3>9
  <2> QED
    BY <2>1, <2>2
<1> QED
  BY <1>4, <1>5

\* The number of full length bytes is a number, wherever they are looked for.
LEMMA FullBytesType ==
  ASSUME stream \in Seq(Byte), Size \in Nat, NEW k \in Nat \ {0}, k <= Len(stream) + 1
  PROVE  Fast!FullBytes(k) \subseteq Nat
<1> DEFINE full == {n \in 0 .. Len(stream) :
                      k + n - 1 <= Len(stream) /\ \A i \in k .. k + n - 1 : stream[i] = Bytes - 1}
           most == CHOOSE n \in full : n + 1 \notin full
           rest == {n \in Nat : n \notin full}
           q == Size \div (Bytes - 1)
<1>1. Len(stream) \in Nat /\ Bytes \in Nat /\ Bytes >= 9
  BY Sizes
<1>2. Fast!FullBytes(k) = IF k + most <= Len(stream) THEN {most} ELSE most .. most + q + 1
  BY DEF Fast!FullBytes, Fast!Bytes, Fast!Size, Bytes, Size
<1>3. 0 \in full /\ full \in SUBSET Nat /\ Len(stream) + 1 \notin full
  <2>1. k + 0 - 1 <= Len(stream) /\ \A i \in k .. k + 0 - 1 : stream[i] = Bytes - 1
    BY <1>1
  <2> QED
    BY <1>1, <2>1
<1>4. q \in Nat
  <2>1. Bytes - 1 \in Nat \ {0}
    BY <1>1
  <2> QED
    BY <2>1, Division
<1> HIDE DEF full, q
<1>5. most \in full
  <2>1. rest \in SUBSET Nat /\ rest # {}
    BY <1>1, <1>3
  <2>2. PICK m \in rest : \A n \in rest : m <= n
    BY <2>1, Least
  <2>3. m # 0 /\ m \in Nat /\ m \notin full
    BY <1>3, <2>2
  <2>4. m - 1 \in Nat /\ ~(m <= m - 1) /\ (m - 1) + 1 = m
    BY <2>3
  <2>5. m - 1 \in full
    BY <2>2, <2>4
  <2>6. \E n \in full : n + 1 \notin full
    BY <2>3, <2>4, <2>5
  <2> QED
    BY <2>6
<1> HIDE DEF most
<1>6. most \in Nat
  BY <1>3, <1>5
<1> QED
  BY <1>2, <1>4, <1>6

LEMMA MatchOneMoves ==
  ASSUME input \in Seq(Byte), stream \in Seq(Byte), read \in Nat, data \in Seq(Byte),
         NEW field \in Nat, NEW high \in Nat, Fast!MatchOne(field, high)
  PROVE  Error \/ Moved
<1>1. Bytes \in Nat /\ \A b \in Byte : b \in Nat
  BY Sizes
<1>2. PICK bytes \in {2, 3}, more \in Nat, code \in Nat :
        CopyRun(bytes, field + 2 + more, high * Bytes + code + 1)
  <2> DEFINE wide == IF field = Lengths - 1 THEN 3 ELSE 2
  <2>1. PICK more \in IF wide = 3 THEN Readable(read + 2) ELSE {0}, code \in Readable(read + wide) :
          CopyRun(wide, field + 2 + more, high * Bytes + code + 1)
    BY SameReads, SameCopies DEF Fast!MatchOne, Fast!Bytes, Bytes
  <2>2. wide \in {2, 3}
    OBVIOUS
  <2> HIDE DEF wide
  <2>3. Readable(read + 2) \subseteq Byte /\ Readable(read + wide) \subseteq Byte
    <3>1. read + 2 \in Int /\ read + wide \in Int
      BY <2>2
    <3> QED
      BY <3>1, ReadableType
  <2>4. code \in Nat /\ 0 \in Nat
    BY <1>1, <2>3
  <2>5. more \in Nat
    BY <1>1, <2>3, <2>4
  <2> QED
    BY <2>1, <2>2, <2>4, <2>5
<1> DEFINE x == high * Bytes
           n == field + 2 + more
           back == high * Bytes + code + 1
<1>3. x \in Nat /\ n \in Nat /\ back = x + code + 1
  BY <1>1
<1>4. CopyRun(bytes, n, back) /\ bytes \in Nat
  BY <1>2
<1> HIDE DEF n, back, x
<1>5. back \in Nat \ {0}
  BY <1>3
<1> QED
  BY <1>3, <1>4, <1>5, CopyMoves

\* What MatchTwo() does with the number of full length bytes, none if there are
\* no length bytes (-1), the last of them, and the byte behind it.
LEMMA MatchTwoRest ==
  ASSUME input \in Seq(Byte), stream \in Seq(Byte), read \in Nat, data \in Seq(Byte),
         NEW field \in Nat, NEW high \in Nat,
         NEW full \in Int, full >= -1, NEW last \in Nat, NEW code \in Nat,
         LET len == field + 2 + last + IF full > 0 THEN full * (Bytes - 1) ELSE 0
         IN IF code = Bytes - 1 /\ high = Highs - 1
            THEN \E far \in Readable(read + 4 + full), low \in Readable(read + 5 + full) :
                   Fast!CopyRun(5 + full, len, far * Bytes + low + Fast!MaxDistance(2) + 1)
            ELSE Fast!CopyRun(3 + full, len, high * Bytes + code + 1)
  PROVE  Error \/ Moved
<1>1. Bytes \in Nat /\ Bytes >= 9 /\ \A b \in Byte : b \in Nat
  BY Sizes
<1> DEFINE len == field + 2 + last + IF full > 0 THEN full * (Bytes - 1) ELSE 0
<1>2. len \in Nat
  <2> DEFINE x == full * (Bytes - 1)
  <2>1. full > 0 => x \in Nat
    <3> SUFFICES ASSUME full > 0 PROVE x \in Nat
      OBVIOUS
    <3> DEFINE b == Bytes - 1
    <3>1. full \in Nat /\ b \in Nat
      BY <1>1
    <3> HIDE DEF b
    <3>2. full * b \in Nat
      BY <3>1
    <3> QED
      BY <3>2 DEF b
  <2> HIDE DEF x
  <2> DEFINE y == IF full > 0 THEN x ELSE 0
  <2>2. y \in Nat
    BY <2>1
  <2> HIDE DEF y
  <2>3. field + 2 + last + y \in Nat
    BY <2>2
  <2>4. field + 2 + last + (IF full > 0 THEN x ELSE 0) \in Nat
    BY <2>3 DEF y
  <2> QED
    BY <2>4 DEF x
<1>3. \/ \E far \in Readable(read + 4 + full), low \in Readable(read + 5 + full) :
           Fast!CopyRun(5 + full, len, far * Bytes + low + Fast!MaxDistance(2) + 1)
      \/ Fast!CopyRun(3 + full, len, high * Bytes + code + 1)
  OBVIOUS
<1> HIDE DEF len
<1>4. 5 + full \in Nat /\ 3 + full \in Nat
  OBVIOUS
<1>5. ASSUME NEW far \in Readable(read + 4 + full), NEW low \in Readable(read + 5 + full),
             Fast!CopyRun(5 + full, len, far * Bytes + low + Fast!MaxDistance(2) + 1)
      PROVE  Error \/ Moved
  <2>1. far \in Nat /\ low \in Nat
    <3>1. read + 4 + full \in Int /\ read + 5 + full \in Int
      OBVIOUS
    <3>2. Readable(read + 4 + full) \subseteq Byte /\ Readable(read + 5 + full) \subseteq Byte
      BY <3>1, ReadableType
    <3> QED
      BY <1>1, <3>2
  <2> DEFINE most == Fast!MaxDistance(2)
             x    == far * Bytes
             back == far * Bytes + low + Fast!MaxDistance(2) + 1
  <2>2. most \in Nat
    <3>1. Fast!MaxDistance(2) = Highs * Bytes - 1
      BY Limits
    <3>2. Highs * Bytes \in Nat /\ Highs * Bytes >= 1
      BY <1>1, Products
    <3> DEFINE y == Highs * Bytes
    <3>3. y \in Nat /\ y >= 1 /\ Fast!MaxDistance(2) = y - 1
      BY <3>1, <3>2
    <3> HIDE DEF y
    <3> QED
      BY <3>3
  <2>3. x \in Nat
    BY <1>1, <2>1
  <2>4. back = x + low + most + 1
    OBVIOUS
  <2>5. CopyRun(5 + full, len, back)
    BY <1>5, SameCopies
  <2> HIDE DEF back, most, x
  <2>6. back \in Nat \ {0}
    BY <2>1, <2>2, <2>3, <2>4
  <2> QED
    BY <1>2, <1>4, <2>5, <2>6, CopyMoves
<1>6. ASSUME Fast!CopyRun(3 + full, len, high * Bytes + code + 1)
      PROVE  Error \/ Moved
  <2> DEFINE x == high * Bytes
             back == high * Bytes + code + 1
  <2>1. x \in Nat /\ back = x + code + 1
    BY <1>1
  <2>2. CopyRun(3 + full, len, back)
    BY <1>6, SameCopies
  <2> HIDE DEF back, x
  <2>3. back \in Nat \ {0}
    BY <2>1
  <2> QED
    BY <1>2, <1>4, <2>2, <2>3, CopyMoves
<1> QED
  BY <1>3, <1>5, <1>6

LEMMA MatchTwoMoves ==
  ASSUME input \in Seq(Byte), stream \in Seq(Byte), read \in Nat, data \in Seq(Byte),
         read < Len(stream), NEW field \in Nat, NEW high \in Nat, Fast!MatchTwo(field, high)
  PROVE  Error \/ Moved
<1>1. \A b \in Byte : b \in Nat
  BY Sizes
<1>2. Fast!FullBytes(read + 2) \subseteq Nat
  <2> DEFINE k == read + 2
             n == Len(stream)
  <2>1. n \in Nat /\ read < n /\ Size \in Nat
    BY DEF Size
  <2> HIDE DEF n
  <2>2. k \in Nat \ {0} /\ k <= n + 1
    BY <2>1
  <2>3. k <= Len(stream) + 1
    BY <2>2 DEF n
  <2> HIDE DEF k
  <2>4. Fast!FullBytes(k) \subseteq Nat
    BY <2>1, <2>2, <2>3, FullBytesType
  <2> QED
    BY <2>4 DEF k
<1> DEFINE Fulls == IF field = Lengths - 1 THEN Fast!FullBytes(read + 2) ELSE {-1}
           Lasts(full) == IF full >= 0 THEN Readable(read + 2 + full) \ {Bytes - 1} ELSE {0}
           Rest(full, last, code) ==
             LET len == field + 2 + last + IF full > 0 THEN full * (Bytes - 1) ELSE 0
             IN IF code = Bytes - 1 /\ high = Highs - 1
                THEN \E far \in Readable(read + 4 + full), low \in Readable(read + 5 + full) :
                       Fast!CopyRun(5 + full, len, far * Bytes + low + Fast!MaxDistance(2) + 1)
                ELSE Fast!CopyRun(3 + full, len, high * Bytes + code + 1)
<1>3. \E full \in Fulls : \E last \in Lasts(full), code \in Readable(read + 3 + full) :
        Rest(full, last, code)
  BY SameReads, SMTT(20) DEF Fast!MatchTwo, Fast!Bytes, Bytes
<1>4. ASSUME NEW full \in Int, full >= -1
      PROVE  Lasts(full) \subseteq Nat /\ Readable(read + 3 + full) \subseteq Nat
  <2>1. read + 2 + full \in Int /\ read + 3 + full \in Int
    BY <1>4
  <2>2. Readable(read + 2 + full) \subseteq Byte /\ Readable(read + 3 + full) \subseteq Byte
    BY <2>1, ReadableType
  <2> QED
    BY <1>1, <2>2
<1>5. \A full \in Fulls : full \in Int /\ full >= -1
  <2>1. \A n \in Nat : n \in Int /\ n >= -1
    OBVIOUS
  <2>2. \A n \in {-1} : n \in Int /\ n >= -1
    OBVIOUS
  <2> QED
    BY <1>2, <2>1, <2>2
<1>6. ASSUME NEW full \in Int, full >= -1, NEW last \in Nat, NEW code \in Nat,
             Rest(full, last, code)
      PROVE  Error \/ Moved
  BY <1>6, MatchTwoRest
<1> HIDE DEF Fulls, Lasts, Rest
<1> QED
  BY <1>3, <1>4, <1>5, <1>6

LEMMA FastMoves ==
  ASSUME input \in Seq(Byte), stream \in Seq(Byte), read \in Nat, data \in Seq(Byte),
         read < Len(stream) \/ (stream = <<>> /\ read = 0), Fast!Decompress
  PROVE  Error \/ (Moved /\ stream # <<>>)
<1>1. /\ Highs \in Nat /\ Highs >= 3 /\ Len(stream) \in Nat
      /\ stream = <<>> => Len(stream) = 0
  BY Sizes
<1>2. PICK byte \in Readable(read + 1) :
        LET ctrl == IF read = 0 THEN byte % Highs ELSE byte
        IN IF read = 0 /\ byte \div Highs \notin {0, 1} THEN Fast!Error
           ELSE IF ctrl < Highs THEN LiteralRun(ctrl + 1)
           ELSE Fast!MatchRun(ctrl \div Highs, ctrl % Highs)
  BY SameReads, SameRuns DEF Fast!Decompress
<1>3. byte \in Byte
  BY ReadableType
<1> DEFINE ctrl == IF read = 0 THEN byte % Highs ELSE byte
<1>4. ctrl \in Byte /\ (read = 0 => ctrl < Highs)
  <2>1. byte % Highs \in 0 .. Highs - 1
    BY <1>3, FieldsOf
  <2>2. 0 .. Highs - 1 \subseteq Byte
    BY Sizes
  <2> DEFINE r == byte % Highs
  <2>3. r \in Byte /\ r < Highs /\ ctrl = IF read = 0 THEN r ELSE byte
    BY <1>1, <2>1, <2>2
  <2> HIDE DEF r, ctrl
  <2> QED
    BY <1>3, <2>3
<1>5. \/ Error
      \/ ctrl < Highs /\ LiteralRun(ctrl + 1)
      \/ ~(ctrl < Highs) /\ Fast!MatchRun(ctrl \div Highs, ctrl % Highs)
  BY <1>2 DEF Fast!Error, Error
<1> HIDE DEF ctrl
<1>6. ctrl \in Nat
  BY <1>4, Sizes
<1>7. CASE ctrl < Highs /\ LiteralRun(ctrl + 1)
  <2>1. ctrl + 1 \in Nat /\ ctrl + 1 >= 1
    BY <1>6
  <2>2. CASE stream = <<>>
    <3>1. read + 1 + (ctrl + 1) > Len(stream)
      BY <1>1, <2>1, <2>2
    <3> QED
      BY <1>7, <3>1 DEF LiteralRun
  <2>3. CASE stream # <<>>
    BY <1>7, <2>1, <2>3, RunMoves
  <2> QED
    BY <2>2, <2>3
<1>8. CASE ~(ctrl < Highs) /\ Fast!MatchRun(ctrl \div Highs, ctrl % Highs)
  <2>1. stream # <<>> /\ read < Len(stream)
    BY <1>1, <1>4, <1>8
  <2> DEFINE field == ctrl \div Highs
             high == ctrl % Highs
  <2>2. field \in Nat /\ high \in Nat
    BY <1>4, FieldsOf
  <2>3. Fast!MatchRun(field, high)
    BY <1>8
  <2> HIDE DEF field, high
  <2>4. Fast!MatchOne(field, high) \/ Fast!MatchTwo(field, high)
    BY <2>3 DEF Fast!MatchRun
  <2> QED
    BY <2>1, <2>2, <2>4, MatchOneMoves, MatchTwoMoves
<1> QED
  BY <1>5, <1>7, <1>8

\* Whatever has arrived, an iteration of the decompressor stays inside the
\* output, and liblzf inside the stream.
LEMMA DecompressMoves ==
  ASSUME IInv, Decompress
  PROVE  /\ pc = "decompress" /\ UNCHANGED <<input, room, hash, table, ip, lit, out, stream, level>>
         /\ pc' \in {"decompress", "done", "error"}
         /\ Error \/ (Moved /\ stream # <<>>)
         /\ engine["receiver"] = "LZF" /\ stream # <<>> => read' <= Len(stream)
<1>1. /\ pc = "decompress"
      /\ UNCHANGED <<input, room, hash, table, ip, lit, out, stream, level>>
  <2>1. CASE Lzf!Decompress /\ UNCHANGED level
    BY <2>1 DEF Lzf!Decompress, Lzf!source, Lzf!coder
  <2>2. CASE Fast!Decompress
    BY <2>2 DEF Fast!Decompress, Fast!source, Fast!coder
  <2> QED
    BY <2>1, <2>2 DEF Decompress
<1>2. /\ input \in Seq(Byte) /\ stream \in Seq(Byte) /\ read \in Nat /\ data \in Seq(Byte)
      /\ read < Len(stream) \/ (stream = <<>> /\ read = 0)
  BY <1>1, InputType DEF IInv, SinkInv
<1>3. /\ Error \/ (Moved /\ stream # <<>>)
      /\ engine["receiver"] = "LZF" /\ stream # <<>> => read' <= Len(stream)
  <2>1. CASE engine["receiver"] = "LZF" /\ Lzf!Decompress
    <3>1. Error \/ (Moved /\ read' <= Len(stream) /\ stream # <<>>)
      BY <1>2, <2>1, LzfMoves
    <3>2. Error /\ stream # <<>> => read' <= Len(stream)
      <4> SUFFICES ASSUME Error, stream # <<>> PROVE read' <= Len(stream)
        OBVIOUS
      <4>1. read' = read /\ read < Len(stream) /\ Len(stream) \in Nat
        BY <1>2 DEF Error
      <4> QED
        BY <1>2, <4>1
    <3> QED
      BY <3>1, <3>2
  <2>2. CASE engine["receiver"] = "FastLZ" /\ Fast!Decompress
    <3>1. Error \/ (Moved /\ stream # <<>>)
      BY <1>2, <2>2, FastMoves
    <3> QED
      BY <2>2, <3>1
  <2> QED
    BY <2>1, <2>2 DEF Decompress
<1>4. pc' \in {"decompress", "done", "error"}
  BY <1>3 DEF Error, Moved
<1> QED
  BY <1>1, <1>3, <1>4

\* A stream that has arrived as it was written is decoded up to the next cut.
LEMMA DecompressDecodes ==
  ASSUME IInv, Decompress, transport = "reliable", stream # <<>>
  PROVE  \E m, j \in Nat :
           /\ m <= Len(stream) /\ Decoded(m, j)
           /\ \A e : Prefix(e, input) /\ Len(e) = j =>
                \E l \in {1, 2} : /\ stream[1] \div Highs = l - 1
                                  /\ Reached(l, input, stream, m, e)
                                  /\ m = Len(stream) => e = input
<1>1. pc = "decompress"
  BY DecompressMoves
<1>2. /\ input \in Seq(Byte) /\ stream \in Seq(Byte) /\ read \in Nat /\ data \in Seq(Byte)
      /\ read < Len(stream) /\ stream = out
  BY <1>1, InputType DEF IInv, SinkInv, ReliableInv
<1>3. PICK l \in {1, 2} : stream[1] \div Highs = l - 1 /\ Reached(l, input, stream, read, data)
  BY <1>1 DEF IInv, ReliableInv
<1>4. read # Len(stream)
  BY <1>2
<1>5. PICK m \in Nat, j \in Nat :
        /\ read < m /\ m <= Len(stream) /\ j <= Len(input)
        /\ Code(l, input, stream, read, Len(data), m, j)
        /\ \A e : Prefix(e, input) /\ Len(e) = j =>
                    Reached(l, input, stream, m, e) /\ (m = Len(stream) => e = input)
  BY <1>2, <1>3, <1>4, ReachedNext
<1>6. Prefix(data, input)
  BY <1>3 DEF Reached
<1>7. Decoded(m, j)
  <2>1. CASE Lzf!Decompress /\ engine["receiver"] = "LZF"
    <3>1. engine["sender"] = "LZF" /\ Stream(1, input, stream)
      BY <1>1, <1>2, <2>1 DEF IInv, EngineInv, WrittenInv
    <3>2. stream[1] \div Highs = 0
      BY <3>1 DEF Stream
    <3>3. l = 1
      BY <1>3, <3>2
    <3>4. stream[1] < Highs
      <4>1. 1 \in 1 .. Len(stream)
        BY <1>2
      <4>2. stream[1] \in Byte
        BY <1>2, <4>1, ElementOfSeq
      <4> DEFINE b == stream[1]
      <4>3. b \in Byte /\ b \div Highs = 0
        BY <3>2, <4>2
      <4> HIDE DEF b
      <4>4. ~(b >= Highs)
        BY <4>3, FieldsOf
      <4>5. b \in Nat /\ Highs \in Nat
        BY <4>3, Sizes
      <4>6. b < Highs
        BY <4>4, <4>5
      <4> QED
        BY <4>6 DEF b
    <3>5. Code(1, input, stream, read, Len(data), m, j)
      BY <1>5, <3>3
    <3> QED
      BY <1>2, <1>5, <1>6, <2>1, <3>4, <3>5, LzfDecoded
  <2>2. CASE Fast!Decompress
    BY <1>2, <1>3, <1>5, <1>6, <2>2, FastDecoded
  <2> QED
    BY <2>1, <2>2 DEF Decompress
<1> QED
  BY <1>3, <1>5, <1>7

LEMMA DecompressStep ==
  ASSUME IInv, Decompress, UNCHANGED registries
  PROVE  IInv'
<1>1. /\ pc = "decompress" /\ UNCHANGED <<input, room, hash, table, ip, lit, out, stream, level>>
      /\ pc' \in {"decompress", "done", "error"}
      /\ Error \/ (Moved /\ stream # <<>>)
      /\ engine["receiver"] = "LZF" /\ stream # <<>> => read' <= Len(stream)
  BY DecompressMoves
<1>2. UNCHANGED <<infos, engine, transport>>
  BY DEF registries
<1>3. EngineInv' /\ SourceInv' /\ CoderInv' /\ RoomInv' /\ WrittenInv' /\ Size' = Size
  BY <1>1, SenderKept
<1>4. /\ stream \in Seq(Byte) /\ read \in Nat /\ data \in Seq(Byte) /\ Len(data) <= Size
      /\ read < Len(stream) \/ (stream = <<>> /\ read = 0 /\ data = <<>>)
  BY <1>1 DEF IInv, SinkInv
<1>5. SinkInv'
  <2>1. read' \in Nat /\ data' \in Seq(Byte) /\ Len(data') <= Size
    BY <1>1, <1>4 DEF Error, Moved
  <2>2. pc' = "decompress" => read' < Len(stream)
    BY <1>1 DEF Error, Moved
  <2> QED
    BY <1>1, <1>2, <1>3, <1>4, <2>1, <2>2 DEF SinkInv
<1>6. ReliableInv'
  <2> SUFFICES ASSUME transport = "reliable" PROVE ReliableInv'
    BY <1>2 DEF ReliableInv
  <2>1. stream = out /\ stream' = out'
    BY <1>1 DEF IInv, ReliableInv
  <2>2. CASE stream = <<>>
    <3>1. pc' = "error" /\ data' = <<>>
      BY <1>1, <1>4, <2>2 DEF Error
    <3> QED
      BY <1>1, <2>1, <2>2, <3>1 DEF ReliableInv
  <2>3. CASE stream # <<>>
    <3>1. PICK m \in Nat, j \in Nat :
            /\ m <= Len(stream) /\ Decoded(m, j)
            /\ \A e : Prefix(e, input) /\ Len(e) = j =>
                 \E l \in {1, 2} : /\ stream[1] \div Highs = l - 1
                                   /\ Reached(l, input, stream, m, e)
                                   /\ m = Len(stream) => e = input
      BY <2>3, DecompressDecodes
    <3>2. /\ read' = m /\ Prefix(data', input) /\ Len(data') = j
          /\ pc' = IF m < Len(stream) THEN "decompress" ELSE "done"
      BY <3>1 DEF Decoded
    <3>3. \E l \in {1, 2} : /\ stream[1] \div Highs = l - 1
                            /\ Reached(l, input, stream, m, data')
                            /\ m = Len(stream) => data' = input
      BY <3>1, <3>2
    <3>4. pc' = "done" => m = Len(stream)
      <4>1. Len(stream) \in Nat
        BY <1>4
      <4> QED
        BY <3>1, <3>2, <4>1
    <3>5. pc' = "done" => data' = input /\ read' = Len(stream)
      BY <3>2, <3>3, <3>4
    <3>6. pc' # "error" /\ pc' # "returned"
      BY <3>2
    <3>7. \E l \in {1, 2} : stream'[1] \div Highs = l - 1 /\ Reached(l, input', stream', read', data')
      BY <1>1, <3>2, <3>3
    <3> QED
      BY <1>1, <2>1, <3>5, <3>6, <3>7 DEF ReliableInv
  <2> QED
    BY <2>2, <2>3
<1> QED
  BY <1>3, <1>5, <1>6 DEF IInv

LEMMA ReturnStep ==
  ASSUME IInv, Return, UNCHANGED registries
  PROVE  IInv'
<1>1. /\ pc \in {"done", "error"} /\ pc' = "returned" /\ UNCHANGED <<infos, engine, transport>>
      /\ UNCHANGED <<input, room, hash, table, ip, lit, out, level, stream, read, data>>
  BY DEF Return, source, coder, sink, registries
<1>2. EngineInv' /\ SourceInv' /\ CoderInv' /\ RoomInv' /\ WrittenInv' /\ Size' = Size
  BY <1>1, SenderKept
<1>3. SinkInv'
  BY <1>1, <1>2 DEF IInv, SinkInv
<1>4. ReliableInv'
  BY <1>1 DEF IInv, ReliableInv
<1> QED
  BY <1>2, <1>3, <1>4 DEF IInv

------------------------------------------------------------------------------
(* data::Registry *)

\* The function in which the fold of choose() is defined, for each set of
\* places of the list of engines.
Steps(order, D, best) ==
  best = [S \in SUBSET D |->
            IF S = {} THEN NoName ELSE Better(best[S \ {Max(S)}], order[Max(S)])]
Best(order) == CHOOSE best : Steps(order, DOMAIN order, best)

LEMMA ChooseIsBest ==
  ASSUME NEW order
  PROVE  Choose(order) = Best(order)[DOMAIN order]
BY DEF Choose, FoldLeft, MapThenFoldSet, Best, Steps

\* The largest of the first places.
LEMMA LastPlace ==
  ASSUME NEW n \in Nat, NEW S \in SUBSET (1 .. n + 1), n + 1 \in S
  PROVE  Max(S) = n + 1
<1>1. \A x \in S : n + 1 >= x
  OBVIOUS
<1>2. \E x \in S : \A y \in S : x >= y
  BY <1>1
<1>3. Max(S) \in S /\ \A y \in S : Max(S) >= y
  BY <1>2 DEF Max
<1>4. Max(S) >= n + 1 /\ Max(S) \in 1 .. n + 1
  BY <1>3
<1> DEFINE m == Max(S)
<1> HIDE DEF m
<1>5. m >= n + 1 /\ m \in 1 .. n + 1
  BY <1>4 DEF m
<1>6. m = n + 1
  BY <1>5
<1> QED
  BY <1>6 DEF m

\* There is such a function for the places up to n.
LEMMA StepsExist ==
  ASSUME NEW order
  PROVE  \A n \in Nat : \E best : Steps(order, 1 .. n, best)
<1> DEFINE missing == {n \in Nat : ~ \E best : Steps(order, 1 .. n, best)}
<1> SUFFICES ASSUME missing # {} PROVE FALSE
  OBVIOUS
<1>1. missing \in SUBSET Nat
  OBVIOUS
<1>2. PICK m \in missing : \A n \in missing : m <= n
  BY <1>1, Least
<1>3. \E best : Steps(order, 1 .. 0, best)
  <2> DEFINE best == [S \in SUBSET (1 .. 0) |-> NoName]
  <2>1. SUBSET (1 .. 0) = {{}}
    OBVIOUS
  <2>2. Steps(order, 1 .. 0, best)
    BY <2>1 DEF Steps
  <2> QED
    BY <2>2
<1>4. m \in Nat /\ m # 0
  BY <1>3
<1>5. PICK k \in Nat : m = k + 1
  <2>1. m - 1 \in Nat /\ m = (m - 1) + 1
    BY <1>4
  <2> QED
    BY <2>1
<1>6. PICK best : Steps(order, 1 .. k, best)
  <2>1. ~(m <= k)
    BY <1>5
  <2> QED
    BY <1>2, <2>1
<1> DEFINE D == 1 .. k
           E == 1 .. k + 1
           more == [S \in SUBSET E |-> IF k + 1 \in S THEN Better(best[S \ {k + 1}], order[k + 1])
                                       ELSE best[S]]
<1>7. best = [S \in SUBSET D |->
                IF S = {} THEN NoName ELSE Better(best[S \ {Max(S)}], order[Max(S)])]
  BY <1>6 DEF Steps
<1>8. ASSUME NEW S \in SUBSET E
      PROVE  more[S] = IF S = {} THEN NoName ELSE Better(more[S \ {Max(S)}], order[Max(S)])
  <2>1. CASE k + 1 \in S
    <3>1. Max(S) = k + 1
      BY <2>1, LastPlace
    <3>2. S # {} /\ S \ {k + 1} \in SUBSET E /\ k + 1 \notin S \ {k + 1}
      BY <2>1
    <3>3. more[S] = Better(best[S \ {k + 1}], order[k + 1])
      BY <2>1
    <3>4. more[S \ {k + 1}] = best[S \ {k + 1}]
      BY <3>2
    <3> HIDE DEF more
    <3> QED
      BY <3>1, <3>2, <3>3, <3>4
  <2>2. CASE k + 1 \notin S
    <3> DEFINE last == Max(S)
    <3> HIDE DEF last
    <3>0. ASSUME NEW x \in S PROVE x \in D
      <4>1. x \in 1 .. k + 1 /\ x # k + 1
        BY <2>2
      <4> QED
        BY <4>1
    <3>1. S \in SUBSET D /\ S \ {Max(S)} \in SUBSET E /\ k + 1 \notin S \ {Max(S)}
      <4>1. S \in SUBSET D
        BY <3>0
      <4>2. S \ {last} \in SUBSET E
        OBVIOUS
      <4>3. k + 1 \notin S \ {last}
        BY <2>2
      <4> QED
        BY <4>1, <4>2, <4>3 DEF last
    <3>2. more[S] = best[S] /\ more[S \ {Max(S)}] = best[S \ {Max(S)}]
      BY <2>2, <3>1
    <3>3. best[S] = IF S = {} THEN NoName ELSE Better(best[S \ {Max(S)}], order[Max(S)])
      BY <1>7, <3>1
    <3> QED
      BY <3>2, <3>3
  <2> QED
    BY <2>1, <2>2
<1>9. DOMAIN more = SUBSET E /\ more = [S \in SUBSET E |-> more[S]]
  OBVIOUS
<1>10. Steps(order, E, more)
  <2> HIDE DEF more, E
  <2> QED
    BY <1>8, <1>9 DEF Steps
<1> QED
  BY <1>2, <1>5, <1>10

\* The fold takes one engine after the other.
LEMMA Folded ==
  ASSUME NEW order \in Seq(Names)
  PROVE  /\ Choose(order) = Best(order)[1 .. Len(order)]
         /\ Best(order)[1 .. 0] = NoName
         /\ \A n \in 1 .. Len(order) :
              Best(order)[1 .. n] = Better(Best(order)[1 .. n - 1], order[n])
<1>1. DOMAIN order = 1 .. Len(order) /\ Len(order) \in Nat
  OBVIOUS
<1>2. Steps(order, DOMAIN order, Best(order))
  BY <1>1, StepsExist DEF Best
<1> DEFINE best == Best(order)
<1>3. \A S \in SUBSET DOMAIN order :
        best[S] = IF S = {} THEN NoName ELSE Better(best[S \ {Max(S)}], order[Max(S)])
  <2> HIDE DEF best
  <2>1. best = [S \in SUBSET DOMAIN order |->
                  IF S = {} THEN NoName ELSE Better(best[S \ {Max(S)}], order[Max(S)])]
    BY <1>2 DEF Steps, best
  <2> QED
    BY <2>1
<1> HIDE DEF best
<1>4. best[1 .. 0] = NoName
  <2>1. 1 .. 0 = {} /\ {} \in SUBSET DOMAIN order
    OBVIOUS
  <2> QED
    BY <1>3, <2>1
<1>5. ASSUME NEW n \in 1 .. Len(order)
      PROVE  best[1 .. n] = Better(best[1 .. n - 1], order[n])
  <2> DEFINE S == 1 .. n
  <2>1. PICK k \in Nat : n = k + 1
    <3>1. n - 1 \in Nat /\ n = (n - 1) + 1
      OBVIOUS
    <3> QED
      BY <3>1
  <2>2. S \in SUBSET (1 .. k + 1) /\ k + 1 \in S
    BY <2>1
  <2>3. Max(S) = n
    BY <2>1, <2>2, LastPlace
  <2>4. S \in SUBSET DOMAIN order /\ S # {}
    <3> DEFINE l == Len(order)
    <3>1. DOMAIN order = 1 .. l /\ l \in Nat /\ n \in 1 .. l
      BY <1>1
    <3> HIDE DEF l
    <3>2. 1 .. n \in SUBSET (1 .. l) /\ n \in 1 .. n
      BY <3>1
    <3> QED
      BY <3>1, <3>2
  <2>5. S \ {n} = 1 .. n - 1
    OBVIOUS
  <2> HIDE DEF S
  <2>6. best[S] = Better(best[S \ {n}], order[n])
    BY <1>3, <2>3, <2>4
  <2> QED
    BY <2>5, <2>6 DEF S
<1> QED
  BY <1>1, <1>4, <1>5, ChooseIsBest DEF best

\* A candidate no worse than nothing, nor than the first n engines of the list.
Leads(order, n, name) ==
  /\ name \in {NoName} \cup Names
  /\ name # NoName => Rating[name] > NoRating
  /\ \A i \in 1 .. n : RatingOf(name) >= Rating[order[i]]

LEMMA RatingType ==
  ASSUME NEW name \in {NoName} \cup Names
  PROVE  RatingOf(name) \in Int /\ NoRating \in Int
BY DataEnginesAssumption DEF RatingOf

\* One engine more.
LEMMA BetterLeads ==
  ASSUME NEW order \in Seq(Names), NEW k \in Nat, k < Len(order), NEW name,
         Leads(order, k, name)
  PROVE  Leads(order, k + 1, Better(name, order[k + 1]))
<1> DEFINE next == order[k + 1]
           better == Better(name, next)
<1>1. k + 1 \in 1 .. Len(order)
  OBVIOUS
<1>2. next \in Names
  BY <1>1, ElementOfSeq
<1>3. next # NoName /\ RatingOf(next) = Rating[next]
  BY <1>2, DataEnginesAssumption DEF RatingOf
<1>4. name \in {NoName} \cup Names
  BY DEF Leads
<1>5. RatingOf(name) \in Int /\ RatingOf(next) \in Int /\ NoRating \in Int
  BY <1>2, <1>4, RatingType
<1>6. RatingOf(name) >= NoRating
  <2>1. CASE name = NoName
    BY <1>5, <2>1 DEF RatingOf
  <2>2. CASE name # NoName
    BY <1>5, <2>2 DEF Leads, RatingOf
  <2> QED
    BY <2>1, <2>2
<1>7. better \in {NoName} \cup Names
  BY <1>2, <1>4 DEF Better
<1>8. better # NoName => Rating[better] > NoRating
  <2>1. CASE RatingOf(next) > RatingOf(name)
    <3>1. better = next /\ RatingOf(next) > NoRating
      BY <1>5, <1>6, <2>1 DEF Better
    <3> QED
      BY <1>3, <3>1
  <2>2. CASE ~(RatingOf(next) > RatingOf(name))
    BY <2>2 DEF Better, Leads
  <2> QED
    BY <2>1, <2>2
<1>9. RatingOf(better) >= RatingOf(next) /\ RatingOf(better) >= RatingOf(name)
      /\ RatingOf(better) \in Int
  BY <1>5 DEF Better
<1>10. ASSUME NEW i \in 1 .. k + 1 PROVE RatingOf(better) >= Rating[order[i]]
  <2>1. CASE i = k + 1
    BY <1>3, <1>9, <2>1
  <2>2. CASE i # k + 1
    <3>1. i \in 1 .. k /\ i \in 1 .. Len(order)
      BY <2>2
    <3>2. order[i] \in Names
      BY <3>1, ElementOfSeq
    <3>3. Rating[order[i]] \in Int /\ RatingOf(name) >= Rating[order[i]]
      BY <3>1, <3>2, DataEnginesAssumption DEF Leads
    <3> HIDE DEF better
    <3> QED
      BY <1>5, <1>9, <3>3
  <2> QED
    BY <2>1, <2>2
<1> HIDE DEF better
<1>11. Leads(order, k + 1, better)
  BY <1>7, <1>8, <1>10 DEF Leads
<1> QED
  BY <1>11 DEF better, next

\* What choose() recommends.
LEMMA ChosenBest ==
  ASSUME NEW order \in Seq(Names)
  PROVE  Leads(order, Len(order), Choose(order))
<1> DEFINE best == Best(order)
           missing == {n \in 0 .. Len(order) : ~Leads(order, n, best[1 .. n])}
<1>1. Len(order) \in Nat /\ missing \in SUBSET Nat
  OBVIOUS
<1>2. Leads(order, 0, best[1 .. 0])
  <2>1. best[1 .. 0] = NoName
    BY Folded
  <2>2. \A i \in 1 .. 0 : FALSE
    OBVIOUS
  <2> HIDE DEF best
  <2> QED
    BY <2>1, <2>2 DEF Leads
<1>3. missing = {}
  <2> SUFFICES ASSUME missing # {} PROVE FALSE
    OBVIOUS
  <2>1. PICK m \in missing : \A n \in missing : m <= n
    BY <1>1, Least
  <2>2. m # 0 /\ m \in 0 .. Len(order)
    BY <1>2, <2>1
  <2>3. PICK k \in Nat : m = k + 1 /\ k < Len(order)
    <3>1. m - 1 \in Nat /\ m = (m - 1) + 1 /\ m - 1 < Len(order)
      BY <1>1, <2>2
    <3> QED
      BY <3>1
  <2>4. k \notin missing /\ k \in 0 .. Len(order)
    <3>1. ~(m <= k)
      BY <2>3
    <3>2. k \in 0 .. Len(order)
      BY <1>1, <2>3
    <3> QED
      BY <2>1, <3>1, <3>2
  <2>5. Leads(order, k, best[1 .. k])
    BY <2>4
  <2>6. k + 1 \in 1 .. Len(order) /\ (k + 1) - 1 = k
    BY <1>1, <2>3
  <2>7. best[1 .. k + 1] = Better(best[1 .. k], order[k + 1])
    <3> HIDE DEF best, missing
    <3>1. \A n \in 1 .. Len(order) : best[1 .. n] = Better(best[1 .. n - 1], order[n])
      BY Folded DEF best
    <3> QED
      BY <2>6, <3>1
  <2>8. Leads(order, k + 1, Better(best[1 .. k], order[k + 1]))
    BY <2>3, <2>5, BetterLeads
  <2> QED
    BY <2>1, <2>3, <2>7, <2>8
<1>4. Len(order) \notin missing /\ Len(order) \in 0 .. Len(order)
  BY <1>1, <1>3
<1>5. Leads(order, Len(order), best[1 .. Len(order)])
  BY <1>4
<1>6. Choose(order) = best[1 .. Len(order)]
  BY Folded
<1> HIDE DEF best, missing
<1> QED
  BY <1>5, <1>6

\* What a process registers are engines with names, none of them twice in rank.
LEMMA ListType ==
  ASSUME EngineInv, NEW side \in Sides
  PROVE  infos[side] \in Seq(Names) /\ Range(infos[side]) = Names
<1>1. infos[side] \in Orders
  BY DEF EngineInv
<1> QED
  BY <1>1, DataEnginesAssumption

\* Creating an engine touches nothing but the name of the engine.
LEMMA Created ==
  ASSUME IInv, pc = "idle", engine' \in [Sides -> Names \cup {NoName}],
         engine'["receiver"] \in {NoName, engine'["sender"]},
         UNCHANGED <<pc, source, coder, sink, level, infos, transport>>
  PROVE  IInv'
<1>1. /\ pc = "idle" /\ pc' = "idle" /\ UNCHANGED <<infos, transport>>
      /\ UNCHANGED <<input, room, hash, table, ip, lit, out, level, stream, read, data>>
  BY DEF source, coder, sink
<1>2. EngineInv'
  BY <1>1 DEF IInv, EngineInv
<1>3. SourceInv' /\ Size' = Size
  BY <1>1 DEF IInv, SourceInv, Size
<1>4. CoderInv'
  BY <1>1, <1>3 DEF IInv, CoderInv
<1>5. RoomInv'
  <2>1. out' = <<>> /\ room' \in Nat
    BY <1>1 DEF IInv, SourceInv
  <2>2. Used' = 0
    BY <1>1, <2>1 DEF Used
  <2> QED
    BY <1>1, <2>1, <2>2 DEF RoomInv
<1>6. WrittenInv'
  BY <1>1 DEF WrittenInv
<1>7. SinkInv'
  <2>1. stream = <<>> /\ read = 0 /\ data = <<>>
    BY <1>1 DEF IInv, SinkInv
  <2>2. stream' = <<>> /\ read' = 0 /\ data' = <<>> /\ Len(data') <= Size'
    <3>1. Size \in Nat
      BY InputType DEF IInv
    <3> QED
      BY <1>1, <1>3, <2>1, <3>1
  <2> QED
    BY <1>1, <2>2 DEF SinkInv
<1>8. ReliableInv'
  BY <1>1 DEF ReliableInv
<1> QED
  BY <1>2, <1>3, <1>4, <1>5, <1>6, <1>7, <1>8 DEF IInv

LEMMA CreateSenderStep ==
  ASSUME IInv, CreateSender
  PROVE  IInv'
<1>1. /\ engine["sender"] = NoName
      /\ UNCHANGED <<pc, source, coder, sink, level, infos, transport>>
  BY DEF CreateSender
<1>2. pc = "idle"
  BY <1>1 DEF IInv, EngineInv, NoName
<1>3. PICK name \in {Choose(infos["sender"])} \cup {Find(infos["sender"], n) : n \in Names} :
        engine' = [engine EXCEPT !["sender"] = name]
  BY DEF CreateSender
<1>4. infos["sender"] \in Seq(Names)
  BY ListType DEF IInv, Sides
<1>5. name \in Names \cup {NoName}
  <2>1. Choose(infos["sender"]) \in {NoName} \cup Names
    BY <1>4, ChosenBest DEF Leads
  <2>2. \A n \in Names : Find(infos["sender"], n) \in Names \cup {NoName}
    BY DEF Find
  <2> QED
    BY <1>3, <2>1, <2>2
<1>6. /\ engine \in [Sides -> Names \cup {NoName}]
      /\ engine["receiver"] \in {NoName, engine["sender"]}
  BY DEF IInv, EngineInv
<1>7. engine' \in [Sides -> Names \cup {NoName}]
  BY <1>3, <1>5, <1>6
<1>8. engine'["receiver"] = NoName
  BY <1>1, <1>3, <1>6 DEF Sides
<1> QED
  BY <1>1, <1>2, <1>7, <1>8, Created

LEMMA CreateReceiverStep ==
  ASSUME IInv, CreateReceiver
  PROVE  IInv'
<1>1. /\ engine["receiver"] = NoName /\ engine["sender"] # NoName
      /\ engine' = [engine EXCEPT !["receiver"] = Find(infos["receiver"], engine["sender"])]
      /\ UNCHANGED <<pc, source, coder, sink, level, infos, transport>>
  BY DEF CreateReceiver
<1>2. pc = "idle"
  BY <1>1 DEF IInv, EngineInv
<1>3. engine \in [Sides -> Names \cup {NoName}]
  BY DEF IInv, EngineInv
<1>4. Find(infos["receiver"], engine["sender"]) \in {NoName, engine["sender"]}
  BY DEF Find
<1>5. engine["sender"] \in Names \cup {NoName}
  BY <1>3 DEF Sides
<1>6. engine' \in [Sides -> Names \cup {NoName}]
  BY <1>1, <1>3, <1>4, <1>5
<1>7. engine'["receiver"] \in {NoName, engine'["sender"]}
  BY <1>1, <1>3, <1>4 DEF Sides
<1> QED
  BY <1>1, <1>2, <1>6, <1>7, Created

LEMMA StutterStep ==
  ASSUME IInv, UNCHANGED vars
  PROVE  IInv'
<1>1. /\ UNCHANGED <<pc, infos, engine, transport>>
      /\ UNCHANGED <<input, room, hash, table, ip, lit, out, level, stream, read, data>>
  BY DEF vars, registries, source, coder, sink
<1>2. Size' = Size /\ Used' = Used /\ Enough(Size)' = Enough(Size)
  BY <1>1 DEF Size, Used, Enough
<1>3. RestFits' = RestFits
  BY <1>1, <1>2 DEF RestFits
<1>4. EngineInv' /\ SourceInv'
  BY <1>1 DEF IInv, EngineInv, SourceInv
<1>5. CoderInv'
  BY <1>1, <1>2 DEF IInv, CoderInv
<1>6. RoomInv'
  BY <1>1, <1>2, <1>3 DEF IInv, RoomInv
<1>7. WrittenInv'
  BY <1>1, <1>2 DEF IInv, WrittenInv
<1>8. SinkInv'
  BY <1>1, <1>2 DEF IInv, SinkInv
<1>9. ReliableInv'
  BY <1>1 DEF IInv, ReliableInv
<1> QED
  BY <1>4, <1>5, <1>6, <1>7, <1>8, <1>9 DEF IInv

LEMMA FirstState ==
  ASSUME Init
  PROVE  IInv
<1>1. /\ infos \in [Sides -> Orders] /\ engine = [side \in Sides |-> NoName]
      /\ transport \in Transports /\ pc = "idle" /\ level = 1
      /\ input = <<>> /\ room = 0 /\ ip = 0 /\ lit = 0 /\ out = <<>>
      /\ stream = <<>> /\ read = 0 /\ data = <<>>
  BY DEF Init
<1>2. hash \in Hashes
  <2>1. hash = CHOOSE h \in Hashes : TRUE
    BY DEF Init
  <2>2. \E h \in Hashes : TRUE
    BY DataEnginesAssumption
  <2> QED
    BY <2>1, <2>2
<1>3. Size = 0 /\ Len(data) = 0 /\ Len(out) = 0
  BY <1>1 DEF Size
<1>4. EngineInv
  BY <1>1 DEF EngineInv, Sides
<1>5. SourceInv
  BY <1>1, <1>2 DEF SourceInv
<1>6. CoderInv
  BY <1>1, <1>3, Sizes DEF CoderInv
<1>7. RoomInv
  <2>1. Used = 0
    BY <1>1, <1>3 DEF Used
  <2> QED
    BY <1>1, <2>1 DEF RoomInv
<1>8. WrittenInv
  BY <1>1 DEF WrittenInv
<1>9. SinkInv
  BY <1>1, <1>3 DEF SinkInv
<1>10. ReliableInv
  BY <1>1 DEF ReliableInv
<1> QED
  BY <1>4, <1>5, <1>6, <1>7, <1>8, <1>9, <1>10 DEF IInv

LEMMA NextStep ==
  ASSUME IInv, [Next]_vars
  PROVE  IInv'
<1>1. CASE UNCHANGED vars
  BY <1>1, StutterStep
<1>2. CASE CreateSender
  BY <1>2, CreateSenderStep
<1>3. CASE CreateReceiver
  BY <1>3, CreateReceiverStep
<1>4. CASE Stopped
  BY <1>4, StutterStep DEF Stopped
<1>5. CASE Begin /\ UNCHANGED registries
  BY <1>5, BeginStep
<1>6. CASE Run /\ UNCHANGED registries
  <2>1. CASE Compress
    BY <1>6, <2>1, CompressStep
  <2>2. CASE Transfer
    BY <1>6, <2>2, TransferStep
  <2>3. CASE Decompress
    BY <1>6, <2>3, DecompressStep
  <2>4. CASE Return
    BY <1>6, <2>4, ReturnStep
  <2> QED
    BY <1>6, <2>1, <2>2, <2>3, <2>4 DEF Run
<1> QED
  BY <1>1, <1>2, <1>3, <1>4, <1>5, <1>6 DEF Next

------------------------------------------------------------------------------
(* Theorems *)

\* The invariant holds in every reachable state, for formats of any size, any
\* chunks, hash functions and room, and any list of engines.
THEOREM Inductive == Spec => []IInv
<1>1. Init => IInv
  BY FirstState
<1>2. IInv /\ [Next]_vars => IInv'
  BY NextStep
<1> QED
  BY <1>1, <1>2, PTL DEF Spec

\* Every variable keeps its type: the positions stay in the chunk, and codes
\* and data are bytes.
THEOREM Types == Spec => []TypeOK
<1>1. IInv => TypeOK
  BY DEF IInv, EngineInv, SourceInv, CoderInv, SinkInv, TypeOK
<1> QED
  BY <1>1, Inductive, PTL

\* What LZF and FastLZ write, their decompressors read back to the chunk, for
\* every chunk, every hash function and every state of the hash table.
THEOREM LosslessEngines == Spec => []RoundTrip
<1>1. IInv => RoundTrip
  <2> SUFFICES ASSUME IInv, transport = "reliable"
               PROVE  /\ \A k \in DOMAIN data : k <= Size /\ data[k] = input[k]
                      /\ pc = "done" => data = input /\ read = Len(stream)
                      /\ pc = "error" => stream = <<>>
    BY DEF RoundTrip
  <2>1. input \in Seq(Byte) /\ data \in Seq(Byte) /\ Size = Len(input) /\ Size \in Nat
    BY InputType DEF IInv, SinkInv
  <2>2. Prefix(data, input)
    <3>1. CASE data = <<>>
      BY <2>1, <3>1 DEF Prefix
    <3>2. CASE data = input
      BY <2>1, <3>2 DEF Prefix
    <3>3. CASE pc = "decompress" /\ stream # <<>>
      BY <3>3 DEF IInv, ReliableInv, Reached
    <3>4. CASE pc \in {"idle", "loop", "tail", "sent"}
      <4>1. data = <<>>
        BY <3>4 DEF IInv, SinkInv
      <4> QED
        BY <3>1, <4>1
    <3>5. CASE pc = "decompress" /\ stream = <<>>
      <4>1. data = <<>>
        BY <2>1, <3>5 DEF IInv, SinkInv
      <4> QED
        BY <3>1, <4>1
    <3>6. CASE pc \in {"done", "error", "returned"}
      <4>1. data = input \/ data = <<>>
        BY <3>6 DEF IInv, ReliableInv
      <4> QED
        BY <3>1, <3>2, <4>1
    <3> QED
      BY <3>3, <3>4, <3>5, <3>6 DEF IInv, EngineInv
  <2>3. ASSUME NEW k \in DOMAIN data PROVE k <= Size /\ data[k] = input[k]
    <3>1. k \in 1 .. Len(data) /\ Len(data) \in Nat
      BY <2>1
    <3> QED
      BY <2>1, <2>2, <3>1 DEF Prefix
  <2>4. /\ pc = "done" => data = input /\ read = Len(stream)
        /\ pc = "error" => stream = <<>>
    BY DEF IInv, ReliableInv
  <2> QED
    BY <2>3, <2>4
<1> QED
  BY <1>1, Inductive, PTL

\* The compressors stay inside the result buffer for chunks of any size: what
\* getCompressBound() promises is enough for FastLZ, and LZF never gives up with
\* that much room.
THEOREM BoundSuffices == Spec => []FitsBound
<1>1. IInv => FitsBound
  <2> SUFFICES ASSUME IInv
               PROVE  /\ engine["sender"] = "LZF" =>
                           /\ Used <= room
                           /\ (pc = "sent" /\ Size > 0 /\ room >= Enough(Size)) => out # <<>>
                      /\ engine["sender"] = "FastLZ" => Len(out) <= Enough(Size)
    BY DEF FitsBound
  <2>1. engine["sender"] = "LZF" => Used <= room
    BY DEF IInv, RoomInv
  <2>2. ASSUME engine["sender"] = "LZF", pc = "sent", Size > 0, room >= Enough(Size)
        PROVE  out # <<>>
    BY <2>2 DEF IInv, WrittenInv
  <2>3. ASSUME engine["sender"] = "FastLZ" PROVE Len(out) <= Enough(Size)
    <3>1. CASE pc = "idle"
      <4> DEFINE q == Size \div Highs
      <4>1. out = <<>> /\ Size \in Nat
        BY <3>1, InputType DEF IInv, SourceInv
      <4>2. q \in Nat
        BY <4>1, Sizes, Quotients
      <4>3. Enough(Size) = Size + q + 4
        BY DEF Enough
      <4> HIDE DEF q
      <4>4. Enough(Size) >= 0
        BY <4>1, <4>2, <4>3
      <4> QED
        BY <4>1, <4>4
    <3>2. CASE pc \in {"loop", "tail"}
      <4> DEFINE q == Size \div Highs
      <4>1. /\ q \in Nat /\ Size \in Nat /\ Len(out) \in Nat /\ ip \in Nat /\ ip <= Size
            /\ Len(out) <= ip + q + 1 /\ Enough(Size) = Size + q + 4
        BY <3>2, CoderBound
      <4> HIDE DEF q
      <4> DEFINE n == Size
                 o == Len(out)
                 e == Enough(Size)
      <4>2. q \in Nat /\ n \in Nat /\ o \in Nat /\ ip \in Nat /\ ip <= n /\ o <= ip + q + 1 /\ e = n + q + 4
        BY <4>1
      <4> HIDE DEF n, o, e
      <4>3. o <= e
        BY <4>2
      <4> QED
        BY <4>3 DEF o, e
    <3>3. CASE pc \notin {"idle", "loop", "tail"}
      BY <2>3, <3>3 DEF IInv, WrittenInv
    <3> QED
      BY <3>1, <3>2, <3>3
  <2> QED
    BY <2>1, <2>2, <2>3
<1> QED
  BY <1>1, Inductive, PTL

\* Whatever bytes arrive, no decompressor writes behind the output, and that of
\* liblzf reads nothing behind the stream.
THEOREM OutputContained == Spec => []Contained
<1>1. IInv => Contained
  BY DEF IInv, SinkInv, Contained
<1> QED
  BY <1>1, Inductive, PTL

\* For any set of engines, ratings and orders of static initialisation both
\* processes recommend the same engine, and no other is better.
THEOREM SameEngine == Spec => []AgreedEngine
<1>1. ASSUME IInv, NEW side \in Sides
      PROVE  /\ Choose(infos[side]) \in {NoName} \cup Names
             /\ Choose(infos[side]) # NoName => Rating[Choose(infos[side])] > NoRating
             /\ \A name \in Names : RatingOf(Choose(infos[side])) >= RatingOf(name)
  <2> DEFINE order == infos[side]
  <2>1. order \in Seq(Names) /\ Range(order) = Names
    BY <1>1, ListType DEF IInv
  <2> HIDE DEF order
  <2>2. Leads(order, Len(order), Choose(order))
    BY <2>1, ChosenBest
  <2>3. ASSUME NEW name \in Names PROVE RatingOf(Choose(order)) >= RatingOf(name)
    <3>1. PICK i \in DOMAIN order : order[i] = name
      BY <2>1 DEF Range
    <3>2. i \in 1 .. Len(order)
      BY <2>1, <3>1
    <3>3. RatingOf(name) = Rating[name]
      BY DataEnginesAssumption DEF RatingOf
    <3> QED
      BY <2>2, <3>1, <3>2, <3>3 DEF Leads
  <2>4. /\ Choose(order) \in {NoName} \cup Names
        /\ Choose(order) # NoName => Rating[Choose(order)] > NoRating
    BY <2>2 DEF Leads
  <2> QED
    BY <2>3, <2>4 DEF order
<1>2. ASSUME IInv
      PROVE  Choose(infos["sender"]) = Choose(infos["receiver"])
  <2> DEFINE s == Choose(infos["sender"])
             r == Choose(infos["receiver"])
  <2>1. /\ s \in {NoName} \cup Names /\ (s # NoName => Rating[s] > NoRating)
        /\ \A name \in Names : RatingOf(s) >= RatingOf(name)
    BY <1>1, <1>2 DEF Sides
  <2>2. /\ r \in {NoName} \cup Names /\ (r # NoName => Rating[r] > NoRating)
        /\ \A name \in Names : RatingOf(r) >= RatingOf(name)
    BY <1>1, <1>2 DEF Sides
  <2>3. NoRating \in Int /\ \A name \in Names : RatingOf(name) = Rating[name] /\ Rating[name] \in Int
    BY DataEnginesAssumption DEF RatingOf
  <2>4. \A m, n \in Names : Rating[m] = Rating[n] => m = n
    BY DataEnginesAssumption
  <2>5. RatingOf(NoName) = NoRating
    BY DEF RatingOf
  <2> HIDE DEF s, r
  <2>6. s = r
    <3>1. ~(s = NoName /\ r # NoName) /\ ~(s # NoName /\ r = NoName)
      BY <2>1, <2>2, <2>3, <2>5
    <3>2. CASE s # NoName /\ r # NoName
      <4>1. s \in Names /\ r \in Names
        BY <2>1, <2>2, <3>2
      <4>2. Rating[s] >= Rating[r] /\ Rating[r] >= Rating[s]
        BY <2>1, <2>2, <2>3, <4>1
      <4>3. Rating[s] = Rating[r]
        BY <2>3, <4>1, <4>2
      <4> QED
        BY <2>4, <4>1, <4>3
    <3> QED
      BY <3>1, <3>2
  <2> QED
    BY <2>6 DEF s, r
<1>3. IInv => AgreedEngine
  BY <1>1, <1>2 DEF AgreedEngine, IInv, EngineInv
<1> QED
  BY <1>3, Inductive, PTL

\* An engine keeps the promise of a compressor: what is not a step of the
\* promise leaves its state as it is. The chunk that is called for is restored
\* in one piece, and nothing is missing when decompressChunk() returns.
THEOREM ImplementsCodec == Spec => Promise!Init /\ [][Promise!Next]_(Promise!vars)
<1> DEFINE src == IF Promised THEN <<input>> ELSE <<>>
           res == IF Promised /\ pc \in {"done", "error", "returned"} THEN <<data>> ELSE <<>>
           ret == ~Promised \/ pc = "returned"
<1>1. ASSUME Init
      PROVE  Promise!Init
  <2>1. pc = "idle"
    BY <1>1 DEF Init
  <2>2. ~Promised
    BY <2>1 DEF Promised
  <2>3. src = <<>> /\ res = <<>> /\ ret
    BY <2>2
  <2>4. DOMAIN src \ DOMAIN res = {}
    BY <2>3
  <2> HIDE DEF src, res, ret
  <2>5. src \in {<<>>} \cup {<<chunk>> : chunk \in Inputs} /\ ret \in BOOLEAN
    BY <2>3 DEF ret
  <2> QED
    BY <2>3, <2>4, <2>5 DEF src, res, ret, Promise!Init, Promise!Missing
<1>2. ASSUME IInv, UNCHANGED <<infos, engine, transport, input, room>>, pc # "idle", pc' # "idle"
      PROVE  Promised' = Promised
  <2>1. Size' = Size /\ Enough(Size)' = Enough(Size)
    BY <1>2 DEF Size, Enough
  <2> QED
    BY <1>2, <2>1 DEF Promised
<1>3. ASSUME ~Promised, ~Promised' PROVE UNCHANGED Promise!vars
  <2>1. src = <<>> /\ src' = <<>> /\ res = <<>> /\ res' = <<>> /\ ret = TRUE /\ ret' = TRUE
    BY <1>3
  <2> HIDE DEF src, res, ret
  <2>2. src' = src /\ res' = res /\ ret' = ret
    BY <2>1
  <2> QED
    BY <2>2 DEF src, res, ret, Promise!vars
<1>4. ASSUME IInv, pc = "idle", pc' = "idle"
      PROVE  UNCHANGED Promise!vars
  BY <1>3, <1>4 DEF Promised
<1>5. ASSUME IInv, Begin, UNCHANGED registries
      PROVE  [Promise!Next]_(Promise!vars)
  <2>1. pc = "idle" /\ ~Promised
    BY <1>5 DEF Begin, Promised
  <2>2. input' \in Inputs
    BY <1>5 DEF Begin, Lzf!Begin, Fast!Begin
  <2>3. IInv'
    BY <1>5, BeginStep
  <2>4. pc' \in {"loop", "sent"}
    BY <1>5 DEF Begin, Lzf!Begin, Fast!Begin
  <2>5. CASE ~Promised'
    BY <1>3, <2>1, <2>5
  <2>6. CASE Promised'
    <3>1. ret = TRUE /\ ret' = FALSE /\ res' = <<>> /\ src' = <<input'>>
      BY <2>1, <2>4, <2>6
    <3> HIDE DEF src, res, ret
    <3>2. src' \in {<<>>} \cup {<<chunk>> : chunk \in Inputs}
      BY <2>2, <3>1
    <3> QED
      BY <3>1, <3>2 DEF src, res, ret, Promise!Next, Promise!Call
  <2> QED
    BY <2>5, <2>6
<1>6. ASSUME IInv, Compress \/ Transfer, UNCHANGED registries
      PROVE  UNCHANGED Promise!vars
  <2>1. /\ pc \in {"loop", "tail", "sent"} /\ pc' \in {"loop", "tail", "sent", "decompress"}
        /\ UNCHANGED <<infos, engine, transport, input, room, data>>
    <3>1. CASE Compress
      BY <1>6, <3>1, CompressFrame DEF registries
    <3>2. CASE Transfer
      BY <1>6, <3>2 DEF Transfer, Arrive, source, registries
    <3> QED
      BY <1>6, <3>1, <3>2
  <2>2. Promised' = Promised
    BY <1>2, <1>6, <2>1
  <2>3. src' = src /\ res' = res /\ ret' = ret
    BY <2>1, <2>2
  <2> HIDE DEF src, res, ret
  <2> QED
    BY <2>3 DEF src, res, ret, Promise!vars
<1>7. ASSUME IInv, Decompress, UNCHANGED registries
      PROVE  [Promise!Next]_(Promise!vars)
  <2>1. /\ pc = "decompress" /\ pc' \in {"decompress", "done", "error"}
        /\ UNCHANGED <<infos, engine, transport, input, room>>
    BY <1>7, DecompressMoves DEF registries
  <2>2. Promised' = Promised
    BY <1>2, <1>7, <2>1
  <2>3. CASE ~Promised
    BY <1>3, <2>2, <2>3
  <2>4. CASE Promised /\ pc' = "decompress"
    <3>1. src' = src /\ res' = res /\ ret' = ret
      BY <2>1, <2>2, <2>4
    <3> HIDE DEF src, res, ret
    <3> QED
      BY <3>1 DEF src, res, ret, Promise!vars
  <2>5. CASE Promised /\ pc' \in {"done", "error"}
    <3>1. IInv'
      BY <1>7, DecompressStep
    <3>2. data' = input
      <4>1. CASE pc' = "done"
        BY <2>1, <2>2, <2>5, <3>1, <4>1 DEF IInv, ReliableInv, Promised
      <4>2. CASE pc' = "error"
        <5>1. /\ transport' = "reliable" /\ stream' = out' /\ stream' = <<>> /\ data' = <<>>
          BY <2>1, <2>5, <3>1, <4>2 DEF IInv, ReliableInv, Promised
        <5>2. out = <<>>
          BY <1>7, <5>1, DecompressMoves
        <5>3. engine["sender"] \in {"LZF", "FastLZ"}
          BY <1>7, <2>1 DEF IInv, EngineInv
        <5>4. input = <<>>
          <6>1. CASE engine["sender"] = "FastLZ"
            BY <1>7, <2>1, <5>2, <6>1 DEF IInv, WrittenInv
          <6>2. CASE engine["sender"] = "LZF"
            <7>1. ~(Size > 0)
              BY <1>7, <2>1, <2>5, <5>2, <6>2 DEF IInv, WrittenInv, Promised
            <7>2. input \in Seq(Byte) /\ Size \in Nat /\ Size = Len(input)
              BY <1>7, InputType DEF IInv
            <7>3. Len(input) = 0
              BY <7>1, <7>2
            <7> QED
              BY <7>2, <7>3, EmptySeq
          <6> QED
            BY <5>3, <6>1, <6>2
        <5> QED
          BY <5>1, <5>4
      <4> QED
        BY <2>5, <4>1, <4>2
    <3>3. /\ src = <<input>> /\ src' = <<input>> /\ res = <<>> /\ res' = <<input>>
          /\ ret = FALSE /\ ret' = FALSE
      BY <2>1, <2>2, <2>5, <3>2
    <3> HIDE DEF src, res, ret
    <3>4. DOMAIN src = {1} /\ DOMAIN res = {} /\ src[1] = input
      BY <3>3
    <3>5. res' = [k \in {1} |-> src[k]]
      BY <3>3, <3>4
    <3>6. res' = [k \in DOMAIN res \cup {1} |-> src[k]]
      BY <3>4, <3>5
    <3>7. {1} \in SUBSET (DOMAIN src \ DOMAIN res) /\ {1} # {}
      BY <3>4
    <3>8. \E places \in SUBSET (DOMAIN src \ DOMAIN res) :
            places # {} /\ res' = [k \in DOMAIN res \cup places |-> src[k]]
      BY <3>6, <3>7
    <3> QED
      BY <3>3, <3>8 DEF src, res, ret, Promise!Next, Promise!Restore, Promise!Missing
  <2> QED
    BY <2>1, <2>3, <2>4, <2>5
<1>8. ASSUME IInv, Return, UNCHANGED registries
      PROVE  [Promise!Next]_(Promise!vars)
  <2>1. /\ pc \in {"done", "error"} /\ pc' = "returned"
        /\ UNCHANGED <<infos, engine, transport, input, room, data>>
    BY <1>8 DEF Return, source, sink, registries
  <2>2. Promised' = Promised
    BY <1>2, <1>8, <2>1
  <2>3. CASE ~Promised
    BY <1>3, <2>2, <2>3
  <2>4. CASE Promised
    <3>1. src = <<input>> /\ src' = src /\ res = <<data>> /\ res' = res /\ ret = FALSE /\ ret' = TRUE
      BY <2>1, <2>2, <2>4
    <3> HIDE DEF src, res, ret
    <3>2. DOMAIN src \ DOMAIN res = {}
      BY <3>1
    <3> QED
      BY <3>1, <3>2 DEF src, res, ret, Promise!Next, Promise!Return, Promise!Missing
  <2> QED
    BY <2>3, <2>4
<1>9. ASSUME IInv, UNCHANGED vars
      PROVE  UNCHANGED Promise!vars
  <2>1. UNCHANGED <<pc, infos, engine, transport, input, room, data>>
    BY <1>9 DEF vars, source, sink, registries
  <2>2. Size' = Size /\ Enough(Size)' = Enough(Size)
    BY <2>1 DEF Size, Enough
  <2>3. Promised' = Promised
    BY <2>1, <2>2 DEF Promised
  <2>4. src' = src /\ res' = res /\ ret' = ret
    BY <2>1, <2>3
  <2> HIDE DEF src, res, ret
  <2> QED
    BY <2>4 DEF src, res, ret, Promise!vars
<1>10. ASSUME IInv, CreateSender \/ CreateReceiver
       PROVE  UNCHANGED Promise!vars
  <2>1. pc = "idle" /\ pc' = "idle"
    <3>1. CASE CreateSender
      BY <1>10, <3>1 DEF CreateSender, IInv, EngineInv, NoName
    <3>2. CASE CreateReceiver
      BY <1>10, <3>2 DEF CreateReceiver, IInv, EngineInv
    <3> QED
      BY <1>10, <3>1, <3>2
  <2> QED
    BY <1>4, <1>10, <2>1
<1>11. IInv /\ [Next]_vars => [Promise!Next]_(Promise!vars)
  <2> SUFFICES ASSUME IInv, [Next]_vars PROVE [Promise!Next]_(Promise!vars)
    OBVIOUS
  <2>1. CASE UNCHANGED vars \/ Stopped
    <3>1. UNCHANGED vars
      BY <2>1 DEF Stopped
    <3> QED
      BY <1>9, <3>1
  <2>2. CASE CreateSender \/ CreateReceiver
    BY <1>10, <2>2
  <2>3. CASE Begin /\ UNCHANGED registries
    BY <1>5, <2>3
  <2>4. CASE (Compress \/ Transfer) /\ UNCHANGED registries
    BY <1>6, <2>4
  <2>5. CASE Decompress /\ UNCHANGED registries
    BY <1>7, <2>5
  <2>6. CASE Return /\ UNCHANGED registries
    BY <1>8, <2>6
  <2> QED
    BY <2>1, <2>2, <2>3, <2>4, <2>5, <2>6 DEF Next, Run
<1> QED
  BY <1>1, <1>11, Inductive, PTL DEF Spec
================================================================================
