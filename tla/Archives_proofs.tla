------------------------------ MODULE Archives_proofs ------------------------------
(****************************************************************************)
(* Proofs about Archives for any values of a byte, contents, sizes of blocks *)
(* and faults.                                                               *)
(*                                                                           *)
(* An archive is the file block by block.  The inductive invariant says how  *)
(* many blocks the running tool has written or read, and between two runs    *)
(* how much of the archive and of the restored file there is.                *)
(****************************************************************************)
EXTENDS Archives, SequenceTheorems, WellFoundedInduction, TLAPS

------------------------------------------------------------------------------
(* Sequences *)

\* A set of natural numbers that is not empty has a least one.
LEMMA LeastOne ==
  ASSUME NEW S \in SUBSET Nat, S # {}
  PROVE  \E x \in S : \A y \in S : x <= y
<1> DEFINE R == {ss \in Nat \X Nat : ss[1] < ss[2]}
<1>1. IsWellFoundedOn(R, Nat)
  BY NatLessThanWellFounded, Zenon DEF OpToRel
<1> HIDE DEF R
<1>2. PICK x \in S : \A y \in S : ~(<<y, x>> \in R)
  BY <1>1, WFMin
<1>3. ASSUME NEW y \in S PROVE x <= y
  <2>1. <<y, x>> \in Nat \X Nat /\ <<y, x>>[1] = y /\ <<y, x>>[2] = x
    OBVIOUS
  <2>2. ~(y < x)
    BY <1>2, <2>1 DEF R
  <2> QED
    BY <2>2
<1> QED
  BY <1>3

\* What is so for a number, and one later whenever it is so, is so for all.
LEMMA Climb ==
  ASSUME NEW first \in Nat, NEW last \in Nat, first <= last, NEW T, first \in T,
         \A n \in first .. last - 1 : n \in T => n + 1 \in T
  PROVE  last \in T
<1> DEFINE missing == {n \in first .. last : n \notin T}
<1> SUFFICES ASSUME missing # {} PROVE FALSE
  <2>1. last \in first .. last
    OBVIOUS
  <2> QED
    BY <2>1
<1>1. PICK m \in missing : \A n \in missing : m <= n
  <2>1. missing \in SUBSET Nat
    OBVIOUS
  <2> HIDE DEF missing
  <2> QED
    BY <2>1, LeastOne
<1>2. m \in first .. last /\ m # first /\ m \notin T
  OBVIOUS
<1>3. m - 1 \in first .. last - 1 /\ ~(m <= m - 1) /\ (m - 1) + 1 = m
  BY <1>2
<1>4. m - 1 \notin missing /\ m - 1 \in first .. last
  BY <1>1, <1>2, <1>3
<1>5. m - 1 \in T
  BY <1>4
<1> QED
  BY <1>2, <1>3, <1>5

\* What concatenation does, in terms of places.
LEMMA Joined ==
  ASSUME NEW S, NEW s \in Seq(S), NEW t \in Seq(S)
  PROVE  /\ s \o t \in Seq(S) /\ Len(s) \in Nat /\ Len(t) \in Nat
         /\ Len(s \o t) = Len(s) + Len(t)
         /\ \A i \in 1 .. Len(s) : (s \o t)[i] = s[i]
         /\ \A i \in 1 .. Len(t) : (s \o t)[Len(s) + i] = t[i]
<1>1. s \o t \in Seq(S) /\ Len(s \o t) = Len(s) + Len(t) /\ Len(s) \in Nat /\ Len(t) \in Nat
  BY ConcatProperties, LenProperties
<1>2. \A i \in 1 .. Len(s) + Len(t) :
        (s \o t)[i] = IF i <= Len(s) THEN s[i] ELSE t[i - Len(s)]
  BY ConcatProperties
<1>3. ASSUME NEW i \in 1 .. Len(t) PROVE (s \o t)[Len(s) + i] = t[i]
  <2>1. /\ Len(s) + i \in 1 .. Len(s) + Len(t) /\ ~(Len(s) + i <= Len(s))
        /\ (Len(s) + i) - Len(s) = i
    BY <1>1
  <2> QED
    BY <1>2, <2>1
<1> QED
  BY <1>1, <1>2, <1>3

\* The part of a sequence behind place m up to place n.
LEMMA Part ==
  ASSUME NEW S, NEW s \in Seq(S), NEW m \in Nat, NEW n \in Int, n <= Len(s)
  PROVE  /\ SubSeq(s, m + 1, n) \in Seq(S)
         /\ Len(SubSeq(s, m + 1, n)) = IF m <= n THEN n - m ELSE 0
         /\ \A i \in 1 .. n - m : SubSeq(s, m + 1, n)[i] = s[m + i]
<1>1. Len(s) \in Nat /\ m + 1 \in Int
  BY LenProperties
<1>2. \A i \in m + 1 .. n : s[i] \in S
  <2>1. ASSUME NEW i \in m + 1 .. n PROVE i \in 1 .. Len(s)
    BY <1>1
  <2> QED
    BY <2>1, ElementOfSeq
<1>3. /\ SubSeq(s, m + 1, n) \in Seq(S)
      /\ Len(SubSeq(s, m + 1, n)) = IF m + 1 <= n THEN n - (m + 1) + 1 ELSE 0
      /\ \A i \in 1 .. n - (m + 1) + 1 : SubSeq(s, m + 1, n)[i] = s[(m + 1) + i - 1]
  BY <1>1, <1>2, SubSeqProperties
<1>4. ASSUME NEW i \in 1 .. n - m
      PROVE  i \in 1 .. n - (m + 1) + 1 /\ (m + 1) + i - 1 = m + i
  BY <1>1
<1>5. (IF m + 1 <= n THEN n - (m + 1) + 1 ELSE 0) = IF m <= n THEN n - m ELSE 0
  BY <1>1
<1> QED
  BY <1>3, <1>4, <1>5

\* What a prefix is, in terms of places.
LEMMA Prefix ==
  ASSUME NEW S, NEW s \in Seq(S), NEW t \in Seq(S)
  PROVE  IsPrefix(s, t) <=> Len(s) <= Len(t) /\ \A i \in 1 .. Len(s) : s[i] = t[i]
<1>1. Len(s) \in Nat /\ Len(t) \in Nat
  BY LenProperties
<1>2. SubSeq(s, 1, Len(s)) = s
  BY SubSeqFull
<1>3. Len(s) <= Len(t) =>
        /\ SubSeq(t, 1, Len(s)) \in Seq(S) /\ Len(SubSeq(t, 1, Len(s))) = Len(s)
        /\ \A i \in 1 .. Len(s) : SubSeq(t, 1, Len(s))[i] = t[i]
  <2> SUFFICES ASSUME Len(s) <= Len(t)
               PROVE  /\ SubSeq(t, 1, Len(s)) \in Seq(S) /\ Len(SubSeq(t, 1, Len(s))) = Len(s)
                      /\ \A i \in 1 .. Len(s) : SubSeq(t, 1, Len(s))[i] = t[i]
    OBVIOUS
  <2>1. /\ SubSeq(t, 0 + 1, Len(s)) \in Seq(S)
        /\ Len(SubSeq(t, 0 + 1, Len(s))) = IF 0 <= Len(s) THEN Len(s) - 0 ELSE 0
        /\ \A i \in 1 .. Len(s) - 0 : SubSeq(t, 0 + 1, Len(s))[i] = t[0 + i]
    BY <1>1, Part
  <2>2. ASSUME NEW i \in 1 .. Len(s) PROVE 0 + i = i /\ i \in 1 .. Len(s) - 0
    BY <1>1
  <2> QED
    BY <1>1, <2>1, <2>2
<1>4. Len(s) <= Len(t) => (s = SubSeq(t, 1, Len(s)) <=> \A i \in 1 .. Len(s) : s[i] = t[i])
  <2> SUFFICES ASSUME Len(s) <= Len(t), \A i \in 1 .. Len(s) : s[i] = t[i]
               PROVE  s = SubSeq(t, 1, Len(s))
    BY <1>3
  <2>1. \A i \in 1 .. Len(s) : s[i] = SubSeq(t, 1, Len(s))[i]
    BY <1>3
  <2> QED
    BY <1>3, <2>1, SeqEqual
<1> QED
  BY <1>2, <1>4 DEF IsPrefix

\* What a read returns.
LEMMA Reads ==
  ASSUME NEW S, NEW bytes \in Seq(S), NEW behind \in Nat, NEW n \in Nat
  PROVE  /\ Read(bytes, behind, n) \in Seq(S)
         /\ Len(Read(bytes, behind, n)) =
              IF behind + n <= Len(bytes) THEN n
              ELSE IF behind <= Len(bytes) THEN Len(bytes) - behind ELSE 0
         /\ \A i \in 1 .. Len(Read(bytes, behind, n)) :
              /\ Read(bytes, behind, n)[i] = bytes[behind + i]
              /\ behind + i \in 1 .. Len(bytes)
<1> DEFINE last == IF behind + n <= Len(bytes) THEN behind + n ELSE Len(bytes)
<1>1. Len(bytes) \in Nat
  BY LenProperties
<1>2. last \in Nat /\ last <= Len(bytes)
  BY <1>1
<1>3. /\ SubSeq(bytes, behind + 1, last) \in Seq(S)
      /\ Len(SubSeq(bytes, behind + 1, last)) = IF behind <= last THEN last - behind ELSE 0
      /\ \A i \in 1 .. last - behind : SubSeq(bytes, behind + 1, last)[i] = bytes[behind + i]
  BY <1>2, Part
<1>4. Read(bytes, behind, n) = SubSeq(bytes, behind + 1, last)
  BY DEF Read
<1>5. (IF behind <= last THEN last - behind ELSE 0) =
        IF behind + n <= Len(bytes) THEN n
        ELSE IF behind <= Len(bytes) THEN Len(bytes) - behind ELSE 0
  BY <1>1
<1>6. ASSUME NEW i \in 1 .. IF behind <= last THEN last - behind ELSE 0
      PROVE  i \in 1 .. last - behind /\ behind + i \in 1 .. Len(bytes)
  BY <1>1
<1> HIDE DEF last
<1> QED
  BY <1>3, <1>4, <1>5, <1>6

------------------------------------------------------------------------------
(* Blocks *)

\* How much of a file there is in its first k blocks of n bytes, how many blocks
\* it has, and the k-th one.
Behind(s, n, k) == IF k * n > Len(s) THEN Len(s) ELSE k * n
Count(s, n)     == (Len(s) + n - 1) \div n
Piece(s, n, k)  == Read(s, Behind(s, n, k - 1), n)

\* Each block begins in the file, and the last one ends there.
LEMMA Blocking ==
  ASSUME NEW S, NEW s \in Seq(S), NEW n \in Nat \ {0}
  PROVE  /\ Count(s, n) \in Nat /\ Len(s) \in Nat
         /\ Behind(s, n, 0) = 0 /\ Behind(s, n, Count(s, n)) = Len(s)
         /\ \A k \in 0 .. Count(s, n) :
              /\ Behind(s, n, k) \in 0 .. Len(s)
              /\ k > 0 => /\ Behind(s, n, k - 1) = (k - 1) * n
                          /\ Behind(s, n, k - 1) < Len(s)
                          /\ Behind(s, n, k) = IF Behind(s, n, k - 1) + n <= Len(s)
                                               THEN Behind(s, n, k - 1) + n ELSE Len(s)
<1> DEFINE L == Len(s)
           c == Count(s, n)
           r == (L + n - 1) % n
<1>1. L \in Nat
  BY LenProperties
<1>2. c \in Nat /\ r \in 0 .. n - 1 /\ L + n - 1 = c * n + r /\ c * n \in Nat
  <2>1. L + n - 1 \in Nat
    BY <1>1
  <2>2. /\ (L + n - 1) \div n \in Nat /\ (L + n - 1) % n \in 0 .. n - 1
        /\ L + n - 1 = ((L + n - 1) \div n) * n + ((L + n - 1) % n)
    BY <2>1
  <2>3. ((L + n - 1) \div n) * n \in Nat
    BY <2>2
  <2> QED
    BY <2>2, <2>3 DEF Count
<1>3. Behind(s, n, 0) = 0
  BY <1>1 DEF Behind
<1> HIDE DEF c, r
<1>4. Behind(s, n, c) = L
  <2>1. c * n >= L
    BY <1>1, <1>2
  <2> QED
    BY <1>1, <1>2, <2>1 DEF Behind
<1>5. ASSUME NEW k \in 1 .. c
      PROVE  /\ k \in Nat \ {0} /\ (k - 1) * n \in Nat /\ k * n = (k - 1) * n + n
             /\ (k - 1) * n < L
  <2>1. k - 1 \in Nat /\ k = (k - 1) + 1
    BY <1>2
  <2>2. PICK d \in Nat : c = k + d
    <3>1. c - k \in Nat /\ c = k + (c - k)
      BY <1>2
    <3> QED
      BY <3>1
  <2>3. (k - 1) * n \in Nat /\ k * n = (k - 1) * n + n
    BY <2>1
  <2>4. c * n = k * n + d * n /\ d * n \in Nat
    BY <2>1, <2>2
  <2> QED
    BY <1>1, <1>2, <2>1, <2>3, <2>4
<1>6. ASSUME NEW k \in 1 .. c
      PROVE  /\ Behind(s, n, k) \in 0 .. L
             /\ Behind(s, n, k - 1) = (k - 1) * n
             /\ Behind(s, n, k - 1) < L
             /\ Behind(s, n, k) = IF Behind(s, n, k - 1) + n <= L
                                  THEN Behind(s, n, k - 1) + n ELSE L
  <2>1. Behind(s, n, k - 1) = (k - 1) * n
    BY <1>1, <1>5 DEF Behind
  <2> QED
    BY <1>1, <1>5, <2>1 DEF Behind
<1>7. ASSUME NEW k \in 0 .. c PROVE k = 0 \/ k \in 1 .. c
  BY <1>2
<1>8. c = Count(s, n)
  BY DEF c
<1> QED
  BY <1>1, <1>2, <1>3, <1>4, <1>6, <1>7, <1>8

\* The block at place k, and that there is none behind the last one.
LEMMA PieceIs ==
  ASSUME NEW S, NEW s \in Seq(S), NEW n \in Nat \ {0}
  PROVE  /\ \A k \in 1 .. Count(s, n) :
              /\ Piece(s, n, k) \in Seq(S) /\ Len(Piece(s, n, k)) \in 1 .. n
              /\ Behind(s, n, k) = Behind(s, n, k - 1) + Len(Piece(s, n, k))
              /\ \A i \in 1 .. Len(Piece(s, n, k)) :
                   Piece(s, n, k)[i] = s[Behind(s, n, k - 1) + i]
         /\ Read(s, Len(s), n) = <<>>
<1>1. Count(s, n) \in Nat /\ Len(s) \in Nat
  BY Blocking
<1>2. ASSUME NEW k \in 1 .. Count(s, n)
      PROVE  /\ Piece(s, n, k) \in Seq(S) /\ Len(Piece(s, n, k)) \in 1 .. n
             /\ Behind(s, n, k) = Behind(s, n, k - 1) + Len(Piece(s, n, k))
             /\ \A i \in 1 .. Len(Piece(s, n, k)) :
                  Piece(s, n, k)[i] = s[Behind(s, n, k - 1) + i]
  <2>1. k \in 0 .. Count(s, n) /\ k > 0 /\ k - 1 \in 0 .. Count(s, n)
    BY <1>1
  <2>2. /\ Behind(s, n, k - 1) \in Nat /\ Behind(s, n, k - 1) < Len(s)
        /\ Behind(s, n, k) = IF Behind(s, n, k - 1) + n <= Len(s)
                             THEN Behind(s, n, k - 1) + n ELSE Len(s)
    BY <1>1, <2>1, Blocking
  <2> DEFINE b == Behind(s, n, k - 1)
  <2>3. /\ b \in Nat /\ b < Len(s) /\ n \in Nat
        /\ Behind(s, n, k) = IF b + n <= Len(s) THEN b + n ELSE Len(s)
        /\ Piece(s, n, k) = Read(s, b, n)
    BY <2>2 DEF Piece
  <2> HIDE DEF b
  <2>4. /\ Read(s, b, n) \in Seq(S)
        /\ Len(Read(s, b, n)) = IF b + n <= Len(s) THEN n
                                ELSE IF b <= Len(s) THEN Len(s) - b ELSE 0
        /\ \A i \in 1 .. Len(Read(s, b, n)) :
             Read(s, b, n)[i] = s[b + i] /\ b + i \in 1 .. Len(s)
    BY <2>3, Reads, Zenon
  <2>5. /\ Len(Read(s, b, n)) \in 1 .. n
        /\ Behind(s, n, k) = b + Len(Read(s, b, n))
    BY <1>1, <2>3, <2>4
  <2> QED
    BY <2>3, <2>4, <2>5 DEF b
<1>3. Read(s, Len(s), n) = <<>>
  <2>1. Read(s, Len(s), n) \in Seq(S) /\ Len(Read(s, Len(s), n)) = 0
    BY <1>1, Reads
  <2> QED
    BY <2>1, EmptySeq
<1> QED
  BY <1>2, <1>3

\* The first blocks with the next one are one block more.
LEMMA OneMore ==
  ASSUME NEW S, NEW s \in Seq(S), NEW n \in Nat \ {0}, NEW k \in 1 .. Count(s, n)
  PROVE  SubSeq(s, 1, Behind(s, n, k - 1)) \o Piece(s, n, k) = SubSeq(s, 1, Behind(s, n, k))
<1> DEFINE b == Behind(s, n, k - 1)
           e == Behind(s, n, k)
<1>1. Len(s) \in Nat /\ b \in 0 .. Len(s) /\ b < Len(s) /\ e = IF b + n <= Len(s) THEN b + n ELSE Len(s)
  <2>1. Count(s, n) \in Nat
    BY Blocking
  <2>2. k \in 0 .. Count(s, n) /\ k > 0 /\ k - 1 \in 0 .. Count(s, n)
    BY <2>1
  <2> QED
    BY <2>2, Blocking
<1>2. Piece(s, n, k) = SubSeq(s, b + 1, e)
  BY <1>1 DEF Piece, Read
<1> HIDE DEF b, e
<1>3. 1 \in 1 .. Len(s) + 1 /\ b \in 1 - 1 .. Len(s) /\ e \in b .. Len(s)
  BY <1>1
<1>4. SubSeq(s, 1, b) \o SubSeq(s, b + 1, e) = SubSeq(s, 1, e)
  BY <1>3, ConcatAdjacentSubSeq
<1> QED
  BY <1>2, <1>4 DEF b, e

\* The first blocks with a part of the next one.
LEMMA PartMore ==
  ASSUME NEW s \in Seq(Byte), NEW n \in Nat \ {0}, NEW k \in 1 .. Count(s, n),
         NEW m \in 0 .. Len(Piece(s, n, k))
  PROVE  /\ SubSeq(s, 1, Behind(s, n, k - 1)) \o SubSeq(Piece(s, n, k), 1, m) =
              SubSeq(s, 1, Behind(s, n, k - 1) + m)
         /\ Behind(s, n, k - 1) + m \in 0 .. Len(s)
<1> DEFINE b == Behind(s, n, k - 1)
           piece == Piece(s, n, k)
           e == b + m
<1>1. /\ piece \in Seq(Byte) /\ Len(piece) \in Nat
      /\ Behind(s, n, k) = b + Len(piece)
      /\ \A i \in 1 .. Len(piece) : piece[i] = s[b + i]
  BY PieceIs
<1>2. b \in 0 .. Len(s) /\ Behind(s, n, k) \in 0 .. Len(s) /\ Len(s) \in Nat
  <2>1. Count(s, n) \in Nat
    BY Blocking
  <2>2. k \in 0 .. Count(s, n) /\ k - 1 \in 0 .. Count(s, n)
    BY <2>1
  <2> QED
    BY <2>2, Blocking
<1> HIDE DEF b, piece
<1>3. m \in Nat /\ m \in 0 .. Len(piece) /\ e \in 0 .. Len(s) /\ b \in Nat /\ e \in Int /\ m \in Int
  BY <1>1, <1>2 DEF piece
<1>4. /\ SubSeq(piece, 0 + 1, m) \in Seq(Byte)
      /\ Len(SubSeq(piece, 0 + 1, m)) = IF 0 <= m THEN m - 0 ELSE 0
      /\ \A i \in 1 .. m - 0 : SubSeq(piece, 0 + 1, m)[i] = piece[0 + i]
  <2>1. 0 \in Nat /\ m <= Len(piece)
    BY <1>3
  <2> QED
    BY <1>1, <1>3, <2>1, Part
<1>5. /\ SubSeq(s, b + 1, e) \in Seq(Byte)
      /\ Len(SubSeq(s, b + 1, e)) = IF b <= e THEN e - b ELSE 0
      /\ \A i \in 1 .. e - b : SubSeq(s, b + 1, e)[i] = s[b + i]
  <2>1. e <= Len(s)
    BY <1>2, <1>3
  <2> HIDE DEF e
  <2> QED
    BY <1>3, <2>1, Part
<1>6. SubSeq(piece, 1, m) = SubSeq(s, b + 1, e)
  <2> DEFINE u == SubSeq(piece, 1, m)
             v == SubSeq(s, b + 1, e)
  <2>1. /\ u \in Seq(Byte) /\ v \in Seq(Byte) /\ Len(u) = m /\ Len(v) = m
        /\ \A i \in 1 .. m : u[i] = piece[i] /\ v[i] = s[b + i]
    <3>1. 0 + 1 = 1 /\ m - 0 = m /\ e - b = m /\ b <= e
          /\ \A i \in 1 .. m : 0 + i = i
      BY <1>3
    <3> QED
      BY <1>3, <1>4, <1>5, <3>1
  <2> HIDE DEF u, v
  <2>2. ASSUME NEW i \in 1 .. Len(u) PROVE u[i] = v[i]
    <3>1. i \in 1 .. m /\ i \in 1 .. Len(piece)
      BY <1>1, <1>3, <2>1
    <3> QED
      BY <1>1, <2>1, <3>1
  <2>3. u = v
    BY <2>1, <2>2, SeqEqual
  <2> QED
    BY <2>3 DEF u, v
<1>7. SubSeq(s, 1, b) \o SubSeq(s, b + 1, e) = SubSeq(s, 1, e)
  <2>1. 1 \in 1 .. Len(s) + 1 /\ b \in 1 - 1 .. Len(s) /\ e \in b .. Len(s)
    BY <1>2, <1>3
  <2> HIDE DEF e
  <2> QED
    BY <2>1, ConcatAdjacentSubSeq
<1> QED
  BY <1>3, <1>6, <1>7 DEF b, piece

------------------------------------------------------------------------------
(* Archives of lzf *)

\* What quotient and remainder mean.
LEMMA Division ==
  ASSUME NEW n \in Nat, NEW c \in Nat \ {0}
  PROVE  /\ n \div c \in Nat /\ n % c \in 0 .. c - 1
         /\ n = (n \div c) * c + (n % c)
OBVIOUS

\* Two bytes hold the size of a block.
LEMMA ShortIs ==
  ASSUME NEW n \in 0 .. Base * Base - 1
  PROVE  /\ Lzf!Short(n) = <<n \div Base, n % Base>>
         /\ n \div Base \in Byte /\ n % Base \in Byte
         /\ (n \div Base) * Base + (n % Base) = n
<1>1. Base \in Nat \ {0}
  BY ArchiveAssumption
<1>2. n \in Nat /\ n < Base * Base /\ Base * Base \in Nat
  BY <1>1
<1>3. /\ n \div Base \in Nat /\ n % Base \in 0 .. Base - 1
      /\ n = (n \div Base) * Base + (n % Base)
  BY <1>1, <1>2, Division
<1>4. n \div Base < Base
  <2> DEFINE q == n \div Base
             r == n % Base
  <2>1. q \in Nat /\ r \in Nat /\ n = q * Base + r
    BY <1>1, <1>3
  <2> HIDE DEF q, r
  <2> SUFFICES ASSUME ~(q < Base) PROVE FALSE
    BY DEF q
  <2>2. PICK d \in Nat : q = Base + d
    <3>1. q - Base \in Nat /\ q = Base + (q - Base)
      BY <1>1, <2>1
    <3> QED
      BY <3>1
  <2>3. q * Base = Base * Base + d * Base /\ d * Base \in Nat
    BY <1>1, <2>2
  <2> QED
    BY <1>2, <2>1, <2>3
<1> QED
  BY <1>1, <1>3, <1>4 DEF Byte, Lzf!Short

\* The same for bytes.
LEMMA JoinedBytes ==
  ASSUME NEW s \in Seq(Byte), NEW t \in Seq(Byte)
  PROVE  /\ s \o t \in Seq(Byte) /\ Len(s) \in Nat /\ Len(t) \in Nat
         /\ Len(s \o t) = Len(s) + Len(t)
         /\ \A i \in 1 .. Len(s) : (s \o t)[i] = s[i]
         /\ \A i \in 1 .. Len(t) : (s \o t)[Len(s) + i] = t[i]
<1>1. s \o t \in Seq(Byte) /\ Len(s \o t) = Len(s) + Len(t) /\ Len(s) \in Nat /\ Len(t) \in Nat
  BY ConcatProperties, LenProperties
<1>2. /\ \A i \in 1 .. Len(s) : (s \o t)[i] = s[i]
      /\ \A i \in 1 .. Len(t) : (s \o t)[Len(s) + i] = t[i]
  BY Joined
<1> QED
  BY <1>1, <1>2

\* Three bytes, two, and some more.
LEMMA HeadOf ==
  ASSUME NEW x \in Byte, NEW y \in Byte, NEW z \in Byte, NEW v \in Byte, NEW w \in Byte,
         NEW t \in Seq(Byte), NEW r, r = <<x, y, z>> \o <<v, w>> \o t
  PROVE  /\ r \in Seq(Byte) /\ Len(r) = 5 + Len(t)
         /\ r[1] = x /\ r[2] = y /\ r[3] = z /\ r[4] = v /\ r[5] = w
         /\ \A i \in 1 .. Len(t) : r[5 + i] = t[i]
<1> DEFINE a == <<x, y, z>>
           b == <<v, w>>
           h == a \o b
<1>1. a \in Seq(Byte) /\ b \in Seq(Byte) /\ Len(a) = 3 /\ Len(b) = 2 /\ Len(t) \in Nat
      /\ a[1] = x /\ a[2] = y /\ a[3] = z /\ b[1] = v /\ b[2] = w
  OBVIOUS
<1>2. r = h \o t
  OBVIOUS
<1> HIDE DEF a, b
<1>3. 1 \in 1 .. Len(a) /\ 2 \in 1 .. Len(a) /\ 3 \in 1 .. Len(a)
      /\ 1 \in 1 .. Len(b) /\ 2 \in 1 .. Len(b)
  BY <1>1
<1>4. h \in Seq(Byte) /\ Len(h) = Len(a) + Len(b)
  BY <1>1, JoinedBytes
<1>5. h[1] = a[1] /\ h[2] = a[2] /\ h[3] = a[3]
  BY <1>1, <1>3, JoinedBytes
<1>6. h[Len(a) + 1] = b[1] /\ h[Len(a) + 2] = b[2]
  BY <1>1, <1>3, JoinedBytes
<1> HIDE DEF h
<1>7. h \in Seq(Byte) /\ Len(h) = 5
      /\ h[1] = x /\ h[2] = y /\ h[3] = z /\ h[4] = v /\ h[5] = w
  BY <1>1, <1>4, <1>5, <1>6
<1>8. /\ r \in Seq(Byte) /\ Len(r) = Len(h) + Len(t)
      /\ \A i \in 1 .. Len(h) : r[i] = h[i]
      /\ \A i \in 1 .. Len(t) : r[Len(h) + i] = t[i]
  BY <1>2, <1>7, JoinedBytes
<1>9. \A i \in 1 .. 5 : r[i] = h[i]
  BY <1>7, <1>8
<1> QED
  BY <1>7, <1>8, <1>9

\* What a block is in an archive: stored, or as a run of one byte.
LEMMA RecordIs ==
  ASSUME NEW b \in Seq(Byte), Len(b) \in 1 .. Base * Base - 1
  PROVE  /\ Lzf!Record(b) \in Seq(Byte)
         /\ Lzf!Record(b)[1] = 2 /\ Lzf!Record(b)[2] = 3
         /\ \/ /\ Lzf!Record(b)[3] = 0 /\ Len(Lzf!Record(b)) = 5 + Len(b)
               /\ Lzf!Record(b)[4] * Base + Lzf!Record(b)[5] = Len(b)
               /\ \A i \in 1 .. Len(b) : Lzf!Record(b)[5 + i] = b[i]
            \/ /\ Lzf!Record(b)[3] = 1 /\ Len(Lzf!Record(b)) = 10
               /\ Lzf!Record(b)[4] * Base + Lzf!Record(b)[5] = 3
               /\ Lzf!Record(b)[6] * Base + Lzf!Record(b)[7] = Len(b)
               /\ Lzf!Record(b)[8] = b[1]
               /\ Lzf!Record(b)[9] * Base + Lzf!Record(b)[10] = Len(b)
               /\ \A i \in 1 .. Len(b) : b[i] = b[1]
<1> DEFINE us == Len(b)
           code == Lzf!Packed(b, IF us > 4 THEN us - 4 ELSE us)
           hi == us \div Base
           lo == us % Base
           r == Lzf!Record(b)
<1>1. Base \in Nat /\ Base >= 4 /\ Byte = 0 .. Base - 1 /\ 0 \in Byte /\ 1 \in Byte
      /\ 2 \in Byte /\ 3 \in Byte
  BY ArchiveAssumption DEF Byte
<1>2. us \in Nat /\ Lzf!Short(us) = <<hi, lo>> /\ hi \in Byte /\ lo \in Byte
      /\ hi * Base + lo = us /\ b[1] \in Byte
  <2>1. 1 \in 1 .. Len(b) /\ us \in 0 .. Base * Base - 1
    BY <1>1
  <2> QED
    BY <2>1, ShortIs, ElementOfSeq
<1>3. Lzf!Short(3) = <<0, 3>>
  <2>1. 3 \div Base = 0 /\ 3 % Base = 3
    BY <1>1
  <2> QED
    BY <2>1 DEF Lzf!Short
<1>4. r = IF code # <<>> THEN <<2, 3, 1>> \o Lzf!Short(Len(code)) \o Lzf!Short(us) \o code
          ELSE <<2, 3, 0>> \o Lzf!Short(us) \o b
  BY DEF Lzf!Record, Lzf!Z, Lzf!V
<1>5. code # <<>> => code = <<b[1]>> \o <<hi, lo>> /\ \A i \in 1 .. us : b[i] = b[1]
  <2>1. DOMAIN b = 1 .. us
    BY LenProperties
  <2> QED
    BY <1>2, <2>1 DEF Lzf!Packed
<1> HIDE DEF code, hi, lo, us, r
<1>6. CASE code # <<>>
  <2> DEFINE x == <<b[1]>>
             y == <<hi, lo>>
             h == <<2, 3, 1>> \o <<0, 3>> \o y
  <2>1. x \in Seq(Byte) /\ Len(x) = 1 /\ y \in Seq(Byte) /\ Len(y) = 2 /\ x[1] = b[1]
        /\ y[1] = hi /\ y[2] = lo
    BY <1>2
  <2> HIDE DEF x, y
  <2>2. 1 \in 1 .. Len(x) /\ 1 \in 1 .. Len(y) /\ 2 \in 1 .. Len(y)
    BY <2>1
  <2>3. /\ x \o y \in Seq(Byte) /\ Len(x \o y) = Len(x) + Len(y)
        /\ (x \o y)[1] = x[1]
        /\ (x \o y)[Len(x) + 1] = y[1] /\ (x \o y)[Len(x) + 2] = y[2]
    BY <2>1, <2>2, JoinedBytes
  <2>4. code = x \o y
    BY <1>5, <1>6 DEF x, y
  <2>5. code \in Seq(Byte) /\ Len(code) = 3
        /\ code[1] = b[1] /\ code[2] = hi /\ code[3] = lo
    BY <2>1, <2>3, <2>4
  <2>6. r = h \o code
    BY <1>2, <1>3, <1>4, <1>6, <2>5 DEF y
  <2>7. /\ h \in Seq(Byte) /\ Len(h) = 5 + Len(y)
        /\ h[1] = 2 /\ h[2] = 3 /\ h[3] = 1 /\ h[4] = 0 /\ h[5] = 3
        /\ \A i \in 1 .. Len(y) : h[5 + i] = y[i]
    <3>1. h = <<2, 3, 1>> \o <<0, 3>> \o y
      OBVIOUS
    <3>2. y \in Seq(Byte)
      BY <2>1
    <3> HIDE DEF h
    <3> QED
      BY <1>1, <3>1, <3>2, HeadOf
  <2> HIDE DEF h
  <2>8. Len(h) = 7 /\ h[6] = hi /\ h[7] = lo
    <3>1. h[5 + 1] = y[1] /\ h[5 + 2] = y[2] /\ 5 + 1 = 6 /\ 5 + 2 = 7
      BY <2>1, <2>7
    <3> QED
      BY <2>1, <2>7, <3>1
  <2>9. /\ r \in Seq(Byte) /\ Len(r) = Len(h) + Len(code)
        /\ \A i \in 1 .. Len(h) : r[i] = h[i]
        /\ \A i \in 1 .. Len(code) : r[Len(h) + i] = code[i]
    BY <2>5, <2>6, <2>7, JoinedBytes
  <2>10. /\ r[1] = 2 /\ r[2] = 3 /\ r[3] = 1 /\ r[4] = 0 /\ r[5] = 3 /\ r[6] = hi /\ r[7] = lo
    <3>1. \A i \in 1 .. 7 : r[i] = h[i]
      BY <2>8, <2>9
    <3> QED
      BY <2>7, <2>8, <3>1
  <2>11. r[8] = b[1] /\ r[9] = hi /\ r[10] = lo
    <3>1. r[7 + 1] = code[1] /\ r[7 + 2] = code[2] /\ r[7 + 3] = code[3]
      BY <2>5, <2>8, <2>9
    <3> QED
      BY <2>5, <3>1
  <2>12. r \in Seq(Byte) /\ Len(r) = 10
    BY <2>5, <2>8, <2>9
  <2>13. 0 * Base + 3 = 3
    BY <1>1
  <2> QED
    BY <1>2, <1>5, <1>6, <2>10, <2>11, <2>12, <2>13 DEF us, r
<1>7. CASE code = <<>>
  <2>1. r = <<2, 3, 0>> \o <<hi, lo>> \o b
    BY <1>2, <1>4, <1>7
  <2>2. /\ r \in Seq(Byte) /\ Len(r) = 5 + Len(b)
        /\ r[1] = 2 /\ r[2] = 3 /\ r[3] = 0 /\ r[4] = hi /\ r[5] = lo
        /\ \A i \in 1 .. Len(b) : r[5 + i] = b[i]
    BY <1>1, <1>2, <2>1, HeadOf
  <2> QED
    BY <1>2, <2>2 DEF us, r
<1> QED
  BY <1>6, <1>7

\* The archive of the first blocks of a file, for each number of them.
Recorded(s, n, k) == Lzf!Record(Piece(s, n, k))

IsCat(s, n, cat) ==
  /\ cat \in [0 .. Count(s, n) -> Seq(Byte)] /\ cat[0] = <<>>
  /\ \A k \in 1 .. Count(s, n) : cat[k] = cat[k - 1] \o Recorded(s, n, k)

Cat(s, n)      == CHOOSE cat : IsCat(s, n, cat)
Archived(s, n) == Cat(s, n)[Count(s, n)]

\* The sizes of the blocks.
LEMMA BlockSize ==
  ASSUME NEW n \in Blocks
  PROVE  n \in Nat \ {0} /\ n \in 1 .. Base * Base - 1
<1>1. n \in 1 .. Base * Base - 1 /\ Base \in Nat
  BY ArchiveAssumption
<1>2. Base * Base \in Nat
  BY <1>1
<1> QED
  BY <1>1, <1>2

\* A block of a file is recorded in a few bytes at least.
LEMMA RecordOf ==
  ASSUME NEW s \in Seq(Byte), NEW n \in Blocks, NEW k \in 1 .. Count(s, n)
  PROVE  /\ Piece(s, n, k) \in Seq(Byte) /\ Len(Piece(s, n, k)) \in 1 .. Base * Base - 1
         /\ Recorded(s, n, k) \in Seq(Byte)
         /\ Len(Recorded(s, n, k)) \in Nat /\ Len(Recorded(s, n, k)) >= 6
<1>1. n \in Nat \ {0} /\ n \in 1 .. Base * Base - 1
  BY BlockSize
<1>2. Piece(s, n, k) \in Seq(Byte) /\ Len(Piece(s, n, k)) \in 1 .. n
  BY <1>1, PieceIs
<1>3. Base * Base \in Nat
  BY ArchiveAssumption
<1> DEFINE p == Piece(s, n, k)
           most == Base * Base - 1
<1>4. most \in Int /\ n \in 1 .. most /\ p \in Seq(Byte) /\ Len(p) \in 1 .. n
  BY <1>1, <1>2, <1>3
<1> HIDE DEF p, most
<1>5. Len(p) \in 1 .. most /\ Len(p) \in Nat /\ Len(p) >= 1
  BY <1>4
<1>6. /\ Lzf!Record(p) \in Seq(Byte)
      /\ Len(Lzf!Record(p)) = 5 + Len(p) \/ Len(Lzf!Record(p)) = 10
  BY <1>4, <1>5, RecordIs DEF most
<1>7. Len(Lzf!Record(p)) \in Nat /\ Len(Lzf!Record(p)) >= 6
  <2> DEFINE r == Lzf!Record(p)
  <2>1. Len(r) = 5 + Len(p) \/ Len(r) = 10
    BY <1>6
  <2> HIDE DEF r
  <2>2. Len(r) \in Nat /\ Len(r) >= 6
    <3>1. 5 + Len(p) \in Nat /\ 5 + Len(p) >= 6
      BY <1>5
    <3>2. 10 \in Nat /\ 10 >= 6
      OBVIOUS
    <3> QED
      BY <2>1, <3>1, <3>2
  <2> QED
    BY <2>2 DEF r
<1>8. Recorded(s, n, k) = Lzf!Record(p)
  BY DEF Recorded, p
<1> QED
  BY <1>4, <1>5, <1>6, <1>7, <1>8, Zenon DEF p, most

\* There is such an archive.
LEMMA CatIs ==
  ASSUME NEW s \in Seq(Byte), NEW n \in Blocks
  PROVE  IsCat(s, n, Cat(s, n))
<1> DEFINE c == Count(s, n)
           Upto(m, cat) == /\ cat \in [0 .. m -> Seq(Byte)] /\ cat[0] = <<>>
                           /\ \A k \in 1 .. m : cat[k] = cat[k - 1] \o Recorded(s, n, k)
           T == {m \in 0 .. c : \E cat : Upto(m, cat)}
<1>1. c \in Nat
  BY BlockSize, Blocking
<1>2. 0 \in T
  <2> DEFINE cat == [k \in 0 .. 0 |-> <<>>]
  <2>1. Upto(0, cat)
    BY EmptySeq
  <2> HIDE DEF Upto, cat
  <2> QED
    BY <1>1, <2>1
<1>3. ASSUME NEW m \in 0 .. c - 1, m \in T PROVE m + 1 \in T
  <2>1. PICK cat : Upto(m, cat)
    BY <1>3
  <2> DEFINE r == Recorded(s, n, m + 1)
             next == [k \in 0 .. m + 1 |-> IF k = m + 1 THEN cat[m] \o r ELSE cat[k]]
  <2>2. m + 1 \in 1 .. c /\ m \in 0 .. m
    BY <1>1
  <2>3. r \in Seq(Byte) /\ cat[m] \in Seq(Byte)
    BY <2>1, <2>2, RecordOf
  <2>4. cat[m] \o r \in Seq(Byte)
    BY <2>3, JoinedBytes
  <2> HIDE DEF r
  <2>5. next \in [0 .. m + 1 -> Seq(Byte)] /\ next[0] = <<>>
        /\ next[m + 1] = cat[m] \o r /\ \A k \in 0 .. m : next[k] = cat[k]
    BY <1>1, <2>1, <2>4
  <2> HIDE DEF next
  <2>6. ASSUME NEW k \in 1 .. m + 1
        PROVE  next[k] = next[k - 1] \o Recorded(s, n, k)
    <3>1. CASE k = m + 1
      <4>1. k - 1 = m /\ m \in 0 .. m
        BY <1>1, <3>1
      <4>2. next[k] = cat[m] \o r /\ next[k - 1] = cat[m]
        BY <2>5, <3>1, <4>1
      <4> QED
        BY <3>1, <4>2 DEF r
    <3>2. CASE k \in 1 .. m
      <4>1. k \in 0 .. m /\ k - 1 \in 0 .. m
        BY <1>1, <3>2
      <4>2. next[k] = cat[k] /\ next[k - 1] = cat[k - 1]
        BY <2>5, <4>1
      <4> QED
        BY <2>1, <3>2, <4>2
    <3> QED
      BY <1>1, <3>1, <3>2
  <2>7. Upto(m + 1, next)
    BY <2>5, <2>6
  <2> HIDE DEF Upto
  <2> QED
    BY <2>2, <2>7
<1>4. c \in T
  <2>1. 0 \in Nat /\ 0 <= c
    BY <1>1
  <2> HIDE DEF T, c
  <2> QED
    BY <1>1, <1>2, <1>3, <2>1, Climb
<1>5. \E cat : IsCat(s, n, cat)
  BY <1>4 DEF IsCat
<1> QED
  BY <1>5, Zenon DEF Cat

\* The archive a tool writes, whole, is what Whole says.
LEMMA Flattened ==
  ASSUME NEW rows \in Seq(Seq(Byte)), NEW cat \in [0 .. Len(rows) -> Seq(Byte)],
         cat[0] = <<>>,
         \A k \in 1 .. Len(rows) : cat[k] = cat[k - 1] \o rows[k]
  PROVE  FlattenSeq(rows) = cat[Len(rows)]
<1> DEFINE l == Len(rows)
<1>1. l \in Nat
  BY LenProperties
<1>2. CASE l = 0
  <2>1. rows = <<>>
    BY <1>2, EmptySeq
  <2> QED
    BY <1>2, <2>1 DEF FlattenSeq
<1>3. CASE l # 0
  <2> DEFINE Def(g) == g = [i \in 1 .. l |-> IF i = 1 THEN rows[i] ELSE g[i - 1] \o rows[i]]
             flat == CHOOSE g : Def(g)
             mine == [i \in 1 .. l |-> cat[i]]
  <2>1. Def(mine)
    <3>1. ASSUME NEW i \in 1 .. l
          PROVE  mine[i] = IF i = 1 THEN rows[i] ELSE mine[i - 1] \o rows[i]
      <4>1. CASE i = 1
        <5>1. cat[1] = cat[0] \o rows[1]
          <6>1. 1 \in 1 .. l /\ 1 - 1 = 0
            BY <1>1, <1>3
          <6> HIDE DEF l
          <6>2. cat[1] = cat[1 - 1] \o rows[1]
            BY <6>1 DEF l
          <6> QED
            BY <6>1, <6>2
        <5>2. rows[1] \in Seq(Byte)
          BY <4>1, ElementOfSeq
        <5>3. <<>> \o rows[1] = rows[1]
          BY <5>2, ConcatEmptySeq
        <5> QED
          BY <4>1, <5>1, <5>3
      <4>2. CASE i # 1
        <5>1. i - 1 \in 1 .. l /\ mine[i] = cat[i]
          BY <1>1, <4>2
        <5>2. mine[i - 1] = cat[i - 1]
          BY <5>1
        <5>3. cat[i] = cat[i - 1] \o rows[i]
          OBVIOUS
        <5> QED
          BY <4>2, <5>1, <5>2, <5>3
      <4> QED
        BY <4>1, <4>2
    <3> QED
      BY <3>1
  <2>2. Def(flat)
    <3> HIDE DEF Def, mine
    <3> QED
      BY <2>1, Zenon
  <2>3. FlattenSeq(rows) = flat[l]
    BY <1>3 DEF FlattenSeq
  <2> HIDE DEF flat
  <2>4. \A i \in 1 .. l : flat[i] = IF i = 1 THEN rows[i] ELSE flat[i - 1] \o rows[i]
    BY <2>2
  <2> DEFINE T == {i \in 1 .. l : flat[i] = cat[i]}
  <2>5. 1 \in T
    <3>1. 1 \in 1 .. l
      BY <1>1, <1>3
    <3>2. mine[1] = rows[1] /\ mine[1] = cat[1]
      BY <2>1, <3>1
    <3> QED
      BY <2>4, <3>1, <3>2
  <2>6. ASSUME NEW i \in 1 .. l - 1, i \in T PROVE i + 1 \in T
    <3>1. i + 1 \in 1 .. l /\ i + 1 # 1 /\ (i + 1) - 1 = i /\ flat[i] = cat[i]
      BY <1>1, <2>6
    <3>2. flat[i + 1] = flat[i] \o rows[i + 1] /\ cat[i + 1] = cat[i] \o rows[i + 1]
      BY <2>4, <3>1
    <3> QED
      BY <3>1, <3>2
  <2>7. l \in T
    <3>1. 1 \in Nat /\ 1 <= l
      BY <1>1, <1>3
    <3> HIDE DEF T, l
    <3> QED
      BY <1>1, <2>5, <2>6, <3>1, Climb
  <2> QED
    BY <2>3, <2>7
<1> QED
  BY <1>2, <1>3

LEMMA WholeIs ==
  ASSUME original \in Seq(Byte), NEW n \in Blocks
  PROVE  Whole(n) = Archived(original, n)
<1> DEFINE c == Count(original, n)
           blocks == [k \in 1 .. c |->
                        SubSeq(original, (k - 1) * n + 1,
                               IF k * n > Len(original) THEN Len(original) ELSE k * n)]
           rows == [k \in 1 .. c |-> Recorded(original, n, k)]
<1>1. c \in Nat /\ n \in Nat \ {0}
  BY BlockSize, Blocking
<1>2. ASSUME NEW k \in 1 .. c
      PROVE  blocks[k] = Piece(original, n, k)
  <2>1. k \in 0 .. c /\ k > 0
    BY <1>1
  <2>2. /\ Behind(original, n, k - 1) = (k - 1) * n
        /\ Behind(original, n, k) = IF Behind(original, n, k - 1) + n <= Len(original)
                                    THEN Behind(original, n, k - 1) + n ELSE Len(original)
    BY <1>1, <2>1, Blocking
  <2>3. Piece(original, n, k) = SubSeq(original, Behind(original, n, k - 1) + 1, Behind(original, n, k))
    BY <2>2 DEF Piece, Read
  <2>4. blocks[k] = SubSeq(original, (k - 1) * n + 1, Behind(original, n, k))
    BY DEF Behind
  <2> QED
    BY <2>2, <2>3, <2>4
<1>3. [k \in DOMAIN blocks |-> Lzf!Record(blocks[k])] = rows
  <2>1. DOMAIN blocks = 1 .. c
    OBVIOUS
  <2> HIDE DEF blocks
  <2> QED
    BY <1>2, <2>1 DEF Recorded
<1>4. Whole(n) = FlattenSeq(rows)
  BY <1>3 DEF Whole, Count
<1>5. IsCat(original, n, Cat(original, n))
  BY CatIs
<1>6. rows \in Seq(Seq(Byte)) /\ Len(rows) = c
  BY <1>1, RecordOf
<1>7. FlattenSeq(rows) = Cat(original, n)[Len(rows)]
  <2>1. \A k \in 1 .. Len(rows) : Cat(original, n)[k] = Cat(original, n)[k - 1] \o rows[k]
    BY <1>5, <1>6 DEF IsCat
  <2>2. Cat(original, n) \in [0 .. Len(rows) -> Seq(Byte)] /\ Cat(original, n)[0] = <<>>
    BY <1>5, <1>6 DEF IsCat
  <2> HIDE DEF rows
  <2> QED
    BY <1>6, <2>1, <2>2, Flattened
<1> QED
  BY <1>4, <1>6, <1>7 DEF Archived

\* Where the blocks are in an archive: each one behind the blocks before it.
LEMMA CatAt ==
  ASSUME NEW s \in Seq(Byte), NEW n \in Blocks
  PROVE  /\ Count(s, n) \in Nat /\ Archived(s, n) \in Seq(Byte) /\ Len(Archived(s, n)) \in Nat
         /\ Len(Cat(s, n)[0]) = 0 /\ Cat(s, n)[Count(s, n)] = Archived(s, n)
         /\ \A j \in 0 .. Count(s, n) :
              /\ Cat(s, n)[j] \in Seq(Byte)
              /\ Len(Cat(s, n)[j]) \in 0 .. Len(Archived(s, n))
              /\ \A i \in 1 .. Len(Cat(s, n)[j]) : Archived(s, n)[i] = Cat(s, n)[j][i]
         /\ \A j \in 0 .. Count(s, n) - 1 :
              /\ Cat(s, n)[j + 1] = Cat(s, n)[j] \o Recorded(s, n, j + 1)
              /\ Len(Cat(s, n)[j + 1]) = Len(Cat(s, n)[j]) + Len(Recorded(s, n, j + 1))
              /\ \A i \in 1 .. Len(Recorded(s, n, j + 1)) :
                   Archived(s, n)[Len(Cat(s, n)[j]) + i] = Recorded(s, n, j + 1)[i]
<1> DEFINE c   == Count(s, n)
           cat == Cat(s, n)
           w   == Archived(s, n)
           Rec(k) == Recorded(s, n, k)
<1>1. c \in Nat
  BY BlockSize, Blocking
<1>2. /\ \A j \in 0 .. c : cat[j] \in Seq(Byte)
      /\ cat[0] = <<>> /\ cat[c] = w
      /\ \A k \in 1 .. c : cat[k] = cat[k - 1] \o Rec(k)
  BY CatIs DEF IsCat, Archived
<1>3. \A k \in 1 .. c : Rec(k) \in Seq(Byte) /\ Len(Rec(k)) \in Nat /\ Len(Rec(k)) >= 6
  BY RecordOf
<1> HIDE DEF c, cat, w, Rec
<1>4. c \in 0 .. c /\ 0 \in 0 .. c /\ w \in Seq(Byte) /\ Len(w) \in Nat /\ Len(cat[0]) = 0
  BY <1>1, <1>2
<1>5. ASSUME NEW j \in 0 .. c - 1
      PROVE  /\ j + 1 \in 1 .. c /\ j \in 0 .. c /\ j + 1 \in 0 .. c
             /\ cat[j + 1] = cat[j] \o Rec(j + 1)
             /\ cat[j] \in Seq(Byte) /\ Rec(j + 1) \in Seq(Byte)
             /\ Len(cat[j]) \in Nat /\ Len(Rec(j + 1)) \in Nat
             /\ Len(cat[j + 1]) = Len(cat[j]) + Len(Rec(j + 1))
             /\ \A i \in 1 .. Len(cat[j]) : cat[j + 1][i] = cat[j][i]
             /\ \A i \in 1 .. Len(Rec(j + 1)) : cat[j + 1][Len(cat[j]) + i] = Rec(j + 1)[i]
  <2>1. j + 1 \in 1 .. c /\ j \in 0 .. c /\ j + 1 \in 0 .. c /\ (j + 1) - 1 = j
    BY <1>1
  <2>2. cat[j + 1] = cat[j] \o Rec(j + 1) /\ cat[j] \in Seq(Byte) /\ Rec(j + 1) \in Seq(Byte)
    BY <1>2, <1>3, <2>1
  <2>3. /\ Len(cat[j]) \in Nat /\ Len(Rec(j + 1)) \in Nat
        /\ Len(cat[j] \o Rec(j + 1)) = Len(cat[j]) + Len(Rec(j + 1))
        /\ \A i \in 1 .. Len(cat[j]) : (cat[j] \o Rec(j + 1))[i] = cat[j][i]
        /\ \A i \in 1 .. Len(Rec(j + 1)) :
             (cat[j] \o Rec(j + 1))[Len(cat[j]) + i] = Rec(j + 1)[i]
    BY <2>2, JoinedBytes
  <2> QED
    BY <2>1, <2>2, <2>3
<1>6. ASSUME NEW j \in 0 .. c
      PROVE  /\ cat[j] \in Seq(Byte) /\ Len(cat[j]) \in 0 .. Len(w)
             /\ \A i \in 1 .. Len(cat[j]) : w[i] = cat[j][i]
  <2> DEFINE T == {k \in j .. c : /\ Len(cat[j]) <= Len(cat[k])
                                  /\ \A i \in 1 .. Len(cat[j]) : cat[k][i] = cat[j][i]}
  <2>1. cat[j] \in Seq(Byte) /\ Len(cat[j]) \in Nat
    BY <1>2
  <2>2. j \in Nat /\ j <= c /\ j \in T
    BY <1>1, <2>1
  <2>3. ASSUME NEW k \in j .. c - 1, k \in T PROVE k + 1 \in T
    <3>1. k \in 0 .. c - 1 /\ k + 1 \in j .. c
      BY <1>1
    <3>2. /\ Len(cat[k]) \in Nat /\ Len(Rec(k + 1)) \in Nat
          /\ Len(cat[k + 1]) = Len(cat[k]) + Len(Rec(k + 1))
          /\ \A i \in 1 .. Len(cat[k]) : cat[k + 1][i] = cat[k][i]
      BY <1>5, <3>1
    <3>3. Len(cat[j]) <= Len(cat[k]) /\ \A i \in 1 .. Len(cat[j]) : cat[k][i] = cat[j][i]
      BY <2>3
    <3>4. Len(cat[j]) <= Len(cat[k + 1])
      <4> DEFINE a == Len(cat[j])
                 b == Len(cat[k])
                 d == Len(Rec(k + 1))
                 e == Len(cat[k + 1])
      <4>1. a \in Nat /\ b \in Nat /\ d \in Nat /\ e = b + d /\ a <= b
        BY <2>1, <3>2, <3>3
      <4> HIDE DEF a, b, d, e
      <4>2. a <= e
        BY <4>1
      <4> QED
        BY <4>2 DEF a, e
    <3>5. ASSUME NEW i \in 1 .. Len(cat[j]) PROVE cat[k + 1][i] = cat[j][i]
      <4>1. i \in 1 .. Len(cat[k])
        BY <2>1, <3>2, <3>3
      <4> QED
        BY <3>2, <3>3, <4>1
    <3> QED
      BY <3>1, <3>4, <3>5
  <2>4. c \in T
    <3> HIDE DEF T
    <3> QED
      BY <1>1, <2>2, <2>3, Climb
  <2> QED
    BY <1>2, <1>4, <2>1, <2>4
<1>7. ASSUME NEW j \in 0 .. c - 1
      PROVE  \A i \in 1 .. Len(Rec(j + 1)) : w[Len(cat[j]) + i] = Rec(j + 1)[i]
  <2>1. ASSUME NEW i \in 1 .. Len(Rec(j + 1))
        PROVE  w[Len(cat[j]) + i] = Rec(j + 1)[i]
    <3>1. Len(cat[j]) + i \in 1 .. Len(cat[j + 1])
      <4> DEFINE a == Len(cat[j])
                 d == Len(Rec(j + 1))
                 e == Len(cat[j + 1])
      <4>1. a \in Nat /\ d \in Nat /\ e = a + d /\ i \in 1 .. d
        BY <1>5
      <4> HIDE DEF a, d, e
      <4>2. a + i \in 1 .. e
        BY <4>1
      <4> QED
        BY <4>2 DEF a, e
    <3>2. w[Len(cat[j]) + i] = cat[j + 1][Len(cat[j]) + i]
      BY <1>5, <1>6, <3>1
    <3> QED
      BY <1>5, <3>2
  <2> QED
    BY <2>1
<1> QED
  BY <1>1, <1>2, <1>4, <1>5, <1>6, <1>7 DEF c, cat, w, Rec

------------------------------------------------------------------------------
(* A turn of lzf *)

\* The operators the tools share are the same in each of them.
LEMMA SameReads ==
  /\ \A bytes, behind, n : Lzf!Read(bytes, behind, n) = Read(bytes, behind, n)
  /\ \A bytes, behind, n : Six!Read(bytes, behind, n) = Read(bytes, behind, n)
BY DEF Lzf!Read, Six!Read, Read

\* There is an archive with blocks of n bytes, or the beginning of it.
Left(s, n, packed) ==
  /\ packed \in Seq(Byte) /\ Len(packed) <= Len(Archived(s, n))
  /\ \A i \in 1 .. Len(packed) : packed[i] = Archived(s, n)[i]

\* A header is read at place p: as many bytes as the longer type has, or those
\* there are.
HeadAt(packed, p, head) ==
  /\ head \in Seq(Byte) /\ Len(head) \in Nat /\ Len(head) <= 7 /\ Len(packed) \in Nat
  /\ Len(head) = IF p + 7 <= Len(packed) THEN 7 ELSE Len(packed) - p
  /\ p + Len(head) <= Len(packed)
  /\ \A i \in 1 .. Len(head) : head[i] = packed[p + i]

\* The bytes kept are those behind place p.
KeptAt(packed, p, kept) ==
  /\ kept \in Seq(Byte) /\ Len(kept) <= 2 /\ p + Len(kept) <= Len(packed)
  /\ \A i \in 1 .. Len(kept) : kept[i] = packed[p + i]

\* The bytes kept from the block before and those read behind them are a header
\* where the next block begins.
LEMMA HeadRead ==
  ASSUME NEW packed \in Seq(Byte), NEW p \in Nat, NEW kept, KeptAt(packed, p, kept)
  PROVE  /\ HeadAt(packed, p, kept \o Read(packed, p + Len(kept), 7 - Len(kept)))
         /\ (p + Len(kept)) + Len(Read(packed, p + Len(kept), 7 - Len(kept))) =
              p + Len(kept \o Read(packed, p + Len(kept), 7 - Len(kept)))
<1> DEFINE from == p + Len(kept)
           head == kept \o Read(packed, from, 7 - Len(kept))
<1>0. /\ kept \in Seq(Byte) /\ Len(kept) <= 2 /\ from <= Len(packed)
      /\ \A i \in 1 .. Len(kept) : kept[i] = packed[p + i]
      /\ from \in Nat /\ from = p + Len(kept)
      /\ head = kept \o Read(packed, from, 7 - Len(kept))
  BY LenProperties DEF KeptAt
<1> HIDE DEF from, head
<1> USE <1>0
<1> DEFINE read == Read(packed, from, 7 - Len(kept))
           k == Len(kept)
           l == Len(packed)
           m == Len(read)
<1>1. k \in Nat /\ k <= 2 /\ l \in Nat /\ 7 - k \in Nat /\ from = p + k /\ from <= l
  BY LenProperties
<1>2. /\ read \in Seq(Byte)
      /\ Len(read) = IF from + (7 - k) <= l THEN 7 - k ELSE IF from <= l THEN l - from ELSE 0
      /\ \A i \in 1 .. Len(read) : read[i] = packed[from + i]
  <2> HIDE DEF k
  <2> QED
    BY <1>1, Reads DEF k
<1>3. /\ head = kept \o read
      /\ kept \o read \in Seq(Byte) /\ Len(kept \o read) = Len(kept) + Len(read)
      /\ \A i \in 1 .. Len(kept) : (kept \o read)[i] = kept[i]
      /\ \A i \in 1 .. Len(read) : (kept \o read)[Len(kept) + i] = read[i]
  <2>1. head = kept \o read
    OBVIOUS
  <2> HIDE DEF read
  <2> QED
    BY <1>2, <2>1, JoinedBytes
<1>4. m = IF from + (7 - k) <= l THEN 7 - k ELSE l - from
  BY <1>1, <1>2
<1>5. Len(head) = k + m
  BY <1>3
<1> HIDE DEF read, k, l, m
<1>6. /\ m \in Nat /\ k + m = IF p + 7 <= l THEN 7 ELSE l - p
      /\ from + m = p + (k + m) /\ p + (k + m) <= l
  BY <1>1, <1>4
<1>7. ASSUME NEW i \in 1 .. k + m PROVE head[i] = packed[p + i]
  <2>1. CASE i \in 1 .. k
    <3>1. head[i] = kept[i]
      BY <1>3, <2>1 DEF k
    <3> QED
      BY <2>1, <3>1 DEF k
  <2>2. CASE i \notin 1 .. k
    <3>1. i - k \in 1 .. m /\ k + (i - k) = i /\ from + (i - k) = p + i
      <4>1. from = p + k /\ k \in Nat /\ m \in Nat /\ p \in Nat /\ i \in 1 .. k + m /\ i > k
        BY <1>1, <1>6, <2>2
      <4> QED
        BY ONLY <4>1
    <3>2. head[k + (i - k)] = read[i - k]
      BY <1>3, <3>1 DEF k, m
    <3>3. read[i - k] = packed[from + (i - k)]
      BY <1>2, <3>1 DEF m
    <3> QED
      BY <3>1, <3>2, <3>3
  <2> QED
    BY <2>1, <2>2
<1>8. /\ Len(head) \in Nat /\ Len(head) <= 7
      /\ Len(head) = IF p + 7 <= l THEN 7 ELSE l - p
      /\ p + Len(head) <= l /\ from + m = p + Len(head)
  BY <1>1, <1>5, <1>6
<1>9. head \in Seq(Byte) /\ \A i \in 1 .. Len(head) : head[i] = packed[p + i]
  BY <1>3, <1>5, <1>7
<1> QED
  BY <1>1, <1>8, <1>9 DEF HeadAt, read, k, l, m, from, head

\* What a turn of uncompress_fd() makes of a header and the bytes behind it.
First(head) == IF head[3] = 0 THEN 5 ELSE 7
Us(head)    == head[First(head) - 1] * Base + head[First(head)]
Used(head)  == First(head) + IF head[3] = 0 THEN Us(head) ELSE head[4] * Base + head[5]
More(head)  == IF Used(head) > Len(head) THEN Used(head) - Len(head) ELSE 0

Plain(head, packed, from) ==
  LET bytes == SubSeq(head \o Read(packed, from, More(head)), First(head) + 1, Used(head))
  IN IF head[3] = 0 THEN bytes ELSE Lzf!Unpacked(bytes)

\* Whatever is read has the types of bytes.
LEMMA TurnTypes ==
  ASSUME NEW packed \in Seq(Byte), NEW from \in Nat, NEW head \in Seq(Byte),
         Lzf!Valid(head), Len(head) <= 7
  PROVE  /\ Len(head) \in Nat /\ Len(head) >= 5
         /\ Us(head) \in Nat /\ Used(head) \in Nat /\ Used(head) >= 5 /\ More(head) \in Nat
         /\ First(head) \in {5, 7} /\ First(head) <= Len(head) /\ First(head) <= Used(head)
         /\ from + More(head) <= Len(packed) =>
              /\ Plain(head, packed, from) \in Seq(Byte)
              /\ head \o Read(packed, from, More(head)) \in Seq(Byte)
              /\ Len(head \o Read(packed, from, More(head))) = Len(head) + More(head)
         /\ Lzf!Kept(head, Used(head)) \in Seq(Byte)
         /\ Len(Lzf!Kept(head, Used(head))) =
              IF Used(head) <= Len(head) THEN Len(head) - Used(head) ELSE 0
         /\ \A i \in 1 .. Len(head) - Used(head) :
              Lzf!Kept(head, Used(head))[i] = head[Used(head) + i]
<1>1. Base \in Nat /\ Byte = 0 .. Base - 1
  BY ArchiveAssumption DEF Byte
<1>2. /\ Len(head) \in Nat /\ Len(head) >= 5
      /\ head[3] = 0 \/ (head[3] = 1 /\ Len(head) >= 7)
  <2>1. Len(head) \in Nat
    BY LenProperties
  <2> QED
    BY <2>1 DEF Lzf!Valid, Lzf!TypeZero, Lzf!TypeOne
<1>3. \A i \in 1 .. Len(head) : head[i] \in Nat
  BY <1>1, ElementOfSeq
<1>4. ASSUME NEW x \in Nat, NEW y \in Nat PROVE x * Base + y \in Nat
  <2>1. x * Base \in Nat
    BY <1>1
  <2> QED
    BY <2>1
<1>5. First(head) \in {5, 7} /\ First(head) <= Len(head)
  BY <1>2 DEF First
<1>6. Us(head) \in Nat
  <2>1. First(head) - 1 \in 1 .. Len(head) /\ First(head) \in 1 .. Len(head)
    BY <1>2, <1>5
  <2> QED
    BY <1>3, <1>4, <2>1 DEF Us
<1>7. Used(head) \in Nat /\ Used(head) >= First(head)
  <2>1. head[4] * Base + head[5] \in Nat
    <3>1. 4 \in 1 .. Len(head) /\ 5 \in 1 .. Len(head)
      BY <1>2
    <3> QED
      BY <1>3, <1>4, <3>1
  <2> QED
    BY <1>5, <1>6, <2>1 DEF Used
<1>8. Used(head) >= 5 /\ More(head) \in Nat
  BY <1>2, <1>5, <1>7 DEF More
<1>9. ASSUME from + More(head) <= Len(packed)
      PROVE  /\ Plain(head, packed, from) \in Seq(Byte)
             /\ head \o Read(packed, from, More(head)) \in Seq(Byte)
             /\ Len(head \o Read(packed, from, More(head))) = Len(head) + More(head)
  <2> DEFINE read == Read(packed, from, More(head))
             all == head \o read
             bytes == SubSeq(all, First(head) + 1, Used(head))
  <2>1. read \in Seq(Byte) /\ Len(read) = More(head)
    BY <1>8, <1>9, Reads
  <2> HIDE DEF read
  <2>2. all \in Seq(Byte) /\ Len(all) = Len(head) + Len(read)
    BY <2>1, JoinedBytes
  <2> HIDE DEF all
  <2>3. Used(head) <= Len(head) + More(head)
    BY <1>2, <1>7 DEF More
  <2>4. bytes \in Seq(Byte)
    <3>1. First(head) \in Nat /\ Used(head) \in Int /\ Used(head) <= Len(all)
      BY <1>5, <1>7, <2>1, <2>2, <2>3
    <3> QED
      BY <2>2, <3>1, Part
  <2> HIDE DEF bytes
  <2>5. Lzf!Unpacked(bytes) \in Seq(Byte)
    <3>1. CASE Len(bytes) = 3
      <4>1. bytes[1] \in Byte /\ bytes[2] \in Nat /\ bytes[3] \in Nat
        <5>1. 1 \in 1 .. Len(bytes) /\ 2 \in 1 .. Len(bytes) /\ 3 \in 1 .. Len(bytes)
          BY <3>1
        <5>2. bytes[1] \in Byte /\ bytes[2] \in Byte /\ bytes[3] \in Byte
          BY <2>4, <5>1, ElementOfSeq
        <5> QED
          BY <1>1, <5>2
      <4>2. bytes[2] * Base + bytes[3] \in Nat
        BY <1>4, <4>1
      <4> QED
        BY <3>1, <4>1, <4>2 DEF Lzf!Unpacked
    <3>2. CASE Len(bytes) # 3
      BY <3>2, EmptySeq DEF Lzf!Unpacked
    <3> QED
      BY <3>1, <3>2
  <2>6. Plain(head, packed, from) = IF head[3] = 0 THEN bytes ELSE Lzf!Unpacked(bytes)
    BY DEF Plain, bytes, all, read
  <2> QED
    BY <2>1, <2>2, <2>4, <2>5, <2>6 DEF all, read
<1>10. /\ Lzf!Kept(head, Used(head)) \in Seq(Byte)
       /\ Len(Lzf!Kept(head, Used(head))) =
            IF Used(head) <= Len(head) THEN Len(head) - Used(head) ELSE 0
       /\ \A i \in 1 .. Len(head) - Used(head) :
            Lzf!Kept(head, Used(head))[i] = head[Used(head) + i]
  <2>1. Len(head) \in Int /\ Len(head) <= Len(head)
    BY <1>2
  <2>2. /\ SubSeq(head, Used(head) + 1, Len(head)) \in Seq(Byte)
        /\ Len(SubSeq(head, Used(head) + 1, Len(head))) =
             IF Used(head) <= Len(head) THEN Len(head) - Used(head) ELSE 0
        /\ \A i \in 1 .. Len(head) - Used(head) :
             SubSeq(head, Used(head) + 1, Len(head))[i] = head[Used(head) + i]
    BY <1>7, <2>1, Part
  <2> QED
    BY <2>2 DEF Lzf!Kept
<1> QED
  BY <1>2, <1>5, <1>6, <1>7, <1>8, <1>9, <1>10

\* If all the bytes of a block are there.
LEMMA TurnBytes ==
  ASSUME NEW packed \in Seq(Byte), NEW from \in Nat, NEW head \in Seq(Byte),
         Lzf!Valid(head), Len(head) <= 7, from + More(head) <= Len(packed)
  PROVE  /\ Plain(head, packed, from) \in Seq(Byte)
         /\ head \o Read(packed, from, More(head)) \in Seq(Byte)
         /\ Len(head \o Read(packed, from, More(head))) = Len(head) + More(head)
BY TurnTypes

\* A place in the bytes behind a header.
LEMMA BehindHead ==
  ASSUME NEW p \in Nat, NEW h \in Nat, NEW z \in Nat, NEW l \in Nat, NEW i \in 1 .. z,
         i > h, (p + h) + (z - h) <= l
  PROVE  i - h \in 1 .. z - h /\ h + (i - h) = i /\ (p + h) + (i - h) = p + i /\ p + i <= l
OBVIOUS

\* Where a block begins in an archive of the file, or in what is left of it, its
\* header is read, and if all of it is there, so is the block.
LEMMA Decoded ==
  ASSUME NEW s \in Seq(Byte), NEW n \in Blocks, NEW j \in 0 .. Count(s, n),
         NEW packed, Left(s, n, packed), NEW p \in Nat, p = Len(Cat(s, n)[j]),
         NEW head, head # <<>>, HeadAt(packed, p, head)
  PROVE  /\ j \in 0 .. Count(s, n) - 1 /\ head[1] = 2
         /\ Lzf!Valid(head) =>
              /\ Used(head) = Len(Recorded(s, n, j + 1))
              /\ p + Len(head) + More(head) <= Len(packed) =>
                   Plain(head, packed, p + Len(head)) = Piece(s, n, j + 1)
<1>0. /\ packed \in Seq(Byte) /\ Len(packed) <= Len(Archived(s, n))
      /\ \A i \in 1 .. Len(packed) : packed[i] = Archived(s, n)[i]
      /\ head \in Seq(Byte) /\ p + Len(head) <= Len(packed)
      /\ Len(head) = IF p + 7 <= Len(packed) THEN 7 ELSE Len(packed) - p
      /\ \A i \in 1 .. Len(head) : head[i] = packed[p + i]
  BY DEF Left, HeadAt
<1> USE <1>0
<1> DEFINE c == Count(s, n)
           w == Archived(s, n)
           r == Recorded(s, n, j + 1)
           b == Piece(s, n, j + 1)
           l == Len(packed)
           h == Len(head)
           z == Len(r)
<1>1. l \in Nat /\ h \in Nat /\ h > 0 /\ c \in Nat /\ Len(w) \in Nat
  <2>1. Len(head) \in Nat \ {0}
    BY EmptySeq
  <2>2. Len(packed) \in Nat
    BY LenProperties
  <2>3. c \in Nat /\ Len(w) \in Nat
    BY CatAt
  <2> QED
    BY <2>1, <2>2, <2>3
<1>2. p + h <= l /\ h = IF p + 7 <= l THEN 7 ELSE l - p
  OBVIOUS
<1>3. j \in 0 .. c - 1
  <2>1. CASE j = c
    <3>1. p = Len(w)
      BY <2>1, CatAt
    <3>2. l <= Len(w)
      OBVIOUS
    <3> HIDE DEF l, h, w
    <3> QED
      BY <1>1, <1>2, <3>1, <3>2
  <2> HIDE DEF c
  <2>2. j \in 0 .. c
    BY DEF c
  <2> QED
    BY <1>1, <2>1, <2>2
<1>4. j + 1 \in 1 .. c
  BY <1>1, <1>3
<1>5. /\ b \in Seq(Byte) /\ Len(b) \in 1 .. Base * Base - 1
      /\ r \in Seq(Byte) /\ z \in Nat /\ z >= 6
  <2> DEFINE k == j + 1
  <2>1. k \in 1 .. Count(s, n)
    BY <1>4
  <2> HIDE DEF k
  <2>2. /\ Piece(s, n, k) \in Seq(Byte) /\ Len(Piece(s, n, k)) \in 1 .. Base * Base - 1
        /\ Recorded(s, n, k) \in Seq(Byte)
        /\ Len(Recorded(s, n, k)) \in Nat /\ Len(Recorded(s, n, k)) >= 6
    BY <2>1, RecordOf
  <2> QED
    BY <2>2 DEF k
<1>6. \A i \in 1 .. z : w[p + i] = r[i]
  <2>1. \A i \in 1 .. Len(Recorded(s, n, j + 1)) :
          Archived(s, n)[Len(Cat(s, n)[j]) + i] = Recorded(s, n, j + 1)[i]
    BY <1>3, CatAt
  <2> QED
    BY <2>1
<1>7. /\ r[1] = 2 /\ r[2] = 3
      /\ \/ /\ r[3] = 0 /\ z = 5 + Len(b)
            /\ r[4] * Base + r[5] = Len(b)
            /\ \A i \in 1 .. Len(b) : r[5 + i] = b[i]
         \/ /\ r[3] = 1 /\ z = 10
            /\ r[4] * Base + r[5] = 3
            /\ r[6] * Base + r[7] = Len(b)
            /\ r[8] = b[1]
            /\ r[9] * Base + r[10] = Len(b)
            /\ \A i \in 1 .. Len(b) : b[i] = b[1]
  <2> HIDE DEF b
  <2>1. r = Lzf!Record(b)
    BY DEF Recorded, b
  <2> QED
    BY <1>5, <2>1, RecordIs
<1>8. \A i \in 1 .. l : packed[i] = w[i]
  OBVIOUS
<1>9. \A i \in 1 .. h : head[i] = packed[p + i]
  OBVIOUS
<1>10. /\ Us(head) = Len(b) <=> Us(head) = Len(Piece(s, n, j + 1))
       /\ Used(head) = z <=> Used(head) = Len(Recorded(s, n, j + 1))
  OBVIOUS
<1>11. Len(b) \in Nat /\ Base \in Nat
  BY <1>5, ArchiveAssumption
<1> HIDE DEF c, w, r, b, l, h, z
<1>12. ASSUME NEW i \in 1 .. z, p + i <= l PROVE packed[p + i] = r[i]
  <2>1. p + i \in 1 .. l
    BY <1>1, <1>5, <1>12
  <2> QED
    BY <1>6, <1>8, <2>1
<1>13. ASSUME NEW i \in 1 .. h, i <= z PROVE head[i] = r[i]
  <2>1. p + i <= l /\ i \in 1 .. z
    BY <1>1, <1>2, <1>13
  <2> QED
    BY <1>9, <1>12, <2>1
<1>14. head[1] = 2
  <2>1. 1 \in 1 .. h /\ 1 <= z
    BY <1>1, <1>5
  <2> QED
    BY <1>7, <1>13, <2>1
<1>15. ASSUME Lzf!Valid(head)
       PROVE  /\ Us(head) = Len(b) /\ Used(head) = z
              /\ p + h + More(head) <= l => Plain(head, packed, p + h) = b
  <2>1. h >= 5 /\ (head[3] = 0 \/ (head[3] = 1 /\ h >= 7)) /\ h <= 7
    BY <1>1, <1>2, <1>15 DEF Lzf!Valid, Lzf!TypeZero, Lzf!TypeOne, h
  <2>2. head[3] = r[3] /\ head[4] = r[4] /\ head[5] = r[5]
    <3>1. 3 \in 1 .. h /\ 3 <= z /\ 4 \in 1 .. h /\ 4 <= z /\ 5 \in 1 .. h /\ 5 <= z
      BY <1>1, <1>5, <2>1
    <3> QED
      BY <1>13, <3>1
  <2>3. Us(head) = Len(b) /\ Used(head) = z /\ (head[3] = 1 => First(head) = 7)
        /\ (head[3] = 0 => First(head) = 5)
    <3>1. CASE r[3] = 0
      <4>1. First(head) = 5
        BY <2>2, <3>1 DEF First
      <4>2. Us(head) = Len(b)
        <5>1. Us(head) = head[4] * Base + head[5]
          BY <4>1 DEF Us
        <5>2. r[4] * Base + r[5] = Len(b)
          BY <1>7, <3>1
        <5> QED
          BY <2>2, <5>1, <5>2
      <4> QED
        BY <1>7, <2>2, <3>1, <4>1, <4>2 DEF Used
    <3>2. CASE r[3] = 1
      <4>1. First(head) = 7
        BY <2>2, <3>2 DEF First
      <4>2. head[6] = r[6] /\ head[7] = r[7]
        <5>1. h >= 7 /\ z = 10
          BY <1>7, <2>1, <2>2, <3>2
        <5> QED
          BY <1>1, <1>13, <5>1
      <4>3. Us(head) = Len(b)
        <5>1. Us(head) = head[6] * Base + head[7]
          BY <4>1 DEF Us
        <5>2. r[6] * Base + r[7] = Len(b)
          BY <1>7, <3>2
        <5> QED
          BY <4>2, <5>1, <5>2
      <4>4. Used(head) = 7 + 3
        BY <1>7, <2>2, <3>2, <4>1 DEF Used
      <4> QED
        BY <1>7, <2>2, <3>2, <4>1, <4>3, <4>4
    <3> QED
      BY <1>7, <3>1, <3>2
  <2>4. ASSUME p + h + More(head) <= l
        PROVE  Plain(head, packed, p + h) = b
    <3> DEFINE from == p + h
               read == Read(packed, from, More(head))
               all == head \o read
    <3>1. from \in Nat /\ h <= 7 /\ from + More(head) <= l
      BY <1>1, <2>1, <2>4
    <3>11. from = p + h
      OBVIOUS
    <3>2. More(head) = (IF z > h THEN z - h ELSE 0) /\ More(head) \in Nat
      BY <1>1, <1>5, <2>3 DEF More, h
    <3>3. /\ all \in Seq(Byte) /\ Len(all) = h + More(head)
          /\ Plain(head, packed, from) \in Seq(Byte)
      <4>1. from \in Nat /\ Len(head) <= 7 /\ from + More(head) <= Len(packed)
        BY <3>1 DEF l, h
      <4> HIDE DEF from
      <4> QED
        <5>1. /\ Plain(head, packed, from) \in Seq(Byte)
              /\ head \o Read(packed, from, More(head)) \in Seq(Byte)
              /\ Len(head \o Read(packed, from, More(head))) = Len(head) + More(head)
          BY <1>15, <4>1, TurnBytes
        <5> QED
          BY <5>1 DEF h
    <3>4. read \in Seq(Byte) /\ Len(read) = More(head)
          /\ \A i \in 1 .. Len(read) : read[i] = packed[from + i]
      <4>1. \A i \in 1 .. Len(read) : read[i] = packed[from + i]
        <5> DEFINE more == More(head)
        <5>1. from \in Nat /\ more \in Nat
          BY <3>1, <3>2
        <5> HIDE DEF from, more
        <5>2. ASSUME NEW i \in 1 .. Len(Read(packed, from, more))
              PROVE  Read(packed, from, more)[i] = packed[from + i]
          BY <5>1, Reads
        <5> QED
          BY <5>2 DEF more
      <4>2. read \in Seq(Byte) /\ Len(read) = More(head)
        <5> HIDE DEF from
        <5> QED
          BY <1>1, <3>1, <3>2, Reads DEF l
      <4> QED
        BY <4>1, <4>2
    <3> HIDE DEF read, from
    <3>5. /\ \A i \in 1 .. h : all[i] = head[i]
          /\ \A i \in 1 .. Len(read) : all[h + i] = read[i]
      BY <3>4, JoinedBytes DEF h
    <3> HIDE DEF all
    <3>6. ASSUME NEW i \in 1 .. z PROVE all[i] = r[i]
      <4>1. CASE i <= h
        BY <1>1, <1>5, <1>13, <3>5, <4>1
      <4>2. CASE i > h
        <5>1. i - h \in 1 .. Len(read) /\ h + (i - h) = i /\ from + (i - h) = p + i
              /\ p + i <= l
          <6>1. Len(read) = z - h /\ (p + h) + (z - h) <= l
            <7>1. z > h
              BY <1>1, <1>5, <4>2
            <7>2. More(head) = z - h
              BY <3>2, <7>1
            <7>3. from + (z - h) <= l
              BY <3>1, <7>2
            <7> QED
              BY <3>4, <3>11, <7>2, <7>3
          <6>2. h \in Nat /\ z \in Nat /\ l \in Nat
            BY <1>1, <1>5
          <6>3. /\ i - h \in 1 .. z - h /\ h + (i - h) = i
                /\ (p + h) + (i - h) = p + i /\ p + i <= l
            BY <4>2, <6>1, <6>2, BehindHead
          <6> QED
            BY <3>11, <6>1, <6>3
        <5>2. all[h + (i - h)] = read[i - h] /\ read[i - h] = packed[from + (i - h)]
          BY <3>4, <3>5, <5>1
        <5> QED
          BY <1>12, <5>1, <5>2
      <4> QED
        BY <1>1, <1>5, <4>1, <4>2
    <3> DEFINE bytes == SubSeq(all, First(head) + 1, z)
    <3>7. z <= Len(all)
      BY <1>1, <1>5, <3>2, <3>3
    <3>8. Plain(head, packed, from) = IF head[3] = 0 THEN bytes ELSE Lzf!Unpacked(bytes)
      BY <2>3 DEF Plain, all, read
    <3> HIDE DEF bytes
    <3>9. CASE r[3] = 0
      <4>1. First(head) = 5 /\ z = 5 + Len(b) /\ \A i \in 1 .. Len(b) : r[5 + i] = b[i]
        BY <1>7, <2>2, <2>3, <3>9
      <4>2. /\ bytes \in Seq(Byte) /\ Len(bytes) = IF 5 <= z THEN z - 5 ELSE 0
            /\ \A i \in 1 .. z - 5 : bytes[i] = all[5 + i]
        <5>1. bytes = SubSeq(all, 5 + 1, z) /\ 5 \in Nat /\ z \in Int
          BY <1>5, <4>1 DEF bytes
        <5>2. all \in Seq(Byte) /\ z <= Len(all)
          BY <3>3, <3>7
        <5> QED
          BY <5>1, <5>2, Part
      <4>3. Len(bytes) = Len(b) /\ z - 5 = Len(b)
        BY <1>5, <1>11, <4>1, <4>2
      <4>4. ASSUME NEW i \in 1 .. Len(bytes) PROVE bytes[i] = b[i]
        <5>1. 5 + i \in 1 .. z /\ i \in 1 .. z - 5 /\ i \in 1 .. Len(b)
          BY <1>11, <4>1, <4>3
        <5> QED
          BY <3>6, <4>1, <4>2, <5>1
      <4>5. bytes = b
        BY <1>5, <4>2, <4>3, <4>4, SeqEqual
      <4> QED
        BY <2>2, <3>8, <3>9, <4>5 DEF from
    <3>10. CASE r[3] = 1
      <4>1. First(head) = 7 /\ z = 10
        BY <1>7, <2>2, <2>3, <3>10
      <4>2. /\ bytes \in Seq(Byte) /\ Len(bytes) = IF 7 <= z THEN z - 7 ELSE 0
            /\ \A i \in 1 .. z - 7 : bytes[i] = all[7 + i]
        <5>1. bytes = SubSeq(all, 7 + 1, z) /\ 7 \in Nat /\ z \in Int
          BY <1>5, <4>1 DEF bytes
        <5>2. all \in Seq(Byte) /\ z <= Len(all)
          BY <3>3, <3>7
        <5> QED
          BY <5>1, <5>2, Part
      <4>3. Len(bytes) = 3 /\ bytes[1] = r[8] /\ bytes[2] = r[9] /\ bytes[3] = r[10]
        <5>1. 7 + 1 \in 1 .. z /\ 7 + 2 \in 1 .. z /\ 7 + 3 \in 1 .. z
              /\ 1 \in 1 .. z - 7 /\ 2 \in 1 .. z - 7 /\ 3 \in 1 .. z - 7
          BY <4>1
        <5>2. bytes[1] = r[7 + 1] /\ bytes[2] = r[7 + 2] /\ bytes[3] = r[7 + 3]
          BY <3>6, <4>2, <5>1
        <5> QED
          BY <4>1, <4>2, <5>2
      <4>4. Lzf!Unpacked(bytes) = [k \in 1 .. Len(b) |-> b[1]]
        BY <1>7, <3>10, <4>3 DEF Lzf!Unpacked
      <4>5. b = [k \in 1 .. Len(b) |-> b[1]]
        <5>1. b = [k \in 1 .. Len(b) |-> b[k]]
          BY <1>5, LenProperties
        <5> QED
          BY <1>7, <3>10, <5>1
      <4> QED
        <5>1. Lzf!Unpacked(bytes) = b
          BY <4>4, <4>5, Zenon
        <5>2. head[3] # 0
          BY <2>2, <3>10
        <5> QED
          BY <3>8, <5>1, <5>2 DEF from
    <3>12. r[3] = 0 \/ r[3] = 1
      BY <1>7
    <3> QED
      BY <3>9, <3>10, <3>12
  <2> QED
    BY <2>3, <2>4
<1> QED
  BY <1>3, <1>14, <1>15 DEF c, b, r, z, l, h

------------------------------------------------------------------------------
(* The inductive invariant *)

\* What there can be in a file, a chunk or the memory of 6unpack.
Symbols == Nat \cup {Name, End, Junk}
Fields  == DOMAIN Six!NoHeader

\* lzf keeps to the types, and reads and writes files that are there.
LzfTypes ==
  codec = "lzf" =>
    /\ mode \in {"none", "compress", "uncompress", "lzcat"} /\ "exists" \notin faults
    /\ open = FALSE /\ over \in Seq(Byte) /\ Len(over) <= 2
    /\ disk["plain"] \in Seq(Byte) \cup {Absent} /\ disk["packed"] \in Seq(Byte) \cup {Absent}
    /\ mode = "compress" =>
         goal = "pack" /\ disk["plain"] \in Seq(Byte) /\ disk["packed"] \in Seq(Byte)
    /\ mode = "uncompress" =>
         goal = "unpack" /\ disk["packed"] \in Seq(Byte) /\ disk["plain"] \in Seq(Byte)
    /\ mode = "lzcat" =>
         goal = "unpack" /\ disk["packed"] \in Seq(Byte) /\ disk["copy"] \in Seq(Byte)

\* A file is the beginning of the original s.
Begins(file, s) == file = Absent \/ (file \in Seq(Byte) /\ IsPrefix(file, s))

\* lzf has read the file up to place a and packed the blocks there.
Packing(s, n, a, packed) ==
  \E j \in 0 .. Count(s, n) : a = Behind(s, n, j) /\ packed = Cat(s, n)[j]

\* lzf has read the archive up to place a, restored blocks, and keeps the bytes
\* it read behind them.
Unpacking(s, n, a, kept, packed, written) ==
  /\ kept \in Seq(Byte) /\ Len(kept) <= 2 /\ a <= Len(packed)
  /\ \E j \in 0 .. Count(s, n) :
       /\ a = Len(Cat(s, n)[j]) + Len(kept)
       /\ \A i \in 1 .. Len(kept) : kept[i] = packed[Len(Cat(s, n)[j]) + i]
       /\ written = SubSeq(s, 1, Behind(s, n, j))

LzfInv ==
  codec = "lzf" /\ "read" \notin faults =>
    /\ Begins(disk["plain"], original) /\ Begins(disk["copy"], original)
    /\ goal = "pack" => disk["plain"] = original
    /\ mode = "compress" => Packing(original, block, at, disk["packed"])
    /\ goal = "unpack" =>
         \E n \in Blocks :
           /\ Left(original, n, disk["packed"])
           /\ "cut" \notin faults => disk["packed"] = Archived(original, n)
           /\ mode = "uncompress" =>
                Unpacking(original, n, at, over, disk["packed"], disk["plain"])
           /\ mode = "lzcat" =>
                Unpacking(original, n, at, over, disk["packed"], disk["copy"])
    /\ goal = "done" /\ "cut" \notin faults => disk["plain"] = original

\* A chunk of an archive of 6pack, damaged or not.
ChunkOk(chunk) ==
  /\ "bytes" \in DOMAIN chunk /\ chunk["bytes"] \in Seq(Symbols)
  /\ "size" \in DOMAIN chunk => chunk["size"] \in Nat

Chunks(packed) == \E S : packed \in Seq(S) /\ \A chunk \in S : ChunkOk(chunk)

\* What the variables of 6unpack hold.
MemoryOk(held) ==
  /\ DOMAIN held = {"header", "buffer", "code", "size"}
  /\ DOMAIN held["header"] = Fields /\ held["header"]["size"] \in Nat
  /\ held["buffer"] \in Seq(Symbols) /\ held["code"] \in Seq(Symbols)

SixTypes ==
  codec = "6pack" =>
    /\ mode \in {"none", "6pack", "6unpack"} /\ disk["plain"] = original
    /\ disk["copy"] \in Seq(Symbols) \cup {Absent, Other}
    /\ open \in BOOLEAN /\ (open => disk["copy"] \in Seq(Symbols))
    /\ "exists" \in faults => disk["copy"] = Other
    /\ goal = "pack" => disk["copy"] = Absent
    /\ mode = "6pack" => goal = "pack"
    /\ mode = "6unpack" => goal = "unpack"
    /\ mode = "6pack" \/ goal # "pack" => Chunks(disk["packed"]) /\ block >= Small
    /\ MemoryOk(memory)

\* The k-th chunk of an archive of s.
Good(s, n, k) ==
  IF k = 1 THEN Six!Chunk(1, 0, <<Len(s), Name>>, 0) ELSE Six!Data(Piece(s, n, k - 1))

\* The archive of the first j blocks.
Whole6(s, n, packed, j) ==
  Len(packed) = j + 1 /\ \A k \in 1 .. j + 1 : packed[k] = Good(s, n, k)

\* A chunk that has its header, and bytes that may end early or be damaged.
Matches(chunk, good, wrong) ==
  /\ \A field \in Fields : field \in DOMAIN chunk /\ chunk[field] = good[field]
  /\ Len(chunk["bytes"]) <= Len(good["bytes"])
  /\ "changed" \notin wrong =>
       \A i \in 1 .. Len(chunk["bytes"]) : chunk["bytes"][i] = good["bytes"][i]

Left6(s, n, packed, wrong) ==
  /\ Len(packed) <= Count(s, n) + 1
  /\ \A k \in 1 .. Len(packed) : Matches(packed[k], Good(s, n, k), wrong)

\* What 6unpack has written: blocks it has verified and a part of one it has not.
Copied(s, n, copy, wrong) ==
  copy = Absent \/
  \E k \in 0 .. Count(s, n), rest \in Seq(Symbols) :
    /\ copy = SubSeq(s, 1, Behind(s, n, k)) \o rest
    /\ rest # <<>> => Behind(s, n, k) = k * n /\ Len(rest) < n
    /\ "changed" \notin wrong => \A i \in 1 .. Len(rest) :
         Behind(s, n, k) + i <= Len(s) /\ rest[i] = s[Behind(s, n, k) + i]

\* 6unpack has read the first a chunks, and verified them.
Verified(s, n, a, held, copy) ==
  a >= 1 /\ held["size"] = Len(s) /\ copy = SubSeq(s, 1, Behind(s, n, a - 1))

SixInv ==
  codec = "6pack" /\ faults \cap {"header", "write", "exists"} = {} =>
    /\ mode = "6pack" =>
         \E j \in 0 .. Count(original, block) :
           at = Behind(original, block, j) /\ Whole6(original, block, disk["packed"], j)
    /\ goal # "pack" =>
         /\ Left6(original, block, disk["packed"], faults)
         /\ faults \cap {"cut", "changed"} = {} =>
              Whole6(original, block, disk["packed"], Count(original, block))
    /\ mode = "6unpack" =>
         /\ at <= Len(disk["packed"])
         /\ open => Verified(original, block, at, memory, disk["copy"])
    /\ Copied(original, block, disk["copy"], faults)

\* Nothing stops 6unpack if nothing happened but a read of 6pack that failed.
SixWhole ==
  codec = "6pack" /\ faults \subseteq {"read"} =>
    /\ goal = "unpack" /\ mode = "none" => disk["copy"] = Absent
    /\ mode = "6unpack" => IF at = 0 THEN disk["copy"] = Absent ELSE open
    /\ goal = "done" => disk["copy"] = original

Shape ==
  /\ codec \in {"lzf", "6pack"} /\ goal \in {"pack", "unpack", "done"}
  /\ original \in Contents /\ block \in Blocks /\ at \in Nat /\ faults \subseteq Faults
  /\ DOMAIN disk = Names

IInv == Shape /\ LzfTypes /\ LzfInv /\ SixTypes /\ SixInv /\ SixWhole

------------------------------------------------------------------------------
(* The steps of lzf *)

\* A file is the beginning of itself.
LEMMA BeginsItself ==
  ASSUME NEW s \in Seq(Byte)
  PROVE  Begins(s, s) /\ Begins(<<>>, s) /\ Begins(Absent, s)
<1>1. Len(s) \in Nat /\ <<>> \in Seq(Byte) /\ Len(<<>>) = 0
  BY LenProperties, EmptySeq
<1>2. IsPrefix(s, s)
  BY <1>1, Prefix
<1>3. IsPrefix(<<>>, s)
  <2> DEFINE none == <<>>
  <2>1. none \in Seq(Byte) /\ Len(none) <= Len(s) /\ \A i \in 1 .. Len(none) : none[i] = s[i]
    BY <1>1
  <2> HIDE DEF none
  <2>2. IsPrefix(none, s)
    BY <2>1, Prefix
  <2> QED
    BY <2>2 DEF none
<1> QED
  BY <1>1, <1>2, <1>3 DEF Begins

\* A tool that begins has packed no block and restored none.
LEMMA Beginning ==
  ASSUME NEW s \in Seq(Byte), NEW n \in Blocks
  PROVE  /\ Packing(s, n, 0, <<>>)
         /\ \A packed \in Seq(Byte) : Unpacking(s, n, 0, <<>>, packed, <<>>)
<1>1. /\ Count(s, n) \in Nat /\ Behind(s, n, 0) = 0 /\ Len(s) \in Nat
      /\ Cat(s, n)[0] = <<>> /\ Len(Cat(s, n)[0]) = 0 /\ 0 \in 0 .. Count(s, n)
  BY BlockSize, Blocking, CatAt, CatIs DEF IsCat
<1>2. Packing(s, n, 0, <<>>)
  BY <1>1, Zenon DEF Packing
<1>3. ASSUME NEW packed \in Seq(Byte) PROVE Unpacking(s, n, 0, <<>>, packed, <<>>)
  <2>1. <<>> \in Seq(Byte) /\ Len(<<>>) = 0 /\ Len(packed) \in Nat
    BY EmptySeq, LenProperties
  <2>2. SubSeq(s, 1, 0) = <<>>
    BY SubSeqEmpty
  <2>3. 0 = Len(Cat(s, n)[0]) + Len(<<>>) /\ <<>> = SubSeq(s, 1, Behind(s, n, 0))
    BY <1>1, <2>1, <2>2
  <2>4. \A i \in 1 .. Len(<<>>) : <<>>[i] = packed[Len(Cat(s, n)[0]) + i]
    BY <2>1
  <2>5. 0 <= Len(packed) /\ Len(<<>>) <= 2
    BY <2>1
  <2> QED
    BY <1>1, <2>1, <2>3, <2>4, <2>5 DEF Unpacking
<1> QED
  BY <1>2, <1>3

\* A turn of compress_fd(): the next block is packed, or all are.
LEMMA CompressTurn ==
  ASSUME NEW s \in Seq(Byte), NEW n \in Blocks, NEW a, NEW packed, Packing(s, n, a, packed)
  PROVE  /\ Read(s, a, n) = <<>> => packed = Archived(s, n)
         /\ Read(s, a, n) # <<>> =>
              Packing(s, n, a + Len(Read(s, a, n)), packed \o Lzf!Record(Read(s, a, n)))
<1>1. PICK j \in 0 .. Count(s, n) : a = Behind(s, n, j) /\ packed = Cat(s, n)[j]
  BY DEF Packing
<1>2. n \in Nat \ {0} /\ Count(s, n) \in Nat /\ Behind(s, n, Count(s, n)) = Len(s)
  BY BlockSize, Blocking
<1>3. CASE j = Count(s, n)
  <2>1. Read(s, a, n) = <<>>
    BY <1>1, <1>2, <1>3, PieceIs
  <2> QED
    BY <1>1, <1>3, <2>1 DEF Archived
<1>4. CASE j # Count(s, n)
  <2> DEFINE k == j + 1
  <2>1. k \in 1 .. Count(s, n) /\ k \in 0 .. Count(s, n) /\ k - 1 = j /\ j \in 0 .. Count(s, n) - 1
    BY <1>2, <1>4
  <2>2. Cat(s, n)[k] = Cat(s, n)[j] \o Recorded(s, n, k)
    BY <2>1, CatAt
  <2> HIDE DEF k
  <2>3. Piece(s, n, k) = Read(s, a, n)
    BY <1>1, <2>1 DEF Piece
  <2>4. /\ Len(Piece(s, n, k)) \in 1 .. n
        /\ Behind(s, n, k) = Behind(s, n, k - 1) + Len(Piece(s, n, k))
    BY <1>2, <2>1, PieceIs
  <2>5. Behind(s, n, k) = a + Len(Read(s, a, n))
    BY <1>1, <2>1, <2>3, <2>4
  <2>6. Cat(s, n)[k] = packed \o Lzf!Record(Read(s, a, n))
    BY <1>1, <2>2, <2>3 DEF Recorded
  <2>7. Packing(s, n, a + Len(Read(s, a, n)), packed \o Lzf!Record(Read(s, a, n)))
    BY <2>1, <2>5, <2>6 DEF Packing
  <2>8. Read(s, a, n) # <<>>
    BY <2>3, <2>4, EmptySeq
  <2> QED
    BY <2>7, <2>8
<1> QED
  BY <1>3, <1>4

\* What is restored so far is the beginning of the file.
LEMMA WrittenIs ==
  ASSUME NEW s \in Seq(Byte), NEW m \in Nat, m <= Len(s)
  PROVE  /\ SubSeq(s, 1, m) \in Seq(Byte) /\ IsPrefix(SubSeq(s, 1, m), s)
         /\ Begins(SubSeq(s, 1, m), s)
<1> DEFINE w == SubSeq(s, 1, m)
<1>1. Len(s) \in Nat
  BY LenProperties
<1>2. /\ w \in Seq(Byte) /\ Len(w) = (IF 0 <= m THEN m - 0 ELSE 0)
      /\ \A i \in 1 .. m - 0 : w[i] = s[0 + i]
  <2>1. m \in Int /\ 0 \in Nat /\ w = SubSeq(s, 0 + 1, m)
    OBVIOUS
  <2> HIDE DEF w
  <2> QED
    BY <2>1, Part
<1> HIDE DEF w
<1>3. Len(w) = m
  BY <1>2
<1>4. ASSUME NEW i \in 1 .. Len(w) PROVE w[i] = s[i]
  <2>1. i \in 1 .. m - 0 /\ 0 + i = i
    BY <1>3
  <2> QED
    BY <1>2, <2>1
<1>5. IsPrefix(w, s)
  BY <1>2, <1>3, <1>4, Prefix
<1> QED
  BY <1>2, <1>5 DEF Begins, w

\* The same where the block behind the first j ones begins.
\* It says that the block is all there.
AllThere(packed, p, head) ==
  /\ HeadAt(packed, p, head) /\ head # <<>>
  /\ Lzf!Valid(head) /\ p + Len(head) + More(head) <= Len(packed)

\* It is the one of block j + 1, which is decoded.
Holds(s, n, j, packed, head) ==
  /\ Used(head) = Len(Recorded(s, n, j + 1))
  /\ Plain(head, packed, Len(Cat(s, n)[j]) + Len(head)) = Piece(s, n, j + 1)

LEMMA NextIs ==
  ASSUME NEW s \in Seq(Byte), NEW n \in Blocks, NEW packed, Left(s, n, packed),
         NEW j \in 0 .. Count(s, n), NEW head, AllThere(packed, Len(Cat(s, n)[j]), head)
  PROVE  j \in 0 .. Count(s, n) - 1 /\ Holds(s, n, j, packed, head)
<1> DEFINE p == Len(Cat(s, n)[j])
<1>1. p \in Nat
  BY CatAt
<1>2. /\ p = Len(Cat(s, n)[j]) /\ HeadAt(packed, p, head) /\ head # <<>> /\ Lzf!Valid(head)
      /\ p + Len(head) + More(head) <= Len(packed)
  BY DEF AllThere
<1> HIDE DEF p
<1>3. /\ j \in 0 .. Count(s, n) - 1
      /\ Used(head) = Len(Recorded(s, n, j + 1))
      /\ p + Len(head) + More(head) <= Len(packed) =>
           Plain(head, packed, p + Len(head)) = Piece(s, n, j + 1)
  BY <1>1, <1>2, Decoded
<1> QED
  BY <1>2, <1>3 DEF Holds, p

\* A turn of uncompress_fd() reads the header of the next block, or nothing
\* behind the last one.
LEMMA UncompressHead ==
  ASSUME NEW s \in Seq(Byte), NEW n \in Blocks, NEW packed, Left(s, n, packed),
         NEW j \in 0 .. Count(s, n), NEW head, HeadAt(packed, Len(Cat(s, n)[j]), head)
  PROVE  /\ head = <<>> => (packed = Archived(s, n) => j = Count(s, n))
         /\ head # <<>> => head[1] = 2
<1> DEFINE p == Len(Cat(s, n)[j])
<1>1. p \in Nat
  BY CatAt
<1>2. p = Len(Cat(s, n)[j]) /\ HeadAt(packed, p, head)
  OBVIOUS
<1> HIDE DEF p
<1>3. ASSUME head = <<>>, packed = Archived(s, n), j # Count(s, n) PROVE FALSE
  <2>1. p = Len(Archived(s, n)) /\ Len(Archived(s, n)) \in Nat
    <3>1. /\ Len(head) = (IF p + 7 <= Len(packed) THEN 7 ELSE Len(packed) - p)
          /\ Len(packed) \in Nat /\ Len(head) = 0
      BY <1>2, <1>3, EmptySeq DEF HeadAt
    <3> QED
      BY <1>1, <1>3, <3>1
  <2>2. j \in 0 .. Count(s, n) - 1 /\ j + 1 \in 1 .. Count(s, n) /\ j + 1 \in 0 .. Count(s, n)
    <3>1. Count(s, n) \in Nat
      BY CatAt
    <3> QED
      BY <1>3, <3>1
  <2>3. Len(Cat(s, n)[j + 1]) = p + Len(Recorded(s, n, j + 1))
    BY <1>2, <2>2, CatAt
  <2>4. Len(Cat(s, n)[j + 1]) \in 0 .. Len(Archived(s, n))
    BY <2>2, CatAt
  <2>5. Len(Recorded(s, n, j + 1)) \in Nat /\ Len(Recorded(s, n, j + 1)) >= 6
    BY <2>2, RecordOf
  <2> QED
    BY <1>1, <2>1, <2>3, <2>4, <2>5
<1>4. ASSUME head # <<>> PROVE head[1] = 2
  BY <1>1, <1>2, <1>4, Decoded
<1> QED
  BY <1>3, <1>4

\* What a turn of uncompress_fd() reads: a header, and from where the rest of
\* its block.
Turn(packed, a, kept, head, from) ==
  /\ head = kept \o Read(packed, a, 7 - Len(kept))
  /\ from = a + Len(Read(packed, a, 7 - Len(kept)))

\* It restores the block, all of it or a part.
Restored(s, n, packed, written, head, from) ==
  /\ Unpacking(s, n, from + More(head), Lzf!Kept(head, Used(head)), packed,
               written \o Plain(head, packed, from))
  /\ \A m \in 0 .. Len(Plain(head, packed, from)) :
       Begins(written \o SubSeq(Plain(head, packed, from), 1, m), s)

\* What is left of a header behind a block that ended in it.
LEMMA KeptPlace ==
  ASSUME NEW p \in Nat, NEW h \in Nat, NEW u \in Nat, h <= 7, u >= 5, u <= h
  PROVE  (p + h) + 0 = (p + u) + (h - u) /\ h - u <= 2
OBVIOUS

\* It restores the next block if all of it is there.
LEMMA UncompressTurn ==
  ASSUME NEW s \in Seq(Byte), NEW n \in Blocks, NEW packed, Left(s, n, packed),
         NEW a \in Nat, NEW kept, NEW written, Unpacking(s, n, a, kept, packed, written),
         NEW head, NEW from, Turn(packed, a, kept, head, from)
  PROVE  /\ Begins(written, s)
         /\ head # <<>> => head[1] = 2
         /\ head = <<>> => (packed = Archived(s, n) => written = s)
         /\ Lzf!Valid(head) /\ from + More(head) <= Len(packed) =>
              Restored(s, n, packed, written, head, from)
<1>0. /\ head = kept \o Read(packed, a, 7 - Len(kept))
      /\ from = a + Len(Read(packed, a, 7 - Len(kept)))
  BY DEF Turn
<1> USE <1>0
<1> DEFINE P(j) == Len(Cat(s, n)[j])
<1>1. /\ kept \in Seq(Byte) /\ Len(kept) <= 2 /\ a <= Len(packed)
      /\ \E j \in 0 .. Count(s, n) :
           /\ a = P(j) + Len(kept)
           /\ \A i \in 1 .. Len(kept) : kept[i] = packed[P(j) + i]
           /\ written = SubSeq(s, 1, Behind(s, n, j))
  BY DEF Unpacking
<1>2. PICK j \in 0 .. Count(s, n) :
           /\ a = P(j) + Len(kept)
           /\ \A i \in 1 .. Len(kept) : kept[i] = packed[P(j) + i]
           /\ written = SubSeq(s, 1, Behind(s, n, j))
  BY <1>1
<1> DEFINE p == P(j)
           h == Len(head)
           b == Behind(s, n, j)
<1>3. /\ n \in Nat \ {0} /\ Len(s) \in Nat /\ Count(s, n) \in Nat
      /\ \A k \in 0 .. Count(s, n) : Behind(s, n, k) \in 0 .. Len(s)
      /\ Behind(s, n, Count(s, n)) = Len(s)
  BY BlockSize, Blocking
<1>4. p \in Nat /\ p <= Len(Archived(s, n)) /\ Len(Archived(s, n)) \in Nat
  <2>1. /\ Len(Archived(s, n)) \in Nat
        /\ \A i \in 0 .. Count(s, n) : Len(Cat(s, n)[i]) \in 0 .. Len(Archived(s, n))
    BY CatAt
  <2> QED
    BY <2>1
<1>5. /\ HeadAt(packed, p, head) /\ from = p + h
      /\ head = <<>> => (packed = Archived(s, n) => j = Count(s, n))
      /\ head # <<>> => head[1] = 2
  <2>1. KeptAt(packed, p, kept) /\ a = p + Len(kept) /\ packed \in Seq(Byte)
    BY <1>1, <1>2 DEF KeptAt, Left
  <2>2. HeadAt(packed, p, head) /\ from = p + h
    <3> HIDE DEF p
    <3> QED
      <4>1. p \in Nat
        BY <1>4
      <4>2. KeptAt(packed, p, kept) /\ a = p + Len(kept) /\ packed \in Seq(Byte)
        BY <2>1
      <4>3. /\ HeadAt(packed, p, kept \o Read(packed, p + Len(kept), 7 - Len(kept)))
            /\ (p + Len(kept)) + Len(Read(packed, p + Len(kept), 7 - Len(kept))) =
                 p + Len(kept \o Read(packed, p + Len(kept), 7 - Len(kept)))
        BY <4>1, <4>2, HeadRead
      <4> QED
        BY <4>2, <4>3, Zenon DEF h
  <2>3. /\ head = <<>> => (packed = Archived(s, n) => j = Count(s, n))
        /\ head # <<>> => head[1] = 2
    BY <2>2, UncompressHead
  <2> QED
    BY <2>2, <2>3
<1>9. /\ head \in Seq(Byte) /\ h \in Nat /\ h <= 7 /\ Len(packed) \in Nat
      /\ \A i \in 1 .. h : head[i] = packed[p + i]
  BY <1>5 DEF HeadAt
<1>6. Begins(written, s)
  BY <1>2, <1>3, WrittenIs
<1>7. ASSUME head = <<>>, packed = Archived(s, n) PROVE written = s
  <2>1. j = Count(s, n)
    BY <1>5, <1>7
  <2>2. written = SubSeq(s, 1, Len(s))
    BY <1>2, <1>3, <2>1
  <2> QED
    BY <2>2, SubSeqFull
<1>8. ASSUME Lzf!Valid(head), from + More(head) <= Len(packed)
      PROVE  /\ Unpacking(s, n, from + More(head), Lzf!Kept(head, Used(head)), packed,
                          written \o Plain(head, packed, from))
             /\ \A m \in 0 .. Len(Plain(head, packed, from)) :
                  Begins(written \o SubSeq(Plain(head, packed, from), 1, m), s)
  <2> DEFINE k == j + 1
             piece == Piece(s, n, k)
             u == Used(head)
             more == More(head)
             keep == Lzf!Kept(head, u)
  <2>1. head # <<>>
    <3>1. h >= 5
      BY <1>8 DEF Lzf!Valid, Lzf!TypeZero, h
    <3>2. Len(<<>>) = 0
      BY EmptySeq
    <3> QED
      BY <3>1, <3>2
  <2>2. /\ j \in 0 .. Count(s, n) - 1
        /\ u = Len(Recorded(s, n, k))
        /\ Plain(head, packed, from) = piece
    <3>1. p = Len(Cat(s, n)[j])
      OBVIOUS
    <3> HIDE DEF p
    <3>2. /\ j \in 0 .. Count(s, n) - 1
          /\ Used(head) = Len(Recorded(s, n, j + 1))
          /\ p + Len(head) + More(head) <= Len(packed) =>
               Plain(head, packed, p + Len(head)) = Piece(s, n, j + 1)
      <4>1. AllThere(packed, Len(Cat(s, n)[j]), head)
        BY <1>5, <1>8, <2>1, <3>1 DEF AllThere
      <4>2. j \in 0 .. Count(s, n) - 1 /\ Holds(s, n, j, packed, head)
        BY <4>1, NextIs
      <4> QED
        BY <1>8, <3>1, <4>2, Zenon DEF Holds
    <3> QED
      BY <1>5, <1>8, <3>2
  <2>3. k \in 1 .. Count(s, n) /\ k \in 0 .. Count(s, n) /\ k - 1 = j
    BY <1>3, <2>2
  <2>4. P(k) = p + u
    <3>1. Len(Cat(s, n)[j + 1]) = Len(Cat(s, n)[j]) + Len(Recorded(s, n, j + 1))
      BY <2>2, CatAt
    <3> QED
      BY <2>2, <3>1
  <2>5. /\ u \in Nat /\ u >= 5 /\ more \in Nat /\ keep \in Seq(Byte)
        /\ Len(keep) = IF u <= h THEN h - u ELSE 0
    <3>1. head \in Seq(Byte) /\ Len(head) <= 7 /\ packed \in Seq(Byte) /\ from \in Nat
      BY <1>4, <1>5, <1>9 DEF Left
    <3>2. /\ Used(head) \in Nat /\ Used(head) >= 5 /\ More(head) \in Nat
          /\ Lzf!Kept(head, Used(head)) \in Seq(Byte)
          /\ Len(Lzf!Kept(head, Used(head))) =
               IF Used(head) <= Len(head) THEN Len(head) - Used(head) ELSE 0
      BY <1>8, <3>1, TurnTypes
    <3> QED
      BY <3>2
  <2>6. more = IF u > h THEN u - h ELSE 0
    BY DEF More
  <2>7. written \o piece = SubSeq(s, 1, Behind(s, n, k))
    <3>1. SubSeq(s, 1, Behind(s, n, k - 1)) \o piece = SubSeq(s, 1, Behind(s, n, k))
      <4> HIDE DEF k
      <4> QED
        BY <1>3, <2>3, OneMore
    <3> QED
      BY <1>2, <2>3, <3>1
  <2> HIDE DEF k
  <2>8. /\ from + more = P(k) + Len(keep) /\ Len(keep) <= 2
        /\ \A i \in 1 .. Len(keep) : keep[i] = packed[P(k) + i]
    <3>0. /\ P(k) = p + u /\ p \in Nat /\ h \in Nat /\ h <= 7 /\ from = p + h
          /\ u \in Nat /\ u >= 5 /\ more = (IF u > h THEN u - h ELSE 0)
          /\ Len(keep) = IF u <= h THEN h - u ELSE 0
      BY <1>4, <1>5, <1>9, <2>4, <2>5, <2>6
    <3> HIDE DEF p, h, P, u, more, keep
    <3>1. CASE u > h
      <4>1. Len(keep) = 0 /\ from + more = P(k) + Len(keep)
        BY ONLY <3>0, <3>1
      <4> QED
        BY <4>1
    <3>2. CASE u <= h
      <4>1. Len(keep) = h - u /\ more = 0
        BY ONLY <3>0, <3>2
      <4>2. from + more = P(k) + Len(keep) /\ Len(keep) <= 2
        <5>1. (p + h) + 0 = (p + u) + (h - u) /\ h - u <= 2
          BY <3>0, <3>2, KeptPlace
        <5> QED
          BY <3>0, <4>1, <5>1, Zenon
      <4>3. ASSUME NEW i \in 1 .. Len(keep) PROVE keep[i] = packed[P(k) + i]
        <5>1. i \in 1 .. h - u
          BY <4>1
        <5>2. keep[i] = head[u + i]
          <6>1. keep = SubSeq(head, u + 1, h)
            BY DEF Lzf!Kept, h, keep
          <6>2. u \in Nat /\ h \in Int /\ h <= Len(head)
            BY <1>9, <2>5 DEF h
          <6>4. head \in Seq(Byte)
            BY <1>9
          <6> HIDE DEF keep, h
          <6>3. \A l \in 1 .. h - u : SubSeq(head, u + 1, h)[l] = head[u + l]
            BY ONLY <6>2, <6>4, Part
          <6> QED
            BY ONLY <5>1, <6>1, <6>3
        <5>3. u + i \in 1 .. h /\ p + (u + i) = P(k) + i
          BY ONLY <3>0, <3>2, <5>1
        <5>4. head[u + i] = packed[p + (u + i)]
          BY <1>9, <5>3
        <5> QED
          BY <5>2, <5>3, <5>4
      <4> QED
        BY <4>2, <4>3
    <3> QED
      BY <3>0, <3>1, <3>2
  <2>9. Unpacking(s, n, from + more, keep, packed, written \o piece)
    <3> HIDE DEF more, keep
    <3>1. from + more <= Len(packed)
      BY <1>8 DEF more
    <3> QED
      BY <2>3, <2>5, <2>7, <2>8, <3>1 DEF Unpacking
  <2>10. ASSUME NEW m \in 0 .. Len(piece)
         PROVE  Begins(written \o SubSeq(piece, 1, m), s)
    <3>1. /\ SubSeq(s, 1, Behind(s, n, k - 1)) \o SubSeq(piece, 1, m) =
               SubSeq(s, 1, Behind(s, n, k - 1) + m)
          /\ Behind(s, n, k - 1) + m \in 0 .. Len(s)
      BY <1>3, <2>3, PartMore
    <3>2. b + m \in Nat /\ b + m <= Len(s) /\ written \o SubSeq(piece, 1, m) = SubSeq(s, 1, b + m)
      <4>1. Behind(s, n, k - 1) = b /\ written = SubSeq(s, 1, b)
        BY <1>2, <2>3
      <4>2. b + m \in 0 .. Len(s) /\ written \o SubSeq(piece, 1, m) = SubSeq(s, 1, b + m)
        BY <3>1, <4>1, Zenon
      <4>3. Len(s) \in Nat
        BY LenProperties
      <4> HIDE DEF b, piece
      <4>4. b + m \in Nat /\ b + m <= Len(s)
        BY ONLY <4>2, <4>3
      <4> QED
        BY ONLY <4>2, <4>4
    <3> HIDE DEF b
    <3> QED
      BY <3>2, WrittenIs
  <2> QED
    BY <2>2, <2>9, <2>10
<1> QED
  BY <1>5, <1>6, <1>7, <1>8 DEF Restored

\* What may have gone wrong, and what did in this step.
LEMMA Faulty ==
  ASSUME NEW kind, Lzf!Fault(kind), faults \subseteq Faults
  PROVE  faults' = faults \cup {kind} /\ faults' \subseteq Faults
BY DEF Lzf!Fault

\* A tool that stops leaves what there is.
LEMMA LzfStops ==
  ASSUME Shape, LzfTypes, LzfInv, codec = "lzf", mode' = "none",
         UNCHANGED <<codec, open, goal, original, block, disk, at, over>>,
         faults \subseteq faults', faults' \subseteq Faults, "exists" \notin faults'
  PROVE  Shape' /\ LzfTypes' /\ LzfInv'
<1>1. Shape'
  BY DEF Shape
<1>2. LzfTypes'
  BY DEF LzfTypes
<1>3. ASSUME "read" \notin faults' PROVE LzfInv'
  <2>1. "read" \notin faults /\ ("cut" \notin faults' => "cut" \notin faults)
    BY <1>3
  <2>2. /\ Begins(disk["plain"], original) /\ Begins(disk["copy"], original)
        /\ goal = "pack" => disk["plain"] = original
        /\ goal = "unpack" =>
             \E n \in Blocks : /\ Left(original, n, disk["packed"])
                               /\ "cut" \notin faults => disk["packed"] = Archived(original, n)
        /\ goal = "done" /\ "cut" \notin faults => disk["plain"] = original
    BY <2>1 DEF LzfInv
  <2> QED
    BY <2>1, <2>2 DEF LzfInv
<1> QED
  BY <1>1, <1>2, <1>3 DEF LzfInv

\* A tool begins.
LEMMA LzfRunFile ==
  ASSUME Shape, LzfTypes, LzfInv, codec = "lzf", UNCHANGED <<codec, open, memory>>,
         NEW m \in DOMAIN Lzf!Input, Lzf!RunFile(m)
  PROVE  Shape' /\ LzfTypes' /\ LzfInv'
<1>1. /\ m \in {"compress", "uncompress", "lzcat"} /\ disk[Lzf!Input[m]] # Absent
      /\ goal = (IF m = "compress" THEN "pack" ELSE "unpack")
      /\ mode' = m /\ disk' = [disk EXCEPT ![Lzf!Output[m]] = <<>>] /\ at' = 0
      /\ block' \in Blocks /\ over' = <<>> /\ UNCHANGED <<goal, original, faults>>
  BY DEF Lzf!RunFile, Lzf!Create, Lzf!Input
<1>2. Lzf!Input.compress = "plain" /\ Lzf!Input.uncompress = "packed" /\ Lzf!Input.lzcat = "packed"
  BY DEF Lzf!Input
<1>3. Lzf!Output.compress = "packed" /\ Lzf!Output.uncompress = "plain" /\ Lzf!Output.lzcat = "copy"
  BY DEF Lzf!Output
<1>4. original \in Seq(Byte) /\ DOMAIN disk = Names /\ DOMAIN disk' = Names
  BY <1>1, ArchiveAssumption DEF Shape
<1>5. Shape'
  BY <1>1, <1>4 DEF Shape
<1>6. <<>> \in Seq(Byte) /\ Len(<<>>) = 0 /\ Begins(<<>>, original) /\ Begins(original, original)
  BY <1>4, EmptySeq, BeginsItself
<1>10. /\ codec' = codec /\ open' = FALSE /\ "exists" \notin faults'
       /\ over' \in Seq(Byte) /\ Len(over') <= 2
       /\ disk["plain"] \in Seq(Byte) \cup {Absent} /\ disk["packed"] \in Seq(Byte) \cup {Absent}
  BY <1>1, <1>6 DEF LzfTypes
<1>7. CASE m = "compress"
  <2>1. /\ disk'["packed"] = <<>> /\ disk'["plain"] = disk["plain"] /\ disk'["copy"] = disk["copy"]
        /\ mode' = "compress" /\ goal = "pack" /\ disk["plain"] # Absent
    BY <1>1, <1>2, <1>3, <1>4, <1>7 DEF Names
  <2>6. disk'["plain"] \in Seq(Byte) /\ disk'["packed"] \in Seq(Byte)
    BY <1>6, <1>10, <2>1
  <2>2. LzfTypes'
    BY <1>1, <1>10, <2>1, <2>6 DEF LzfTypes
  <2>3. Packing(original, block', 0, <<>>)
    BY <1>1, <1>4, Beginning
  <2>4. LzfInv'
    BY <1>1, <2>1, <2>3 DEF LzfInv
  <2> QED
    BY <1>5, <2>2, <2>4
<1>8. CASE m = "uncompress"
  <2>1. /\ disk'["plain"] = <<>> /\ disk'["packed"] = disk["packed"] /\ disk'["copy"] = disk["copy"]
        /\ mode' = "uncompress" /\ goal = "unpack" /\ disk["packed"] # Absent
    BY <1>1, <1>2, <1>3, <1>4, <1>8 DEF Names
  <2>6. disk'["plain"] \in Seq(Byte) /\ disk'["packed"] \in Seq(Byte)
    BY <1>6, <1>10, <2>1
  <2>2. LzfTypes'
    BY <1>1, <1>10, <2>1, <2>6 DEF LzfTypes
  <2>3. ASSUME NEW n \in Blocks, Left(original, n, disk["packed"])
        PROVE  Unpacking(original, n, 0, <<>>, disk["packed"], <<>>)
    BY <1>4, <2>3, Beginning DEF Left
  <2>4. ASSUME "read" \notin faults
        PROVE  \E n \in Blocks :
                 /\ Left(original, n, disk["packed"])
                 /\ "cut" \notin faults => disk["packed"] = Archived(original, n)
                 /\ Unpacking(original, n, 0, <<>>, disk["packed"], <<>>)
    BY <2>1, <2>3, <2>4 DEF LzfInv
  <2>5. LzfInv'
    BY <1>1, <1>6, <2>1, <2>4 DEF LzfInv
  <2> QED
    BY <1>5, <2>2, <2>5
<1>9. CASE m = "lzcat"
  <2>1. /\ disk'["copy"] = <<>> /\ disk'["packed"] = disk["packed"] /\ disk'["plain"] = disk["plain"]
        /\ mode' = "lzcat" /\ goal = "unpack" /\ disk["packed"] # Absent
    BY <1>1, <1>2, <1>3, <1>4, <1>9 DEF Names
  <2>6. disk'["copy"] \in Seq(Byte) /\ disk'["packed"] \in Seq(Byte)
    BY <1>6, <1>10, <2>1
  <2>2. LzfTypes'
    BY <1>1, <1>10, <2>1, <2>6 DEF LzfTypes
  <2>3. ASSUME NEW n \in Blocks, Left(original, n, disk["packed"])
        PROVE  Unpacking(original, n, 0, <<>>, disk["packed"], <<>>)
    BY <1>4, <2>3, Beginning DEF Left
  <2>4. ASSUME "read" \notin faults
        PROVE  \E n \in Blocks :
                 /\ Left(original, n, disk["packed"])
                 /\ "cut" \notin faults => disk["packed"] = Archived(original, n)
                 /\ Unpacking(original, n, 0, <<>>, disk["packed"], <<>>)
    BY <2>1, <2>3, <2>4 DEF LzfInv
  <2>5. LzfInv'
    BY <1>1, <1>6, <2>1, <2>4 DEF LzfInv
  <2> QED
    BY <1>5, <2>2, <2>5
<1> QED
  BY <1>1, <1>7, <1>8, <1>9

\* The archive loses its end.
LEMMA LzfCut ==
  ASSUME Shape, LzfTypes, LzfInv, codec = "lzf", UNCHANGED <<codec, open, memory>>, Lzf!Cut
  PROVE  Shape' /\ LzfTypes' /\ LzfInv'
<1>1. PICK k \in 0 .. Len(disk["packed"]) - 1 :
        disk' = [disk EXCEPT !["packed"] = SubSeq(disk["packed"], 1, k)]
  BY DEF Lzf!Cut
<1>2. /\ mode = "none" /\ goal = "unpack" /\ disk["packed"] # Absent /\ Lzf!Fault("cut")
      /\ UNCHANGED <<goal, mode, original, block, at, over>>
  BY DEF Lzf!Cut, Lzf!files
<1>3. faults' = faults \cup {"cut"} /\ faults' \subseteq Faults
  BY <1>2, Faulty DEF Shape
<1>4. original \in Seq(Byte) /\ DOMAIN disk = Names /\ DOMAIN disk' = Names
  BY <1>1, ArchiveAssumption DEF Shape
<1>5. /\ disk'["packed"] = SubSeq(disk["packed"], 1, k)
      /\ disk'["plain"] = disk["plain"] /\ disk'["copy"] = disk["copy"]
  BY <1>1, <1>4 DEF Names
<1>6. disk["packed"] \in Seq(Byte)
  BY <1>2 DEF LzfTypes
<1>7. /\ disk'["packed"] \in Seq(Byte) /\ Len(disk'["packed"]) = k /\ k \in Nat
      /\ k <= Len(disk["packed"]) /\ Len(disk["packed"]) \in Nat
      /\ \A i \in 1 .. k : disk'["packed"][i] = disk["packed"][i]
  <2> DEFINE p == disk["packed"]
  <2>1. k \in Int /\ k <= Len(p) /\ k \in Nat /\ p \in Seq(Byte) /\ 0 \in Nat /\ Len(p) \in Nat
    BY <1>6, LenProperties
  <2> HIDE DEF p
  <2>2. /\ SubSeq(p, 0 + 1, k) \in Seq(Byte)
        /\ Len(SubSeq(p, 0 + 1, k)) = IF 0 <= k THEN k - 0 ELSE 0
        /\ \A i \in 1 .. k - 0 : SubSeq(p, 0 + 1, k)[i] = p[0 + i]
    BY <2>1, Part
  <2>3. /\ SubSeq(p, 1, k) \in Seq(Byte) /\ Len(SubSeq(p, 1, k)) = k
        /\ \A i \in 1 .. k : SubSeq(p, 1, k)[i] = p[i]
    BY <2>1, <2>2
  <2> QED
    BY <1>5, <2>1, <2>3 DEF p
<1>8. Shape'
  BY <1>2, <1>3, <1>4 DEF Shape
<1>9. LzfTypes'
  BY <1>2, <1>3, <1>5, <1>7 DEF LzfTypes
<1>10. ASSUME NEW n \in Blocks, Left(original, n, disk["packed"])
       PROVE  Left(original, n, disk'["packed"])
  <2>1. Len(Archived(original, n)) \in Nat
    BY <1>4, CatAt
  <2>2. /\ Len(disk["packed"]) <= Len(Archived(original, n))
        /\ \A i \in 1 .. Len(disk["packed"]) : disk["packed"][i] = Archived(original, n)[i]
    BY <1>10 DEF Left
  <2>3. k <= Len(Archived(original, n)) /\ \A i \in 1 .. k : i \in 1 .. Len(disk["packed"])
    BY <1>7, <2>1, <2>2
  <2>4. \A i \in 1 .. k : disk'["packed"][i] = Archived(original, n)[i]
    BY <1>7, <2>2, <2>3
  <2> QED
    BY <1>7, <2>3, <2>4 DEF Left
<1>11. ASSUME "read" \notin faults'
       PROVE  \E n \in Blocks : Left(original, n, disk'["packed"])
  <2>1. "read" \notin faults
    BY <1>3, <1>11
  <2>2. \E n \in Blocks : Left(original, n, disk["packed"])
    BY <1>2, <2>1 DEF LzfInv
  <2> QED
    BY <1>10, <2>2
<1>12. "cut" \in faults' /\ ("read" \notin faults' => "read" \notin faults)
  BY <1>3
<1>13. LzfInv'
  BY <1>2, <1>5, <1>11, <1>12 DEF LzfInv
<1> QED
  BY <1>8, <1>9, <1>13

\* A block that was read is packed in bytes.
LEMMA RecordBytes ==
  ASSUME NEW s \in Seq(Byte), NEW a \in Nat, NEW n \in Blocks, Read(s, a, n) # <<>>
  PROVE  /\ Read(s, a, n) \in Seq(Byte) /\ Len(Read(s, a, n)) \in Nat
         /\ Lzf!Record(Read(s, a, n)) \in Seq(Byte)
<1> DEFINE r == Read(s, a, n)
<1>1. n \in Nat /\ n <= Base * Base - 1 /\ Len(s) \in Nat /\ Base * Base \in Int
  BY BlockSize, LenProperties, ArchiveAssumption
<1>2. r \in Seq(Byte) /\ Len(r) = IF a + n <= Len(s) THEN n
                                  ELSE IF a <= Len(s) THEN Len(s) - a ELSE 0
  BY <1>1, Reads
<1> HIDE DEF r
<1>3. Len(r) \in Nat /\ Len(r) <= n
  BY <1>1, <1>2
<1>4. Len(r) # 0
  BY <1>2, EmptySeq DEF r
<1>5. Len(r) \in 1 .. Base * Base - 1
  BY <1>1, <1>3, <1>4
<1>6. Lzf!Record(r) \in Seq(Byte)
  BY <1>2, <1>5, RecordIs
<1> QED
  BY <1>2, <1>3, <1>6 DEF r

\* A part of some bytes behind others are bytes.
LEMMA PartBytes ==
  ASSUME NEW s \in Seq(Byte), NEW t \in Seq(Byte), NEW k \in 0 .. Len(t) - 1
  PROVE  s \o SubSeq(t, 1, k) \in Seq(Byte) /\ k \in 0 .. Len(t)
<1>1. k \in Int /\ k <= Len(t) /\ k \in Nat /\ 0 \in Nat /\ k \in 0 .. Len(t)
  BY LenProperties
<1>2. SubSeq(t, 0 + 1, k) \in Seq(Byte)
  BY <1>1, Part
<1>3. SubSeq(t, 1, k) \in Seq(Byte)
  BY <1>2
<1> HIDE DEF Byte
<1> QED
  BY <1>1, <1>3, ConcatProperties

\* A turn of compress_fd().
LEMMA LzfCompress ==
  ASSUME Shape, LzfTypes, LzfInv, codec = "lzf", UNCHANGED <<codec, open, memory>>, Lzf!Compress
  PROVE  Shape' /\ LzfTypes' /\ LzfInv'
<1> DEFINE next == Read(disk["plain"], at, block)
<1>1. mode = "compress" /\ goal = "pack" /\ disk["plain"] \in Seq(Byte) /\ disk["packed"] \in Seq(Byte)
  BY DEF Lzf!Compress, LzfTypes
<1>2. /\ DOMAIN disk = Names /\ at \in Nat /\ block \in Blocks /\ original \in Seq(Byte)
      /\ faults \subseteq Faults /\ "exists" \notin faults
  BY ArchiveAssumption DEF Shape, LzfTypes
<1>3. Lzf!NextBlock = next
  BY SameReads DEF Lzf!NextBlock
<1>4. Lzf!Input.compress = "plain" /\ Lzf!Output.compress = "packed"
  BY DEF Lzf!Input, Lzf!Output
<1>5. next # <<>> => /\ next \in Seq(Byte) /\ Len(next) \in Nat
                     /\ Lzf!Record(next) \in Seq(Byte)
  BY <1>1, <1>2, RecordBytes
<1>6. "read" \notin faults =>
        /\ disk["plain"] = original /\ Begins(disk["copy"], original)
        /\ Packing(original, block, at, disk["packed"])
  BY <1>1 DEF LzfInv
<1>7. "read" \notin faults =>
        /\ next = <<>> => disk["packed"] = Archived(original, block)
        /\ next # <<>> => Packing(original, block, at + Len(next), disk["packed"] \o Lzf!Record(next))
  BY <1>2, <1>6, CompressTurn
<1> HIDE DEF next
<1>8. \/ next = <<>> /\ Lzf!Finish(TRUE, disk) /\ UNCHANGED faults
      \/ Lzf!Fault("read") /\ Lzf!Finish(TRUE, disk)
      \/ /\ next # <<>> /\ disk' = [disk EXCEPT !["packed"] = disk["packed"] \o Lzf!Record(next)]
         /\ at' = at + Len(next) /\ UNCHANGED <<goal, mode, original, block, over, faults>>
      \/ next # <<>> /\ Lzf!WriteError(Lzf!Record(next))
  BY <1>3 DEF Lzf!Compress, Lzf!Write, Lzf!files
<1>9. ASSUME Lzf!Finish(TRUE, disk)
      PROVE  /\ mode' = "none" /\ goal' = "unpack" /\ UNCHANGED <<original, block, at, over>>
             /\ DOMAIN disk' = Names
             /\ disk'["plain"] = Absent /\ disk'["packed"] = disk["packed"]
             /\ disk'["copy"] = disk["copy"]
  BY <1>1, <1>2, <1>4, <1>9 DEF Lzf!Finish, Lzf!files, Names
<1>10. ASSUME Lzf!Finish(TRUE, disk), faults' \subseteq Faults, "exists" \notin faults'
       PROVE  Shape' /\ LzfTypes'
  <2>1. Shape'
    BY <1>2, <1>9, <1>10 DEF Shape
  <2>2. LzfTypes'
    BY <1>1, <1>9, <1>10 DEF LzfTypes
  <2> QED
    BY <2>1, <2>2
<1>11. CASE next = <<>> /\ Lzf!Finish(TRUE, disk) /\ UNCHANGED faults
  <2>1. Shape' /\ LzfTypes'
    BY <1>2, <1>10, <1>11
  <2>2. ASSUME "read" \notin faults
        PROVE  /\ Left(original, block, disk["packed"])
               /\ disk["packed"] = Archived(original, block)
    <3>1. Left(original, block, Archived(original, block))
      <4>1. Archived(original, block) \in Seq(Byte) /\ Len(Archived(original, block)) \in Nat
        BY <1>2, CatAt
      <4> QED
        BY <4>1 DEF Left
    <3> QED
      BY <1>7, <1>11, <2>2, <3>1
  <2>3. Begins(Absent, original)
    BY <1>2, BeginsItself
  <2>4. LzfInv'
    BY <1>2, <1>6, <1>9, <1>11, <2>2, <2>3 DEF LzfInv
  <2> QED
    BY <2>1, <2>4
<1>12. CASE Lzf!Fault("read") /\ Lzf!Finish(TRUE, disk)
  <2>1. faults' = faults \cup {"read"} /\ faults' \subseteq Faults
    BY <1>2, <1>12, Faulty
  <2>2. "exists" \notin faults' /\ "read" \in faults'
    BY <1>2, <2>1
  <2>3. Shape' /\ LzfTypes'
    BY <1>10, <1>12, <2>1, <2>2
  <2>4. LzfInv'
    BY <2>2 DEF LzfInv
  <2> QED
    BY <2>3, <2>4
<1>13. CASE /\ next # <<>> /\ disk' = [disk EXCEPT !["packed"] = disk["packed"] \o Lzf!Record(next)]
            /\ at' = at + Len(next) /\ UNCHANGED <<goal, mode, original, block, over, faults>>
  <2>1. /\ DOMAIN disk' = Names /\ disk'["plain"] = disk["plain"] /\ disk'["copy"] = disk["copy"]
        /\ disk'["packed"] = disk["packed"] \o Lzf!Record(next)
    BY <1>2, <1>13 DEF Names
  <2>2. disk'["packed"] \in Seq(Byte) /\ at' \in Nat
    <3>1. disk["packed"] \o Lzf!Record(next) \in Seq(Byte)
      BY <1>1, <1>5, <1>13, JoinedBytes
    <3> QED
      BY <1>2, <1>5, <1>13, <2>1, <3>1
  <2>3. Shape'
    BY <1>2, <1>13, <2>1, <2>2 DEF Shape
  <2>4. LzfTypes'
    BY <1>1, <1>13, <2>1, <2>2 DEF LzfTypes
  <2>5. Begins(original, original)
    BY <1>2, BeginsItself
  <2>6. LzfInv'
    BY <1>1, <1>6, <1>7, <1>13, <2>1, <2>5 DEF LzfInv
  <2> QED
    BY <2>3, <2>4, <2>6
<1>14. CASE next # <<>> /\ Lzf!WriteError(Lzf!Record(next))
  <2>1. PICK k \in 0 .. Len(Lzf!Record(next)) - 1 :
          /\ Lzf!Fault("write")
          /\ Lzf!Finish(FALSE, Lzf!Write(Lzf!Output[mode], SubSeq(Lzf!Record(next), 1, k)))
    BY <1>14 DEF Lzf!WriteError
  <2>2. faults' = faults \cup {"write"} /\ faults' \subseteq Faults
    BY <1>2, <2>1, Faulty
  <2>3. /\ mode' = "none" /\ goal' = goal /\ UNCHANGED <<original, block, at, over>>
        /\ disk' = [disk EXCEPT !["packed"] = disk["packed"] \o SubSeq(Lzf!Record(next), 1, k)]
    BY <1>1, <1>4, <2>1 DEF Lzf!Finish, Lzf!Write, Lzf!files
  <2>4. disk["packed"] \o SubSeq(Lzf!Record(next), 1, k) \in Seq(Byte)
    BY <1>1, <1>5, <1>14, PartBytes
  <2>5. /\ DOMAIN disk' = Names /\ disk'["plain"] = disk["plain"] /\ disk'["copy"] = disk["copy"]
        /\ disk'["packed"] \in Seq(Byte)
    BY <1>2, <2>3, <2>4 DEF Names
  <2>6. Shape'
    BY <1>2, <2>2, <2>3, <2>5 DEF Shape
  <2>7. LzfTypes'
    BY <1>1, <1>2, <2>2, <2>3, <2>5 DEF LzfTypes
  <2>8. Begins(original, original)
    BY <1>2, BeginsItself
  <2>9. "read" \notin faults' => "read" \notin faults
    BY <2>2
  <2>10. LzfInv'
    BY <1>1, <1>6, <2>3, <2>5, <2>8, <2>9 DEF LzfInv
  <2> QED
    BY <2>6, <2>7, <2>10
<1> QED
  BY <1>8, <1>11, <1>12, <1>13, <1>14

LEMMA TurnReads ==
  ASSUME NEW packed \in Seq(Byte), NEW a \in Nat, NEW kept \in Seq(Byte), Len(kept) <= 2,
         NEW head, NEW from, Turn(packed, a, kept, head, from)
  PROVE  head \in Seq(Byte) /\ Len(head) \in Nat /\ Len(head) <= 7 /\ from \in Nat
<1> DEFINE m == 7 - Len(kept)
           read == Read(packed, a, m)
<1>1. Len(kept) \in Nat /\ m \in Nat /\ Len(packed) \in Nat
  BY LenProperties
<1>2. head = kept \o read /\ from = a + Len(read)
  BY DEF Turn
<1> HIDE DEF m
<1>3. read \in Seq(Byte) /\ Len(read) = IF a + m <= Len(packed) THEN m
                            ELSE IF a <= Len(packed) THEN Len(packed) - a ELSE 0
  BY <1>1, Reads
<1> HIDE DEF read
<1>4. Len(read) \in Nat /\ Len(read) <= m
  BY <1>1, <1>3
<1>5. kept \o read \in Seq(Byte) /\ Len(kept \o read) = Len(kept) + Len(read)
  BY <1>3, JoinedBytes
<1>6. Len(head) = Len(kept) + Len(read) /\ head \in Seq(Byte)
  BY <1>2, <1>5
<1> QED
  BY <1>1, <1>2, <1>4, <1>6 DEF m

\* What it does then.
LEMMA UncompressIs ==
  ASSUME Lzf!Uncompress, disk["packed"] \in Seq(Byte), at \in Nat, over \in Seq(Byte), Len(over) <= 2
  PROVE  \E head, from :
           /\ Turn(disk["packed"], at, over, head, from)
           /\ \/ Lzf!Fault("read") /\ Lzf!Finish(FALSE, disk)
              \/ (head = <<>> \/ head[1] = 0) /\ Lzf!Finish(TRUE, disk) /\ UNCHANGED faults
              \/ Lzf!Finish(FALSE, disk) /\ UNCHANGED faults
              \/ /\ Lzf!Valid(head) /\ from + More(head) <= Len(disk["packed"])
                 /\ \/ /\ disk' = Lzf!Write(Lzf!Output[mode], Plain(head, disk["packed"], from))
                       /\ at' = from + More(head) /\ over' = Lzf!Kept(head, Used(head))
                       /\ UNCHANGED <<goal, mode, original, block, faults>>
                    \/ Lzf!WriteError(Plain(head, disk["packed"], from))
<1> DEFINE head == over \o Read(disk["packed"], at, 7 - Len(over))
           from == at + Len(Read(disk["packed"], at, 7 - Len(over)))
<1>1. Turn(disk["packed"], at, over, head, from)
  BY DEF Turn
<1>2. head \in Seq(Byte) /\ Len(head) <= 7 /\ from \in Nat
  BY <1>1, TurnReads
<1>3. /\ Lzf!TypeOne = 7 /\ Lzf!TypeZero = 5
      /\ \A bytes, behind, n : Lzf!Read(bytes, behind, n) = Read(bytes, behind, n)
  BY SameReads DEF Lzf!TypeOne, Lzf!TypeZero
<1>4. \/ Lzf!Fault("read") /\ Lzf!Finish(FALSE, disk)
      \/ (head = <<>> \/ head[1] = 0) /\ Lzf!Finish(TRUE, disk) /\ UNCHANGED faults
      \/ Lzf!Finish(FALSE, disk) /\ UNCHANGED faults
      \/ /\ Lzf!Valid(head) /\ ~(from + More(head) > Len(disk["packed"]))
         /\ \/ /\ disk' = Lzf!Write(Lzf!Output[mode], Plain(head, disk["packed"], from))
               /\ at' = from + More(head) /\ over' = Lzf!Kept(head, Used(head))
               /\ UNCHANGED <<goal, mode, original, block, faults>>
            \/ Lzf!WriteError(Plain(head, disk["packed"], from))
  <2>1. \/ Lzf!Fault("read") /\ Lzf!Finish(FALSE, disk)
        \/ IF head = <<>> \/ head[1] = 0 THEN Lzf!Finish(TRUE, disk) /\ UNCHANGED faults
           ELSE IF ~Lzf!Valid(head) THEN Lzf!Finish(FALSE, disk) /\ UNCHANGED faults
           ELSE IF \/ from + More(head) > Len(disk["packed"])
                   \/ Len(Plain(head, disk["packed"], from)) # Us(head)
                THEN Lzf!Finish(FALSE, disk) /\ UNCHANGED faults
                ELSE \/ /\ disk' = Lzf!Write(Lzf!Output[mode], Plain(head, disk["packed"], from))
                        /\ at' = from + More(head) /\ over' = Lzf!Kept(head, Used(head))
                        /\ UNCHANGED <<goal, mode, Lzf!files, faults>>
                     \/ Lzf!WriteError(Plain(head, disk["packed"], from))
    BY Zenon DEF Lzf!Uncompress, Lzf!TypeOne, Lzf!TypeZero, Lzf!Read, Read,
                 First, Us, Used, More, Plain
  <2> HIDE DEF head, from
  <2> QED
    BY <2>1 DEF Lzf!files
<1> HIDE DEF head, from
<1>5. ASSUME Lzf!Valid(head), ~(from + More(head) > Len(disk["packed"]))
      PROVE  from + More(head) <= Len(disk["packed"])
  <2>1. More(head) \in Nat /\ Len(disk["packed"]) \in Nat
    BY <1>2, <1>5, TurnTypes, LenProperties
  <2> QED
    BY <1>2, <1>5, <2>1
<1> QED
  BY <1>1, <1>4, <1>5

\* The file a tool that restores one writes.
Out(m) == IF m = "uncompress" THEN "plain" ELSE "copy"

\* The blocks restored are the beginning of the file.
LEMMA UnpackingBegins ==
  ASSUME NEW s \in Seq(Byte), NEW n \in Blocks, NEW a, NEW kept, NEW packed, NEW written,
         Unpacking(s, n, a, kept, packed, written)
  PROVE  Begins(written, s)
<1>1. PICK j \in 0 .. Count(s, n) : written = SubSeq(s, 1, Behind(s, n, j))
  BY DEF Unpacking
<1>2. Behind(s, n, j) \in 0 .. Len(s) /\ Len(s) \in Nat
  BY BlockSize, Blocking
<1>3. Behind(s, n, j) \in Nat /\ Behind(s, n, j) <= Len(s)
  BY <1>2
<1> QED
  BY <1>1, <1>3, WrittenIs

\* A tool restores a part of a block, or all of it.
LEMMA LzfWrites ==
  ASSUME Shape, LzfTypes, LzfInv, codec = "lzf", UNCHANGED <<codec, open>>,
         mode \in {"uncompress", "lzcat"}, mode' \in {mode, "none"},
         UNCHANGED <<goal, original, block>>, at' \in Nat,
         over' \in Seq(Byte), Len(over') <= 2,
         NEW bytes \in Seq(Byte), disk' = [disk EXCEPT ![Out(mode)] = bytes],
         faults \subseteq faults', faults' \subseteq Faults, "exists" \notin faults',
         "read" \notin faults =>
           /\ Begins(bytes, original)
           /\ mode' = mode =>
                \A n \in Blocks :
                  Left(original, n, disk["packed"]) /\
                  Unpacking(original, n, at, over, disk["packed"], disk[Out(mode)]) =>
                    Unpacking(original, n, at', over', disk["packed"], bytes)
  PROVE  Shape' /\ LzfTypes' /\ LzfInv'
<1>1. DOMAIN disk = Names /\ DOMAIN disk' = Names
  BY DEF Shape
<1>2. goal = "unpack" /\ disk["packed"] \in Seq(Byte) /\ disk["plain"] \in Seq(Byte) \cup {Absent}
  BY DEF LzfTypes
<1>3. disk'["packed"] = disk["packed"] /\ disk'[Out(mode)] = bytes
      /\ (Out(mode) = "plain" => disk'["copy"] = disk["copy"])
      /\ (Out(mode) = "copy" => disk'["plain"] = disk["plain"])
  BY <1>1 DEF Out, Names
<1>4. Shape'
  BY <1>1 DEF Shape
<1>5. LzfTypes'
  <2>1. CASE mode = "uncompress"
    BY <1>2, <1>3, <2>1 DEF LzfTypes, Out
  <2>2. CASE mode = "lzcat"
    BY <1>2, <1>3, <2>2 DEF LzfTypes, Out
  <2> QED
    BY <2>1, <2>2
<1>6. ASSUME "read" \notin faults' PROVE LzfInv'
  <2>1. "read" \notin faults /\ ("cut" \notin faults' => "cut" \notin faults)
    BY <1>6
  <2>2. /\ Begins(bytes, original)
        /\ mode' = mode =>
             \A n \in Blocks :
               Left(original, n, disk["packed"]) /\
               Unpacking(original, n, at, over, disk["packed"], disk[Out(mode)]) =>
                 Unpacking(original, n, at', over', disk["packed"], bytes)
    BY <2>1
  <2>3. Begins(disk["plain"], original) /\ Begins(disk["copy"], original)
    BY <2>1 DEF LzfInv
  <2>4. PICK n \in Blocks :
          /\ Left(original, n, disk["packed"])
          /\ "cut" \notin faults => disk["packed"] = Archived(original, n)
          /\ Unpacking(original, n, at, over, disk["packed"], disk[Out(mode)])
    BY <1>2, <2>1 DEF LzfInv, Out
  <2>5. mode' = mode => Unpacking(original, n, at', over', disk["packed"], bytes)
    BY <2>2, <2>4
  <2>6. Begins(disk'["plain"], original) /\ Begins(disk'["copy"], original)
    BY <1>3, <2>2, <2>3 DEF Out
  <2>7. /\ mode' = "uncompress" =>
             Unpacking(original, n, at', over', disk'["packed"], disk'["plain"])
        /\ mode' = "lzcat" =>
             Unpacking(original, n, at', over', disk'["packed"], disk'["copy"])
    BY <1>3, <2>5 DEF Out
  <2>8. \E k \in Blocks :
          /\ Left(original, k, disk'["packed"])
          /\ "cut" \notin faults' => disk'["packed"] = Archived(original, k)
          /\ mode' = "uncompress" =>
               Unpacking(original, k, at', over', disk'["packed"], disk'["plain"])
          /\ mode' = "lzcat" =>
               Unpacking(original, k, at', over', disk'["packed"], disk'["copy"])
    BY <1>3, <2>1, <2>4, <2>7
  <2>9. goal' = "unpack" /\ original' = original /\ mode' # "compress"
    BY <1>2
  <2> QED
    BY <2>6, <2>8, <2>9 DEF LzfInv
<1> QED
  BY <1>4, <1>5, <1>6 DEF LzfInv

\* A turn of uncompress_fd().
LEMMA LzfUncompress ==
  ASSUME Shape, LzfTypes, LzfInv, codec = "lzf", UNCHANGED <<codec, open, memory>>, Lzf!Uncompress
  PROVE  Shape' /\ LzfTypes' /\ LzfInv'
<1> DEFINE packed == disk["packed"]
           written == disk[Out(mode)]
<1>1. /\ mode \in {"uncompress", "lzcat"} /\ goal = "unpack" /\ packed \in Seq(Byte)
      /\ written \in Seq(Byte) /\ over \in Seq(Byte) /\ Len(over) <= 2
      /\ disk["plain"] \in Seq(Byte) \cup {Absent} /\ (mode = "uncompress" => disk["plain"] = written)
  BY DEF Lzf!Uncompress, LzfTypes, Out
<1>2. /\ DOMAIN disk = Names /\ at \in Nat /\ block \in Blocks /\ original \in Seq(Byte)
      /\ faults \subseteq Faults /\ "exists" \notin faults
  BY ArchiveAssumption DEF Shape, LzfTypes
<1>3. Lzf!Output[mode] = Out(mode) /\ (mode = "uncompress" => Lzf!Input[mode] = "packed")
  BY <1>1 DEF Lzf!Output, Lzf!Input, Out
<1>4. PICK head, from :
        /\ Turn(packed, at, over, head, from)
        /\ \/ Lzf!Fault("read") /\ Lzf!Finish(FALSE, disk)
           \/ (head = <<>> \/ head[1] = 0) /\ Lzf!Finish(TRUE, disk) /\ UNCHANGED faults
           \/ Lzf!Finish(FALSE, disk) /\ UNCHANGED faults
           \/ /\ Lzf!Valid(head) /\ from + More(head) <= Len(packed)
              /\ \/ /\ disk' = Lzf!Write(Lzf!Output[mode], Plain(head, packed, from))
                    /\ at' = from + More(head) /\ over' = Lzf!Kept(head, Used(head))
                    /\ UNCHANGED <<goal, mode, original, block, faults>>
                 \/ Lzf!WriteError(Plain(head, packed, from))
  BY <1>1, <1>2, UncompressIs
<1>5. head \in Seq(Byte) /\ Len(head) \in Nat /\ Len(head) <= 7 /\ from \in Nat
  BY <1>1, <1>2, <1>4, TurnReads
<1>6. ASSUME "read" \notin faults
      PROVE  \E n \in Blocks :
               /\ Left(original, n, packed) /\ Unpacking(original, n, at, over, packed, written)
               /\ "cut" \notin faults => packed = Archived(original, n)
  BY <1>1, <1>6 DEF LzfInv, Out
<1>7. ASSUME NEW n \in Blocks, Left(original, n, packed),
             Unpacking(original, n, at, over, packed, written)
      PROVE  /\ Begins(written, original)
             /\ head # <<>> => head[1] = 2
             /\ head = <<>> => (packed = Archived(original, n) => written = original)
             /\ Lzf!Valid(head) /\ from + More(head) <= Len(packed) =>
                  Restored(original, n, packed, written, head, from)
  BY <1>2, <1>4, <1>7, UncompressTurn
<1> HIDE DEF packed, written
<1>8. ASSUME Lzf!Finish(FALSE, disk)
      PROVE  mode' = "none" /\ UNCHANGED <<goal, original, block, disk, at, over>>
  BY <1>8 DEF Lzf!Finish, Lzf!files
<1>9. CASE Lzf!Fault("read") /\ Lzf!Finish(FALSE, disk)
  <2>1. faults' = faults \cup {"read"} /\ faults' \subseteq Faults
    BY <1>2, <1>9, Faulty
  <2>2. faults \subseteq faults' /\ "exists" \notin faults'
    BY <1>2, <2>1
  <2> QED
    BY <1>8, <1>9, <2>1, <2>2, LzfStops
<1>10. CASE Lzf!Finish(FALSE, disk) /\ UNCHANGED faults
  BY <1>2, <1>8, <1>10, LzfStops
<1>11. CASE (head = <<>> \/ head[1] = 0) /\ Lzf!Finish(TRUE, disk) /\ UNCHANGED faults
  <2>1. CASE mode = "lzcat"
    <3>1. mode' = "none" /\ UNCHANGED <<goal, original, block, disk, at, over>>
      BY <1>11, <2>1 DEF Lzf!Finish, Lzf!files
    <3> QED
      BY <1>2, <1>11, <3>1, LzfStops
  <2>2. CASE mode = "uncompress"
    <3>1. /\ mode' = "none" /\ goal' = "done" /\ UNCHANGED <<original, block, at, over>>
          /\ disk' = [disk EXCEPT !["packed"] = Absent]
      BY <1>3, <1>11, <2>2 DEF Lzf!Finish, Lzf!files
    <3>2. /\ DOMAIN disk' = Names /\ disk'["packed"] = Absent /\ disk'["plain"] = disk["plain"]
          /\ disk'["copy"] = disk["copy"]
      BY <1>2, <3>1 DEF Names
    <3>3. Shape'
      BY <1>2, <1>11, <3>1, <3>2 DEF Shape
    <3>4. LzfTypes'
      BY <1>1, <1>2, <1>11, <3>1, <3>2 DEF LzfTypes
    <3>5. ASSUME "read" \notin faults, "cut" \notin faults PROVE disk["plain"] = original
      BY <1>1, <1>6, <1>7, <1>11, <2>2, <3>5
    <3>6. LzfInv'
      BY <1>11, <3>1, <3>2, <3>5 DEF LzfInv
    <3> QED
      BY <3>3, <3>4, <3>6
  <2> QED
    BY <1>1, <2>1, <2>2
<1>12. ASSUME Lzf!Valid(head), from + More(head) <= Len(packed)
       PROVE  /\ More(head) \in Nat /\ Plain(head, packed, from) \in Seq(Byte)
              /\ Lzf!Kept(head, Used(head)) \in Seq(Byte)
              /\ Len(Lzf!Kept(head, Used(head))) <= 2
  <2>1. /\ Used(head) \in Nat /\ Used(head) >= 5 /\ More(head) \in Nat
        /\ Lzf!Kept(head, Used(head)) \in Seq(Byte)
        /\ Len(Lzf!Kept(head, Used(head))) =
             IF Used(head) <= Len(head) THEN Len(head) - Used(head) ELSE 0
    BY <1>1, <1>5, <1>12, TurnTypes
  <2>2. Plain(head, packed, from) \in Seq(Byte)
    BY <1>1, <1>5, <1>12, TurnBytes
  <2> QED
    BY <1>5, <2>1, <2>2
<1>13. CASE /\ Lzf!Valid(head) /\ from + More(head) <= Len(packed)
            /\ disk' = Lzf!Write(Lzf!Output[mode], Plain(head, packed, from))
            /\ at' = from + More(head) /\ over' = Lzf!Kept(head, Used(head))
            /\ UNCHANGED <<goal, mode, original, block, faults>>
  <2> DEFINE bytes == written \o Plain(head, packed, from)
  <2>1. bytes \in Seq(Byte)
    BY <1>1, <1>12, <1>13, JoinedBytes
  <2>2. disk' = [disk EXCEPT ![Out(mode)] = bytes]
    BY <1>3, <1>13 DEF Lzf!Write, written
  <2>3. at' \in Nat /\ over' \in Seq(Byte) /\ Len(over') <= 2
    BY <1>5, <1>12, <1>13
  <2>4. ASSUME NEW n \in Blocks, Left(original, n, packed),
               Unpacking(original, n, at, over, packed, written)
        PROVE  /\ Unpacking(original, n, at', over', packed, bytes)
               /\ Begins(bytes, original)
    <3>1. Restored(original, n, packed, written, head, from)
      BY <1>7, <1>13, <2>4
    <3>2. Unpacking(original, n, at', over', packed, bytes)
      BY <1>13, <3>1 DEF Restored
    <3>3. Begins(bytes, original)
      BY <1>2, <3>2, UnpackingBegins
    <3> QED
      BY <3>2, <3>3
  <2> HIDE DEF bytes
  <2>5. "read" \notin faults => Begins(bytes, original)
    BY <1>6, <2>4
  <2> QED
    BY <1>1, <1>2, <1>13, <2>1, <2>2, <2>3, <2>4, <2>5, LzfWrites DEF packed, written
<1>14. CASE /\ Lzf!Valid(head) /\ from + More(head) <= Len(packed)
            /\ Lzf!WriteError(Plain(head, packed, from))
  <2> DEFINE plain == Plain(head, packed, from)
  <2>1. PICK k \in 0 .. Len(plain) - 1 :
          Lzf!Fault("write") /\ Lzf!Finish(FALSE, Lzf!Write(Lzf!Output[mode], SubSeq(plain, 1, k)))
    BY <1>14 DEF Lzf!WriteError
  <2> DEFINE bytes == written \o SubSeq(plain, 1, k)
  <2>2. faults' = faults \cup {"write"} /\ faults' \subseteq Faults
    BY <1>2, <2>1, Faulty
  <2>3. faults \subseteq faults' /\ "exists" \notin faults'
    BY <1>2, <2>2
  <2>4. /\ mode' = "none" /\ UNCHANGED <<goal, original, block, at, over>>
        /\ disk' = [disk EXCEPT ![Out(mode)] = bytes]
    BY <1>3, <2>1 DEF Lzf!Finish, Lzf!Write, Lzf!files, written
  <2>5. plain \in Seq(Byte)
    BY <1>12, <1>14
  <2>6. ASSUME NEW n \in Blocks, Left(original, n, packed),
               Unpacking(original, n, at, over, packed, written)
        PROVE  Begins(bytes, original)
    <3>1. Restored(original, n, packed, written, head, from)
      BY <1>7, <1>14, <2>6
    <3>2. k \in 0 .. Len(plain)
      BY <1>1, <2>5, PartBytes
    <3> QED
      BY <3>1, <3>2 DEF Restored
  <2> HIDE DEF plain
  <2>7. bytes \in Seq(Byte)
    BY <1>1, <2>5, PartBytes
  <2> HIDE DEF bytes
  <2>8. "read" \notin faults => Begins(bytes, original)
    BY <1>6, <2>6
  <2>9. mode' # mode /\ mode' \in {mode, "none"} /\ at' \in Nat /\ over' \in Seq(Byte) /\ Len(over') <= 2
    BY <1>1, <1>2, <2>4
  <2> QED
    BY <1>1, <2>2, <2>3, <2>4, <2>7, <2>8, <2>9, LzfWrites
<1> QED
  BY <1>4, <1>9, <1>10, <1>11, <1>13, <1>14

\* Whatever lzf does.
LEMMA LzfStep ==
  ASSUME IInv, codec = "lzf", Lzf!Next, UNCHANGED <<codec, open, memory>>
  PROVE  IInv'
<1>1. Shape /\ LzfTypes /\ LzfInv
  BY DEF IInv
<1>2. Shape' /\ LzfTypes' /\ LzfInv'
  <2>1. ASSUME NEW m \in DOMAIN Lzf!Input, Lzf!RunFile(m) PROVE Shape' /\ LzfTypes' /\ LzfInv'
    BY <1>1, <2>1, LzfRunFile
  <2>2. CASE Lzf!Compress
    BY <1>1, <2>2, LzfCompress
  <2>3. CASE Lzf!Uncompress
    BY <1>1, <2>3, LzfUncompress
  <2>4. CASE Lzf!Cut
    BY <1>1, <2>4, LzfCut
  <2>5. CASE Lzf!Crash /\ UNCHANGED over
    <3>1. /\ mode' = "none" /\ Lzf!Fault("crash") /\ faults \subseteq Faults
          /\ UNCHANGED <<goal, original, block, disk, at, over>> /\ "exists" \notin faults
      BY <1>1, <2>5 DEF Lzf!Crash, Lzf!files, Shape, LzfTypes
    <3>2. faults' = faults \cup {"crash"} /\ faults' \subseteq Faults
      BY <3>1, Faulty
    <3>3. faults \subseteq faults' /\ "exists" \notin faults'
      BY <3>1, <3>2
    <3> QED
      BY <1>1, <3>1, <3>2, <3>3, LzfStops
  <2> QED
    BY <2>1, <2>2, <2>3, <2>4, <2>5 DEF Lzf!Next
<1>3. SixTypes' /\ SixInv' /\ SixWhole'
  BY DEF SixTypes, SixInv, SixWhole
<1> QED
  BY <1>2, <1>3 DEF IInv

------------------------------------------------------------------------------
(* Archives of 6pack *)

\* A chunk has all fields.
IsChunk(id, options, bytes, extra, chunk) ==
  /\ DOMAIN chunk = Fields \cup {"bytes"} /\ "bytes" \notin Fields
  /\ chunk["id"] = id /\ chunk["options"] = options /\ chunk["size"] = Len(bytes)
  /\ chunk["checksum"] = bytes /\ chunk["extra"] = extra /\ chunk["bytes"] = bytes
  /\ ChunkOk(chunk)

LEMMA ChunkIs ==
  ASSUME NEW id, NEW options, NEW bytes \in Seq(Symbols), NEW extra
  PROVE  IsChunk(id, options, bytes, extra, Six!Chunk(id, options, bytes, extra))
<1> DEFINE chunk == Six!Chunk(id, options, bytes, extra)
<1>1. Fields = {"id", "options", "size", "checksum", "extra"}
  BY DEF Fields, Six!NoHeader
<1>2. /\ DOMAIN chunk = {"id", "options", "size", "checksum", "extra", "bytes"}
      /\ chunk["id"] = id /\ chunk["options"] = options /\ chunk["size"] = Len(bytes)
      /\ chunk["checksum"] = bytes /\ chunk["extra"] = extra /\ chunk["bytes"] = bytes
  BY DEF Six!Chunk
<1>3. Len(bytes) \in Nat
  BY LenProperties
<1>4. ChunkOk(chunk)
  BY <1>2, <1>3 DEF ChunkOk
<1>5. DOMAIN chunk = Fields \cup {"bytes"} /\ "bytes" \notin Fields
  BY <1>1, <1>2
<1> HIDE DEF chunk
<1>6. IsChunk(id, options, bytes, extra, chunk)
  BY <1>2, <1>4, <1>5 DEF IsChunk
<1> QED
  BY <1>6 DEF chunk

\* Bytes are symbols.
LEMMA BytesAre ==
  ASSUME NEW s \in Seq(Byte)
  PROVE  s \in Seq(Symbols)
<1>1. Len(s) \in Nat /\ s = [i \in 1 .. Len(s) |-> s[i]]
  BY LenProperties
<1>2. ASSUME NEW i \in 1 .. Len(s) PROVE s[i] \in Symbols
  <2>1. s[i] \in Byte
    BY ElementOfSeq
  <2> QED
    BY <2>1, ArchiveAssumption DEF Byte, Symbols
<1>3. s \in [1 .. Len(s) -> Symbols]
  BY <1>1, <1>2
<1> QED
  BY <1>1, <1>3, SeqDef

\* The code of a block, and what becomes of it.
LEMMA PackedIs ==
  ASSUME NEW p \in Seq(Byte)
  PROVE  /\ Six!Packed(p) \in Seq(Symbols) /\ Len(Six!Packed(p)) = Len(p) + 1
         /\ Six!Unpacked(Six!Packed(p)) = p
<1> DEFINE code == Append(p, End)
<1>1. p \in Seq(Symbols) /\ Len(p) \in Nat /\ End \in Symbols
  BY BytesAre, LenProperties DEF Symbols
<1>2. /\ code \in Seq(Symbols) /\ Len(code) = Len(p) + 1 /\ code[Len(p) + 1] = End
      /\ \A i \in 1 .. Len(p) : code[i] = p[i]
  BY <1>1, AppendProperties
<1> HIDE DEF code
<1>3. code # <<>> /\ Six!Last(code) = End /\ Len(code) - 1 = Len(p)
  BY <1>1, <1>2, EmptySeq DEF Six!Last
<1>4. SubSeq(code, 1, Len(p)) = p
  <2>1. /\ SubSeq(code, 0 + 1, Len(p)) \in Seq(Symbols)
        /\ Len(SubSeq(code, 0 + 1, Len(p))) = IF 0 <= Len(p) THEN Len(p) - 0 ELSE 0
        /\ \A i \in 1 .. Len(p) - 0 : SubSeq(code, 0 + 1, Len(p))[i] = code[0 + i]
    <3>1. 0 \in Nat /\ Len(p) \in Int /\ Len(p) <= Len(code)
      BY <1>1, <1>2
    <3> QED
      BY <1>2, <3>1, Part
  <2>2. /\ SubSeq(code, 1, Len(p)) \in Seq(Symbols) /\ Len(SubSeq(code, 1, Len(p))) = Len(p)
        /\ \A i \in 1 .. Len(p) : SubSeq(code, 1, Len(p))[i] = p[i]
    BY <1>1, <1>2, <2>1
  <2> QED
    BY <1>1, <2>2, SeqEqual
<1>5. Six!Front(code) = p
  BY <1>3, <1>4 DEF Six!Front
<1> QED
  BY <1>2, <1>3, <1>5 DEF Six!Packed, Six!Unpacked, code

\* The chunks of an archive: the file entry, and a chunk for each block.
Whole1(good) ==
  /\ DOMAIN good = Fields \cup {"bytes"} /\ ChunkOk(good)
  /\ good["checksum"] = good["bytes"] /\ good["size"] = Len(good["bytes"])
  /\ good["bytes"] \in Seq(Symbols)

IsEntry(s, good) ==
  /\ Whole1(good) /\ good["id"] = 1
  /\ good["bytes"] = <<Len(s), Name>> /\ Len(good["bytes"]) = 2

IsData(p, good) ==
  /\ Whole1(good) /\ good["id"] = 17
  /\ \/ good["options"] = 0 /\ Len(p) < Small /\ good["bytes"] = p
     \/ good["options"] = 1 /\ good["extra"] = Len(p) /\ good["bytes"] = Six!Packed(p)

LEMMA EntryIs ==
  ASSUME NEW s \in Seq(Byte), NEW n
  PROVE  IsEntry(s, Good(s, n, 1))
<1> DEFINE bytes == <<Len(s), Name>>
           good == Good(s, n, 1)
<1>1. bytes \in Seq(Symbols) /\ Len(bytes) = 2
  BY LenProperties DEF Symbols
<1>2. good = Six!Chunk(1, 0, bytes, 0)
  BY DEF Good
<1> HIDE DEF bytes, good
<1>3. /\ DOMAIN good = Fields \cup {"bytes"} /\ ChunkOk(good)
      /\ good["id"] = 1 /\ good["size"] = Len(bytes)
      /\ good["checksum"] = bytes /\ good["bytes"] = bytes
  <2>1. IsChunk(1, 0, bytes, 0, good)
    BY <1>1, <1>2, ChunkIs
  <2> QED
    BY <2>1 DEF IsChunk
<1> QED
  BY <1>1, <1>3 DEF bytes, good, IsEntry, Whole1

LEMMA BlockIs ==
  ASSUME NEW p \in Seq(Byte), NEW good, good = Six!Data(p)
  PROVE  IsData(p, good)
<1>1. CASE Len(p) < Small
  <2>1. good = Six!Chunk(17, 0, p, Len(p)) /\ p \in Seq(Symbols)
    BY <1>1, BytesAre DEF Six!Data
  <2>2. /\ DOMAIN good = Fields \cup {"bytes"} /\ ChunkOk(good)
        /\ good["id"] = 17 /\ good["options"] = 0 /\ good["size"] = Len(p)
        /\ good["checksum"] = p /\ good["bytes"] = p
    <3>1. IsChunk(17, 0, p, Len(p), good)
      BY <2>1, ChunkIs
    <3> QED
      BY <3>1 DEF IsChunk
  <2> QED
    BY <1>1, <2>1, <2>2 DEF IsData, Whole1
<1>2. CASE ~(Len(p) < Small)
  <2> DEFINE code == Six!Packed(p)
  <2>1. good = Six!Chunk(17, 1, code, Len(p)) /\ code \in Seq(Symbols)
    BY <1>2, PackedIs DEF Six!Data
  <2> HIDE DEF code
  <2>2. /\ DOMAIN good = Fields \cup {"bytes"} /\ ChunkOk(good)
        /\ good["id"] = 17 /\ good["options"] = 1 /\ good["size"] = Len(code)
        /\ good["extra"] = Len(p) /\ good["checksum"] = code /\ good["bytes"] = code
    <3>1. IsChunk(17, 1, code, Len(p), good)
      BY <2>1, ChunkIs
    <3> QED
      BY <3>1 DEF IsChunk
  <2> QED
    BY <2>1, <2>2 DEF IsData, Whole1, code
<1> QED
  BY <1>1, <1>2

LEMMA DataIs ==
  ASSUME NEW s \in Seq(Byte), NEW n \in Nat \ {0}, NEW k \in 1 .. Count(s, n)
  PROVE  Good(s, n, k + 1) = Six!Data(Piece(s, n, k)) /\ IsData(Piece(s, n, k), Good(s, n, k + 1))
<1>1. Piece(s, n, k) \in Seq(Byte)
  BY PieceIs
<1>2. Good(s, n, k + 1) = Six!Data(Piece(s, n, k))
  <2>1. Count(s, n) \in Nat
    BY Blocking
  <2>2. k + 1 # 1 /\ (k + 1) - 1 = k
    BY <2>1
  <2> QED
    BY <2>2 DEF Good
<1> QED
  BY <1>1, <1>2, BlockIs

\* A sequence over a set is one over a larger set.
LEMMA Wider ==
  ASSUME NEW S, NEW T, S \subseteq T, NEW s \in Seq(S)
  PROVE  s \in Seq(T)
<1>1. Len(s) \in Nat /\ s \in [1 .. Len(s) -> S]
  BY LenProperties
<1>2. s \in [1 .. Len(s) -> T]
  BY <1>1
<1> QED
  BY <1>1, <1>2, SeqDef

\* Whatever the archive is, its chunks are.
LEMMA ChunksAre ==
  ASSUME NEW packed, Chunks(packed)
  PROVE  /\ Len(packed) \in Nat /\ DOMAIN packed = 1 .. Len(packed)
         /\ \A k \in 1 .. Len(packed) : ChunkOk(packed[k])
<1>1. PICK S : packed \in Seq(S) /\ \A chunk \in S : ChunkOk(chunk)
  BY DEF Chunks
<1> QED
  BY <1>1, LenProperties, ElementOfSeq

\* An archive of one chunk and one of none.
LEMMA ChunksFirst ==
  ASSUME NEW chunk, ChunkOk(chunk)
  PROVE  /\ Chunks(<<chunk>>) /\ Len(<<chunk>>) = 1 /\ <<chunk>>[1] = chunk
         /\ Chunks(<<>>) /\ Len(<<>>) = 0
<1> DEFINE S == {chunk}
           one == <<chunk>>
<1>1. one \in Seq(S) /\ <<>> \in Seq(S) /\ \A c \in S : ChunkOk(c)
  OBVIOUS
<1> HIDE DEF S, one
<1>2. Chunks(one) /\ Chunks(<<>>)
  BY <1>1, Zenon DEF Chunks
<1> QED
  BY <1>2 DEF one

\* A chunk more.
LEMMA ChunksMore ==
  ASSUME NEW packed, Chunks(packed), NEW chunk, ChunkOk(chunk)
  PROVE  /\ Chunks(packed \o <<chunk>>) /\ Len(packed \o <<chunk>>) = Len(packed) + 1
         /\ \A k \in 1 .. Len(packed) : (packed \o <<chunk>>)[k] = packed[k]
         /\ (packed \o <<chunk>>)[Len(packed) + 1] = chunk
<1>1. PICK S : packed \in Seq(S) /\ \A c \in S : ChunkOk(c)
  BY DEF Chunks
<1> DEFINE T == S \cup {chunk}
           last == <<chunk>>
<1>2. packed \in Seq(T) /\ last \in Seq(T) /\ \A c \in T : ChunkOk(c)
  <2>1. S \subseteq T
    OBVIOUS
  <2>2. packed \in Seq(T)
    <3> HIDE DEF T
    <3> QED
      BY <1>1, <2>1, Wider
  <2> QED
    BY <1>1, <2>2
<1>3. Len(last) = 1 /\ last[1] = chunk /\ 1 \in 1 .. Len(last)
  OBVIOUS
<1> HIDE DEF T, last
<1>4. /\ packed \o last \in Seq(T) /\ Len(packed) \in Nat
      /\ Len(packed \o last) = Len(packed) + Len(last)
      /\ \A i \in 1 .. Len(packed) : (packed \o last)[i] = packed[i]
      /\ \A i \in 1 .. Len(last) : (packed \o last)[Len(packed) + i] = last[i]
  BY <1>2, Joined
<1>5. Chunks(packed \o last)
  BY <1>2, <1>4 DEF Chunks
<1>6. Len(packed \o last) = Len(packed) + 1 /\ (packed \o last)[Len(packed) + 1] = chunk
  BY <1>3, <1>4
<1> QED
  BY <1>4, <1>5, <1>6 DEF last

\* The first chunks.
LEMMA ChunksCut ==
  ASSUME NEW packed, Chunks(packed), NEW k \in 1 .. Len(packed)
  PROVE  /\ Chunks(SubSeq(packed, 1, k - 1)) /\ Len(SubSeq(packed, 1, k - 1)) = k - 1
         /\ \A i \in 1 .. k - 1 : SubSeq(packed, 1, k - 1)[i] = packed[i]
         /\ SubSeq(packed, 1, k - 1) \o <<>> = SubSeq(packed, 1, k - 1)
<1>1. PICK S : packed \in Seq(S) /\ \A c \in S : ChunkOk(c)
  BY DEF Chunks
<1> DEFINE m == k - 1
           cut == SubSeq(packed, 1, m)
<1>2. m \in Nat /\ m \in Int /\ m <= Len(packed) /\ 0 \in Nat
  BY <1>1, LenProperties
<1> HIDE DEF m
<1>3. /\ SubSeq(packed, 0 + 1, m) \in Seq(S)
      /\ Len(SubSeq(packed, 0 + 1, m)) = IF 0 <= m THEN m - 0 ELSE 0
      /\ \A i \in 1 .. m - 0 : SubSeq(packed, 0 + 1, m)[i] = packed[0 + i]
  BY <1>1, <1>2, Part
<1>4. /\ cut \in Seq(S) /\ Len(cut) = m /\ \A i \in 1 .. m : cut[i] = packed[i]
  BY <1>2, <1>3
<1> HIDE DEF cut
<1>5. cut \o <<>> = cut
  BY <1>4, ConcatEmptySeq
<1>6. Chunks(cut)
  BY <1>1, <1>4 DEF Chunks
<1> QED
  BY <1>4, <1>5, <1>6 DEF cut, m

\* What is read from the beginning of the bytes of a chunk.
LEMMA FirstRead ==
  ASSUME NEW bytes \in Seq(Symbols), NEW n \in Nat
  PROVE  /\ Six!Read(bytes, 0, n) \in Seq(Symbols)
         /\ Len(Six!Read(bytes, 0, n)) = IF n <= Len(bytes) THEN n ELSE Len(bytes)
         /\ \A i \in 1 .. Len(Six!Read(bytes, 0, n)) :
              Six!Read(bytes, 0, n)[i] = bytes[i] /\ i \in 1 .. Len(bytes)
         /\ n = Len(bytes) => Six!Read(bytes, 0, n) = bytes
<1> DEFINE read == Six!Read(bytes, 0, n)
<1>1. Len(bytes) \in Nat
  BY LenProperties
<1>2. read = Read(bytes, 0, n)
  BY SameReads
<1>3. /\ Read(bytes, 0, n) \in Seq(Symbols)
      /\ Len(Read(bytes, 0, n)) = IF 0 + n <= Len(bytes) THEN n
                                  ELSE IF 0 <= Len(bytes) THEN Len(bytes) - 0 ELSE 0
      /\ \A i \in 1 .. Len(Read(bytes, 0, n)) :
           Read(bytes, 0, n)[i] = bytes[0 + i] /\ 0 + i \in 1 .. Len(bytes)
  <2>1. 0 \in Nat
    OBVIOUS
  <2> QED
    BY <2>1, Reads
<1> HIDE DEF read
<1>4. /\ read \in Seq(Symbols) /\ Len(read) = (IF n <= Len(bytes) THEN n ELSE Len(bytes))
      /\ \A i \in 1 .. Len(read) : read[i] = bytes[0 + i] /\ 0 + i \in 1 .. Len(bytes)
  BY <1>1, <1>2, <1>3
<1>5. ASSUME NEW i \in 1 .. Len(read) PROVE read[i] = bytes[i] /\ i \in 1 .. Len(bytes)
  <2>1. Len(read) \in Nat
    BY <1>1, <1>4
  <2>2. 0 + i = i
    BY <2>1
  <2> QED
    BY <1>4, <2>2
<1>6. n = Len(bytes) => read = bytes
  BY <1>1, <1>4, <1>5, SeqEqual
<1> QED
  BY <1>4, <1>5, <1>6 DEF read

\* What a buffer holds then, of which there is enough.
LEMMA Buffered ==
  ASSUME NEW bytes \in Seq(Symbols), NEW before \in Seq(Symbols)
  PROVE  /\ Six!Over(bytes, before) \in Seq(Symbols)
         /\ Len(Six!Over(bytes, before)) \in Nat
         /\ Len(Six!Over(bytes, before)) >= Len(before)
         /\ \A i \in 1 .. Len(bytes) : Six!Over(bytes, before)[i] = bytes[i]
<1> DEFINE m == Len(bytes)
           rest == SubSeq(before, m + 1, Len(before))
<1>1. m \in Nat /\ Len(before) \in Nat /\ Len(before) \in Int /\ Len(before) <= Len(before)
  BY LenProperties
<1> HIDE DEF m
<1>2. rest \in Seq(Symbols) /\ Len(rest) = IF m <= Len(before) THEN Len(before) - m ELSE 0
  BY <1>1, Part
<1>3. Six!Over(bytes, before) = bytes \o rest
  BY DEF Six!Over, m
<1> HIDE DEF rest
<1>4. /\ bytes \o rest \in Seq(Symbols) /\ Len(bytes \o rest) = Len(bytes) + Len(rest)
      /\ \A i \in 1 .. Len(bytes) : (bytes \o rest)[i] = bytes[i]
  BY <1>2, Joined
<1>5. Len(bytes) + Len(rest) \in Nat /\ Len(bytes) + Len(rest) >= Len(before)
  BY <1>1, <1>2 DEF m
<1> QED
  BY <1>3, <1>4, <1>5

LEMMA Roomy ==
  ASSUME NEW before \in Seq(Symbols), NEW n \in Nat
  PROVE  Six!Room(before, n) \in Seq(Symbols) /\ Len(Six!Room(before, n)) >= n
<1> DEFINE new == [k \in 1 .. n |-> Junk]
<1>1. new \in Seq(Symbols) /\ Len(new) = n
  <2>1. Junk \in Symbols
    BY DEF Symbols
  <2>2. new \in [1 .. n -> Symbols]
    BY <2>1
  <2> QED
    BY <2>2, SeqDef, LenProperties
<1> HIDE DEF new
<1>2. Len(before) \in Nat
  BY LenProperties
<1>3. Six!Room(before, n) = IF n > Len(before) THEN new ELSE before
  BY DEF Six!Room, new
<1> QED
  BY <1>1, <1>2, <1>3

\* The part of the buffer whose checksum is computed.
Read6(bytes, before, size) == Six!Over(Six!Read(bytes, 0, size), Six!Room(before, size))

IsBuffer(bytes, size, buffer) ==
  /\ buffer \in Seq(Symbols) /\ Len(buffer) \in Nat /\ Len(buffer) >= size
  /\ SubSeq(buffer, 1, size) \in Seq(Symbols)
  /\ Len(SubSeq(buffer, 1, size)) = size
  /\ \A i \in 1 .. size : SubSeq(buffer, 1, size)[i] = buffer[i]
  /\ size = Len(bytes) => SubSeq(buffer, 1, size) = bytes

LEMMA BufferIs ==
  ASSUME NEW bytes \in Seq(Symbols), NEW before \in Seq(Symbols), NEW size \in Nat
  PROVE  IsBuffer(bytes, size, Read6(bytes, before, size))
<1> DEFINE read == Six!Read(bytes, 0, size)
           room == Six!Room(before, size)
           buffer == Six!Over(read, room)
           part == SubSeq(buffer, 1, size)
<1>1. read \in Seq(Symbols) /\ (size = Len(bytes) => read = bytes)
  BY FirstRead
<1>2. room \in Seq(Symbols) /\ Len(room) >= size /\ Len(room) \in Nat
  BY Roomy, LenProperties
<1> HIDE DEF read, room
<1>3. /\ buffer \in Seq(Symbols) /\ Len(buffer) \in Nat /\ Len(buffer) >= Len(room)
      /\ \A i \in 1 .. Len(read) : buffer[i] = read[i]
  BY <1>1, <1>2, Buffered
<1> HIDE DEF buffer
<1>4. Len(buffer) >= size
  BY <1>2, <1>3
<1>5. /\ SubSeq(buffer, 0 + 1, size) \in Seq(Symbols)
      /\ Len(SubSeq(buffer, 0 + 1, size)) = IF 0 <= size THEN size - 0 ELSE 0
      /\ \A i \in 1 .. size - 0 : SubSeq(buffer, 0 + 1, size)[i] = buffer[0 + i]
  <2>1. 0 \in Nat /\ size \in Int /\ size <= Len(buffer)
    BY <1>3, <1>4
  <2> QED
    BY <1>3, <2>1, Part
<1>6. part \in Seq(Symbols) /\ Len(part) = size /\ \A i \in 1 .. size : part[i] = buffer[i]
  BY <1>5
<1> HIDE DEF part
<1>7. ASSUME size = Len(bytes) PROVE part = bytes
  <2>1. \A i \in 1 .. Len(part) : part[i] = bytes[i]
    BY <1>1, <1>3, <1>6, <1>7
  <2> QED
    BY <1>6, <1>7, <2>1, SeqEqual
<1>8. buffer = Read6(bytes, before, size)
  BY DEF Read6, buffer, read, room
<1> QED
  BY <1>3, <1>4, <1>6, <1>7, <1>8 DEF IsBuffer, part

------------------------------------------------------------------------------
(* The steps of 6pack *)

\* What may have gone wrong, and what did in this step.
LEMMA Faulty6 ==
  ASSUME NEW kind, Six!Fault(kind), faults \subseteq Faults
  PROVE  faults' = faults \cup {kind} /\ faults' \subseteq Faults
BY DEF Six!Fault

\* The archive in the beginning.
LEMMA FirstChunk ==
  ASSUME NEW s \in Seq(Byte), NEW n \in Blocks, NEW chunk, chunk = Good(s, n, 1)
  PROVE  /\ Chunks(<<chunk>>) /\ Chunks(<<>>) /\ 0 \in 0 .. Count(s, n)
         /\ 0 = Behind(s, n, 0) /\ Whole6(s, n, <<chunk>>, 0)
<1>1. ChunkOk(chunk)
  BY EntryIs DEF IsEntry, Whole1
<1>2. Chunks(<<chunk>>) /\ Len(<<chunk>>) = 1 /\ <<chunk>>[1] = chunk /\ Chunks(<<>>)
  BY <1>1, ChunksFirst
<1>3. Count(s, n) \in Nat /\ Behind(s, n, 0) = 0
  BY BlockSize, Blocking
<1>4. Whole6(s, n, <<chunk>>, 0)
  <2> DEFINE packed == <<chunk>>
  <2>1. Len(packed) = 0 + 1 /\ packed[1] = Good(s, n, 1)
    BY <1>2
  <2> HIDE DEF packed
  <2>2. \A k \in 1 .. 0 + 1 : packed[k] = Good(s, n, k)
    <3>1. \A k \in 1 .. 0 + 1 : k = 1
      OBVIOUS
    <3> QED
      BY <2>1, <3>1
  <2>3. Whole6(s, n, packed, 0)
    BY <2>1, <2>2, Zenon DEF Whole6
  <2> QED
    BY <2>3 DEF packed
<1> QED
  BY <1>2, <1>3, <1>4

\* 6pack begins.
LEMMA SixPack ==
  ASSUME Shape, SixTypes, SixInv, SixWhole, codec = "6pack", UNCHANGED codec, Six!Pack
  PROVE  Shape' /\ SixTypes' /\ SixInv' /\ SixWhole'
<1>1. /\ mode = "none" /\ goal = "pack" /\ mode' = "6pack" /\ at' = 0
      /\ block' \in Blocks /\ block' >= Small /\ goal' = goal /\ original' = original
      /\ open' = open /\ memory' = memory
      /\ \/ disk' = [disk EXCEPT !["packed"] = <<Six!Entry>>] /\ faults' = faults
         \/ disk' = [disk EXCEPT !["packed"] = <<>>] /\ Six!Fault("write")
  BY DEF Six!Pack
<1>2. original \in Seq(Byte) /\ DOMAIN disk = Names /\ faults \subseteq Faults
  BY ArchiveAssumption DEF Shape
<1>3. /\ disk["plain"] = original /\ disk["copy"] = Absent /\ open \in BOOLEAN
      /\ (open => disk["copy"] \in Seq(Symbols)) /\ MemoryOk(memory)
      /\ "exists" \in faults => disk["copy"] = Other
  BY <1>1 DEF SixTypes
<1> DEFINE entry == Six!Entry
<1>4. entry = Good(original, block', 1)
  BY <1>3 DEF Six!Entry, Good
<1> HIDE DEF entry
<1>5. /\ Chunks(<<entry>>) /\ Chunks(<<>>) /\ 0 \in 0 .. Count(original, block')
      /\ 0 = Behind(original, block', 0) /\ Whole6(original, block', <<entry>>, 0)
  BY <1>1, <1>2, <1>4, FirstChunk
<1>6. /\ disk'["plain"] = disk["plain"] /\ disk'["copy"] = disk["copy"] /\ DOMAIN disk' = Names
      /\ \/ disk'["packed"] = <<entry>> /\ faults' = faults
         \/ disk'["packed"] = <<>> /\ faults' = faults \cup {"write"} /\ faults' \subseteq Faults
  BY <1>1, <1>2, Faulty6 DEF entry, Names
<1>7. Shape'
  BY <1>1, <1>6 DEF Shape
<1>8. SixTypes'
  <2>1. Chunks(disk'["packed"])
    BY <1>5, <1>6
  <2>2. ("exists" \in faults' => "exists" \in faults)
    BY <1>6
  <2> QED
    BY <1>1, <1>3, <1>6, <2>1, <2>2 DEF SixTypes
<1>9. SixInv'
  <2>1. CASE faults' = faults \cup {"write"}
    BY <2>1 DEF SixInv
  <2>2. CASE disk'["packed"] = <<entry>> /\ faults' = faults
    <3>1. Copied(original', block', disk'["copy"], faults')
      BY <1>3, <1>6 DEF Copied
    <3> QED
      BY <1>1, <1>5, <2>2, <3>1 DEF SixInv
  <2> QED
    BY <1>6, <2>1, <2>2
<1>10. SixWhole'
  BY <1>1 DEF SixWhole
<1> QED
  BY <1>7, <1>8, <1>9, <1>10

\* A chunk is what it should be.
LEMMA MatchesItself ==
  ASSUME NEW good, Whole1(good), NEW wrong
  PROVE  Matches(good, good, wrong)
<1>1. Len(good["bytes"]) \in Nat /\ DOMAIN good = Fields \cup {"bytes"}
  BY LenProperties DEF Whole1
<1> QED
  BY <1>1 DEF Matches

\* The chunks an archive has.
LEMMA GoodIs ==
  ASSUME NEW s \in Seq(Byte), NEW n \in Blocks, NEW k \in 1 .. Count(s, n) + 1
  PROVE  /\ Whole1(Good(s, n, k))
         /\ k = 1 => IsEntry(s, Good(s, n, k))
         /\ k > 1 => /\ k - 1 \in 1 .. Count(s, n) /\ IsData(Piece(s, n, k - 1), Good(s, n, k))
<1>1. n \in Nat \ {0} /\ Count(s, n) \in Nat
  BY BlockSize, Blocking
<1>2. CASE k = 1
  <2>1. IsEntry(s, Good(s, n, k))
    BY <1>2, EntryIs
  <2> QED
    BY <1>2, <2>1 DEF IsEntry
<1>3. CASE k # 1
  <2> DEFINE i == k - 1
  <2>1. i \in 1 .. Count(s, n) /\ i + 1 = k /\ k > 1
    BY <1>1, <1>3
  <2> HIDE DEF i
  <2>2. IsData(Piece(s, n, i), Good(s, n, i + 1))
    BY <1>1, <2>1, DataIs
  <2>3. IsData(Piece(s, n, i), Good(s, n, k))
    BY <2>1, <2>2
  <2>4. Whole1(Good(s, n, k))
    BY <2>3 DEF IsData
  <2> QED
    BY <1>3, <2>1, <2>3, <2>4 DEF i
<1> QED
  BY <1>2, <1>3

\* The whole archive is what is left of it.
LEMMA WholeLeft ==
  ASSUME NEW s \in Seq(Byte), NEW n \in Blocks, NEW packed, NEW wrong,
         Whole6(s, n, packed, Count(s, n))
  PROVE  Left6(s, n, packed, wrong)
<1>1. n \in Nat \ {0} /\ Count(s, n) \in Nat
  BY BlockSize, Blocking
<1>2. /\ Len(packed) = Count(s, n) + 1
      /\ \A k \in 1 .. Count(s, n) + 1 : packed[k] = Good(s, n, k)
  BY DEF Whole6
<1>3. ASSUME NEW k \in 1 .. Count(s, n) + 1 PROVE Matches(packed[k], Good(s, n, k), wrong)
  <2>1. Whole1(Good(s, n, k))
    BY GoodIs
  <2> QED
    BY <1>2, <2>1, MatchesItself
<1> QED
  BY <1>1, <1>2, <1>3 DEF Left6

\* What 6pack reads, and the archive with a chunk more.
Next6(s, n, j, block6) ==
  /\ block6 = <<>> => j = Count(s, n)
  /\ block6 # <<>> => /\ j + 1 \in 0 .. Count(s, n)
                      /\ Behind(s, n, j) + Len(block6) = Behind(s, n, j + 1)
                      /\ block6 = Piece(s, n, j + 1)

LEMMA NextOf6 ==
  ASSUME NEW s \in Seq(Byte), NEW n \in Blocks, NEW j \in 0 .. Count(s, n), NEW a,
         a = Behind(s, n, j)
  PROVE  Next6(s, n, j, Read(s, a, n))
<1>1. n \in Nat \ {0} /\ Count(s, n) \in Nat /\ Len(s) \in Nat
  BY BlockSize, Blocking
<1>2. CASE j = Count(s, n)
  <2>1. Read(s, a, n) = <<>>
    <3>1. a = Len(s)
      BY <1>1, <1>2, Blocking
    <3> QED
      BY <1>1, <3>1, PieceIs
  <2> QED
    BY <1>2, <2>1 DEF Next6
<1>3. CASE j # Count(s, n)
  <2> DEFINE i == j + 1
  <2>1. i \in 1 .. Count(s, n) /\ i - 1 = j /\ i \in 0 .. Count(s, n)
    BY <1>1, <1>3
  <2> HIDE DEF i
  <2>2. /\ Piece(s, n, i) \in Seq(Byte) /\ Len(Piece(s, n, i)) \in 1 .. n
        /\ Behind(s, n, i) = Behind(s, n, i - 1) + Len(Piece(s, n, i))
    BY <1>1, <2>1, PieceIs
  <2>3. Piece(s, n, i) = Read(s, a, n)
    BY <2>1 DEF Piece
  <2>4. Read(s, a, n) # <<>>
    BY <1>1, <2>2, <2>3
  <2> QED
    BY <2>1, <2>2, <2>3, <2>4 DEF Next6, i
<1> QED
  BY <1>2, <1>3

\* A block more.
LEMMA BlockMore ==
  ASSUME NEW s \in Seq(Byte), NEW n \in Blocks, NEW packed, Chunks(packed),
         NEW j \in 0 .. Count(s, n), Whole6(s, n, packed, j),
         NEW block6, block6 # <<>>, Next6(s, n, j, block6)
  PROVE  Whole6(s, n, packed \o <<Six!Data(block6)>>, j + 1)
<1> DEFINE chunk == Six!Data(block6)
           more == packed \o <<chunk>>
           i == j + 1
<1>1. n \in Nat \ {0} /\ Count(s, n) \in Nat
  BY BlockSize, Blocking
<1>2. block6 = Piece(s, n, i) /\ i \in 1 .. Count(s, n)
  BY <1>1 DEF Next6
<1>8. j \in Nat /\ i \in Nat /\ i = j + 1
  BY <1>1
<1> HIDE DEF chunk, i
<1>3. Good(s, n, i + 1) = chunk /\ ChunkOk(chunk)
  <2>1. /\ Good(s, n, i + 1) = Six!Data(Piece(s, n, i))
        /\ IsData(Piece(s, n, i), Good(s, n, i + 1))
    BY <1>1, <1>2, DataIs
  <2>2. Good(s, n, i + 1) = chunk
    BY <1>2, <2>1 DEF chunk
  <2> QED
    BY <2>1, <2>2 DEF IsData, Whole1
<1>4. /\ Len(more) = Len(packed) + 1 /\ more[Len(packed) + 1] = chunk
      /\ \A k \in 1 .. Len(packed) : more[k] = packed[k]
  BY <1>3, ChunksMore
<1> HIDE DEF more
<1>5. Len(packed) = i /\ \A k \in 1 .. i : packed[k] = Good(s, n, k)
  BY <1>8 DEF Whole6
<1>6. ASSUME NEW k \in 1 .. i + 1 PROVE more[k] = Good(s, n, k)
  <2>1. CASE k = i + 1
    BY <1>3, <1>4, <1>5, <2>1
  <2>2. CASE k # i + 1
    <3>1. k \in 1 .. i
      BY <1>8, <2>2
    <3> QED
      BY <1>4, <1>5, <3>1
  <2> QED
    BY <2>1, <2>2
<1>7. Whole6(s, n, more, i)
  BY <1>4, <1>5, <1>6 DEF Whole6
<1> QED
  BY <1>7 DEF more, chunk, i

\* A turn of 6pack.
LEMMA SixPackBlock ==
  ASSUME Shape, SixTypes, SixInv, SixWhole, codec = "6pack", UNCHANGED codec, Six!PackBlock
  PROVE  Shape' /\ SixTypes' /\ SixInv' /\ SixWhole'
<1> DEFINE next == Six!NextBlock
           chunk == Six!Data(next)
           packed == disk["packed"]
<1>1. /\ mode = "6pack" /\ original' = original /\ block' = block
      /\ open' = open /\ memory' = memory
      /\ \/ /\ next = <<>> /\ mode' = "none" /\ goal' = "unpack"
            /\ disk' = disk /\ at' = at /\ faults' = faults
         \/ /\ Six!Fault("read") /\ mode' = "none" /\ goal' = goal /\ disk' = disk /\ at' = at
         \/ /\ next # <<>> /\ at' = at + Len(next) /\ goal' = goal /\ mode' = mode
            /\ \/ disk' = [disk EXCEPT !["packed"] = packed \o <<chunk>>] /\ faults' = faults
               \/ Six!Fault("write") /\ disk' = disk
  BY DEF Six!PackBlock, Six!Return, Six!Write, Six!files
<1>2. /\ original \in Seq(Byte) /\ DOMAIN disk = Names /\ faults \subseteq Faults
      /\ block \in Blocks /\ block \in Nat /\ at \in Nat
  BY ArchiveAssumption, BlockSize DEF Shape
<1>3. /\ goal = "pack" /\ disk["plain"] = original /\ disk["copy"] = Absent /\ open \in BOOLEAN
      /\ (open => disk["copy"] \in Seq(Symbols)) /\ MemoryOk(memory)
      /\ "exists" \in faults => disk["copy"] = Other
      /\ Chunks(packed) /\ block >= Small
  BY <1>1 DEF SixTypes
<1>4. next = Read(original, at, block)
  BY <1>3, SameReads DEF Six!NextBlock
<1>5. next \in Seq(Byte) /\ Len(next) \in Nat /\ ChunkOk(chunk)
  <2>1. next \in Seq(Byte)
    BY <1>2, <1>4, Reads
  <2>2. IsData(next, chunk)
    <3> HIDE DEF next
    <3> QED
      BY <2>1, BlockIs
  <2> QED
    BY <2>1, <2>2, LenProperties DEF IsData, Whole1
<1> HIDE DEF next
<1>6. Chunks(packed \o <<chunk>>)
  BY <1>3, <1>5, ChunksMore
<1>7. ASSUME faults \cap {"header", "write", "exists"} = {}
      PROVE  \E j \in 0 .. Count(original, block) :
               /\ at = Behind(original, block, j) /\ Whole6(original, block, packed, j)
               /\ Next6(original, block, j, next)
  <2>1. PICK j \in 0 .. Count(original, block) :
          at = Behind(original, block, j) /\ Whole6(original, block, packed, j)
    BY <1>1, <1>7 DEF SixInv
  <2>2. Next6(original, block, j, next)
    BY <1>2, <1>4, <2>1, NextOf6
  <2> QED
    BY <2>1, <2>2
<1> HIDE DEF chunk
<1>8. CASE next = <<>> /\ mode' = "none" /\ goal' = "unpack" /\ disk' = disk /\ at' = at /\ faults' = faults
  <2>1. Shape'
    BY <1>1, <1>8 DEF Shape
  <2>2. SixTypes'
    BY <1>1, <1>3, <1>8 DEF SixTypes
  <2>3. SixInv'
    <3>1. ASSUME faults \cap {"header", "write", "exists"} = {}
          PROVE  /\ Left6(original, block, packed, faults)
                 /\ Whole6(original, block, packed, Count(original, block))
      <4>1. Whole6(original, block, packed, Count(original, block))
        BY <1>7, <1>8, <3>1 DEF Next6
      <4> QED
        BY <1>2, <4>1, WholeLeft
    <3>2. Copied(original, block, disk["copy"], faults)
      BY <1>3 DEF Copied
    <3> QED
      BY <1>1, <1>8, <3>1, <3>2 DEF SixInv
  <2>4. SixWhole'
    BY <1>3, <1>8 DEF SixWhole
  <2> QED
    BY <2>1, <2>2, <2>3, <2>4
<1>9. CASE Six!Fault("read") /\ mode' = "none" /\ goal' = goal /\ disk' = disk /\ at' = at
  <2>5. faults' = faults \cup {"read"} /\ faults' \subseteq Faults
    BY <1>2, <1>9, Faulty6
  <2>1. Shape'
    BY <1>1, <1>9, <2>5 DEF Shape
  <2>2. SixTypes'
    BY <1>1, <1>3, <1>9, <2>5 DEF SixTypes
  <2>3. SixInv'
    <3>1. Copied(original', block', disk'["copy"], faults')
      BY <1>3, <1>9 DEF Copied
    <3> QED
      BY <1>3, <1>9, <3>1 DEF SixInv
  <2>4. SixWhole'
    BY <1>3, <1>9 DEF SixWhole
  <2> QED
    BY <2>1, <2>2, <2>3, <2>4
<1>10. CASE /\ next # <<>> /\ at' = at + Len(next) /\ goal' = goal /\ mode' = mode
            /\ \/ disk' = [disk EXCEPT !["packed"] = packed \o <<chunk>>] /\ faults' = faults
               \/ Six!Fault("write") /\ disk' = disk
  <2>5. /\ disk'["plain"] = disk["plain"] /\ disk'["copy"] = disk["copy"] /\ DOMAIN disk' = Names
        /\ \/ disk'["packed"] = packed \o <<chunk>> /\ faults' = faults
           \/ disk'["packed"] = packed /\ faults' = faults \cup {"write"} /\ faults' \subseteq Faults
    BY <1>2, <1>10, Faulty6 DEF Names
  <2>6. faults' \subseteq Faults /\ ("exists" \in faults' => "exists" \in faults)
    BY <1>2, <2>5
  <2>1. Shape'
    <3>1. at' \in Nat
      BY <1>2, <1>5, <1>10
    <3> QED
      BY <1>1, <1>10, <2>5, <2>6, <3>1 DEF Shape
  <2>2. SixTypes'
    <3>1. Chunks(disk'["packed"])
      BY <1>3, <1>6, <2>5
    <3> QED
      BY <1>1, <1>3, <1>10, <2>5, <2>6, <3>1 DEF SixTypes
  <2>3. SixInv'
    <3>1. CASE faults' = faults \cup {"write"}
      BY <3>1 DEF SixInv
    <3>2. CASE disk'["packed"] = packed \o <<chunk>> /\ faults' = faults
      <4>1. Copied(original', block', disk'["copy"], faults')
        BY <1>3, <2>5 DEF Copied
      <4>2. ASSUME faults \cap {"header", "write", "exists"} = {}
            PROVE  \E i \in 0 .. Count(original, block) :
                     /\ at' = Behind(original, block, i)
                     /\ Whole6(original, block, packed \o <<chunk>>, i)
        <5>1. PICK j \in 0 .. Count(original, block) :
                 /\ at = Behind(original, block, j) /\ Whole6(original, block, packed, j)
                 /\ Next6(original, block, j, next)
          BY <1>7, <4>2
        <5>2. /\ j + 1 \in 0 .. Count(original, block)
              /\ Behind(original, block, j) + Len(next) = Behind(original, block, j + 1)
          BY <1>10, <5>1 DEF Next6
        <5>3. Whole6(original, block, packed \o <<chunk>>, j + 1)
          <6> HIDE DEF packed
          <6>1. Chunks(packed) /\ next # <<>>
            BY <1>3, <1>10
          <6> QED
            BY <1>2, <5>1, <6>1, BlockMore DEF chunk
        <5> QED
          BY <1>10, <5>1, <5>2, <5>3
      <4> QED
        BY <1>1, <1>3, <1>10, <3>2, <4>1, <4>2 DEF SixInv
    <3> QED
      BY <2>5, <3>1, <3>2
  <2>4. SixWhole'
    BY <1>1, <1>3, <1>10 DEF SixWhole
  <2> QED
    BY <2>1, <2>2, <2>3, <2>4
<1> QED
  BY <1>1, <1>8, <1>9, <1>10

\* The user removes an archive that is not complete.
LEMMA SixDiscard ==
  ASSUME Shape, SixTypes, SixInv, SixWhole, codec = "6pack", UNCHANGED codec, Six!Discard
  PROVE  Shape' /\ SixTypes' /\ SixInv' /\ SixWhole'
<1>1. /\ mode = "none" /\ goal = "pack" /\ disk' = [disk EXCEPT !["packed"] = Absent]
      /\ UNCHANGED <<goal, mode, original, block, at, faults, open, memory>>
  BY DEF Six!Discard, Six!files
<1>2. DOMAIN disk' = Names /\ disk'["plain"] = disk["plain"] /\ disk'["copy"] = disk["copy"]
  BY <1>1 DEF Shape, Names
<1>3. Shape'
  BY <1>1, <1>2 DEF Shape
<1>4. SixTypes'
  BY <1>1, <1>2 DEF SixTypes
<1>5. SixInv' /\ SixWhole'
  BY <1>1, <1>2 DEF SixInv, SixWhole
<1> QED
  BY <1>3, <1>4, <1>5

\* A tool is killed.
LEMMA SixCrash ==
  ASSUME Shape, SixTypes, SixInv, SixWhole, codec = "6pack", UNCHANGED codec,
         Six!Crash, UNCHANGED <<open, memory>>
  PROVE  Shape' /\ SixTypes' /\ SixInv' /\ SixWhole'
<1>1. /\ mode # "none" /\ Six!Fault("crash") /\ mode' = "none"
      /\ UNCHANGED <<goal, original, block, disk, at, open, memory>>
  BY DEF Six!Crash, Six!files
<1>2. faults' = faults \cup {"crash"} /\ faults' \subseteq Faults
  BY <1>1, Faulty6 DEF Shape
<1>3. Shape'
  BY <1>1, <1>2 DEF Shape
<1>4. SixTypes'
  BY <1>1, <1>2 DEF SixTypes
<1>5. SixInv'
  <2>1. ASSUME faults' \cap {"header", "write", "exists"} = {}
        PROVE  /\ goal # "pack" =>
                    /\ Left6(original, block, disk["packed"], faults')
                    /\ faults' \cap {"cut", "changed"} = {} =>
                         Whole6(original, block, disk["packed"], Count(original, block))
               /\ Copied(original, block, disk["copy"], faults')
    <3>1. /\ faults \cap {"header", "write", "exists"} = {}
          /\ "changed" \in faults' <=> "changed" \in faults
          /\ faults' \cap {"cut", "changed"} = {} => faults \cap {"cut", "changed"} = {}
      BY <1>2, <2>1
    <3>2. /\ goal # "pack" =>
               /\ Left6(original, block, disk["packed"], faults)
               /\ faults \cap {"cut", "changed"} = {} =>
                    Whole6(original, block, disk["packed"], Count(original, block))
          /\ Copied(original, block, disk["copy"], faults)
      BY <3>1 DEF SixInv
    <3>3. goal # "pack" => Left6(original, block, disk["packed"], faults')
      BY <3>1, <3>2 DEF Left6, Matches
    <3>4. Copied(original, block, disk["copy"], faults')
      BY <3>1, <3>2 DEF Copied
    <3> QED
      BY <3>1, <3>2, <3>3, <3>4
  <2> QED
    BY <1>1, <2>1 DEF SixInv
<1>6. SixWhole'
  BY <1>2 DEF SixWhole
<1> QED
  BY <1>3, <1>4, <1>5, <1>6

\* What is damaged stays a chunk: its bytes end early,
IsShort(chunk, short) ==
  /\ DOMAIN short = DOMAIN chunk /\ short["bytes"] \in Seq(Symbols)
  /\ \A field \in DOMAIN chunk \ {"bytes"} : short[field] = chunk[field]
  /\ Len(short["bytes"]) <= Len(chunk["bytes"])
  /\ \A i \in 1 .. Len(short["bytes"]) : short["bytes"][i] = chunk["bytes"][i]

LEMMA ShortChunk ==
  ASSUME NEW chunk, ChunkOk(chunk), NEW n \in 0 .. Len(chunk.bytes) - 1,
         NEW short, short = [chunk EXCEPT !.bytes = SubSeq(@, 1, n)]
  PROVE  ChunkOk(short) /\ IsShort(chunk, short)
<1> DEFINE bytes == chunk["bytes"]
           cut == SubSeq(bytes, 1, n)
<1>1. bytes \in Seq(Symbols) /\ "bytes" \in DOMAIN chunk /\ Len(bytes) \in Nat
  BY LenProperties DEF ChunkOk
<1>2. n \in Nat /\ n \in Int /\ n <= Len(bytes) /\ 0 \in Nat /\ chunk.bytes = chunk["bytes"]
  BY <1>1
<1>3. /\ DOMAIN short = DOMAIN chunk /\ short["bytes"] = cut
      /\ \A field \in DOMAIN chunk \ {"bytes"} : short[field] = chunk[field]
  BY <1>1
<1> HIDE DEF bytes
<1>4. /\ SubSeq(bytes, 0 + 1, n) \in Seq(Symbols)
      /\ Len(SubSeq(bytes, 0 + 1, n)) = IF 0 <= n THEN n - 0 ELSE 0
      /\ \A i \in 1 .. n - 0 : SubSeq(bytes, 0 + 1, n)[i] = bytes[0 + i]
  BY <1>1, <1>2, Part
<1>5. cut \in Seq(Symbols) /\ Len(cut) = n /\ \A i \in 1 .. n : cut[i] = bytes[i]
  BY <1>2, <1>4
<1> HIDE DEF cut
<1>6. ChunkOk(short)
  BY <1>1, <1>3, <1>5 DEF ChunkOk
<1>7. IsShort(chunk, short)
  BY <1>1, <1>2, <1>3, <1>5 DEF IsShort, bytes
<1> QED
  BY <1>6, <1>7

LEMMA ShortMatches ==
  ASSUME NEW chunk, ChunkOk(chunk), NEW short, IsShort(chunk, short),
         NEW good, Whole1(good), NEW wrong, Matches(chunk, good, wrong)
  PROVE  Matches(short, good, wrong)
<1>1. /\ Len(chunk["bytes"]) \in Nat /\ Len(short["bytes"]) \in Nat /\ Len(good["bytes"]) \in Nat
      /\ "bytes" \notin Fields
  BY LenProperties DEF ChunkOk, IsShort, Whole1, Fields, Six!NoHeader
<1>2. \A field \in Fields : field \in DOMAIN short /\ short[field] = good[field]
  BY <1>1 DEF IsShort, Matches
<1>3. Len(short["bytes"]) <= Len(good["bytes"])
  BY <1>1 DEF IsShort, Matches
<1>4. ASSUME "changed" \notin wrong, NEW i \in 1 .. Len(short["bytes"])
      PROVE  short["bytes"][i] = good["bytes"][i]
  <2>1. i \in 1 .. Len(chunk["bytes"])
    BY <1>1 DEF IsShort
  <2> QED
    BY <1>4, <2>1 DEF IsShort, Matches
<1> QED
  BY <1>2, <1>3, <1>4 DEF Matches

\* its header ends early,
LEMMA BareChunk ==
  ASSUME NEW chunk, ChunkOk(chunk), NEW kept,
         NEW bare, bare = Six!Part(chunk, kept)
  PROVE  ChunkOk(bare)
<1>0. bare = [field \in (DOMAIN chunk \cap kept) \cup {"bytes"} |->
                IF field = "bytes" THEN <<>> ELSE chunk[field]]
  BY DEF Six!Part
<1> USE <1>0
<1>1. "bytes" \in DOMAIN bare /\ bare["bytes"] = <<>> /\ <<>> \in Seq(Symbols)
  BY EmptySeq
<1>2. "size" \in DOMAIN bare => "size" \in DOMAIN chunk /\ bare["size"] = chunk["size"]
  OBVIOUS
<1> QED
  BY <1>1, <1>2 DEF ChunkOk

\* a byte of it is another one.
IsJunk(chunk, junk) ==
  /\ DOMAIN junk = DOMAIN chunk /\ Len(junk["bytes"]) = Len(chunk["bytes"])
  /\ \A field \in DOMAIN chunk \ {"bytes"} : junk[field] = chunk[field]

LEMMA JunkChunk ==
  ASSUME NEW chunk, ChunkOk(chunk), NEW n \in DOMAIN chunk.bytes,
         NEW junk, junk = [chunk EXCEPT !.bytes = [@ EXCEPT ![n] = Junk]]
  PROVE  ChunkOk(junk) /\ IsJunk(chunk, junk)
<1> DEFINE bytes == chunk["bytes"]
           other == [bytes EXCEPT ![n] = Junk]
<1>1. bytes \in Seq(Symbols) /\ "bytes" \in DOMAIN chunk /\ Len(bytes) \in Nat
  BY LenProperties DEF ChunkOk
<1>2. n \in 1 .. Len(bytes) /\ chunk.bytes = chunk["bytes"]
  BY <1>1
<1>3. /\ DOMAIN junk = DOMAIN chunk /\ junk["bytes"] = other
      /\ \A field \in DOMAIN chunk \ {"bytes"} : junk[field] = chunk[field]
  BY <1>1
<1> HIDE DEF bytes
<1>4. other \in Seq(Symbols) /\ Len(other) = Len(bytes)
  <2>1. Junk \in Symbols
    BY DEF Symbols
  <2>2. other \in Seq(Symbols)
    BY <1>1, <1>2, <2>1, ExceptSeq
  <2>3. Len(other) = Len(bytes)
    BY <1>1, <1>2, <2>1, ExceptSeq
  <2> QED
    BY <2>2, <2>3
<1> HIDE DEF other
<1>5. ChunkOk(junk)
  BY <1>1, <1>3, <1>4 DEF ChunkOk
<1>6. IsJunk(chunk, junk)
  BY <1>3, <1>4 DEF IsJunk, bytes
<1> QED
  BY <1>5, <1>6

LEMMA JunkMatches ==
  ASSUME NEW chunk, NEW junk, IsJunk(chunk, junk),
         NEW good, NEW wrong, NEW more, "changed" \in more, Matches(chunk, good, wrong)
  PROVE  Matches(junk, good, more)
<1>1. "bytes" \notin Fields
  BY DEF Fields, Six!NoHeader
<1> QED
  BY <1>1 DEF IsJunk, Matches

\* What is left of an archive that is damaged.
Damaged(packed, new, more) ==
  /\ Len(new) <= Len(packed)
  /\ \A k \in 1 .. Len(new) :
       \/ new[k] = packed[k] \/ IsShort(packed[k], new[k])
       \/ IsJunk(packed[k], new[k]) /\ "changed" \in more

LEMMA LeftAfter ==
  ASSUME NEW s \in Seq(Byte), NEW n \in Blocks, NEW packed, Chunks(packed),
         NEW new, Chunks(new), NEW wrong, NEW more, wrong \subseteq more,
         Left6(s, n, packed, wrong), Damaged(packed, new, more)
  PROVE  Left6(s, n, new, more)
<1>1. Count(s, n) \in Nat /\ Len(packed) \in Nat /\ Len(new) \in Nat
  BY BlockSize, Blocking, ChunksAre
<1>2. Len(new) <= Len(packed) /\ Len(packed) <= Count(s, n) + 1
  BY DEF Damaged, Left6
<1>3. ASSUME NEW k \in 1 .. Len(new) PROVE Matches(new[k], Good(s, n, k), more)
  <2> DEFINE good == Good(s, n, k)
             chunk == packed[k]
             now == new[k]
  <2>1. k \in 1 .. Len(packed) /\ k \in 1 .. Count(s, n) + 1
    BY <1>1, <1>2
  <2>2. Matches(chunk, good, wrong)
    BY <2>1 DEF Left6
  <2>3. ChunkOk(chunk)
    BY <2>1, ChunksAre
  <2>4. Whole1(good)
    BY <2>1, GoodIs
  <2>5. now = chunk \/ IsShort(chunk, now) \/ (IsJunk(chunk, now) /\ "changed" \in more)
    BY <1>3 DEF Damaged
  <2> HIDE DEF good, chunk, now
  <2>6. Matches(chunk, good, more)
    BY <2>2 DEF Matches
  <2>7. Matches(now, good, more)
    <3>1. CASE now = chunk
      BY <2>6, <3>1
    <3>2. CASE IsShort(chunk, now)
      BY <2>3, <2>4, <2>6, <3>2, ShortMatches
    <3>3. CASE IsJunk(chunk, now) /\ "changed" \in more
      BY <2>2, <3>3, JunkMatches
    <3> QED
      BY <2>5, <3>1, <3>2, <3>3
  <2> QED
    BY <2>7 DEF now, good
<1> QED
  BY <1>1, <1>2, <1>3 DEF Left6

\* It ends before a chunk,
LEMMA EndCut ==
  ASSUME NEW packed, Chunks(packed), NEW k \in 1 .. Len(packed), NEW more
  PROVE  /\ Chunks(SubSeq(packed, 1, k - 1) \o <<>>)
         /\ Damaged(packed, SubSeq(packed, 1, k - 1) \o <<>>, more)
<1> DEFINE cut == SubSeq(packed, 1, k - 1)
<1>1. /\ Chunks(cut) /\ Len(cut) = k - 1 /\ \A i \in 1 .. k - 1 : cut[i] = packed[i]
      /\ cut \o <<>> = cut
  BY ChunksCut
<1>2. Len(packed) \in Nat
  BY ChunksAre
<1> HIDE DEF cut
<1>3. Len(cut) <= Len(packed) /\ \A i \in 1 .. Len(cut) : cut[i] = packed[i]
  BY <1>1, <1>2
<1>4. Damaged(packed, cut, more)
  BY <1>3 DEF Damaged
<1>5. Chunks(cut \o <<>>) /\ Damaged(packed, cut \o <<>>, more)
  BY <1>1, <1>4
<1> QED
  BY <1>5 DEF cut

\* behind a part of one,
LEMMA EndLast ==
  ASSUME NEW packed, Chunks(packed), NEW k \in 1 .. Len(packed), NEW more,
         NEW last, ChunkOk(last)
  PROVE  /\ Chunks(SubSeq(packed, 1, k - 1) \o <<last>>)
         /\ IsShort(packed[k], last) =>
              Damaged(packed, SubSeq(packed, 1, k - 1) \o <<last>>, more)
<1> DEFINE cut == SubSeq(packed, 1, k - 1)
           new == cut \o <<last>>
<1>1. Chunks(cut) /\ Len(cut) = k - 1 /\ \A i \in 1 .. k - 1 : cut[i] = packed[i]
  BY ChunksCut
<1>2. Len(packed) \in Nat /\ k \in Nat /\ k <= Len(packed)
  BY ChunksAre
<1> HIDE DEF cut
<1>3. /\ Chunks(new) /\ Len(new) = Len(cut) + 1 /\ new[Len(cut) + 1] = last
      /\ \A i \in 1 .. Len(cut) : new[i] = cut[i]
  BY <1>1, ChunksMore
<1> HIDE DEF new
<1>4. Len(new) = k /\ new[k] = last /\ \A i \in 1 .. k - 1 : new[i] = packed[i]
  BY <1>1, <1>2, <1>3
<1>5. ASSUME IsShort(packed[k], last) PROVE Damaged(packed, new, more)
  <2>1. ASSUME NEW i \in 1 .. Len(new) PROVE new[i] = packed[i] \/ IsShort(packed[i], new[i])
    <3>1. i = k \/ i \in 1 .. k - 1
      BY <1>2, <1>4
    <3> QED
      BY <1>4, <1>5, <3>1
  <2> QED
    BY <1>2, <1>4, <2>1 DEF Damaged
<1> QED
  BY <1>3, <1>5 DEF new, cut

\* or has another byte.
LEMMA OneJunk ==
  ASSUME NEW packed, Chunks(packed), NEW k \in 1 .. Len(packed), NEW more, "changed" \in more,
         NEW junk, ChunkOk(junk), IsJunk(packed[k], junk)
  PROVE  /\ Chunks([packed EXCEPT ![k] = junk])
         /\ Damaged(packed, [packed EXCEPT ![k] = junk], more)
<1> DEFINE new == [packed EXCEPT ![k] = junk]
<1>1. PICK S : packed \in Seq(S) /\ \A c \in S : ChunkOk(c)
  BY DEF Chunks
<1> DEFINE T == S \cup {junk}
<1>2. \A c \in T : ChunkOk(c)
  BY <1>1
<1>3. packed \in Seq(T) /\ junk \in T
  <2>1. S \subseteq T /\ junk \in T
    OBVIOUS
  <2> HIDE DEF T
  <2> QED
    BY <1>1, <2>1, Wider
<1> HIDE DEF T
<1>4. /\ new \in Seq(T) /\ Len(new) = Len(packed)
      /\ \A j \in 1 .. Len(packed) : new[j] = IF j = k THEN junk ELSE packed[j]
  BY <1>3, ExceptSeq
<1> HIDE DEF new
<1>5. Chunks(new)
  BY <1>2, <1>4 DEF Chunks
<1>6. Len(packed) \in Nat
  BY ChunksAre
<1>7. Damaged(packed, new, more)
  BY <1>4, <1>6 DEF Damaged
<1> QED
  BY <1>5, <1>7 DEF new

\* What was written stays when something more goes wrong.
LEMMA CopiedAfter ==
  ASSUME NEW s, NEW n, NEW copy, NEW wrong, NEW more, wrong \subseteq more,
         Copied(s, n, copy, wrong)
  PROVE  Copied(s, n, copy, more)
<1>1. "changed" \notin more => "changed" \notin wrong
  OBVIOUS
<1> QED
  BY <1>1 DEF Copied

LEMMA SixDamaged ==
  ASSUME Shape, SixTypes, SixInv, SixWhole, codec = "6pack", mode = "none", goal = "unpack",
         UNCHANGED <<codec, goal, mode, original, block, at, open, memory>>,
         NEW new, Chunks(new), disk' = [disk EXCEPT !["packed"] = new],
         NEW kind \in {"cut", "header", "changed"}, Six!Fault(kind),
         kind # "header" => Damaged(disk["packed"], new, faults \cup {kind})
  PROVE  Shape' /\ SixTypes' /\ SixInv' /\ SixWhole'
<1>1. faults' = faults \cup {kind} /\ faults' \subseteq Faults
  BY Faulty6 DEF Shape
<1>2. /\ DOMAIN disk' = Names /\ disk'["packed"] = new
      /\ disk'["plain"] = disk["plain"] /\ disk'["copy"] = disk["copy"]
  BY DEF Shape, Names
<1>3. Shape'
  BY <1>1, <1>2 DEF Shape
<1>4. SixTypes'
  BY <1>1, <1>2 DEF SixTypes
<1>5. SixInv'
  <2>1. CASE kind = "header"
    BY <1>1, <2>1 DEF SixInv
  <2>2. CASE kind # "header"
    <3>1. ASSUME faults' \cap {"header", "write", "exists"} = {}
          PROVE  /\ Left6(original, block, new, faults')
                 /\ Copied(original, block, disk["copy"], faults')
      <4>1. faults \cap {"header", "write", "exists"} = {} /\ faults \subseteq faults'
        BY <1>1, <3>1
      <4>2. /\ Left6(original, block, disk["packed"], faults)
            /\ Copied(original, block, disk["copy"], faults)
        BY <4>1 DEF SixInv
      <4>3. Chunks(disk["packed"]) /\ original \in Seq(Byte) /\ block \in Blocks
        BY ArchiveAssumption DEF SixTypes, Shape
      <4>4. Damaged(disk["packed"], new, faults')
        BY <1>1, <2>2
      <4>5. Left6(original, block, new, faults')
        BY <4>1, <4>2, <4>3, <4>4, LeftAfter
      <4>6. Copied(original, block, disk["copy"], faults')
        BY <4>1, <4>2, CopiedAfter
      <4> QED
        BY <4>5, <4>6
    <3>2. faults' \cap {"cut", "changed"} # {}
      BY <1>1, <2>2
    <3> QED
      BY <1>2, <3>1, <3>2 DEF SixInv
  <2> QED
    BY <2>1, <2>2
<1>6. SixWhole'
  BY <1>1 DEF SixWhole
<1> QED
  BY <1>3, <1>4, <1>5, <1>6

LEMMA SixDamage ==
  ASSUME Shape, SixTypes, SixInv, SixWhole, codec = "6pack", UNCHANGED codec, Six!Damage
  PROVE  Shape' /\ SixTypes' /\ SixInv' /\ SixWhole'
<1> DEFINE packed == disk["packed"]
<1>1. /\ mode = "none" /\ goal = "unpack"
      /\ UNCHANGED <<goal, mode, original, block, at, open, memory>>
  BY DEF Six!Damage, Six!files
<1>2. PICK k \in DOMAIN disk["packed"] :
        LET chunk == disk["packed"][k]
            Kept(last) == [disk EXCEPT !["packed"] = SubSeq(@, 1, k - 1) \o last]
        IN \/ Six!Fault("cut") /\ disk' = Kept(<<>>)
           \/ /\ Six!Fault("cut")
              /\ \E n \in 0 .. Len(chunk.bytes) - 1 :
                   disk' = Kept(<<[chunk EXCEPT !.bytes = SubSeq(@, 1, n)]>>)
           \/ /\ Six!Fault("header")
              /\ \E kept \in Six!Parts : disk' = Kept(<<Six!Part(chunk, kept)>>)
           \/ /\ Six!Fault("changed")
              /\ \E n \in DOMAIN chunk.bytes :
                   disk' = [disk EXCEPT !["packed"][k].bytes[n] = Junk]
  BY Zenon DEF Six!Damage
<1>3. Chunks(packed) /\ DOMAIN disk = Names
  BY <1>1 DEF SixTypes, Shape
<1>4. k \in 1 .. Len(packed) /\ ChunkOk(packed[k])
  BY <1>2, <1>3, ChunksAre
<1> DEFINE chunk == packed[k]
           cut == SubSeq(packed, 1, k - 1)
<1>5. CASE Six!Fault("cut") /\ disk' = [disk EXCEPT !["packed"] = cut \o <<>>]
  <2>1. Chunks(cut \o <<>>) /\ Damaged(packed, cut \o <<>>, faults \cup {"cut"})
    BY <1>3, <1>4, EndCut
  <2> DEFINE new == cut \o <<>>
  <2>2. disk' = [disk EXCEPT !["packed"] = new]
    BY <1>5
  <2> HIDE DEF new
  <2>3. Chunks(new) /\ Damaged(disk["packed"], new, faults \cup {"cut"})
    BY <2>1 DEF new
  <2> QED
    BY <1>1, <1>5, <2>2, <2>3, SixDamaged
<1>6. ASSUME Six!Fault("cut"), NEW n \in 0 .. Len(chunk.bytes) - 1,
             disk' = [disk EXCEPT !["packed"] =
                        cut \o <<[chunk EXCEPT !.bytes = SubSeq(@, 1, n)]>>]
      PROVE  Shape' /\ SixTypes' /\ SixInv' /\ SixWhole'
  <2> DEFINE last == [chunk EXCEPT !.bytes = SubSeq(@, 1, n)]
             new == cut \o <<last>>
  <2>1. ChunkOk(last) /\ IsShort(chunk, last)
    <3> HIDE DEF chunk
    <3>1. ChunkOk(chunk)
      BY <1>4 DEF chunk
    <3> QED
      BY <1>6, <3>1, ShortChunk
  <2>2. disk' = [disk EXCEPT !["packed"] = new]
    BY <1>6
  <2> HIDE DEF last
  <2>3. Chunks(new) /\ Damaged(packed, new, faults \cup {"cut"})
    BY <1>3, <1>4, <2>1, EndLast
  <2> HIDE DEF new
  <2>4. Chunks(new) /\ Damaged(disk["packed"], new, faults \cup {"cut"})
    BY <2>3
  <2> QED
    BY <1>1, <1>6, <2>2, <2>4, SixDamaged
<1>7. ASSUME Six!Fault("header"), NEW kept,
             disk' = [disk EXCEPT !["packed"] = cut \o <<Six!Part(chunk, kept)>>]
      PROVE  Shape' /\ SixTypes' /\ SixInv' /\ SixWhole'
  <2> DEFINE last == Six!Part(chunk, kept)
             new == cut \o <<last>>
  <2>1. ChunkOk(last)
    <3> HIDE DEF chunk
    <3>1. ChunkOk(chunk)
      BY <1>4 DEF chunk
    <3> QED
      BY <3>1, BareChunk
  <2>2. disk' = [disk EXCEPT !["packed"] = new]
    BY <1>7
  <2> HIDE DEF last
  <2>3. Chunks(new)
    BY <1>3, <1>4, <2>1, EndLast
  <2> HIDE DEF new
  <2> QED
    BY <1>1, <1>7, <2>2, <2>3, SixDamaged
<1>8. ASSUME Six!Fault("changed"), NEW n \in DOMAIN chunk.bytes,
             disk' = [disk EXCEPT !["packed"][k].bytes[n] = Junk]
      PROVE  Shape' /\ SixTypes' /\ SixInv' /\ SixWhole'
  <2> DEFINE last == [chunk EXCEPT !.bytes = [@ EXCEPT ![n] = Junk]]
             new == [packed EXCEPT ![k] = last]
  <2>1. ChunkOk(last) /\ IsJunk(chunk, last)
    <3> HIDE DEF chunk
    <3>1. ChunkOk(chunk)
      BY <1>4 DEF chunk
    <3> QED
      BY <1>8, <3>1, JunkChunk
  <2>2. disk' = [disk EXCEPT !["packed"] = new]
    BY <1>8, Zenon
  <2> HIDE DEF last
  <2>3. Chunks(new) /\ Damaged(packed, new, faults \cup {"changed"})
    <3>1. "changed" \in faults \cup {"changed"}
      OBVIOUS
    <3> QED
      BY <1>3, <1>4, <2>1, <3>1, OneJunk
  <2> HIDE DEF new
  <2>4. Chunks(new) /\ Damaged(disk["packed"], new, faults \cup {"changed"})
    BY <2>3
  <2> QED
    BY <1>1, <1>8, <2>2, <2>4, SixDamaged
<1>9. \/ Six!Fault("cut") /\ disk' = [disk EXCEPT !["packed"] = cut \o <<>>]
      \/ /\ Six!Fault("cut")
         /\ \E n \in 0 .. Len(chunk.bytes) - 1 :
              disk' = [disk EXCEPT !["packed"] =
                         cut \o <<[chunk EXCEPT !.bytes = SubSeq(@, 1, n)]>>]
      \/ /\ Six!Fault("header")
         /\ \E kept : disk' = [disk EXCEPT !["packed"] = cut \o <<Six!Part(chunk, kept)>>]
      \/ /\ Six!Fault("changed")
         /\ \E n \in DOMAIN chunk.bytes :
              disk' = [disk EXCEPT !["packed"][k].bytes[n] = Junk]
  BY <1>2, Zenon
<1> QED
  BY <1>5, <1>6, <1>7, <1>8, <1>9, Zenon

\* A file of that name appears.
LEMMA SixExists ==
  ASSUME Shape, SixTypes, SixInv, SixWhole, codec = "6pack", UNCHANGED codec, Six!Exists
  PROVE  Shape' /\ SixTypes' /\ SixInv' /\ SixWhole'
<1>1. /\ mode = "none" /\ goal = "unpack" /\ disk["copy"] = Absent /\ Six!Fault("exists")
      /\ disk' = [disk EXCEPT !["copy"] = Other]
      /\ UNCHANGED <<goal, mode, original, block, at, open, memory>>
  BY DEF Six!Exists, Six!files
<1>2. faults' = faults \cup {"exists"} /\ faults' \subseteq Faults
  BY <1>1, Faulty6 DEF Shape
<1>3. /\ DOMAIN disk' = Names /\ disk'["copy"] = Other
      /\ disk'["plain"] = disk["plain"] /\ disk'["packed"] = disk["packed"]
  BY <1>1 DEF Shape, Names
<1>4. Shape'
  BY <1>1, <1>2, <1>3 DEF Shape
<1>5. open = FALSE
  <2>1. Absent \notin Seq(Symbols)
    BY ArchivesAssumption DEF Symbols
  <2> QED
    BY <1>1, <2>1 DEF SixTypes
<1>6. SixTypes'
  BY <1>1, <1>2, <1>3, <1>5 DEF SixTypes
<1>7. SixInv' /\ SixWhole'
  BY <1>2 DEF SixInv, SixWhole
<1> QED
  BY <1>4, <1>6, <1>7

\* 6unpack begins.
LEMMA FreshMemory == MemoryOk(Six!Fresh)
<1>1. <<>> \in Seq(Symbols) /\ 0 \in Nat
  BY EmptySeq
<1> DEFINE none == <<>>
<1>2. none \in Seq(Symbols)
  BY <1>1
<1> HIDE DEF none
<1>3. Six!Fresh = [header |-> Six!NoHeader, buffer |-> none, code |-> none, size |-> 0]
  BY DEF Six!Fresh, none
<1>4. DOMAIN Six!NoHeader = Fields /\ Six!NoHeader["size"] = 0
  BY DEF Fields, Six!NoHeader
<1> QED
  BY <1>1, <1>2, <1>3, <1>4 DEF MemoryOk

LEMMA SixUnpack ==
  ASSUME Shape, SixTypes, SixInv, SixWhole, codec = "6pack", UNCHANGED codec, Six!Unpack
  PROVE  Shape' /\ SixTypes' /\ SixInv' /\ SixWhole'
<1>1. /\ mode = "none" /\ goal = "unpack" /\ mode' = "6unpack"
      /\ at' = 0 /\ open' = FALSE /\ memory' = Six!Fresh
      /\ UNCHANGED <<goal, original, block, disk, faults>>
  BY DEF Six!Unpack, Six!files
<1>2. MemoryOk(memory')
  BY <1>1, FreshMemory
<1>3. Shape'
  BY <1>1 DEF Shape
<1>4. SixTypes'
  BY <1>1, <1>2 DEF SixTypes
<1>5. SixInv'
  <2>1. Chunks(disk["packed"])
    BY <1>1 DEF SixTypes
  <2>2. at' <= Len(disk["packed"])
    BY <1>1, <2>1, ChunksAre
  <2> QED
    BY <1>1, <2>2 DEF SixInv
<1>6. SixWhole'
  BY <1>1 DEF SixWhole
<1> QED
  BY <1>3, <1>4, <1>5, <1>6

\* A header as it is read, and what it says of the chunk.
Head6(chunk, head) ==
  /\ DOMAIN head = Fields /\ head["size"] \in Nat
  /\ \A field \in Fields \cap DOMAIN chunk : head[field] = chunk[field]

LEMMA HeaderIs ==
  ASSUME NEW chunk, ChunkOk(chunk), NEW held, MemoryOk(held),
         NEW stale \in {held.header, Six!NoHeader, [Six!NoHeader EXCEPT !.options = 2]},
         NEW head, head = Six!Header(chunk, stale)
  PROVE  Head6(chunk, head)
<1>1. "size" \in Fields /\ "options" \in Fields
  BY DEF Fields, Six!NoHeader
<1>2. stale["size"] \in Nat
  <2>1. CASE stale = held.header
    BY <2>1 DEF MemoryOk
  <2>2. CASE stale = Six!NoHeader \/ stale = [Six!NoHeader EXCEPT !.options = 2]
    BY <2>2 DEF Six!NoHeader
  <2> QED
    BY <2>1, <2>2
<1>3. head = [field \in Fields |-> IF field \in DOMAIN chunk THEN chunk[field] ELSE stale[field]]
  BY DEF Six!Header, Fields
<1>4. "size" \in DOMAIN chunk => chunk["size"] \in Nat
  BY DEF ChunkOk
<1> QED
  BY <1>1, <1>2, <1>3, <1>4 DEF Head6

LEMMA HeadMatches ==
  ASSUME NEW chunk, NEW head, Head6(chunk, head), NEW good, NEW wrong,
         Matches(chunk, good, wrong)
  PROVE  /\ head["id"] = good["id"] /\ head["options"] = good["options"]
         /\ head["size"] = good["size"] /\ head["checksum"] = good["checksum"]
         /\ head["extra"] = good["extra"]
<1>1. Fields = {"id", "options", "size", "checksum", "extra"}
  BY DEF Fields, Six!NoHeader
<1>2. \A field \in Fields : head[field] = good[field]
  BY DEF Head6, Matches
<1> QED
  BY <1>1, <1>2

\* The next chunk of an archive.
LEMMA NextChunk ==
  ASSUME Shape, SixTypes, SixInv, codec = "6pack", mode = "6unpack", at < Len(disk["packed"])
  PROVE  /\ ChunkOk(disk["packed"][at + 1]) /\ original \in Seq(Byte)
         /\ faults \cap {"header", "write", "exists"} = {} =>
              /\ at + 1 \in 1 .. Count(original, block) + 1
              /\ Matches(disk["packed"][at + 1], Good(original, block, at + 1), faults)
              /\ faults \subseteq {"read"} =>
                   disk["packed"][at + 1] = Good(original, block, at + 1)
<1> DEFINE packed == disk["packed"]
           k == at + 1
<1>1. goal = "unpack" /\ Chunks(packed) /\ at \in Nat /\ original \in Seq(Byte) /\ block \in Blocks
  BY ArchiveAssumption DEF SixTypes, Shape
<1>2. Len(packed) \in Nat /\ k \in 1 .. Len(packed) /\ ChunkOk(packed[k])
  <2>1. Len(packed) \in Nat
    BY <1>1, ChunksAre
  <2>2. k \in 1 .. Len(packed)
    BY <1>1, <2>1
  <2> QED
    BY <1>1, <2>1, <2>2, ChunksAre
<1>3. Count(original, block) \in Nat
  BY <1>1, BlockSize, Blocking
<1>4. ASSUME faults \cap {"header", "write", "exists"} = {}
      PROVE  /\ k \in 1 .. Count(original, block) + 1
             /\ Matches(packed[k], Good(original, block, k), faults)
             /\ faults \subseteq {"read"} => packed[k] = Good(original, block, k)
  <2>1. /\ Left6(original, block, packed, faults)
        /\ faults \cap {"cut", "changed"} = {} =>
             Whole6(original, block, packed, Count(original, block))
    BY <1>1, <1>4 DEF SixInv
  <2>2. Len(packed) <= Count(original, block) + 1 /\ Matches(packed[k], Good(original, block, k), faults)
    BY <1>2, <2>1 DEF Left6
  <2>3. k \in 1 .. Count(original, block) + 1
    BY <1>2, <1>3, <2>2
  <2>4. ASSUME faults \subseteq {"read"} PROVE packed[k] = Good(original, block, k)
    <3>1. faults \cap {"cut", "changed"} = {}
      BY <2>4
    <3>2. Whole6(original, block, packed, Count(original, block))
      BY <2>1, <3>1
    <3> HIDE DEF k
    <3> QED
      BY <2>3, <3>2 DEF Whole6
  <2> QED
    BY <2>2, <2>3, <2>4
<1> QED
  BY <1>1, <1>2, <1>4

\* A turn of 6unpack that is not its last goes on to a later place of the
\* archive, the next one unless it does not know the size of this one.
Advances ==
  /\ at < Len(disk["packed"]) /\ at' \in at + 1 .. Len(disk["packed"])
  /\ "header" \notin faults' => at' = at + 1
  /\ faults \subseteq faults' /\ faults' \subseteq Faults
  /\ "exists" \in faults' => "exists" \in faults

Keeps(s, n, k, held, copy, wrong, opened) ==
  /\ MemoryOk(held) /\ opened \in BOOLEAN
  /\ copy \in Seq(Symbols) \cup {Absent, Other} /\ (opened => copy \in Seq(Symbols))
  /\ "exists" \in wrong => copy = Other
  /\ wrong \cap {"header", "write", "exists"} = {} =>
       (opened => Verified(s, n, k, held, copy)) /\ Copied(s, n, copy, wrong)
  /\ wrong \subseteq {"read"} => opened

LEMMA SixGoesOn ==
  ASSUME Shape, SixTypes, SixInv, SixWhole, codec = "6pack", mode = "6unpack",
         UNCHANGED <<codec, goal, mode, original, block>>, Advances,
         NEW copy, DOMAIN disk' = Names, disk'["copy"] = copy,
         disk'["plain"] = disk["plain"], disk'["packed"] = disk["packed"],
         Keeps(original, block, at + 1, memory', copy, faults', open')
  PROVE  Shape' /\ SixTypes' /\ SixInv' /\ SixWhole'
<1>1. /\ DOMAIN disk' = Names /\ disk'["copy"] = copy
      /\ disk'["plain"] = disk["plain"] /\ disk'["packed"] = disk["packed"]
  OBVIOUS
<1>2. goal = "unpack" /\ Chunks(disk["packed"]) /\ at \in Nat
  BY DEF SixTypes, Shape
<1>3. /\ at' \in Nat /\ at' # 0 /\ at' <= Len(disk["packed"]) /\ faults' \subseteq Faults
      /\ "header" \notin faults' => at' = at + 1
      /\ faults \subseteq faults' /\ ("exists" \in faults' => "exists" \in faults)
  <2>1. Len(disk["packed"]) \in Nat
    BY <1>2, ChunksAre
  <2> QED
    BY <1>2, <2>1 DEF Advances
<1>4. Shape'
  BY <1>1, <1>3 DEF Shape
<1>5. SixTypes'
  BY <1>1, <1>2, <1>3 DEF SixTypes, Keeps
<1>6. SixInv'
  <2>1. ASSUME faults' \cap {"header", "write", "exists"} = {}
        PROVE  /\ Left6(original, block, disk["packed"], faults')
               /\ faults' \cap {"cut", "changed"} = {} =>
                    Whole6(original, block, disk["packed"], Count(original, block))
               /\ open' => Verified(original, block, at', memory', copy)
               /\ Copied(original, block, copy, faults')
    <3>1. faults \cap {"header", "write", "exists"} = {} /\ at' = at + 1
      BY <1>3, <2>1
    <3>2. /\ Left6(original, block, disk["packed"], faults)
          /\ faults \cap {"cut", "changed"} = {} =>
               Whole6(original, block, disk["packed"], Count(original, block))
      BY <1>2, <3>1 DEF SixInv
    <3>3. Left6(original, block, disk["packed"], faults')
      <4>1. "changed" \notin faults' => "changed" \notin faults
        BY <1>3
      <4> QED
        BY <3>2, <4>1 DEF Left6, Matches
    <3>4. faults' \cap {"cut", "changed"} = {} => faults \cap {"cut", "changed"} = {}
      BY <1>3
    <3>5. /\ open' => Verified(original, block, at + 1, memory', copy)
          /\ Copied(original, block, copy, faults')
      BY <2>1 DEF Keeps
    <3> QED
      BY <3>1, <3>2, <3>3, <3>4, <3>5
  <2> QED
    BY <1>1, <1>2, <1>3, <2>1 DEF SixInv
<1>7. SixWhole'
  BY <1>1, <1>2, <1>3 DEF SixWhole, Keeps
<1> QED
  BY <1>4, <1>5, <1>6, <1>7

\* What 6unpack meets: the chunk behind those it has read, and its header.
Chunk6(s, n, k, chunk, wrong) ==
  /\ ChunkOk(chunk)
  /\ wrong \cap {"header", "write", "exists"} = {} =>
       /\ k \in 1 .. Count(s, n) + 1 /\ Matches(chunk, Good(s, n, k), wrong)
       /\ wrong \subseteq {"read"} => chunk = Good(s, n, k)

Met(s, n, a, chunk, head, wrong, good) ==
  /\ head["id"] = good["id"] /\ head["options"] = good["options"]
  /\ head["size"] = good["size"] /\ head["checksum"] = good["checksum"]
  /\ head["extra"] = good["extra"]
  /\ Matches(chunk, good, wrong) /\ (wrong \subseteq {"read"} => chunk = good)
  /\ a = 0 => IsEntry(s, good)
  /\ a # 0 => a \in 1 .. Count(s, n) /\ IsData(Piece(s, n, a), good)

LEMMA Meets ==
  ASSUME NEW s \in Seq(Byte), NEW n \in Blocks, NEW a \in Nat, NEW chunk, NEW head, NEW wrong,
         Chunk6(s, n, a + 1, chunk, wrong), Head6(chunk, head),
         wrong \cap {"header", "write", "exists"} = {}
  PROVE  Met(s, n, a, chunk, head, wrong, Good(s, n, a + 1))
<1> DEFINE k == a + 1
           good == Good(s, n, k)
<1>1. k \in 1 .. Count(s, n) + 1 /\ Matches(chunk, good, wrong) /\ (wrong \subseteq {"read"} => chunk = good)
  BY DEF Chunk6
<1>2. (a = 0 => k = 1) /\ (a # 0 => k > 1) /\ k - 1 = a
  OBVIOUS
<1> HIDE DEF k
<1>3. /\ k = 1 => IsEntry(s, good)
      /\ k > 1 => k - 1 \in 1 .. Count(s, n) /\ IsData(Piece(s, n, k - 1), good)
  BY <1>1, GoodIs
<1> HIDE DEF good
<1>4. /\ head["id"] = good["id"] /\ head["options"] = good["options"]
      /\ head["size"] = good["size"] /\ head["checksum"] = good["checksum"]
      /\ head["extra"] = good["extra"]
  BY <1>1, HeadMatches
<1>5. /\ a = 0 => IsEntry(s, good)
      /\ a # 0 => a \in 1 .. Count(s, n) /\ IsData(Piece(s, n, a), good)
  BY <1>2, <1>3
<1>6. Met(s, n, a, chunk, head, wrong, good)
  BY <1>1, <1>4, <1>5 DEF Met
<1> QED
  BY <1>6 DEF good, k

\* 6unpack before a turn.
Ready(s, n, a, held, copy, wrong, opened) ==
  /\ MemoryOk(held) /\ opened \in BOOLEAN
  /\ copy \in Seq(Symbols) \cup {Absent, Other} /\ (opened => copy \in Seq(Symbols))
  /\ "exists" \in wrong => copy = Other
  /\ wrong \cap {"header", "write", "exists"} = {} =>
       (opened => Verified(s, n, a, held, copy)) /\ Copied(s, n, copy, wrong)
  /\ wrong \subseteq {"read"} => IF a = 0 THEN copy = Absent ELSE opened

LEMMA IsReady ==
  ASSUME Shape, SixTypes, SixInv, SixWhole, codec = "6pack", mode = "6unpack",
         at < Len(disk["packed"])
  PROVE  /\ Ready(original, block, at, memory, disk["copy"], faults, open)
         /\ Chunk6(original, block, at + 1, disk["packed"][at + 1], faults)
         /\ original \in Seq(Byte) /\ block \in Blocks /\ block >= Small /\ at \in Nat
<1>1. Chunk6(original, block, at + 1, disk["packed"][at + 1], faults) /\ original \in Seq(Byte)
  BY NextChunk DEF Chunk6
<1>2. Ready(original, block, at, memory, disk["copy"], faults, open)
  BY DEF SixTypes, SixInv, SixWhole, Ready
<1>3. block \in Blocks /\ block >= Small /\ at \in Nat
  BY DEF Shape, SixTypes
<1> QED
  BY <1>1, <1>2, <1>3

\* Whatever it reads into its memory, the file it writes is not concerned.
LEMMA NothingRead ==
  ASSUME NEW s \in Seq(Byte), NEW n \in Blocks, NEW a \in Nat, NEW chunk, NEW head, NEW wrong,
         Chunk6(s, n, a + 1, chunk, wrong), Head6(chunk, head),
         NEW held, NEW copy, NEW opened, Ready(s, n, a, held, copy, wrong, opened),
         ~(head["id"] = 1 /\ head["size"] # 0), ~(head["id"] = 17 /\ opened /\ held["size"] # 0),
         NEW held2, MemoryOk(held2), held2["size"] = held["size"]
  PROVE  Keeps(s, n, a + 1, held2, copy, wrong, opened)
<1>1. ASSUME wrong \cap {"header", "write", "exists"} = {}, a = 0 \/ opened PROVE FALSE
  <2> DEFINE good == Good(s, n, a + 1)
  <2>1. Met(s, n, a, chunk, head, wrong, good)
    BY <1>1, Meets
  <2> HIDE DEF good
  <2>2. CASE a = 0
    <3>1. IsEntry(s, good)
      BY <2>1, <2>2 DEF Met
    <3>2. head["id"] = 1 /\ head["size"] = 2
      BY <2>1, <3>1 DEF Met, IsEntry, Whole1
    <3> QED
      BY <3>2
  <2>3. CASE a # 0
    <3>1. a \in 1 .. Count(s, n) /\ head["id"] = 17
      BY <2>1, <2>3 DEF Met, IsData
    <3>2. opened /\ held["size"] = Len(s)
      BY <1>1, <2>3 DEF Ready, Verified
    <3>3. Len(s) # 0
      <4>1. n \in Nat \ {0} /\ Count(s, n) \in Nat /\ Len(s) \in Nat
        BY BlockSize, Blocking
      <4>2. a \in 0 .. Count(s, n) /\ a > 0 /\ a - 1 \in 0 .. Count(s, n)
        BY <3>1, <4>1
      <4>3. Behind(s, n, a - 1) < Len(s) /\ Behind(s, n, a - 1) \in 0 .. Len(s)
        BY <4>1, <4>2, Blocking
      <4> QED
        BY <4>1, <4>3
    <3> QED
      BY <3>1, <3>2, <3>3
  <2> QED
    BY <2>2, <2>3
<1>2. ASSUME wrong \subseteq {"read"} PROVE opened
  <2>1. wrong \cap {"header", "write", "exists"} = {}
    BY <1>2
  <2> QED
    BY <1>1, <1>2, <2>1 DEF Ready
<1>3. ASSUME wrong \cap {"header", "write", "exists"} = {}
      PROVE  ~opened /\ Copied(s, n, copy, wrong)
  BY <1>1, <1>3 DEF Ready
<1> QED
  BY <1>2, <1>3 DEF Ready, Keeps

\* A method 6pack does not use.
LEMMA UnknownRead ==
  ASSUME NEW s \in Seq(Byte), NEW n \in Blocks, NEW a \in Nat, NEW chunk, NEW head, NEW wrong,
         Chunk6(s, n, a + 1, chunk, wrong), Head6(chunk, head),
         NEW held, NEW copy, NEW opened, Ready(s, n, a, held, copy, wrong, opened),
         head["id"] = 17, head["options"] = 2, NEW held2, MemoryOk(held2)
  PROVE  Keeps(s, n, a + 1, held2, copy, wrong, FALSE)
<1>1. ASSUME wrong \cap {"header", "write", "exists"} = {} PROVE FALSE
  <2> DEFINE good == Good(s, n, a + 1)
  <2>1. Met(s, n, a, chunk, head, wrong, good)
    BY <1>1, Meets
  <2> HIDE DEF good
  <2>2. head["id"] = good["id"] /\ head["options"] = good["options"]
    BY <2>1 DEF Met
  <2>3. a # 0
    <3>1. a = 0 => good["id"] = 1
      BY <2>1 DEF Met, IsEntry
    <3> QED
      BY <2>2, <3>1
  <2>4. good["options"] = 0 \/ good["options"] = 1
    BY <2>1, <2>3 DEF Met, IsData
  <2> QED
    BY <2>2, <2>4
<1>2. ~(wrong \subseteq {"read"})
  <2>1. wrong \subseteq {"read"} => wrong \cap {"header", "write", "exists"} = {}
    OBVIOUS
  <2> QED
    BY <1>1, <2>1
<1> QED
  BY <1>1, <1>2 DEF Ready, Keeps

\* A part of a block behind those written before.
LEMMA CopiedPart ==
  ASSUME NEW s \in Seq(Byte), NEW n \in Blocks, NEW a \in 1 .. Count(s, n), NEW wrong,
         NEW rest \in Seq(Symbols), Len(rest) < n, Len(rest) <= Len(Piece(s, n, a)),
         "changed" \notin wrong => \A i \in 1 .. Len(rest) : rest[i] = Piece(s, n, a)[i]
  PROVE  Copied(s, n, SubSeq(s, 1, Behind(s, n, a - 1)) \o rest, wrong)
<1> DEFINE b == Behind(s, n, a - 1)
           piece == Piece(s, n, a)
<1>1. n \in Nat \ {0} /\ Count(s, n) \in Nat /\ Len(s) \in Nat /\ Len(rest) \in Nat
  BY BlockSize, Blocking, LenProperties
<1>2. a \in 0 .. Count(s, n) /\ a > 0 /\ a - 1 \in 0 .. Count(s, n)
  BY <1>1
<1>3. b \in 0 .. Len(s) /\ b = (a - 1) * n /\ Behind(s, n, a) \in 0 .. Len(s)
  BY <1>1, <1>2, Blocking
<1>4. /\ Behind(s, n, a) = b + Len(piece) /\ Len(piece) \in Nat
      /\ \A i \in 1 .. Len(piece) : piece[i] = s[b + i]
  <2>1. /\ piece \in Seq(Byte) /\ Behind(s, n, a) = b + Len(piece)
        /\ \A i \in 1 .. Len(piece) : piece[i] = s[b + i]
    BY <1>1, PieceIs
  <2> HIDE DEF piece, b
  <2>2. Len(piece) \in Nat
    BY <2>1, LenProperties
  <2> QED
    BY <2>1, <2>2
<1>5. "changed" \notin wrong =>
        \A i \in 1 .. Len(rest) : b + i <= Len(s) /\ rest[i] = s[b + i]
  <2> HIDE DEF b
  <2>1. ASSUME "changed" \notin wrong, NEW i \in 1 .. Len(rest)
        PROVE  b + i <= Len(s) /\ rest[i] = s[b + i]
    <3>1. i \in 1 .. Len(piece) /\ rest[i] = piece[i]
      BY <1>1, <1>4, <2>1
    <3>2. b + i <= Len(s)
      BY <1>1, <1>3, <1>4, <3>1
    <3> QED
      BY <1>4, <3>1, <3>2
  <2> QED
    BY <2>1
<1> DEFINE copy == SubSeq(s, 1, b) \o rest
           j == a - 1
<1>6. /\ j \in 0 .. Count(s, n) /\ copy = SubSeq(s, 1, Behind(s, n, j)) \o rest
      /\ Behind(s, n, j) = j * n
      /\ "changed" \notin wrong => \A i \in 1 .. Len(rest) :
           Behind(s, n, j) + i <= Len(s) /\ rest[i] = s[Behind(s, n, j) + i]
  BY <1>2, <1>3, <1>5
<1> HIDE DEF copy, j
<1>7. Copied(s, n, copy, wrong)
  BY <1>6 DEF Copied
<1> QED
  BY <1>7 DEF copy

\* The next block behind those written before.
LEMMA CopiedBlock ==
  ASSUME NEW s \in Seq(Byte), NEW n \in Blocks, NEW a \in 1 .. Count(s, n), NEW wrong,
         NEW held, NEW copy, Verified(s, n, a, held, copy),
         NEW held2, held2["size"] = held["size"]
  PROVE  /\ Verified(s, n, a + 1, held2, copy \o Piece(s, n, a))
         /\ Copied(s, n, copy \o Piece(s, n, a), wrong)
         /\ copy \o Piece(s, n, a) \in Seq(Symbols)
<1> DEFINE b == Behind(s, n, a - 1)
           c == Behind(s, n, a)
           more == SubSeq(s, 1, c)
<1>1. n \in Nat \ {0} /\ Count(s, n) \in Nat /\ a \in 0 .. Count(s, n) /\ Len(s) \in Nat
  <2>1. n \in Nat \ {0} /\ Count(s, n) \in Nat /\ Len(s) \in Nat
    BY BlockSize, Blocking
  <2> QED
    BY <2>1
<1>2. SubSeq(s, 1, b) \o Piece(s, n, a) = more
  BY <1>1, OneMore
<1>3. held["size"] = Len(s) /\ copy = SubSeq(s, 1, b)
  BY DEF Verified
<1>4. copy \o Piece(s, n, a) = more
  BY <1>2, <1>3
<1>5. c \in 0 .. Len(s)
  BY <1>1, Blocking
<1>6. more \in Seq(Byte) /\ more \in Seq(Symbols)
  <2> HIDE DEF c
  <2>1. more \in Seq(Byte)
    BY <1>1, <1>5, WrittenIs
  <2> QED
    BY <2>1, BytesAre
<1>7. a + 1 >= 1 /\ (a + 1) - 1 = a
  BY <1>1
<1>8. Verified(s, n, a + 1, held2, more)
  BY <1>3, <1>7 DEF Verified
<1>9. Copied(s, n, more, wrong)
  <2>1. <<>> \in Seq(Symbols) /\ Len(<<>>) = 0 /\ more \o <<>> = more
    BY <1>6, ConcatEmptySeq, EmptySeq
  <2> DEFINE none == <<>>
  <2>2. none \in Seq(Symbols) /\ Len(none) = 0 /\ more = SubSeq(s, 1, Behind(s, n, a)) \o none /\ none = <<>>
    BY <2>1
  <2> HIDE DEF none, more
  <2>3. \A i \in 1 .. Len(none) : FALSE
    BY <2>2
  <2> QED
    BY <1>1, <2>2, <2>3 DEF Copied
<1> HIDE DEF more
<1> QED
  BY <1>4, <1>6, <1>8, <1>9

\* A block that was stored is written before it is verified.
StoredAs(chunk, head, bytes, opened) ==
  /\ bytes = Six!Read(chunk["bytes"], 0, head["size"])
  /\ opened \in BOOLEAN /\ (opened <=> (bytes = head["checksum"]))

LEMMA StoredRead ==
  ASSUME NEW s \in Seq(Byte), NEW n \in Blocks, n >= Small, NEW a \in Nat,
         NEW chunk, NEW head, NEW wrong,
         Chunk6(s, n, a + 1, chunk, wrong), Head6(chunk, head),
         NEW held, NEW copy, Ready(s, n, a, held, copy, wrong, TRUE),
         head["id"] = 17, head["options"] = 0,
         NEW held2, MemoryOk(held2), held2["size"] = held["size"],
         NEW bytes, NEW opened, StoredAs(chunk, head, bytes, opened)
  PROVE  Keeps(s, n, a + 1, held2, copy \o bytes, wrong, opened)
<1>0. /\ bytes = Six!Read(chunk["bytes"], 0, head["size"])
      /\ opened \in BOOLEAN /\ (opened <=> (bytes = head["checksum"]))
  BY DEF StoredAs
<1> USE <1>0
<1>1. copy \in Seq(Symbols) /\ "exists" \notin wrong
  <2>1. Other \notin Seq(Symbols)
    BY ArchivesAssumption DEF Symbols
  <2> QED
    BY <2>1 DEF Ready
<1>2. /\ bytes \in Seq(Symbols) /\ Len(bytes) \in Nat
      /\ Len(bytes) <= head["size"] /\ Len(bytes) <= Len(chunk["bytes"])
      /\ \A i \in 1 .. Len(bytes) : bytes[i] = chunk["bytes"][i] /\ i \in 1 .. Len(chunk["bytes"])
      /\ head["size"] = Len(chunk["bytes"]) => bytes = chunk["bytes"]
  <2>1. chunk["bytes"] \in Seq(Symbols) /\ head["size"] \in Nat
    BY DEF Chunk6, ChunkOk, Head6
  <2>2. Len(chunk["bytes"]) \in Nat
    BY <2>1, LenProperties
  <2>3. /\ bytes \in Seq(Symbols)
        /\ Len(bytes) = IF head["size"] <= Len(chunk["bytes"]) THEN head["size"] ELSE Len(chunk["bytes"])
        /\ \A i \in 1 .. Len(bytes) : bytes[i] = chunk["bytes"][i] /\ i \in 1 .. Len(chunk["bytes"])
        /\ head["size"] = Len(chunk["bytes"]) => bytes = chunk["bytes"]
    BY <2>1, FirstRead
  <2> QED
    BY <2>1, <2>2, <2>3
<1>3. copy \o bytes \in Seq(Symbols)
  BY <1>1, <1>2, ConcatProperties
<1>4. ASSUME wrong \cap {"header", "write", "exists"} = {}
      PROVE  /\ opened => Verified(s, n, a + 1, held2, copy \o bytes)
             /\ Copied(s, n, copy \o bytes, wrong)
             /\ wrong \subseteq {"read"} => opened
  <2> DEFINE good == Good(s, n, a + 1)
             piece == Piece(s, n, a)
  <2>1. Met(s, n, a, chunk, head, wrong, good)
    BY <1>4, Meets
  <2>2. Verified(s, n, a, held, copy)
    BY <1>4 DEF Ready
  <2>3. a \in 1 .. Count(s, n) /\ a # 0
    <3>1. a # 0
      BY <2>2 DEF Verified
    <3> HIDE DEF good
    <3> QED
      BY <2>1, <3>1 DEF Met
  <2> HIDE DEF good
  <2>4. IsData(piece, good) /\ head["options"] = good["options"]
    BY <2>1, <2>3 DEF Met
  <2>5. piece \in Seq(Byte) /\ Len(piece) \in Nat /\ Small \in Nat /\ n \in Nat
    BY <2>3, BlockSize, PieceIs, LenProperties, ArchivesAssumption
  <2> HIDE DEF piece
  <2>6. /\ Len(piece) < Small /\ good["bytes"] = piece /\ good["checksum"] = piece
        /\ good["size"] = Len(piece)
    BY <2>4 DEF IsData, Whole1
  <2>7. /\ head["checksum"] = piece /\ head["size"] = Len(piece)
        /\ Matches(chunk, good, wrong) /\ (wrong \subseteq {"read"} => chunk = good)
    BY <2>1, <2>6 DEF Met
  <2>8. CASE opened
    <3>1. bytes = piece
      BY <2>7, <2>8
    <3>2. Verified(s, n, a + 1, held2, copy \o piece) /\ Copied(s, n, copy \o piece, wrong)
      BY <2>2, <2>3, CopiedBlock DEF piece
    <3> QED
      BY <2>8, <3>1, <3>2
  <2>9. CASE ~opened
    <3>1. Len(bytes) <= Len(piece) /\ Len(bytes) < n
      BY <1>2, <2>5, <2>6, <2>7
    <3>2. ASSUME "changed" \notin wrong, NEW i \in 1 .. Len(bytes) PROVE bytes[i] = piece[i]
      <4>1. bytes[i] = chunk["bytes"][i] /\ i \in 1 .. Len(chunk["bytes"])
        BY <1>2
      <4>2. chunk["bytes"][i] = good["bytes"][i]
        BY <2>7, <3>2, <4>1 DEF Matches
      <4> QED
        BY <2>6, <4>1, <4>2
    <3>3. Copied(s, n, SubSeq(s, 1, Behind(s, n, a - 1)) \o bytes, wrong)
      BY <1>2, <2>3, <3>1, <3>2, CopiedPart DEF piece
    <3>4. copy = SubSeq(s, 1, Behind(s, n, a - 1))
      BY <2>2 DEF Verified
    <3>5. ~(wrong \subseteq {"read"})
      <4>1. wrong \subseteq {"read"} => bytes = piece
        BY <1>2, <2>6, <2>7
      <4> QED
        BY <2>7, <2>9, <4>1
    <3> QED
      BY <2>9, <3>3, <3>4, <3>5
  <2> QED
    BY <2>8, <2>9
<1>5. wrong \subseteq {"read"} => opened
  <2>1. wrong \subseteq {"read"} => wrong \cap {"header", "write", "exists"} = {}
    OBVIOUS
  <2> QED
    BY <1>4, <2>1
<1> QED
  BY <1>1, <1>3, <1>4, <1>5 DEF Keeps

\* What becomes of a code.
LEMMA UnpackedIs ==
  ASSUME NEW code \in Seq(Symbols)
  PROVE  Six!Unpacked(code) \in Seq(Symbols)
<1>1. <<>> \in Seq(Symbols)
  BY EmptySeq
<1>2. ASSUME code # <<>> PROVE Six!Front(code) \in Seq(Symbols)
  <2> DEFINE m == Len(code) - 1
  <2>1. Len(code) \in Nat /\ Len(code) # 0
    BY <1>2, LenProperties, EmptySeq
  <2>2. m \in Int /\ m <= Len(code) /\ 0 \in Nat
    BY <2>1
  <2> HIDE DEF m
  <2>3. SubSeq(code, 0 + 1, m) \in Seq(Symbols)
    BY <2>2, Part
  <2>4. Six!Front(code) = SubSeq(code, 1, m)
    BY DEF Six!Front, m
  <2> QED
    BY <2>3, <2>4
<1> QED
  BY <1>1, <1>2 DEF Six!Unpacked

\* A block that was compressed is written only when it is verified.
PackedAs(chunk, head, part, bytes, opened) ==
  /\ part \in Seq(Symbols) /\ (head["size"] = Len(chunk["bytes"]) => part = chunk["bytes"])
  /\ bytes = Six!Unpacked(part) /\ opened \in BOOLEAN
  /\ opened <=> (part = head["checksum"] /\ Len(bytes) = head["extra"])

LEMMA PackedRead ==
  ASSUME NEW s \in Seq(Byte), NEW n \in Blocks, NEW a \in Nat,
         NEW chunk, NEW head, NEW wrong,
         Chunk6(s, n, a + 1, chunk, wrong), Head6(chunk, head),
         NEW held, NEW copy, Ready(s, n, a, held, copy, wrong, TRUE),
         head["id"] = 17, head["options"] = 1,
         NEW held2, MemoryOk(held2), held2["size"] = held["size"],
         NEW part, NEW bytes, NEW opened, PackedAs(chunk, head, part, bytes, opened)
  PROVE  Keeps(s, n, a + 1, held2, IF opened THEN copy \o bytes ELSE copy, wrong, opened)
<1>0. /\ part \in Seq(Symbols) /\ (head["size"] = Len(chunk["bytes"]) => part = chunk["bytes"])
      /\ bytes = Six!Unpacked(part) /\ opened \in BOOLEAN
      /\ opened <=> (part = head["checksum"] /\ Len(bytes) = head["extra"])
  BY DEF PackedAs
<1> USE <1>0
<1>1. copy \in Seq(Symbols) /\ "exists" \notin wrong
  <2>1. Other \notin Seq(Symbols)
    BY ArchivesAssumption DEF Symbols
  <2> QED
    BY <2>1 DEF Ready
<1>2. part \in Seq(Symbols) /\ (head["size"] = Len(chunk["bytes"]) => part = chunk["bytes"])
  OBVIOUS
<1>3. bytes \in Seq(Symbols)
  BY <1>2, UnpackedIs
<1>4. copy \o bytes \in Seq(Symbols)
  BY <1>1, <1>3, ConcatProperties
<1>5. ASSUME wrong \cap {"header", "write", "exists"} = {}
      PROVE  /\ opened => /\ Verified(s, n, a + 1, held2, copy \o bytes)
                          /\ Copied(s, n, copy \o bytes, wrong)
             /\ Copied(s, n, copy, wrong)
             /\ wrong \subseteq {"read"} => opened
  <2> DEFINE good == Good(s, n, a + 1)
             piece == Piece(s, n, a)
  <2>1. Met(s, n, a, chunk, head, wrong, good)
    BY <1>5, Meets
  <2>2. Verified(s, n, a, held, copy) /\ Copied(s, n, copy, wrong)
    BY <1>5 DEF Ready
  <2>3. a \in 1 .. Count(s, n) /\ a # 0
    <3>1. a # 0
      BY <2>2 DEF Verified
    <3> HIDE DEF good
    <3> QED
      BY <2>1, <3>1 DEF Met
  <2> HIDE DEF good
  <2>4. IsData(piece, good) /\ head["options"] = good["options"]
    BY <2>1, <2>3 DEF Met
  <2>5. piece \in Seq(Byte)
    BY <2>3, BlockSize, PieceIs
  <2> HIDE DEF piece
  <2>6. /\ good["extra"] = Len(piece) /\ good["bytes"] = Six!Packed(piece)
        /\ good["checksum"] = good["bytes"] /\ good["size"] = Len(good["bytes"])
    BY <2>4 DEF IsData, Whole1
  <2>7. /\ head["checksum"] = good["bytes"] /\ head["size"] = Len(good["bytes"])
        /\ head["extra"] = Len(piece) /\ (wrong \subseteq {"read"} => chunk = good)
    BY <2>1, <2>6 DEF Met
  <2>8. part = good["bytes"] => bytes = piece
    BY <2>5, <2>6, PackedIs
  <2>9. Verified(s, n, a + 1, held2, copy \o piece) /\ Copied(s, n, copy \o piece, wrong)
    BY <2>2, <2>3, CopiedBlock DEF piece
  <2>10. opened => bytes = piece
    BY <2>7, <2>8
  <2>11. wrong \subseteq {"read"} => opened
    BY <1>2, <2>7, <2>8
  <2> QED
    BY <2>2, <2>9, <2>10, <2>11
<1>6. wrong \subseteq {"read"} => opened
  <2>1. wrong \subseteq {"read"} => wrong \cap {"header", "write", "exists"} = {}
    OBVIOUS
  <2> QED
    BY <1>5, <2>1
<1> QED
  BY <1>1, <1>4, <1>5, <1>6 DEF Keeps

\* The file entry is the first chunk, and says how long the file is.
EntrySeen(s, a, head, buffer, wrong) ==
  /\ a = 0
  /\ SubSeq(buffer, 1, head["size"]) = head["checksum"] => buffer # <<>> /\ buffer[1] = Len(s)
  /\ wrong \subseteq {"read"} => SubSeq(buffer, 1, head["size"]) = head["checksum"]

LEMMA EntryMet ==
  ASSUME NEW s \in Seq(Byte), NEW n \in Blocks, NEW a \in Nat, NEW chunk, NEW head, NEW wrong,
         Chunk6(s, n, a + 1, chunk, wrong), Head6(chunk, head), head["id"] = 1,
         NEW buffer, IsBuffer(chunk["bytes"], head["size"], buffer),
         wrong \cap {"header", "write", "exists"} = {}
  PROVE  EntrySeen(s, a, head, buffer, wrong)
<1> DEFINE good == Good(s, n, a + 1)
           part == SubSeq(buffer, 1, head["size"])
<1>1. Met(s, n, a, chunk, head, wrong, good)
  BY Meets
<1> HIDE DEF good
<1>2. a = 0
  <2>1. a # 0 => good["id"] = 17
    BY <1>1 DEF Met, IsData
  <2> QED
    BY <1>1, <2>1 DEF Met
<1>3. IsEntry(s, good)
  BY <1>1, <1>2 DEF Met
<1>4. /\ good["bytes"] = <<Len(s), Name>> /\ Len(good["bytes"]) = 2
      /\ good["checksum"] = good["bytes"] /\ good["size"] = 2
  BY <1>3 DEF IsEntry, Whole1
<1>5. head["size"] = 2 /\ head["checksum"] = good["bytes"] /\ (wrong \subseteq {"read"} => chunk = good)
  BY <1>1, <1>4 DEF Met
<1>6. /\ Len(buffer) >= 2 /\ buffer \in Seq(Symbols) /\ part[1] = buffer[1]
      /\ 2 = Len(chunk["bytes"]) => part = chunk["bytes"]
  <2>1. 1 \in 1 .. head["size"]
    BY <1>5
  <2> QED
    BY <1>5, <2>1 DEF IsBuffer
<1>7. ASSUME part = head["checksum"] PROVE buffer # <<>> /\ buffer[1] = Len(s)
  <2>1. buffer # <<>>
    <3>1. Len(<<>>) = 0
      OBVIOUS
    <3> QED
      BY <1>6, <3>1
  <2> DEFINE entry == <<Len(s), Name>>
  <2>3. entry[1] = Len(s) /\ good["bytes"] = entry
    BY <1>4
  <2> HIDE DEF entry, part
  <2>2. part[1] = Len(s)
    BY <1>4, <1>5, <1>7, <2>3
  <2> QED
    BY <1>6, <2>1, <2>2
<1>8. wrong \subseteq {"read"} => part = head["checksum"]
  BY <1>4, <1>5, <1>6
<1> QED
  BY <1>2, <1>7, <1>8 DEF EntrySeen

\* The file is created if there is none.
LEMMA EntryRead ==
  ASSUME NEW s \in Seq(Byte), NEW n \in Blocks, NEW a \in Nat, NEW chunk, NEW head, NEW wrong,
         Chunk6(s, n, a + 1, chunk, wrong), Head6(chunk, head), head["id"] = 1,
         NEW held, NEW copy, NEW before, Ready(s, n, a, held, copy, wrong, before),
         NEW buffer, IsBuffer(chunk["bytes"], head["size"], buffer),
         SubSeq(buffer, 1, head["size"]) = head["checksum"],
         NEW held2, MemoryOk(held2),
         held2["size"] = IF buffer = <<>> THEN 0 ELSE buffer[1],
         NEW opened \in BOOLEAN, opened <=> (copy = Absent)
  PROVE  Keeps(s, n, a + 1, held2, IF opened THEN <<>> ELSE copy, wrong, opened)
<1> DEFINE none == <<>>
<1>1. none \in Seq(Symbols) /\ Len(none) = 0 /\ none = <<>>
  BY EmptySeq
<1> HIDE DEF none
<1>2. "exists" \in wrong => ~opened /\ copy = Other
  BY ArchivesAssumption DEF Ready
<1>3. ASSUME wrong \cap {"header", "write", "exists"} = {}
      PROVE  /\ opened => Verified(s, n, a + 1, held2, none) /\ Copied(s, n, none, wrong)
             /\ Copied(s, n, copy, wrong) /\ (wrong \subseteq {"read"} => opened)
  <2>1. a = 0 /\ held2["size"] = Len(s)
    <3>1. EntrySeen(s, a, head, buffer, wrong)
      BY <1>3, EntryMet
    <3> QED
      BY <3>1 DEF EntrySeen
  <2>2. n \in Nat \ {0} /\ Count(s, n) \in Nat /\ Behind(s, n, 0) = 0
    BY BlockSize, Blocking
  <2>3. SubSeq(s, 1, 0) = none
    BY <1>1
  <2>4. Verified(s, n, 1, held2, none)
    <3>1. 1 >= 1 /\ 1 - 1 = 0
      OBVIOUS
    <3> QED
      BY <2>1, <2>2, <2>3, <3>1 DEF Verified
  <2>5. Copied(s, n, none, wrong)
    <3>1. none = SubSeq(s, 1, Behind(s, n, 0)) \o none /\ 0 \in 0 .. Count(s, n)
      <4>1. none \o none = none
        BY <1>1, ConcatEmptySeq
      <4> QED
        BY <2>2, <2>3, <4>1
    <3>2. \A i \in 1 .. Len(none) : FALSE
      BY <1>1
    <3> QED
      BY <1>1, <3>1, <3>2 DEF Copied
  <2>6. a + 1 = 1
    BY <2>1
  <2>7. Copied(s, n, copy, wrong)
    BY <1>3 DEF Ready
  <2>8. wrong \subseteq {"read"} => opened
    BY <2>1 DEF Ready
  <2> QED
    BY <2>4, <2>5, <2>6, <2>7, <2>8
<1>4. wrong \subseteq {"read"} => opened
  <2>1. wrong \subseteq {"read"} => wrong \cap {"header", "write", "exists"} = {}
    OBVIOUS
  <2> QED
    BY <1>3, <2>1
<1>5. Keeps(s, n, a + 1, held2, IF opened THEN none ELSE copy, wrong, opened)
  <2>1. copy \in Seq(Symbols) \cup {Absent, Other}
    BY DEF Ready
  <2> QED
    BY <1>1, <1>2, <1>3, <1>4, <2>1 DEF Keeps
<1> QED
  BY <1>5 DEF none

\* 6unpack has read the whole archive.
LEMMA SixEnds ==
  ASSUME Shape, SixTypes, SixInv, SixWhole, codec = "6pack", mode = "6unpack",
         at = Len(disk["packed"]), mode' = "none", goal' = "done",
         UNCHANGED <<codec, original, block, disk, at, faults, open, memory>>
  PROVE  Shape' /\ SixTypes' /\ SixInv' /\ SixWhole'
<1>1. goal = "unpack" /\ original \in Seq(Byte) /\ block \in Blocks
  BY ArchiveAssumption DEF SixTypes, Shape
<1>2. Shape'
  BY DEF Shape
<1>3. SixTypes'
  BY <1>1 DEF SixTypes
<1>4. SixInv'
  BY <1>1 DEF SixInv
<1>5. ASSUME faults \subseteq {"read"} PROVE disk["copy"] = original
  <2>1. faults \cap {"header", "write", "exists"} = {} /\ faults \cap {"cut", "changed"} = {}
    BY <1>5
  <2>2. Whole6(original, block, disk["packed"], Count(original, block))
    BY <1>1, <2>1 DEF SixInv
  <2>3. block \in Nat \ {0} /\ Count(original, block) \in Nat
        /\ Behind(original, block, Count(original, block)) = Len(original)
    BY <1>1, BlockSize, Blocking
  <2>4. at = Count(original, block) + 1
    BY <2>2 DEF Whole6
  <2>5. at # 0 /\ at - 1 = Count(original, block)
    BY <2>3, <2>4
  <2>6. Verified(original, block, at, memory, disk["copy"])
    BY <1>5, <2>1, <2>5 DEF SixWhole, SixInv
  <2>7. disk["copy"] = SubSeq(original, 1, Len(original))
    BY <2>3, <2>5, <2>6 DEF Verified
  <2> DEFINE w == SubSeq(original, 1, Len(original))
  <2>8. /\ Len(original) \in Nat /\ w \in Seq(Byte) /\ Len(w) = Len(original)
        /\ \A i \in 1 .. Len(original) : w[i] = original[i]
    <3>1. Len(original) \in Nat /\ Len(original) \in Int /\ Len(original) <= Len(original) /\ 0 \in Nat
      BY <1>1, LenProperties
    <3> DEFINE m == Len(original)
    <3> HIDE DEF m
    <3>2. /\ SubSeq(original, 0 + 1, m) \in Seq(Byte)
          /\ Len(SubSeq(original, 0 + 1, m)) = IF 0 <= m THEN m - 0 ELSE 0
          /\ \A i \in 1 .. m - 0 : SubSeq(original, 0 + 1, m)[i] = original[0 + i]
      BY <1>1, <3>1, Part DEF m
    <3>3. SubSeq(original, 1, m) \in Seq(Byte) /\ Len(SubSeq(original, 1, m)) = m
          /\ \A i \in 1 .. m : SubSeq(original, 1, m)[i] = original[i]
      BY <3>1, <3>2 DEF m
    <3> QED
      BY <3>1, <3>3 DEF m
  <2> HIDE DEF w
  <2>9. w = original
    BY <1>1, <2>8, SeqEqual
  <2> QED
    BY <2>7, <2>9 DEF w
<1>6. SixWhole'
  BY <1>5 DEF SixWhole
<1> QED
  BY <1>2, <1>3, <1>4, <1>6

\* 6unpack gives up.
LEMMA SixGivesUp ==
  ASSUME Shape, SixTypes, SixInv, SixWhole, codec = "6pack", mode = "6unpack", mode' = "none",
         UNCHANGED <<codec, goal, original, block, disk>>, Advances,
         open' = FALSE, MemoryOk(memory'), ~(faults' \subseteq {"read"})
  PROVE  Shape' /\ SixTypes' /\ SixInv' /\ SixWhole'
<1>1. goal = "unpack" /\ Chunks(disk["packed"]) /\ at \in Nat
  BY DEF SixTypes, Shape
<1>2. /\ at' \in Nat /\ faults' \subseteq Faults
      /\ faults \subseteq faults' /\ ("exists" \in faults' => "exists" \in faults)
  <2>1. Len(disk["packed"]) \in Nat
    BY <1>1, ChunksAre
  <2> QED
    BY <1>1, <2>1 DEF Advances
<1>3. Shape'
  BY <1>2 DEF Shape
<1>4. SixTypes'
  BY <1>1, <1>2 DEF SixTypes
<1>5. SixInv'
  <2>1. ASSUME faults' \cap {"header", "write", "exists"} = {}
        PROVE  /\ Left6(original, block, disk["packed"], faults')
               /\ faults' \cap {"cut", "changed"} = {} =>
                    Whole6(original, block, disk["packed"], Count(original, block))
               /\ Copied(original, block, disk["copy"], faults')
    <3>1. /\ faults \cap {"header", "write", "exists"} = {}
          /\ "changed" \notin faults' => "changed" \notin faults
          /\ faults' \cap {"cut", "changed"} = {} => faults \cap {"cut", "changed"} = {}
      BY <1>2, <2>1
    <3>2. /\ Left6(original, block, disk["packed"], faults)
          /\ faults \cap {"cut", "changed"} = {} =>
               Whole6(original, block, disk["packed"], Count(original, block))
          /\ Copied(original, block, disk["copy"], faults)
      BY <1>1, <3>1 DEF SixInv
    <3>3. Left6(original, block, disk["packed"], faults')
      BY <3>1, <3>2 DEF Left6, Matches
    <3>4. Copied(original, block, disk["copy"], faults')
      BY <1>2, <3>2, CopiedAfter
    <3> QED
      BY <3>1, <3>2, <3>3, <3>4
  <2> QED
    BY <1>1, <2>1 DEF SixInv
<1>6. SixWhole'
  BY DEF SixWhole
<1> QED
  BY <1>3, <1>4, <1>5, <1>6

\* The memory of 6unpack when it reads a header, and a buffer.
Remembers(now, size) == MemoryOk(now) /\ now["size"] = size

LEMMA MemoryAfter ==
  ASSUME NEW held, MemoryOk(held), NEW chunk, NEW head, Head6(chunk, head),
         NEW buffer \in Seq(Symbols), NEW size
  PROVE  /\ Remembers([held EXCEPT !.header = head], held["size"])
         /\ Remembers([held EXCEPT !.header = head, !.buffer = buffer], held["size"])
         /\ Remembers([held EXCEPT !.header = head, !.code = buffer], held["size"])
         /\ Remembers([held EXCEPT !.header = head, !.buffer = buffer, !.size = size], size)
<1>1. /\ DOMAIN held = {"header", "buffer", "code", "size"}
      /\ held["buffer"] \in Seq(Symbols) /\ held["code"] \in Seq(Symbols)
  BY DEF MemoryOk
<1>2. DOMAIN head = Fields /\ head["size"] \in Nat
  BY DEF Head6
<1>3. /\ MemoryOk([held EXCEPT !.header = head])
      /\ [held EXCEPT !.header = head]["size"] = held["size"]
  BY <1>1, <1>2 DEF MemoryOk
<1>4. /\ MemoryOk([held EXCEPT !.header = head, !.buffer = buffer])
      /\ [held EXCEPT !.header = head, !.buffer = buffer]["size"] = held["size"]
  BY <1>1, <1>2 DEF MemoryOk
<1>5. /\ MemoryOk([held EXCEPT !.header = head, !.code = buffer])
      /\ [held EXCEPT !.header = head, !.code = buffer]["size"] = held["size"]
  BY <1>1, <1>2 DEF MemoryOk
<1>6. /\ MemoryOk([held EXCEPT !.header = head, !.buffer = buffer, !.size = size])
      /\ [held EXCEPT !.header = head, !.buffer = buffer, !.size = size]["size"] = size
  BY <1>1, <1>2 DEF MemoryOk
<1> QED
  BY <1>3, <1>4, <1>5, <1>6 DEF Remembers

\* A write that fails: nothing is known of the file but that it is one.
LEMMA WriteLost ==
  ASSUME NEW s, NEW n, NEW a, NEW k, NEW held, NEW copy, NEW wrong, NEW before,
         Ready(s, n, a, held, copy, wrong, before), "write" \in wrong,
         NEW held2, MemoryOk(held2), NEW opened \in BOOLEAN, opened => before
  PROVE  Keeps(s, n, k, held2, copy, wrong, opened)
<1>1. /\ wrong \cap {"header", "write", "exists"} # {}
      /\ ~(wrong \subseteq {"read"})
  OBVIOUS
<1> QED
  BY <1>1 DEF Ready, Keeps

\* A turn of 6unpack: what it has read of a chunk and its header, and whether it
\* can write.
Turning(chunk, head, written) ==
  /\ codec = "6pack" /\ mode = "6unpack" /\ UNCHANGED <<codec, original, block>> /\ Advances
  /\ Ready(original, block, at, memory, disk["copy"], faults', open)
  /\ Chunk6(original, block, at + 1, chunk, faults') /\ Head6(chunk, head)
  /\ original \in Seq(Byte) /\ block \in Blocks /\ block >= Small /\ at \in Nat
  /\ written \in BOOLEAN /\ (~written => "write" \in faults')

\* A turn that reads a file entry,
LEMMA SixEntry ==
  ASSUME Shape, SixTypes, SixInv, SixWhole, NEW chunk, NEW head, NEW written,
         Turning(chunk, head, written), head["id"] = 1, Six!UnpackEntry(chunk, head, written)
  PROVE  Shape' /\ SixTypes' /\ SixInv' /\ SixWhole'
<1> DEFINE buffer == Read6(chunk["bytes"], memory["buffer"], head["size"])
           size == IF buffer = <<>> THEN 0 ELSE buffer[1]
           part == SubSeq(buffer, 1, head["size"])
           copy == disk["copy"]
<1>1. /\ codec = "6pack" /\ mode = "6unpack" /\ UNCHANGED <<codec, original, block>> /\ Advances
      /\ Ready(original, block, at, memory, copy, faults', open)
      /\ Chunk6(original, block, at + 1, chunk, faults') /\ Head6(chunk, head)
      /\ original \in Seq(Byte) /\ block \in Blocks /\ block >= Small /\ at \in Nat
      /\ written \in BOOLEAN /\ (~written => "write" \in faults')
  BY DEF Turning
<1>2. IsBuffer(chunk["bytes"], head["size"], buffer)
  BY <1>1, BufferIs DEF Chunk6, ChunkOk, Ready, MemoryOk, Head6
<1>3. /\ memory' = [memory EXCEPT !.header = head, !.buffer = buffer, !.size = size]
      /\ IF part # head["checksum"]
         THEN mode' = "none" /\ goal' = goal /\ open' = FALSE /\ disk' = disk
         ELSE /\ goal' = goal /\ mode' = mode
              /\ open' = (written /\ copy = Absent)
              /\ disk' = IF open' THEN [disk EXCEPT !["copy"] = <<>>] ELSE disk
  BY DEF Six!UnpackEntry, Six!Return, Read6
<1> HIDE DEF buffer
<1>4. MemoryOk(memory') /\ memory'["size"] = size
  <2> HIDE DEF size
  <2>1. MemoryOk(memory) /\ buffer \in Seq(Symbols)
    BY <1>1, <1>2 DEF Ready, IsBuffer
  <2> DEFINE now == [memory EXCEPT !.header = head, !.buffer = buffer, !.size = size]
  <2>2. Remembers(now, size)
    BY <1>1, <2>1, MemoryAfter
  <2>3. memory' = now
    BY <1>3
  <2> HIDE DEF now
  <2> QED
    BY <2>2, <2>3 DEF Remembers
<1>5. CASE part # head["checksum"]
  <2>1. mode' = "none" /\ goal' = goal /\ open' = FALSE /\ disk' = disk
    BY <1>3, <1>5
  <2>2. ~(faults' \subseteq {"read"})
    <3>1. ASSUME faults' \subseteq {"read"} PROVE FALSE
      <4>1. faults' \cap {"header", "write", "exists"} = {}
        BY <3>1
      <4>2. EntrySeen(original, at, head, buffer, faults')
        BY <1>1, <1>2, <4>1, EntryMet
      <4> QED
        BY <1>5, <3>1, <4>2 DEF EntrySeen
    <3> QED
      BY <3>1
  <2> QED
    BY <1>1, <1>4, <2>1, <2>2, SixGivesUp
<1>6. CASE part = head["checksum"]
  <2> DEFINE opened == open'
             new == IF opened THEN <<>> ELSE copy
  <2>1. goal' = goal /\ mode' = mode
    BY <1>3, <1>6
  <2>2. opened \in BOOLEAN /\ (opened <=> (written /\ copy = Absent))
    BY <1>1, <1>3, <1>6
  <2>3. /\ DOMAIN disk' = Names /\ disk'["copy"] = new
        /\ disk'["plain"] = disk["plain"] /\ disk'["packed"] = disk["packed"]
    BY <1>3, <1>6 DEF Shape, Names
  <2> HIDE DEF opened
  <2>4. Keeps(original, block, at + 1, memory', new, faults', opened)
    <3>1. CASE written
      <4>1. opened \in BOOLEAN /\ (opened <=> (copy = Absent))
        BY <2>2, <3>1
      <4> QED
        BY <1>1, <1>2, <1>4, <1>6, <4>1, EntryRead
    <3>2. CASE ~written
      <4>1. opened = FALSE /\ "write" \in faults' /\ new = copy
        BY <1>1, <2>2, <3>2
      <4>2. Keeps(original, block, at + 1, memory', copy, faults', FALSE)
        BY <1>1, <1>4, <4>1, WriteLost
      <4> QED
        BY <4>1, <4>2
    <3> QED
      BY <3>1, <3>2
  <2> HIDE DEF new
  <2> QED
    BY <1>1, <2>1, <2>3, <2>4, SixGoesOn DEF opened
<1> QED
  BY <1>5, <1>6

\* a block that was stored,
LEMMA SixStored ==
  ASSUME Shape, SixTypes, SixInv, SixWhole, open, NEW chunk, NEW head, NEW written,
         Turning(chunk, head, written), head["id"] = 17, head["options"] = 0,
         Six!UnpackStored(chunk, head, written)
  PROVE  Shape' /\ SixTypes' /\ SixInv' /\ SixWhole'
<1> DEFINE bytes == Six!Read(chunk["bytes"], 0, head["size"])
           buffer == Six!Over(bytes, memory["buffer"])
           copy == disk["copy"]
           opened == open'
           new == IF written THEN copy \o bytes ELSE copy
           now == [memory EXCEPT !.header = head, !.buffer = buffer]
<1>1. /\ codec = "6pack" /\ mode = "6unpack" /\ UNCHANGED <<codec, original, block>> /\ Advances
      /\ Ready(original, block, at, memory, copy, faults', open)
      /\ Chunk6(original, block, at + 1, chunk, faults') /\ Head6(chunk, head)
      /\ original \in Seq(Byte) /\ block \in Blocks /\ block >= Small /\ at \in Nat
      /\ written \in BOOLEAN /\ (~written => "write" \in faults')
  BY DEF Turning
<1>2. Ready(original, block, at, memory, copy, faults', TRUE) /\ MemoryOk(memory)
  BY <1>1 DEF Ready
<1>3. /\ memory' = now /\ opened \in BOOLEAN /\ (opened <=> (bytes = head["checksum"]))
      /\ disk' = IF written THEN [disk EXCEPT !["copy"] = copy \o bytes] ELSE disk
      /\ goal' = goal /\ mode' = mode
  BY DEF Six!UnpackStored, Six!Write
<1>4. bytes \in Seq(Symbols)
  BY <1>1, FirstRead DEF Chunk6, ChunkOk, Head6
<1> HIDE DEF opened
<1>5. StoredAs(chunk, head, bytes, opened)
  BY <1>3 DEF StoredAs
<1> HIDE DEF bytes
<1>6. buffer \in Seq(Symbols)
  BY <1>2, <1>4, Buffered DEF MemoryOk
<1> HIDE DEF buffer
<1>7. Remembers(now, memory["size"])
  BY <1>1, <1>2, <1>6, MemoryAfter
<1> HIDE DEF now
<1>8. MemoryOk(memory') /\ memory'["size"] = memory["size"]
  BY <1>3, <1>7 DEF Remembers
<1>9. /\ DOMAIN disk' = Names /\ disk'["copy"] = new
      /\ disk'["plain"] = disk["plain"] /\ disk'["packed"] = disk["packed"]
  BY <1>3 DEF Shape, Names
<1> HIDE DEF copy
<1>10. Keeps(original, block, at + 1, memory', new, faults', opened)
  <2>1. CASE written
    <3>1. Keeps(original, block, at + 1, memory', copy \o bytes, faults', opened)
      BY <1>1, <1>2, <1>5, <1>8, StoredRead
    <3> QED
      BY <2>1, <3>1
  <2>2. CASE ~written
    <3>1. "write" \in faults' /\ new = copy /\ opened \in BOOLEAN /\ (opened => TRUE)
      BY <1>1, <1>3, <2>2
    <3>2. Keeps(original, block, at + 1, memory', copy, faults', opened)
      BY <1>2, <1>8, <3>1, WriteLost
    <3> QED
      BY <3>1, <3>2
  <2> QED
    BY <2>1, <2>2
<1> HIDE DEF new
<1> QED
  BY <1>1, <1>3, <1>8, <1>9, <1>10, SixGoesOn DEF opened, copy

\* a block that was compressed,
LEMMA SixPacked ==
  ASSUME Shape, SixTypes, SixInv, SixWhole, open, NEW chunk, NEW head, NEW written,
         Turning(chunk, head, written), head["id"] = 17, head["options"] = 1,
         Six!UnpackPacked(chunk, head, written)
  PROVE  Shape' /\ SixTypes' /\ SixInv' /\ SixWhole'
<1> DEFINE code == Read6(chunk["bytes"], memory["code"], head["size"])
           part == SubSeq(code, 1, head["size"])
           bytes == Six!Unpacked(part)
           copy == disk["copy"]
           opened == open'
           new == IF opened /\ written THEN copy \o bytes ELSE copy
           now == [memory EXCEPT !.header = head, !.code = code]
<1>1. /\ codec = "6pack" /\ mode = "6unpack" /\ UNCHANGED <<codec, original, block>> /\ Advances
      /\ Ready(original, block, at, memory, copy, faults', open)
      /\ Chunk6(original, block, at + 1, chunk, faults') /\ Head6(chunk, head)
      /\ original \in Seq(Byte) /\ block \in Blocks /\ block >= Small /\ at \in Nat
      /\ written \in BOOLEAN /\ (~written => "write" \in faults')
  BY DEF Turning
<1>2. Ready(original, block, at, memory, copy, faults', TRUE) /\ MemoryOk(memory)
  BY <1>1 DEF Ready
<1>3. /\ memory' = now /\ opened \in BOOLEAN
      /\ opened <=> (part = head["checksum"] /\ Len(bytes) = head["extra"])
      /\ disk' = IF opened /\ written THEN [disk EXCEPT !["copy"] = copy \o bytes] ELSE disk
      /\ goal' = goal /\ mode' = mode
  BY DEF Six!UnpackPacked, Six!Write, Read6
<1>4. IsBuffer(chunk["bytes"], head["size"], code)
  BY <1>1, <1>2, BufferIs DEF Chunk6, ChunkOk, MemoryOk, Head6
<1> HIDE DEF code
<1> HIDE DEF opened
<1>5. part \in Seq(Symbols) /\ (head["size"] = Len(chunk["bytes"]) => part = chunk["bytes"])
  BY <1>4 DEF IsBuffer
<1>6. PackedAs(chunk, head, part, bytes, opened)
  <2>1. bytes = Six!Unpacked(part)
    OBVIOUS
  <2>2. opened \in BOOLEAN /\ (opened <=> (part = head["checksum"] /\ Len(bytes) = head["extra"]))
    BY <1>3
  <2> HIDE DEF bytes, part
  <2> QED
    BY <1>5, <2>1, <2>2 DEF PackedAs
<1> HIDE DEF bytes, part
<1>7. Remembers(now, memory["size"])
  <2>1. code \in Seq(Symbols)
    BY <1>4 DEF IsBuffer
  <2> QED
    BY <1>1, <1>2, <2>1, MemoryAfter
<1> HIDE DEF now
<1>8. MemoryOk(memory') /\ memory'["size"] = memory["size"]
  BY <1>3, <1>7 DEF Remembers
<1>9. /\ DOMAIN disk' = Names /\ disk'["copy"] = new
      /\ disk'["plain"] = disk["plain"] /\ disk'["packed"] = disk["packed"]
  BY <1>3 DEF Shape, Names
<1> HIDE DEF copy
<1>10. Keeps(original, block, at + 1, memory', new, faults', opened)
  <2>1. CASE written
    <3>1. Keeps(original, block, at + 1, memory', IF opened THEN copy \o bytes ELSE copy, faults', opened)
      BY <1>1, <1>2, <1>6, <1>8, PackedRead
    <3>2. new = IF opened THEN copy \o bytes ELSE copy
      BY <2>1
    <3> QED
      BY <3>1, <3>2
  <2>2. CASE ~written
    <3>1. "write" \in faults' /\ new = copy /\ opened \in BOOLEAN /\ (opened => TRUE)
      BY <1>1, <1>3, <2>2
    <3>2. Keeps(original, block, at + 1, memory', copy, faults', opened)
      BY <1>2, <1>8, <3>1, WriteLost
    <3> QED
      BY <3>1, <3>2
  <2> QED
    BY <2>1, <2>2
<1> HIDE DEF new
<1> QED
  BY <1>1, <1>3, <1>8, <1>9, <1>10, SixGoesOn DEF opened

\* or anything else.
LEMMA SixOther ==
  ASSUME Shape, SixTypes, SixInv, SixWhole, NEW chunk, NEW head, NEW written,
         Turning(chunk, head, written), UNCHANGED <<goal, mode, disk>>,
         memory' = [memory EXCEPT !.header = head],
         \/ head["id"] = 17 /\ head["options"] = 2 /\ open' = FALSE
         \/ /\ ~(head["id"] = 1 /\ head["size"] # 0) /\ open' = open
            /\ ~(head["id"] = 17 /\ open /\ memory["size"] # 0)
  PROVE  Shape' /\ SixTypes' /\ SixInv' /\ SixWhole'
<1> DEFINE now == [memory EXCEPT !.header = head]
           copy == disk["copy"]
           opened == open'
<1>1. /\ codec = "6pack" /\ mode = "6unpack" /\ UNCHANGED <<codec, original, block>> /\ Advances
      /\ Ready(original, block, at, memory, copy, faults', open)
      /\ Chunk6(original, block, at + 1, chunk, faults') /\ Head6(chunk, head)
      /\ original \in Seq(Byte) /\ block \in Blocks /\ block >= Small /\ at \in Nat
  BY DEF Turning
<1>2. MemoryOk(memory)
  BY <1>1 DEF Ready
<1>3. Remembers(now, memory["size"])
  <2>1. <<>> \in Seq(Symbols)
    BY EmptySeq
  <2> QED
    BY <1>1, <1>2, <2>1, MemoryAfter
<1>4. memory' = now
  OBVIOUS
<1> HIDE DEF now
<1>5. MemoryOk(memory') /\ memory'["size"] = memory["size"]
  BY <1>3, <1>4 DEF Remembers
<1>6. Keeps(original, block, at + 1, memory', copy, faults', opened)
  <2>1. CASE head["id"] = 17 /\ head["options"] = 2 /\ opened = FALSE
    <3>1. Keeps(original, block, at + 1, memory', copy, faults', FALSE)
      BY <1>1, <1>5, <2>1, UnknownRead
    <3> QED
      BY <2>1, <3>1
  <2>2. CASE /\ ~(head["id"] = 1 /\ head["size"] # 0) /\ opened = open
             /\ ~(head["id"] = 17 /\ open /\ memory["size"] # 0)
    <3>1. Keeps(original, block, at + 1, memory', copy, faults', open)
      BY <1>1, <1>5, <2>2, NothingRead
    <3> QED
      BY <2>2, <3>1
  <2> QED
    BY <2>1, <2>2
<1>7. /\ DOMAIN disk' = Names /\ disk'["copy"] = copy
      /\ disk'["plain"] = disk["plain"] /\ disk'["packed"] = disk["packed"]
  BY DEF Shape
<1>8. goal' = goal /\ mode' = mode
  OBVIOUS
<1> HIDE DEF copy
<1> QED
  BY <1>1, <1>6, <1>7, <1>8, SixGoesOn

LEMMA SixTurn ==
  ASSUME Shape, SixTypes, SixInv, SixWhole, NEW chunk, NEW head, NEW written,
         Turning(chunk, head, written), Six!Turn(chunk, head, written)
  PROVE  Shape' /\ SixTypes' /\ SixInv' /\ SixWhole'
<1>1. CASE head.id = 1 /\ head.size # 0 /\ Six!UnpackEntry(chunk, head, written)
  BY <1>1, SixEntry
<1>2. CASE head.id = 17 /\ open /\ head.options = 0 /\ Six!UnpackStored(chunk, head, written)
  BY <1>2, SixStored
<1>3. CASE head.id = 17 /\ open /\ head.options = 1 /\ Six!UnpackPacked(chunk, head, written)
  BY <1>3, SixPacked
<1>4. CASE head.id = 17 /\ open /\ head.options = 2 /\ Six!UnknownMethod(head)
  <2>1. memory' = [memory EXCEPT !.header = head] /\ open' = FALSE /\ UNCHANGED <<goal, mode, disk>>
    BY <1>4 DEF Six!UnknownMethod
  <2> QED
    BY <1>4, <2>1, SixOther
<1>5. CASE /\ ~(head.id = 1 /\ head.size # 0)
           /\ ~(head.id = 17 /\ open /\ memory.size # 0)
           /\ memory' = [memory EXCEPT !.header = head]
           /\ UNCHANGED <<goal, mode, disk, open>>
  BY <1>5, SixOther
<1> QED
  BY <1>1, <1>2, <1>3, <1>4, <1>5 DEF Six!Turn

\* A read or a write of 6unpack that fails.
LEMMA Failing ==
  ASSUME NEW kind, Six!Fails(kind), faults \subseteq Faults
  PROVE  faults' = faults \cup {kind} /\ faults' \subseteq Faults
<1>1. CASE Six!Fault(kind)
  BY <1>1, Faulty6
<1>2. CASE kind \in faults /\ faults' = faults
  BY <1>2
<1> QED
  BY <1>1, <1>2 DEF Six!Fails

\* A chunk whose bytes are other ones, with a header read before them.
LEMMA OtherBytes ==
  ASSUME NEW chunk, ChunkOk(chunk), NEW head, Head6(chunk, head),
         NEW bytes \in Seq(Symbols), NEW now, now = [chunk EXCEPT !.bytes = bytes]
  PROVE  ChunkOk(now) /\ Head6(now, head)
<1>1. "bytes" \in DOMAIN chunk /\ "bytes" \notin Fields
  BY DEF ChunkOk, Fields, Six!NoHeader
<1>2. /\ DOMAIN now = DOMAIN chunk /\ now["bytes"] = bytes
      /\ \A field \in DOMAIN chunk \ {"bytes"} : now[field] = chunk[field]
  BY <1>1
<1>3. ChunkOk(now)
  BY <1>1, <1>2 DEF ChunkOk
<1>4. Head6(now, head)
  BY <1>1, <1>2 DEF Head6
<1> QED
  BY <1>3, <1>4

\* What 6unpack has read of the next chunk: all of it, less of its bytes, or
\* less of its header.
ReadAs(next, chunk, wrong) ==
  \/ chunk = next
  \/ IsShort(next, chunk) /\ "short" \in wrong
  \/ "header" \in wrong

LEMMA IsTurning ==
  ASSUME Shape, SixTypes, SixInv, SixWhole, codec = "6pack", mode = "6unpack",
         UNCHANGED <<codec, original, block>>, Advances,
         NEW chunk, ChunkOk(chunk), ReadAs(disk["packed"][at + 1], chunk, faults'),
         NEW head, Head6(chunk, head),
         NEW written \in BOOLEAN, ~written => "write" \in faults'
  PROVE  Turning(chunk, head, written)
<1> DEFINE next == disk["packed"][at + 1]
           good == Good(original, block, at + 1)
<1>1. /\ at < Len(disk["packed"]) /\ faults \subseteq faults'
      /\ "exists" \in faults' => "exists" \in faults
  BY DEF Advances
<1>2. /\ Ready(original, block, at, memory, disk["copy"], faults, open)
      /\ Chunk6(original, block, at + 1, next, faults)
      /\ original \in Seq(Byte) /\ block \in Blocks /\ block >= Small /\ at \in Nat
  BY <1>1, IsReady
<1>3. Ready(original, block, at, memory, disk["copy"], faults', open)
  <2>1. ASSUME faults' \cap {"header", "write", "exists"} = {}
        PROVE  /\ open => Verified(original, block, at, memory, disk["copy"])
               /\ Copied(original, block, disk["copy"], faults')
    <3>1. faults \cap {"header", "write", "exists"} = {}
      BY <1>1, <2>1
    <3>2. /\ open => Verified(original, block, at, memory, disk["copy"])
          /\ Copied(original, block, disk["copy"], faults)
      BY <1>2, <3>1 DEF Ready
    <3>3. Copied(original, block, disk["copy"], faults')
      BY <1>1, <3>2, CopiedAfter
    <3> QED
      BY <3>2, <3>3
  <2>2. faults' \subseteq {"read"} => faults \subseteq {"read"}
    BY <1>1
  <2> QED
    BY <1>1, <1>2, <2>1, <2>2 DEF Ready
<1>4. Chunk6(original, block, at + 1, chunk, faults')
  <2>1. ASSUME faults' \cap {"header", "write", "exists"} = {}
        PROVE  /\ at + 1 \in 1 .. Count(original, block) + 1 /\ Matches(chunk, good, faults')
               /\ faults' \subseteq {"read"} => chunk = good
    <3>1. faults \cap {"header", "write", "exists"} = {} /\ "header" \notin faults'
      BY <1>1, <2>1
    <3>2. /\ ChunkOk(next) /\ at + 1 \in 1 .. Count(original, block) + 1
          /\ Matches(next, good, faults) /\ (faults \subseteq {"read"} => next = good)
      BY <1>2, <3>1 DEF Chunk6
    <3>3. chunk = next \/ (IsShort(next, chunk) /\ "short" \in faults')
      BY <3>1 DEF ReadAs
    <3>4. Whole1(good)
      BY <1>2, <3>2, GoodIs
    <3> HIDE DEF next, good
    <3>5. Matches(next, good, faults')
      <4>1. "changed" \notin faults' => "changed" \notin faults
        BY <1>1
      <4> QED
        BY <3>2, <4>1 DEF Matches
    <3>6. Matches(chunk, good, faults')
      <4>1. CASE chunk = next
        BY <3>5, <4>1
      <4>2. CASE IsShort(next, chunk)
        BY <3>2, <3>4, <3>5, <4>2, ShortMatches
      <4> QED
        BY <3>3, <4>1, <4>2
    <3>7. ASSUME faults' \subseteq {"read"} PROVE chunk = good
      <4>1. faults \subseteq {"read"} /\ "short" \notin faults'
        BY <1>1, <3>7
      <4> QED
        BY <3>2, <3>3, <4>1
    <3> QED
      BY <3>2, <3>6, <3>7
  <2> QED
    BY <2>1 DEF Chunk6
<1> QED
  BY <1>2, <1>3, <1>4 DEF Turning

\* The next chunk is there, and how the places behind it are counted.
LEMMA NextThere ==
  ASSUME Shape, SixTypes, SixInv, SixWhole, codec = "6pack", mode = "6unpack",
         at < Len(disk["packed"])
  PROVE  /\ ChunkOk(disk["packed"][at + 1]) /\ MemoryOk(memory) /\ faults \subseteq Faults
         /\ at \in Nat /\ at + 1 \in at + 1 .. Len(disk["packed"])
<1>1. ChunkOk(disk["packed"][at + 1]) /\ at \in Nat /\ faults \subseteq Faults
  BY NextChunk DEF Shape
<1>2. MemoryOk(memory) /\ Chunks(disk["packed"])
  BY DEF SixTypes
<1>3. Len(disk["packed"]) \in Nat
  BY <1>2, ChunksAre
<1> QED
  BY <1>1, <1>2, <1>3

\* Nothing fails, or a write does.
LEMMA SixReadChunk ==
  ASSUME Shape, SixTypes, SixInv, SixWhole, codec = "6pack", mode = "6unpack",
         at < Len(disk["packed"]), UNCHANGED <<codec, original, block>>,
         NEW chunk, chunk = disk["packed"][at + 1], Six!ReadChunk(chunk)
  PROVE  Shape' /\ SixTypes' /\ SixInv' /\ SixWhole'
<1>1. /\ ChunkOk(chunk) /\ MemoryOk(memory) /\ faults \subseteq Faults
      /\ at \in Nat /\ at + 1 \in at + 1 .. Len(disk["packed"])
  BY NextThere
<1>2. PICK written \in BOOLEAN :
        /\ IF written THEN UNCHANGED faults ELSE Six!Fails("write")
        /\ \E stale \in Six!Stale : Six!Turn(chunk, Six!Header(chunk, stale), written)
  BY DEF Six!ReadChunk
<1>3. PICK stale \in Six!Stale : Six!Turn(chunk, Six!Header(chunk, stale), written)
  BY <1>2
<1> DEFINE head == Six!Header(chunk, stale)
<1>4. Head6(chunk, head)
  <2>1. stale \in {memory.header, Six!NoHeader, [Six!NoHeader EXCEPT !.options = 2]}
    BY DEF Six!Stale
  <2> QED
    BY <1>1, <2>1, HeaderIs
<1>5. /\ faults \subseteq faults' /\ faults' \subseteq Faults
      /\ "exists" \in faults' => "exists" \in faults
      /\ ~written => "write" \in faults'
  <2>1. CASE written
    BY <1>1, <1>2, <2>1
  <2>2. CASE ~written
    <3>1. faults' = faults \cup {"write"} /\ faults' \subseteq Faults
      BY <1>1, <1>2, <2>2, Failing
    <3> QED
      BY <3>1
  <2> QED
    BY <2>1, <2>2
<1>6. Advances
  <2>1. at' = at + 1
    BY DEF Six!ReadChunk
  <2> QED
    BY <1>1, <1>5, <2>1 DEF Advances
<1>7. ReadAs(disk["packed"][at + 1], chunk, faults')
  BY DEF ReadAs
<1> HIDE DEF head
<1>8. Turning(chunk, head, written)
  BY <1>1, <1>4, <1>5, <1>6, <1>7, IsTurning
<1> QED
  BY <1>3, <1>8, SixTurn DEF head

\* The read of its bytes ends early.
LEMMA SixReadShort ==
  ASSUME Shape, SixTypes, SixInv, SixWhole, codec = "6pack", mode = "6unpack",
         at < Len(disk["packed"]), UNCHANGED <<codec, original, block>>,
         NEW chunk, chunk = disk["packed"][at + 1], Six!ReadShort(chunk)
  PROVE  Shape' /\ SixTypes' /\ SixInv' /\ SixWhole'
<1>1. /\ ChunkOk(chunk) /\ MemoryOk(memory) /\ faults \subseteq Faults
      /\ at \in Nat /\ at + 1 \in at + 1 .. Len(disk["packed"])
  BY NextThere
<1>2. PICK n \in 0 .. Len(chunk.bytes) - 1, stale \in Six!Stale :
        Six!Turn([chunk EXCEPT !.bytes = SubSeq(@, 1, n)], Six!Header(chunk, stale), TRUE)
  BY Zenon DEF Six!ReadShort
<1> DEFINE head == Six!Header(chunk, stale)
           short == [chunk EXCEPT !.bytes = SubSeq(@, 1, n)]
<1>3. Six!Turn(short, head, TRUE)
  BY <1>2
<1>4. Head6(chunk, head)
  <2>1. stale \in {memory.header, Six!NoHeader, [Six!NoHeader EXCEPT !.options = 2]}
    BY DEF Six!Stale
  <2> QED
    BY <1>1, <2>1, HeaderIs
<1>5. ChunkOk(short) /\ IsShort(chunk, short)
  BY <1>1, ShortChunk
<1> HIDE DEF head, short
<1>6. Head6(short, head)
  <2>1. "bytes" \notin Fields
    BY DEF Fields, Six!NoHeader
  <2> QED
    BY <1>4, <1>5, <2>1 DEF Head6, IsShort
<1>7. faults' = faults \cup {"short"} /\ faults' \subseteq Faults
  <2>1. Six!Fails("short")
    BY DEF Six!ReadShort
  <2> QED
    BY <1>1, <2>1, Failing
<1>8. Advances
  <2>1. at' = at + 1
    BY DEF Six!ReadShort
  <2> QED
    BY <1>1, <1>7, <2>1 DEF Advances
<1>9. ReadAs(disk["packed"][at + 1], short, faults')
  BY <1>5, <1>7 DEF ReadAs
<1>10. Turning(short, head, TRUE)
  BY <1>5, <1>6, <1>8, <1>9, IsTurning
<1> QED
  BY <1>3, <1>10, SixTurn

\* The read of its header ends early.
LEMMA SixReadHeaderShort ==
  ASSUME Shape, SixTypes, SixInv, SixWhole, codec = "6pack", mode = "6unpack",
         at < Len(disk["packed"]), UNCHANGED <<codec, original, block>>,
         NEW chunk, chunk = disk["packed"][at + 1], Six!ReadHeaderShort(chunk)
  PROVE  Shape' /\ SixTypes' /\ SixInv' /\ SixWhole'
<1>1. /\ ChunkOk(chunk) /\ MemoryOk(memory) /\ faults \subseteq Faults
      /\ at \in Nat /\ at + 1 \in at + 1 .. Len(disk["packed"])
  BY NextThere
<1>2. PICK kept \in Six!Parts, stale \in Six!Stale :
        LET part == Six!Part(chunk, kept)
            head == Six!Header(part, stale)
        IN /\ at' \in IF head.size = Six!Header(chunk, head).size THEN {at + 1}
                      ELSE at + 1 .. Len(disk["packed"])
           /\ \E bytes \in {<<>>, [k \in 1 .. head.size |-> Junk]} :
                Six!Turn([part EXCEPT !.bytes = bytes], head, TRUE)
  BY Zenon DEF Six!ReadHeaderShort
<1> DEFINE part == Six!Part(chunk, kept)
           head == Six!Header(part, stale)
<1>3. /\ at' \in IF head.size = Six!Header(chunk, head).size THEN {at + 1}
                 ELSE at + 1 .. Len(disk["packed"])
      /\ \E bytes \in {<<>>, [k \in 1 .. head.size |-> Junk]} :
           Six!Turn([part EXCEPT !.bytes = bytes], head, TRUE)
  BY <1>2
<1>4. ChunkOk(part)
  BY <1>1, BareChunk
<1> HIDE DEF part
<1>5. Head6(part, head)
  <2>1. stale \in {memory.header, Six!NoHeader, [Six!NoHeader EXCEPT !.options = 2]}
    BY DEF Six!Stale
  <2> QED
    BY <1>1, <1>4, <2>1, HeaderIs
<1> HIDE DEF head
<1>6. PICK bytes \in {<<>>, [k \in 1 .. head.size |-> Junk]} :
        Six!Turn([part EXCEPT !.bytes = bytes], head, TRUE)
  BY <1>3
<1>7. bytes \in Seq(Symbols)
  <2>1. head["size"] \in Nat /\ Junk \in Symbols
    BY <1>5 DEF Head6, Symbols
  <2> DEFINE size == head["size"]
             junk == [k \in 1 .. size |-> Junk]
  <2> HIDE DEF size
  <2>2. junk \in Seq(Symbols)
    BY <2>1 DEF size
  <2>3. <<>> \in Seq(Symbols)
    BY EmptySeq
  <2>4. bytes = <<>> \/ bytes = junk
    BY <1>6 DEF size
  <2> QED
    BY <2>2, <2>3, <2>4
<1> DEFINE now == [part EXCEPT !.bytes = bytes]
<1>8. ChunkOk(now) /\ Head6(now, head)
  BY <1>4, <1>5, <1>7, OtherBytes
<1>9. Six!Turn(now, head, TRUE)
  BY <1>6
<1> HIDE DEF now
<1>10. faults' = faults \cup {"header"} /\ faults' \subseteq Faults
  <2>1. Six!Fails("header")
    BY DEF Six!ReadHeaderShort
  <2> QED
    BY <1>1, <2>1, Failing
<1>11. Advances
  <2>1. at' \in at + 1 .. Len(disk["packed"])
    BY <1>1, <1>3
  <2> QED
    BY <1>10, <2>1 DEF Advances
<1>12. ReadAs(disk["packed"][at + 1], now, faults')
  BY <1>10 DEF ReadAs
<1>13. Turning(now, head, TRUE)
  BY <1>8, <1>11, <1>12, IsTurning
<1> QED
  BY <1>9, <1>13, SixTurn

\* A turn of 6unpack.
LEMMA SixUnpackChunk ==
  ASSUME Shape, SixTypes, SixInv, SixWhole, codec = "6pack", UNCHANGED codec, Six!UnpackChunk
  PROVE  Shape' /\ SixTypes' /\ SixInv' /\ SixWhole'
<1>1. mode = "6unpack" /\ UNCHANGED <<original, block>>
  BY DEF Six!UnpackChunk, Six!files
<1>2. CASE /\ at = Len(disk["packed"]) /\ Six!Return(TRUE, "done")
           /\ UNCHANGED <<disk, at, faults, open, memory>>
  <2>1. mode' = "none" /\ goal' = "done"
    BY <1>2 DEF Six!Return
  <2> QED
    BY <1>1, <1>2, <2>1, SixEnds
<1> DEFINE chunk == disk["packed"][at + 1]
<1>3. CASE at < Len(disk["packed"]) /\ Six!ReadChunk(chunk)
  BY <1>1, <1>3, SixReadChunk
<1>4. CASE at < Len(disk["packed"]) /\ Six!ReadShort(chunk)
  BY <1>1, <1>4, SixReadShort
<1>5. CASE at < Len(disk["packed"]) /\ Six!ReadHeaderShort(chunk)
  BY <1>1, <1>5, SixReadHeaderShort
<1> QED
  BY <1>2, <1>3, <1>4, <1>5, Zenon DEF Six!UnpackChunk

\* Whatever 6pack and 6unpack do.
LEMMA SixStep ==
  ASSUME IInv, codec = "6pack", Six!Next, UNCHANGED <<codec, over>>
  PROVE  IInv'
<1>1. Shape /\ SixTypes /\ SixInv /\ SixWhole
  BY DEF IInv
<1>2. Shape' /\ SixTypes' /\ SixInv' /\ SixWhole'
  <2>1. CASE Six!Pack
    BY <1>1, <2>1, SixPack
  <2>2. CASE Six!PackBlock
    BY <1>1, <2>2, SixPackBlock
  <2>3. CASE Six!Discard
    BY <1>1, <2>3, SixDiscard
  <2>4. CASE Six!Damage
    BY <1>1, <2>4, SixDamage
  <2>5. CASE Six!Exists
    BY <1>1, <2>5, SixExists
  <2>6. CASE Six!Unpack
    BY <1>1, <2>6, SixUnpack
  <2>7. CASE Six!UnpackChunk
    BY <1>1, <2>7, SixUnpackChunk
  <2>8. CASE Six!Crash /\ UNCHANGED <<open, memory>>
    BY <1>1, <2>8, SixCrash
  <2> QED
    BY <2>1, <2>2, <2>3, <2>4, <2>5, <2>6, <2>7, <2>8 DEF Six!Next
<1>3. LzfTypes' /\ LzfInv'
  BY DEF LzfTypes, LzfInv
<1> QED
  BY <1>2, <1>3 DEF IInv

------------------------------------------------------------------------------
(* The theorems *)

LEMMA Initially ==
  ASSUME Init
  PROVE  IInv
<1>1. /\ codec \in {"lzf", "6pack"} /\ goal = "pack" /\ mode = "none" /\ block \in Blocks
      /\ at = 0 /\ faults = {} /\ original \in Contents /\ over = <<>> /\ open = FALSE
      /\ memory = Six!Fresh
      /\ disk = [name \in Names |-> IF name = "plain" THEN original ELSE Absent]
  BY DEF Init
<1>2. /\ DOMAIN disk = Names /\ disk["plain"] = original
      /\ disk["packed"] = Absent /\ disk["copy"] = Absent
  BY <1>1 DEF Names
<1>3. original \in Seq(Byte) /\ <<>> \in Seq(Byte) /\ Len(<<>>) = 0
  BY <1>1, ArchiveAssumption, EmptySeq
<1>4. Shape
  BY <1>1, <1>2 DEF Shape
<1>5. LzfTypes
  BY <1>1, <1>2, <1>3 DEF LzfTypes
<1>6. Begins(original, original) /\ Begins(Absent, original)
  BY <1>3, BeginsItself
<1>7. LzfInv
  BY <1>1, <1>2, <1>6 DEF LzfInv
<1>8. MemoryOk(memory)
  BY <1>1, FreshMemory
<1>9. SixTypes
  BY <1>1, <1>2, <1>8 DEF SixTypes
<1>10. Copied(original, block, disk["copy"], faults)
  BY <1>2 DEF Copied
<1>11. SixInv
  BY <1>1, <1>10 DEF SixInv
<1>12. SixWhole
  BY <1>1 DEF SixWhole
<1> QED
  BY <1>4, <1>5, <1>7, <1>9, <1>11, <1>12 DEF IInv

LEMMA Step ==
  ASSUME IInv, [Next]_vars
  PROVE  IInv'
<1>1. CASE codec = "lzf" /\ Lzf!Next /\ UNCHANGED <<codec, open, memory>>
  BY <1>1, LzfStep
<1>2. CASE codec = "6pack" /\ Six!Next /\ UNCHANGED <<codec, over>>
  BY <1>2, SixStep
<1>3. CASE UNCHANGED vars
  <2>1. UNCHANGED <<codec, goal, mode, original, block, at, faults, disk, over, open, memory>>
    BY <1>3 DEF vars, own
  <2>2. Shape'
    BY <2>1 DEF IInv, Shape
  <2>3. LzfTypes'
    BY <2>1 DEF IInv, LzfTypes
  <2>4. LzfInv'
    BY <2>1, Zenon DEF IInv, LzfInv
  <2>5. SixTypes'
    BY <2>1 DEF IInv, SixTypes
  <2>6. SixInv'
    BY <2>1, Zenon DEF IInv, SixInv
  <2>7. SixWhole'
    BY <2>1 DEF IInv, SixWhole
  <2> QED
    BY <2>2, <2>3, <2>4, <2>5, <2>6, <2>7 DEF IInv
<1> QED
  BY <1>1, <1>2, <1>3 DEF Next, Stopped

LEMMA Inductive == Spec => []IInv
<1>1. Init => IInv
  BY Initially
<1>2. IInv /\ [Next]_vars => IInv'
  BY Step
<1> QED
  BY <1>1, <1>2, PTL DEF Spec

\* Every variable has its type, whatever goes wrong: no header 6unpack reads over
\* the one before makes it write to a file it has not opened.
THEOREM Types == Spec => []TypeOK
<1>1. IInv => TypeOK
  <2> SUFFICES ASSUME IInv PROVE TypeOK
    OBVIOUS
  <2>1. Shape /\ LzfTypes /\ SixTypes
    BY DEF IInv
  <2>2. DOMAIN Lzf!Input = {"compress", "uncompress", "lzcat"} /\ Lzf!TypeOne - Lzf!TypeZero = 2
    BY DEF Lzf!Input, Lzf!TypeOne, Lzf!TypeZero
  <2>3. original \in Seq(Byte)
    BY <2>1, ArchiveAssumption DEF Shape
  <2>4. Absent \notin Seq(Symbols) /\ Other \notin Seq(Symbols)
    BY ArchivesAssumption DEF Symbols
  <2>5. CASE codec = "lzf"
    BY <2>1, <2>2, <2>5 DEF Shape, LzfTypes, TypeOK
  <2>6. CASE codec = "6pack"
    <3>1. open \in BOOLEAN /\ (open => disk["copy"] \notin {Absent, Other})
      BY <2>1, <2>4, <2>6 DEF SixTypes
    <3>2. mode \in {"none", "6pack", "6unpack"} /\ disk["plain"] \in Seq(Byte)
      BY <2>1, <2>3, <2>6 DEF SixTypes
    <3> QED
      BY <2>1, <2>6, <3>1, <3>2 DEF Shape, TypeOK
  <2> QED
    BY <2>1, <2>5, <2>6 DEF Shape
<1> QED
  BY <1>1, Inductive, PTL

\* Between any two writes of lzf the file or a whole archive of it is there, and
\* 6unpack, that overwrites no file, restores the file it was packed from, as
\* long as the archive is whole and each of its own reads and writes succeeds.
THEOREM Kept == Spec => []NothingLost
<1>1. IInv => NothingLost
  <2> SUFFICES ASSUME IInv PROVE NothingLost
    OBVIOUS
  <2>1. Shape /\ LzfTypes /\ LzfInv /\ SixTypes /\ SixWhole /\ original \in Seq(Byte)
    BY ArchiveAssumption DEF IInv, Shape
  <2>2. ASSUME codec = "lzf", faults \cap {"read", "cut"} = {}
        PROVE  disk["plain"] = original \/ \E n \in Blocks : disk["packed"] = Whole(n)
    <3>1. "read" \notin faults /\ "cut" \notin faults
      BY <2>2
    <3>2. CASE goal = "unpack"
      <4>1. PICK n \in Blocks : disk["packed"] = Archived(original, n)
        BY <2>1, <2>2, <3>1, <3>2 DEF LzfInv
      <4>2. Whole(n) = Archived(original, n)
        BY <2>1, WholeIs
      <4> QED
        BY <4>1, <4>2
    <3>3. CASE goal = "pack" \/ goal = "done"
      BY <2>1, <2>2, <3>1, <3>3 DEF LzfInv
    <3> QED
      BY <2>1, <3>2, <3>3 DEF Shape
  <2>3. codec = "6pack" /\ goal = "done" /\ faults \subseteq {"read"} => disk["copy"] = original
    BY <2>1 DEF SixWhole
  <2>4. "exists" \in faults => disk["copy"] = Other
    BY <2>1 DEF Shape, LzfTypes, SixTypes
  <2> QED
    BY <2>2, <2>3, <2>4 DEF NothingLost
<1> QED
  BY <1>1, Inductive, PTL

\* What remains of whole blocks and a part of one is the part.
LEMMA Remainder ==
  ASSUME NEW k \in Nat, NEW n \in Nat \ {0}, NEW l \in Nat, l < n
  PROVE  (k * n + l) % n = l
<1> DEFINE m == k * n + l
           q == m \div n
           r == m % n
<1>1. m \in Nat /\ k * n \in Nat
  OBVIOUS
<1>2. q \in Nat /\ r \in 0 .. n - 1 /\ m = q * n + r
  <2> HIDE DEF m
  <2> QED
    BY <1>1, Division
<1>3. q * n + r = k * n + l
  BY <1>2
<1> HIDE DEF m, q, r
<1>4. CASE q = k
  <2>1. q * n = k * n /\ r \in Nat
    BY <1>2, <1>4
  <2>2. r = l
    <3> DEFINE x == k * n
    <3>1. x + r = x + l /\ x \in Nat
      BY <1>1, <1>3, <1>4
    <3> HIDE DEF x
    <3> QED
      BY <2>1, <3>1
  <2> QED
    BY <2>2 DEF r, m
<1>5. CASE q < k
  <2> DEFINE d == k - (q + 1)
  <2>1. d \in Nat /\ k = q + 1 + d
    BY <1>2, <1>5
  <2> HIDE DEF d
  <2>2. d * n \in Nat /\ q * n \in Nat /\ k * n = q * n + n + d * n
    BY ONLY n \in Nat \ {0}, <1>2, <2>1, q \in Nat, d \in Nat
  <2>3. r \in Nat /\ r < n
    BY <1>2
  <2> DEFINE x == q * n
             y == d * n
             z == k * n
  <2>4. x + r = z + l /\ z = x + n + y /\ x \in Nat /\ y \in Nat /\ z \in Nat
    BY <1>1, <1>3, <2>2
  <2> HIDE DEF x, y, z
  <2> QED
    BY <2>3, <2>4
<1>6. CASE q > k
  <2> DEFINE d == q - (k + 1)
  <2>1. d \in Nat /\ q = k + 1 + d
    BY <1>2, <1>6
  <2> HIDE DEF d
  <2>2. d * n \in Nat /\ k * n \in Nat /\ q * n = k * n + n + d * n
    BY ONLY n \in Nat \ {0}, k \in Nat, <2>1, d \in Nat
  <2>3. r \in Nat /\ r < n
    BY <1>2
  <2> DEFINE x == k * n
             y == d * n
             z == q * n
  <2>4. z + r = x + l /\ z = x + n + y /\ x \in Nat /\ y \in Nat /\ z \in Nat
    BY <1>3, <2>2
  <2> HIDE DEF x, y, z
  <2> QED
    BY <2>3, <2>4
<1> QED
  BY <1>2, <1>4, <1>5, <1>6

\* What 6unpack has written for sure is the beginning of the file.
LEMMA SureIs ==
  ASSUME NEW s \in Seq(Byte), NEW n \in Blocks, NEW copy, copy # Absent, NEW wrong,
         Copied(s, n, copy, wrong)
  PROVE  LET sure == IF "changed" \notin wrong THEN Len(copy) ELSE Len(copy) - (Len(copy) % n)
         IN IsPrefix(SubSeq(copy, 1, sure), s)
<1>1. PICK k \in 0 .. Count(s, n), rest \in Seq(Symbols) :
        /\ copy = SubSeq(s, 1, Behind(s, n, k)) \o rest
        /\ rest # <<>> => Behind(s, n, k) = k * n /\ Len(rest) < n
        /\ "changed" \notin wrong => \A i \in 1 .. Len(rest) :
             Behind(s, n, k) + i <= Len(s) /\ rest[i] = s[Behind(s, n, k) + i]
  BY DEF Copied
<1> DEFINE b == Behind(s, n, k)
           l == Len(rest)
           first == SubSeq(s, 1, b)
           sure == IF "changed" \notin wrong THEN Len(copy) ELSE Len(copy) - (Len(copy) % n)
<1>2. n \in Nat \ {0} /\ Count(s, n) \in Nat /\ Len(s) \in Nat /\ b \in 0 .. Len(s) /\ l \in Nat
  <2>1. n \in Nat \ {0} /\ Count(s, n) \in Nat /\ Len(s) \in Nat
    BY BlockSize, Blocking
  <2> QED
    BY <2>1, Blocking, LenProperties
<1>3. rest # <<>> => b = k * n /\ l < n
  BY <1>1
<1>4. "changed" \notin wrong => \A i \in 1 .. l : b + i <= Len(s) /\ rest[i] = s[b + i]
  BY <1>1
<1>5. l = 0 => rest = <<>>
  BY EmptySeq
<1>6. copy = first \o rest
  BY <1>1
<1>7. k \in Nat
  BY <1>2
<1> HIDE DEF b, l
<1>8. first \in Seq(Symbols) /\ Len(first) = b /\ \A i \in 1 .. b : first[i] = s[i]
  <2>1. b \in Int /\ b \in Nat /\ b <= Len(s) /\ 0 \in Nat
    BY <1>2
  <2>2. /\ SubSeq(s, 0 + 1, b) \in Seq(Byte)
        /\ Len(SubSeq(s, 0 + 1, b)) = IF 0 <= b THEN b - 0 ELSE 0
        /\ \A i \in 1 .. b - 0 : SubSeq(s, 0 + 1, b)[i] = s[0 + i]
    BY <2>1, Part
  <2>3. first \in Seq(Byte) /\ Len(first) = b /\ \A i \in 1 .. b : first[i] = s[i]
    BY <2>1, <2>2
  <2> HIDE DEF first
  <2> QED
    BY <2>3, BytesAre
<1> HIDE DEF first
<1>9. /\ copy \in Seq(Symbols) /\ Len(copy) = b + l
      /\ \A i \in 1 .. b : copy[i] = s[i]
      /\ \A i \in 1 .. l : copy[b + i] = rest[i]
  <2>1. /\ first \o rest \in Seq(Symbols)
        /\ Len(first \o rest) = Len(first) + Len(rest)
        /\ \A i \in 1 .. Len(first) : (first \o rest)[i] = first[i]
        /\ \A i \in 1 .. Len(rest) : (first \o rest)[Len(first) + i] = rest[i]
    <3>1. rest \in Seq(Symbols) /\ first \in Seq(Symbols)
      BY <1>1, <1>8
    <3> QED
      BY ONLY <3>1, Joined
  <2> QED
    BY <1>6, <1>8, <2>1 DEF l
<1>10. /\ sure \in Nat /\ sure <= Len(copy) /\ sure <= Len(s)
       /\ \A i \in 1 .. sure : copy[i] = s[i]
  <2>1. CASE "changed" \notin wrong
    <3>1. sure = b + l
      BY <1>9, <2>1
    <3>2. b + l <= Len(s)
      <4>1. CASE l = 0
        BY <1>2, <4>1
      <4>2. CASE l # 0
        <5>1. l \in 1 .. l
          BY <1>2, <4>2
        <5> QED
          BY <1>4, <2>1, <5>1
      <4> QED
        BY <4>1, <4>2
    <3>3. ASSUME NEW i \in 1 .. b + l PROVE copy[i] = s[i]
      <4>1. CASE i <= b
        BY <1>2, <1>9, <4>1
      <4>2. CASE ~(i <= b)
        <5> DEFINE j == i - b
        <5>1. j \in 1 .. l /\ b + j = i
          BY <1>2, <4>2
        <5> HIDE DEF j
        <5>2. copy[b + j] = rest[j] /\ rest[j] = s[b + j]
          BY <1>4, <1>9, <2>1, <5>1
        <5> QED
          BY <5>1, <5>2
      <4> QED
        BY <4>1, <4>2
    <3> HIDE DEF sure
    <3> QED
      BY <1>2, <1>9, <3>1, <3>2, <3>3
  <2>2. CASE "changed" \in wrong
    <3>1. sure = Len(copy) - (Len(copy) % n)
      BY <2>2
    <3>2. sure \in Nat /\ sure <= b
      <4>1. CASE l = 0
        <5>1. Len(copy) = b /\ b \in Nat
          BY <1>2, <1>9, <4>1
        <5>2. b % n \in 0 .. n - 1 /\ b = (b \div n) * n + (b % n) /\ b \div n \in Nat
          BY <1>2, <5>1, Division
        <5>3. (b \div n) * n \in Nat
          BY <1>2, <5>2
        <5> QED
          BY <1>2, <3>1, <5>1, <5>2, <5>3
      <4>2. CASE l # 0
        <5>1. b = k * n /\ l < n
          BY <1>2, <1>3, <4>2 DEF l
        <5>2. Len(copy) = k * n + l
          BY <1>9, <5>1
        <5>3. (k * n + l) % n = l
          BY <1>2, <1>7, <5>1, Remainder
        <5> HIDE DEF sure
        <5> QED
          BY <1>2, <3>1, <5>1, <5>2, <5>3
      <4> QED
        BY <4>1, <4>2
    <3> HIDE DEF sure
    <3> QED
      BY <1>2, <1>9, <3>2
  <2> QED
    BY <2>1, <2>2
<1> HIDE DEF sure
<1> DEFINE w == SubSeq(copy, 1, sure)
<1>11. w \in Seq(Symbols) /\ Len(w) = sure /\ \A i \in 1 .. sure : w[i] = copy[i]
  <2>1. sure \in Int /\ sure \in Nat /\ sure <= Len(copy) /\ 0 \in Nat
    BY <1>10
  <2>2. /\ SubSeq(copy, 0 + 1, sure) \in Seq(Symbols)
        /\ Len(SubSeq(copy, 0 + 1, sure)) = IF 0 <= sure THEN sure - 0 ELSE 0
        /\ \A i \in 1 .. sure - 0 : SubSeq(copy, 0 + 1, sure)[i] = copy[0 + i]
    BY <1>9, <2>1, Part
  <2> QED
    BY <2>1, <2>2
<1> HIDE DEF w
<1>12. IsPrefix(w, s)
  <2>1. s \in Seq(Symbols)
    BY BytesAre
  <2>2. Len(w) <= Len(s) /\ \A i \in 1 .. Len(w) : w[i] = s[i]
    BY <1>10, <1>11
  <2> QED
    BY <1>11, <2>1, <2>2, Prefix
<1> QED
  BY <1>12 DEF w, sure

\* Whatever is cut off or changed, and whichever read behind a header fails in
\* 6unpack, what is restored for sure is the beginning of the file, in its order.
THEOREM Ordered == Spec => []InOrder
<1>1. IInv => InOrder
  <2> SUFFICES ASSUME IInv PROVE InOrder
    OBVIOUS
  <2>1. Shape /\ LzfInv /\ SixInv /\ original \in Seq(Byte) /\ block \in Blocks
    BY ArchiveAssumption DEF IInv, Shape
  <2>2. ASSUME codec = "lzf", "read" \notin faults
        PROVE  \A name \in {"plain", "copy"} : disk[name] = Absent \/ IsPrefix(disk[name], original)
    BY <2>1, <2>2 DEF LzfInv, Begins
  <2>3. ASSUME codec = "6pack", faults \cap {"header", "write", "exists"} = {}, disk["copy"] # Absent
        PROVE  LET sure == IF "changed" \notin faults THEN Len(disk["copy"])
                           ELSE Len(disk["copy"]) - (Len(disk["copy"]) % block)
               IN IsPrefix(SubSeq(disk["copy"], 1, sure), original)
    <3>1. Copied(original, block, disk["copy"], faults)
      BY <2>1, <2>3 DEF SixInv
    <3> QED
      BY <2>1, <2>3, <3>1, SureIs, Zenon
  <2> QED
    BY <2>2, <2>3, Zenon DEF InOrder
<1> QED
  BY <1>1, Inductive, PTL
================================================================================
