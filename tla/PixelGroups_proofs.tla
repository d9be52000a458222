---------------------------- MODULE PixelGroups_proofs ----------------------------
(****************************************************************************)
(* Proofs about PixelGroups for any engines, requests, numbers of processors *)
(* and calls, and every order of the groups' iterations.                     *)
(*                                                                           *)
(* The first inductive invariant follows the streams of this call: into the  *)
(* vector of the instance, which may be longer, into the list of results,    *)
(* and into what the finished groups of decompress() have written.  It holds *)
(* whatever the bounds of the groups are.                                    *)
(*                                                                           *)
(* What the bounds are is arithmetic: of products of floats that are rounded *)
(* twice.  On it rest that the groups are apart, and, with the second        *)
(* invariant, about the rooms of the buffers, that their streams nearly fit. *)
(****************************************************************************)
EXTENDS PixelGroups, SequenceTheorems, WellFoundedInduction, TLAPS

\* A list, of whatever it holds.
IsList(f) == f \in Seq({f[i] : i \in DOMAIN f})

\* The application's instance is of the engine it asked for.
Instances ==
  /\ functions \in Orders
  /\ instance # <<>> => \E e \in Engines : instance = <<[name |-> e, engine |-> e]>>

Running == pc \in {"compress", "compressed", "decompress"}

\* The call: its number, its request and the groups.
Called ==
  /\ pc \in {"idle", "compress", "compressed", "decompress", "returned"}
  /\ call \in 0 .. MaxCalls
  /\ pc = "idle" => work = <<>> /\ restored = <<>>
  /\ pc # "idle" =>
       /\ work \in Seq({"todo", "stored", "done"}) /\ Len(work) # 0
       /\ <<nPixels, Len(work)>> \in Splits
       /\ request.name \in Engines /\ call # 0
  /\ Running => instance = <<[name |-> request.name, engine |-> request.name]>>

\* The streams of a group in a list are those of call c, engine e and the group
\* itself, one of g of n pixels.
OwnStreams(list, group, e, n, g, c) ==
  \A s \in Streams(group) :
    list[s] = [room |-> list[s].room, size |-> list[s].size, of |-> c, by |-> e,
               lo |-> First(group, n, g), hi |-> Behind(group, n, g)]

Own(list, group) == OwnStreams(list, group, request.name, nPixels, Len(work), call)

\* The groups compress() has finished have their own streams.
Compressing ==
  /\ IsList(results)
  /\ pc \in {"compress", "compressed"} =>
       /\ Len(results) >= 4 * Len(work) /\ restored = <<>>
       /\ \A group \in 1 .. Len(work) :
            (pc = "compressed" \/ work[group] # "todo") => Own(results, group)
  /\ pc = "compressed" => nResults = 4 * Len(work)

\* The list handed to decompress() has all streams, and the groups it has
\* finished are what they are to be.
Restoring ==
  /\ pc = "decompress" =>
       /\ Len(inputs) = 4 * Len(work)
       /\ \A group \in 1 .. Len(work) : Own(inputs, group)
       /\ \A group \in 1 .. Len(work) : group \in DOMAIN restored <=> work[group] = "done"
  /\ pc \in {"decompress", "returned"} =>
       /\ restored = [k \in DOMAIN restored |-> Pieces(request.name, nPixels, Len(work), call)[k]]
       /\ DOMAIN restored \subseteq 1 .. Len(work)
  /\ pc = "returned" => DOMAIN restored = 1 .. Len(work)

IInv == Instances /\ Called /\ Compressing /\ Restoring

------------------------------------------------------------------------------
(* Lists, streams and engines *)

\* A list has places from 1 on.
LEMMA ListPlaces ==
  ASSUME NEW f, IsList(f)
  PROVE  Len(f) \in Nat /\ DOMAIN f = 1 .. Len(f)
BY LenProperties DEF IsList

\* A function of the places 1 .. n is a list.
LEMMA MakesList ==
  ASSUME NEW n \in Nat, NEW f, f = [i \in 1 .. n |-> f[i]]
  PROVE  IsList(f) /\ Len(f) = n
<1>1. \A i \in 1 .. n : f[i] \in {f[j] : j \in 1 .. n}
  OBVIOUS
<1>2. [i \in 1 .. n |-> f[i]] \in Seq({f[j] : j \in 1 .. n})
  BY <1>1, IsASeq
<1>3. DOMAIN f = 1 .. n
  OBVIOUS
<1>4. IsList(f)
  BY <1>2, <1>3 DEF IsList
<1> QED
  BY <1>3, <1>4, ListPlaces

\* The streams of the groups are apart.
LEMMA StreamsApart ==
  ASSUME NEW n \in Nat, NEW group \in 1 .. n
  PROVE  /\ Streams(group) \subseteq 1 .. 4 * n
         /\ 4 * group - 3 \in Read(group) /\ Read(group) \subseteq Streams(group)
         /\ \A other \in 1 .. n : other # group => Streams(group) \cap Streams(other) = {}
BY DEF Streams, Read

\* Every engine is found by its name.
LEMMA Found ==
  ASSUME Instances
  PROVE  /\ functions[1] \in Engines
         /\ \A name \in Engines : FindFunctions(name) = name
<1>1. functions \in Seq(Engines) /\ Range(functions) = Engines /\ Engines # {}
  BY GroupsAssumption DEF Instances
<1>2. \A name \in Engines : FindFunctions(name) = name
  BY <1>1 DEF FindFunctions
<1>3. Len(functions) \in Nat /\ DOMAIN functions = 1 .. Len(functions)
  BY <1>1, LenProperties
<1>4. PICK e : e \in Engines
  BY <1>1
<1>5. PICK i \in DOMAIN functions : functions[i] = e
  BY <1>1, <1>4 DEF Range
<1>6. 1 \in DOMAIN functions
  BY <1>3, <1>5
<1> QED
  BY <1>1, <1>2, <1>6 DEF Range

\* A call has at least one group, and its partition is one of those there are.
LEMMA GroupsOfCall ==
  ASSUME NEW r \in Requests, NEW e \in Engines, NEW procs \in Procs
  PROVE  LET n == NPixels(r.dims, r.flags)
             g == Groups(n, WordSize[e], procs)
         IN g \in Nat \ {0} /\ <<n, g>> \in Splits
<1> DEFINE n == NPixels(r.dims, r.flags)
           word == WordSize[e]
           g == Groups(n, word, procs)
<1>1. n \in Pixels /\ n \in Nat
  BY GroupsAssumption DEF Pixels
<1>2. word \in Range(WordSize) /\ word \in {1, 2}
  BY GroupsAssumption DEF Range
<1>3. procs \in Nat \ {0}
  BY GroupsAssumption
<1>4. <<n, g>> \in Splits
  BY <1>1, <1>2 DEF Splits
<1> HIDE DEF n, word
<1>5. Bytes(n, word) \in Nat
  <2>1. CASE word = 1
    BY <1>1, <2>1 DEF Bytes
  <2>2. CASE word = 2
    BY <1>1, <2>2 DEF Bytes
  <2> QED
    BY <1>2, <2>1, <2>2
<1>6. Bytes(n, word) \div 4096 \in Nat
  BY <1>5
<1>7. g \in Nat \ {0}
  BY <1>3, <1>6 DEF Groups, Smaller, Larger
<1> QED
  BY <1>4, <1>7 DEF n, word

------------------------------------------------------------------------------
(* Numbers *)

\* A product grows with its factor.
LEMMA TimesMonotonic ==
  ASSUME NEW a \in Nat, NEW b \in Nat, NEW c \in Nat, a <= b
  PROVE  a * c <= b * c /\ a * c \in Nat /\ b * c \in Nat
<1> DEFINE d == b - a
<1>1. d \in Nat /\ b = a + d
  OBVIOUS
<1> HIDE DEF d
<1>2. (a + d) * c = a * c + d * c
  BY <1>1
<1>3. d * c \in Nat /\ a * c \in Nat
  BY <1>1
<1> QED
  BY <1>1, <1>2, <1>3

\* What quotient and remainder mean.
LEMMA Division ==
  ASSUME NEW n \in Nat, NEW c \in Nat \ {0}
  PROVE  /\ n \div c \in Nat /\ n % c \in 0 .. c - 1
         /\ n = (n \div c) * c + (n % c)
OBVIOUS

\* A quotient is compared with a number by comparing the products.
LEMMA Quotient ==
  ASSUME NEW n \in Nat, NEW c \in Nat \ {0}, NEW q \in Nat
  PROVE  /\ n \div c \in Nat
         /\ q * c <= n <=> q <= n \div c
         /\ n < q * c <=> n \div c < q
<1> DEFINE p == n \div c
           r == n % c
<1>1. p \in Nat /\ r \in 0 .. c - 1 /\ n = p * c + r
  BY Division
<1>2. p * c \in Nat /\ q * c \in Nat /\ (p + 1) * c = p * c + c
  BY <1>1
<1>3. q <= p => q * c <= p * c
  BY <1>1, TimesMonotonic
<1>4. p + 1 <= q => (p + 1) * c <= q * c
  BY <1>1, TimesMonotonic
<1>5. (q * c <= n <=> q <= p) /\ (n < q * c <=> p < q) /\ p \in Nat
  <2> HIDE DEF p, r
  <2> QED
    BY <1>1, <1>2, <1>3, <1>4
<1> QED
  BY <1>5

\* RoundEven() finds a whole number next to the quotient.
LEMMA Rounded ==
  ASSUME NEW a \in Nat, NEW b \in Nat \ {0}
  PROVE  /\ RoundEven(a, b) \in Nat
         /\ 2 * (RoundEven(a, b) * b) <= 2 * a + b
         /\ 2 * a <= 2 * (RoundEven(a, b) * b) + b
         /\ \A m \in Nat : m * b <= a => m <= RoundEven(a, b)
         /\ \A m \in Nat : a <= m * b => RoundEven(a, b) <= m
<1> DEFINE q == a \div b
           r == a % b
           w == RoundEven(a, b)
<1>1. q \in Nat /\ r \in 0 .. b - 1 /\ a = q * b + r
  BY Division
<1>2. w = IF 2 * r < b \/ (2 * r = b /\ q % 2 = 0) THEN q ELSE q + 1
  BY DEF RoundEven
<1>3. q * b \in Nat /\ (q + 1) * b = q * b + b
  BY <1>1
<1> HIDE DEF q, r, w
<1>4. w \in Nat /\ ((w = q /\ 2 * r <= b) \/ (w = q + 1 /\ 2 * r >= b))
  BY <1>1, <1>2
<1>5. 2 * (w * b) <= 2 * a + b /\ 2 * a <= 2 * (w * b) + b
  <2>1. CASE w = q /\ 2 * r <= b
    BY <1>1, <1>3, <2>1
  <2>2. CASE w = q + 1 /\ 2 * r >= b
    <3>1. w * b = q * b + b
      BY <1>3, <2>2
    <3> QED
      BY <1>1, <1>3, <2>2, <3>1
  <2> QED
    BY <1>4, <2>1, <2>2
<1>6. ASSUME NEW m \in Nat, m * b <= a PROVE m <= w
  <2>1. m <= q
    BY <1>6, Quotient DEF q
  <2> QED
    BY <1>1, <1>4, <2>1
<1>7. ASSUME NEW m \in Nat, a <= m * b PROVE w <= m
  <2>1. CASE w = q
    <3>1. ~(m < q)
      <4>1. (m + 1) * b = m * b + b /\ m * b \in Nat
        OBVIOUS
      <4>2. m + 1 <= q => (m + 1) * b <= q * b
        BY <1>1, TimesMonotonic
      <4> QED
        BY <1>1, <1>3, <1>7, <4>1, <4>2
    <3> QED
      BY <1>1, <2>1, <3>1
  <2>2. CASE w = q + 1 /\ 2 * r >= b
    <3>1. m <= q => m * b <= q * b
      BY <1>1, TimesMonotonic
    <3>2. m * b \in Nat
      OBVIOUS
    <3>3. ~(m <= q)
      BY <1>1, <1>3, <1>7, <2>2, <3>1, <3>2
    <3> QED
      BY <1>1, <2>2, <3>3
  <2> QED
    BY <1>4, <2>1, <2>2
<1> QED
  BY <1>4, <1>5, <1>6, <1>7 DEF w

\* The larger number is not rounded to the smaller one.
LEMMA RoundedMonotonic ==
  ASSUME NEW a \in Nat, NEW c \in Nat, NEW b \in Nat \ {0}, a <= c
  PROVE  RoundEven(a, b) <= RoundEven(c, b)
<1> DEFINE q == a \div b
           r == a % b
           p == c \div b
           s == c % b
<1>1. q \in Nat /\ r \in 0 .. b - 1 /\ a = q * b + r
  BY Division
<1>2. p \in Nat /\ s \in 0 .. b - 1 /\ c = p * b + s
  BY Division
<1>3. RoundEven(a, b) = IF 2 * r < b \/ (2 * r = b /\ q % 2 = 0) THEN q ELSE q + 1
  BY DEF RoundEven
<1>4. RoundEven(c, b) = IF 2 * s < b \/ (2 * s = b /\ p % 2 = 0) THEN p ELSE p + 1
  BY DEF RoundEven
<1>5. q * b \in Nat /\ p * b \in Nat /\ (p + 1) * b = p * b + b
  BY <1>1, <1>2
<1> HIDE DEF q, r, p, s
<1>6. q <= p
  <2>1. p + 1 <= q => (p + 1) * b <= q * b
    BY <1>1, <1>2, TimesMonotonic
  <2> QED
    BY <1>1, <1>2, <1>5, <2>1
<1>7. CASE q = p
  <2>1. r <= s
    BY <1>1, <1>2, <1>5, <1>7
  <2> QED
    BY <1>1, <1>2, <1>3, <1>4, <1>7, <2>1
<1>8. CASE q < p
  BY <1>1, <1>2, <1>3, <1>4, <1>8
<1> QED
  BY <1>1, <1>2, <1>6, <1>7, <1>8

\* A set of natural numbers that is not empty has a least one.
LEMMA LeastOne ==
  ASSUME NEW S \in SUBSET Nat, S # {}
  PROVE  \E x \in S : \A y \in S : x <= y
<1> DEFINE R == {ss \in Nat \X Nat : ss[1] < ss[2]}
<1>1. IsWellFoundedOn(R, Nat)
  BY NatLessThanWellFounded, Zenon DEF OpToRel
<1> HIDE DEF R
<1>2. PICK x \in S : \A y \in S : ~(<<y, x>> \in R)
  BY <1>1, WFMin
<1>3. ASSUME NEW y \in S PROVE x <= y
  <2>1. <<y, x>> \in Nat \X Nat /\ <<y, x>>[1] = y /\ <<y, x>>[2] = x
    OBVIOUS
  <2>2. ~(y < x)
    BY <1>2, <2>1 DEF R
  <2> QED
    BY <2>2
<1> QED
  BY <1>3

\* What holds for zero and goes on to the next number up to l holds for l.
LEMMA Climb ==
  ASSUME NEW l \in Nat, NEW T, 0 \in T, \A n \in 0 .. l - 1 : n \in T => n + 1 \in T
  PROVE  l \in T
<1> DEFINE missing == {n \in 0 .. l : n \notin T}
<1> SUFFICES ASSUME missing # {} PROVE FALSE
  <2>1. l \in 0 .. l
    OBVIOUS
  <2> QED
    BY <2>1
<1>1. PICK m \in missing : \A n \in missing : m <= n
  <2>1. missing \in SUBSET Nat
    OBVIOUS
  <2> HIDE DEF missing
  <2> QED
    BY <2>1, LeastOne
<1>2. m \in 0 .. l /\ m # 0 /\ m \notin T
  OBVIOUS
<1>3. m - 1 \in 0 .. l - 1 /\ ~(m <= m - 1) /\ (m - 1) + 1 = m
  BY <1>2
<1>4. m - 1 \notin missing /\ m - 1 \in 0 .. l
  BY <1>1, <1>2, <1>3
<1>5. m - 1 \in T
  BY <1>4
<1> QED
  BY <1>2, <1>3, <1>5

------------------------------------------------------------------------------
(* Powers of two *)

\* Each power of two is the double of the one before; the prover knows the
\* powers of numbers only.
LEMMA Doubles ==
  ASSUME NEW k \in 0 .. 29
  PROVE  2^k \in Nat \ {0} /\ 2^(k + 1) = 2 * 2^k
<1>0. CASE k = 0
  BY <1>0, SMT
<1>1. CASE k = 1
  BY <1>1, SMT
<1>2. CASE k = 2
  BY <1>2, SMT
<1>3. CASE k = 3
  BY <1>3, SMT
<1>4. CASE k = 4
  BY <1>4, SMT
<1>5. CASE k = 5
  BY <1>5, SMT
<1>6. CASE k = 6
  BY <1>6, SMT
<1>7. CASE k = 7
  BY <1>7, SMT
<1>8. CASE k = 8
  BY <1>8, SMT
<1>9. CASE k = 9
  BY <1>9, SMT
<1>10. CASE k = 10
  BY <1>10, SMT
<1>11. CASE k = 11
  BY <1>11, SMT
<1>12. CASE k = 12
  BY <1>12, SMT
<1>13. CASE k = 13
  BY <1>13, SMT
<1>14. CASE k = 14
  BY <1>14, SMT
<1>15. CASE k = 15
  BY <1>15, SMT
<1>16. CASE k = 16
  BY <1>16, SMT
<1>17. CASE k = 17
  BY <1>17, SMT
<1>18. CASE k = 18
  BY <1>18, SMT
<1>19. CASE k = 19
  BY <1>19, SMT
<1>20. CASE k = 20
  BY <1>20, SMT
<1>21. CASE k = 21
  BY <1>21, SMT
<1>22. CASE k = 22
  BY <1>22, SMT
<1>23. CASE k = 23
  BY <1>23, SMT
<1>24. CASE k = 24
  BY <1>24, SMT
<1>25. CASE k = 25
  BY <1>25, SMT
<1>26. CASE k = 26
  BY <1>26, SMT
<1>27. CASE k = 27
  BY <1>27, SMT
<1>28. CASE k = 28
  BY <1>28, SMT
<1>29. CASE k = 29
  BY <1>29, SMT
<1> QED
  BY <1>0, <1>1, <1>2, <1>3, <1>4, <1>5, <1>6, <1>7, <1>8, <1>9,
     <1>10, <1>11, <1>12, <1>13, <1>14, <1>15, <1>16, <1>17, <1>18, <1>19,
     <1>20, <1>21, <1>22, <1>23, <1>24, <1>25, <1>26, <1>27, <1>28, <1>29

LEMMA PowerPositive ==
  ASSUME NEW k \in 0 .. 30
  PROVE  2^k \in Nat \ {0}
<1>1. CASE k = 30
  BY <1>1, SMT
<1>2. CASE k \in 0 .. 29
  BY <1>2, Doubles
<1> QED
  BY <1>1, <1>2

LEMMA Powers ==
  2^0 = 1 /\ 2^6 = 64 /\ 2^23 = 8388608 /\ 2^24 = 16777216 /\ 2^30 = 1073741824
BY SMT

\* A power of two divides every larger one.
LEMMA PowerDivides ==
  ASSUME NEW k \in 0 .. 30, NEW j \in 0 .. k
  PROVE  \E m \in Nat \ {0} : 2^k = m * 2^j
<1> DEFINE T == {d \in 0 .. k : d <= k - j => \E m \in Nat \ {0} : 2^(j + d) = m * 2^j}
           l == k - j
<1>1. 0 \in T
  <2>1. j \in 0 .. 30 /\ 2^j \in Nat \ {0}
    <3>1. j \in 0 .. 30
      OBVIOUS
    <3> QED
      BY <3>1, PowerPositive
  <2>2. j + 0 = j /\ 2^j = 1 * 2^j
    BY <2>1
  <2> QED
    BY <2>2
<1>2. ASSUME NEW d \in 0 .. l - 1, d \in T
      PROVE  d + 1 \in T
  <2>1. PICK m \in Nat \ {0} : 2^(j + d) = m * 2^j
    BY <1>2
  <2>2. j + d \in 0 .. 29 /\ j + (d + 1) = (j + d) + 1 /\ d + 1 \in 0 .. k
    OBVIOUS
  <2>3. 2^(j + (d + 1)) = 2 * 2^(j + d)
    BY <2>2, Doubles
  <2>4. 2^j \in Nat
    <3>1. j \in 0 .. 30
      OBVIOUS
    <3> QED
      BY <3>1, PowerPositive
  <2>5. 2^(j + (d + 1)) = (2 * m) * 2^j
    <3>1. ASSUME NEW x, NEW y, NEW z \in Nat, x = 2 * y, y = m * z PROVE x = (2 * m) * z
      BY <3>1
    <3> QED
      BY <2>1, <2>3, <2>4, <3>1
  <2>6. 2 * m \in Nat \ {0}
    OBVIOUS
  <2> QED
    BY <2>2, <2>5, <2>6
<1>3. l \in Nat /\ l \in 0 .. k /\ j + l = k
  OBVIOUS
<1>4. l \in T
  <2> HIDE DEF T, l
  <2> QED
    BY <1>1, <1>2, <1>3, Climb
<1> QED
  BY <1>3, <1>4

------------------------------------------------------------------------------
(* The width of a group *)

\* A number of pixels that a float holds has a width for every number of groups
\* up to 64 that is not larger: its digits fill a float, and it is as near to
\* the quotient as the last of them allows.
LEMMA WidthOf ==
  ASSUME NEW n \in Nat \ {0}, n < 2^24, NEW g \in 1 .. 64, g <= n
  PROVE  /\ WidthShift(n, g) \in 0 .. 23
         /\ Width(n, g) \in Nat
         /\ 2^23 * g <= n * 2^WidthShift(n, g)
         /\ n * 2^WidthShift(n, g) < 2^24 * g
         /\ 2 * (Width(n, g) * g) <= 2 * (n * 2^WidthShift(n, g)) + g
         /\ 2 * (n * 2^WidthShift(n, g)) <= 2 * (Width(n, g) * g) + g
         /\ \A m \in Nat : n * 2^WidthShift(n, g) <= m * g => Width(n, g) <= m
<1> DEFINE S == {k \in 0 .. 23 : 2^23 * g <= n * 2^k}
<1>1. ASSUME NEW k \in 0 .. 23
      PROVE  /\ 2^k \in Nat \ {0} /\ n * 2^k \in Nat
             /\ (n * 2^k) \div g \in 2^23 .. 2^24 - 1 <=>
                  2^23 * g <= n * 2^k /\ n * 2^k < 2^24 * g
  <2>1. k \in 0 .. 30
    OBVIOUS
  <2>2. 2^k \in Nat \ {0}
    BY <2>1, PowerPositive
  <2> DEFINE p == n * 2^k
  <2>3. p \in Nat
    BY <2>2
  <2> HIDE DEF p
  <2>4. 2^23 \in Nat /\ 2^24 \in Nat
    BY Powers
  <2>5. /\ p \div g \in Nat
        /\ 2^23 * g <= p <=> 2^23 <= p \div g
        /\ p < 2^24 * g <=> p \div g < 2^24
    BY <2>3, <2>4, Quotient
  <2>6. p \div g \in 2^23 .. 2^24 - 1 <=> 2^23 * g <= p /\ p < 2^24 * g
    BY <2>4, <2>5
  <2> QED
    BY <2>2, <2>3, <2>6 DEF p
<1>2. \E k \in 0 .. 23 : (n * 2^k) \div g \in 2^23 .. 2^24 - 1
  <2>1. 23 \in S
    <3>1. g * 2^23 <= n * 2^23 /\ g * 2^23 = 2^23 * g
      BY Powers, TimesMonotonic
    <3> QED
      BY <3>1
  <2>2. PICK k \in S : \A j \in S : k <= j
    <3>1. S \in SUBSET Nat
      OBVIOUS
    <3> HIDE DEF S
    <3> QED
      BY <2>1, <3>1, LeastOne
  <2>3. k \in 0 .. 23 /\ 2^23 * g <= n * 2^k
    OBVIOUS
  <2>4. n * 2^k < 2^24 * g
    <3>1. CASE k = 0
      <4>1. 2^k = 1
        BY <3>1, Powers
      <4>2. n * 2^k = n
        BY <4>1
      <4> QED
        BY <4>2, Powers
    <3>2. CASE k # 0
      <4>1. k - 1 \in 0 .. 23 /\ k - 1 \in 0 .. 29 /\ k - 1 \notin S /\ (k - 1) + 1 = k
        BY <2>2, <2>3, <3>2
      <4>2. 2^k = 2 * 2^(k - 1) /\ 2^(k - 1) \in Nat
        BY <4>1, Doubles
      <4>3. ~(2^23 * g <= n * 2^(k - 1))
        BY <4>1
      <4>4. n * 2^k = 2 * (n * 2^(k - 1)) /\ n * 2^(k - 1) \in Nat
        <5>1. ASSUME NEW x, NEW y \in Nat, x = 2 * y PROVE n * x = 2 * (n * y) /\ n * y \in Nat
          BY <5>1
        <5> QED
          BY <4>2, <5>1
      <4> HIDE DEF S
      <4> QED
        BY <4>3, <4>4, Powers
    <3> QED
      BY <3>1, <3>2
  <2> HIDE DEF S
  <2> QED
    BY <1>1, <2>3, <2>4
<1> DEFINE k == WidthShift(n, g)
<1>3. k \in 0 .. 23 /\ (n * 2^k) \div g \in 2^23 .. 2^24 - 1
  BY <1>2, Zenon DEF WidthShift
<1> HIDE DEF k, S
<1>4. n * 2^k \in Nat /\ 2^23 * g <= n * 2^k /\ n * 2^k < 2^24 * g
  BY <1>1, <1>3
<1>5. Width(n, g) = RoundEven(n * 2^k, g)
  BY DEF Width, k
<1> DEFINE a == n * 2^k
           w == RoundEven(a, g)
<1>6. a \in Nat /\ g \in Nat \ {0}
  BY <1>4
<1> HIDE DEF a
<1>7. /\ w \in Nat
      /\ 2 * (w * g) <= 2 * a + g
      /\ 2 * a <= 2 * (w * g) + g
      /\ \A m \in Nat : a <= m * g => w <= m
  BY <1>6, Rounded
<1> HIDE DEF w
<1>8. Width(n, g) = w
  BY <1>5 DEF w, a
<1> QED
  BY <1>3, <1>4, <1>7, <1>8 DEF k, a

------------------------------------------------------------------------------
(* Rounding to a float *)

\* A number of up to 30 digits has a number of digits too many.
LEMMA SpareOf ==
  ASSUME NEW p \in Nat, p < 2^30
  PROVE  /\ Spare(p) \in 0 .. 6
         /\ p < 2^24 * 2^Spare(p)
         /\ Spare(p) # 0 => 2^24 * 2^(Spare(p) - 1) <= p
<1> DEFINE S == {s \in 0 .. 6 : p < 2^24 * 2^s}
<1>1. ASSUME NEW s \in 0 .. 6
      PROVE  /\ p \div 2^s < 2^24 <=> p < 2^24 * 2^s
             /\ p \div 2^s >= 2^24 <=> 2^24 * 2^s <= p
             /\ 2^24 * 2^s \in Nat
  <2>1. s \in 0 .. 30
    OBVIOUS
  <2> HIDE DEF S
  <2>2. 2^s \in Nat \ {0} /\ 2^24 \in Nat
    <3>1. 2^s \in Nat \ {0}
      BY <2>1, PowerPositive
    <3> QED
      BY <3>1, Powers
  <2> DEFINE c == 2^s
             q == 2^24
  <2>3. c \in Nat \ {0} /\ q \in Nat
    BY <2>2
  <2> HIDE DEF c, q
  <2>4. /\ p \div c \in Nat
        /\ q * c <= p <=> q <= p \div c
        /\ p < q * c <=> p \div c < q
    BY <2>3, Quotient
  <2>5. /\ p \div c < q <=> p < q * c
        /\ p \div c >= q <=> q * c <= p
        /\ q * c \in Nat
    BY <2>3, <2>4
  <2> QED
    BY <2>5 DEF c, q
<1>2. \E s \in 0 .. 6 : p \div 2^s < 2^24 /\ (s = 0 \/ p \div 2^(s - 1) >= 2^24)
  <2>1. 6 \in S
    <3>1. 2^24 * 2^6 = 2^30
      BY Powers, SMT
    <3> QED
      BY <3>1
  <2>2. PICK s \in S : \A j \in S : s <= j
    <3>1. S \in SUBSET Nat
      OBVIOUS
    <3> HIDE DEF S
    <3> QED
      BY <2>1, <3>1, LeastOne
  <2>3. s \in 0 .. 6 /\ p < 2^24 * 2^s
    OBVIOUS
  <2>4. s # 0 => 2^24 * 2^(s - 1) <= p
    <3>1. SUFFICES ASSUME s # 0 PROVE 2^24 * 2^(s - 1) <= p
      OBVIOUS
    <3>2. s - 1 \in 0 .. 6 /\ s - 1 \notin S
      BY <2>2, <2>3, <3>1
    <3>3. ~(p < 2^24 * 2^(s - 1)) /\ 2^24 * 2^(s - 1) \in Nat
      BY <1>1, <3>2
    <3> QED
      BY <3>3
  <2> HIDE DEF S
  <2>5. s # 0 => s - 1 \in 0 .. 6
    BY <2>3
  <2>6. p \div 2^s < 2^24
    BY <1>1, <2>3
  <2>7. s # 0 => p \div 2^(s - 1) >= 2^24
    BY <1>1, <2>4, <2>5
  <2> QED
    BY <2>3, <2>6, <2>7
<1> HIDE DEF S
<1> DEFINE s == Spare(p)
<1>3. s \in 0 .. 6 /\ p \div 2^s < 2^24 /\ (s = 0 \/ p \div 2^(s - 1) >= 2^24)
  BY <1>2, Zenon DEF Spare
<1> HIDE DEF s
<1>4. s # 0 => s - 1 \in 0 .. 6
  BY <1>3
<1>5. p < 2^24 * 2^s
  BY <1>1, <1>3
<1>6. s # 0 => 2^24 * 2^(s - 1) <= p
  BY <1>1, <1>3, <1>4
<1> QED
  BY <1>3, <1>5, <1>6 DEF s

\* Powers of two are ordered like their exponents.
LEMMA PowerMonotonic ==
  ASSUME NEW k \in 0 .. 30, NEW j \in 0 .. k
  PROVE  2^j <= 2^k /\ 2^j \in Nat \ {0} /\ 2^k \in Nat \ {0}
<1>1. j \in 0 .. 30
  OBVIOUS
<1>2. 2^j \in Nat \ {0} /\ 2^k \in Nat \ {0}
  BY <1>1, PowerPositive
<1>3. PICK m \in Nat \ {0} : 2^k = m * 2^j
  BY PowerDivides
<1>4. 1 * 2^j <= m * 2^j
  BY <1>2, <1>3, TimesMonotonic
<1> QED
  BY <1>2, <1>3, <1>4

\* A number below a power of two times 2^24 has no more digits too many.
LEMMA SpareBelow ==
  ASSUME NEW p \in Nat, p < 2^30, NEW k \in 0 .. 24, p < 2^24 * 2^k
  PROVE  Spare(p) <= k
<1> DEFINE s == Spare(p)
<1>1. s \in 0 .. 6 /\ (s # 0 => 2^24 * 2^(s - 1) <= p)
  BY SpareOf
<1> HIDE DEF s
<1>2. ASSUME ~(s <= k)
      PROVE  FALSE
  <2>1. k \in 0 .. s - 1 /\ s - 1 \in 0 .. 30 /\ s # 0
    BY <1>1, <1>2
  <2>2. 2^k <= 2^(s - 1) /\ 2^k \in Nat /\ 2^(s - 1) \in Nat
    BY <2>1, PowerMonotonic
  <2>3. 2^k * 2^24 <= 2^(s - 1) * 2^24 /\ 2^24 \in Nat
    BY <2>2, Powers, TimesMonotonic
  <2>4. ASSUME NEW x \in Nat, NEW y \in Nat, NEW z \in Nat, x * z <= y * z, z * y <= p
        PROVE  ~(p < z * x)
    <3>1. x * z = z * x /\ y * z = z * y /\ x * z \in Nat /\ y * z \in Nat
      OBVIOUS
    <3> QED
      BY <2>4, <3>1
  <2> QED
    BY <1>1, <2>1, <2>2, <2>3, <2>4
<1> QED
  BY <1>1, <1>2 DEF s

\* A product is rounded to a float by less than the distance of two of them, and
\* never past a multiple of a power of two that is at least this distance.
LEMMA FloatOf ==
  ASSUME NEW p \in Nat, p < 2^30
  PROVE  /\ ToFloat(p) \in Nat /\ 2^Spare(p) \in Nat \ {0}
         /\ 2 * ToFloat(p) <= 2 * p + 2^Spare(p)
         /\ 2 * p <= 2 * ToFloat(p) + 2^Spare(p)
         /\ \A k \in Spare(p) .. 30, m \in Nat :
              /\ m * 2^k <= p => m * 2^k <= ToFloat(p)
              /\ p <= m * 2^k => ToFloat(p) <= m * 2^k
              /\ ToFloat(p) < m * 2^k => ToFloat(p) + 2^Spare(p) <= m * 2^k
<1> DEFINE s == Spare(p)
           b == 2^s
           w == RoundEven(p, b)
           r == ToFloat(p)
<1>1. s \in 0 .. 6 /\ s \in 0 .. 30
  BY SpareOf
<1>2. r = w * b
  BY DEF ToFloat
<1>3. b \in Nat \ {0}
  <2> HIDE DEF s
  <2> QED
    BY <1>1, PowerPositive
<1> HIDE DEF b
<1>4. /\ w \in Nat
      /\ 2 * (w * b) <= 2 * p + b /\ 2 * p <= 2 * (w * b) + b
      /\ \A m \in Nat : m * b <= p => m <= w
      /\ \A m \in Nat : p <= m * b => w <= m
  BY <1>3, Rounded
<1> HIDE DEF w, r, s
<1>5. r \in Nat /\ 2 * r <= 2 * p + b /\ 2 * p <= 2 * r + b
  BY <1>2, <1>3, <1>4
<1>6. ASSUME NEW k \in s .. 30, NEW m \in Nat
      PROVE  /\ m * 2^k <= p => m * 2^k <= r
             /\ p <= m * 2^k => r <= m * 2^k
             /\ r < m * 2^k => r + b <= m * 2^k
  <2>1. k \in 0 .. 30 /\ s \in 0 .. k
    BY <1>1
  <2>2. PICK c \in Nat \ {0} : 2^k = c * 2^s
    BY <2>1, PowerDivides
  <2>3. m * 2^k = (m * c) * b
    <3>1. ASSUME NEW x, x = c * b PROVE m * x = (m * c) * b
      BY <1>3, <3>1
    <3> QED
      BY <2>2, <3>1 DEF b
  <2> DEFINE n == m * c
  <2>4. n \in Nat
    BY <2>2
  <2> HIDE DEF n
  <2>5. n * b <= p => n * b <= w * b
    BY <1>3, <1>4, <2>4, TimesMonotonic
  <2>6. p <= n * b => w * b <= n * b
    BY <1>3, <1>4, <2>4, TimesMonotonic
  <2>7. w * b < n * b => w * b + b <= n * b
    <3>1. n <= w => n * b <= w * b
      BY <1>3, <1>4, <2>4, TimesMonotonic
    <3>2. w + 1 <= n => (w + 1) * b <= n * b
      BY <1>3, <1>4, <2>4, TimesMonotonic
    <3>3. (w + 1) * b = w * b + b /\ w * b \in Nat /\ n * b \in Nat
      BY <1>3, <1>4, <2>4
    <3> QED
      BY <1>3, <1>4, <2>4, <3>1, <3>2, <3>3
  <2>8. m * 2^k = n * b
    BY <2>3 DEF n
  <2> QED
    BY <1>2, <2>5, <2>6, <2>7, <2>8
<1> QED
  BY <1>3, <1>5, <1>6 DEF r, s, b

\* Rounding keeps the order of two numbers.
LEMMA FloatMonotonic ==
  ASSUME NEW p \in Nat, NEW q \in Nat, p <= q, q < 2^30
  PROVE  ToFloat(p) <= ToFloat(q)
<1> DEFINE s == Spare(p)
           t == Spare(q)
<1>1. p < 2^30
  BY Powers
<1>2. s \in 0 .. 6 /\ p < 2^24 * 2^s /\ (s # 0 => 2^24 * 2^(s - 1) <= p)
  BY <1>1, SpareOf
<1>3. t \in 0 .. 6 /\ q < 2^24 * 2^t /\ (t # 0 => 2^24 * 2^(t - 1) <= q)
  BY SpareOf
<1>4. s <= t
  <2> HIDE DEF t
  <2>1. t \in 0 .. 24
    BY <1>3
  <2>2. p < 2^24 * 2^t
    <3>1. t \in 0 .. 30
      BY <1>3
    <3>2. 2^t \in Nat
      BY <3>1, PowerPositive
    <3>3. 2^24 * 2^t \in Nat
      BY <3>2, Powers
    <3> QED
      BY <1>3, <3>3
  <2> QED
    BY <1>1, <2>1, <2>2, SpareBelow
<1>5. CASE s = t
  <2>1. 2^s \in Nat \ {0}
    BY <1>1, FloatOf
  <2>2. RoundEven(p, 2^s) <= RoundEven(q, 2^s)
    BY <2>1, RoundedMonotonic
  <2>3. RoundEven(p, 2^s) \in Nat /\ RoundEven(q, 2^s) \in Nat
    BY <2>1, Rounded
  <2>4. RoundEven(p, 2^s) * 2^s <= RoundEven(q, 2^s) * 2^s
    BY <2>1, <2>2, <2>3, TimesMonotonic
  <2> QED
    BY <1>5, <2>4 DEF ToFloat
<1>6. CASE s < t
  \* The smaller number is below the power of two that the larger one has reached.
  <2> HIDE DEF s, t
  <2>1. t - 1 \in 0 .. 30 /\ s \in 0 .. t - 1 /\ t # 0
    BY <1>2, <1>3, <1>6
  <2>2. 2^s <= 2^(t - 1) /\ 2^s \in Nat /\ 2^(t - 1) \in Nat
    BY <2>1, PowerMonotonic
  <2>3. 2^24 \in Nat
    BY Powers
  <2> DEFINE top == 2^24 * 2^(t - 1)
  <2>4. 2^s * 2^24 <= 2^(t - 1) * 2^24
    BY <2>2, <2>3, TimesMonotonic
  <2>5. 2^24 * 2^s = 2^s * 2^24 /\ top = 2^(t - 1) * 2^24 /\ top \in Nat /\ 2^24 * 2^s \in Nat
    <3>1. ASSUME NEW x \in Nat, NEW y \in Nat PROVE x * y = y * x /\ x * y \in Nat
      OBVIOUS
    <3> QED
      BY <2>2, <2>3, <3>1
  <2>6. p <= top /\ top <= q
    <3> HIDE DEF top
    <3>1. p < 2^24 * 2^s /\ top <= q
      BY <1>2, <1>3, <2>1 DEF top
    <3> QED
      BY <2>4, <2>5, <3>1
  <2>7. ToFloat(p) <= 2^24 * 2^(t - 1)
    <3>1. t - 1 \in Spare(p) .. 30
      BY <2>1 DEF s
    <3> QED
      BY <1>1, <2>3, <2>6, <3>1, FloatOf
  <2>8. 2^24 * 2^(t - 1) <= ToFloat(q)
    \* The distance of floats above is the next power of two, which divides it.
    <3>1. 2^24 * 2^(t - 1) = 2^23 * 2^t
      <4>1. t - 1 \in 0 .. 29 /\ (t - 1) + 1 = t
        BY <1>3, <2>1
      <4>2. 2^t = 2 * 2^(t - 1) /\ 2^(t - 1) \in Nat
        BY <4>1, Doubles
      <4>3. 2^24 = 2 * 2^23 /\ 2^23 \in Nat
        BY Powers
      <4>4. ASSUME NEW x \in Nat, NEW y \in Nat PROVE (2 * x) * y = x * (2 * y)
        OBVIOUS
      <4> QED
        BY <4>2, <4>3, <4>4
    <3>2. t \in Spare(q) .. 30
      BY <1>3 DEF t
    <3>3. 2^23 \in Nat /\ 2^23 * 2^t <= q
      BY <2>6, <3>1, Powers
    <3> QED
      BY <3>1, <3>2, <3>3, FloatOf
  <2>9. ToFloat(p) \in Nat /\ ToFloat(q) \in Nat
    BY <1>1, FloatOf
  <2> QED
    BY <2>5, <2>7, <2>8, <2>9
<1> QED
  BY <1>2, <1>3, <1>4, <1>5, <1>6

------------------------------------------------------------------------------
(* The bounds of the groups *)

\* The width w of g groups of n pixels, scaled by d = 2^k, and the products that the
\* bounds are made of: they have no more than 30 digits, and no more too many than
\* the width has behind the point; so each whole number is a float there.  Below
\* 2^23 pixels there is a digit behind the point even then.
FloatWidth(n, g, k, d, w) ==
  /\ k \in 0 .. 23 /\ d = 2^k /\ d \in Nat \ {0} /\ w \in Nat
  /\ n * d \in Nat /\ w * g \in Nat /\ g < 2 * d
  /\ 2 * (w * g) <= 2 * (n * d) + g /\ 2 * (n * d) <= 2 * (w * g) + g
  /\ \A i \in 0 .. g :
       i * w \in Nat /\ i * w <= w * g /\ i * w < 2^30 /\ Spare(i * w) \in 0 .. k
  /\ n < 2^23 => g < d /\ k # 0 /\ Spare(g * w) <= k - 1

LEMMA Products ==
  ASSUME NEW n \in Nat \ {0}, n < 2^24, NEW g \in 1 .. 64, g <= n,
         NEW k, k = WidthShift(n, g), NEW d, d = 2^k, NEW w, w = Width(n, g)
  PROVE  FloatWidth(n, g, k, d, w)
<1>1. /\ k \in 0 .. 23 /\ w \in Nat
      /\ 2^23 * g <= n * d /\ n * d < 2^24 * g
      /\ 2 * (w * g) <= 2 * (n * d) + g /\ 2 * (n * d) <= 2 * (w * g) + g
      /\ \A m \in Nat : n * d <= m * g => w <= m
  BY WidthOf
<1>2. d \in Nat \ {0}
  <2>1. k \in 0 .. 30
    BY <1>1
  <2> QED
    BY <2>1, PowerPositive
<1>3. n * d \in Nat /\ w * g \in Nat /\ g \in Nat
  BY <1>1, <1>2
<1>4. 8388608 * g <= n * d /\ n * d < 16777216 * g
  BY <1>1, Powers
<1>5. n <= 16777215 /\ (n < 2^23 => n <= 8388607)
  BY Powers
<1>6. g < 2 * d
  <2>1. n * d <= 16777215 * d
    BY <1>2, <1>5, TimesMonotonic
  <2> QED
    BY <1>2, <1>3, <1>4, <2>1
<1>7. n < 2^23 => g < d
  <2>1. n < 2^23 => n * d <= 8388607 * d
    BY <1>2, <1>5, TimesMonotonic
  <2> QED
    BY <1>2, <1>3, <1>4, <2>1
<1>8. w * g < 1073741824
  <2>1. CASE g <= 63
    BY <1>1, <1>3, <1>4, <2>1
  <2>2. CASE g = 64
    \* Sixty-four is a power of two: the width is exact.
    <3>1. ~(k < 6)
      <4>1. ASSUME k < 6 PROVE FALSE
        <5>1. k \in 0 .. 29 /\ k + 1 \in 0 .. 6 /\ 6 \in 0 .. 30
          BY <1>1, <4>1
        <5>2. 2^(k + 1) = 2 * d
          BY <5>1, Doubles
        <5>3. 2^(k + 1) <= 2^6
          BY <5>1, PowerMonotonic
        <5>4. d <= 32
          BY <1>2, <5>2, <5>3, Powers
        <5>5. d * n <= 32 * n /\ d * n = n * d
          BY <1>2, <5>4, TimesMonotonic
        <5> QED
          BY <1>3, <1>4, <1>5, <2>2, <5>5
      <4> QED
        BY <4>1
    <3>2. PICK m \in Nat \ {0} : 2^k = m * 2^6
      <4>1. k \in 0 .. 30 /\ 6 \in 0 .. k
        BY <1>1, <3>1
      <4> QED
        BY <4>1, PowerDivides
    <3>3. n * d = (n * m) * 64 /\ n * m \in Nat
      <4>1. d = m * 64
        BY <3>2, Powers
      <4> QED
        BY <4>1
    <3> DEFINE x == n * m
    <3>4. x \in Nat /\ n * d = x * 64
      BY <3>3
    <3> HIDE DEF x
    <3>5. w <= x
      BY <1>1, <2>2, <3>4
    <3> QED
      BY <1>1, <1>3, <1>4, <2>2, <3>4, <3>5
  <2> QED
    BY <2>1, <2>2
<1>9. ASSUME NEW i \in 0 .. g
      PROVE  i * w \in Nat /\ i * w <= w * g /\ i * w < 1073741824
  <2>1. i * w <= g * w /\ i * w \in Nat /\ g * w = w * g
    BY <1>1, TimesMonotonic
  <2> QED
    BY <1>3, <1>8, <2>1
<1>10. w * g < 16777216 * d
  <2>1. n * d <= 16777215 * d
    BY <1>2, <1>5, TimesMonotonic
  <2> QED
    BY <1>1, <1>2, <1>3, <1>6, <2>1
<1>11. ASSUME NEW i \in 0 .. g
       PROVE  Spare(i * w) \in 0 .. k
  <2>1. i * w \in Nat /\ i * w < 2^30
    BY <1>9, Powers
  <2>2. i * w < 2^24 * 2^k
    <3>1. i * w < 16777216 * d
      BY <1>2, <1>3, <1>9, <1>10
    <3> QED
      BY <3>1, Powers
  <2>3. k \in 0 .. 24
    BY <1>1
  <2> DEFINE p == i * w
  <2> HIDE DEF p
  <2>4. p \in Nat /\ p < 2^30 /\ p < 2^24 * 2^k
    BY <2>1, <2>2 DEF p
  <2>5. Spare(p) \in 0 .. 6 /\ Spare(p) <= k
    BY <2>3, <2>4, SpareOf, SpareBelow
  <2> QED
    BY <1>1, <2>5 DEF p
<1>12. ASSUME n < 2^23
       PROVE  k # 0 /\ Spare(g * w) <= k - 1
  <2>1. k # 0
    <3>1. SUFFICES ASSUME k = 0 PROVE FALSE
      OBVIOUS
    <3>2. d = 1
      BY <3>1, Powers
    <3>3. g < d /\ g >= 1
      BY <1>7, <1>12
    <3> QED
      BY <3>2, <3>3
  <2>2. k - 1 \in 0 .. 29 /\ k - 1 \in 0 .. 24 /\ (k - 1) + 1 = k
    BY <1>1, <2>1
  <2>3. d = 2 * 2^(k - 1) /\ 2^(k - 1) \in Nat
    BY <2>2, Doubles
  <2> DEFINE h == 2^(k - 1)
  <2>4. n * d <= 8388607 * d
    BY <1>2, <1>5, <1>12, TimesMonotonic
  <2>5. w * g < 16777216 * h
    <3>1. h \in Nat /\ d = 2 * h
      BY <2>3
    <3> HIDE DEF h
    <3> QED
      BY <1>1, <1>2, <1>3, <1>7, <1>12, <2>4, <3>1
  <2> DEFINE p == g * w
  <2>6. p = w * g
    BY <1>1
  <2> HIDE DEF p
  <2>7. p \in Nat /\ p < 2^30
    BY <1>3, <1>8, <2>6, Powers
  <2>8. p < 2^24 * 2^(k - 1)
    BY <2>5, <2>6, Powers
  <2>9. Spare(p) <= k - 1
    BY <2>2, <2>7, <2>8, SpareBelow
  <2> QED
    BY <2>1, <2>9 DEF p
<1>13. \A i \in 0 .. g :
          i * w \in Nat /\ i * w <= w * g /\ i * w < 2^30 /\ Spare(i * w) \in 0 .. k
  <2> SUFFICES ASSUME NEW i \in 0 .. g
               PROVE  i * w \in Nat /\ i * w <= w * g /\ i * w < 2^30 /\ Spare(i * w) \in 0 .. k
    OBVIOUS
  <2>1. i * w \in Nat /\ i * w <= w * g /\ i * w < 1073741824
    BY <1>9
  <2>2. Spare(i * w) \in 0 .. k
    BY <1>11
  <2> QED
    BY <2>1, <2>2, Powers
<1>14. n < 2^23 => (g < d /\ k # 0 /\ Spare(g * w) <= k - 1)
  BY <1>7, <1>12
<1> QED
  BY <1>1, <1>2, <1>3, <1>6, <1>13, <1>14 DEF FloatWidth

\* The bounds of every partition are made of such products.
LEMMA BoundsOf ==
  ASSUME NEW n \in Nat \ {0}, n < 2^24, NEW g \in 1 .. 64, g <= n
  PROVE  \E k, d, w : /\ FloatWidth(n, g, k, d, w)
                      /\ \A i \in 0 .. g : Bound(i, n, g) = ToFloat(i * w) \div d
<1>1. PICK k, d, w : k = WidthShift(n, g) /\ d = 2^k /\ w = Width(n, g)
  OBVIOUS
<1>2. FloatWidth(n, g, k, d, w)
  BY <1>1, Products
<1>3. \A i \in 0 .. g : Bound(i, n, g) = ToFloat(i * w) \div d
  BY <1>1 DEF Bound
<1> QED
  BY <1>2, <1>3

\* The width is not rounded up to the next whole number, nor to the next half.
LEMMA WidthBelow ==
  ASSUME NEW n \in Nat, NEW g \in Nat \ {0}, NEW d \in Nat \ {0}, NEW w \in Nat,
         NEW f \in Nat, NEW r \in 0 .. g - 1, n = f * g + r,
         g < 2 * d, 2 * (w * g) <= 2 * (n * d) + g
  PROVE  /\ w < (f + 1) * d
         /\ 2 * r < g => 2 * w <= (2 * f + 1) * d
<1> DEFINE x == f * d
<1>1. n * d = x * g + r * d
  <2>1. (f * g + r) * d = (f * d) * g + r * d
    OBVIOUS
  <2> QED
    BY <2>1
<1>2. (f + 1) * d = x + d /\ (2 * f + 1) * d = 2 * x + d /\ x \in Nat
  OBVIOUS
<1> HIDE DEF x
<1>3. x * g \in Nat /\ w * g \in Nat /\ r * d \in Nat /\ d * g \in Nat
  BY <1>2
<1>4. w < x + d
  <2>1. r * d <= d * g - d
    <3>1. r * d <= (g - 1) * d /\ (g - 1) * d = d * g - d
      BY TimesMonotonic
    <3> QED
      BY <3>1
  <2>2. x + d <= w => (x + d) * g <= w * g
    BY <1>2, TimesMonotonic
  <2>3. (x + d) * g = x * g + d * g
    BY <1>2
  <2> DEFINE xg == x * g
             wg == w * g
             rd == r * d
             dg == d * g
  <2>4. /\ xg \in Nat /\ wg \in Nat /\ rd \in Nat /\ dg \in Nat
        /\ 2 * wg <= 2 * (xg + rd) + g /\ rd <= dg - d
        /\ x + d <= w => xg + dg <= wg
    BY <1>1, <1>3, <2>1, <2>2, <2>3
  <2> HIDE DEF xg, wg, rd, dg
  <2> QED
    BY <1>2, <2>4
<1>5. ASSUME 2 * r < g
      PROVE  2 * w <= 2 * x + d
  <2>1. (2 * r + 1) * d <= g * d
    BY <1>5, TimesMonotonic
  <2>2. (2 * r + 1) * d = 2 * (r * d) + d /\ g * d = d * g
    OBVIOUS
  <2>3. 2 * x + d + 1 <= 2 * w => (2 * x + d + 1) * g <= (2 * w) * g
    BY <1>2, TimesMonotonic
  <2>4. (2 * x + d + 1) * g = 2 * (x * g) + d * g + g /\ (2 * w) * g = 2 * (w * g)
    BY <1>2
  <2> DEFINE xg == x * g
             wg == w * g
             rd == r * d
             dg == d * g
  <2>5. /\ xg \in Nat /\ wg \in Nat /\ rd \in Nat /\ dg \in Nat
        /\ 2 * wg <= 2 * (xg + rd) + g /\ 2 * rd + d <= dg
        /\ 2 * x + d + 1 <= 2 * w => 2 * xg + dg + g <= 2 * wg
    BY <1>1, <1>3, <2>1, <2>2, <2>3, <2>4
  <2> HIDE DEF xg, wg, rd, dg
  <2> QED
    BY <1>2, <2>5
<1> QED
  BY <1>2, <1>4, <1>5

\* The width of a group that has many pixels, or is the only one.
LEMMA WidthAbove ==
  ASSUME NEW n \in Nat \ {0}, NEW g \in Nat \ {0}, NEW d \in Nat \ {0}, NEW w \in Nat,
         2 * (n * d) <= 2 * (w * g) + g
  PROVE  /\ 4 * g <= n => 2 * d <= w
         /\ g = 1 => d <= w
<1>1. ASSUME NEW m \in Nat, m * g <= n
      PROVE  2 * (m * d) <= 2 * w + 1
  <2>1. (m * g) * d <= n * d /\ (m * g) * d = (m * d) * g
    BY <1>1, TimesMonotonic
  <2> DEFINE x == m * d
  <2>2. 2 * w + 2 <= 2 * x => (2 * w + 2) * g <= (2 * x) * g
    BY TimesMonotonic
  <2>3. (2 * w + 2) * g = 2 * (w * g) + 2 * g /\ (2 * x) * g = 2 * (x * g)
    OBVIOUS
  <2>4. x \in Nat /\ x * g <= n * d /\ x * g \in Nat /\ n * d \in Nat /\ w * g \in Nat
    BY <2>1
  <2> HIDE DEF x
  <2>5. 2 * x <= 2 * w + 1
    BY <2>2, <2>3, <2>4
  <2> QED
    BY <2>5 DEF x
<1>2. 4 * g <= n => 2 * (4 * d) <= 2 * w + 1
  BY <1>1
<1>3. g = 1 => 2 * (1 * d) <= 2 * w + 1
  BY <1>1
<1> QED
  BY <1>2, <1>3

\* The bounds start with zero, keep their order, and end where the pixels do, but for
\* one pixel; that may be one too many only above 2^23 pixels.
LEMMA BoundsOrdered ==
  ASSUME NEW n \in Nat \ {0}, n < 2^24, NEW g \in 1 .. 64, g <= n
  PROVE  /\ \A i \in 0 .. g : Bound(i, n, g) \in Nat
         /\ Bound(0, n, g) = 0
         /\ \A i \in 0 .. g - 1 : Bound(i, n, g) <= Bound(i + 1, n, g)
         /\ n - 1 <= Bound(g, n, g) /\ Bound(g, n, g) <= n + 1
         /\ n < 2^23 => Bound(g, n, g) <= n
<1>0. PICK k, d, w : /\ FloatWidth(n, g, k, d, w)
                     /\ \A i \in 0 .. g : Bound(i, n, g) = ToFloat(i * w) \div d
  BY BoundsOf
<1>1. /\ k \in 0 .. 23 /\ d = 2^k /\ d \in Nat \ {0} /\ w \in Nat
      /\ n * d \in Nat /\ w * g \in Nat /\ g < 2 * d
      /\ 2 * (w * g) <= 2 * (n * d) + g /\ 2 * (n * d) <= 2 * (w * g) + g
      /\ \A i \in 0 .. g :
           i * w \in Nat /\ i * w <= w * g /\ i * w < 2^30 /\ Spare(i * w) \in 0 .. k
      /\ n < 2^23 => g < d /\ k # 0 /\ Spare(g * w) <= k - 1
  BY <1>0, Zenon DEF FloatWidth
<1>2. \A i \in 0 .. g : Bound(i, n, g) = ToFloat(i * w) \div d
  BY <1>0
<1>3. ASSUME NEW i \in 0 .. g
      PROVE  /\ ToFloat(i * w) \in Nat
             /\ \A q \in Nat : q * d <= ToFloat(i * w) <=> q <= Bound(i, n, g)
             /\ \A q \in Nat : ToFloat(i * w) < q * d <=> Bound(i, n, g) < q
             /\ Bound(i, n, g) \in Nat
  <2> DEFINE p == ToFloat(i * w)
  <2>1. p \in Nat
    BY <1>1, FloatOf
  <2>2. Bound(i, n, g) = p \div d
    BY <1>2
  <2> HIDE DEF p
  <2>3. \A q \in Nat : /\ p \div d \in Nat /\ (q * d <= p <=> q <= p \div d)
                       /\ (p < q * d <=> p \div d < q)
    BY <1>1, <2>1, Quotient
  <2> QED
    BY <2>1, <2>2, <2>3 DEF p
<1>4. Bound(0, n, g) = 0
  <2>1. 0 * w = 0 /\ 0 \in 0 .. g
    BY <1>1
  <2>2. 30 \in Spare(0) .. 30 /\ 0 < 2^30
    BY <1>1, <2>1
  <2>3. 0 <= 0 * 2^30
    BY Powers
  <2>4. ToFloat(0) <= 0 * 2^30 /\ ToFloat(0) \in Nat
    BY <2>2, <2>3, FloatOf
  <2>5. ToFloat(0) < 1 * d
    BY <1>1, <2>4, Powers
  <2> QED
    BY <1>3, <2>1, <2>5
<1>5. ASSUME NEW i \in 0 .. g - 1
      PROVE  Bound(i, n, g) <= Bound(i + 1, n, g)
  <2>1. i \in 0 .. g /\ i + 1 \in 0 .. g
    OBVIOUS
  <2>2. i * w <= (i + 1) * w
    BY <1>1, <2>1, TimesMonotonic
  <2>3. ToFloat(i * w) <= ToFloat((i + 1) * w)
    BY <1>1, <2>1, <2>2, FloatMonotonic
  <2> DEFINE b == Bound(i, n, g)
  <2>4. b \in Nat /\ b * d <= ToFloat(i * w)
    BY <1>3, <2>1
  <2>5. ToFloat(i * w) \in Nat /\ ToFloat((i + 1) * w) \in Nat
    BY <1>3, <2>1
  <2> HIDE DEF b
  <2>6. b * d <= ToFloat((i + 1) * w)
    <3>1. b * d \in Nat
      BY <1>1, <2>4
    <3> QED
      BY <2>3, <2>4, <2>5, <3>1
  <2>7. b <= Bound(i + 1, n, g)
    BY <1>3, <2>1, <2>4, <2>6
  <2> QED
    BY <2>7 DEF b
<1> DEFINE p == g * w
<1>6. /\ g \in 0 .. g /\ p = w * g /\ p \in Nat /\ p < 2^30
      /\ k \in Spare(p) .. 30 /\ d = 2^k
  <2>1. g \in 0 .. g /\ g * w = w * g
    BY <1>1
  <2>2. p \in Nat /\ p < 2^30 /\ Spare(p) \in 0 .. k
    BY <1>1, <2>1
  <2> QED
    BY <1>1, <2>1, <2>2
<1>7. /\ ToFloat(p) \in Nat
      /\ \A q \in Nat : q * d <= ToFloat(p) <=> q <= Bound(g, n, g)
      /\ \A q \in Nat : ToFloat(p) < q * d <=> Bound(g, n, g) < q
      /\ Bound(g, n, g) \in Nat
  BY <1>3, <1>6
<1> HIDE DEF p
<1>8. \A m \in Nat : /\ m * d <= p => m * d <= ToFloat(p)
                     /\ p <= m * d => ToFloat(p) <= m * d
  BY <1>6, FloatOf
<1>9. n - 1 <= Bound(g, n, g)
  <2>1. n - 1 \in Nat /\ (n - 1) * d = n * d - d
    BY <1>1
  <2>2. (n - 1) * d <= p
    BY <1>1, <1>6, <2>1
  <2> QED
    BY <1>7, <1>8, <2>1, <2>2
<1>10. Bound(g, n, g) <= n + 1
  <2>1. (n + 1) * d = n * d + d /\ (n + 2) * d = n * d + 2 * d
    BY <1>1
  <2>2. p <= (n + 1) * d
    BY <1>1, <1>6, <2>1
  <2>3. ToFloat(p) <= (n + 1) * d
    BY <1>8, <2>2
  <2>4. ToFloat(p) < (n + 2) * d
    BY <1>1, <1>7, <2>1, <2>3
  <2>5. Bound(g, n, g) < n + 2
    BY <1>7, <2>4
  <2> QED
    BY <1>7, <2>5
<1>11. ASSUME n < 2^23
       PROVE  Bound(g, n, g) <= n
  \* There is a digit behind the point, and the product is nearer than a half.
  <2>1. g < d /\ k # 0 /\ Spare(p) <= k - 1 /\ Spare(p) \in 0 .. 6
    BY <1>1, <1>6, <1>11, SpareOf DEF p
  <2>2. k - 1 \in Spare(p) .. 30 /\ k - 1 \in 0 .. 29 /\ (k - 1) + 1 = k
    BY <1>1, <2>1
  <2> DEFINE h == 2^(k - 1)
  <2>3. d = 2 * h /\ h \in Nat \ {0}
    BY <1>6, <2>2, Doubles
  <2>4. \A m \in Nat : p <= m * h => ToFloat(p) <= m * h
    BY <1>6, <2>2, FloatOf
  <2> HIDE DEF h
  <2>5. (2 * n + 1) * h = n * d + h /\ (n + 1) * d = n * d + d
    <3>1. (2 * n + 1) * h = n * (2 * h) + h
      BY <2>3
    <3> QED
      BY <1>1, <2>3, <3>1
  <2>6. p <= (2 * n + 1) * h
    BY <1>1, <1>6, <2>1, <2>3, <2>5
  <2>7. ToFloat(p) <= (2 * n + 1) * h
    BY <2>4, <2>6
  <2>8. ToFloat(p) < (n + 1) * d
    <3>1. ToFloat(p) <= n * d + h
      BY <2>5, <2>7
    <3> DEFINE x == n * d
               y == ToFloat(p)
    <3>2. x \in Nat /\ y \in Nat /\ y <= x + h
      BY <1>1, <1>7, <3>1
    <3> HIDE DEF x, y
    <3>3. y < x + d
      BY <2>3, <3>2
    <3> QED
      BY <2>5, <3>3 DEF x, y
  <2>9. Bound(g, n, g) < n + 1
    BY <1>7, <2>8
  <2> QED
    BY <1>7, <2>9
<1>12. \A i \in 0 .. g : Bound(i, n, g) \in Nat
  BY <1>3
<1> QED
  BY <1>4, <1>5, <1>9, <1>10, <1>11, <1>12

\* A group has at most two pixels more than the quotient says, and at most one if
\* the quotient falls short by less than half a pixel; it has at least one if it
\* is the only one or there are four for each.
LEMMA GroupSizes ==
  ASSUME NEW n \in Nat \ {0}, n < 2^24, NEW g \in 1 .. 64, g <= n, NEW i \in 0 .. g - 1
  PROVE  LET size == Bound(i + 1, n, g) - Bound(i, n, g)
         IN /\ size <= n \div g + 2
            /\ 2 * (n % g) < g => size <= n \div g + 1
            /\ g = 1 \/ 4 * g <= n => size > 0
<1>0. PICK k, d, w : /\ FloatWidth(n, g, k, d, w)
                     /\ \A j \in 0 .. g : Bound(j, n, g) = ToFloat(j * w) \div d
  BY BoundsOf
<1>1. /\ k \in 0 .. 23 /\ d = 2^k /\ d \in Nat \ {0} /\ w \in Nat
      /\ n * d \in Nat /\ w * g \in Nat /\ g < 2 * d
      /\ 2 * (w * g) <= 2 * (n * d) + g /\ 2 * (n * d) <= 2 * (w * g) + g
      /\ \A j \in 0 .. g :
           j * w \in Nat /\ j * w <= w * g /\ j * w < 2^30 /\ Spare(j * w) \in 0 .. k
      /\ n < 2^23 => g < d /\ k # 0 /\ Spare(g * w) <= k - 1
  BY <1>0, Zenon DEF FloatWidth
<1> DEFINE p == i * w
           q == (i + 1) * w
           f == n \div g
           r == n % g
           b == Bound(i, n, g)
           c == Bound(i + 1, n, g)
<1>2. /\ f \in Nat /\ r \in 0 .. g - 1 /\ n = f * g + r /\ g \in Nat \ {0}
  <2>1. g \in Nat \ {0}
    OBVIOUS
  <2> QED
    BY <2>1, Division
<1>3. w < (f + 1) * d /\ (2 * r < g => 2 * w <= (2 * f + 1) * d)
  <2> HIDE DEF f, r
  <2> QED
    BY <1>1, <1>2, WidthBelow
<1>4. (4 * g <= n => 2 * d <= w) /\ (g = 1 => d <= w)
  BY <1>1, WidthAbove
<1>5. /\ p \in Nat /\ p < 2^30 /\ k \in Spare(p) .. 30 /\ Spare(p) \in 0 .. k
      /\ q \in Nat /\ q < 2^30 /\ k \in Spare(q) .. 30 /\ Spare(q) \in 0 .. k
      /\ q = p + w
  <2>1. i \in 0 .. g /\ i + 1 \in 0 .. g /\ q = p + w
    BY <1>1
  <2>2. p \in Nat /\ p < 2^30 /\ Spare(p) \in 0 .. k
    BY <1>1, <2>1
  <2>3. q \in Nat /\ q < 2^30 /\ Spare(q) \in 0 .. k
    BY <1>1, <2>1
  <2> HIDE DEF p, q
  <2> QED
    BY <1>1, <2>1, <2>2, <2>3
<1>6. b = ToFloat(p) \div d /\ c = ToFloat(q) \div d
  BY <1>0
<1> HIDE DEF p, q, b, c, f, r
<1> DEFINE x == ToFloat(p)
           y == ToFloat(q)
           s == 2^Spare(p)
           t == 2^Spare(q)
<1>7. /\ x \in Nat /\ s \in Nat \ {0} /\ 2 * x <= 2 * p + s /\ 2 * p <= 2 * x + s
      /\ \A m \in Nat : x < m * d => x + s <= m * d
  BY <1>1, <1>5, FloatOf
<1>8. /\ y \in Nat /\ t \in Nat \ {0} /\ 2 * y <= 2 * q + t
      /\ \A m \in Nat : m * d <= q => m * d <= y
  BY <1>1, <1>5, FloatOf
<1>9. s <= d /\ t <= d
  <2>1. k \in 0 .. 30
    BY <1>1
  <2> QED
    BY <1>1, <1>5, <2>1, PowerMonotonic
<1> HIDE DEF x, y, s, t
<1>10. /\ b \in Nat /\ c \in Nat
       /\ \A m \in Nat : m * d <= x <=> m <= b
       /\ \A m \in Nat : x < m * d <=> b < m
       /\ \A m \in Nat : m * d <= y <=> m <= c
       /\ \A m \in Nat : y < m * d <=> c < m
  BY <1>1, <1>6, <1>7, <1>8, Quotient DEF x, y
<1> DEFINE bd == b * d
           fd == f * d
<1>11. /\ bd \in Nat /\ fd \in Nat /\ (b + 1) * d = bd + d
       /\ (f + 1) * d = fd + d /\ (2 * f + 1) * d = 2 * fd + d
       /\ (b + f + 3) * d = bd + fd + 3 * d /\ (b + f + 2) * d = bd + fd + 2 * d
  BY <1>1, <1>2, <1>10
<1> HIDE DEF bd, fd
<1>12. x + s <= bd + d
  <2>1. b + 1 \in Nat /\ x < (b + 1) * d
    BY <1>10
  <2> QED
    BY <1>7, <1>11, <2>1
<1>13. c <= b + f + 2
  <2>1. y < bd + fd + 3 * d
    BY <1>1, <1>3, <1>5, <1>7, <1>8, <1>9, <1>11, <1>12
  <2>2. b + f + 3 \in Nat /\ y < (b + f + 3) * d
    BY <1>2, <1>10, <1>11, <2>1
  <2>3. c < b + f + 3
    BY <1>10, <2>2
  <2> QED
    BY <1>2, <1>10, <2>3
<1>14. ASSUME 2 * r < g
       PROVE  c <= b + f + 1
  <2>1. 2 * w <= 2 * fd + d
    BY <1>3, <1>11, <1>14
  <2>2. y < bd + fd + 2 * d
    BY <1>1, <1>5, <1>7, <1>8, <1>9, <1>11, <1>12, <2>1
  <2>3. b + f + 2 \in Nat /\ y < (b + f + 2) * d
    BY <1>2, <1>10, <1>11, <2>2
  <2>4. c < b + f + 2
    BY <1>10, <2>3
  <2> QED
    BY <1>2, <1>10, <2>4
<1>15. ASSUME g = 1 \/ 4 * g <= n
       PROVE  b < c
  <2>1. bd <= x
    BY <1>10 DEF bd
  <2>2. bd + d <= q
    <3>1. CASE 4 * g <= n
      BY <1>1, <1>4, <1>5, <1>7, <1>9, <1>11, <2>1, <3>1
    <3>2. CASE g = 1
      \* The first group starts with the pixels.
      <4>1. i = 0 /\ p = 0
        BY <1>1, <3>2 DEF p
      <4>2. b = 0
        BY <3>2, <4>1, BoundsOrdered DEF b
      <4>3. bd = 0 /\ d <= w
        BY <1>1, <1>4, <3>2, <4>2 DEF bd
      <4> QED
        BY <1>1, <1>5, <4>1, <4>3
    <3> QED
      BY <1>15, <3>1, <3>2
  <2>3. b + 1 \in Nat /\ (b + 1) * d <= q
    BY <1>10, <1>11, <2>2
  <2>4. (b + 1) * d <= y
    BY <1>8, <2>3
  <2>5. b + 1 <= c
    BY <1>10, <2>3, <2>4
  <2> QED
    BY <1>10, <2>5
<1> QED
  BY <1>2, <1>10, <1>13, <1>14, <1>15 DEF b, c, f, r

\* The partitions there are: a float holds the number of pixels, and a group is not
\* the only one only if there are many pixels for each.
LEMMA SplitOf ==
  ASSUME NEW n, NEW g, <<n, g>> \in Splits
  PROVE  /\ n \in Nat /\ n < 2^24 /\ g \in 1 .. 64
         /\ g = 1 \/ 4 * g <= n
         /\ \A i \in 0 .. g : Bounds[<<n, g>>][i] = Bound(i, n, g)
<1>1. PICK m \in Pixels, word \in Range(WordSize), procs \in Procs :
        <<n, g>> = <<m, Groups(m, word, procs)>>
  BY DEF Splits
<1>2. n = m /\ g = Groups(n, word, procs)
  BY <1>1
<1>3. n \in Nat /\ n < 2^24 /\ procs \in 1 .. 64
  BY <1>2, GroupsAssumption
<1>4. word \in {1, 2}
  BY GroupsAssumption DEF Range
<1> DEFINE pages == Bytes(n, word) \div 4096
<1>5. pages \in Nat /\ 512 * pages <= n
  <2>1. CASE word = 1
    BY <1>3, <2>1 DEF Bytes
  <2>2. CASE word = 2
    BY <1>3, <2>2 DEF Bytes
  <2> QED
    BY <1>4, <2>1, <2>2
<1>6. g = Smaller(procs, Larger(1, pages))
  BY <1>2 DEF Groups
<1> HIDE DEF pages
<1>7. g \in 1 .. 64 /\ (g = 1 \/ g <= pages)
  BY <1>3, <1>5, <1>6 DEF Smaller, Larger
<1>8. g = 1 \/ 4 * g <= n
  <2>1. n \in Nat /\ procs \in 1 .. 64
    BY <1>3
  <2> QED
    BY <1>5, <1>7, <2>1
<1>9. ASSUME NEW i \in 0 .. g
      PROVE  Bounds[<<n, g>>][i] = Bound(i, n, g)
  <2> DEFINE it == <<n, g>>
  <2>1. it \in Splits /\ it[1] = n /\ it[2] = g
    OBVIOUS
  <2> HIDE DEF it
  <2>2. Bounds[it] = [j \in 0 .. it[2] |-> Bound(j, it[1], it[2])]
    BY <2>1, Zenon DEF Bounds
  <2>3. Bounds[it][i] = Bound(i, n, g)
    BY <2>1, <2>2
  <2> QED
    BY <2>3 DEF it
<1> QED
  BY <1>3, <1>7, <1>8, <1>9

\* Where the groups of a partition begin and end, and how large they are.
LEMMA PartitionOf ==
  ASSUME NEW n, NEW g, <<n, g>> \in Splits
  PROVE  /\ n \in Nat /\ g \in 1 .. 64 /\ First(1, n, g) = 0
         /\ \A i \in 1 .. g : /\ First(i, n, g) \in Nat /\ Behind(i, n, g) \in Nat
                              /\ First(i, n, g) <= Behind(i, n, g)
                              /\ n > 0 => First(i, n, g) < Behind(i, n, g)
         /\ \A i \in 1 .. g - 1 : First(i + 1, n, g) = Behind(i, n, g)
         /\ Behind(g, n, g) \in n - 1 .. n + (IF n < 2^23 THEN 0 ELSE 1)
         /\ \A i \in 1 .. g :
              /\ Behind(i, n, g) - First(i, n, g) <= n \div g + 2
              /\ 2 * (n % g) < g => Behind(i, n, g) - First(i, n, g) <= n \div g + 1
<1>1. /\ n \in Nat /\ n < 2^24 /\ g \in 1 .. 64 /\ (g = 1 \/ 4 * g <= n)
      /\ \A i \in 0 .. g : Bounds[<<n, g>>][i] = Bound(i, n, g)
  BY SplitOf
<1>2. \A i \in 1 .. g : /\ First(i, n, g) = Bound(i - 1, n, g)
                        /\ Behind(i, n, g) = Bound(i, n, g)
  <2> SUFFICES ASSUME NEW i \in 1 .. g
               PROVE  /\ First(i, n, g) = Bound(i - 1, n, g)
                      /\ Behind(i, n, g) = Bound(i, n, g)
    OBVIOUS
  <2>1. i - 1 \in 0 .. g /\ i \in 0 .. g
    BY <1>1
  <2> QED
    BY <1>1, <2>1 DEF First, Behind
<1>3. \A i \in 1 .. g - 1 : First(i + 1, n, g) = Behind(i, n, g)
  <2> SUFFICES ASSUME NEW i \in 1 .. g - 1
               PROVE  First(i + 1, n, g) = Behind(i, n, g)
    OBVIOUS
  <2>1. i + 1 \in 1 .. g /\ i \in 1 .. g /\ (i + 1) - 1 = i
    BY <1>1
  <2> QED
    BY <1>2, <2>1
<1>4. 1 \in 1 .. g /\ g \in 1 .. g /\ 1 - 1 = 0
  BY <1>1
<1>5. CASE n = 0
  <2>1. \A i \in 0 .. g : Bound(i, n, g) = 0
    BY <1>5 DEF Bound
  <2>2. g = 1
    BY <1>1, <1>5
  <2>3. First(1, n, g) = 0 /\ Behind(1, n, g) = 0
    BY <1>2, <1>4, <2>1, <2>2
  <2>4. n < 2^23
    BY <1>5, Powers
  <2> QED
    BY <1>1, <1>3, <1>5, <2>2, <2>3, <2>4
<1>6. CASE n # 0
  <2>1. n \in Nat \ {0} /\ g <= n
    BY <1>1, <1>6
  <2>2. /\ \A i \in 0 .. g : Bound(i, n, g) \in Nat
        /\ Bound(0, n, g) = 0
        /\ n - 1 <= Bound(g, n, g) /\ Bound(g, n, g) <= n + 1
        /\ n < 2^23 => Bound(g, n, g) <= n
    BY <1>1, <2>1, BoundsOrdered
  <2>3. First(1, n, g) = 0
    BY <1>2, <1>4, <2>2
  <2>4. Behind(g, n, g) \in n - 1 .. n + (IF n < 2^23 THEN 0 ELSE 1)
    <3>1. Behind(g, n, g) = Bound(g, n, g) /\ Bound(g, n, g) \in Nat
      BY <1>2, <1>4, <2>2
    <3> QED
      BY <2>1, <2>2, <3>1
  <2>5. ASSUME NEW i \in 1 .. g
        PROVE  /\ First(i, n, g) \in Nat /\ Behind(i, n, g) \in Nat
               /\ First(i, n, g) < Behind(i, n, g)
               /\ Behind(i, n, g) - First(i, n, g) <= n \div g + 2
               /\ 2 * (n % g) < g => Behind(i, n, g) - First(i, n, g) <= n \div g + 1
    <3>1. i - 1 \in 0 .. g - 1 /\ i - 1 \in 0 .. g /\ i \in 0 .. g /\ (i - 1) + 1 = i
      BY <1>1
    <3> DEFINE size == Bound((i - 1) + 1, n, g) - Bound(i - 1, n, g)
    <3>2. /\ size <= n \div g + 2
          /\ 2 * (n % g) < g => size <= n \div g + 1
          /\ size > 0
      BY <1>1, <2>1, <3>1, GroupSizes
    <3>3. size = Behind(i, n, g) - First(i, n, g)
      BY <1>2, <3>1
    <3>4. First(i, n, g) \in Nat /\ Behind(i, n, g) \in Nat
      BY <1>2, <2>2, <3>1
    <3> HIDE DEF size
    <3> QED
      BY <3>2, <3>3, <3>4
  <2> QED
    BY <1>1, <1>3, <2>3, <2>4, <2>5
<1> QED
  BY <1>5, <1>6
------------------------------------------------------------------------------
(* The invariant is inductive *)

LEMMA InitIInv == Init => IInv
<1> SUFFICES ASSUME Init PROVE IInv
  OBVIOUS
<1>1. IsList(results) /\ results = <<>>
  BY DEF IsList, Init
<1>2. Instances /\ Called
  BY GroupsAssumption DEF Init, Instances, Called, Running
<1>3. Compressing
  BY <1>1 DEF Init, Compressing
<1>4. Restoring
  BY DEF Init, Restoring
<1> QED
  BY <1>2, <1>3, <1>4 DEF IInv


\* Nothing of the call happens while instances are made and deleted.
LEMMA BetweenCallsStep ==
  ASSUME IInv, pc \in {"idle", "returned"}, Instances', results' = <<>>,
         UNCHANGED <<functions, pc, call, request, work, inputs, restored>>
  PROVE  IInv'
<1>1. nPixels' = nPixels
  BY DEF nPixels
<1>2. Called'
  BY <1>1 DEF IInv, Called, Running
<1>3. IsList(results')
  BY DEF IsList
<1>4. Compressing'
  BY <1>3 DEF Compressing, IsList
<1>5. Restoring'
  BY <1>1 DEF IInv, Restoring
<1> QED
  BY <1>2, <1>4, <1>5 DEF IInv

LEMMA NewCompressorStep ==
  ASSUME IInv, NEW name \in Engines, NewCompressor(name), UNCHANGED build
  PROVE  IInv'
<1>1. /\ pc \in {"idle", "returned"}
      /\ UNCHANGED <<functions, pc, call, request, work, inputs, restored>>
      /\ results' = <<>>
      /\ instance' = <<[name |-> name, engine |-> FindFunctions(name)]>>
  BY DEF NewCompressor, build
<1>2. FindFunctions(name) = name
  BY Found DEF IInv
<1>3. Instances'
  BY <1>1, <1>2 DEF IInv, Instances
<1> QED
  BY <1>1, <1>3, BetweenCallsStep

LEMMA DeleteCompressorStep ==
  ASSUME IInv, DeleteCompressor, UNCHANGED build
  PROVE  IInv'
<1>1. /\ pc \in {"idle", "returned"}
      /\ UNCHANGED <<functions, pc, call, request, work, inputs, restored>>
      /\ results' = <<>> /\ instance' = <<>>
  BY DEF DeleteCompressor, build
<1>2. Instances'
  BY <1>1 DEF IInv, Instances
<1> QED
  BY <1>1, <1>2, BetweenCallsStep

LEMMA CompressStep ==
  ASSUME IInv, NEW r \in Requests, NEW procs \in Procs, Compress(r, procs), UNCHANGED build
  PROVE  IInv'
<1> DEFINE n == NPixels(r.dims, r.flags)
           g == Groups(n, WordBytes, procs)
           many == Larger(Len(results), 4 * g)
<1>1. PICK e \in Engines : instance = <<[name |-> e, engine |-> e]>>
  BY DEF IInv, Instances, Compress
<1>2. WordBytes = WordSize[e]
  BY <1>1 DEF WordBytes
<1>3. g \in Nat \ {0} /\ <<n, g>> \in Splits
  BY <1>2, GroupsOfCall
<1>4. /\ pc' = "compress" /\ call' = call + 1 /\ call < MaxCalls
      /\ request' = [name |-> e, dims |-> r.dims, flags |-> r.flags]
      /\ work' = [group \in 1 .. g |-> "todo"]
      /\ restored' = <<>> /\ UNCHANGED <<functions, instance>>
  BY <1>1 DEF Compress, build
<1>5. results' = [s \in 1 .. many |->
                    LET result == IF s <= Len(results) THEN results[s] ELSE Empty
                    IN IF s <= 4 * g THEN Reserved(result, n, g) ELSE result]
  BY DEF Compress
<1>6. nPixels' = n
  BY <1>4 DEF nPixels
<1> HIDE DEF n, g
<1>7. Len(results) \in Nat
  BY ListPlaces DEF IInv, Compressing
<1>8. many \in Nat /\ many >= 4 * g
  BY <1>3, <1>7 DEF Larger
<1> HIDE DEF many
<1>9. IsList(results') /\ Len(results') = many
  <2>1. results' = [s \in 1 .. many |-> results'[s]]
    BY <1>5, Zenon
  <2> QED
    BY <1>8, <2>1, MakesList
<1>10. work' \in Seq({"todo", "stored", "done"}) /\ Len(work') = g
  <2>1. [group \in 1 .. g |-> "todo"] \in Seq({"todo", "stored", "done"})
    BY <1>3, IsASeq
  <2> QED
    BY <1>3, <1>4, <2>1, LenProperties
<1>11. \A group \in 1 .. g : work'[group] = "todo"
  BY <1>4
<1>12. Instances'
  BY <1>4 DEF IInv, Instances
<1>13. Called'
  <2>1. call \in Nat /\ MaxCalls \in Nat
    BY GroupsAssumption DEF IInv, Called
  <2>2. call' \in 0 .. MaxCalls /\ call' # 0
    BY <1>4, <2>1
  <2>3. <<nPixels', Len(work')>> \in Splits /\ Len(work') # 0
    BY <1>3, <1>6, <1>10
  <2>4. request'.name = e
    BY <1>4
  <2> QED
    BY <1>1, <1>4, <1>10, <2>2, <2>3, <2>4 DEF Called, Running
<1>14. Compressing'
  BY <1>4, <1>8, <1>9, <1>10, <1>11 DEF Compressing
<1>15. Restoring'
  BY <1>4 DEF Restoring
<1> QED
  BY <1>12, <1>13, <1>14, <1>15 DEF IInv

\* The call stays what it is while its groups are worked on.
LEMMA CallKept ==
  ASSUME Called, Running, UNCHANGED <<call, request, instance>>,
         work' \in Seq({"todo", "stored", "done"}), Len(work') = Len(work),
         pc' \in {"compress", "compressed", "decompress", "returned"}
  PROVE  Called' /\ nPixels' = nPixels
<1>1. nPixels' = nPixels
  BY DEF nPixels
<1>2. pc # "idle" /\ pc' # "idle"
  BY DEF Running
<1>3. /\ call \in 0 .. MaxCalls /\ call # 0 /\ Len(work) # 0
      /\ <<nPixels, Len(work)>> \in Splits /\ request.name \in Engines
      /\ instance = <<[name |-> request.name, engine |-> request.name]>>
  BY <1>2 DEF Called
<1> QED
  BY <1>1, <1>2, <1>3 DEF Called

\* Setting the state of a group keeps the list of states.
LEMMA WorkSet ==
  ASSUME work \in Seq({"todo", "stored", "done"}), NEW group \in DOMAIN work,
         NEW state \in {"todo", "stored", "done"}
  PROVE  LET w == [work EXCEPT ![group] = state]
         IN /\ w \in Seq({"todo", "stored", "done"}) /\ Len(w) = Len(work)
            /\ Len(work) \in Nat /\ DOMAIN work = 1 .. Len(work)
            /\ w[group] = state
            /\ \A other \in DOMAIN work : other # group => w[other] = work[other]
<1>1. [work EXCEPT ![group] = state] \in Seq({"todo", "stored", "done"})
  BY ExceptSeq
<1>2. Len([work EXCEPT ![group] = state]) = Len(work)
  BY ExceptSeq
<1>3. Len(work) \in Nat /\ DOMAIN work = 1 .. Len(work)
  BY LenProperties
<1> QED
  BY <1>1, <1>2, <1>3

\* A step of a group in compress() changes no stream but its own.
LEMMA GroupOfCompress ==
  ASSUME IInv, pc = "compress", pc' = "compress", NEW group \in DOMAIN work,
         NEW state \in {"stored", "done"}, work' = [work EXCEPT ![group] = state],
         UNCHANGED <<functions, instance, call, request, inputs, restored>>,
         IsList(results'), Len(results') = Len(results),
         \A s \in DOMAIN results : s \notin Streams(group) => results'[s] = results[s],
         OwnStreams(results', group, request.name, nPixels, Len(work), call)
  PROVE  IInv'
<1>1. work \in Seq({"todo", "stored", "done"})
  BY DEF IInv, Called
<1>2. /\ work' \in Seq({"todo", "stored", "done"}) /\ Len(work') = Len(work)
      /\ Len(work) \in Nat /\ DOMAIN work = 1 .. Len(work)
      /\ work'[group] = state
      /\ \A other \in DOMAIN work : other # group => work'[other] = work[other]
  BY <1>1, WorkSet
<1>3. Called' /\ nPixels' = nPixels
  BY <1>2, CallKept DEF IInv, Running
<1>4. Instances' /\ Restoring'
  BY DEF IInv, Instances, Restoring
<1>5. /\ Len(results) >= 4 * Len(work) /\ restored = <<>>
      /\ Len(results) \in Nat /\ DOMAIN results = 1 .. Len(results)
  BY ListPlaces DEF IInv, Compressing
<1>6. \A other \in 1 .. Len(work) : work'[other] # "todo" => Own(results, other)'
  <2> SUFFICES ASSUME NEW other \in 1 .. Len(work), work'[other] # "todo"
               PROVE  OwnStreams(results', other, request.name, nPixels, Len(work), call)
    BY <1>2, <1>3 DEF Own
  <2>1. CASE other = group
    BY <2>1
  <2>2. CASE other # group
    <3>1. OwnStreams(results, other, request.name, nPixels, Len(work), call)
      BY <1>2, <2>2 DEF IInv, Compressing, Own
    <3>2. \A s \in Streams(other) : results'[s] = results[s]
      <4> SUFFICES ASSUME NEW s \in Streams(other) PROVE results'[s] = results[s]
        OBVIOUS
      <4>1. s \in 1 .. 4 * Len(work) /\ s \notin Streams(group)
        BY <1>2, <2>2, StreamsApart
      <4>2. s \in DOMAIN results
        BY <1>2, <1>5, <4>1
      <4> QED
        BY <4>1, <4>2
    <3> QED
      BY <3>1, <3>2 DEF OwnStreams
  <2> QED
    BY <2>1, <2>2
<1>7. Compressing'
  BY <1>2, <1>5, <1>6 DEF Compressing
<1> QED
  BY <1>3, <1>4, <1>7 DEF IInv

LEMMA CompressGroupStep ==
  ASSUME IInv, NEW group \in DOMAIN work, CompressGroup(group), UNCHANGED build
  PROVE  IInv'
<1> DEFINE lo == First(group, nPixels, Len(work))
           hi == Behind(group, nPixels, Len(work))
           state == IF lo = hi \/ caching THEN "done" ELSE "stored"
<1>1. PICK words :
        results' = [s \in DOMAIN results |->
          IF s \notin Streams(group) THEN results[s]
          ELSE [room |-> results[s].room, lo |-> lo, hi |-> hi, of |-> call,
                by |-> instance[1].engine,
                size |-> IF s % 4 = 0 /\ ~useAlpha /\ lo < hi
                         THEN WordBytes ELSE words * WordBytes]]
  BY DEF CompressGroup
<1>2. /\ pc = "compress" /\ pc' = "compress"
      /\ work' = [work EXCEPT ![group] = state]
      /\ UNCHANGED <<functions, instance, call, request, inputs, restored>>
  BY DEF CompressGroup, build
<1> HIDE DEF lo, hi
<1>3. state \in {"stored", "done"}
  OBVIOUS
<1> HIDE DEF state
<1>4. instance[1].engine = request.name
  BY <1>2 DEF IInv, Called, Running
<1>5. Len(results) \in Nat /\ DOMAIN results = 1 .. Len(results)
  BY ListPlaces DEF IInv, Compressing
<1>6. IsList(results') /\ Len(results') = Len(results)
  <2>1. results' = [s \in 1 .. Len(results) |-> results'[s]]
    BY <1>1, <1>5, Zenon
  <2> QED
    BY <1>5, <2>1, MakesList
<1>7. \A s \in DOMAIN results : s \notin Streams(group) => results'[s] = results[s]
  BY <1>1
<1>8. OwnStreams(results', group, request.name, nPixels, Len(work), call)
  <2>1. Streams(group) \subseteq DOMAIN results
    <3>1. Len(work) \in Nat /\ DOMAIN work = 1 .. Len(work)
      BY <1>2, LenProperties DEF IInv, Called
    <3>2. Streams(group) \subseteq 1 .. 4 * Len(work)
      BY <3>1, StreamsApart
    <3>3. Len(results) >= 4 * Len(work)
      BY <1>2 DEF IInv, Compressing
    <3> QED
      BY <1>5, <3>1, <3>2, <3>3
  <2>2. \A s \in Streams(group) :
          results'[s] = [room |-> results'[s].room, size |-> results'[s].size, of |-> call,
                         by |-> instance[1].engine, lo |-> lo, hi |-> hi]
    BY <1>1, <2>1
  <2> QED
    BY <1>4, <2>2 DEF OwnStreams, lo, hi
<1> QED
  BY <1>2, <1>3, <1>6, <1>7, <1>8, GroupOfCompress

\* A result buffer with another room is the same but for its room.
LEMMA RoomSet ==
  ASSUME NEW old, NEW room, NEW size, NEW of, NEW by, NEW lo, NEW hi, NEW new,
         old = [room |-> room, size |-> size, of |-> of, by |-> by, lo |-> lo, hi |-> hi]
  PROVE  LET packed == [old EXCEPT !.room = new]
         IN packed = [room |-> packed.room, size |-> packed.size,
                      of |-> of, by |-> by, lo |-> lo, hi |-> hi]
OBVIOUS

LEMMA PackStep ==
  ASSUME IInv, NEW group \in DOMAIN work, Pack(group), UNCHANGED build
  PROVE  IInv'
<1>1. /\ pc = "compress" /\ pc' = "compress" /\ work[group] = "stored"
      /\ work' = [work EXCEPT ![group] = "done"]
      /\ results' = [s \in DOMAIN results |->
           IF s \in Streams(group) THEN [results[s] EXCEPT !.room = results[s].size]
           ELSE results[s]]
      /\ UNCHANGED <<functions, instance, call, request, inputs, restored>>
  BY DEF Pack, build
<1>2. Len(results) \in Nat /\ DOMAIN results = 1 .. Len(results)
  BY ListPlaces DEF IInv, Compressing
<1>3. IsList(results') /\ Len(results') = Len(results)
  <2>1. results' = [s \in 1 .. Len(results) |-> results'[s]]
    BY <1>1, <1>2, Zenon
  <2> QED
    BY <1>2, <2>1, MakesList
<1>4. Len(work) \in Nat /\ DOMAIN work = 1 .. Len(work)
  BY <1>1, LenProperties DEF IInv, Called
<1>5. /\ Own(results, group) /\ Streams(group) \subseteq DOMAIN results
  <2>1. Streams(group) \subseteq 1 .. 4 * Len(work) /\ Len(results) >= 4 * Len(work)
    BY <1>1, <1>4, StreamsApart DEF IInv, Compressing
  <2> QED
    BY <1>1, <1>2, <1>4, <2>1 DEF IInv, Compressing
<1>6. OwnStreams(results', group, request.name, nPixels, Len(work), call)
  <2> SUFFICES ASSUME NEW s \in Streams(group)
               PROVE  results'[s] = [room |-> results'[s].room, size |-> results'[s].size,
                                     of |-> call, by |-> request.name,
                                     lo |-> First(group, nPixels, Len(work)),
                                     hi |-> Behind(group, nPixels, Len(work))]
    BY DEF OwnStreams
  <2>1. results[s] = [room |-> results[s].room, size |-> results[s].size, of |-> call,
                      by |-> request.name, lo |-> First(group, nPixels, Len(work)),
                      hi |-> Behind(group, nPixels, Len(work))]
    BY <1>5 DEF Own, OwnStreams
  <2>2. results'[s] = [results[s] EXCEPT !.room = results[s].size]
    BY <1>1, <1>5
  <2> QED
    BY <2>1, <2>2, RoomSet
<1>7. \A s \in DOMAIN results : s \notin Streams(group) => results'[s] = results[s]
  BY <1>1
<1> QED
  BY <1>1, <1>3, <1>6, <1>7, GroupOfCompress

LEMMA CompressReturnStep ==
  ASSUME IInv, CompressReturn, UNCHANGED build
  PROVE  IInv'
<1>1. /\ pc = "compress" /\ pc' = "compressed" /\ nResults' = 4 * Len(work)
      /\ \A group \in DOMAIN work : work[group] = "done"
      /\ UNCHANGED <<functions, instance, call, request, results, work, inputs, restored>>
  BY DEF CompressReturn, build
<1>2. work \in Seq({"todo", "stored", "done"}) /\ DOMAIN work = 1 .. Len(work)
  BY <1>1, LenProperties DEF IInv, Called
<1>3. Called' /\ nPixels' = nPixels
  BY <1>1, <1>2, CallKept DEF IInv, Running
<1>4. \A group \in 1 .. Len(work) : Own(results, group)'
  BY <1>1, <1>2, <1>3 DEF IInv, Compressing, Own
<1>5. Compressing'
  BY <1>1, <1>4 DEF IInv, Compressing, IsList
<1>6. Instances' /\ Restoring'
  BY <1>1 DEF IInv, Instances, Restoring
<1> QED
  BY <1>3, <1>5, <1>6 DEF IInv

\* A function of no arguments.
LEMMA NoArguments ==
  ASSUME NEW e
  PROVE  \A D : D = {} => [k \in D |-> e[k]] = <<>>
OBVIOUS

\* The list that is handed over, and the states its groups begin with.
LEMMA HandedOver ==
  ASSUME IInv, pc = "compressed"
  PROVE  /\ Len(SubSeq(results, 1, nResults)) = 4 * Len(work)
         /\ \A s \in 1 .. 4 * Len(work) : SubSeq(results, 1, nResults)[s] = results[s]
         /\ [group \in 1 .. nResults \div 4 |-> "todo"] = [group \in 1 .. Len(work) |-> "todo"]
         /\ Len(work) \in Nat
<1>1. /\ nResults = 4 * Len(work) /\ Len(results) >= nResults /\ IsList(results)
  BY DEF IInv, Compressing
<1>2. Len(results) \in Nat /\ Len(work) \in Nat
  BY <1>1, ListPlaces, LenProperties DEF IInv, Called
<1>3. nResults \div 4 = Len(work) /\ nResults \in 0 .. Len(results) /\ 1 \in 1 .. Len(results) + 1
  BY <1>1, <1>2
<1>4. /\ Len(SubSeq(results, 1, nResults)) = nResults - 1 + 1
      /\ \A s \in 1 .. nResults - 1 + 1 : SubSeq(results, 1, nResults)[s] = results[1 + s - 1]
  BY <1>1, <1>3, SubSeqProperties DEF IsList
<1> QED
  BY <1>1, <1>2, <1>3, <1>4

LEMMA DecompressStep ==
  ASSUME IInv, Decompress, UNCHANGED build
  PROVE  IInv'
<1>1. /\ pc = "compressed" /\ pc' = "decompress"
      /\ inputs' = SubSeq(results, 1, nResults)
      /\ work' = [group \in 1 .. nResults \div 4 |-> "todo"]
      /\ UNCHANGED <<functions, instance, call, request, results, nResults, restored>>
  BY DEF Decompress, build
<1>2. /\ Len(inputs') = 4 * Len(work) /\ Len(work) \in Nat
      /\ \A s \in 1 .. 4 * Len(work) : inputs'[s] = results[s]
      /\ work' = [group \in 1 .. Len(work) |-> "todo"]
  BY <1>1, HandedOver
<1>3. work' \in Seq({"todo", "stored", "done"}) /\ Len(work') = Len(work)
  <2>1. [group \in 1 .. Len(work) |-> "todo"] \in Seq({"todo", "stored", "done"})
    BY <1>2, IsASeq
  <2> QED
    BY <1>2, <2>1, LenProperties
<1>4. Called' /\ nPixels' = nPixels
  BY <1>1, <1>3, CallKept DEF IInv, Running
<1>5. \A group \in 1 .. Len(work) : Own(inputs, group)'
  <2> SUFFICES ASSUME NEW group \in 1 .. Len(work)
               PROVE  OwnStreams(inputs', group, request.name, nPixels, Len(work), call)
    BY <1>1, <1>3, <1>4 DEF Own
  <2>1. OwnStreams(results, group, request.name, nPixels, Len(work), call)
    BY <1>1 DEF IInv, Compressing, Own
  <2>2. \A s \in Streams(group) : inputs'[s] = results[s]
    BY <1>2, StreamsApart
  <2> QED
    BY <2>1, <2>2 DEF OwnStreams
<1>6. restored' = <<>> /\ DOMAIN restored' = {}
  BY <1>1 DEF IInv, Compressing
<1>7. Restoring'
  <2>1. restored' = [k \in DOMAIN restored' |-> Pieces(request.name, nPixels, Len(work), call)'[k]]
    BY <1>6, NoArguments
  <2>2. \A group \in 1 .. Len(work) : work'[group] = "todo"
    BY <1>2
  <2> QED
    BY <1>1, <1>2, <1>3, <1>5, <1>6, <2>1, <2>2 DEF Restoring
<1>8. Instances' /\ Compressing'
  BY <1>1 DEF IInv, Instances, Compressing, IsList
<1> QED
  BY <1>4, <1>7, <1>8 DEF IInv

\* What a stream of its own says.
LEMMA OwnFields ==
  ASSUME NEW stream, NEW room, NEW size, NEW of, NEW by, NEW lo, NEW hi,
         stream = [room |-> room, size |-> size, of |-> of, by |-> by, lo |-> lo, hi |-> hi]
  PROVE  stream.of = of /\ stream.by = by /\ stream.lo = lo /\ stream.hi = hi
OBVIOUS

\* Piece number group of what is to be restored, and where there are pieces.
LEMMA PieceOf ==
  ASSUME NEW e, NEW n, NEW g, NEW c
  PROVE  /\ DOMAIN Pieces(e, n, g, c) = 1 .. g
         /\ \A group \in 1 .. g :
              Pieces(e, n, g, c)[group] =
                Piece(e, First(group, n, g), Behind(group, n, g),
                      {<<e, c, First(group, n, g), Behind(group, n, g)>>})
BY DEF Pieces

\* What the streams of its own are restored to is the piece of a group.
LEMMA RightPiece ==
  ASSUME IInv, pc = "decompress", NEW group \in DOMAIN work
  PROVE  Piece(FindFunctions(request.name),
               First(group, nPixels, Len(inputs) \div 4),
               Behind(group, nPixels, Len(inputs) \div 4),
               {<<inputs[s].by, inputs[s].of, inputs[s].lo, inputs[s].hi>> : s \in Read(group)})
           = Pieces(request.name, nPixels, Len(work), call)[group]
<1>1. request.name \in Engines /\ FindFunctions(request.name) = request.name
  BY Found DEF IInv, Called
<1>2. Len(work) \in Nat /\ group \in 1 .. Len(work)
  BY LenProperties DEF IInv, Called
<1>3. Len(inputs) \div 4 = Len(work)
  BY <1>2 DEF IInv, Restoring
<1> DEFINE lo == First(group, nPixels, Len(work))
           hi == Behind(group, nPixels, Len(work))
           own == {<<inputs[s].by, inputs[s].of, inputs[s].lo, inputs[s].hi>> : s \in Read(group)}
<1>4. \A s \in Streams(group) :
        inputs[s] = [room |-> inputs[s].room, size |-> inputs[s].size, of |-> call,
                     by |-> request.name, lo |-> lo, hi |-> hi]
  BY <1>2 DEF IInv, Restoring, Own, OwnStreams
<1> HIDE DEF lo, hi
<1>5. \A s \in Streams(group) :
        /\ inputs[s].of = call /\ inputs[s].by = request.name
        /\ inputs[s].lo = lo /\ inputs[s].hi = hi
  <2> SUFFICES ASSUME NEW s \in Streams(group)
               PROVE  /\ inputs[s].of = call /\ inputs[s].by = request.name
                      /\ inputs[s].lo = lo /\ inputs[s].hi = hi
    OBVIOUS
  <2>1. inputs[s] = [room |-> inputs[s].room, size |-> inputs[s].size, of |-> call,
                     by |-> request.name, lo |-> lo, hi |-> hi]
    BY <1>4
  <2> QED
    BY <2>1, OwnFields
<1>6. 4 * group - 3 \in Read(group) /\ Read(group) \subseteq Streams(group)
  BY <1>2, StreamsApart
<1>7. own = {<<request.name, call, lo, hi>>}
  BY <1>5, <1>6
<1> HIDE DEF own
<1>8. Pieces(request.name, nPixels, Len(work), call)[group] =
        Piece(request.name, lo, hi, {<<request.name, call, lo, hi>>})
  BY <1>2, PieceOf DEF lo, hi
<1> QED
  BY <1>1, <1>3, <1>7, <1>8 DEF lo, hi, own

LEMMA DecompressGroupStep ==
  ASSUME IInv, NEW group \in DOMAIN work, DecompressGroup(group), UNCHANGED build
  PROVE  /\ IInv'
         /\ group \notin DOMAIN restored
         /\ restored' = [k \in DOMAIN restored \cup {group} |->
                           Pieces(request.name, nPixels, Len(work), call)[k]]
<1> DEFINE all == Pieces(request.name, nPixels, Len(work), call)
<1>1. /\ pc = "decompress" /\ pc' = "decompress" /\ work[group] = "todo"
      /\ work' = [work EXCEPT ![group] = "done"]
      /\ UNCHANGED <<functions, instance, call, request, results, inputs>>
  BY DEF DecompressGroup, build
<1>2. restored' = [k \in DOMAIN restored \cup {group} |->
                     IF k # group THEN restored[k] ELSE all[group]]
  BY <1>1, RightPiece DEF DecompressGroup
<1>3. work \in Seq({"todo", "stored", "done"})
  BY <1>1 DEF IInv, Called
<1>4. /\ work' \in Seq({"todo", "stored", "done"}) /\ Len(work') = Len(work)
      /\ Len(work) \in Nat /\ DOMAIN work = 1 .. Len(work)
      /\ work'[group] = "done"
      /\ \A other \in DOMAIN work : other # group => work'[other] = work[other]
  BY <1>1, <1>3, WorkSet
<1>5. Called' /\ nPixels' = nPixels
  BY <1>1, <1>4, CallKept DEF IInv, Running
<1>6. all' = all
  BY <1>1, <1>4, <1>5
<1>7. /\ restored = [k \in DOMAIN restored |-> all[k]]
      /\ DOMAIN restored \subseteq 1 .. Len(work)
      /\ \A other \in 1 .. Len(work) : other \in DOMAIN restored <=> work[other] = "done"
      /\ Len(inputs) = 4 * Len(work)
      /\ \A other \in 1 .. Len(work) : Own(inputs, other)
  BY <1>1 DEF IInv, Restoring
<1> HIDE DEF all
<1>8. \A k \in DOMAIN restored : restored[k] = all[k]
  BY <1>7
<1>9. restored' = [k \in DOMAIN restored \cup {group} |-> all[k]]
  BY <1>2, <1>8
<1>10. DOMAIN restored' = DOMAIN restored \cup {group}
  BY <1>9
<1>11. restored' = [k \in DOMAIN restored' |-> all'[k]]
  BY <1>6, <1>9, <1>10
<1>12. \A other \in 1 .. Len(work) : Own(inputs, other)'
  BY <1>1, <1>4, <1>5, <1>7 DEF Own
<1>13. \A other \in 1 .. Len(work) : other \in DOMAIN restored' <=> work'[other] = "done"
  BY <1>4, <1>7, <1>10
<1>14. Restoring'
  BY <1>1, <1>4, <1>7, <1>10, <1>11, <1>12, <1>13 DEF Restoring, all
<1>15. Instances' /\ Compressing'
  BY <1>1 DEF IInv, Instances, Compressing, IsList
<1>16. group \notin DOMAIN restored
  BY <1>1, <1>4, <1>7
<1> QED
  BY <1>5, <1>9, <1>14, <1>15, <1>16 DEF IInv, all

LEMMA DecompressReturnStep ==
  ASSUME IInv, DecompressReturn, UNCHANGED build
  PROVE  /\ IInv' /\ DOMAIN restored = 1 .. Len(work)
<1>1. /\ pc = "decompress" /\ pc' = "returned"
      /\ \A group \in DOMAIN work : work[group] = "done"
      /\ UNCHANGED <<functions, instance, call, request, results, nResults, work, inputs, restored>>
  BY DEF DecompressReturn, build
<1>2. work \in Seq({"todo", "stored", "done"}) /\ DOMAIN work = 1 .. Len(work)
  BY <1>1, LenProperties DEF IInv, Called
<1>3. Called' /\ nPixels' = nPixels
  BY <1>1, <1>2, CallKept DEF IInv, Running
<1>4. DOMAIN restored = 1 .. Len(work)
  BY <1>1, <1>2 DEF IInv, Restoring
<1>5. Restoring'
  BY <1>1, <1>3, <1>4 DEF IInv, Restoring
<1>6. Instances' /\ Compressing'
  BY <1>1 DEF IInv, Instances, Compressing, IsList
<1> QED
  BY <1>3, <1>4, <1>5, <1>6 DEF IInv

LEMMA UnchangedIInv == IInv /\ UNCHANGED vars => IInv'
<1> SUFFICES ASSUME IInv, UNCHANGED vars PROVE IInv'
  OBVIOUS
<1>1. UNCHANGED <<functions, instance, pc, call, request, results, nResults, work, inputs, restored>>
  BY DEF vars, build
<1>2. nPixels' = nPixels
  BY <1>1 DEF nPixels
<1>3. Instances' /\ Called'
  BY <1>1, <1>2 DEF IInv, Instances, Called, Running
<1>4. Compressing'
  BY <1>1, <1>2 DEF IInv, Compressing, IsList, Own
<1>5. Restoring'
  BY <1>1, <1>2 DEF IInv, Restoring, Own
<1> QED
  BY <1>3, <1>4, <1>5 DEF IInv

LEMMA NextIInv == IInv /\ [Next]_vars => IInv'
<1> SUFFICES ASSUME IInv, [Next]_vars PROVE IInv'
  OBVIOUS
<1>1. ASSUME NEW name \in Engines, NewCompressor(name), UNCHANGED build PROVE IInv'
  BY <1>1, NewCompressorStep
<1>2. ASSUME NEW r \in Requests, NEW procs \in Procs, Compress(r, procs), UNCHANGED build
      PROVE  IInv'
  BY <1>2, CompressStep
<1>3. CASE DeleteCompressor /\ UNCHANGED build
  BY <1>3, DeleteCompressorStep
<1>4. CASE Transfer
  <2>1. UNCHANGED build
    BY <1>4 DEF Transfer
  <2>2. ASSUME NEW group \in DOMAIN work, CompressGroup(group) PROVE IInv'
    BY <2>1, <2>2, CompressGroupStep
  <2>3. ASSUME NEW group \in DOMAIN work, Pack(group) PROVE IInv'
    BY <2>1, <2>3, PackStep
  <2>4. ASSUME NEW group \in DOMAIN work, DecompressGroup(group) PROVE IInv'
    BY <2>1, <2>4, DecompressGroupStep
  <2>5. CASE CompressReturn
    BY <2>1, <2>5, CompressReturnStep
  <2>6. CASE Decompress
    BY <2>1, <2>6, DecompressStep
  <2>7. CASE DecompressReturn
    BY <2>1, <2>7, DecompressReturnStep
  <2> QED
    BY <1>4, <2>2, <2>3, <2>4, <2>5, <2>6, <2>7 DEF Transfer, GroupStep
<1>5. CASE Stopped \/ UNCHANGED vars
  BY <1>5, UnchangedIInv DEF Stopped
<1> QED
  BY <1>1, <1>2, <1>3, <1>4, <1>5 DEF Next

\* The streams of a call stay where its groups put them, and what is restored
\* is made of them.
THEOREM Inductive == Spec => []IInv
<1>1. Init => IInv
  BY InitIInv
<1>2. IInv /\ [Next]_vars => IInv'
  BY NextIInv
<1> QED
  BY <1>1, <1>2, PTL DEF Spec

\* compress() returns streams of this call only, by the engine of the instance,
\* however long the vector of the instance is.
THEOREM ResultsAreOwn ==
  Spec => [](pc = "compressed" =>
               \A s \in 1 .. nResults : results[s].of = call /\ results[s].by = request.name)
<1> DEFINE Fresh == pc = "compressed" =>
               \A s \in 1 .. nResults : results[s].of = call /\ results[s].by = request.name
<1>1. IInv => Fresh
  <2> SUFFICES ASSUME IInv, pc = "compressed", NEW s \in 1 .. nResults
               PROVE  results[s].of = call /\ results[s].by = request.name
    OBVIOUS
  <2>1. Len(work) \in Nat /\ nResults = 4 * Len(work)
    BY LenProperties DEF IInv, Called, Compressing
  <2>2. (s + 3) \div 4 \in 1 .. Len(work) /\ s \in Streams((s + 3) \div 4)
    BY <2>1 DEF Streams
  <2>3. results[s] = [room |-> results[s].room, size |-> results[s].size, of |-> call,
                      by |-> request.name, lo |-> First((s + 3) \div 4, nPixels, Len(work)),
                      hi |-> Behind((s + 3) \div 4, nPixels, Len(work))]
    BY <2>2 DEF IInv, Compressing, Own, OwnStreams
  <2> QED
    BY <2>3, OwnFields
<1> QED
  BY <1>1, Inductive, PTL

------------------------------------------------------------------------------
(* PixelGroups implements Codec *)

\* A call of any engine has one of the sources of the abstract specification.
LEMMA PossiblePieces ==
  ASSUME NEW e \in Engines, NEW n, NEW g, <<n, g>> \in Splits, NEW c \in 0 .. MaxCalls, c # 0
  PROVE  Pieces(e, n, g, c) \in Possible
<1>1. c \in 1 .. MaxCalls
  BY GroupsAssumption
<1> DEFINE split == <<n, g>>
<1>2. split \in Splits /\ split[1] = n /\ split[2] = g
  OBVIOUS
<1> HIDE DEF split
<1>3. Pieces(e, split[1], split[2], c) \in Possible
  BY <1>1, <1>2 DEF Possible
<1> QED
  BY <1>2, <1>3

\* What is to be restored, as long as there is a call.
LEMMA SourceOfCall ==
  ASSUME IInv
  PROVE  /\ pc = "idle" => work = <<>>
         /\ pc # "idle" => work # <<>>
         /\ work # <<>> => Pieces(request.name, nPixels, Len(work), call) \in Possible
<1>1. pc = "idle" => work = <<>>
  BY DEF IInv, Called
<1>2. pc # "idle" => work # <<>>
  BY DEF IInv, Called
<1>3. ASSUME pc # "idle"
      PROVE  Pieces(request.name, nPixels, Len(work), call) \in Possible
  <2>1. /\ <<nPixels, Len(work)>> \in Splits /\ request.name \in Engines
        /\ call \in 0 .. MaxCalls /\ call # 0
    BY <1>3 DEF IInv, Called
  <2> QED
    BY <2>1, PossiblePieces
<1> QED
  BY <1>1, <1>2, <1>3

\* The steps in between change neither what is to be restored nor what was.
LEMMA QuietStep ==
  ASSUME IInv, NEW group \in DOMAIN work,
         CompressGroup(group) \/ Pack(group) \/ CompressReturn \/ Decompress
  PROVE  /\ Running /\ Running' /\ UNCHANGED <<call, request, restored>>
         /\ Len(work') = Len(work)
<1>1. CASE CompressGroup(group)
  <2>1. PICK state \in {"stored", "done"} : work' = [work EXCEPT ![group] = state]
    BY <1>1 DEF CompressGroup
  <2>2. /\ pc = "compress" /\ pc' = "compress" /\ UNCHANGED <<call, request, restored>>
    BY <1>1 DEF CompressGroup
  <2>3. Len(work') = Len(work)
    BY <2>1, <2>2, WorkSet DEF IInv, Called
  <2> QED
    BY <2>2, <2>3 DEF Running
<1>2. CASE Pack(group)
  <2>1. /\ pc = "compress" /\ pc' = "compress" /\ work' = [work EXCEPT ![group] = "done"]
        /\ UNCHANGED <<call, request, restored>>
    BY <1>2 DEF Pack
  <2>2. Len(work') = Len(work)
    BY <2>1, WorkSet DEF IInv, Called
  <2> QED
    BY <2>1, <2>2 DEF Running
<1>3. CASE CompressReturn
  BY <1>3 DEF CompressReturn, Running
<1>4. CASE Decompress
  <2>1. /\ pc = "compressed" /\ pc' = "decompress"
        /\ work' = [g \in 1 .. nResults \div 4 |-> "todo"]
        /\ UNCHANGED <<call, request, restored>>
    BY <1>4 DEF Decompress
  <2>2. work' = [g \in 1 .. Len(work) |-> "todo"] /\ Len(work) \in Nat
    BY <2>1, HandedOver
  <2>3. [g \in 1 .. Len(work) |-> "todo"] \in Seq({"todo", "stored", "done"})
    BY <2>2, IsASeq
  <2>4. Len(work') = Len(work)
    BY <2>2, <2>3, LenProperties
  <2> QED
    BY <2>1, <2>4 DEF Running
<1> QED
  BY <1>1, <1>2, <1>3, <1>4

\* Whatever the bounds of the groups are: each group is restored, by the engine
\* of the name, from its own streams of this call and at its own place.
THEOREM ImplementsCodec == Spec => Promise!Init /\ [][Promise!Next]_(Promise!vars)
<1> DEFINE src == IF work = <<>> THEN <<>> ELSE Pieces(request.name, nPixels, Len(work), call)
           ret == pc \in {"idle", "returned"}
<1>1. ASSUME Init
      PROVE  Promise!Init
  BY <1>1 DEF Init, Promise!Init, Promise!Missing, Possible
<1>2. ASSUME IInv, [Next]_vars
      PROVE  [Promise!Next]_(Promise!vars)
  <2>0. IInv'
    BY <1>2, NextIInv
  <2>1. ASSUME UNCHANGED <<pc, call, request, work, restored>>
        PROVE  UNCHANGED Promise!vars
    <3>1. nPixels' = nPixels
      BY <2>1 DEF nPixels
    <3> QED
      BY <2>1, <3>1 DEF Promise!vars
  <2>2. CASE \/ \E name \in Engines : NewCompressor(name)
             \/ DeleteCompressor \/ Stopped \/ UNCHANGED vars
    BY <2>1, <2>2 DEF NewCompressor, DeleteCompressor, Stopped, vars
  <2>3. ASSUME NEW r \in Requests, NEW procs \in Procs, Compress(r, procs)
        PROVE  Promise!Next
    <3>1. pc \in {"idle", "returned"} /\ pc' = "compress" /\ restored' = <<>>
      BY <2>3 DEF Compress
    <3>2. src' \in Possible
      <4>1. /\ <<nPixels', Len(work')>> \in Splits /\ request'.name \in Engines
            /\ call' \in 0 .. MaxCalls /\ call' # 0
        BY <2>0, <3>1 DEF IInv, Called
      <4>2. Pieces(request'.name, nPixels', Len(work'), call') \in Possible
        BY <4>1, PossiblePieces
      <4>3. <<>> \in Possible
        BY DEF Possible
      <4> QED
        BY <4>2, <4>3
    <3>3. ret /\ ret' = FALSE
      BY <3>1
    <3> QED
      BY <3>1, <3>2, <3>3 DEF Promise!Next, Promise!Call
  <2>4. ASSUME NEW group \in DOMAIN work,
               CompressGroup(group) \/ Pack(group) \/ CompressReturn \/ Decompress
        PROVE  UNCHANGED Promise!vars
    <3>1. /\ Running /\ Running' /\ UNCHANGED <<call, request, restored>>
          /\ Len(work') = Len(work)
      BY <1>2, <2>4, QuietStep
    <3>2. nPixels' = nPixels
      BY <3>1 DEF nPixels
    <3>3. work # <<>> /\ (work # <<>>)'
      BY <1>2, <2>0, <3>1, SourceOfCall DEF Running, IInv, Called
    <3>4. src' = src /\ ret' = ret
      BY <3>1, <3>2, <3>3 DEF Running
    <3> QED
      BY <3>1, <3>4 DEF Promise!vars
  <2>5. ASSUME NEW group \in DOMAIN work, DecompressGroup(group), UNCHANGED build
        PROVE  Promise!Next
    <3> DEFINE all == Pieces(request.name, nPixels, Len(work), call)
    <3>1. /\ group \notin DOMAIN restored
          /\ restored' = [k \in DOMAIN restored \cup {group} |-> all[k]]
      BY <1>2, <2>5, DecompressGroupStep
    <3>2. /\ pc = "decompress" /\ pc' = "decompress" /\ UNCHANGED <<call, request>>
          /\ work' = [work EXCEPT ![group] = "done"]
      BY <2>5 DEF DecompressGroup
    <3>3. Len(work') = Len(work) /\ DOMAIN work = 1 .. Len(work)
      BY <1>2, <3>2, WorkSet DEF IInv, Called
    <3>4. nPixels' = nPixels
      BY <3>2 DEF nPixels
    <3>5. work # <<>> /\ work' # <<>>
      BY <1>2, <3>2, <3>3 DEF IInv, Called
    <3>6. src = all /\ src' = src /\ DOMAIN src = 1 .. Len(work)
      BY <3>2, <3>3, <3>4, <3>5, PieceOf
    <3>7. ~ret /\ ret' = ret
      BY <3>2
    <3> HIDE DEF all, src
    <3>8. {group} \in SUBSET (DOMAIN src \ DOMAIN restored) /\ {group} # {}
      BY <3>1, <3>3, <3>6
    <3>9. restored' = [k \in DOMAIN restored \cup {group} |-> src[k]]
      BY <3>1, <3>6
    <3> QED
      BY <3>6, <3>7, <3>8, <3>9 DEF src, Promise!Next, Promise!Restore, Promise!Missing
  <2>6. ASSUME DecompressReturn, UNCHANGED build
        PROVE  Promise!Next
    <3>1. DOMAIN restored = 1 .. Len(work)
      BY <1>2, <2>6, DecompressReturnStep
    <3>2. pc = "decompress" /\ pc' = "returned" /\ UNCHANGED <<call, request, work, restored>>
      BY <2>6 DEF DecompressReturn
    <3>3. nPixels' = nPixels
      BY <3>2 DEF nPixels
    <3>4. work # <<>>
      BY <1>2, <3>2, SourceOfCall
    <3>5. DOMAIN src = 1 .. Len(work) /\ src' = src
      BY <3>2, <3>3, <3>4, PieceOf
    <3>6. ~ret /\ ret' = TRUE
      BY <3>2
    <3> HIDE DEF src
    <3>7. DOMAIN src \ DOMAIN restored = {}
      BY <3>1, <3>5
    <3> QED
      BY <3>2, <3>5, <3>6, <3>7 DEF src, Promise!Next, Promise!Return, Promise!Missing
  <2>7. CASE Transfer
    <3>1. UNCHANGED build
      BY <2>7 DEF Transfer
    <3>2. CASE CompressReturn \/ Decompress
      <4>1. 1 \in DOMAIN work
        <5>1. pc # "idle"
          BY <3>2 DEF CompressReturn, Decompress
        <5>2. work \in Seq({"todo", "stored", "done"}) /\ Len(work) # 0
          BY <1>2, <5>1 DEF IInv, Called
        <5> QED
          BY <5>2, LenProperties
      <4> QED
        BY <2>4, <3>2, <4>1
    <3>3. ASSUME NEW group \in DOMAIN work, GroupStep(group)
          PROVE  [Promise!Next]_(Promise!vars)
      BY <2>4, <2>5, <3>1, <3>3 DEF GroupStep
    <3>4. CASE DecompressReturn
      BY <2>6, <3>1, <3>4
    <3> QED
      BY <2>7, <3>2, <3>3, <3>4 DEF Transfer
  <2> QED
    BY <1>2, <2>2, <2>3, <2>7 DEF Next
<1> QED
  BY <1>1, <1>2, Inductive, PTL DEF Spec

------------------------------------------------------------------------------
(* The groups of a loop are apart *)

\* Whatever a float makes of the width: the groups of compress() and decompress() start
\* with the first pixel, follow each other without a gap and share no pixel, and the
\* last one ends where the pixels do, or a pixel early, or, above 2^23, a pixel late.
THEOREM Apart == Spec => []GroupsApart
<1>1. IInv => GroupsApart
  <2> SUFFICES ASSUME IInv, pc \in {"compress", "decompress"}
               PROVE  GroupsApart
    BY DEF GroupsApart
  <2>1. <<nPixels, Len(work)>> \in Splits
    BY DEF IInv, Called
  <2> DEFINE n == nPixels
             g == Len(work)
  <2> HIDE DEF n, g
  <2>2. /\ First(1, n, g) = 0
        /\ \A i \in 1 .. g : First(i, n, g) <= Behind(i, n, g)
        /\ \A i \in 1 .. g - 1 : First(i + 1, n, g) = Behind(i, n, g)
        /\ Behind(g, n, g) \in n - 1 .. n + (IF n < 2^23 THEN 0 ELSE 1)
    BY <2>1, PartitionOf DEF n, g
  <2> QED
    BY <2>2 DEF GroupsApart, n, g
<1> QED
  BY <1>1, Inductive, PTL

------------------------------------------------------------------------------
(* The buffers and their types *)

\* The room _setupResults() reserves for a stream, in a partition of n pixels into g
\* groups of words of so many bytes.
Reserve(n, word, g) == (Bytes(n, word) \div (4 * g) + 1) * 2

\* The types of what the first invariant does not speak about.
Lists ==
  /\ caching \in BOOLEAN /\ nPixels \in Pixels \cup {0}
  /\ request.flags \subseteq {"DATA_1D", "IGNORE_ALPHA"}
  /\ results \in Seq(Result) /\ inputs \in Seq(Result)
  /\ nResults \in 0 .. Len(results)

\* The streams of a group that compress() has finished are not empty.
Filled ==
  pc \in {"compress", "compressed"} =>
    \A group \in 1 .. Len(work) :
      ((pc = "compressed" \/ work[group] # "todo") /\ nPixels > 0) =>
        \A s \in Streams(group) : results[s].size > 0

\* A group that is still to be compressed has its buffers, whatever is packed
\* meanwhile.
Roomy ==
  pc = "compress" =>
    \A group \in 1 .. Len(work) :
      work[group] = "todo" =>
        \A s \in Streams(group) :
          results[s].room >= Reserve(nPixels, WordBytes, Len(work))

BufferInv == Lists /\ Filled /\ Roomy

\* The fields of a result.
LEMMA ResultFields ==
  ASSUME NEW room \in Nat, NEW size \in Nat, NEW lo \in Nat, NEW hi \in Nat,
         NEW of \in Nat, NEW by \in Engines
  PROVE  LET it == [room |-> room, lo |-> lo, hi |-> hi, of |-> of, by |-> by, size |-> size]
         IN it \in Result /\ it.room = room /\ it.size = size
BY DEF Result

\* A result with another room.
LEMMA ResultRoom ==
  ASSUME NEW it \in Result, NEW room \in Nat
  PROVE  LET new == [it EXCEPT !.room = room]
         IN /\ new \in Result /\ new.room = room /\ new.size = it.size
            /\ it.room \in Nat /\ it.size \in Nat
BY DEF Result

\* A function of the places of a list of results is one if all its values are.
LEMMA ResultList ==
  ASSUME NEW n \in Nat, NEW f, f = [i \in 1 .. n |-> f[i]], \A i \in 1 .. n : f[i] \in Result
  PROVE  f \in Seq(Result) /\ Len(f) = n
<1>1. [i \in 1 .. n |-> f[i]] \in Seq(Result)
  BY IsASeq
<1>2. f \in Seq(Result)
  BY <1>1
<1>3. DOMAIN f = 1 .. n
  OBVIOUS
<1> QED
  BY <1>2, <1>3, LenProperties

\* The streams of words have a length, and none of them is empty.
LEMMA StreamLengths ==
  ASSUME WordBytes \in {1, 2}, NEW k \in Nat
  PROVE  /\ Shortest(k) \in Nat /\ Longest(k) \in Nat
         /\ k > 0 => Shortest(k) > 0 /\ Longest(k) > 0
         /\ Longest(k) <= 2 * k + 1
<1>1. LongestRun \in Nat \ {0}
  <2>1. CASE WordBytes = 1
    <3>1. \A e : e = 8 => 2^e = 256
      BY SMT
    <3>2. LongestRun = 255
      BY <2>1, <3>1 DEF LongestRun
    <3> QED
      BY <3>2
  <2>2. CASE WordBytes = 2
    <3>1. \A e : e = 16 => 2^e = 65536
      BY SMT
    <3>2. LongestRun = 65535
      BY <2>2, <3>1 DEF LongestRun
    <3> QED
      BY <3>2
  <2> QED
    BY <2>1, <2>2
<1> DEFINE q == k \div LongestRun
           r == k % LongestRun
<1>2. q \in Nat /\ r \in Nat /\ k = q * LongestRun + r
  BY <1>1, Division
<1>3. Shortest(k) = 3 * q + Smaller(3, r)
  BY DEF Shortest
<1>4. k > 0 => q > 0 \/ r > 0
  <2>1. q = 0 => q * LongestRun = 0
    BY <1>1
  <2> HIDE DEF q, r
  <2> QED
    BY <1>2, <2>1
<1> HIDE DEF q, r
<1>5. Shortest(k) \in Nat /\ (k > 0 => Shortest(k) > 0)
  BY <1>2, <1>3, <1>4 DEF Smaller
<1>6. Longest(k) \in Nat /\ Longest(k) <= 2 * k + 1 /\ (k > 0 => Longest(k) > 0)
  BY DEF Longest
<1> QED
  BY <1>5, <1>6

\* The words of the engine that is asked for have one byte or two.
LEMMA WordsOf ==
  ASSUME NEW e \in Engines, instance = <<[name |-> e, engine |-> e]>>
  PROVE  WordBytes = WordSize[e] /\ WordBytes \in {1, 2}
<1>1. instance[1].engine = e
  OBVIOUS
<1> QED
  BY <1>1, GroupsAssumption DEF WordBytes

\* Together with the first invariant the types are all there.
LEMMA ListsTyped ==
  ASSUME IInv, Lists
  PROVE  TypeOK
<1>1. /\ functions \in Orders
      /\ instance \in {<<>>} \cup {<<it>> : it \in [name : Engines, engine : Engines]}
  <2>1. CASE instance = <<>>
    BY <2>1 DEF IInv, Instances
  <2>2. CASE instance # <<>>
    <3>1. PICK e \in Engines : instance = <<[name |-> e, engine |-> e]>>
      BY <2>2 DEF IInv, Instances
    <3>2. [name |-> e, engine |-> e] \in [name : Engines, engine : Engines]
      OBVIOUS
    <3> QED
      BY <3>1, <3>2 DEF IInv, Instances
  <2> QED
    BY <2>1, <2>2
<1>2. work \in Seq({"todo", "stored", "done"})
  <2>1. pc = "idle" => work = <<>>
    BY DEF IInv, Called
  <2>2. <<>> \in Seq({"todo", "stored", "done"})
    OBVIOUS
  <2> QED
    BY <2>1, <2>2 DEF IInv, Called
<1>3. DOMAIN restored \subseteq DOMAIN work
  <2>1. DOMAIN work = 1 .. Len(work)
    BY <1>2, LenProperties
  <2>2. restored = <<>> => DOMAIN restored = {}
    OBVIOUS
  <2>3. pc \in {"idle", "compress", "compressed"} => restored = <<>>
    BY DEF IInv, Called, Compressing
  <2>4. pc \in {"decompress", "returned"} => DOMAIN restored \subseteq 1 .. Len(work)
    BY DEF IInv, Restoring
  <2>5. pc \in {"idle", "compress", "compressed", "decompress", "returned"}
    BY DEF IInv, Called
  <2> QED
    BY <2>1, <2>2, <2>3, <2>4, <2>5
<1>4. /\ pc \in {"idle", "compress", "compressed", "decompress", "returned"}
      /\ call \in 0 .. MaxCalls
  BY DEF IInv, Called
<1> QED
  BY <1>1, <1>2, <1>3, <1>4, Zenon DEF TypeOK, Lists

\* Between the calls there is nothing in the buffers to speak of.
LEMMA BuffersBetweenCalls ==
  ASSUME BufferInv, pc \in {"idle", "returned"}, pc' = pc, results' = <<>>, nResults' = 0,
         UNCHANGED <<caching, request, inputs>>
  PROVE  BufferInv'
<1>1. results' \in Seq(Result) /\ Len(results') = 0
  OBVIOUS
<1>2. nPixels' = nPixels
  BY DEF nPixels
<1>3. Lists'
  BY <1>1, <1>2 DEF BufferInv, Lists
<1>4. Filled' /\ Roomy'
  BY DEF Filled, Roomy
<1> QED
  BY <1>3, <1>4 DEF BufferInv

\* compress() reserves what its groups need, and cuts off no buffer it had.
LEMMA CompressBuffers ==
  ASSUME IInv, BufferInv, NEW r \in Requests, NEW procs \in Procs, Compress(r, procs),
         UNCHANGED build
  PROVE  BufferInv'
<1> DEFINE n == NPixels(r.dims, r.flags)
           g == Groups(n, WordBytes, procs)
           many == Larger(Len(results), 4 * g)
<1>1. PICK e \in Engines : instance = <<[name |-> e, engine |-> e]>>
  BY DEF IInv, Instances, Compress
<1>2. WordBytes = WordSize[e] /\ WordBytes \in {1, 2}
  BY <1>1, WordsOf
<1>3. g \in Nat \ {0}
  BY <1>2, GroupsOfCall
<1>4. /\ pc' = "compress" /\ request' = [name |-> instance[1].name, dims |-> r.dims, flags |-> r.flags]
      /\ work' = [group \in 1 .. g |-> "todo"]
      /\ inputs' = <<>> /\ nResults' = nResults /\ instance' = instance /\ caching' = caching
      /\ functions' = functions
      /\ results' = [s \in 1 .. many |->
                       LET result == IF s <= Len(results) THEN results[s] ELSE Empty
                       IN IF s <= 4 * g THEN Reserved(result, n, g) ELSE result]
  BY DEF Compress, build
<1>5. nPixels' = n /\ n \in Pixels /\ n \in Nat /\ request'.flags = r.flags
  BY <1>4, GroupsAssumption DEF nPixels, Pixels
<1>6. WordBytes' = WordBytes
  BY <1>4 DEF WordBytes
<1> DEFINE reserve == Reserve(n, WordBytes, g)
<1>7. reserve \in Nat
  <2>1. Bytes(n, WordBytes) \in Nat
    BY <1>2, <1>5 DEF Bytes
  <2>2. 4 * g \in Nat \ {0}
    BY <1>3
  <2> DEFINE b == Bytes(n, WordBytes)
             q == 4 * g
  <2> HIDE DEF b, q
  <2>3. b \div q \in Nat
    BY <2>1, <2>2, Division DEF b, q
  <2>4. (b \div q + 1) * 2 \in Nat
    BY <2>3
  <2> QED
    BY <2>4 DEF Reserve, b, q
<1>8. \A it : Reserved(it, n, g) = [it EXCEPT !.room = Larger(@, reserve)]
  BY DEF Reserved, Reserve
<1> HIDE DEF n, g, reserve
<1>9. /\ results \in Seq(Result) /\ Len(results) \in Nat /\ DOMAIN results = 1 .. Len(results)
      /\ nResults \in 0 .. Len(results)
  BY LenProperties DEF BufferInv, Lists
<1>10. many \in Nat /\ many >= 4 * g /\ many >= Len(results)
  BY <1>3, <1>9 DEF Larger
<1> HIDE DEF many
<1>11. Empty \in Result
  <2>1. functions[1] \in Engines
    BY Found DEF IInv
  <2> QED
    BY <2>1 DEF Empty, Result
<1>12. ASSUME NEW s \in 1 .. many
       PROVE  results'[s] \in Result /\ (s <= 4 * g => results'[s].room >= reserve)
  <2>1. PICK it : it = IF s <= Len(results) THEN results[s] ELSE Empty
    OBVIOUS
  <2>2. it \in Result
    <3>1. CASE s <= Len(results)
      <4>1. s \in 1 .. Len(results)
        BY <1>9, <1>10, <3>1
      <4> QED
        BY <1>9, <2>1, <3>1, <4>1, ElementOfSeq
    <3>2. CASE ~(s <= Len(results))
      BY <1>11, <2>1, <3>2
    <3> QED
      BY <3>1, <3>2
  <2>3. results'[s] = IF s <= 4 * g THEN Reserved(it, n, g) ELSE it
    BY <1>4, <2>1
  <2>4. it.room \in Nat
    BY <2>2 DEF Result
  <2> DEFINE room == Larger(it.room, reserve)
  <2>5. room \in Nat /\ room >= reserve
    BY <1>7, <2>4 DEF Larger
  <2> HIDE DEF room
  <2>6. [it EXCEPT !.room = room] \in Result /\ [it EXCEPT !.room = room].room = room
    BY <2>2, <2>5, ResultRoom
  <2>7. Reserved(it, n, g) = [it EXCEPT !.room = room]
    BY <1>8 DEF room
  <2> QED
    BY <2>2, <2>3, <2>5, <2>6, <2>7
<1>13. results' \in Seq(Result) /\ Len(results') = many
  <2>1. results' = [s \in 1 .. many |-> results'[s]]
    BY <1>4, Zenon
  <2> QED
    BY <1>10, <1>12, <2>1, ResultList
<1>14. Lists'
  <2>1. nResults' \in 0 .. Len(results')
    BY <1>4, <1>9, <1>10, <1>13
  <2>2. inputs' \in Seq(Result)
    BY <1>4
  <2>3. request'.flags \subseteq {"DATA_1D", "IGNORE_ALPHA"}
    BY <1>5, GroupsAssumption
  <2> QED
    BY <1>4, <1>5, <1>13, <2>1, <2>2, <2>3 DEF BufferInv, Lists
<1>15. Len(work') = g /\ \A group \in 1 .. g : work'[group] = "todo"
  <2>1. [group \in 1 .. g |-> "todo"] \in Seq({"todo"})
    BY <1>3, IsASeq
  <2> QED
    BY <1>3, <1>4, <2>1, LenProperties
<1>16. Filled'
  BY <1>4, <1>15 DEF Filled
<1>17. Roomy'
  <2> SUFFICES ASSUME NEW group \in 1 .. g, NEW s \in Streams(group)
               PROVE  results'[s].room >= reserve
    BY <1>5, <1>6, <1>15 DEF Roomy, reserve
  <2>1. s \in 1 .. 4 * g
    BY <1>3, StreamsApart
  <2>2. s \in 1 .. many /\ s <= 4 * g
    BY <1>3, <1>10, <2>1
  <2> QED
    BY <1>12, <2>2
<1> QED
  BY <1>14, <1>16, <1>17 DEF BufferInv

\* A step of a group in compress() may make its own buffers smaller, but none of a
\* group that is still to be compressed.
LEMMA BuffersOfGroup ==
  ASSUME IInv, BufferInv, pc = "compress", pc' = "compress", NEW group \in DOMAIN work,
         NEW state \in {"stored", "done"}, work' = [work EXCEPT ![group] = state],
         UNCHANGED <<caching, instance, request, nResults, inputs>>,
         results' = [s \in DOMAIN results |-> results'[s]],
         \A s \in DOMAIN results : s \notin Streams(group) => results'[s] = results[s],
         \A s \in Streams(group) :
           results'[s] \in Result /\ (nPixels > 0 => results'[s].size > 0)
  PROVE  BufferInv'
<1>1. /\ results \in Seq(Result) /\ Len(results) \in Nat /\ DOMAIN results = 1 .. Len(results)
  BY LenProperties DEF BufferInv, Lists
<1>2. \A s \in 1 .. Len(results) : results'[s] \in Result
  <2> SUFFICES ASSUME NEW s \in 1 .. Len(results) PROVE results'[s] \in Result
    OBVIOUS
  <2>1. results[s] \in Result
    BY <1>1, ElementOfSeq
  <2> QED
    BY <1>1, <2>1
<1>3. results' \in Seq(Result) /\ Len(results') = Len(results)
  BY <1>1, <1>2, ResultList
<1>4. nPixels' = nPixels /\ WordBytes' = WordBytes
  BY DEF nPixels, WordBytes
<1>5. Lists'
  BY <1>3, <1>4 DEF BufferInv, Lists
<1>6. /\ Len(work') = Len(work) /\ Len(work) \in Nat /\ DOMAIN work = 1 .. Len(work)
      /\ work'[group] = state
      /\ \A other \in DOMAIN work : other # group => work'[other] = work[other]
  <2>1. work \in Seq({"todo", "stored", "done"})
    BY DEF IInv, Called
  <2> QED
    BY <2>1, WorkSet
<1>7. \A other \in 1 .. Len(work) : other # group =>
        \A s \in Streams(other) : results'[s] = results[s]
  <2> SUFFICES ASSUME NEW other \in 1 .. Len(work), other # group, NEW s \in Streams(other)
               PROVE  results'[s] = results[s]
    OBVIOUS
  <2>1. s \in 1 .. 4 * Len(work) /\ s \notin Streams(group)
    BY <1>6, StreamsApart
  <2>2. Len(results) >= 4 * Len(work)
    BY DEF IInv, Compressing
  <2>3. s \in DOMAIN results
    BY <1>1, <1>6, <2>1, <2>2
  <2> QED
    BY <2>1, <2>3
<1>8. Filled'
  <2> SUFFICES ASSUME NEW other \in 1 .. Len(work), work'[other] # "todo", nPixels > 0,
                      NEW s \in Streams(other)
               PROVE  results'[s].size > 0
    BY <1>4, <1>6 DEF Filled
  <2>1. CASE other = group
    BY <2>1
  <2>2. CASE other # group
    <3>1. results[s].size > 0
      BY <1>6, <2>2 DEF BufferInv, Filled
    <3> QED
      BY <1>7, <2>2, <3>1
  <2> QED
    BY <2>1, <2>2
<1>9. Roomy'
  <2> SUFFICES ASSUME NEW other \in 1 .. Len(work), work'[other] = "todo",
                      NEW s \in Streams(other)
               PROVE  results'[s].room >= Reserve(nPixels, WordBytes, Len(work))
    BY <1>4, <1>6 DEF Roomy
  <2>1. other # group
    BY <1>6
  <2>2. results[s].room >= Reserve(nPixels, WordBytes, Len(work))
    BY <1>6, <2>1 DEF BufferInv, Roomy
  <2> QED
    BY <1>7, <2>1, <2>2
<1> QED
  BY <1>5, <1>8, <1>9 DEF BufferInv

\* The streams of a group that has pixels are not empty, nor those of one without alpha.
LEMMA CompressGroupBuffers ==
  ASSUME IInv, BufferInv, NEW group \in DOMAIN work, CompressGroup(group), UNCHANGED build
  PROVE  BufferInv'
<1> DEFINE lo == First(group, nPixels, Len(work))
           hi == Behind(group, nPixels, Len(work))
           state == IF lo = hi \/ caching THEN "done" ELSE "stored"
<1>1. PICK words \in {Shortest(hi - lo), Longest(hi - lo)} :
        results' = [s \in DOMAIN results |->
          IF s \notin Streams(group) THEN results[s]
          ELSE [room |-> results[s].room, lo |-> lo, hi |-> hi, of |-> call,
                by |-> instance[1].engine,
                size |-> IF s % 4 = 0 /\ ~useAlpha /\ lo < hi
                         THEN WordBytes ELSE words * WordBytes]]
  BY DEF CompressGroup
<1>2. /\ pc = "compress" /\ pc' = "compress"
      /\ work' = [work EXCEPT ![group] = state]
      /\ UNCHANGED <<caching, functions, instance, request, nResults, inputs>>
  BY DEF CompressGroup, build
<1>3. /\ request.name \in Engines /\ call \in Nat
      /\ instance = <<[name |-> request.name, engine |-> request.name]>>
      /\ <<nPixels, Len(work)>> \in Splits /\ work \in Seq({"todo", "stored", "done"})
  BY <1>2, GroupsAssumption DEF IInv, Called, Running
<1>4. instance[1].engine = request.name /\ WordBytes \in {1, 2}
  BY <1>3, WordsOf
<1>5. group \in 1 .. Len(work) /\ Len(work) \in Nat
  BY <1>3, LenProperties
<1>6. lo \in Nat /\ hi \in Nat /\ hi - lo \in Nat /\ (nPixels > 0 => hi - lo > 0)
  <2>1. lo \in Nat /\ hi \in Nat /\ lo <= hi /\ (nPixels > 0 => lo < hi)
    BY <1>3, <1>5, PartitionOf
  <2> HIDE DEF lo, hi
  <2> QED
    BY <2>1
<1> HIDE DEF lo, hi
<1>7. state \in {"stored", "done"}
  OBVIOUS
<1> HIDE DEF state
<1>8. words \in Nat /\ (nPixels > 0 => words > 0)
  BY <1>1, <1>4, <1>6, StreamLengths
<1>9. Len(results) \in Nat /\ DOMAIN results = 1 .. Len(results) /\ results \in Seq(Result)
  BY LenProperties DEF BufferInv, Lists
<1>10. Streams(group) \subseteq DOMAIN results
  <2>1. Streams(group) \subseteq 1 .. 4 * Len(work)
    BY <1>5, StreamsApart
  <2>2. Len(results) >= 4 * Len(work)
    BY <1>2 DEF IInv, Compressing
  <2> QED
    BY <1>5, <1>9, <2>1, <2>2
<1>11. ASSUME NEW s \in Streams(group)
       PROVE  results'[s] \in Result /\ (nPixels > 0 => results'[s].size > 0)
  <2> DEFINE size == IF s % 4 = 0 /\ ~useAlpha /\ lo < hi THEN WordBytes ELSE words * WordBytes
  <2>1. results'[s] = [room |-> results[s].room, lo |-> lo, hi |-> hi, of |-> call,
                       by |-> instance[1].engine, size |-> size]
    BY <1>1, <1>10
  <2>2. size \in Nat /\ (nPixels > 0 => size > 0)
    <3>1. words * WordBytes \in Nat /\ (nPixels > 0 => words * WordBytes > 0)
      <4>1. CASE WordBytes = 1
        BY <1>8, <4>1
      <4>2. CASE WordBytes = 2
        BY <1>8, <4>2
      <4> QED
        BY <1>4, <4>1, <4>2
    <3> QED
      BY <1>4, <3>1
  <2> HIDE DEF size
  <2>3. results[s].room \in Nat
    <3>1. results[s] \in Result
      BY <1>9, <1>10, ElementOfSeq
    <3> QED
      BY <3>1 DEF Result
  <2>4. results'[s] \in Result /\ results'[s].size = size
    <3>1. request.name \in Engines /\ call \in Nat /\ lo \in Nat /\ hi \in Nat
      BY <1>3, <1>6
    <3> DEFINE room == results[s].room
    <3> HIDE DEF room
    <3>2. results'[s] = [room |-> room, lo |-> lo, hi |-> hi, of |-> call,
                         by |-> request.name, size |-> size]
      BY <1>4, <2>1 DEF room
    <3>3. room \in Nat
      BY <2>3 DEF room
    <3> QED
      BY <2>2, <3>1, <3>2, <3>3, ResultFields
  <2> QED
    BY <2>2, <2>4
<1>12. results' = [s \in DOMAIN results |-> results'[s]]
  BY <1>1, Zenon
<1>13. \A s \in DOMAIN results : s \notin Streams(group) => results'[s] = results[s]
  BY <1>1
<1> QED
  BY <1>2, <1>7, <1>11, <1>12, <1>13, BuffersOfGroup

\* pack() leaves a buffer what it holds.
LEMMA PackBuffers ==
  ASSUME IInv, BufferInv, NEW group \in DOMAIN work, Pack(group), UNCHANGED build
  PROVE  BufferInv'
<1>1. /\ pc = "compress" /\ pc' = "compress" /\ work[group] = "stored"
      /\ work' = [work EXCEPT ![group] = "done"]
      /\ results' = [s \in DOMAIN results |->
           IF s \in Streams(group) THEN [results[s] EXCEPT !.room = results[s].size]
           ELSE results[s]]
      /\ UNCHANGED <<caching, instance, request, nResults, inputs>>
  BY DEF Pack, build
<1>2. Len(results) \in Nat /\ DOMAIN results = 1 .. Len(results) /\ results \in Seq(Result)
  BY LenProperties DEF BufferInv, Lists
<1>3. Len(work) \in Nat /\ group \in 1 .. Len(work)
  BY <1>1, LenProperties DEF IInv, Called
<1>4. Streams(group) \subseteq DOMAIN results
  <2>1. Streams(group) \subseteq 1 .. 4 * Len(work)
    BY <1>3, StreamsApart
  <2>2. Len(results) >= 4 * Len(work)
    BY <1>1 DEF IInv, Compressing
  <2> QED
    BY <1>2, <1>3, <2>1, <2>2
<1>5. ASSUME NEW s \in Streams(group)
      PROVE  results'[s] \in Result /\ (nPixels > 0 => results'[s].size > 0)
  <2>1. results[s] \in Result
    BY <1>2, <1>4, ElementOfSeq
  <2>2. results[s].size \in Nat
    BY <2>1, ResultRoom, <1>2
  <2>3. results'[s] = [results[s] EXCEPT !.room = results[s].size]
    BY <1>1, <1>4
  <2>4. results'[s] \in Result /\ results'[s].size = results[s].size
    BY <2>1, <2>2, <2>3, ResultRoom
  <2>5. nPixels > 0 => results[s].size > 0
    BY <1>1, <1>3 DEF BufferInv, Filled
  <2> QED
    BY <2>4, <2>5
<1>6. results' = [s \in DOMAIN results |-> results'[s]]
  BY <1>1, Zenon
<1>7. \A s \in DOMAIN results : s \notin Streams(group) => results'[s] = results[s]
  BY <1>1
<1> QED
  BY <1>1, <1>5, <1>6, <1>7, BuffersOfGroup

\* The results there are when all groups are done are those of the groups.
LEMMA CompressReturnBuffers ==
  ASSUME IInv, BufferInv, CompressReturn, UNCHANGED build
  PROVE  BufferInv'
<1>1. /\ pc = "compress" /\ pc' = "compressed" /\ nResults' = 4 * Len(work)
      /\ \A group \in DOMAIN work : work[group] = "done"
      /\ UNCHANGED <<caching, request, results, work, inputs>>
  BY DEF CompressReturn, build
<1>2. Len(work) \in Nat /\ DOMAIN work = 1 .. Len(work) /\ Len(results) \in Nat
  BY <1>1, LenProperties DEF IInv, Called, BufferInv, Lists
<1>3. nResults' \in 0 .. Len(results)
  BY <1>1, <1>2 DEF IInv, Compressing
<1>4. nPixels' = nPixels
  BY <1>1 DEF nPixels
<1>5. Lists'
  BY <1>1, <1>3, <1>4 DEF BufferInv, Lists
<1>6. \A group \in 1 .. Len(work) : work[group] # "todo"
  BY <1>1, <1>2
<1>7. Filled'
  BY <1>1, <1>4, <1>6 DEF BufferInv, Filled
<1>8. Roomy'
  BY <1>1 DEF Roomy
<1> QED
  BY <1>5, <1>7, <1>8 DEF BufferInv

\* decompress() does not touch the buffers.
LEMMA DecompressBuffers ==
  ASSUME IInv, BufferInv, pc' \in {"decompress", "returned"},
         UNCHANGED <<caching, request, results, nResults>>,
         inputs' = inputs \/ (pc = "compressed" /\ inputs' = SubSeq(results, 1, nResults))
  PROVE  BufferInv'
<1>1. inputs' \in Seq(Result)
  <2>1. CASE inputs' = inputs
    BY <2>1 DEF BufferInv, Lists
  <2>2. CASE pc = "compressed" /\ inputs' = SubSeq(results, 1, nResults)
    <3>1. results \in Seq(Result) /\ nResults \in 0 .. Len(results) /\ Len(results) \in Nat
      BY LenProperties DEF BufferInv, Lists
    <3>2. 1 \in 1 .. Len(results) + 1
      BY <3>1
    <3>3. SubSeq(results, 1, nResults) \in Seq(Result)
      BY <3>1, <3>2, SubSeqProperties
    <3> QED
      BY <2>2, <3>3
  <2> QED
    BY <2>1, <2>2
<1>2. nPixels' = nPixels
  BY DEF nPixels
<1>3. Lists'
  BY <1>1, <1>2 DEF BufferInv, Lists
<1>4. Filled' /\ Roomy'
  BY DEF Filled, Roomy
<1> QED
  BY <1>3, <1>4 DEF BufferInv

LEMMA InitBuffers == Init => BufferInv
<1> SUFFICES ASSUME Init PROVE BufferInv
  OBVIOUS
<1>1. /\ results = <<>> /\ inputs = <<>> /\ nResults = 0 /\ pc = "idle" /\ caching \in BOOLEAN
      /\ request = [name |-> functions[1], dims |-> <<0, 0>>, flags |-> {"DATA_1D"}]
  BY DEF Init
<1>2. request.dims = <<0, 0>> /\ request.flags = {"DATA_1D"}
  BY <1>1
<1>3. nPixels = 0
  BY <1>2 DEF nPixels, NPixels
<1>4. Lists
  BY <1>1, <1>2, <1>3 DEF Lists
<1>5. Filled /\ Roomy
  BY <1>1 DEF Filled, Roomy
<1> QED
  BY <1>4, <1>5 DEF BufferInv

LEMMA UnchangedBuffers == BufferInv /\ UNCHANGED vars => BufferInv'
<1> SUFFICES ASSUME BufferInv, UNCHANGED vars PROVE BufferInv'
  OBVIOUS
<1>1. UNCHANGED <<caching, functions, instance, pc, call, request, results, nResults, work, inputs, restored>>
  BY DEF vars, build
<1>2. nPixels' = nPixels /\ WordBytes' = WordBytes
  BY <1>1 DEF nPixels, WordBytes
<1> QED
  BY <1>1, <1>2 DEF BufferInv, Lists, Filled, Roomy

LEMMA NextBuffers == IInv /\ BufferInv /\ [Next]_vars => BufferInv'
<1> SUFFICES ASSUME IInv, BufferInv, [Next]_vars PROVE BufferInv'
  OBVIOUS
<1>1. ASSUME NEW name \in Engines, NewCompressor(name), UNCHANGED build PROVE BufferInv'
  BY <1>1, BuffersBetweenCalls DEF NewCompressor, build
<1>2. ASSUME NEW r \in Requests, NEW procs \in Procs, Compress(r, procs), UNCHANGED build
      PROVE  BufferInv'
  BY <1>2, CompressBuffers
<1>3. CASE DeleteCompressor /\ UNCHANGED build
  BY <1>3, BuffersBetweenCalls DEF DeleteCompressor, build
<1>4. CASE Transfer
  <2>1. UNCHANGED build
    BY <1>4 DEF Transfer
  <2>2. ASSUME NEW group \in DOMAIN work, CompressGroup(group) PROVE BufferInv'
    BY <2>1, <2>2, CompressGroupBuffers
  <2>3. ASSUME NEW group \in DOMAIN work, Pack(group) PROVE BufferInv'
    BY <2>1, <2>3, PackBuffers
  <2>4. ASSUME NEW group \in DOMAIN work, DecompressGroup(group) PROVE BufferInv'
    <3>1. /\ pc' = "decompress" /\ inputs' = inputs
          /\ UNCHANGED <<caching, request, results, nResults>>
      BY <2>1, <2>4 DEF DecompressGroup, build
    <3> QED
      BY <3>1, DecompressBuffers
  <2>5. CASE CompressReturn
    BY <2>1, <2>5, CompressReturnBuffers
  <2>6. CASE Decompress
    <3>1. /\ pc = "compressed" /\ pc' = "decompress" /\ inputs' = SubSeq(results, 1, nResults)
          /\ UNCHANGED <<caching, request, results, nResults>>
      BY <2>1, <2>6 DEF Decompress, build
    <3> QED
      BY <3>1, DecompressBuffers
  <2>7. CASE DecompressReturn
    <3>1. /\ pc' = "returned" /\ inputs' = inputs
          /\ UNCHANGED <<caching, request, results, nResults>>
      BY <2>1, <2>7 DEF DecompressReturn, build
    <3> QED
      BY <3>1, DecompressBuffers
  <2> QED
    BY <1>4, <2>2, <2>3, <2>4, <2>5, <2>6, <2>7 DEF Transfer, GroupStep
<1>5. CASE Stopped \/ UNCHANGED vars
  BY <1>5, UnchangedBuffers DEF Stopped
<1> QED
  BY <1>1, <1>2, <1>3, <1>4, <1>5 DEF Next

\* What compress() reserves stays there for a group until it is compressed, and what a
\* group has compressed is not empty.
THEOREM BuffersInductive == Spec => []BufferInv
<1>1. Init => BufferInv
  BY InitBuffers
<1>2. IInv /\ BufferInv /\ [Next]_vars => BufferInv'
  BY NextBuffers
<1> QED
  BY <1>1, <1>2, Inductive, PTL DEF Spec

\* Every variable has its type.
THEOREM Types == Spec => []TypeOK
<1>1. IInv /\ BufferInv => TypeOK
  BY ListsTyped DEF BufferInv
<1> QED
  BY <1>1, Inductive, BuffersInductive, PTL

\* The results an application collects are those of the last compress(), however many
\* the instance still has from an earlier one, and none of them is empty if there
\* were pixels.
THEOREM OwnResults == Spec => []ResultsOfThisCall
<1>1. IInv /\ BufferInv => ResultsOfThisCall
  <2> SUFFICES ASSUME IInv, BufferInv, pc = "compressed", NEW s \in 1 .. nResults
               PROVE  results[s].of = call /\ (nPixels > 0 => results[s].size > 0)
    BY DEF ResultsOfThisCall
  <2>1. Len(work) \in Nat /\ nResults = 4 * Len(work)
    BY LenProperties DEF IInv, Called, Compressing
  <2>2. (s + 3) \div 4 \in 1 .. Len(work) /\ s \in Streams((s + 3) \div 4)
    BY <2>1 DEF Streams
  <2>3. results[s] = [room |-> results[s].room, size |-> results[s].size, of |-> call,
                      by |-> request.name, lo |-> First((s + 3) \div 4, nPixels, Len(work)),
                      hi |-> Behind((s + 3) \div 4, nPixels, Len(work))]
    BY <2>2 DEF IInv, Compressing, Own, OwnStreams
  <2>4. results[s].of = call
    BY <2>3, OwnFields
  <2>5. nPixels > 0 => results[s].size > 0
    BY <2>2 DEF BufferInv, Filled
  <2> QED
    BY <2>4, <2>5
<1> QED
  BY <1>1, Inductive, BuffersInductive, PTL

\* The longest stream of a group, whose share is the quotient and two pixels or one, is
\* at most three words longer than what is reserved.
LEMMA ReserveFits ==
  ASSUME NEW n \in Nat, NEW g \in Nat \ {0}, NEW word \in {1, 2}, NEW k \in Nat,
         k <= n \div g + 2, 2 * (n % g) < g => k <= n \div g + 1
  PROVE  (2 * k + 1) * word <= Reserve(n, word, g) + 3 * word
<1> DEFINE share == n \div g
           rest == n % g
           page == Bytes(n, word) \div (4 * g)
           whole == share * g
<1>1. share \in Nat /\ rest \in Nat /\ n = share * g + rest /\ rest < g
  BY Division
<1>2. Reserve(n, word, g) = 2 * page + 2 /\ page \in Nat
  <2>1. Bytes(n, word) \in Nat /\ 4 * g \in Nat \ {0}
    <3>1. CASE word = 1
      BY <3>1 DEF Bytes
    <3>2. CASE word = 2
      BY <3>2 DEF Bytes
    <3> QED
      BY <3>1, <3>2
  <2>2. page \in Nat
    BY <2>1, Division
  <2>3. Reserve(n, word, g) = (page + 1) * 2
    BY DEF Reserve
  <2> HIDE DEF page
  <2> QED
    BY <2>2, <2>3
<1>3. /\ whole \in Nat /\ n = whole + rest
      /\ share * (4 * g) = 4 * whole /\ (2 * share) * (4 * g) = 8 * whole
      /\ (2 * share + 1) * (4 * g) = 8 * whole + 4 * g
  BY <1>1
<1>4. /\ k <= share + 2
      /\ 2 * rest < g => k <= share + 1
  OBVIOUS
<1> HIDE DEF share, rest, page, whole
<1>5. CASE word = 1
  <2>1. Bytes(n, word) = 4 * n
    BY <1>5 DEF Bytes
  <2>2. share * (4 * g) <= 4 * n
    BY <1>3, <1>1
  <2>3. page >= share
    BY <1>1, <2>1, <2>2, Quotient DEF page
  <2> QED
    BY <1>1, <1>2, <1>4, <1>5, <2>3
<1>6. CASE word = 2
  <2>1. Bytes(n, word) = 8 * n
    BY <1>6 DEF Bytes
  <2>2. (2 * share) * (4 * g) <= 8 * n
    BY <1>3, <1>1
  <2>3. page >= 2 * share
    BY <1>1, <2>1, <2>2, Quotient DEF page
  <2>4. CASE 2 * rest < g
    BY <1>1, <1>2, <1>4, <1>6, <2>3, <2>4
  <2>5. CASE ~(2 * rest < g)
    <3>1. (2 * share + 1) * (4 * g) <= 8 * n
      BY <1>3, <1>1, <2>5
    <3>2. page >= 2 * share + 1
      BY <1>1, <2>1, <3>1, Quotient DEF page
    <3> QED
      BY <1>1, <1>2, <1>4, <1>6, <3>2
  <2> QED
    BY <2>4, <2>5
<1> QED
  BY <1>5, <1>6

\* A stream is at most three words longer than the buffer that was reserved for it, even
\* where an earlier call has packed the buffer.
THEOREM NearlyFits == Spec => []StreamNearlyFits
<1>1. IInv /\ BufferInv => StreamNearlyFits
  <2> SUFFICES ASSUME IInv, BufferInv, pc = "compress", NEW group \in DOMAIN work,
                      work[group] = "todo", NEW s \in Streams(group)
               PROVE  LET k == Behind(group, nPixels, Len(work)) - First(group, nPixels, Len(work))
                      IN Longest(k) * WordBytes <= results[s].room + 3 * WordBytes
    BY DEF StreamNearlyFits
  <2> DEFINE n == nPixels
             g == Len(work)
             lo == First(group, n, g)
             hi == Behind(group, n, g)
             k == hi - lo
  <2>1. /\ <<n, g>> \in Splits /\ request.name \in Engines
        /\ work \in Seq({"todo", "stored", "done"})
        /\ instance = <<[name |-> request.name, engine |-> request.name]>>
    BY DEF IInv, Called, Running
  <2>2. group \in 1 .. Len(work)
    BY <2>1, LenProperties
  <2>3. WordBytes \in {1, 2}
    BY <2>1, WordsOf
  <2> HIDE DEF n, g
  <2>4. /\ n \in Nat /\ g \in 1 .. 64
        /\ lo \in Nat /\ hi \in Nat /\ lo <= hi
        /\ hi - lo <= n \div g + 2
        /\ 2 * (n % g) < g => hi - lo <= n \div g + 1
    BY <2>1, <2>2, PartitionOf DEF g
  <2> HIDE DEF lo, hi
  <2>5. k \in Nat /\ g \in Nat \ {0}
    BY <2>4
  <2>6. (2 * k + 1) * WordBytes <= Reserve(n, WordBytes, g) + 3 * WordBytes
    BY <2>3, <2>4, <2>5, ReserveFits
  <2>7. Longest(k) \in Nat /\ Longest(k) <= 2 * k + 1
    BY <2>3, <2>5, StreamLengths
  <2>8. results[s].room >= Reserve(n, WordBytes, g) /\ results[s].room \in Nat
    <3>1. Len(results) >= 4 * Len(work) /\ Streams(group) \subseteq 1 .. 4 * Len(work)
          /\ Len(work) \in Nat
      BY <2>1, <2>2, LenProperties, StreamsApart DEF IInv, Compressing
    <3>2. results \in Seq(Result) /\ Len(results) \in Nat
      BY LenProperties DEF BufferInv, Lists
    <3>3. s \in 1 .. Len(results)
      BY <3>1, <3>2
    <3>4. results[s] \in Result
      BY <3>2, <3>3, ElementOfSeq
    <3>5. results[s].room \in Nat
      BY <3>4 DEF Result
    <3> QED
      BY <2>2, <3>5 DEF BufferInv, Roomy, n, g
  <2> DEFINE longest == Longest(k)
             reserve == Reserve(n, WordBytes, g)
  <2>9. reserve \in Nat
    <3>1. CASE WordBytes = 1
      <4>1. Bytes(n, WordBytes) \in Nat /\ 4 * g \in Nat \ {0}
        BY <2>4, <3>1 DEF Bytes
      <4>2. Bytes(n, WordBytes) \div (4 * g) \in Nat
        BY <4>1, Division
      <4> QED
        BY <4>2 DEF Reserve
    <3>2. CASE WordBytes = 2
      <4>1. Bytes(n, WordBytes) \in Nat /\ 4 * g \in Nat \ {0}
        BY <2>4, <3>2 DEF Bytes
      <4>2. Bytes(n, WordBytes) \div (4 * g) \in Nat
        BY <4>1, Division
      <4> QED
        BY <4>2 DEF Reserve
    <3> QED
      BY <2>3, <3>1, <3>2
  <2> DEFINE room == results[s].room
  <2> HIDE DEF longest, reserve, k, room
  <2>10. longest * WordBytes <= room + 3 * WordBytes
    <3>1. /\ longest \in Nat /\ longest <= 2 * k + 1 /\ k \in Nat
          /\ (2 * k + 1) * WordBytes <= reserve + 3 * WordBytes
          /\ room \in Nat /\ room >= reserve
      BY <2>5, <2>6, <2>7, <2>8 DEF longest, reserve, room
    <3>2. CASE WordBytes = 1
      BY <2>9, <3>1, <3>2
    <3>3. CASE WordBytes = 2
      BY <2>9, <3>1, <3>3
    <3> QED
      BY <2>3, <3>2, <3>3
  <2> QED
    BY <2>10 DEF longest, room, k, lo, hi, n, g
<1> QED
  BY <1>1, Inductive, BuffersInductive, PTL
================================================================================
