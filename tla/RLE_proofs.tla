------------------------------- MODULE RLE_proofs -------------------------------
(****************************************************************************)
(* Proofs about RLE for every word width, marker and set of chunks.          *)
(*                                                                           *)
(* The inductive invariant follows the history variable cuts: each unit      *)
(* between two neighbouring cuts describes the input words it stands for,    *)
(* the encoder's registers describe the words after the last cut, and the    *)
(* decoder always stands at a cut, up to the words left in its register.     *)
(****************************************************************************)
EXTENDS RLE, SequenceTheorems, TLAPS

\* What _write() emits: an escaped triple, or one or two copies of the word.
LEMMA EncodedWords ==
  ASSUME NEW w \in Word, NEW n \in Word
  PROVE  /\ Encoded(w, n) \in Seq(Word)
         /\ (w = Marker \/ n > 2) =>
              /\ Len(Encoded(w, n)) = 3
              /\ Encoded(w, n)[1] = Marker
              /\ Encoded(w, n)[2] = w
              /\ Encoded(w, n)[3] = n
         /\ (w # Marker /\ n <= 2) =>
              /\ Len(Encoded(w, n)) = n
              /\ \A k \in 1 .. n : Encoded(w, n)[k] = w
<1> USE RLEAssumption DEF Word
<1>1. CASE w = Marker
  BY <1>1 DEF Encoded
<1>2. CASE w # Marker /\ n > 2
  <2>1. Encoded(w, n) = <<Marker, w, n>>
    BY <1>2 DEF Encoded
  <2> QED
    BY <1>2, <2>1
<1>3. CASE w # Marker /\ n <= 2
  <2>1. Encoded(w, n) = [k \in 1 .. n |-> w]
    BY <1>3 DEF Encoded
  <2>2. [k \in 1 .. n |-> w] \in Seq(Word)
    BY IsASeq
  <2> QED
    BY <1>3, <2>1, <2>2
<1> QED
  BY <1>1, <1>2, <1>3

\* A unit of a stream is still the same unit when words are appended to it.
LEMMA DescribesExtends ==
  ASSUME NEW s \in Seq(Word), NEW e \in Seq(Word), NEW words \in Seq(Word),
         NEW a \in Nat, NEW b \in Nat, NEW p \in Nat, NEW q \in Nat,
         Describes(s, words, a, b, p, q)
  PROVE  Describes(s \o e, words, a, b, p, q)
<1>1. Len(s \o e) = Len(s) + Len(e) /\ \A k \in 1 .. Len(s) : (s \o e)[k] = s[k]
  OBVIOUS
<1>2. CASE b = a + 1
  BY <1>1, <1>2 DEF Describes
<1>3. CASE b = a + 3
  BY <1>1, <1>3 DEF Describes
<1> QED
  BY <1>2, <1>3 DEF Describes

\* _write() adds one unit, or two for a pair, to both histories.
LEMMA WriteHistory ==
  ASSUME TypeOK, Write
  PROVE  /\ out' = out \o Encoded(last, same) /\ out' \in Seq(Word)
         /\ cutOut' \in Seq(Nat) /\ cutIn' \in Seq(Nat) /\ Len(cutIn') > 0
         /\ (last # Marker /\ same = 2) =>
              /\ cutOut' = Append(Append(cutOut, Len(out) + 1), Len(out) + 2)
              /\ cutIn' = Append(Append(cutIn, cutIn[Len(cutIn)] + 1),
                                 cutIn[Len(cutIn)] + 2)
         /\ ~(last # Marker /\ same = 2) =>
              /\ cutOut' = Append(cutOut, Len(out) + Len(Encoded(last, same)))
              /\ cutIn' = Append(cutIn, cutIn[Len(cutIn)] + same)
<1>1. /\ last \in Word /\ same \in Word /\ same \in Nat
      /\ out \in Seq(Word) /\ cutOut \in Seq(Nat) /\ cutIn \in Seq(Nat)
      /\ Len(cutIn) > 0
  BY RLEAssumption DEF TypeOK, Word
<1>2. cutIn[Len(cutIn)] \in Nat
  BY <1>1
<1>3. /\ Encoded(last, same) \in Seq(Word) /\ Len(Encoded(last, same)) \in Nat
      /\ last # Marker /\ same <= 2 => Len(Encoded(last, same)) = same
  BY <1>1, EncodedWords
<1>4. out' = out \o Encoded(last, same) /\ out' \in Seq(Word)
  BY <1>1, <1>3 DEF Write
<1>5. CASE last # Marker /\ same = 2
  <2>1. Len(Encoded(last, same)) = 2
    BY <1>3, <1>5
  <2>2. /\ cutOut' = Append(Append(cutOut, Len(out) + 1), Len(out) + 2)
        /\ cutIn' = Append(Append(cutIn, cutIn[Len(cutIn)] + 1), cutIn[Len(cutIn)] + 2)
    BY <1>5, <2>1 DEF Write
  <2>3. cutOut' \in Seq(Nat)
    BY <1>1, <2>2
  <2>4. cutIn' \in Seq(Nat) /\ Len(cutIn') > 0
    <3>1. ASSUME NEW x \in Nat, NEW y \in Nat
          PROVE  /\ Append(Append(cutIn, x), y) \in Seq(Nat)
                 /\ Len(Append(Append(cutIn, x), y)) > 0
      BY <1>1
    <3>2. cutIn[Len(cutIn)] + 1 \in Nat /\ cutIn[Len(cutIn)] + 2 \in Nat
      BY <1>2
    <3> QED
      BY <2>2, <3>1, <3>2, Zenon
  <2> QED
    BY <1>4, <1>5, <2>2, <2>3, <2>4
<1>6. CASE ~(last # Marker /\ same = 2)
  <2>2. /\ cutOut' = Append(cutOut, Len(out) + Len(Encoded(last, same)))
        /\ cutIn' = Append(cutIn, cutIn[Len(cutIn)] + same)
    BY <1>6 DEF Write
  <2>3. cutOut' \in Seq(Nat)
    BY <1>1, <1>3, <2>2
  <2>4. cutIn' \in Seq(Nat) /\ Len(cutIn') > 0
    BY <1>1, <1>2, <2>2
  <2> QED
    BY <1>4, <1>6, <2>2, <2>3, <2>4
<1> QED
  BY <1>5, <1>6

\* Every variable keeps its type; in particular the run counter never wraps.
THEOREM TypeCorrect == Spec => []TypeOK
<1>1. Init => TypeOK
  BY RLEAssumption DEF Init, TypeOK, Word
<1>2. ASSUME TypeOK, [Next]_vars
      PROVE  TypeOK'
  <2>1. CASE CompressEmpty
    BY <1>2, <2>1 DEF TypeOK, CompressEmpty, encoder, decoder, cuts
  <2>2. CASE CompressFirst
    BY <1>2, <2>2, RLEAssumption DEF TypeOK, CompressFirst, decoder, cuts, Word
  <2>3. CASE CompressToken
    <3>1. next + 1 \in 1 .. Len(input) /\ input[next + 1] \in Word
      BY <1>2, <2>3 DEF TypeOK, CompressToken
    <3>2. 1 \in Word
      BY RLEAssumption DEF Word
    <3>3. CASE Extends /\ same' = same + 1 /\ UNCHANGED <<last, out, cuts>>
      <4>1. same' \in Word
        BY <1>2, <3>3, RLEAssumption DEF TypeOK, Extends, Word
      <4> QED
        BY <1>2, <2>3, <3>1, <3>3, <4>1 DEF TypeOK, CompressToken, decoder, cuts
    <3>4. CASE ~Extends /\ Write /\ last' = input[next + 1] /\ same' = 1
      BY <1>2, <2>3, <3>1, <3>2, <3>4, WriteHistory DEF TypeOK, CompressToken, decoder
    <3> QED
      BY <2>3, <3>3, <3>4 DEF CompressToken
  <2>4. CASE WriteOutput
    BY <1>2, <2>4, WriteHistory DEF TypeOK, WriteOutput, decoder
  <2>5. CASE DecompressToken
    <3>1. ASSUME NEW w \in Word, NEW n \in Word, Produce(w, n)
          PROVE  token' \in Word /\ left' \in Word /\ data' \in Seq(Word)
      <4>1. (n - 1) % (MaxWord + 1) \in Word
        BY RLEAssumption DEF Word
      <4> QED
        BY <1>2, <3>1, <4>1 DEF Produce, TypeOK
    <3>2. \A k : Readable(k) \subseteq Word
      BY <1>2 DEF Readable, TypeOK
    <3>3. token \in Word /\ left \in Word /\ 1 \in Word /\ Marker \in Word
      BY <1>2, RLEAssumption DEF TypeOK, Word
    <3>4. PICK w \in Word, n \in Word :
            Produce(w, n) /\ read' \in {read, read + 1, read + 3}
      BY <2>5, <3>2, <3>3 DEF DecompressToken
    <3> QED
      BY <1>2, <2>5, <3>1, <3>4 DEF DecompressToken, TypeOK, encoder, cuts
  <2>6. CASE DecompressEnd
    BY <1>2, <2>6 DEF TypeOK, DecompressEnd, encoder, decoder, cuts
  <2>7. CASE UNCHANGED vars
    BY <1>2, <2>7 DEF TypeOK, vars, encoder, decoder, cuts
  <2> QED
    BY <1>2, <2>1, <2>2, <2>3, <2>4, <2>5, <2>6, <2>7
       DEF Next, Compress, Decompress, Done
<1> QED
  BY <1>1, <1>2, PTL DEF Spec

\* What _write() appends is a unit for the run it was given, or two units of
\* one word each for a pair.
LEMMA NewUnit ==
  ASSUME NEW s \in Seq(Word), NEW words \in Seq(Word), NEW w \in Word,
         NEW n \in Word, n > 0, NEW p \in Nat, p + n <= Len(words),
         \A j \in p + 1 .. p + n : words[j] = w
  PROVE  LET t == s \o Encoded(w, n) IN
         /\ ~(w # Marker /\ n = 2) =>
              Describes(t, words, Len(s), Len(s) + Len(Encoded(w, n)), p, p + n)
         /\ (w # Marker /\ n = 2) =>
              /\ Describes(t, words, Len(s), Len(s) + 1, p, p + 1)
              /\ Describes(t, words, Len(s) + 1, Len(s) + 2, p + 1, p + 2)
<1> DEFINE e == Encoded(w, n)
           t == s \o e
<1>1. n \in Nat /\ e \in Seq(Word)
  BY EncodedWords, RLEAssumption DEF Word
<1>2. /\ Len(t) = Len(s) + Len(e)
      /\ \A k \in 1 .. Len(e) : t[Len(s) + k] = e[k]
  BY <1>1
<1>3. CASE w = Marker \/ n > 2
  <2>1. Len(e) = 3 /\ e[1] = Marker /\ e[2] = w /\ e[3] = n
    BY <1>3, EncodedWords
  <2>2. /\ t[Len(s) + 1] = Marker /\ t[Len(s) + 2] = w /\ t[Len(s) + 3] = n
        /\ Len(t) = Len(s) + 3
    BY <1>2, <2>1
  <2> HIDE DEF t, e
  <2>3. Describes(t, words, Len(s), Len(s) + 3, p, p + n)
    BY <1>1, <2>2 DEF Describes
  <2> QED
    BY <1>3, <2>1, <2>3, <1>1 DEF t, e
<1>4. CASE w # Marker /\ n <= 2
  <2>1. Len(e) = n /\ \A k \in 1 .. n : e[k] = w
    BY <1>1, <1>4, EncodedWords
  <2>2. Len(t) = Len(s) + n /\ \A k \in 1 .. n : t[Len(s) + k] = w
    BY <1>1, <1>2, <2>1
  <2> HIDE DEF t, e
  <2>3. CASE n = 1
    <3>1. Describes(t, words, Len(s), Len(s) + 1, p, p + 1)
      BY <1>4, <2>2, <2>3 DEF Describes
    <3> QED
      BY <2>1, <2>3, <3>1 DEF t, e
  <2>4. CASE n = 2
    <3>1. Describes(t, words, Len(s), Len(s) + 1, p, p + 1)
      BY <1>4, <2>2, <2>4 DEF Describes
    <3>2. Describes(t, words, Len(s) + 1, Len(s) + 2, p + 1, p + 2)
      BY <1>4, <2>2, <2>4 DEF Describes
    <3> QED
      BY <1>4, <2>4, <3>1, <3>2 DEF t, e
  <2> QED
    BY <1>1, <1>4, <2>3, <2>4
<1> QED
  BY <1>1, <1>3, <1>4

\* Appending one unit to a stream extends the cuts by one.
LEMMA CutOne ==
  ASSUME NEW s \in Seq(Word), NEW e \in Seq(Word), NEW words \in Seq(Word),
         NEW at \in Seq(Nat), NEW pos \in Seq(Nat), Len(pos) > 0,
         CutInto(s, words, at, pos), NEW q \in Nat,
         Describes(s \o e, words, Len(s), Len(s) + Len(e), pos[Len(pos)], q)
  PROVE  CutInto(s \o e, words, Append(at, Len(s) + Len(e)), Append(pos, q))
<1> DEFINE at1 == Append(at, Len(s) + Len(e))
           pos1 == Append(pos, q)
<1>1. Len(at) = Len(pos) /\ at[1] = 0 /\ pos[1] = 0 /\ at[Len(at)] = Len(s)
  BY DEF CutInto
<1>2. Len(s) + Len(e) \in Nat /\ Len(s \o e) = Len(s) + Len(e)
  OBVIOUS
<1>3. /\ Len(at1) = Len(at) + 1 /\ at1[Len(at) + 1] = Len(s) + Len(e)
      /\ \A k \in 1 .. Len(at) : at1[k] = at[k]
  BY <1>2
<1>4. /\ Len(pos1) = Len(pos) + 1 /\ pos1[Len(pos) + 1] = q
      /\ \A k \in 1 .. Len(pos) : pos1[k] = pos[k]
  OBVIOUS
<1> HIDE DEF at1, pos1
<1>5. ASSUME NEW k \in 1 .. Len(pos1) - 1
      PROVE  Describes(s \o e, words, at1[k], at1[k + 1], pos1[k], pos1[k + 1])
  <2>1. CASE k = Len(pos)
    BY <1>1, <1>3, <1>4, <2>1
  <2>2. CASE k \in 1 .. Len(pos) - 1
    <3>1. Describes(s, words, at[k], at[k + 1], pos[k], pos[k + 1])
      BY <2>2 DEF CutInto
    <3>2. /\ at[k] \in Nat /\ at[k + 1] \in Nat
          /\ pos[k] \in Nat /\ pos[k + 1] \in Nat
      <4>1. k \in 1 .. Len(at) /\ k + 1 \in 1 .. Len(at)
        BY <1>1, <2>2
      <4>2. pos[k] \in Nat /\ pos[k + 1] \in Nat
        BY <1>1, <4>1, ElementOfSeq
      <4> QED
        BY <4>1, <4>2, ElementOfSeq
    <3>3. Describes(s \o e, words, at[k], at[k + 1], pos[k], pos[k + 1])
      BY <3>1, <3>2, DescribesExtends
    <3>4. at1[k] = at[k] /\ at1[k + 1] = at[k + 1] /\ pos1[k] = pos[k] /\ pos1[k + 1] = pos[k + 1]
      BY <1>1, <1>3, <1>4, <2>2
    <3> QED
      BY <3>3, <3>4
  <2> QED
    BY <1>4, <2>1, <2>2
<1>6. at1[1] = 0 /\ pos1[1] = 0
  BY <1>1, <1>3, <1>4
<1>7. CutInto(s \o e, words, at1, pos1)
  BY <1>1, <1>2, <1>3, <1>4, <1>5, <1>6 DEF CutInto
<1> QED
  BY <1>7 DEF at1, pos1

\* _write() keeps the stream cut into units and covers the run it was given.
LEMMA WriteCuts ==
  ASSUME TypeOK, Write, CutInto(out, input, cutOut, cutIn), same > 0,
         cutIn[Len(cutIn)] + same <= Len(input),
         \A j \in cutIn[Len(cutIn)] + 1 .. cutIn[Len(cutIn)] + same : input[j] = last
  PROVE  /\ CutInto(out', input, cutOut', cutIn')
         /\ cutIn'[Len(cutIn')] = cutIn[Len(cutIn)] + same
<1> DEFINE p == cutIn[Len(cutIn)]
<1>1. /\ last \in Word /\ same \in Word /\ input \in Seq(Word) /\ out \in Seq(Word)
      /\ cutOut \in Seq(Nat) /\ cutIn \in Seq(Nat) /\ Len(cutIn) > 0
  BY DEF TypeOK
<1>2. p \in Nat /\ same \in Nat
  BY <1>1, RLEAssumption DEF Word
<1>3. p + same \in Nat /\ p + 1 \in Nat /\ p + 2 \in Nat
  BY <1>2
<1>4. /\ Encoded(last, same) \in Seq(Word)
      /\ last # Marker /\ same <= 2 =>
           /\ Len(Encoded(last, same)) = same
           /\ \A k \in 1 .. same : Encoded(last, same)[k] = last
  BY <1>1, EncodedWords
<1>5. CASE ~(last # Marker /\ same = 2)
  <2>1. Describes(out \o Encoded(last, same), input, Len(out),
                  Len(out) + Len(Encoded(last, same)), p, p + same)
    BY <1>1, <1>2, <1>5, NewUnit
  <2>2. CutInto(out \o Encoded(last, same), input,
                Append(cutOut, Len(out) + Len(Encoded(last, same))),
                Append(cutIn, p + same))
    BY <1>1, <1>2, <1>3, <1>4, <2>1, CutOne
  <2>3. Append(cutIn, p + same)[Len(Append(cutIn, p + same))] = p + same
    BY <1>1, <1>3
  <2> QED
    BY <1>5, <2>2, <2>3, WriteHistory
<1>6. CASE last # Marker /\ same = 2
  <2> DEFINE one == out \o <<last>>
  <2>1. /\ Len(Encoded(last, same)) = 2
        /\ \A k \in 1 .. 2 : Encoded(last, same)[k] = last
    BY <1>6, <1>4
  <2>2. <<last>> \in Seq(Word) /\ one \in Seq(Word) /\ Len(one) = Len(out) + 1
    BY <1>1
  <2>3. out \o Encoded(last, same) = one \o <<last>>
    <3>1. Encoded(last, same) = <<last, last>>
      BY <1>1, <1>6, <1>4, <2>1, SeqEqual
    <3> QED
      BY <1>1, <3>1
  <2>4. /\ Describes(one \o <<last>>, input, Len(out), Len(out) + 1, p, p + 1)
        /\ Describes(one \o <<last>>, input, Len(out) + 1, Len(out) + 2, p + 1, p + 2)
    BY <1>1, <1>2, <1>6, <2>3, NewUnit
  <2>5. Describes(one, input, Len(out), Len(out) + 1, p, p + 1)
    <3>1. one[Len(out) + 1] = (one \o <<last>>)[Len(out) + 1]
      BY <1>1, <2>2
    <3>2. Len(out) + 1 <= Len(one)
      BY <2>2, <1>1
    <3> HIDE DEF one
    <3>3. Len(out) \in Nat
      BY <1>1
    <3> QED
      BY <1>2, <2>4, <3>1, <3>2, <3>3 DEF Describes
  <2>6. CutInto(one, input, Append(cutOut, Len(out) + 1), Append(cutIn, p + 1))
    <3>1. Len(<<last>>) = 1
      OBVIOUS
    <3> QED
      BY <1>1, <1>3, <2>2, <2>5, <3>1, CutOne
  <2>7. CutInto(one \o <<last>>, input, Append(Append(cutOut, Len(out) + 1), Len(out) + 2),
                Append(Append(cutIn, p + 1), p + 2))
    <3> DEFINE at1 == Append(cutOut, Len(out) + 1)
               pos1 == Append(cutIn, p + 1)
    <3>1. /\ at1 \in Seq(Nat) /\ pos1 \in Seq(Nat) /\ Len(pos1) > 0
          /\ pos1[Len(pos1)] = p + 1
      BY <1>1, <1>3
    <3>2. Len(<<last>>) = 1 /\ Len(one) + Len(<<last>>) = Len(out) + 2
      BY <1>1, <2>2
    <3> HIDE DEF one, at1, pos1
    <3>3. Describes(one \o <<last>>, input, Len(one), Len(one) + Len(<<last>>),
                    pos1[Len(pos1)], p + 2)
      BY <2>2, <2>4, <3>1, <3>2
    <3>4. CutInto(one, input, at1, pos1)
      BY <2>6 DEF at1, pos1
    <3>5. CutInto(one \o <<last>>, input, Append(at1, Len(one) + Len(<<last>>)),
                  Append(pos1, p + 2))
      BY <1>1, <1>3, <2>2, <3>1, <3>3, <3>4, CutOne
    <3> QED
      BY <3>2, <3>5 DEF at1, pos1
  <2>8. LET pos2 == Append(Append(cutIn, p + 1), p + 2) IN pos2[Len(pos2)] = p + 2
    BY <1>1, <1>3
  <2> HIDE DEF one
  <2>9. p + same = p + 2
    BY <1>6
  <2> QED
    BY <1>6, <2>3, <2>7, <2>8, <2>9, WriteHistory
<1> QED
  BY <1>5, <1>6

\* The encoder's part of the invariant holds after each step: what is written
\* is cut into units that cover all words but those of the open run.
LEMMA EncoderStep ==
  ASSUME TypeOK, TypeOK', CutsInv, EncoderInv, [Next]_vars
  PROVE  CutsInv' /\ EncoderInv'
<1> USE DEF CutsInv, EncoderInv, Pending
<1>1. /\ next \in Nat /\ same \in Nat /\ Len(input) \in Nat /\ next <= Len(input)
      /\ cutIn \in Seq(Nat) /\ Len(cutIn) > 0
  BY RLEAssumption DEF TypeOK, Word
<1>2. CASE CompressEmpty
  BY <1>1, <1>2 DEF CompressEmpty, encoder, decoder, cuts
<1>3. CASE CompressFirst
  BY <1>1, <1>3 DEF CompressFirst, decoder, cuts
<1>4. ASSUME pc = "compress", next > 0, Write, input' = input
      PROVE  /\ CutInto(out', input', cutOut', cutIn')
             /\ cutIn'[Len(cutIn')] = next
  <2>1. cutIn[Len(cutIn)] + same = next /\ same > 0 /\ next <= Len(input)
    BY <1>1, <1>4 DEF TypeOK
  <2>2. \A j \in cutIn[Len(cutIn)] + 1 .. cutIn[Len(cutIn)] + same : input[j] = last
    BY <1>1, <1>4, <2>1
  <2> QED
    BY <1>1, <1>4, <2>1, <2>2, WriteCuts
<1>5. CASE CompressToken
  <2>1. next + 1 \in 1 .. Len(input) /\ next' = next + 1 /\ pc' = "compress"
        /\ pc = "compress" /\ next > 0 /\ input' = input /\ UNCHANGED decoder
    BY <1>1, <1>5 DEF CompressToken
  <2>2. CASE Extends /\ same' = same + 1 /\ UNCHANGED <<last, out, cuts>>
    BY <1>1, <2>1, <2>2 DEF Extends, cuts, decoder
  <2>3. CASE Write /\ last' = input[next + 1] /\ same' = 1
    BY <1>1, <1>4, <2>1, <2>3 DEF decoder
  <2> QED
    BY <1>5, <2>2, <2>3 DEF CompressToken
<1>6. CASE WriteOutput
  BY <1>1, <1>4, <1>6 DEF WriteOutput, decoder
<1>7. CASE DecompressToken
  BY <1>7 DEF DecompressToken, encoder, cuts
<1>8. CASE DecompressEnd
  BY <1>8 DEF DecompressEnd, encoder, decoder, cuts
<1>9. CASE UNCHANGED vars
  BY <1>9 DEF vars, encoder, decoder, cuts
<1> QED
  BY <1>2, <1>3, <1>5, <1>6, <1>7, <1>8, <1>9 DEF Next, Compress, Decompress, Done

\* The decoder's register does not wrap when it holds at least one word.
LEMMA ModSmall ==
  ASSUME NEW a \in Nat, NEW b \in Nat, a < b
  PROVE  a % b = a
OBVIOUS

\* Before all words are decoded the decoder stands at the start of a unit, or
\* has words of the last one left.
LEMMA DecoderStep ==
  ASSUME TypeOK, TypeOK', CutsInv, CutsInv', EncoderInv, DecoderInv, [Next]_vars
  PROVE  DecoderInv'
<1>1. /\ Len(data) \in Nat /\ Len(input) \in Nat /\ left \in Nat /\ MaxWord \in Nat
      /\ data \in Seq(Word) /\ input \in Seq(Word) /\ out \in Seq(Word)
      /\ cutOut \in Seq(Nat) /\ cutIn \in Seq(Nat) /\ Len(cutIn) > 0
      /\ read \in Nat /\ left <= MaxWord /\ token \in Word
  <2>1. left \in Nat /\ left <= MaxWord /\ MaxWord \in Nat
    BY RLEAssumption DEF TypeOK, Word
  <2>2. /\ data \in Seq(Word) /\ input \in Seq(Word) /\ out \in Seq(Word)
        /\ cutOut \in Seq(Nat) /\ cutIn \in Seq(Nat) /\ Len(cutIn) > 0
        /\ read \in Nat /\ token \in Word
    BY DEF TypeOK
  <2> QED
    BY <2>1, <2>2
<1>2. CASE pc = "compress" /\ pc' # "done" /\ input' = input /\ UNCHANGED decoder
  <2>1. read' = 0 /\ left' = 0 /\ data' = <<>>
    BY <1>2 DEF EncoderInv, decoder
  <2>2. 1 \in 1 .. Len(cutIn') /\ cutOut'[1] = 0 /\ cutIn'[1] = 0
    BY DEF TypeOK, CutsInv, CutInto
  <2> QED
    BY <1>1, <1>2, <2>1, <2>2 DEF DecoderInv, RoundTrip
<1>3. CASE DecompressToken
  <2>1. /\ pc = "decompress" /\ pc' = "decompress" /\ Len(data) < Len(input)
        /\ UNCHANGED <<input, out, cutOut, cutIn>>
    BY <1>3 DEF DecompressToken, encoder, cuts
  <2>2. ASSUME NEW w \in Word, NEW n \in Nat, n > 0, n <= MaxWord, Produce(w, n),
               input[Len(data) + 1] = w
        PROVE  /\ RoundTrip' /\ token' = w /\ left' = n - 1
               /\ Len(data') = Len(data) + 1
    <3>1. left' = n - 1
      <4>1. n - 1 \in Nat /\ MaxWord + 1 \in Nat /\ n - 1 < MaxWord + 1
        BY <1>1, <2>2
      <4> QED
        BY <2>2, <4>1, ModSmall DEF Produce
    <3>2. /\ Len(data') = Len(data) + 1 /\ data'[Len(data) + 1] = w
          /\ \A k \in 1 .. Len(data) : data'[k] = data[k]
      BY <1>1, <2>2 DEF Produce
    <3>3. Len(data') <= Len(input') /\ pc' # "done"
      BY <1>1, <2>1, <3>2
    <3>4. ASSUME NEW k \in 1 .. Len(data')
          PROVE  data'[k] = input'[k]
      <4>1. CASE k \in 1 .. Len(data)
        BY <2>1, <3>2, <4>1 DEF DecoderInv, RoundTrip
      <4>2. CASE k = Len(data) + 1
        BY <2>1, <2>2, <3>2, <4>2
      <4> QED
        BY <1>1, <3>2, <4>1, <4>2
    <3> QED
      BY <2>2, <3>1, <3>2, <3>3, <3>4 DEF RoundTrip, Produce
  <2>3. CASE left > 0 /\ Produce(token, left) /\ UNCHANGED read
    <3>1. input[Len(data) + 1] = token
      <4>1. Len(data) + 1 \in Len(data) + 1 .. Len(data) + left
        BY <1>1, <2>3
      <4> QED
        BY <4>1 DEF DecoderInv
    <3>2. /\ RoundTrip' /\ token' = token /\ left' = left - 1
          /\ Len(data') = Len(data) + 1
      BY <1>1, <2>2, <2>3, <3>1
    <3>3. Len(data') + left' = Len(data) + left
      BY <1>1, <3>2
    <3>4. \A j \in Len(data') + 1 .. Len(data') + left' : input'[j] = token'
      <4>1. SUFFICES ASSUME NEW j \in Len(data') + 1 .. Len(data') + left'
                     PROVE  input'[j] = token'
        OBVIOUS
      <4>2. j \in Len(data) + 1 .. Len(data) + left
        BY <1>1, <3>2, <3>3
      <4> QED
        BY <2>1, <3>2, <4>2 DEF DecoderInv
    <3> QED
      BY <2>1, <2>3, <3>2, <3>3, <3>4 DEF DecoderInv
  <2>4. ASSUME left = 0, NEW first \in Readable(read + 1),
               \/ /\ first # Marker
                  /\ Produce(first, 1)
                  /\ read' = read + 1
               \/ /\ first = Marker
                  /\ \E w \in Readable(read + 2), n \in Readable(read + 3) :
                       Produce(w, n)
                  /\ read' = read + 3
        PROVE  DecoderInv'
    <3>1. PICK k \in 1 .. Len(cutIn) : cutOut[k] = read /\ cutIn[k] = Len(data)
      BY <1>1, <2>4 DEF DecoderInv
    <3>2. k \in 1 .. Len(cutIn) - 1
      <4>1. cutIn[Len(cutIn)] = Len(input)
        BY <1>1, <2>1 DEF CutsInv, EncoderInv, Pending, TypeOK
      <4> QED
        BY <1>1, <2>1, <3>1, <4>1
    <3> DEFINE b == cutOut[k + 1]
               q == cutIn[k + 1]
    <3>3. Describes(out, input, read, b, Len(data), q)
      BY <3>1, <3>2 DEF CutsInv, CutInto
    <3>4. k + 1 \in 1 .. Len(cutIn') /\ cutOut'[k + 1] = b /\ cutIn'[k + 1] = q
      BY <1>1, <2>1, <3>2
    <3>5. b \in Nat /\ q \in Nat
      <4>1. k + 1 \in 1 .. Len(cutIn) /\ k + 1 \in 1 .. Len(cutOut)
        BY <1>1, <3>2 DEF CutsInv, CutInto
      <4> QED
        BY <1>1, <4>1, ElementOfSeq
    <3> HIDE DEF b, q
    <3>6. CASE b = read + 1 /\ q = Len(data) + 1 /\ out[b] # Marker /\ out[b] = input[q]
      <4>1. Readable(read + 1) = {out[b]} /\ out[b] \in Word
        BY <1>1, <3>3, <3>5, <3>6 DEF Readable, Describes
      <4>2. Produce(out[b], 1) /\ read' = read + 1
        BY <2>4, <3>6, <4>1
      <4>3. RoundTrip' /\ left' = 0 /\ Len(data') = Len(data) + 1
        BY <1>1, <2>2, <3>6, <4>1, <4>2, RLEAssumption
      <4>4. cutOut'[k + 1] = read' /\ cutIn'[k + 1] = Len(data') + left'
        BY <1>1, <3>4, <3>6, <4>2, <4>3
      <4>5. \A j \in Len(data') + 1 .. Len(data') + left' : input'[j] = token'
        BY <1>1, <4>3
      <4> QED
        BY <3>4, <4>3, <4>4, <4>5 DEF DecoderInv
    <3>7. CASE /\ b = read + 3 /\ q > Len(data)
               /\ out[read + 1] = Marker /\ out[b] = q - Len(data)
               /\ \A j \in Len(data) + 1 .. q : input[j] = out[read + 2]
      <4>1. /\ Readable(read + 1) = {Marker} /\ Readable(read + 2) = {out[read + 2]}
            /\ Readable(read + 3) = {q - Len(data)} /\ out[read + 2] \in Word
            /\ q - Len(data) \in Word
        BY <1>1, <3>3, <3>5, <3>7, SMTT(20) DEF Readable, Describes
      <4>2. Produce(out[read + 2], q - Len(data)) /\ read' = read + 3
        BY <2>4, <4>1
      <4>3. q - Len(data) \in Nat /\ q - Len(data) > 0 /\ q - Len(data) <= MaxWord
        BY <1>1, <3>5, <3>7, <4>1 DEF Word
      <4>4. /\ RoundTrip' /\ token' = out[read + 2] /\ left' = q - Len(data) - 1
            /\ Len(data') = Len(data) + 1
        <5>1. input[Len(data) + 1] = out[read + 2]
          BY <1>1, <3>5, <3>7
        <5> QED
          BY <2>2, <4>1, <4>2, <4>3, <5>1
      <4>5. Len(data') + left' = q
        BY <1>1, <3>5, <4>4
      <4>6. \A j \in Len(data') + 1 .. Len(data') + left' : input'[j] = token'
        <5>1. SUFFICES ASSUME NEW j \in Len(data') + 1 .. Len(data') + left'
                       PROVE  input'[j] = token'
          OBVIOUS
        <5>2. j \in Len(data) + 1 .. q
          BY <1>1, <3>5, <4>4, <4>5
        <5> QED
          BY <2>1, <3>7, <4>4, <5>2
      <4> QED
        BY <3>4, <3>7, <4>2, <4>4, <4>5, <4>6 DEF DecoderInv
    <3> QED
      BY <3>3, <3>6, <3>7 DEF Describes
  <2> QED
    BY <1>3, <2>3, <2>4 DEF DecompressToken
<1>4. CASE DecompressEnd
  BY <1>1, <1>4 DEF DecompressEnd, encoder, decoder, cuts, DecoderInv, RoundTrip
<1>5. CASE UNCHANGED vars
  BY <1>5 DEF vars, encoder, decoder, cuts, DecoderInv, RoundTrip
<1>6. CASE Compress
  BY <1>2, <1>6 DEF Compress, CompressEmpty, CompressFirst, CompressToken, WriteOutput
<1> QED
  BY <1>3, <1>4, <1>5, <1>6 DEF Next, Decompress, Done

\* The length of what _write() emits, against twice the words it stands for.
LEMMA WriteCost ==
  ASSUME TypeOK, same > 0
  PROVE  /\ Len(Encoded(last, same)) \in Nat
         /\ last = Marker => Len(Encoded(last, same)) = 3
         /\ last # Marker =>
              /\ Len(Encoded(last, same)) <= 2 * same - 1
              /\ Len(Encoded(last, same)) = 2 * same - 1 => same = 1
<1>1. last \in Word /\ same \in Word /\ same \in Nat
  BY RLEAssumption DEF TypeOK, Word
<1>2. /\ Encoded(last, same) \in Seq(Word)
      /\ last = Marker \/ same > 2 => Len(Encoded(last, same)) = 3
      /\ last # Marker /\ same <= 2 => Len(Encoded(last, same)) = same
  BY <1>1, EncodedWords
<1> DEFINE len == Len(Encoded(last, same))
<1>3. len \in Nat
  BY <1>2
<1> HIDE DEF len
<1>4. CASE last = Marker
  BY <1>2, <1>3, <1>4 DEF len
<1>5. CASE last # Marker /\ same > 2
  <2>1. len = 3
    BY <1>2, <1>5 DEF len
  <2>2. 3 <= 2 * same - 1 /\ 3 # 2 * same - 1
    BY <1>1, <1>5
  <2> QED
    BY <1>5, <2>1, <2>2 DEF len
<1>6. CASE last # Marker /\ same <= 2
  BY <1>1, <1>2, <1>3, <1>6 DEF len
<1> QED
  BY <1>1, <1>4, <1>5, <1>6

\* Only the markers that stand alone between other words make the stream
\* longer, and two of them are never neighbours.
LEMMA BoundStep ==
  ASSUME TypeOK, EncoderInv, BoundInv, [Next]_vars
  PROVE  BoundInv'
<1> DEFINE covered == next - same
           size == Len(out)
<1>1. /\ next \in Nat /\ same \in Nat /\ size \in Nat /\ next <= Len(input)
      /\ MaxWord \in Nat /\ MaxWord >= 3 /\ Len(input) \in Nat
  BY RLEAssumption DEF TypeOK, Word
<1>2. ASSUME pc = "compress"
      PROVE  /\ same <= next /\ (next > 0 => same > 0)
             /\ size - 2 * covered <= 1
             /\ size - 2 * covered = 1 => covered % 2 = 1
             /\ (next > 0 /\ last = Marker) =>
                  /\ size - 2 * covered <= 0
                  /\ size - 2 * covered = 0 => covered % 2 = 0
  BY <1>1, <1>2 DEF EncoderInv, BoundInv, Excess, Pending
<1>3. ASSUME pc = "compress", next > 0, Write
      PROVE  /\ Len(out') \in Nat
             /\ Len(out') - 2 * next <= 1
             /\ Len(out') - 2 * next = 1 => next % 2 = 1
             /\ last # Marker =>
                  /\ Len(out') - 2 * next <= 0
                  /\ Len(out') - 2 * next = 0 => next % 2 = 0
             /\ last = Marker /\ same = MaxWord => Len(out') - 2 * next < 0
  <2> DEFINE len == Len(Encoded(last, same))
  <2>1. /\ len \in Nat
        /\ last = Marker => len = 3
        /\ last # Marker => len <= 2 * same - 1 /\ (len = 2 * same - 1 => same = 1)
    BY <1>2, <1>3, WriteCost
  <2>2. Len(out') = size + len
    BY <1>1, <1>2, <1>3, WriteHistory, EncodedWords DEF TypeOK
  <2> HIDE DEF len
  <2>3. CASE last # Marker
    BY <1>1, <1>2, <1>3, <2>1, <2>2, <2>3
  <2>4. CASE last = Marker
    BY <1>1, <1>2, <1>3, <2>1, <2>2, <2>4
  <2> QED
    BY <2>3, <2>4
<1>4. CASE CompressEmpty
  BY <1>1, <1>2, <1>4 DEF CompressEmpty, encoder, BoundInv, Excess, Pending
<1>5. CASE CompressFirst
  <2>1. pc = "compress" /\ pc' = "compress" /\ next = 0 /\ next' = 1 /\ same' = 1 /\ out' = out
    BY <1>5 DEF CompressFirst
  <2>2. size <= 0
    BY <1>1, <1>2, <2>1
  <2> QED
    BY <1>1, <2>1, <2>2 DEF BoundInv, Excess, Pending
<1>6. CASE CompressToken
  <2>1. /\ pc = "compress" /\ pc' = "compress" /\ next > 0 /\ next' = next + 1
    BY <1>6 DEF CompressToken
  <2>2. CASE same' = same + 1 /\ UNCHANGED <<last, out, cuts>>
    BY <1>1, <1>2, <2>1, <2>2 DEF BoundInv, Excess, Pending
  <2>3. CASE ~Extends /\ Write /\ last' = input[next + 1] /\ same' = 1
    <3>1. last' = Marker /\ last = Marker => same = MaxWord
      BY <2>3 DEF Extends
    <3>2. next' - same' = next
      BY <1>1, <2>1, <2>3
    <3>3. Excess' = Len(out') - 2 * next /\ next' - Pending' = next
      BY <2>1, <3>2 DEF Excess, Pending
    <3> QED
      BY <1>1, <1>3, <2>1, <2>3, <3>1, <3>3 DEF BoundInv
  <2> QED
    BY <1>6, <2>2, <2>3 DEF CompressToken
<1>7. CASE WriteOutput
  BY <1>1, <1>3, <1>7 DEF WriteOutput, BoundInv, Excess, Pending
<1>8. CASE DecompressToken
  BY <1>8 DEF DecompressToken, encoder, cuts, BoundInv, Excess, Pending
<1>9. CASE DecompressEnd
  BY <1>9 DEF DecompressEnd, encoder, cuts, BoundInv, Excess, Pending
<1>10. CASE UNCHANGED vars
  BY <1>10 DEF vars, encoder, cuts, BoundInv, Excess, Pending
<1> QED
  BY <1>4, <1>5, <1>6, <1>7, <1>8, <1>9, <1>10 DEF Next, Compress, Decompress, Done

\* The invariant holds in every state of every run.
THEOREM Inductive == Spec => []IInv
<1>1. Init => IInv
  <2>1. ASSUME Init PROVE TypeOK
    BY <2>1, RLEAssumption DEF Init, TypeOK, Word
  <2>2. ASSUME Init PROVE CutsInv
    BY <2>1, <2>2 DEF Init, CutsInv, CutInto, Pending
  <2>3. ASSUME Init PROVE EncoderInv
    BY <2>1, <2>3 DEF Init, EncoderInv, TypeOK
  <2>4. ASSUME Init PROVE DecoderInv
    BY <2>1, <2>4 DEF Init, DecoderInv, RoundTrip, TypeOK
  <2>5. ASSUME Init PROVE BoundInv
    BY <2>1, <2>5 DEF Init, BoundInv, Excess, Pending
  <2> QED
    BY <2>1, <2>2, <2>3, <2>4, <2>5 DEF IInv
<1>2. IInv /\ TypeOK' /\ [Next]_vars => IInv'
  BY EncoderStep, DecoderStep, BoundStep DEF IInv
<1> QED
  BY <1>1, <1>2, TypeCorrect, PTL DEF Spec

\* Whatever is compressed comes back unchanged, word by word.
THEOREM Lossless == Spec => []RoundTrip
<1>1. IInv => RoundTrip
  BY DEF IInv, DecoderInv
<1> QED
  BY <1>1, Inductive, PTL

\* The decoder reads the stream it was given, all of it and nothing else.
THEOREM ReadsExactly == Spec => []StreamConsumed
<1>1. ASSUME IInv PROVE StreamConsumed
  <2>1. /\ Len(cutOut) = Len(cutIn) /\ Len(cutIn) > 0 /\ Len(cutIn) \in Nat
        /\ cutOut[Len(cutOut)] = Len(out) /\ cutOut[1] = 0 /\ cutIn[1] = 0
        /\ Len(input) \in Nat /\ Len(data) \in Nat /\ left \in Nat
        /\ Len(out) \in Nat /\ cutIn \in Seq(Nat) /\ cutOut \in Seq(Nat)
    BY <1>1, RLEAssumption DEF IInv, TypeOK, CutsInv, CutInto, Word
  <2>2. PICK k \in 1 .. Len(cutIn) : cutOut[k] = read /\ cutIn[k] = Len(data) + left
    BY <1>1 DEF IInv, DecoderInv
  <2>3. ASSUME NEW j \in 1 .. Len(cutIn) - 1
        PROVE  /\ cutOut[j + 1] <= Len(out) /\ cutIn[j + 1] <= Len(input)
               /\ cutIn[j] < cutIn[j + 1]
    <3>1. j \in 1 .. Len(cutIn) /\ j + 1 \in 1 .. Len(cutIn)
      BY <2>1
    <3>2. /\ cutIn[j] \in Nat /\ cutIn[j + 1] \in Nat
          /\ cutOut[j] \in Nat /\ cutOut[j + 1] \in Nat
      BY <2>1, <3>1, ElementOfSeq
    <3>3. Describes(out, input, cutOut[j], cutOut[j + 1], cutIn[j], cutIn[j + 1])
      BY <1>1 DEF IInv, CutsInv, CutInto
    <3> QED
      BY <3>2, <3>3 DEF Describes
  <2>4. read <= Len(out)
    <3>1. CASE k = 1
      BY <2>1, <2>2, <3>1
    <3>2. CASE k > 1
      <4>1. k - 1 \in 1 .. Len(cutIn) - 1 /\ (k - 1) + 1 = k
        BY <2>1, <2>2, <3>2
      <4> QED
        BY <2>2, <2>3, <4>1
    <3> QED
      BY <2>1, <2>2, <3>1, <3>2
  <2>5. ASSUME pc = "done" PROVE read = Len(out)
    <3>1. Len(data) = Len(input)
      BY <1>1, <2>5 DEF IInv, DecoderInv, RoundTrip
    <3>2. ~(k \in 1 .. Len(cutIn) - 1)
      <4>1. SUFFICES ASSUME k \in 1 .. Len(cutIn) - 1 PROVE FALSE
        OBVIOUS
      <4>2. cutIn[k] < cutIn[k + 1] /\ cutIn[k + 1] <= Len(input) /\ cutIn[k + 1] \in Nat
        BY <2>1, <2>3, <4>1
      <4> QED
        BY <2>1, <2>2, <3>1, <4>2
    <3> QED
      BY <2>1, <2>2, <3>2
  <2> QED
    BY <2>4, <2>5 DEF StreamConsumed
<1> QED
  BY <1>1, Inductive, PTL

\* A chunk of n words never needs more than 2n + 1 words of stream, and no
\* more than 2n when n is even.
THEOREM BoundedStream == Spec => []OutputBound
<1>1. ASSUME IInv PROVE OutputBound
  <2>1. next \in Nat /\ same \in Nat /\ Len(out) \in Nat /\ Len(input) \in Nat
    BY <1>1, RLEAssumption DEF IInv, TypeOK, Word
  <2>2. Excess <= 1 /\ (Excess = 1 => (next - Pending) % 2 = 1)
    BY <1>1 DEF IInv, BoundInv
  <2>3. NearlyFits
    BY <2>1, <2>2 DEF NearlyFits, Excess, Pending
  <2>4. ASSUME pc # "compress", Len(input) % 2 = 0 PROVE Len(out) <= 2 * Len(input)
    <3>1. next = Len(input)
      BY <1>1, <2>4 DEF IInv, EncoderInv
    <3> QED
      BY <2>1, <2>2, <2>4, <3>1 DEF Excess, Pending
  <2> QED
    BY <2>3, <2>4 DEF OutputBound, EvenChunkFits
<1> QED
  BY <1>1, Inductive, PTL

\* The coding loops implement the promise of a compressor: no step of theirs
\* restores anything but the next missing word, unchanged.
THEOREM ImplementsCodec == Spec => Promise!Init /\ [][Promise!Next]_(Promise!vars)
<1>1. Init => Promise!Init
  BY DEF Init, Promise!Init
<1>2. IInv /\ IInv' /\ [Next]_vars => [Promise!Next]_(Promise!vars)
  <2> SUFFICES ASSUME IInv, IInv', [Next]_vars
               PROVE  [Promise!Next]_(Promise!vars)
    OBVIOUS
  <2>1. CASE Compress
    BY <2>1 DEF Compress, CompressEmpty, CompressFirst, CompressToken, WriteOutput,
                decoder, Promise!vars
  <2>2. CASE DecompressToken
    <3>1. /\ pc = "decompress" /\ pc' = "decompress" /\ input' = input
          /\ Len(data) < Len(input) /\ \E w : data' = Append(data, w)
      BY <2>2 DEF DecompressToken, Produce
    <3>2. /\ data \in Seq(Word) /\ data' \in Seq(Word) /\ input \in Seq(Word)
          /\ Len(data) \in Nat /\ Len(input) \in Nat
      BY SMTT(20) DEF IInv, TypeOK
    <3>3. Len(data') = Len(data) + 1
      BY <3>1, <3>2
    <3>4. \A k \in 1 .. Len(data') : data'[k] = input[k]
      BY <3>1 DEF IInv, DecoderInv, RoundTrip
    <3>5. /\ DOMAIN data = 1 .. Len(data) /\ DOMAIN input = 1 .. Len(input)
          /\ DOMAIN data' = 1 .. Len(data) + 1
      BY <3>2, <3>3
    <3>6. data' = [k \in DOMAIN data \cup {Len(data) + 1} |-> input[k]]
      <4>1. data' = [k \in 1 .. Len(data) + 1 |-> data'[k]]
        BY <3>2, <3>5
      <4>2. DOMAIN data \cup {Len(data) + 1} = 1 .. Len(data) + 1
        BY <3>2, <3>5
      <4> QED
        BY <3>3, <3>4, <4>1, <4>2
    <3>7. {Len(data) + 1} \in SUBSET (DOMAIN input \ DOMAIN data) /\ {Len(data) + 1} # {}
      <4>1. Len(data) + 1 \in DOMAIN input /\ Len(data) + 1 \notin DOMAIN data
        BY <3>1, <3>2, <3>5
      <4> QED
        BY <4>1
    <3> QED
      BY <3>1, <3>6, <3>7 DEF Promise!Next, Promise!Restore, Promise!Missing
  <2>3. CASE DecompressEnd
    <3>1. Len(data) = Len(input) /\ data \in Seq(Word) /\ input \in Seq(Word)
      BY <2>3 DEF DecompressEnd, IInv, TypeOK
    <3>2. DOMAIN input \ DOMAIN data = {}
      BY <3>1
    <3> QED
      BY <2>3, <3>2 DEF DecompressEnd, decoder, Promise!Next, Promise!Return, Promise!Missing
  <2>4. CASE UNCHANGED vars
    BY <2>4 DEF vars, decoder, Promise!vars
  <2> QED
    BY <2>1, <2>2, <2>3, <2>4 DEF Next, Decompress, Done
<1> QED
  BY <1>1, <1>2, Inductive, PTL DEF Spec

------------------------------------------------------------------------------
(* Runs are never split *)

\* The words in the register continue the last unit of the stream only when
\* that unit is full: the encoder writes a run out when another word follows
\* it or when its counter is full, never in between.
OpenInv ==
  (pc = "compress" /\ next > 0 /\ Len(cutIn) > 1) =>
    (UnitWord(Len(cutIn) - 1) = last => UnitLen(Len(cutIn) - 1) = MaxWord)

\* What holds between the units of the stream, and between the last of them
\* and the register.
RunsInv == RunsMaximal /\ OpenInv

\* _write() appends one unit of the run counted, or the two halves of a pair;
\* the units before it stay what they are.
LEMMA WriteUnits ==
  ASSUME NEW L \in Nat, L = Len(cutIn),
         TypeOK, CutsInv, EncoderInv, pc = "compress", next > 0, Write,
         UNCHANGED input
  PROVE  /\ \A k \in 1 .. L : cutIn'[k] = cutIn[k]
         /\ (last # Marker /\ same = 2) =>
              /\ Len(cutIn') = L + 2
              /\ UnitWord(L)' = last /\ UnitWord(L + 1)' = last
              /\ UnitLen(L)' = 1 /\ UnitLen(L + 1)' = 1
         /\ ~(last # Marker /\ same = 2) =>
              /\ Len(cutIn') = L + 1
              /\ UnitWord(L)' = last /\ UnitLen(L)' = same
<1> DEFINE pos == cutIn[L]
<1>1. /\ cutIn \in Seq(Nat) /\ L > 0 /\ pos \in Nat
      /\ same \in Nat /\ next \in Nat
  <2>1. same \in Nat
    BY RLEAssumption DEF TypeOK, Word
  <2>2. next \in Nat /\ cutIn \in Seq(Nat) /\ Len(cutIn) > 0
    BY DEF TypeOK
  <2> QED
    BY <2>1, <2>2
<1>2. /\ pos = next - same /\ same <= next /\ same > 0
      /\ \A j \in next - same + 1 .. next : input[j] = last
  BY DEF CutsInv, EncoderInv, Pending
<1>3. input' = input
  OBVIOUS
<1>4. CASE last # Marker /\ same = 2
  <2>1. cutIn' = Append(Append(cutIn, pos + 1), pos + 2)
    BY <1>4, WriteHistory
  <2> HIDE DEF pos
  <2>2. /\ Len(cutIn') = L + 2
        /\ \A k \in 1 .. L : cutIn'[k] = cutIn[k]
        /\ cutIn'[L + 1] = pos + 1 /\ cutIn'[L + 2] = pos + 2
    <3>1. ASSUME NEW x \in Nat, NEW y \in Nat,
                 cutIn' = Append(Append(cutIn, x), y)
          PROVE  /\ Len(cutIn') = L + 2
                 /\ \A k \in 1 .. L : cutIn'[k] = cutIn[k]
                 /\ cutIn'[L + 1] = x /\ cutIn'[L + 2] = y
      BY <1>1, <3>1
    <3>2. pos + 1 \in Nat /\ pos + 2 \in Nat
      BY <1>1
    <3> QED
      BY <2>1, <3>1, <3>2
  <2>3. /\ pos + 1 = next - 1 /\ pos + 2 = next
        /\ input[next - 1] = last /\ input[next] = last
    BY <1>1, <1>2, <1>4
  <2>4. cutIn'[L] = pos
    BY <1>1, <2>2 DEF pos
  <2>5. /\ input[cutIn'[L + 1]] = last /\ input[cutIn'[L + 2]] = last
        /\ cutIn'[L + 1] - cutIn'[L] = 1 /\ cutIn'[L + 2] - cutIn'[L + 1] = 1
    BY <1>1, <2>2, <2>3, <2>4
  <2>6. L + 1 + 1 = L + 2
    BY <1>1
  <2>7. /\ UnitWord(L)' = last /\ UnitWord(L + 1)' = last
        /\ UnitLen(L)' = 1 /\ UnitLen(L + 1)' = 1
    BY <1>3, <2>5, <2>6 DEF UnitWord, UnitLen
  <2> QED
    BY <1>4, <2>2, <2>7
<1>5. CASE ~(last # Marker /\ same = 2)
  <2>1. cutIn' = Append(cutIn, pos + same)
    BY <1>5, WriteHistory
  <2>2. pos + same = next
    BY <1>1, <1>2
  <2> HIDE DEF pos
  <2>3. /\ Len(cutIn') = L + 1
        /\ \A k \in 1 .. L : cutIn'[k] = cutIn[k]
        /\ cutIn'[L + 1] = next
    BY <1>1, <2>1, <2>2
  <2>4. cutIn'[L] = pos
    BY <1>1, <2>3 DEF pos
  <2>5. input[next] = last /\ next - pos = same
    BY <1>1, <1>2
  <2>6. UnitWord(L)' = last /\ UnitLen(L)' = same
    BY <1>3, <2>3, <2>4, <2>5 DEF UnitWord, UnitLen
  <2> QED
    BY <1>5, <2>3, <2>6
<1> QED
  BY <1>4, <1>5

\* Writing the run counted keeps every run of the stream unsplit.
LEMMA WriteRuns ==
  ASSUME NEW L \in Nat, L = Len(cutIn),
         TypeOK, CutsInv, EncoderInv, RunsInv, pc = "compress", next > 0, Write,
         UNCHANGED input
  PROVE  /\ RunsMaximal'
         /\ ~(last # Marker /\ same = 2) =>
              Len(cutIn') = L + 1 /\ UnitWord(L)' = last /\ UnitLen(L)' = same
         /\ (last # Marker /\ same = 2) =>
              Len(cutIn') = L + 2 /\ UnitWord(L + 1)' = last
<1>1. /\ L > 0 /\ MaxWord \in Nat /\ MaxWord >= 3
  BY RLEAssumption DEF TypeOK
<1>2. /\ \A k \in 1 .. L : cutIn'[k] = cutIn[k]
      /\ (last # Marker /\ same = 2) =>
           /\ Len(cutIn') = L + 2
           /\ UnitWord(L)' = last /\ UnitWord(L + 1)' = last
           /\ UnitLen(L)' = 1 /\ UnitLen(L + 1)' = 1
      /\ ~(last # Marker /\ same = 2) =>
           /\ Len(cutIn') = L + 1
           /\ UnitWord(L)' = last /\ UnitLen(L)' = same
  BY WriteUnits, Zenon
<1>3. ASSUME NEW k \in 1 .. L - 1
      PROVE  UnitWord(k)' = UnitWord(k) /\ UnitLen(k)' = UnitLen(k)
  <2>1. k \in 1 .. L /\ k + 1 \in 1 .. L
    BY <1>1
  <2>2. cutIn'[k] = cutIn[k] /\ cutIn'[k + 1] = cutIn[k + 1]
    BY <1>2, <2>1
  <2> QED
    BY <2>2 DEF UnitWord, UnitLen
<1>4. L > 1 => (UnitWord(L - 1) = last => UnitLen(L - 1) = MaxWord)
  BY DEF RunsInv, OpenInv
<1>5. ASSUME NEW k \in 1 .. L - 1, k + 1 \in 1 .. L - 1, UnitWord(k) = UnitWord(k + 1)
      PROVE  \/ UnitLen(k) = MaxWord
             \/ /\ UnitWord(k) # Marker /\ UnitLen(k) = 1 /\ UnitLen(k + 1) = 1
                /\ k + 2 \in 1 .. L - 1 => UnitWord(k + 2) # UnitWord(k)
  BY <1>5 DEF RunsInv, RunsMaximal, Units
<1>6. UnitWord(L)' = last
  BY <1>2
<1>7. ASSUME NEW k \in 1 .. L, k + 1 \in 1 .. L, UnitWord(k)' = UnitWord(k + 1)'
      PROVE  \/ UnitLen(k)' = MaxWord
             \/ /\ UnitWord(k)' # Marker /\ UnitLen(k)' = 1 /\ UnitLen(k + 1)' = 1
                /\ UnitWord(k + 2)' # UnitWord(k)' \/ k + 2 = L + 1
  <2>1. k \in 1 .. L - 1 /\ (k + 1 = L \/ k + 1 \in 1 .. L - 1)
    BY <1>7
  <2>2. CASE k + 1 = L
    <3>1. UnitWord(L - 1)' = last /\ k = L - 1
      BY <1>6, <1>7, <2>2
    <3> QED
      BY <1>3, <1>4, <2>1, <3>1
  <2>3. CASE k + 1 \in 1 .. L - 1
    <3>1. UnitWord(k) = UnitWord(k + 1)
      BY <1>3, <1>7, <2>1, <2>3
    <3>2. CASE UnitLen(k) = MaxWord
      BY <1>3, <2>1, <3>2
    <3>3. CASE UnitLen(k) # MaxWord
      <4>1. /\ UnitWord(k) # Marker /\ UnitLen(k) = 1 /\ UnitLen(k + 1) = 1
            /\ k + 2 \in 1 .. L - 1 => UnitWord(k + 2) # UnitWord(k)
        BY <1>5, <2>1, <2>3, <3>1, <3>3
      <4>2. CASE k + 2 \in 1 .. L - 1
        BY <1>3, <2>1, <2>3, <4>1, <4>2
      <4>3. CASE k + 2 \notin 1 .. L - 1
        <5>1. k + 2 = L /\ k + 1 = L - 1 /\ L > 1
          BY <2>1, <2>3, <4>3
        <5>2. UnitLen(L - 1) # MaxWord
          BY <1>1, <4>1, <5>1
        <5>3. UnitWord(k + 1) # last /\ UnitWord(k + 2)' = last
          BY <1>4, <1>6, <5>1, <5>2
        <5> QED
          BY <1>3, <2>1, <2>3, <3>1, <4>1, <5>3
      <4> QED
        BY <4>2, <4>3
    <3> QED
      BY <3>2, <3>3
  <2> QED
    BY <2>1, <2>2, <2>3
<1>8. CASE ~(last # Marker /\ same = 2)
  <2>1. Len(cutIn') = L + 1 /\ UnitWord(L)' = last /\ UnitLen(L)' = same
    BY <1>2, <1>8
  <2>2. Units' = 1 .. L
    BY <2>1 DEF Units
  <2>3. RunsMaximal'
    BY <1>7, <2>2 DEF RunsMaximal
  <2> QED
    BY <1>8, <2>1, <2>3
<1>9. CASE last # Marker /\ same = 2
  <2>1. /\ Len(cutIn') = L + 2 /\ UnitWord(L + 1)' = last
        /\ UnitLen(L)' = 1 /\ UnitLen(L + 1)' = 1
    BY <1>2, <1>9
  <2>2. Units' = 1 .. L + 1
    BY <2>1 DEF Units
  <2>3. RunsMaximal'
    <3>1. SUFFICES ASSUME NEW k \in 1 .. L + 1, k + 1 \in 1 .. L + 1,
                          UnitWord(k)' = UnitWord(k + 1)'
                   PROVE  \/ UnitLen(k)' = MaxWord
                          \/ /\ UnitWord(k)' # Marker
                             /\ UnitLen(k)' = 1 /\ UnitLen(k + 1)' = 1
                             /\ k + 2 \in 1 .. L + 1 => UnitWord(k + 2)' # UnitWord(k)'
      BY <2>2 DEF RunsMaximal
    <3>2. CASE k = L
      BY <1>6, <1>9, <2>1, <3>2
    <3>3. CASE k \in 1 .. L - 1 /\ k + 2 # L + 1
      BY <1>7, <3>1, <3>3
    <3>4. CASE k = L - 1
      \* The word before the pair is another one: its unit is full, or it is
      \* not the word of the pair.
      <4>1. UnitWord(L - 1)' = last /\ k \in 1 .. L - 1 /\ L > 1
        BY <1>6, <3>1, <3>4
      <4> QED
        BY <1>3, <1>4, <3>4, <4>1
    <3> QED
      BY <3>1, <3>2, <3>3, <3>4
  <2> QED
    BY <1>9, <2>1, <2>3
<1> QED
  BY <1>8, <1>9

\* Every step of the encoder keeps the runs unsplit: a register is only opened
\* behind a unit of another word or behind a full one.
LEMMA RunsStep ==
  ASSUME TypeOK, CutsInv, EncoderInv, RunsInv, [Next]_vars
  PROVE  RunsInv'
<1>1. Len(cutIn) \in Nat /\ Len(cutIn) > 0 /\ MaxWord \in Nat /\ MaxWord >= 3
  BY RLEAssumption DEF TypeOK
<1>2. ASSUME UNCHANGED <<cutIn, input>>
      PROVE  RunsMaximal'
  BY <1>2 DEF RunsInv, RunsMaximal, Units, UnitWord, UnitLen
<1>3. ASSUME UNCHANGED <<cutIn, input, last>>, pc' = "compress" => pc = "compress",
             next' > 0 => next > 0
      PROVE  OpenInv'
  BY <1>3 DEF RunsInv, OpenInv, UnitWord, UnitLen
<1>4. CASE CompressFirst
  <2>1. next = 0 /\ pc = "compress" /\ cutIn' = cutIn /\ input' = input
    BY <1>4 DEF CompressFirst, cuts
  <2>2. Len(cutIn) = 1
    \* A unit stands for at least one word, and there was none before.
    <3>1. cutIn \in Seq(Nat) /\ same \in Nat
      BY RLEAssumption DEF TypeOK, Word
    <3>2. cutIn[Len(cutIn)] = 0
      BY <2>1, <3>1 DEF CutsInv, EncoderInv, Pending
    <3>3. ASSUME Len(cutIn) > 1
          PROVE  FALSE
      <4>1. Len(cutIn) - 1 \in 1 .. Len(cutIn) - 1 /\ Len(cutIn) - 1 + 1 = Len(cutIn)
        BY <1>1, <3>3
      <4>2. Describes(out, input, cutOut[Len(cutIn) - 1], cutOut[Len(cutIn)],
                      cutIn[Len(cutIn) - 1], cutIn[Len(cutIn)])
        BY <4>1 DEF CutsInv, CutInto
      <4>3. cutIn[Len(cutIn) - 1] \in Nat
        BY <3>1, <4>1
      <4> QED
        BY <3>2, <4>2, <4>3 DEF Describes
    <3> QED
      BY <1>1, <3>3
  <2>3. OpenInv'
    BY <2>1, <2>2 DEF OpenInv
  <2> QED
    BY <1>2, <2>1, <2>3 DEF RunsInv
<1>5. CASE CompressToken
  <2>1. /\ pc = "compress" /\ pc' = "compress" /\ next > 0 /\ next' = next + 1
        /\ input' = input
    BY <1>5 DEF CompressToken
  <2>2. CASE Extends /\ same' = same + 1 /\ UNCHANGED <<last, out, cuts>>
    BY <1>2, <1>3, <2>1, <2>2 DEF RunsInv, cuts
  <2>3. CASE ~Extends /\ Write /\ last' = input[next + 1] /\ same' = 1
    <3>1. PICK L \in Nat : L = Len(cutIn)
      BY <1>1
    <3>2. /\ RunsMaximal'
          /\ ~(last # Marker /\ same = 2) =>
               Len(cutIn') = L + 1 /\ UnitWord(L)' = last /\ UnitLen(L)' = same
          /\ (last # Marker /\ same = 2) =>
               Len(cutIn') = L + 2 /\ UnitWord(L + 1)' = last
      BY <2>1, <2>3, <3>1, WriteRuns
    <3>3. last' # last \/ same = MaxWord
      BY <2>3 DEF Extends
    <3>4. CASE last # Marker /\ same = 2
      <4>1. Len(cutIn') = L + 2 /\ UnitWord(L + 1)' # last'
        BY <1>1, <3>2, <3>3, <3>4
      <4> QED
        BY <3>1, <3>2, <4>1 DEF RunsInv, OpenInv
    <3>5. CASE ~(last # Marker /\ same = 2)
      <4>1. Len(cutIn') = L + 1 /\ (UnitWord(L)' = last' => UnitLen(L)' = MaxWord)
        BY <3>2, <3>3, <3>5
      <4> QED
        BY <3>1, <3>2, <4>1 DEF RunsInv, OpenInv
    <3> QED
      BY <3>4, <3>5
  <2> QED
    BY <1>5, <2>2, <2>3 DEF CompressToken
<1>6. CASE WriteOutput
  <2>1. PICK L \in Nat : L = Len(cutIn)
    BY <1>1
  <2>2. RunsMaximal'
    BY <1>6, <2>1, WriteRuns DEF WriteOutput
  <2> QED
    BY <1>6, <2>2 DEF RunsInv, OpenInv, WriteOutput
<1>7. CASE CompressEmpty
  BY <1>2, <1>7 DEF RunsInv, OpenInv, CompressEmpty, encoder, cuts
<1>8. CASE DecompressToken
  BY <1>2, <1>3, <1>8 DEF RunsInv, DecompressToken, encoder, cuts
<1>9. CASE DecompressEnd
  BY <1>2, <1>9 DEF RunsInv, OpenInv, DecompressEnd, encoder, cuts
<1>10. CASE UNCHANGED vars
  BY <1>2, <1>3, <1>10 DEF RunsInv, vars, encoder, cuts
<1> QED
  BY <1>4, <1>5, <1>6, <1>7, <1>8, <1>9, <1>10
  DEF Next, Compress, Decompress, Done

\* The encoder never splits a run before its counter is full, whatever the
\* width of the words: two units of the same word side by side are the halves
\* of a pair, or the first of them is as long as a unit can be.
THEOREM Unsplit == Spec => []RunsMaximal
<1>1. Init => RunsInv
  BY DEF Init, RunsInv, RunsMaximal, OpenInv, Units
<1>2. IInv /\ RunsInv /\ [Next]_vars => RunsInv'
  BY RunsStep DEF IInv
<1>3. RunsInv => RunsMaximal
  BY DEF RunsInv
<1> QED
  BY <1>1, <1>2, <1>3, Inductive, PTL DEF Spec
================================================================================
