---------------------------------- MODULE RLE ----------------------------------
(****************************************************************************)
(* One run-length coded stream, as data::CompressorRLE writes and reads it   *)
(* for a chunk and as the plugin engines write and read it for each of the   *)
(* four channels of a pixel group.                                           *)
(*                                                                           *)
(* A word is a value of the unsigned type T the code is instantiated with    *)
(* (uint8_t .. uint64_t), so run lengths and tokens share the range Word.    *)
(* The encoder is a loop over the input with two registers; the decoder is   *)
(* the loop of READ.  Reading past the end of the stream is undefined        *)
(* behaviour in the code: here it yields any word.                           *)
(****************************************************************************)
EXTENDS Integers, Sequences

CONSTANTS
  MaxWord,  \* std::numeric_limits<T>::max()
  Marker,   \* _rleMarker
  Inputs    \* the chunks the program may be asked to compress

Word == 0 .. MaxWord

ASSUME RLEAssumption ==
  /\ MaxWord \in Nat /\ MaxWord >= 3
  /\ Marker \in Word
  /\ Inputs \subseteq Seq(Word)

VARIABLES
  pc,       \* which loop runs: "compress", "decompress" or "done"
  input,    \* the words of the chunk
  next,     \* number of input words the encoder has looked at
  last,     \* tokenLast: the word of the run being counted
  same,     \* tokenSame: its length so far
  out,      \* the words written to the result buffer
  read,     \* number of stream words the decoder has consumed
  token,    \* the word the decoder repeats
  left,     \* tokenLeft: how often it is still to be produced
  data,     \* the decompressed words
  cutOut,   \* history, see Write: the stream words written ...
  cutIn     \* ... and the input words they stand for, after each unit

cuts    == <<cutOut, cutIn>>
encoder == <<next, last, same, out, cuts>>
decoder == <<read, token, left, data>>
vars    == <<pc, input, encoder, decoder>>

Init ==
  /\ pc = "compress"
  /\ input \in Inputs
  /\ next = 0 /\ last = 0 /\ same = 0 /\ out = <<>>
  /\ read = 0 /\ token = 0 /\ left = 0 /\ data = <<>>
  /\ cutOut = <<0>> /\ cutIn = <<0>>

------------------------------------------------------------------------------
(* The encoder *)

\* Mutants of Encoded: no escape for the marker, no short forms for short runs,
\* the counter written before the word.
EncodedUnescaped(w, n) ==
  IF n \in 0 .. 2 THEN [k \in 1 .. n |-> w] ELSE <<Marker, w, n>>
EncodedLong(w, n) == <<Marker, w, n>>
EncodedSwapped(w, n) ==
  IF w = Marker THEN <<Marker, n, Marker>>
  ELSE IF n \in 0 .. 2 THEN [k \in 1 .. n |-> w]
  ELSE <<Marker, n, w>>

\* The words _write() emits for a run of n times the word w.
Encoded(w, n) ==
  IF w = Marker THEN <<Marker, Marker, n>>
  ELSE IF n \in 0 .. 2 THEN [k \in 1 .. n |-> w]
  ELSE <<Marker, w, n>>

\* _write(last, same, out).  A unit is what one READ of the decoder consumes
\* from the stream; a pair is two units of one word each.
Write ==
  LET at  == Len(out)
      pos == cutIn[Len(cutIn)]
      outEnd == at + Len(Encoded(last, same))
  IN /\ out' = out \o Encoded(last, same)
     /\ IF last # Marker /\ same = 2
        THEN /\ cutOut' = Append(Append(cutOut, at + 1), outEnd)
             /\ cutIn'  = Append(Append(cutIn, pos + 1), pos + same)
        ELSE /\ cutOut' = Append(cutOut, outEnd)
             /\ cutIn'  = Append(cutIn, pos + same)

\* A chunk without words yields an empty result.
CompressEmpty ==
  /\ pc = "compress" /\ Len(input) = 0
  /\ pc' = "decompress"
  /\ UNCHANGED <<input, encoder, decoder>>

\* Mutant of CompressFirst: the counter starts at zero.
CompressFirstUncounted ==
  /\ pc = "compress" /\ next = 0 /\ Len(input) > 0
  /\ next' = 1 /\ last' = input[1] /\ same' = 0
  /\ UNCHANGED <<pc, input, out, cuts, decoder>>

\* The first word opens the first run before the loop is entered.
CompressFirst ==
  /\ pc = "compress" /\ next = 0 /\ Len(input) > 0
  /\ next' = 1 /\ last' = input[1] /\ same' = 1
  /\ UNCHANGED <<pc, input, out, cuts, decoder>>

\* Mutants of Extends: the counter is not limited, or limited too early.
ExtendsUnlimited == input[next + 1] = last
ExtendsEarly == input[next + 1] = last /\ same < MaxWord - 1

\* _compressToken(): the word extends the run unless the counter is full.
Extends == input[next + 1] = last /\ same # MaxWord

CompressToken ==
  /\ pc = "compress" /\ next > 0 /\ next < Len(input)
  /\ next' = next + 1
  /\ \/ /\ Extends
        /\ same' = same + 1
        /\ UNCHANGED <<last, out, cuts>>
     \/ /\ ~Extends
        /\ Write
        /\ last' = input[next + 1] /\ same' = 1
  /\ UNCHANGED <<pc, input, decoder>>

\* WRITE_OUTPUT after the loop, then setSize() and pack() of the result.
WriteOutput ==
  /\ pc = "compress" /\ next > 0 /\ next = Len(input)
  /\ Write
  /\ pc' = "decompress"
  /\ UNCHANGED <<input, next, last, same, decoder>>

------------------------------------------------------------------------------
(* The decoder *)

\* The values a read of the k-th word of the stream may return.
Readable(k) == IF k \in DOMAIN out THEN {out[k]} ELSE Word

\* Mutant of Produce: the word produced is not counted.
ProduceUncounted(w, n) ==
  /\ token' = w
  /\ left' = n
  /\ data' = Append(data, w)

\* The second half of READ, and the store.
Produce(w, n) ==
  /\ token' = w
  /\ left' = (n - 1) % (MaxWord + 1)
  /\ data' = Append(data, w)

\* One iteration of the decoder loop: READ, --left, store.
DecompressToken ==
  /\ pc = "decompress" /\ Len(data) < Len(input)
  /\ \/ /\ left > 0
        /\ Produce(token, left)
        /\ UNCHANGED read
     \/ /\ left = 0
        /\ \E first \in Readable(read + 1) :
             \/ /\ first # Marker
                /\ Produce(first, 1)
                /\ read' = read + 1
             \/ /\ first = Marker
                /\ \E w \in Readable(read + 2), n \in Readable(read + 3) :
                     Produce(w, n)
                /\ read' = read + 3
  /\ UNCHANGED <<pc, input, encoder>>

\* The loop ends after as many words as the caller asked for.
DecompressEnd ==
  /\ pc = "decompress" /\ Len(data) = Len(input)
  /\ pc' = "done"
  /\ UNCHANGED <<input, encoder, decoder>>

Done == pc = "done" /\ UNCHANGED vars

Compress   == CompressEmpty \/ CompressFirst \/ CompressToken \/ WriteOutput
Decompress == DecompressToken \/ DecompressEnd

Next == Compress \/ Decompress \/ Done

\* Both loops run to their end on the caller's thread.
Spec == Init /\ [][Next]_vars /\ WF_vars(Compress) /\ WF_vars(Decompress)

------------------------------------------------------------------------------
(* Properties *)

\* Every variable has its type; the run counter of the encoder never exceeds
\* the word it is written into.
TypeOK ==
  /\ pc \in {"compress", "decompress", "done"}
  /\ input \in Seq(Word) /\ next \in 0 .. Len(input)
  /\ last \in Word /\ same \in Word /\ out \in Seq(Word)
  /\ read \in Nat /\ token \in Word /\ left \in Word /\ data \in Seq(Word)
  /\ cutOut \in Seq(Nat) /\ cutIn \in Seq(Nat) /\ Len(cutIn) > 0

\* Decompressing what was compressed restores the chunk, whatever runs,
\* markers and saturated counters it holds; at no time has the decoder
\* produced a word that differs from the one at the same place of the chunk.
RoundTrip ==
  /\ Len(data) <= Len(input)
  /\ \A k \in 1 .. Len(data) : data[k] = input[k]
  /\ pc = "done" => Len(data) = Len(input)

\* The asserts of the plugin decoder on the input position: it never reads
\* past the end of the stream, and has consumed all of it when it is done.
StreamConsumed ==
  /\ pc # "compress" => read <= Len(out)
  /\ pc = "done" => read = Len(out)

NearlyFits == Len(out) <= 2 * next + 1
EvenChunkFits ==
  (pc # "compress" /\ Len(input) % 2 = 0) => Len(out) <= 2 * Len(input)

\* The stream never needs more than twice the words seen so far, plus one; and
\* a chunk with an even number of words (each full chunk of 8 KB) is stored in
\* at most twice its words, which is the room getCompressBound() grants.
OutputBound == NearlyFits /\ EvenChunkFits

\* The k-th unit of the stream: the word it stands for and how often.
UnitWord(k) == input[cutIn[k + 1]]
UnitLen(k)  == cutIn[k + 1] - cutIn[k]
Units       == 1 .. Len(cutIn) - 1

\* A run is only ever split when the counter is full: two adjacent units with
\* the same word are either preceded by a full unit or are the two halves of
\* a pair.
RunsMaximal ==
  \A k \in Units :
    (k + 1 \in Units /\ UnitWord(k) = UnitWord(k + 1)) =>
      \/ UnitLen(k) = MaxWord
      \/ /\ UnitWord(k) # Marker /\ UnitLen(k) = 1 /\ UnitLen(k + 1) = 1
         /\ k + 2 \in Units => UnitWord(k + 2) # UnitWord(k)

\* A stream is one way to keep the promise of a compressor, from the first
\* word to the last, and it is kept: both loops end.
Promise == INSTANCE Codec WITH
  Sources <- Inputs, source <- input, restored <- data, returned <- (pc = "done")

KeepsPromise == Promise!Spec

\* What the comments of the code promise of getCompressBound() and of the
\* chunk buffers: twice the input is always enough.
CompressBound == pc # "compress" => Len(out) <= 2 * Len(input)

------------------------------------------------------------------------------
(* The inductive invariant *)

\* The stream words a+1 .. b are one unit, which the decoder expands to the
\* input words p+1 .. q.
Describes(stream, words, a, b, p, q) ==
  /\ b <= Len(stream) /\ q <= Len(words)
  /\ \/ /\ b = a + 1 /\ q = p + 1
        /\ stream[b] # Marker /\ stream[b] = words[q]
     \/ /\ b = a + 3 /\ q > p
        /\ stream[a + 1] = Marker /\ stream[b] = q - p
        /\ \A j \in p + 1 .. q : words[j] = stream[a + 2]

\* The words counted in the registers and not yet written.
Pending == IF pc = "compress" THEN same ELSE 0

\* The cuts at (in the stream) and pos (in the words) divide the stream into
\* units.
CutInto(stream, words, at, pos) ==
  /\ Len(at) = Len(pos) /\ at[1] = 0 /\ pos[1] = 0
  /\ at[Len(at)] = Len(stream)
  /\ \A k \in 1 .. Len(pos) - 1 :
       Describes(stream, words, at[k], at[k + 1], pos[k], pos[k + 1])

CutsInv ==
  /\ CutInto(out, input, cutOut, cutIn)
  /\ cutIn[Len(cutIn)] = next - Pending

EncoderInv ==
  /\ pc = "compress" =>
       /\ same <= next /\ (next > 0 => same > 0)
       /\ \A j \in next - same + 1 .. next : input[j] = last
       /\ read = 0 /\ left = 0 /\ data = <<>>
  /\ pc # "compress" => next = Len(input)

DecoderInv ==
  /\ RoundTrip
  /\ \E k \in 1 .. Len(cutIn) : cutOut[k] = read /\ cutIn[k] = Len(data) + left
  /\ \A j \in Len(data) + 1 .. Len(data) + left : input[j] = token

\* How far the stream is longer than twice the words it holds.  Only a single
\* marker costs more than two words for one, and the run after it is not a
\* run of markers.
Excess == Len(out) - 2 * (next - Pending)

BoundInv ==
  /\ Excess <= 1
  /\ Excess = 1 => (next - Pending) % 2 = 1
  /\ (pc = "compress" /\ next > 0 /\ last = Marker) =>
       /\ Excess <= 0
       /\ Excess = 0 => (next - Pending) % 2 = 0

\* The registers and the history describe the chunk, the decoder stands at a
\* cut, and the stream is short enough for each run still to be written.
IInv == TypeOK /\ CutsInv /\ EncoderInv /\ DecoderInv /\ BoundInv
================================================================================
