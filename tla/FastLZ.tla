---------------------------------- MODULE FastLZ ----------------------------------
(****************************************************************************)
(* fastlz_compress(), fastlz_compress_level() and fastlz_decompress() of the *)
(* bundled FastLZ: two levels with one source text. The compressor has no    *)
(* size of its result buffer and checks nothing.                             *)
(****************************************************************************)
EXTENDS LZ77

CONSTANTS
  Unroll,    \* comparisons of the unrolled part of the match loop (8)
  LongBlock  \* chunks of this size and longer are coded at level 2 (65536)

VARIABLE level

MaxLen == Bytes + Lengths

\* MAX_DISTANCE of the two levels, and MAX_FARDISTANCE.
MaxDistance(l) == IF l = 1 THEN Highs * Bytes ELSE Highs * Bytes - 1
MaxFar         == Bytes * Bytes - 1 + MaxDistance(2) - 1

\* The level fastlz_compress() chooses, and those a caller may ask for.
Dispatch(n) == IF n < LongBlock THEN 1 ELSE 2

\* Short chunks are one literal run; longer ones start with two literals.
Begin(chunk, bytes, h, l) ==
  /\ input' = chunk /\ room' = bytes /\ hash' = h /\ level' = l
  /\ table' = [s \in Slots |-> 0]
  /\ IF Len(chunk) < 4
     THEN /\ pc' = "sent" /\ ip' = Len(chunk) /\ lit' = 0
          /\ out' = IF chunk = <<>> THEN <<>> ELSE <<Len(chunk) - 1>> \o chunk
     ELSE /\ pc' = "loop" /\ ip' = 2 /\ lit' = 2
          /\ out' = <<Highs - 1, chunk[1], chunk[2]>>
  /\ UNCHANGED sink

\* Mutant of PutLiteral: a full run is not ended.
PutLiteralEndless ==
  /\ ip' = ip + 1
  /\ out' = Append(out, At(ip)) /\ lit' = lit + 1

\* One literal; a full run keeps the first byte it was started with.
PutLiteral ==
  /\ ip' = ip + 1
  /\ IF lit + 1 = Highs
     THEN out' = out \o <<At(ip), Highs - 1>> /\ lit' = 0
     ELSE out' = Append(out, At(ip)) /\ lit' = lit + 1

Literal(entered) ==
  /\ PutLiteral
  /\ table' = entered
  /\ UNCHANGED <<pc, source, level, sink>>

\* Codes of level 1: a long match is split into pieces of MaxLen - 2 bytes.
LevelOne(d, len) ==
  LET piece  == MaxLen - 2
      pieces == (len - 1) \div piece
      rest   == len - pieces * piece
      full   == <<(Lengths - 1) * Highs + d \div Bytes, piece - (Lengths - 1) - 2, d % Bytes>>
  IN [k \in 1 .. 3 * pieces |-> full[((k - 1) % 3) + 1]] \o
     (IF rest < Lengths - 1
      THEN <<rest * Highs + d \div Bytes, d % Bytes>>
      ELSE <<(Lengths - 1) * Highs + d \div Bytes, rest - (Lengths - 1), d % Bytes>>)

\* Length bytes of level 2: as many full ones as needed, and the rest.
LengthBytes(n) ==
  [k \in 1 .. n \div (Bytes - 1) |-> Bytes - 1] \o <<n % (Bytes - 1)>>

\* Mutant of LevelTwo: a distance is far one byte late.
LevelTwoLate(d, len) ==
  LET more == IF len >= Lengths - 1 THEN LengthBytes(len - (Lengths - 1)) ELSE <<>>
      top  == (IF more = <<>> THEN len ELSE Lengths - 1) * Highs
      far  == d - MaxDistance(2)
  IN IF d <= MaxDistance(2)
     THEN <<top + d \div Bytes>> \o more \o <<d % Bytes>>
     ELSE <<top + Highs - 1>> \o more \o <<Bytes - 1, far \div Bytes, far % Bytes>>

\* Codes of level 2: a far distance is announced by the largest near one.
LevelTwo(d, len) ==
  LET long == len >= Lengths - 1
      top  == (IF long THEN Lengths - 1 ELSE len) * Highs
      more == IF long THEN LengthBytes(len - (Lengths - 1)) ELSE <<>>
      far  == d - MaxDistance(2)
  IN IF d < MaxDistance(2)
     THEN <<top + d \div Bytes>> \o more \o <<d % Bytes>>
     ELSE <<top + Highs - 1>> \o more \o <<Bytes - 1, far \div Bytes, far % Bytes>>

\* What the hash of the three bytes at p may be: the last of them may lie
\* behind the end of the chunk.
SlotsAt(p) ==
  {Hash(hash, At(p), At(p + 1), c) : c \in IF p + 2 < Size THEN {At(p + 2)} ELSE Byte}

\* A match at distance, of which first bytes have been compared, is followed
\* to the end; a byte less than is equal is coded.
Match(distance, first, entered) ==
  LET start == ip + first
      bound == IF start + Unroll > Size - 2 THEN start + Unroll ELSE Size - 2
      last  == IF distance = 1 THEN Size - 2 ELSE bound
      end   == start + Common(start - distance, start, 0, last - 1 - start) + 1
      len   == end - 3 - ip
      codes == IF level = 1 THEN LevelOne(distance - 1, len)
                            ELSE LevelTwo(distance - 1, len)
  IN /\ out' = Append(EndRun(out, lit) \o codes, Highs - 1)
     /\ lit' = 0
     /\ ip' = end - 1
     /\ \E s \in SlotsAt(end - 3), t \in SlotsAt(end - 2) :
          table' = [entered EXCEPT ![s] = end - 3, ![t] = end - 2]
     /\ UNCHANGED <<pc, source, level, sink>>

\* Level 2 looks for a run of the byte before first, without the table.
IsRun == level = 2 /\ Equal(ip - 1, ip, 3)

\* The bytes of a match that are compared before it is accepted.
Least(distance) ==
  IF level = 2 /\ distance >= MaxDistance(2) THEN 5 ELSE 3

Reach == IF level = 1 THEN MaxDistance(1) ELSE MaxFar

\* One iteration of the main loop, which stops Unroll + 4 bytes early.
Loop ==
  /\ pc = "loop" /\ ip < Size - (Unroll + 4)
  /\ \/ /\ IsRun
        /\ Match(1, 3, table)
     \/ /\ ~IsRun
        /\ LET slot     == SlotAt(ip)
               distance == ip - table[slot]
               entered  == [table EXCEPT ![slot] = ip]
           IN IF distance # 0 /\ distance < Reach
                 /\ Equal(table[slot], ip, Least(distance))
              THEN Match(distance, Least(distance), entered)
              ELSE Literal(entered)

\* The rest of the chunk is literal.
Rest ==
  /\ pc = "loop" /\ ip >= Size - (Unroll + 4) /\ ip < Size
  /\ PutLiteral
  /\ UNCHANGED <<pc, source, table, level, sink>>

\* The first byte of a stream of level 2 is marked.
EndStream ==
  /\ pc = "loop" /\ ip = Size
  /\ LET ended == EndRun(out, lit)
     IN out' = IF level = 1 THEN ended ELSE [ended EXCEPT ![1] = @ + Highs]
  /\ pc' = "sent"
  /\ UNCHANGED <<source, table, ip, lit, level, sink>>

Compress == Loop \/ Rest \/ EndStream

------------------------------------------------------------------------------
(* fastlz_decompress(), called with the size of the chunk as maxout *)

StreamLevel == stream[1] \div Highs + 1

\* The numbers of full length bytes there may be at position k: behind the end
\* of a stream, where the loop goes on reading, as many as any output could take.
FullBytes(k) ==
  LET full == {n \in 0 .. Len(stream) :
                 k + n - 1 <= Len(stream) /\ \A i \in k .. k + n - 1 : stream[i] = Bytes - 1}
      most == CHOOSE n \in full : n + 1 \notin full
  IN IF k + most <= Len(stream) THEN {most}
     ELSE most .. most + (Size \div (Bytes - 1)) + 1

\* A match of level 1: its length, by one byte more if it is long, and its
\* distance.
MatchOne(field, high) ==
  LET bytes == IF field = Lengths - 1 THEN 3 ELSE 2
  IN \E more \in IF bytes = 3 THEN Readable(read + 2) ELSE {0}, code \in Readable(read + bytes) :
       CopyRun(bytes, field + 2 + more, high * Bytes + code + 1)

\* A match of level 2: its length, by as many bytes more as it takes, and its
\* distance, a far one in two bytes more.
MatchTwo(field, high) ==
  \E full \in IF field = Lengths - 1 THEN FullBytes(read + 2) ELSE {-1} :
    \E last \in IF full >= 0 THEN Readable(read + 2 + full) \ {Bytes - 1} ELSE {0},
       code \in Readable(read + 3 + full) :
      LET len == field + 2 + last + IF full > 0 THEN full * (Bytes - 1) ELSE 0
      IN IF code = Bytes - 1 /\ high = Highs - 1
         THEN \E far \in Readable(read + 4 + full), low \in Readable(read + 5 + full) :
                CopyRun(5 + full, len, far * Bytes + low + MaxDistance(2) + 1)
         ELSE CopyRun(3 + full, len, high * Bytes + code + 1)

MatchRun(field, high) ==
  IF StreamLevel = 1 THEN MatchOne(field, high) ELSE MatchTwo(field, high)

\* One iteration of the loop. The mark of the level is not part of the first
\* code.
Decompress ==
  /\ pc = "decompress"
  /\ \E byte \in Readable(read + 1) :
       LET ctrl == IF read = 0 THEN byte % Highs ELSE byte
       IN IF read = 0 /\ byte \div Highs \notin {0, 1} THEN Error
          ELSE IF ctrl < Highs THEN LiteralRun(ctrl + 1) ELSE MatchRun(ctrl \div Highs, ctrl % Highs)
  /\ UNCHANGED <<source, coder, level, stream>>
================================================================================
