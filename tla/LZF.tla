----------------------------------- MODULE LZF -----------------------------------
(****************************************************************************)
(* lzf_compress() and lzf_decompress() of the bundled liblzf, as they are    *)
(* configured: VERY_FAST, CHECK_INPUT, and a hash table that is not          *)
(* initialised (INIT_HTAB 0), so that the first look into a slot returns any *)
(* position.                                                                 *)
(****************************************************************************)
EXTENDS LZ77

CONSTANT Unrolled   \* comparisons of the unrolled part of the match loop (16)

MaxOff == Highs * Bytes
MaxRef == Bytes + Lengths

\* Without input or room the result is empty.
Begin(chunk, bytes, h) ==
  /\ input' = chunk /\ room' = bytes /\ hash' = h
  /\ table' = [s \in Slots |-> Unset]
  /\ ip' = 0 /\ lit' = 0
  /\ IF Len(chunk) = 0 \/ bytes = 0
     THEN pc' = "sent" /\ out' = <<>>
     ELSE pc' = "loop" /\ out' = <<0>>
  /\ UNCHANGED sink

\* What reading a slot may return: any position if it was never written.
Looked(s) == IF table[s] = Unset THEN 0 .. Size - 1 ELSE {table[s]}

\* The test of a candidate: its offset fits the format, the first byte of the
\* chunk is never one, and three bytes are equal.
Matches(ref) ==
  ref > 0 /\ ref < ip /\ ip - ref - 1 < MaxOff /\ Equal(ref, ip, 3)

\* There is not enough room: the result is empty.
Overflow ==
  /\ pc' = "sent" /\ out' = <<>>
  /\ UNCHANGED <<source, ip, lit, sink>>

\* How far the match loop gets.  The unrolled comparisons are made whenever
\* the limit is above their number, and may pass it by two.
MatchLength(ref) ==
  LET rest   == Size - ip - 2
      maxlen == IF rest > MaxRef THEN MaxRef ELSE rest
      least  == IF maxlen > Unrolled THEN Unrolled + 3 ELSE 3
  IN Common(ref, ip, 3, IF maxlen > least THEN maxlen ELSE least)

\* Mutant of Reference: the long form is used one length late.
ReferenceLate(off, len) ==
  (IF len < Lengths THEN <<off \div Bytes + len * Highs>>
   ELSE <<off \div Bytes + (Lengths - 1) * Highs, len - (Lengths - 1)>>)
  \o <<off % Bytes>>

\* The code of a back reference; len counts the octets without two.
Reference(off, len) ==
  (IF len < Lengths - 1 THEN <<off \div Bytes + len * Highs>>
   ELSE <<off \div Bytes + (Lengths - 1) * Highs, len - (Lengths - 1)>>)
  \o <<off % Bytes>>

\* The exact test before a match is written: three bytes and the next run's
\* first one.
NoRoom == Len(out) - (IF lit = 0 THEN 1 ELSE 0) + 4 >= room

\* A match is written; the last two positions of it enter the table, unless
\* the chunk ends here.
Match(ref) ==
  LET len == MatchLength(ref)
      to  == ip + len
      found == [table EXCEPT ![SlotAt(ip)] = ip]
  IN /\ out' = Append(EndRun(out, lit) \o Reference(ip - ref - 1, len - 2), 0)
     /\ lit' = 0
     /\ ip' = to
     /\ table' = IF to >= Size - 2 THEN found
                 ELSE [found EXCEPT ![SlotAt(to - 2)] = to - 2,
                                    ![SlotAt(to - 1)] = to - 1]
     /\ UNCHANGED <<pc, source, sink>>

\* The next byte joins the open run, which is ended when it is full.
PutLiteral ==
  LET written == Append(out, At(ip))
  IN /\ ip' = ip + 1
     /\ IF lit + 1 = Highs
        THEN out' = Append(EndRun(written, Highs), 0) /\ lit' = 0
        ELSE out' = written /\ lit' = lit + 1

Literal ==
  /\ PutLiteral
  /\ table' = [table EXCEPT ![SlotAt(ip)] = ip]
  /\ UNCHANGED <<pc, source, sink>>

\* One iteration of the main loop.
Loop ==
  /\ pc = "loop" /\ ip < Size - 2
  /\ LET looked == Looked(SlotAt(ip))
         hits   == {ref \in looked : Matches(ref)}
     IN \/ ~NoRoom /\ \E ref \in hits : Match(ref)
        \/ looked # hits /\ Len(out) < room /\ Literal
        \/ /\ (hits # {} /\ NoRoom) \/ (looked # hits /\ Len(out) >= room)
           /\ table' = [table EXCEPT ![SlotAt(ip)] = ip]
           /\ Overflow

\* Mutant of EndLoop: the room for the rest is not tested.
EndLoopUnchecked ==
  /\ pc = "loop" /\ ip >= Size - 2
  /\ pc' = "tail"
  /\ UNCHANGED <<source, coder, sink>>

\* At most two bytes are left; room is needed for them and one first byte.
EndLoop ==
  /\ pc = "loop" /\ ip >= Size - 2
  /\ \/ /\ Len(out) + 3 <= room
        /\ pc' = "tail"
        /\ UNCHANGED <<source, coder, sink>>
     \/ /\ Len(out) + 3 > room
        /\ Overflow /\ UNCHANGED table

Rest ==
  /\ pc = "tail" /\ ip < Size
  /\ PutLiteral
  /\ UNCHANGED <<pc, source, table, sink>>

EndStream ==
  /\ pc = "tail" /\ ip = Size
  /\ pc' = "sent"
  /\ out' = EndRun(out, lit)
  /\ UNCHANGED <<source, table, ip, lit, sink>>

Compress == Loop \/ EndLoop \/ Rest \/ EndStream

------------------------------------------------------------------------------
(* lzf_decompress(), called with the size of the chunk as out_len *)

\* Mutant of BackReference: the bytes of the long form are not counted.
BackReferenceShort(ctrl) ==
  LET all == IF ctrl \div Highs = Lengths - 1 THEN 3 ELSE 2
      len == 2 + (IF all = 3 THEN Lengths - 1 + stream[read + 2] ELSE ctrl \div Highs)
  IN IF read + 2 > Len(stream) THEN Error
     ELSE \E low \in Readable(read + all) :
            CopyRun(all, len, (ctrl % Highs) * Bytes + low + 1)

\* A back reference must be complete; its bytes are read one by one.
BackReference(ctrl) ==
  LET long == ctrl \div Highs = Lengths - 1
      all  == IF long THEN 3 ELSE 2
      len  == 2 + (IF long THEN Lengths - 1 + stream[read + 2] ELSE ctrl \div Highs)
  IN IF read + all > Len(stream) THEN Error
     ELSE CopyRun(all, len, (ctrl % Highs) * Bytes + stream[read + all] + 1)

\* One iteration of the loop, whose first byte is read without a test.
Decompress ==
  /\ pc = "decompress"
  /\ \E ctrl \in Readable(read + 1) :
       IF ctrl < Highs THEN LiteralRun(ctrl + 1) ELSE BackReference(ctrl)
  /\ UNCHANGED <<source, coder, stream>>
================================================================================
