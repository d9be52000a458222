---------------------------------- MODULE LZ77 ----------------------------------
(****************************************************************************)
(* One chunk on its way through a byte-oriented LZ77 coder of the library:   *)
(* what liblzf and FastLZ have in common.                                    *)
(*                                                                           *)
(* A stream is a sequence of codes.  The first byte of a code splits into a  *)
(* length (real: 3 bits) and the high part of a distance (5 bits); length 0  *)
(* starts a run of literals and says how many follow.  The compressor keeps  *)
(* the first byte of the run it is in open, and fills it in when the run is  *)
(* ended.  Bytes are numbers, split by the two constants, so that small      *)
(* values reach every limit of the formats with short chunks.                *)
(*                                                                           *)
(* The hash of three bytes is any function: the formats do not depend on it. *)
(****************************************************************************)
EXTENDS Integers, Sequences

CONSTANTS
  Lengths,  \* values of the length field of a code (8)
  Highs,    \* values of its distance field, and the longest literal run (32)
  Slots,    \* the slots of the hash table
  Inputs,   \* the chunks that may be compressed
  Hashes,   \* the names of the hash functions
  Hash(_, _, _, _),  \* the slot a hash function finds for three bytes
  Rooms     \* for each chunk size, the sizes the result buffer may have

Byte  == 0 .. Lengths * Highs - 1
Bytes == Lengths * Highs

ASSUME LZ77Assumption ==
  /\ Lengths \in Nat /\ Lengths >= 3
  /\ Highs \in Nat /\ Highs >= 3
  /\ Inputs \subseteq Seq(Byte)
  /\ \A h \in Hashes : \A a, b, c \in Byte : Hash(h, a, b, c) \in Slots
  /\ \A chunk \in Inputs : Rooms[Len(chunk)] \subseteq Nat

VARIABLES
  pc,      \* "idle", "loop", "tail", "sent", "decompress", "done", "error", "returned"
  input,   \* the chunk
  room,    \* out_len: the bytes the result buffer has room for
  hash,    \* the name of the hash function
  table,   \* htab: a position of the chunk in each slot, or Unset
  ip,      \* position of the next byte to code, from 0
  lit,     \* lit, copy: length of the open literal run
  out,     \* the result buffer up to op, the open first byte included
  stream,  \* the bytes that reach the decompressor
  read,    \* how many of them it has consumed
  data     \* the bytes it has written

source == <<input, room, hash>>
coder  == <<table, ip, lit, out>>
sink   == <<stream, read, data>>

Unset == -1

Size == Len(input)

\* The byte at a position of the chunk, positions counted from 0 as in the code.
At(p) == input[p + 1]

\* The slot of the three bytes at p.
SlotAt(p) == Hash(hash, At(p), At(p + 1), At(p + 2))

\* The first n bytes at p and q are equal.
Equal(p, q, n) == \A k \in 0 .. n - 1 : At(p + k) = At(q + k)

\* How many bytes at p and q are equal, if at least n and at most most are.
Common(p, q, n, most) ==
  LET differ == {k \in n .. most - 1 : At(p + k) # At(q + k)}
  IN IF differ = {} THEN most ELSE CHOOSE k \in differ : \A j \in differ : k <= j

\* The open run of n literals is ended: its first byte is filled in, or taken
\* back if there are none.
EndRun(written, n) ==
  IF n = 0 THEN SubSeq(written, 1, Len(written) - 1)
  ELSE [written EXCEPT ![Len(written) - n] = n - 1]

\* n bytes are copied from back bytes behind the end, one after the other: what
\* is written may be read again.
Copied(written, back, n) ==
  written \o [k \in 1 .. n |-> written[Len(written) - back + 1 + ((k - 1) % back)]]

------------------------------------------------------------------------------
(* Between the two sides, and what the decompressors share *)

\* A stream that arrives with one byte changed, or without its end.
Damaged(bytes) ==
  {[bytes EXCEPT ![k] = b] : k \in DOMAIN bytes, b \in Byte} \cup
  {SubSeq(bytes, 1, k) : k \in 1 .. Len(bytes) - 1}

Arrive(streams) ==
  /\ pc = "sent"
  /\ stream' \in streams
  /\ pc' = "decompress"
  /\ UNCHANGED <<source, coder, read, data>>

\* The values a read of the k-th byte of the stream may return.
Readable(k) == IF k \in DOMAIN stream THEN {stream[k]} ELSE Byte

\* The decompressors return 0.
Error == pc' = "error" /\ UNCHANGED <<read, data>>

\* The code at read is done: the next one follows, or the stream ends.
Advance(bytes, written) ==
  /\ read' = read + bytes /\ data' = written
  /\ pc' = IF read + bytes < Len(stream) THEN "decompress" ELSE "done"

\* A literal run must fit the output and be complete.
LiteralRun(n) ==
  IF Len(data) + n > Size \/ read + 1 + n > Len(stream) THEN Error
  ELSE Advance(1 + n, data \o SubSeq(stream, read + 2, read + 1 + n))

\* A copy must fit the output and begin inside it.
CopyRun(bytes, n, back) ==
  IF Len(data) + n > Size \/ back > Len(data) THEN Error
  ELSE Advance(bytes, Copied(data, back, n))
================================================================================
