----------------------------- MODULE DataCompressor -----------------------------
(****************************************************************************)
(* The chunked, parallel operations of data::Compressor: compress() of one   *)
(* instance, the transfer of its chunk list by the application, and          *)
(* decompress() of another.  Each iteration of an OpenMP loop is a process   *)
(* of its own; the compressing instance is used again and again and keeps    *)
(* the buffers of earlier calls.                                             *)
(*                                                                           *)
(* A byte is the pair of the call that compressed it and its position.  What *)
(* a chunk engine writes is kept as the range of bytes it stands for; an     *)
(* engine asked for another number of bytes than were compressed produces    *)
(* bytes of no call.                                                         *)
(****************************************************************************)
EXTENDS Integers, Sequences

CONSTANTS
  ChunkSize,  \* getChunkSize()
  MaxSize,    \* bound: the most bytes the application compresses at once
  Bound,      \* getCompressBound(), for each number of bytes
  Builds,     \* the builds of the compressing side, by PRESSION_USE_OPENMP
  Transports, \* how chunk lists reach the other side: "reliable" or "lossy"
  MaxCalls    \* bound: how often the instance compresses

ASSUME DataAssumption ==
  /\ ChunkSize \in Nat \ {0}
  /\ MaxSize \in Nat
  /\ Bound \in [0 .. MaxSize -> Nat]
  /\ Builds \subseteq BOOLEAN /\ Transports \subseteq {"reliable", "lossy"}
  /\ MaxCalls \in Nat \ {0}

VARIABLES
  openMP,    \* whether the compressing side was built with PRESSION_USE_OPENMP
  transport, \* how the application transfers chunk lists
  pc,        \* "idle", "compress", "send", "check", "decompress", "returned", "thrown"
  call,      \* which data the application works on
  size,      \* its size in bytes
  results,   \* compressed: [room, lo, hi, of] per chunk, see Result
  work,      \* the state of each iteration of the running loop
  inputs,    \* the chunk list handed to decompress()
  restored   \* the bytes decompress() has written, by position

vars == <<openMP, transport, pc, call, size, results, work, inputs, restored>>

Smaller(a, b) == IF a < b THEN a ELSE b

\* A result buffer: room bytes are allocated, the engine has stored the bytes
\* lo .. hi - 1 of call of.
Empty == [room |-> 0, lo |-> 0, hi |-> 0, of |-> 0]

\* Mutants of Start, End and NumChunks: iterations counted from 1 instead of 0,
\* the last chunk not cut off, the partial chunk not counted.
StartShifted(i) == (i - 2) * ChunkSize
EndUncut(i) == i * ChunkSize
NumChunksFull == size \div ChunkSize

\* The bytes of iteration i of the chunk loops.
Start(i) == (i - 1) * ChunkSize
End(i)   == Smaller(i * ChunkSize, size)

NumChunks == (size + ChunkSize - 1) \div ChunkSize
\* The bytes compress() puts into result i: all of them in a build without
\* OpenMP.
Lo(i) == IF openMP THEN Start(i) ELSE 0

Hi(i) == IF openMP THEN End(i) ELSE size

Init ==
  /\ openMP \in Builds /\ transport \in Transports
  /\ pc = "idle" /\ call = 0 /\ size = 0
  /\ results = <<>> /\ work = <<>> /\ inputs = <<>> /\ restored = <<>>

------------------------------------------------------------------------------
(* compress() *)

\* Mutant of Resized: buffers are only ever added.
ResizedGrowing(n) ==
  [i \in 1 .. (IF n > Len(results) THEN n ELSE Len(results)) |->
     IF i <= Len(results) THEN results[i] ELSE Empty]

\* compressed.resize(n): surplus buffers go, missing ones are added empty.
Resized(n) == [i \in 1 .. n |-> IF i <= Len(results) THEN results[i] ELSE Empty]

Compress(n) ==
  /\ pc \in {"idle", "returned", "thrown"} /\ call < MaxCalls
  /\ pc' = "compress" /\ call' = call + 1 /\ size' = n
  /\ LET chunks == IF openMP THEN NumChunks' ELSE 1
     IN /\ results' = Resized(chunks)
        /\ work' = [i \in 1 .. chunks |-> "todo"]
  /\ inputs' = <<>> /\ restored' = <<>>
  /\ UNCHANGED <<openMP, transport>>

\* Mutant of Reserve: a buffer is only ever allocated once.
ReserveOnce(i) ==
  /\ pc = "compress" /\ work[i] = "todo"
  /\ LET room == Bound[Hi(i) - Lo(i)]
     IN results' = [results EXCEPT ![i].room = IF @ = 0 THEN room ELSE @]
  /\ work' = [work EXCEPT ![i] = "reserved"]
  /\ UNCHANGED <<pc, call, size, inputs, restored>>

\* reserve() only ever enlarges the buffer.
Reserve(i) ==
  /\ pc = "compress" /\ work[i] = "todo"
  /\ LET room == Bound[Hi(i) - Lo(i)]
     IN results' = [results EXCEPT ![i].room = IF room > @ THEN room ELSE @]
  /\ work' = [work EXCEPT ![i] = "reserved"]
  /\ UNCHANGED <<pc, call, size, inputs, restored>>

\* compressChunk() of the engine: what it writes takes any part of the bound;
\* the RLE engine then packs the buffer to that size.
CompressChunk(i) ==
  /\ pc = "compress" /\ work[i] = "reserved"
  /\ \E room \in {results[i].room} \cup {r \in {1} : Lo(i) < Hi(i)} :
       results' = [results EXCEPT ![i] =
                     [room |-> room, lo |-> Lo(i), hi |-> Hi(i), of |-> call]]
  /\ work' = [work EXCEPT ![i] = "done"]
  /\ UNCHANGED <<pc, call, size, inputs, restored>>

CompressReturn ==
  /\ pc = "compress" /\ \A i \in DOMAIN work : work[i] = "done"
  /\ pc' = "send"
  /\ UNCHANGED <<call, size, results, work, inputs, restored>>

------------------------------------------------------------------------------
(* The application *)

\* The list arrives as it was returned; without a reliable transport its end
\* may be missing, or its last chunk may be there twice.
Arrivals ==
  {results} \cup
    IF transport = "lossy"
    THEN {SubSeq(results, 1, n) : n \in 0 .. Len(results)} \cup
         {Append(results, results[i]) : i \in {Len(results)} \ {0}}
    ELSE {}

Send ==
  /\ pc = "send"
  /\ inputs' \in Arrivals
  /\ pc' = "check"
  /\ UNCHANGED <<call, size, results, work, restored>>

------------------------------------------------------------------------------
(* decompress() *)

\* decompressChunk() of input i to the bytes from .. to - 1 of the output.
Written(i, from, to) ==
  [p \in DOMAIN restored \cup from .. to - 1 |->
     IF p \notin from .. to - 1 THEN restored[p]
     ELSE IF to - from = inputs[i].hi - inputs[i].lo
     THEN <<inputs[i].of, inputs[i].lo + p - from>>
     ELSE <<0, 0>>]

DecompressNothing ==
  /\ pc = "check" /\ Len(inputs) = 0
  /\ pc' = "returned"
  /\ UNCHANGED <<call, size, results, work, inputs, restored>>

\* A single chunk is taken to hold everything.
DecompressWhole ==
  /\ pc = "check" /\ Len(inputs) = 1
  /\ restored' = Written(1, 0, size)
  /\ pc' = "decompress" /\ work' = <<"done">>
  /\ UNCHANGED <<call, size, results, inputs>>

\* Mutant of Consistent: fewer chunks than needed are accepted.
ConsistentAtMost == Len(inputs) <= size \div ChunkSize + 1

\* The two chunk counts decompress() accepts for size bytes.
Consistent == Len(inputs) \in {size \div ChunkSize, size \div ChunkSize + 1}

Throw ==
  /\ pc = "check" /\ Len(inputs) > 1 /\ ~Consistent
  /\ pc' = "thrown"
  /\ UNCHANGED <<call, size, results, work, inputs, restored>>

DecompressLoop ==
  /\ pc = "check" /\ Len(inputs) > 1 /\ Consistent
  /\ pc' = "decompress"
  /\ work' = [i \in DOMAIN inputs |-> "todo"]
  /\ UNCHANGED <<call, size, results, inputs, restored>>

DecompressChunk(i) ==
  /\ pc = "decompress" /\ work[i] = "todo"
  /\ restored' = Written(i, Start(i), End(i))
  /\ work' = [work EXCEPT ![i] = "done"]
  /\ UNCHANGED <<pc, call, size, results, inputs>>

DecompressReturn ==
  /\ pc = "decompress" /\ \A i \in DOMAIN work : work[i] = "done"
  /\ pc' = "returned"
  /\ UNCHANGED <<call, size, results, work, inputs, restored>>

------------------------------------------------------------------------------
Iteration(i) == Reserve(i) \/ CompressChunk(i) \/ DecompressChunk(i)

Transfer ==
  /\ \/ \E i \in DOMAIN work : Iteration(i)
     \/ CompressReturn \/ Send
     \/ DecompressNothing \/ DecompressWhole \/ Throw
     \/ DecompressLoop \/ DecompressReturn
  /\ UNCHANGED <<openMP, transport>>

Stopped == pc \in {"idle", "returned", "thrown"} /\ UNCHANGED vars

Next ==
  \/ \E n \in 0 .. MaxSize : Compress(n)
  \/ Transfer \/ Stopped

\* The calling thread and the threads of its team run; the application may
\* stop compressing at any time.
Spec == Init /\ [][Next]_vars /\ WF_vars(Transfer)

------------------------------------------------------------------------------
(* Properties *)

Chunk == [room : Nat, lo : Nat, hi : Nat, of : Nat]

\* Every variable has its type.
TypeOK ==
  /\ openMP \in Builds /\ transport \in Transports
  /\ pc \in {"idle", "compress", "send", "check", "decompress", "returned", "thrown"}
  /\ call \in 0 .. MaxCalls /\ size \in 0 .. MaxSize
  /\ results \in Seq(Chunk) /\ inputs \in Seq(Chunk)
  /\ work \in Seq({"todo", "reserved", "done"})
  /\ DOMAIN restored \subseteq Nat
  /\ \A p \in DOMAIN restored : restored[p] \in Nat \X Nat

\* What compress() returns tiles the data of this call, whatever the instance
\* compressed before: no chunk is left over, missing or from an earlier call.
ResultsFresh ==
  pc = "send" =>
    /\ \A i \in DOMAIN results : results[i].of = call
    /\ \A i \in DOMAIN results :
         results[i].lo = IF i = 1 THEN 0 ELSE results[i - 1].hi
    /\ results # <<>> => results[Len(results)].hi = size
    /\ results = <<>> => size = 0

\* compressChunk() is only ever called with getCompressBound() bytes of room,
\* also in a buffer an earlier call has packed.
RoomForChunk ==
  pc = "compress" =>
    \A i \in DOMAIN work :
      work[i] = "reserved" => results[i].room >= Bound[Hi(i) - Lo(i)]

\* The iterations of the parallel loop write different bytes, all of them
\* inside the output.
NoDataRaces ==
  pc = "decompress" =>
    \A i, j \in DOMAIN inputs :
      /\ Start(i) .. End(i) - 1 \subseteq 0 .. size - 1
      /\ i # j => (Start(i) .. End(i) - 1) \cap (Start(j) .. End(j) - 1) = {}

\* A list of several chunks that decompress() accepts restores all full chunks
\* of the data, and never a wrong byte: at most the last, partial chunk is
\* missing. This is so of the chunks of parallel builds only: the one result of
\* a build without OpenMP, arriving twice, is taken for two chunks.
AcceptedTail ==
  (openMP /\ pc = "returned" /\ Len(inputs) > 1) =>
    /\ 0 .. (size \div ChunkSize) * ChunkSize - 1 \subseteq DOMAIN restored
    /\ \A p \in DOMAIN restored : p < size /\ restored[p] = <<call, p>>

\* With a reliable transport the pair of instances keeps the promise of a
\* compressor on every call: nothing but the right bytes at their places, and
\* decompress() returns. A lossy one is not promised anything.
Reliable == transport = "reliable"

\* The n bytes of call c.
Data(n, c) == [p \in 0 .. n - 1 |-> <<c, p>>]

Promise == INSTANCE Codec WITH
  Sources  <- {Data(n, c) : n \in 0 .. MaxSize, c \in 0 .. MaxCalls},
  source   <- IF Reliable THEN Data(size, call) ELSE <<>>,
  restored <- IF Reliable THEN restored ELSE <<>>,
  returned <- ~Reliable \/ pc \in {"idle", "returned"}

KeepsPromise == Promise!Spec

\* "@throw std::runtime_error if chunksize does not match input": a list that
\* is decompressed has a chunk for each ChunkSize bytes, or is a single chunk.
ThrowsOnMismatch ==
  pc = "decompress" => Len(inputs) \in {1, NumChunks}
================================================================================
