-------------------------- MODULE DataCompressor_proofs --------------------------
(****************************************************************************)
(* Proofs about DataCompressor for every chunk size, bound, number of bytes  *)
(* and order of the loops' iterations.                                       *)
(*                                                                           *)
(* The inductive invariant says what each buffer holds while compress()      *)
(* runs, that the list the application hands to decompress() is the returned *)
(* one up to its end, and which bytes the finished iterations of the         *)
(* decompression loop have written.                                          *)
(****************************************************************************)
EXTENDS DataCompressor, SequenceTheorems, TLAPS

------------------------------------------------------------------------------
(* Arithmetic of chunks *)

\* Multiplication by a chunk size is monotonic.
LEMMA TimesMonotonic ==
  \A a, b, c \in Nat : a <= b => a * c <= b * c
<1> SUFFICES ASSUME NEW a \in Nat, NEW b \in Nat, NEW c \in Nat, a <= b
             PROVE  a * c <= b * c
  OBVIOUS
<1>1. PICK d \in Nat : b = a + d
  <2>1. b - a \in Nat /\ b = a + (b - a)
    OBVIOUS
  <2> QED
    BY <2>1
<1>2. (a + d) * c = a * c + d * c
  OBVIOUS
<1>3. d * c \in Nat /\ a * c \in Nat
  OBVIOUS
<1> QED
  BY <1>1, <1>2, <1>3

\* What rounding down and rounding up to whole chunks mean.
LEMMA Quotients ==
  ASSUME NEW s \in Nat, NEW c \in Nat \ {0}
  PROVE  /\ s \div c \in Nat
         /\ (s \div c) * c <= s /\ s < (s \div c) * c + c
         /\ (s + c - 1) \div c \in Nat
         /\ ((s + c - 1) \div c) * c < s + c /\ s <= ((s + c - 1) \div c) * c
<1>1. \A n \in Nat : n \div c \in Nat /\ (n \div c) * c <= n /\ n < (n \div c) * c + c
  OBVIOUS
<1>2. s + c - 1 \in Nat
  OBVIOUS
<1> QED
  BY <1>1, <1>2

\* Rounding up adds at most one chunk, the partial one.
LEMMA RoundedUp ==
  ASSUME NEW s \in Nat, NEW c \in Nat \ {0}
  PROVE  /\ (s + c - 1) \div c \in {s \div c, s \div c + 1}
         /\ (s + c - 1) \div c = s \div c <=> (s \div c) * c = s
<1> DEFINE q == s \div c
           n == (s + c - 1) \div c
<1>1. /\ q \in Nat /\ q * c <= s /\ s < q * c + c
      /\ n \in Nat /\ n * c < s + c /\ s <= n * c
  BY Quotients
<1> HIDE DEF q, n
<1>2. n < q + 2
  <2>1. (q + 2) * c = q * c + c + c
    BY <1>1
  <2>2. q + 2 <= n => (q + 2) * c <= n * c
    BY <1>1, TimesMonotonic
  <2> QED
    BY <1>1, <2>1, <2>2
<1>3. q <= n
  <2>1. n + 1 <= q => (n + 1) * c <= q * c
    BY <1>1, TimesMonotonic
  <2>2. (n + 1) * c = n * c + c
    BY <1>1
  <2> QED
    BY <1>1, <2>1, <2>2
<1>4. n = q => q * c = s
  BY <1>1
<1>5. q * c = s => n = q
  <2>1. (q + 1) * c = q * c + c
    BY <1>1
  <2>2. q + 1 <= n => (q + 1) * c <= n * c
    BY <1>1, TimesMonotonic
  <2> QED
    BY <1>1, <1>3, <2>1, <2>2
<1> QED
  BY <1>1, <1>2, <1>3, <1>4, <1>5 DEF q, n

------------------------------------------------------------------------------
(* The inductive invariant *)

\* The results of compress().
Chunks == IF openMP THEN NumChunks ELSE 1

\* Chunk r holds the bytes of iteration i of this call.
Holds(r, i) == r.lo = Lo(i) /\ r.hi = Hi(i) /\ r.of = call

\* While compress() runs every finished iteration has filled its buffer.
Compressing ==
  pc = "compress" =>
    /\ Len(results) = Chunks /\ Len(work) = Chunks
    /\ \A i \in 1 .. Len(work) :
         /\ work[i] = "reserved" => results[i].room >= Bound[Hi(i) - Lo(i)]
         /\ work[i] = "done" => Holds(results[i], i)

\* Afterwards every buffer is filled.
Compressed ==
  pc \notin {"idle", "compress"} =>
    /\ Len(results) = Chunks
    /\ \A i \in 1 .. Len(results) : Holds(results[i], i)

\* What is handed to decompress() is the returned list, perhaps without its
\* end or with its last chunk twice.
Handed ==
  pc \in {"check", "decompress", "returned"} =>
    /\ Len(inputs) <= Len(results) + 1
    /\ \A i \in 1 .. Len(inputs) :
         inputs[i] = results[IF i <= Len(results) THEN i ELSE Len(results)]

\* The loop decompresses a consistent list, and an iteration that is done has
\* written its bytes.
Restoring ==
  /\ pc = "decompress" => Len(work) = Len(inputs)
  /\ (pc \in {"decompress", "returned"} /\ Len(inputs) > 1) =>
    /\ Consistent
    /\ \A i \in 1 .. Len(inputs) :
         (pc = "returned" \/ work[i] = "done") =>
           Start(i) .. End(i) - 1 \subseteq DOMAIN restored

\* Of a parallel build's chunks only right bytes are restored.
RightBytes ==
  (openMP /\ pc \in {"decompress", "returned"} /\ Len(inputs) > 1) =>
    \A p \in DOMAIN restored : p < size /\ restored[p] = <<call, p>>

\* The loop starts with an empty output.
Untouched == pc \in {"compress", "send", "check"} => restored = <<>>

IInv ==
  /\ TypeOK /\ Compressing /\ Compressed /\ Handed
  /\ Restoring /\ RightBytes /\ Untouched

------------------------------------------------------------------------------
(* What the bytes of an iteration are *)

\* Start, End and the two chunk counts are natural numbers; an iteration that
\* is not the last ends where the next one starts.
LEMMA Ranges ==
  ASSUME TypeOK
  PROVE  /\ Chunks \in Nat /\ size \in Nat /\ NumChunks \in Nat
         /\ \A i \in Nat \ {0} : Start(i) \in Nat /\ End(i) \in Nat /\ End(i) <= size
         /\ \A i \in 1 .. NumChunks :
              /\ Start(i) < End(i)
              /\ i < NumChunks => End(i) = Start(i + 1)
         /\ NumChunks > 0 => End(NumChunks) = size
         /\ NumChunks = 0 <=> size = 0
<1> USE DataAssumption
<1>1. size \in Nat /\ ChunkSize \in Nat \ {0}
  BY DEF TypeOK
<1>2. NumChunks \in Nat /\ NumChunks * ChunkSize < size + ChunkSize
      /\ size <= NumChunks * ChunkSize
  BY <1>1, Quotients DEF NumChunks
<1>3. \A k \in Nat : k * ChunkSize \in Nat /\ (k + 1) * ChunkSize = k * ChunkSize + ChunkSize
  BY <1>1
<1>4. \A i \in Nat \ {0} : /\ i - 1 \in Nat /\ Start(i) \in Nat
                           /\ i * ChunkSize = Start(i) + ChunkSize
  BY <1>3 DEF Start
<1>5. \A i \in Nat \ {0} : End(i) = IF i * ChunkSize < size THEN i * ChunkSize ELSE size
  BY DEF End, Smaller
<1>6. ASSUME NEW i \in 1 .. NumChunks
      PROVE  /\ Start(i) < End(i)
             /\ i < NumChunks => End(i) = Start(i + 1)
  <2>1. i \in Nat \ {0} /\ i - 1 \in Nat /\ NumChunks - 1 \in Nat
    BY <1>2
  <2>2. NumChunks * ChunkSize = (NumChunks - 1) * ChunkSize + ChunkSize
    <3>1. PICK k \in Nat : k = NumChunks - 1
      BY <2>1
    <3>2. NumChunks = k + 1
      BY <1>2, <3>1
    <3> QED
      BY <1>3, <3>1, <3>2
  <2>3. (i - 1) * ChunkSize <= (NumChunks - 1) * ChunkSize
    BY <1>1, <1>2, <2>1, TimesMonotonic
  <2>4. Start(i) < size
    BY <1>1, <1>2, <1>3, <2>1, <2>2, <2>3 DEF Start
  <2>5. i < NumChunks => i * ChunkSize <= (NumChunks - 1) * ChunkSize
    BY <1>1, <1>2, <2>1, TimesMonotonic
  <2>6. Start(i + 1) = i * ChunkSize
    BY <2>1 DEF Start
  <2>7. Start(i) < i * ChunkSize /\ Start(i) \in Nat /\ i * ChunkSize \in Nat
    BY <1>1, <1>4, <2>1
  <2>8. Start(i) < End(i)
    BY <1>1, <1>5, <2>1, <2>4, <2>7
  <2>9. i < NumChunks => i * ChunkSize < size
    BY <1>1, <1>2, <1>3, <2>1, <2>2, <2>5, <2>7
  <2> QED
    BY <1>5, <2>1, <2>6, <2>8, <2>9
<1>7. NumChunks > 0 => End(NumChunks) = size
  BY <1>1, <1>2, <1>5
<1>8. NumChunks = 0 <=> size = 0
  <2>1. NumChunks = 0 => NumChunks * ChunkSize = 0
    OBVIOUS
  <2>2. NumChunks # 0 => 1 * ChunkSize <= NumChunks * ChunkSize
    BY <1>1, <1>2, TimesMonotonic
  <2> QED
    BY <1>1, <1>2, <2>1, <2>2
<1>9. \A i \in Nat \ {0} : End(i) \in Nat /\ End(i) <= size
  BY <1>1, <1>3, <1>5
<1> QED
  BY <1>1, <1>2, <1>4, <1>6, <1>7, <1>8, <1>9 DEF Chunks

\* Different iterations have no byte in common.
LEMMA RangesApart ==
  ASSUME TypeOK, NEW i \in Nat \ {0}, NEW j \in Nat \ {0}, i # j
  PROVE  (Start(i) .. End(i) - 1) \cap (Start(j) .. End(j) - 1) = {}
<1> USE DataAssumption
<1>1. ChunkSize \in Nat /\ size \in Nat
  BY DEF TypeOK
<1>2. ASSUME NEW a \in Nat \ {0}, NEW b \in Nat \ {0}, a < b
      PROVE  End(a) <= Start(b)
  <2>1. a * ChunkSize <= (b - 1) * ChunkSize
    <3>1. b - 1 \in Nat /\ a <= b - 1
      BY <1>2
    <3> QED
      BY <1>1, <3>1, TimesMonotonic
  <2>2. End(a) <= a * ChunkSize
    BY <1>1 DEF End, Smaller
  <2>3. a * ChunkSize \in Nat /\ End(a) \in Nat /\ (b - 1) * ChunkSize \in Nat
    BY <1>1, Ranges
  <2> QED
    BY <2>1, <2>2, <2>3 DEF Start
<1>3. /\ Start(i) \in Nat /\ End(i) \in Nat
      /\ Start(j) \in Nat /\ End(j) \in Nat
  BY Ranges
<1>4. CASE i < j
  BY <1>2, <1>3, <1>4
<1>5. CASE j < i
  BY <1>2, <1>3, <1>5
<1> QED
  BY <1>4, <1>5

\* A consistent list has an iteration for each whole chunk of the data, and at
\* most one more.
LEMMA ConsistentCovers ==
  ASSUME TypeOK, NEW m \in {size \div ChunkSize, size \div ChunkSize + 1},
         NEW p \in 0 .. (size \div ChunkSize) * ChunkSize - 1
  PROVE  \E i \in 1 .. m : p \in Start(i) .. End(i) - 1
<1> USE DataAssumption
<1> DEFINE q == size \div ChunkSize
           i == p \div ChunkSize
<1>1. size \in Nat /\ ChunkSize \in Nat \ {0}
  BY DEF TypeOK
<1>2. q \in Nat /\ q * ChunkSize <= size /\ q * ChunkSize \in Nat
  <2>1. q \in Nat /\ q * ChunkSize <= size
    BY <1>1, Quotients
  <2> HIDE DEF q
  <2> QED
    BY <1>1, <2>1
<1>3. p \in Nat /\ p < q * ChunkSize
  BY <1>2
<1>4. i \in Nat /\ i * ChunkSize <= p /\ p < i * ChunkSize + ChunkSize
  BY <1>1, <1>3, Quotients
<1>5. m \in {q, q + 1}
  OBVIOUS
<1> HIDE DEF q, i
<1>6. i < q
  <2>1. q <= i => q * ChunkSize <= i * ChunkSize
    BY <1>1, <1>2, <1>4, TimesMonotonic
  <2>2. i * ChunkSize \in Nat
    BY <1>1, <1>4
  <2> QED
    BY <1>1, <1>2, <1>3, <1>4, <2>1, <2>2
<1>7. i + 1 \in 1 .. m
  BY <1>2, <1>4, <1>5, <1>6
<1>8. (i + 1) * ChunkSize = i * ChunkSize + ChunkSize /\ i * ChunkSize \in Nat
  BY <1>1, <1>4
<1>9. (i + 1) * ChunkSize <= q * ChunkSize
  BY <1>1, <1>2, <1>4, <1>6, TimesMonotonic
<1>10. Start(i + 1) = i * ChunkSize
  BY <1>4 DEF Start
<1>11. p < End(i + 1) /\ End(i + 1) \in Nat
  BY <1>1, <1>2, <1>3, <1>4, <1>8, <1>9 DEF End, Smaller
<1>12. p \in Start(i + 1) .. End(i + 1) - 1
  BY <1>3, <1>4, <1>8, <1>10, <1>11
<1> QED
  BY <1>7, <1>12

------------------------------------------------------------------------------
(* compress() *)

\* While the size of the data stays, so do the bytes of the iterations.
LEMMA SameRanges ==
  ASSUME UNCHANGED <<openMP, size>>
  PROVE  /\ Chunks' = Chunks /\ NumChunks' = NumChunks
         /\ \A i : /\ Lo(i)' = Lo(i) /\ Hi(i)' = Hi(i)
                   /\ Start(i)' = Start(i) /\ End(i)' = End(i)
  BY DEF Chunks, NumChunks, Lo, Hi, Start, End, Smaller

\* An iteration's bytes are at most as many as the bound is defined for.
LEMMA BoundOfIteration ==
  ASSUME TypeOK, NEW i \in 1 .. Chunks
  PROVE  /\ Lo(i) \in Nat /\ Hi(i) \in Nat /\ Lo(i) <= Hi(i)
         /\ Bound[Hi(i) - Lo(i)] \in Nat
<1> USE DataAssumption
<1>1. Chunks \in Nat /\ size \in 0 .. MaxSize /\ openMP \in BOOLEAN
  BY Ranges DEF TypeOK
<1>2. CASE openMP
  <2>1. Chunks = NumChunks /\ Lo(i) = Start(i) /\ Hi(i) = End(i)
    BY <1>2 DEF Chunks, Lo, Hi
  <2>2. i \in Nat \ {0} /\ i \in 1 .. NumChunks
    BY <1>1, <2>1
  <2>3. Start(i) \in Nat /\ End(i) \in Nat /\ End(i) <= size /\ Start(i) < End(i)
    BY <2>2, Ranges
  <2>4. End(i) - Start(i) \in 0 .. MaxSize
    BY <1>1, <2>3
  <2> QED
    BY <2>1, <2>3, <2>4
<1>3. CASE ~openMP
  <2>1. Lo(i) = 0 /\ Hi(i) = size /\ size - 0 \in 0 .. MaxSize
    BY <1>1, <1>3 DEF Lo, Hi
  <2> QED
    BY <1>1, <2>1
<1> QED
  BY <1>1, <1>2, <1>3

\* A list of n buffers is a list.
LEMMA ResizedType ==
  ASSUME TypeOK, NEW n \in Nat
  PROVE  Resized(n) \in Seq(Chunk) /\ Len(Resized(n)) = n
<1>1. \A i \in 1 .. n : (IF i <= Len(results) THEN results[i] ELSE Empty) \in Chunk
  <2> TAKE i \in 1 .. n
  <2>1. results \in Seq(Chunk) /\ Len(results) \in Nat
    BY LenProperties DEF TypeOK
  <2>2. i <= Len(results) => results[i] \in Chunk
    BY <2>1, ElementOfSeq
  <2>3. Empty \in Chunk
    BY DEF Empty, Chunk
  <2> QED
    BY <2>2, <2>3
<1>2. Resized(n) \in Seq(Chunk)
  BY <1>1, IsASeq DEF Resized
<1> QED
  BY <1>2 DEF Resized

LEMMA CompressStep ==
  ASSUME IInv, NEW n \in 0 .. MaxSize, Compress(n)
  PROVE  IInv'
<1> USE DataAssumption
<1> DEFINE chunks == IF openMP THEN NumChunks' ELSE 1
<1>1. /\ pc' = "compress" /\ call' = call + 1 /\ size' = n
      /\ results' = Resized(chunks)
      /\ work' = [i \in 1 .. chunks |-> "todo"]
      /\ inputs' = <<>> /\ restored' = <<>>
      /\ openMP' = openMP /\ transport' = transport
      /\ TypeOK /\ call < MaxCalls
  BY DEF Compress, IInv
<1>2. chunks \in Nat
  <2>1. NumChunks' = (n + ChunkSize - 1) \div ChunkSize
    BY <1>1 DEF NumChunks
  <2>2. n \in Nat /\ ChunkSize \in Nat \ {0}
    OBVIOUS
  <2>3. (n + ChunkSize - 1) \div ChunkSize \in Nat
    BY <2>2, Quotients
  <2> QED
    BY <2>1, <2>3
<1>3. chunks = Chunks'
  BY <1>1 DEF Chunks
<1> HIDE DEF chunks
<1>4. results' \in Seq(Chunk) /\ Len(results') = chunks
  BY <1>1, <1>2, ResizedType
<1>5. work' \in Seq({"todo", "reserved", "done"}) /\ Len(work') = chunks
  <2>1. [i \in 1 .. chunks |-> "todo"] \in Seq({"todo", "reserved", "done"})
    BY <1>2, IsASeq
  <2> QED
    BY <1>1, <1>2, <2>1
<1>6. TypeOK'
  <2>1. call' \in 0 .. MaxCalls
    BY <1>1 DEF TypeOK
  <2>2. inputs' \in Seq(Chunk)
    BY <1>1, EmptySeq
  <2>3. DOMAIN restored' = {}
    BY <1>1
  <2> QED
    BY <1>1, <1>4, <1>5, <2>1, <2>2, <2>3 DEF TypeOK
<1>7. Compressing'
  <2>1. \A i \in 1 .. Len(work') : work'[i] = "todo"
    BY <1>1, <1>5
  <2> QED
    BY <1>3, <1>4, <1>5, <2>1 DEF Compressing
<1>8. Compressed' /\ Handed' /\ Restoring' /\ RightBytes' /\ Untouched'
  BY <1>1 DEF Compressed, Handed, Restoring, RightBytes, Untouched
<1> QED
  BY <1>6, <1>7, <1>8 DEF IInv

\* An iteration of compress() touches its own buffer only.
LEMMA ReserveStep ==
  ASSUME IInv, NEW i \in DOMAIN work, Reserve(i), UNCHANGED <<openMP, transport>>
  PROVE  IInv'
<1> USE DataAssumption
<1> DEFINE need == Bound[Hi(i) - Lo(i)]
           old  == results[i]
           new  == [old EXCEPT !.room = IF need > @ THEN need ELSE @]
<1>1. /\ TypeOK /\ pc = "compress" /\ work[i] = "todo"
      /\ results' = [results EXCEPT ![i] = new]
      /\ work' = [work EXCEPT ![i] = "reserved"]
      /\ UNCHANGED <<openMP, transport, pc, call, size, inputs, restored>>
  BY DEF Reserve, IInv
<1>2. /\ Len(results) = Chunks /\ Len(work) = Chunks
      /\ \A j \in 1 .. Len(work) :
           /\ work[j] = "reserved" => results[j].room >= Bound[Hi(j) - Lo(j)]
           /\ work[j] = "done" => Holds(results[j], j)
  BY <1>1 DEF IInv, Compressing
<1>3. /\ results \in Seq(Chunk) /\ work \in Seq({"todo", "reserved", "done"})
      /\ Chunks \in Nat
  BY <1>1, Ranges DEF TypeOK
<1>4. i \in 1 .. Chunks
  BY <1>2, <1>3, LenProperties
<1>5. need \in Nat
  BY <1>1, <1>4, BoundOfIteration
<1>6. old \in Chunk
  BY <1>2, <1>3, <1>4, ElementOfSeq
<1> HIDE DEF need, old
<1>7. new \in Chunk /\ new.room >= need /\ new.room \in Nat
  BY <1>5, <1>6 DEF Chunk
<1> HIDE DEF new
<1>8. /\ results' \in Seq(Chunk) /\ Len(results') = Len(results)
      /\ \A j \in 1 .. Len(results) : results'[j] = IF j = i THEN new ELSE results[j]
  BY <1>1, <1>2, <1>3, <1>4, <1>7, ExceptSeq
<1>9. /\ work' \in Seq({"todo", "reserved", "done"}) /\ Len(work') = Len(work)
      /\ \A j \in 1 .. Len(work) : work'[j] = IF j = i THEN "reserved" ELSE work[j]
  BY <1>1, <1>2, <1>3, <1>4, ExceptSeq
<1>10. TypeOK'
  BY <1>1, <1>8, <1>9 DEF TypeOK
<1>11. Compressing'
  <2>1. Chunks' = Chunks /\ \A j : Lo(j)' = Lo(j) /\ Hi(j)' = Hi(j)
    BY <1>1, SameRanges
  <2>2. ASSUME NEW j \in 1 .. Len(work')
        PROVE  /\ work'[j] = "reserved" => results'[j].room >= Bound[Hi(j)' - Lo(j)']
               /\ work'[j] = "done" => Holds(results[j], j)'
    <3>1. CASE j = i
      BY <1>2, <1>4, <1>7, <1>8, <1>9, <2>1, <3>1 DEF need
    <3>2. CASE j # i
      BY <1>1, <1>2, <1>8, <1>9, <2>1, <2>2, <3>2 DEF Holds
    <3> QED
      BY <3>1, <3>2
  <2> QED
    BY <1>2, <1>8, <1>9, <2>1, <2>2 DEF Compressing
<1>12. Compressed' /\ Handed' /\ Restoring' /\ RightBytes'
  BY <1>1 DEF Compressed, Handed, Restoring, RightBytes
<1>13. Untouched'
  BY <1>1 DEF IInv, Untouched
<1> QED
  BY <1>10, <1>11, <1>12, <1>13 DEF IInv

\* A finished iteration has stored its bytes of this call.
LEMMA CompressChunkStep ==
  ASSUME IInv, NEW i \in DOMAIN work, CompressChunk(i), UNCHANGED <<openMP, transport>>
  PROVE  IInv'
<1> USE DataAssumption
<1>1. /\ TypeOK /\ pc = "compress" /\ work[i] = "reserved"
      /\ work' = [work EXCEPT ![i] = "done"]
      /\ UNCHANGED <<openMP, transport, pc, call, size, inputs, restored>>
  BY DEF CompressChunk, IInv
<1>2. /\ Len(results) = Chunks /\ Len(work) = Chunks
      /\ \A j \in 1 .. Len(work) :
           /\ work[j] = "reserved" => results[j].room >= Bound[Hi(j) - Lo(j)]
           /\ work[j] = "done" => Holds(results[j], j)
  BY <1>1 DEF IInv, Compressing
<1>3. /\ results \in Seq(Chunk) /\ work \in Seq({"todo", "reserved", "done"})
      /\ Chunks \in Nat /\ call \in Nat
  BY <1>1, Ranges DEF TypeOK
<1>4. i \in 1 .. Chunks
  BY <1>2, <1>3, LenProperties
<1>5. results[i] \in Chunk
  BY <1>2, <1>3, <1>4, ElementOfSeq
<1>6. Lo(i) \in Nat /\ Hi(i) \in Nat
  BY <1>1, <1>4, BoundOfIteration
<1>7. PICK room \in {results[i].room} \cup {r \in {1} : Lo(i) < Hi(i)} :
        results' = [results EXCEPT ![i] =
                      [room |-> room, lo |-> Lo(i), hi |-> Hi(i), of |-> call]]
  BY DEF CompressChunk
<1> DEFINE new == [room |-> room, lo |-> Lo(i), hi |-> Hi(i), of |-> call]
<1>8. new \in Chunk /\ Holds(new, i)
  <2>1. room \in Nat
    BY <1>5 DEF Chunk
  <2>2. \A r, l, h, o \in Nat : [room |-> r, lo |-> l, hi |-> h, of |-> o] \in Chunk
    BY DEF Chunk
  <2>3. new \in Chunk
    BY <1>3, <1>6, <2>1, <2>2
  <2> QED
    BY <2>3 DEF Holds
<1>9. results' = [results EXCEPT ![i] = new]
  BY <1>7
<1> HIDE DEF new
<1>10. /\ results' \in Seq(Chunk) /\ Len(results') = Len(results)
       /\ \A j \in 1 .. Len(results) : results'[j] = IF j = i THEN new ELSE results[j]
  BY <1>2, <1>3, <1>4, <1>8, <1>9, ExceptSeq
<1>11. /\ work' \in Seq({"todo", "reserved", "done"}) /\ Len(work') = Len(work)
       /\ \A j \in 1 .. Len(work) : work'[j] = IF j = i THEN "done" ELSE work[j]
  BY <1>1, <1>2, <1>3, <1>4, ExceptSeq
<1>12. TypeOK'
  BY <1>1, <1>10, <1>11 DEF TypeOK
<1>13. Compressing'
  <2>1. Chunks' = Chunks /\ \A j : Lo(j)' = Lo(j) /\ Hi(j)' = Hi(j)
    BY <1>1, SameRanges
  <2>2. ASSUME NEW j \in 1 .. Len(work')
        PROVE  /\ work'[j] = "reserved" => results'[j].room >= Bound[Hi(j)' - Lo(j)']
               /\ work'[j] = "done" => Holds(results[j], j)'
    <3>1. CASE j = i
      BY <1>1, <1>2, <1>4, <1>8, <1>10, <1>11, <2>1, <3>1 DEF Holds
    <3>2. CASE j # i
      BY <1>1, <1>2, <1>10, <1>11, <2>1, <2>2, <3>2 DEF Holds
    <3> QED
      BY <3>1, <3>2
  <2> QED
    BY <1>2, <1>10, <1>11, <2>1, <2>2 DEF Compressing
<1>14. Compressed' /\ Handed' /\ Restoring' /\ RightBytes'
  BY <1>1 DEF Compressed, Handed, Restoring, RightBytes
<1>15. Untouched'
  BY <1>1 DEF IInv, Untouched
<1> QED
  BY <1>12, <1>13, <1>14, <1>15 DEF IInv

LEMMA CompressReturnStep ==
  ASSUME IInv, CompressReturn, UNCHANGED <<openMP, transport>>
  PROVE  IInv'
<1>1. /\ TypeOK /\ pc = "compress" /\ pc' = "send"
      /\ \A i \in DOMAIN work : work[i] = "done"
      /\ UNCHANGED <<openMP, transport, call, size, results, work, inputs, restored>>
  BY DEF CompressReturn, IInv
<1>2. TypeOK'
  BY <1>1 DEF TypeOK
<1>3. Compressed'
  <2>1. /\ Len(results) = Chunks /\ Len(work) = Chunks
        /\ \A j \in 1 .. Len(work) : work[j] = "done" => Holds(results[j], j)
    BY <1>1 DEF IInv, Compressing
  <2>2. DOMAIN work = 1 .. Len(work)
    BY <1>1, LenProperties DEF TypeOK
  <2>3. \A j \in 1 .. Len(results) : Holds(results[j], j)
    BY <1>1, <2>1, <2>2
  <2>4. Chunks' = Chunks /\ \A j : Lo(j)' = Lo(j) /\ Hi(j)' = Hi(j)
    BY <1>1, SameRanges
  <2> QED
    BY <1>1, <2>1, <2>3, <2>4 DEF Compressed, Holds
<1>4. Compressing' /\ Handed' /\ Restoring' /\ RightBytes'
  BY <1>1 DEF Compressing, Handed, Restoring, RightBytes
<1>5. Untouched'
  BY <1>1 DEF IInv, Untouched
<1> QED
  BY <1>2, <1>3, <1>4, <1>5 DEF IInv

------------------------------------------------------------------------------
(* The transfer and decompress() *)

\* After compress() the returned buffers stay as they are.
LEMMA StillCompressed ==
  ASSUME IInv, pc \notin {"idle", "compress"},
         UNCHANGED <<openMP, call, size, results>>
  PROVE  Compressed'
<1>1. Chunks' = Chunks /\ \A j : Lo(j)' = Lo(j) /\ Hi(j)' = Hi(j)
  BY SameRanges
<1> QED
  BY <1>1 DEF IInv, Compressed, Holds

LEMMA SendStep ==
  ASSUME IInv, Send, UNCHANGED <<openMP, transport>>
  PROVE  IInv'
<1>1. /\ TypeOK /\ pc = "send" /\ pc' = "check" /\ inputs' \in Arrivals
      /\ UNCHANGED <<openMP, transport, call, size, results, work, restored>>
  BY DEF Send, IInv
<1>2. results \in Seq(Chunk) /\ Len(results) \in Nat
  BY <1>1, LenProperties DEF TypeOK
<1>3. /\ inputs' \in Seq(Chunk)
      /\ Len(inputs') <= Len(results) + 1
      /\ \A i \in 1 .. Len(inputs') :
           inputs'[i] = results[IF i <= Len(results) THEN i ELSE Len(results)]
  <2>1. CASE inputs' = results
    BY <1>2, <2>1
  <2>2. ASSUME NEW n \in 0 .. Len(results), inputs' = SubSeq(results, 1, n)
        PROVE  <1>3!1 /\ <1>3!2 /\ <1>3!3
    <3>1. \A i \in 1 .. n : results[i] \in Chunk
      BY <1>2, ElementOfSeq
    <3>2. /\ SubSeq(results, 1, n) \in Seq(Chunk)
          /\ Len(SubSeq(results, 1, n)) = n
          /\ \A i \in 1 .. n : SubSeq(results, 1, n)[i] = results[i]
      BY <1>2, <3>1, SubSeqProperties
    <3> QED
      BY <1>2, <2>2, <3>2
  <2>3. ASSUME NEW i \in {Len(results)} \ {0}, inputs' = Append(results, results[i])
        PROVE  <1>3!1 /\ <1>3!2 /\ <1>3!3
    <3>1. i \in 1 .. Len(results) /\ i = Len(results)
      BY <1>2
    <3>2. results[i] \in Chunk
      BY <1>2, <3>1, ElementOfSeq
    <3>3. /\ Append(results, results[i]) \in Seq(Chunk)
          /\ Len(Append(results, results[i])) = Len(results) + 1
          /\ \A j \in 1 .. Len(results) : Append(results, results[i])[j] = results[j]
          /\ Append(results, results[i])[Len(results) + 1] = results[i]
      BY <1>2, <3>2, AppendProperties
    <3> QED
      BY <1>2, <2>3, <3>1, <3>3
  <2> QED
    BY <1>1, <2>1, <2>2, <2>3 DEF Arrivals
<1>4. TypeOK' /\ Handed'
  BY <1>1, <1>3 DEF TypeOK, Handed
<1>5. Compressed'
  BY <1>1, StillCompressed
<1>6. Compressing' /\ Restoring' /\ RightBytes'
  BY <1>1 DEF Compressing, Restoring, RightBytes
<1>7. Untouched'
  BY <1>1 DEF IInv, Untouched
<1> QED
  BY <1>4, <1>5, <1>6, <1>7 DEF IInv

\* What decompressChunk() writes, and that it leaves all other bytes alone.
LEMMA WrittenBytes ==
  ASSUME TypeOK, NEW i \in 1 .. Len(inputs), NEW from \in Nat, NEW to \in Nat
  PROVE  /\ DOMAIN Written(i, from, to) = DOMAIN restored \cup from .. to - 1
         /\ DOMAIN Written(i, from, to) \subseteq Nat
         /\ \A p \in DOMAIN Written(i, from, to) :
              /\ Written(i, from, to)[p] \in Nat \X Nat
              /\ p \notin from .. to - 1 => Written(i, from, to)[p] = restored[p]
              /\ (p \in from .. to - 1 /\ to - from = inputs[i].hi - inputs[i].lo) =>
                   Written(i, from, to)[p] = <<inputs[i].of, inputs[i].lo + p - from>>
<1>1. inputs[i] \in Chunk
  BY ElementOfSeq DEF TypeOK
<1>2. inputs[i].of \in Nat /\ inputs[i].lo \in Nat
  BY <1>1 DEF Chunk
<1>3. DOMAIN restored \subseteq Nat /\ \A p \in DOMAIN restored : restored[p] \in Nat \X Nat
  BY DEF TypeOK
<1>4. DOMAIN Written(i, from, to) = DOMAIN restored \cup from .. to - 1
  BY DEF Written
<1>5. ASSUME NEW p \in DOMAIN Written(i, from, to)
      PROVE  Written(i, from, to)[p] =
               IF p \notin from .. to - 1 THEN restored[p]
               ELSE IF to - from = inputs[i].hi - inputs[i].lo
               THEN <<inputs[i].of, inputs[i].lo + p - from>>
               ELSE <<0, 0>>
  BY <1>4 DEF Written
<1>6. ASSUME NEW p \in DOMAIN Written(i, from, to)
      PROVE  Written(i, from, to)[p] \in Nat \X Nat
  <2>1. CASE p \notin from .. to - 1
    BY <1>3, <1>4, <1>5, <2>1
  <2>2. CASE p \in from .. to - 1
    <3>1. inputs[i].lo + p - from \in Nat
      BY <1>2, <2>2
    <3>2. /\ <<inputs[i].of, inputs[i].lo + p - from>> \in Nat \X Nat
          /\ <<0, 0>> \in Nat \X Nat
      BY <1>2, <3>1
    <3> QED
      BY <1>5, <2>2, <3>2
  <2> QED
    BY <2>1, <2>2
<1>7. DOMAIN Written(i, from, to) \subseteq Nat
  BY <1>3, <1>4
<1>8. ASSUME NEW p \in DOMAIN Written(i, from, to)
      PROVE  /\ p \notin from .. to - 1 => Written(i, from, to)[p] = restored[p]
             /\ (p \in from .. to - 1 /\ to - from = inputs[i].hi - inputs[i].lo) =>
                  Written(i, from, to)[p] = <<inputs[i].of, inputs[i].lo + p - from>>
  <2>1. Written(i, from, to)[p] =
          IF p \notin from .. to - 1 THEN restored[p]
          ELSE IF to - from = inputs[i].hi - inputs[i].lo
          THEN <<inputs[i].of, inputs[i].lo + p - from>>
          ELSE <<0, 0>>
    BY <1>5
  <2> QED
    BY Zenon, <2>1
<1> QED
  BY <1>4, <1>6, <1>7, <1>8

LEMMA DecompressNothingStep ==
  ASSUME IInv, DecompressNothing, UNCHANGED <<openMP, transport>>
  PROVE  IInv'
<1>1. /\ TypeOK /\ pc = "check" /\ pc' = "returned" /\ Len(inputs) = 0
      /\ UNCHANGED <<openMP, transport, call, size, results, work, inputs, restored>>
  BY DEF DecompressNothing, IInv
<1>2. TypeOK'
  BY <1>1 DEF TypeOK
<1>3. Compressed'
  BY <1>1, StillCompressed
<1>4. Compressing' /\ Restoring' /\ RightBytes' /\ Untouched'
  BY <1>1 DEF Compressing, Restoring, RightBytes, Untouched
<1>5. Handed'
  BY <1>1 DEF IInv, Handed
<1> QED
  BY <1>2, <1>3, <1>4, <1>5 DEF IInv

LEMMA DecompressWholeStep ==
  ASSUME IInv, DecompressWhole, UNCHANGED <<openMP, transport>>
  PROVE  IInv'
<1>1. /\ TypeOK /\ pc = "check" /\ pc' = "decompress" /\ Len(inputs) = 1
      /\ restored' = Written(1, 0, size) /\ work' = <<"done">>
      /\ UNCHANGED <<openMP, transport, call, size, results, inputs>>
  BY DEF DecompressWhole, IInv
<1>2. size \in Nat
  BY <1>1, Ranges
<1>3. /\ DOMAIN restored' \subseteq Nat
      /\ \A p \in DOMAIN restored' : restored'[p] \in Nat \X Nat
  <2> DEFINE w == Written(1, 0, size)
  <2>1. DOMAIN w \subseteq Nat /\ \A p \in DOMAIN w : w[p] \in Nat \X Nat
    <3>1. 1 \in 1 .. Len(inputs) /\ 0 \in Nat
      BY <1>1
    <3> QED
      BY <1>1, <1>2, <3>1, WrittenBytes
  <2> QED
    BY <1>1, <2>1
<1>4. work' \in Seq({"todo", "reserved", "done"}) /\ Len(work') = 1
  BY <1>1
<1>5. TypeOK'
  BY <1>1, <1>3, <1>4 DEF TypeOK
<1>6. Compressed'
  BY <1>1, StillCompressed
<1>7. Compressing' /\ Untouched'
  BY <1>1 DEF Compressing, Untouched
<1>8. pc' # "compress" /\ pc' # "returned" /\ Len(inputs') = 1
  BY <1>1
<1>9. Restoring'
  BY <1>4, <1>8 DEF Restoring
<1>10. RightBytes'
  BY <1>8 DEF RightBytes
<1>11. Handed'
  BY <1>1 DEF IInv, Handed
<1> QED
  BY <1>5, <1>6, <1>7, <1>9, <1>10, <1>11 DEF IInv

LEMMA ThrowStep ==
  ASSUME IInv, Throw, UNCHANGED <<openMP, transport>>
  PROVE  IInv'
<1>1. /\ TypeOK /\ pc = "check" /\ pc' = "thrown"
      /\ UNCHANGED <<openMP, transport, call, size, results, work, inputs, restored>>
  BY DEF Throw, IInv
<1>2. TypeOK'
  BY <1>1 DEF TypeOK
<1>3. Compressed'
  BY <1>1, StillCompressed
<1>4. Compressing' /\ Handed' /\ Restoring' /\ RightBytes' /\ Untouched'
  BY <1>1 DEF Compressing, Handed, Restoring, RightBytes, Untouched
<1> QED
  BY <1>2, <1>3, <1>4 DEF IInv

LEMMA DecompressLoopStep ==
  ASSUME IInv, DecompressLoop, UNCHANGED <<openMP, transport>>
  PROVE  IInv'
<1>1. /\ TypeOK /\ pc = "check" /\ pc' = "decompress" /\ Consistent
      /\ work' = [i \in DOMAIN inputs |-> "todo"]
      /\ UNCHANGED <<openMP, transport, call, size, results, inputs, restored>>
  BY DEF DecompressLoop, IInv
<1>2. Len(inputs) \in Nat /\ DOMAIN inputs = 1 .. Len(inputs)
  BY <1>1, LenProperties DEF TypeOK
<1>3. /\ work' \in Seq({"todo", "reserved", "done"}) /\ Len(work') = Len(inputs)
      /\ \A i \in 1 .. Len(inputs) : work'[i] = "todo"
  <2>1. [i \in 1 .. Len(inputs) |-> "todo"] \in Seq({"todo", "reserved", "done"})
    BY <1>2, IsASeq
  <2> QED
    BY <1>1, <1>2, <2>1
<1>4. TypeOK'
  BY <1>1, <1>3 DEF TypeOK
<1>5. Compressed'
  BY <1>1, StillCompressed
<1>6. Consistent'
  BY <1>1 DEF Consistent
<1>7. Restoring'
  BY <1>1, <1>3, <1>6 DEF Restoring
<1>8. RightBytes'
  <2>1. DOMAIN restored' = {}
    BY <1>1 DEF IInv, Untouched
  <2> QED
    BY <2>1 DEF RightBytes
<1>9. Compressing' /\ Untouched'
  BY <1>1 DEF Compressing, Untouched
<1>10. Handed'
  BY <1>1 DEF IInv, Handed
<1> QED
  BY <1>4, <1>5, <1>7, <1>8, <1>9, <1>10 DEF IInv

\* Iteration i of a parallel build's list holds its own bytes, unless it is
\* the one after the last, which has none.
LEMMA RightChunk ==
  ASSUME IInv, openMP, pc = "decompress", Len(inputs) > 1,
         NEW i \in 1 .. Len(inputs), Start(i) < End(i)
  PROVE  inputs[i].lo = Start(i) /\ inputs[i].hi = End(i) /\ inputs[i].of = call
<1> USE DataAssumption
<1>1. TypeOK /\ Consistent
  BY DEF IInv, Restoring
<1>2. /\ Len(results) = NumChunks
      /\ \A j \in 1 .. Len(results) : Holds(results[j], j)
      /\ Len(inputs) <= Len(results) + 1
      /\ \A j \in 1 .. Len(inputs) :
           inputs[j] = results[IF j <= Len(results) THEN j ELSE Len(results)]
  BY DEF IInv, Compressed, Handed, Chunks
<1>3. NumChunks \in Nat /\ size \in Nat /\ ChunkSize \in Nat \ {0}
  BY <1>1, Ranges
<1>4. i \in Nat \ {0}
  OBVIOUS
<1>5. i <= NumChunks
  <2> SUFFICES ASSUME i = NumChunks + 1
               PROVE  FALSE
    BY <1>2, <1>3, <1>4
  <2> DEFINE q == size \div ChunkSize
  <2>1. /\ q \in Nat /\ NumChunks \in {q, q + 1}
        /\ NumChunks = q <=> q * ChunkSize = size
    BY <1>3, Quotients, RoundedUp DEF NumChunks
  <2>2. Len(inputs) \in {q, q + 1}
    BY <1>1 DEF Consistent
  <2> HIDE DEF q
  <2>3. NumChunks = q
    BY <1>2, <1>3, <2>1, <2>2
  <2>4. i - 1 = q
    BY <2>1, <2>3
  <2>5. Start(i) = size
    BY <2>1, <2>3, <2>4 DEF Start
  <2>6. End(i) <= size /\ End(i) \in Nat
    BY <1>1, <1>4, Ranges
  <2> QED
    BY <1>3, <2>5, <2>6
<1>6. inputs[i] = results[i] /\ Holds(results[i], i)
  BY <1>2, <1>3, <1>4, <1>5
<1> QED
  BY <1>6 DEF Holds, Lo, Hi

\* A finished iteration has written its own bytes, from the right chunk.
LEMMA DecompressChunkStep ==
  ASSUME IInv, NEW i \in DOMAIN work, DecompressChunk(i), UNCHANGED <<openMP, transport>>
  PROVE  IInv'
<1>1. /\ TypeOK /\ pc = "decompress" /\ work[i] = "todo"
      /\ restored' = Written(i, Start(i), End(i))
      /\ work' = [work EXCEPT ![i] = "done"]
      /\ UNCHANGED <<openMP, transport, pc, call, size, results, inputs>>
  BY DEF DecompressChunk, IInv
<1>2. Len(work) = Len(inputs) /\ work \in Seq({"todo", "reserved", "done"})
  BY <1>1 DEF IInv, Restoring, TypeOK
<1>3. i \in 1 .. Len(inputs) /\ i \in Nat \ {0} /\ Len(inputs) \in Nat
  BY <1>2, LenProperties
<1>4. Start(i) \in Nat /\ End(i) \in Nat /\ End(i) <= size /\ size \in Nat
  BY <1>1, <1>3, Ranges
<1>5. /\ DOMAIN restored' = DOMAIN restored \cup Start(i) .. End(i) - 1
      /\ DOMAIN restored' \subseteq Nat
      /\ \A p \in DOMAIN restored' :
           /\ restored'[p] \in Nat \X Nat
           /\ p \notin Start(i) .. End(i) - 1 => restored'[p] = restored[p]
           /\ (p \in Start(i) .. End(i) - 1
               /\ End(i) - Start(i) = inputs[i].hi - inputs[i].lo) =>
                restored'[p] = <<inputs[i].of, inputs[i].lo + p - Start(i)>>
  <2> DEFINE w == Written(i, Start(i), End(i))
  <2>0. PICK from \in Nat, to \in Nat : from = Start(i) /\ to = End(i)
    BY <1>4
  <2>1. /\ DOMAIN w = DOMAIN restored \cup from .. to - 1
        /\ DOMAIN w \subseteq Nat
        /\ \A p \in DOMAIN w :
             /\ w[p] \in Nat \X Nat
             /\ p \notin from .. to - 1 => w[p] = restored[p]
             /\ (p \in from .. to - 1 /\ to - from = inputs[i].hi - inputs[i].lo) =>
                  w[p] = <<inputs[i].of, inputs[i].lo + p - from>>
    <3>1. w = Written(i, from, to)
      BY <2>0
    <3> HIDE DEF w
    <3>2. /\ DOMAIN Written(i, from, to) = DOMAIN restored \cup from .. to - 1
          /\ DOMAIN Written(i, from, to) \subseteq Nat
          /\ \A p \in DOMAIN Written(i, from, to) :
               /\ Written(i, from, to)[p] \in Nat \X Nat
               /\ p \notin from .. to - 1 => Written(i, from, to)[p] = restored[p]
               /\ (p \in from .. to - 1 /\ to - from = inputs[i].hi - inputs[i].lo) =>
                    Written(i, from, to)[p] = <<inputs[i].of, inputs[i].lo + p - from>>
      <4>1. TypeOK /\ i \in 1 .. Len(inputs)
        BY <1>1, <1>3
      <4> QED
        BY ZenonT(60), <4>1, WrittenBytes
    <3> QED
      BY <3>1, <3>2
  <2>2. restored' = w
    BY <1>1
  <2> HIDE DEF w
  <2> QED
    BY <2>0, <2>1, <2>2
<1>6. /\ work' \in Seq({"todo", "reserved", "done"}) /\ Len(work') = Len(work)
      /\ \A j \in 1 .. Len(work) : work'[j] = IF j = i THEN "done" ELSE work[j]
  BY <1>1, <1>2, <1>3, ExceptSeq
<1>7. TypeOK'
  BY <1>1, <1>5, <1>6 DEF TypeOK
<1>8. Compressed'
  BY <1>1, StillCompressed
<1>9. \A j : Start(j)' = Start(j) /\ End(j)' = End(j)
  BY <1>1, SameRanges
<1>10. Restoring'
  <2>1. Len(work') = Len(inputs')
    BY <1>1, <1>2, <1>6
  <2>2. ASSUME Len(inputs) > 1
        PROVE  /\ Consistent
               /\ \A j \in 1 .. Len(inputs) :
                    work[j] = "done" => Start(j) .. End(j) - 1 \subseteq DOMAIN restored
    BY <1>1, <2>2 DEF IInv, Restoring
  <2>3. Consistent' <=> Consistent
    BY <1>1 DEF Consistent
  <2>4. ASSUME Len(inputs) > 1, NEW j \in 1 .. Len(inputs), work'[j] = "done"
        PROVE  Start(j)' .. End(j)' - 1 \subseteq DOMAIN restored'
    <3>1. CASE j = i
      BY <1>5, <1>9, <3>1
    <3>2. CASE j # i
      BY <1>2, <1>5, <1>6, <1>9, <2>2, <2>4, <3>2
    <3> QED
      BY <3>1, <3>2
  <2> QED
    BY <1>1, <2>1, <2>2, <2>3, <2>4 DEF Restoring
<1>11. RightBytes'
  <2> SUFFICES ASSUME openMP, Len(inputs) > 1, NEW p \in DOMAIN restored'
               PROVE  p < size /\ restored'[p] = <<call, p>>
    BY <1>1 DEF RightBytes
  <2>1. CASE p \in Start(i) .. End(i) - 1
    <3>1. Start(i) < End(i) /\ p < size
      BY <1>4, <2>1
    <3>2. inputs[i].lo = Start(i) /\ inputs[i].hi = End(i) /\ inputs[i].of = call
      BY <1>1, <1>3, <3>1, RightChunk
    <3>3. restored'[p] = <<call, Start(i) + p - Start(i)>>
      BY <1>5, <2>1, <3>2
    <3>4. Start(i) + p - Start(i) = p
      BY <1>4, <2>1
    <3> QED
      BY <3>1, <3>3, <3>4
  <2>2. CASE p \notin Start(i) .. End(i) - 1
    <3>1. p \in DOMAIN restored /\ restored'[p] = restored[p]
      BY <1>5, <2>2
    <3>2. \A r \in DOMAIN restored : r < size /\ restored[r] = <<call, r>>
      BY <1>1 DEF IInv, RightBytes
    <3> QED
      BY <3>1, <3>2
  <2> QED
    BY <2>1, <2>2
<1>12. Compressing' /\ Untouched'
  BY <1>1 DEF Compressing, Untouched
<1>13. Handed'
  BY <1>1 DEF IInv, Handed
<1> QED
  BY <1>7, <1>8, <1>10, <1>11, <1>12, <1>13 DEF IInv

LEMMA DecompressReturnStep ==
  ASSUME IInv, DecompressReturn, UNCHANGED <<openMP, transport>>
  PROVE  IInv'
<1>1. /\ TypeOK /\ pc = "decompress" /\ pc' = "returned"
      /\ \A i \in DOMAIN work : work[i] = "done"
      /\ UNCHANGED <<openMP, transport, call, size, results, work, inputs, restored>>
  BY DEF DecompressReturn, IInv
<1>2. TypeOK'
  BY <1>1 DEF TypeOK
<1>3. Compressed'
  BY <1>1, StillCompressed
<1>4. \A i \in 1 .. Len(inputs) : work[i] = "done"
  <2>1. DOMAIN work = 1 .. Len(work) /\ Len(work) = Len(inputs)
    BY <1>1, LenProperties DEF IInv, Restoring, TypeOK
  <2> QED
    BY <1>1, <2>1
<1>5. Restoring'
  <2>1. \A j : Start(j)' = Start(j) /\ End(j)' = End(j)
    BY <1>1, SameRanges
  <2>2. Consistent' <=> Consistent
    BY <1>1 DEF Consistent
  <2> QED
    BY <1>1, <1>4, <2>1, <2>2 DEF IInv, Restoring
<1>6. RightBytes'
  BY <1>1 DEF IInv, RightBytes
<1>7. Compressing' /\ Untouched'
  BY <1>1 DEF Compressing, Untouched
<1>8. Handed'
  BY <1>1 DEF IInv, Handed
<1> QED
  BY <1>2, <1>3, <1>5, <1>6, <1>7, <1>8 DEF IInv

------------------------------------------------------------------------------
(* The theorems *)

LEMMA InitIInv == Init => IInv
<1> SUFFICES ASSUME Init
             PROVE  IInv
  OBVIOUS
<1>1. /\ openMP \in Builds /\ transport \in Transports
      /\ pc = "idle" /\ call = 0 /\ size = 0
      /\ results = <<>> /\ work = <<>> /\ inputs = <<>> /\ restored = <<>>
  BY DEF Init
<1>2. /\ results \in Seq(Chunk) /\ inputs \in Seq(Chunk)
      /\ work \in Seq({"todo", "reserved", "done"})
  BY <1>1, EmptySeq
<1>3. DOMAIN restored = {}
  BY <1>1
<1>4. TypeOK
  BY DataAssumption, <1>1, <1>2, <1>3 DEF TypeOK
<1> QED
  BY <1>1, <1>4 DEF IInv, Compressing, Compressed, Handed, Restoring, RightBytes,
                    Untouched

LEMMA UnchangedIInv == IInv /\ UNCHANGED vars => IInv'
<1> SUFFICES ASSUME IInv, UNCHANGED vars
             PROVE  IInv'
  OBVIOUS
<1>1. /\ TypeOK
      /\ UNCHANGED <<openMP, transport, pc, call, size, results, work, inputs, restored>>
  BY DEF IInv, vars
<1>2. TypeOK'
  BY <1>1 DEF TypeOK
<1>3. /\ Chunks' = Chunks
      /\ \A j : /\ Lo(j)' = Lo(j) /\ Hi(j)' = Hi(j)
                /\ Start(j)' = Start(j) /\ End(j)' = End(j)
  BY <1>1, SameRanges
<1>4. Compressing'
  BY <1>1, <1>3 DEF IInv, Compressing, Holds
<1>5. Compressed'
  BY <1>1, <1>3 DEF IInv, Compressed, Holds
<1>6. Restoring'
  <2>1. Consistent' <=> Consistent
    BY <1>1 DEF Consistent
  <2> QED
    BY <1>1, <1>3, <2>1 DEF IInv, Restoring
<1>7. Handed' /\ RightBytes' /\ Untouched'
  BY <1>1 DEF IInv, Handed, RightBytes, Untouched
<1> QED
  BY <1>2, <1>4, <1>5, <1>6, <1>7 DEF IInv

LEMMA NextIInv == IInv /\ [Next]_vars => IInv'
<1> SUFFICES ASSUME IInv, [Next]_vars
             PROVE  IInv'
  OBVIOUS
<1>1. ASSUME NEW n \in 0 .. MaxSize, Compress(n)
      PROVE  IInv'
  BY <1>1, CompressStep
<1>2. ASSUME Transfer
      PROVE  IInv'
  <2>0. UNCHANGED <<openMP, transport>>
    BY <1>2 DEF Transfer
  <2>1. ASSUME NEW i \in DOMAIN work, Reserve(i)
        PROVE  IInv'
    BY <2>0, <2>1, ReserveStep
  <2>2. ASSUME NEW i \in DOMAIN work, CompressChunk(i)
        PROVE  IInv'
    BY <2>0, <2>2, CompressChunkStep
  <2>3. ASSUME NEW i \in DOMAIN work, DecompressChunk(i)
        PROVE  IInv'
    BY <2>0, <2>3, DecompressChunkStep
  <2>4. CASE CompressReturn
    BY <2>0, <2>4, CompressReturnStep
  <2>5. CASE Send
    BY <2>0, <2>5, SendStep
  <2>6. CASE DecompressNothing
    BY <2>0, <2>6, DecompressNothingStep
  <2>7. CASE DecompressWhole
    BY <2>0, <2>7, DecompressWholeStep
  <2>8. CASE Throw
    BY <2>0, <2>8, ThrowStep
  <2>9. CASE DecompressLoop
    BY <2>0, <2>9, DecompressLoopStep
  <2>10. CASE DecompressReturn
    BY <2>0, <2>10, DecompressReturnStep
  <2> QED
    BY <1>2, <2>1, <2>2, <2>3, <2>4, <2>5, <2>6, <2>7, <2>8, <2>9, <2>10
       DEF Transfer, Iteration
<1>3. CASE Stopped \/ UNCHANGED vars
  BY <1>3, UnchangedIInv DEF Stopped
<1> QED
  BY <1>1, <1>2, <1>3 DEF Next

\* The invariant holds in every reachable state.
THEOREM Inductive == Spec => []IInv
<1>1. Init => IInv
  BY InitIInv
<1>2. IInv /\ [Next]_vars => IInv'
  BY NextIInv
<1> QED
  BY <1>1, <1>2, PTL DEF Spec

\* Every variable keeps its type, whatever the chunk size and the bound.
THEOREM Types == Spec => []TypeOK
<1>1. IInv => TypeOK
  BY DEF IInv
<1> QED
  BY <1>1, Inductive, PTL

\* What compress() returns tiles the data of this call, for any chunk size and
\* any order of the iterations: Data::compress() leaves no buffer of an
\* earlier call behind.
THEOREM FreshResults == Spec => []ResultsFresh
<1>1. IInv => ResultsFresh
  <2> SUFFICES ASSUME IInv, pc = "send"
               PROVE  /\ \A i \in DOMAIN results : results[i].of = call
                      /\ \A i \in DOMAIN results :
                           results[i].lo = IF i = 1 THEN 0 ELSE results[i - 1].hi
                      /\ results # <<>> => results[Len(results)].hi = size
                      /\ results = <<>> => size = 0
    BY DEF ResultsFresh
  <2>1. /\ TypeOK /\ Len(results) = Chunks
        /\ \A i \in 1 .. Len(results) : Holds(results[i], i)
    BY DEF IInv, Compressed
  <2>2. /\ DOMAIN results = 1 .. Chunks /\ Chunks \in Nat
        /\ results # <<>> => Chunks > 0
        /\ results = <<>> => Chunks = 0
    BY <2>1, LenProperties, EmptySeq DEF TypeOK
  <2>3. CASE ~openMP
    BY <2>1, <2>2, <2>3 DEF Chunks, Holds, Lo, Hi
  <2>4. CASE openMP
    <3>1. /\ Chunks = NumChunks
          /\ \A i \in 1 .. Chunks : /\ results[i].lo = Start(i) /\ results[i].hi = End(i)
                                    /\ results[i].of = call
      BY <2>1, <2>4 DEF Chunks, Holds, Lo, Hi
    <3>2. /\ \A i \in 1 .. NumChunks : i < NumChunks => End(i) = Start(i + 1)
          /\ NumChunks > 0 => End(NumChunks) = size
          /\ NumChunks = 0 <=> size = 0
      BY <2>1, Ranges
    <3>3. ASSUME NEW i \in 1 .. Chunks
          PROVE  results[i].lo = IF i = 1 THEN 0 ELSE results[i - 1].hi
      <4>1. CASE i = 1
        <5>1. Start(1) = 0
          BY DataAssumption DEF Start
        <5> QED
          BY <3>1, <4>1, <5>1
      <4>2. CASE i # 1
        <5>1. i - 1 \in 1 .. Chunks /\ i - 1 < NumChunks /\ (i - 1) + 1 = i
          BY <2>2, <3>1, <4>2
        <5>2. End(i - 1) = Start((i - 1) + 1)
          BY <3>1, <3>2, <5>1
        <5> QED
          BY <3>1, <4>2, <5>1, <5>2
      <4> QED
        BY <4>1, <4>2
    <3> QED
      BY <2>1, <2>2, <3>1, <3>2, <3>3
  <2> QED
    BY <2>3, <2>4
<1> QED
  BY <1>1, Inductive, PTL

\* compressChunk() always finds the room getCompressBound() asked for, in
\* buffers of earlier calls as well.
THEOREM EnoughRoom == Spec => []RoomForChunk
<1>1. IInv => RoomForChunk
  <2>1. TypeOK => DOMAIN work = 1 .. Len(work)
    BY LenProperties DEF TypeOK
  <2> QED
    BY <2>1 DEF IInv, Compressing, RoomForChunk
<1> QED
  BY <1>1, Inductive, PTL

\* No two iterations of the decompression loop write the same byte, and none
\* writes outside the output, for lists of any length.
THEOREM RaceFree == Spec => []NoDataRaces
<1>1. IInv => NoDataRaces
  <2> SUFFICES ASSUME IInv, NEW i \in DOMAIN inputs, NEW j \in DOMAIN inputs
               PROVE  /\ Start(i) .. End(i) - 1 \subseteq 0 .. size - 1
                      /\ i # j => (Start(i) .. End(i) - 1)
                                    \cap (Start(j) .. End(j) - 1) = {}
    BY DEF NoDataRaces
  <2>1. TypeOK
    BY DEF IInv
  <2>2. i \in Nat \ {0} /\ j \in Nat \ {0}
    BY <2>1, LenProperties DEF TypeOK
  <2>3. Start(i) \in Nat /\ End(i) \in Nat /\ End(i) <= size /\ size \in Nat
    BY <2>1, <2>2, Ranges
  <2> QED
    BY <2>1, <2>2, <2>3, RangesApart
<1> QED
  BY <1>1, Inductive, PTL

\* A list of several chunks of a parallel build that decompress() accepts
\* restores every whole chunk and no wrong byte, whatever was lost of its end.
THEOREM TailAccepted == Spec => []AcceptedTail
<1>1. IInv => AcceptedTail
  <2> SUFFICES ASSUME IInv, openMP, pc = "returned", Len(inputs) > 1
               PROVE  /\ 0 .. (size \div ChunkSize) * ChunkSize - 1 \subseteq DOMAIN restored
                      /\ \A p \in DOMAIN restored : p < size /\ restored[p] = <<call, p>>
    BY DEF AcceptedTail
  <2>1. /\ TypeOK /\ Len(inputs) \in {size \div ChunkSize, size \div ChunkSize + 1}
        /\ \A i \in 1 .. Len(inputs) : Start(i) .. End(i) - 1 \subseteq DOMAIN restored
    BY DEF IInv, Restoring, Consistent
  <2>2. \A p \in 0 .. (size \div ChunkSize) * ChunkSize - 1 :
          \E i \in 1 .. Len(inputs) : p \in Start(i) .. End(i) - 1
    BY <2>1, ConsistentCovers
  <2>3. \A p \in DOMAIN restored : p < size /\ restored[p] = <<call, p>>
    BY DEF IInv, RightBytes
  <2> QED
    BY <2>1, <2>2, <2>3
<1> QED
  BY <1>1, Inductive, PTL

------------------------------------------------------------------------------
(* The refinement *)

\* With a reliable transport decompress() is handed what compress() returned,
\* never throws, and writes right bytes only; when it returns it has written
\* all of them.
RInv ==
  Reliable =>
    /\ pc # "thrown"
    /\ pc \in {"check", "decompress", "returned"} => inputs = results
    /\ DOMAIN restored \subseteq 0 .. size - 1
    /\ restored = [p \in DOMAIN restored |-> <<call, p>>]
    /\ pc = "decompress" =>
         \A i \in 1 .. Len(inputs) :
           /\ Len(inputs) = 1 => work[i] = "done"
           /\ work[i] = "done" => Lo(i) .. Hi(i) - 1 \subseteq DOMAIN restored
    /\ pc \in {"idle", "returned"} => 0 .. size - 1 \subseteq DOMAIN restored

\* The results of one call cover its data.
LEMMA ChunksCover ==
  ASSUME TypeOK, NEW p \in 0 .. size - 1
  PROVE  \E i \in 1 .. Chunks : p \in Lo(i) .. Hi(i) - 1
<1> USE DataAssumption
<1>1. size \in Nat /\ ChunkSize \in Nat \ {0} /\ p \in Nat /\ p < size
  BY DEF TypeOK
<1>2. CASE ~openMP
  BY <1>1, <1>2 DEF Chunks, Lo, Hi
<1>3. CASE openMP
  <2> DEFINE i == p \div ChunkSize
  <2>1. i \in Nat /\ i * ChunkSize <= p /\ p < i * ChunkSize + ChunkSize
    BY <1>1, Quotients
  <2>2. NumChunks \in Nat /\ size <= NumChunks * ChunkSize
    BY <1>1, Quotients DEF NumChunks
  <2> HIDE DEF i
  <2>3. i < NumChunks
    <3>1. NumChunks <= i => NumChunks * ChunkSize <= i * ChunkSize
      BY <1>1, <2>1, <2>2, TimesMonotonic
    <3>2. i * ChunkSize \in Nat /\ NumChunks * ChunkSize \in Nat
      BY <1>1, <2>1, <2>2
    <3> QED
      BY <1>1, <2>1, <2>2, <3>1, <3>2
  <2>4. (i + 1) * ChunkSize = i * ChunkSize + ChunkSize /\ i * ChunkSize \in Nat
    BY <1>1, <2>1
  <2>5. Lo(i + 1) = i * ChunkSize
    BY <1>3, <2>1 DEF Lo, Start
  <2>6. Hi(i + 1) \in Nat /\ p < Hi(i + 1)
    BY <1>1, <1>3, <2>1, <2>4 DEF Hi, End, Smaller
  <2>7. i + 1 \in 1 .. Chunks
    BY <1>3, <2>1, <2>2, <2>3 DEF Chunks
  <2>8. p \in Lo(i + 1) .. Hi(i + 1) - 1
    BY <1>1, <2>1, <2>4, <2>5, <2>6
  <2> QED
    BY <2>7, <2>8
<1> QED
  BY <1>2, <1>3

\* A function without arguments is the empty sequence.
LEMMA NoArguments == ASSUME NEW e PROVE \A D : D = {} => [p \in D |-> <<e, p>>] = <<>>
  OBVIOUS

\* The chunk lists of a reliable transport are decompressed.
LEMMA ReliableLists ==
  ASSUME IInv, RInv, Reliable, pc \in {"check", "decompress"}
  PROVE  /\ Len(inputs) = Chunks
         /\ \A i \in 1 .. Len(inputs) : Holds(inputs[i], i)
         /\ Len(inputs) = 0 => size = 0
         /\ Len(inputs) = 1 => Lo(1) = 0 /\ Hi(1) = size
         /\ Len(inputs) > 1 => openMP /\ Consistent
<1> USE DataAssumption
<1>1. TypeOK /\ inputs = results
  BY DEF IInv, RInv
<1>2. Len(inputs) = Chunks /\ \A i \in 1 .. Len(inputs) : Holds(inputs[i], i)
  BY <1>1 DEF IInv, Compressed
<1>3. size \in Nat /\ ChunkSize \in Nat \ {0} /\ NumChunks \in Nat
  BY <1>1, Ranges
<1>4. CASE ~openMP
  BY <1>2, <1>3, <1>4 DEF Chunks, Lo, Hi
<1>5. CASE openMP
  <2>1. Chunks = NumChunks /\ Lo(1) = Start(1) /\ Hi(1) = End(1)
    BY <1>5 DEF Chunks, Lo, Hi
  <2>2. Start(1) = 0
    BY <1>3 DEF Start
  <2>3. /\ NumChunks = 1 => End(1) = size
        /\ NumChunks = 0 => size = 0
    BY <1>1, <1>3, Ranges
  <2>4. NumChunks \in {size \div ChunkSize, size \div ChunkSize + 1}
    BY <1>3, RoundedUp DEF NumChunks
  <2> QED
    BY <1>2, <1>5, <2>1, <2>2, <2>3, <2>4 DEF Consistent
<1> QED
  BY <1>2, <1>4, <1>5

\* What decompressChunk() adds to right bytes is right, from the right chunk.
LEMMA RightWritten ==
  ASSUME TypeOK, NEW i \in 1 .. Len(inputs), inputs[i].of = call,
         restored = [p \in DOMAIN restored |-> <<call, p>>]
  PROVE  Written(i, inputs[i].lo, inputs[i].hi) =
           [p \in DOMAIN restored \cup inputs[i].lo .. inputs[i].hi - 1 |-> <<call, p>>]
<1> DEFINE from == inputs[i].lo
           to   == inputs[i].hi
<1>1. from \in Nat /\ to \in Nat
  <2>1. inputs[i] \in Chunk
    BY ElementOfSeq DEF TypeOK
  <2> QED
    BY <2>1 DEF Chunk
<1>2. ASSUME NEW p \in DOMAIN restored \cup from .. to - 1
      PROVE  (IF p \notin from .. to - 1 THEN restored[p]
              ELSE IF to - from = inputs[i].hi - inputs[i].lo
              THEN <<inputs[i].of, inputs[i].lo + p - from>>
              ELSE <<0, 0>>) = <<call, p>>
  <2>1. CASE p \notin from .. to - 1
    BY <2>1
  <2>2. CASE p \in from .. to - 1
    <3>1. inputs[i].lo + p - from = p
      BY <1>1, <2>2
    <3> QED
      BY <2>2, <3>1
  <2> QED
    BY <2>1, <2>2
<1> QED
  BY Zenon, <1>2 DEF Written

\* The two steps that write: a list of one chunk as a whole, and iteration i.
LEMMA WholeRestored ==
  ASSUME IInv, RInv, Reliable, DecompressWhole, UNCHANGED <<openMP, transport>>
  PROVE  restored' = [p \in 0 .. size - 1 |-> <<call, p>>] /\ restored = <<>>
<1>1. /\ TypeOK /\ pc = "check" /\ Len(inputs) = 1 /\ restored = <<>>
      /\ restored' = Written(1, 0, size) /\ size \in Nat
  BY Ranges DEF DecompressWhole, IInv, Untouched
<1>2. inputs[1].lo = 0 /\ inputs[1].hi = size /\ inputs[1].of = call
  BY <1>1, ReliableLists DEF Holds
<1>3. restored = [p \in DOMAIN restored |-> <<call, p>>]
  BY DEF RInv
<1>4. 1 \in 1 .. Len(inputs)
  BY <1>1
<1>5. Written(1, inputs[1].lo, inputs[1].hi) =
        [p \in DOMAIN restored \cup inputs[1].lo .. inputs[1].hi - 1 |-> <<call, p>>]
  BY <1>1, <1>2, <1>3, <1>4, RightWritten
<1>6. DOMAIN restored \cup 0 .. size - 1 = 0 .. size - 1
  BY <1>1
<1> QED
  BY <1>1, <1>2, <1>5, <1>6

LEMMA IterationRestored ==
  ASSUME IInv, RInv, Reliable, NEW i \in DOMAIN work, DecompressChunk(i),
         UNCHANGED <<openMP, transport>>
  PROVE  /\ i \in 1 .. Len(inputs)
         /\ Lo(i) .. Hi(i) - 1 \subseteq 0 .. size - 1
         /\ restored' = [p \in DOMAIN restored \cup Lo(i) .. Hi(i) - 1 |-> <<call, p>>]
<1>1. /\ TypeOK /\ pc = "decompress" /\ work[i] = "todo"
      /\ restored' = Written(i, Start(i), End(i))
  BY DEF DecompressChunk, IInv
<1>2. Len(work) = Len(inputs) /\ work \in Seq({"todo", "reserved", "done"})
  BY <1>1 DEF IInv, Restoring, TypeOK
<1>3. i \in 1 .. Len(inputs) /\ i \in Nat \ {0} /\ Len(inputs) \in Nat
  BY <1>2, LenProperties
<1>4. Len(inputs) # 1
  BY <1>1, <1>3 DEF RInv
<1>5. openMP
  BY <1>1, <1>3, <1>4, ReliableLists
<1>6. Lo(i) = Start(i) /\ Hi(i) = End(i)
  BY <1>5 DEF Lo, Hi
<1>7. inputs[i].lo = Start(i) /\ inputs[i].hi = End(i) /\ inputs[i].of = call
  BY <1>1, <1>3, <1>6, ReliableLists DEF Holds
<1>8. Start(i) \in Nat /\ End(i) \in Nat /\ End(i) <= size /\ size \in Nat
  BY <1>1, <1>3, Ranges
<1>9. restored = [p \in DOMAIN restored |-> <<call, p>>]
  BY DEF RInv
<1>10. Written(i, inputs[i].lo, inputs[i].hi) =
         [p \in DOMAIN restored \cup inputs[i].lo .. inputs[i].hi - 1 |-> <<call, p>>]
  BY <1>1, <1>3, <1>7, <1>9, RightWritten
<1> QED
  BY <1>1, <1>3, <1>6, <1>7, <1>8, <1>10

\* The refinement's invariant is inductive on top of IInv.
LEMMA InitRInv == Init => RInv
<1> SUFFICES ASSUME Init
             PROVE  RInv
  OBVIOUS
<1>1. pc = "idle" /\ restored = <<>> /\ size = 0
  BY DEF Init
<1>2. DOMAIN restored = {} /\ 0 .. size - 1 = {}
  BY <1>1
<1>3. restored = [p \in DOMAIN restored |-> <<call, p>>]
  BY <1>1, <1>2, NoArguments
<1> QED
  BY <1>1, <1>2, <1>3 DEF RInv

LEMMA NextRInv == IInv /\ RInv /\ [Next]_vars => RInv'
<1> SUFFICES ASSUME IInv, RInv, [Next]_vars, Reliable'
             PROVE  RInv'
  BY DEF RInv
<1> USE DataAssumption
<1>0. TypeOK
  BY DEF IInv
<1>1. ASSUME NEW n \in 0 .. MaxSize, Compress(n)
      PROVE  RInv'
  <2>1. pc' = "compress" /\ restored' = <<>>
    BY <1>1 DEF Compress
  <2>2. DOMAIN restored' = {}
    BY <2>1
  <2>3. restored' = [p \in DOMAIN restored' |-> <<call', p>>]
    BY <2>1, <2>2, NoArguments
  <2> QED
    BY <2>1, <2>2, <2>3 DEF RInv
<1>2. ASSUME Transfer
      PROVE  RInv'
  <2>0. Reliable /\ UNCHANGED <<openMP, transport>>
    BY <1>2 DEF Transfer, Reliable
  <2>1. ASSUME NEW i \in DOMAIN work, Reserve(i) \/ CompressChunk(i)
        PROVE  RInv'
    BY <2>0, <2>1 DEF Reserve, CompressChunk, RInv
  <2>2. ASSUME NEW i \in DOMAIN work, DecompressChunk(i)
        PROVE  RInv'
    <3>1. /\ pc = "decompress" /\ work' = [work EXCEPT ![i] = "done"]
          /\ UNCHANGED <<openMP, transport, pc, call, size, results, inputs>>
      BY <2>0, <2>2 DEF DecompressChunk
    <3>2. /\ i \in 1 .. Len(inputs)
          /\ Lo(i) .. Hi(i) - 1 \subseteq 0 .. size - 1
          /\ restored' = [p \in DOMAIN restored \cup Lo(i) .. Hi(i) - 1 |-> <<call, p>>]
      BY <2>0, <2>2, IterationRestored
    <3>3. DOMAIN restored' = DOMAIN restored \cup Lo(i) .. Hi(i) - 1
      BY <3>2
    <3>4. restored' = [p \in DOMAIN restored' |-> <<call', p>>]
      BY <3>1, <3>2, <3>3
    <3>5. DOMAIN restored' \subseteq 0 .. size' - 1
      BY <2>0, <3>1, <3>2, <3>3 DEF RInv
    <3>6. \A j : Lo(j)' = Lo(j) /\ Hi(j)' = Hi(j)
      BY <3>1, SameRanges
    <3>7. ASSUME NEW j \in 1 .. Len(inputs)
          PROVE  /\ Len(inputs) = 1 => work'[j] = "done"
                 /\ work'[j] = "done" => Lo(j) .. Hi(j) - 1 \subseteq DOMAIN restored'
      <4>1. /\ Len(inputs) = 1 => work[j] = "done"
            /\ work[j] = "done" => Lo(j) .. Hi(j) - 1 \subseteq DOMAIN restored
        BY <2>0, <3>1 DEF RInv
      <4>2. DOMAIN work = 1 .. Len(work) /\ Len(work) = Len(inputs)
        BY <1>0, <3>1, LenProperties DEF IInv, Restoring, TypeOK
      <4>3. work'[j] = IF j = i THEN "done" ELSE work[j]
        BY <3>1, <4>2
      <4> QED
        BY <3>3, <4>1, <4>3
    <3>8. inputs' = results'
      BY <2>0, <3>1 DEF RInv
    <3> QED
      BY <3>1, <3>4, <3>5, <3>6, <3>7, <3>8 DEF RInv
  <2>3. CASE CompressReturn
    BY <2>0, <2>3 DEF CompressReturn, RInv
  <2>4. CASE Send
    BY <2>0, <2>4 DEF Send, Arrivals, Reliable, RInv
  <2>5. CASE DecompressNothing
    <3>1. Len(inputs) = 0 /\ pc = "check" /\ pc' = "returned"
          /\ UNCHANGED <<transport, call, size, results, work, inputs, restored>>
      BY <2>0, <2>5 DEF DecompressNothing
    <3>2. size = 0
      BY <2>0, <3>1, ReliableLists
    <3> QED
      BY <2>0, <3>1, <3>2 DEF RInv
  <2>6. CASE DecompressWhole
    <3>1. /\ pc = "check" /\ pc' = "decompress" /\ Len(inputs) = 1 /\ work' = <<"done">>
          /\ UNCHANGED <<openMP, transport, call, size, results, inputs>>
      BY <2>0, <2>6 DEF DecompressWhole
    <3>2. restored' = [p \in 0 .. size - 1 |-> <<call, p>>]
      BY <2>0, <2>6, WholeRestored
    <3>3. DOMAIN restored' = 0 .. size' - 1
      BY <3>1, <3>2
    <3>4. restored' = [p \in DOMAIN restored' |-> <<call', p>>]
      BY <3>1, <3>2, <3>3
    <3>5. Lo(1)' = 0 /\ Hi(1)' = size'
      BY <2>0, <3>1, ReliableLists, SameRanges
    <3>6. inputs' = results' /\ Len(inputs') = 1
      BY <2>0, <3>1 DEF RInv
    <3> QED
      BY <3>1, <3>3, <3>4, <3>5, <3>6 DEF RInv
  <2>7. CASE Throw
    BY <2>0, <2>7, ReliableLists DEF Throw
  <2>8. CASE DecompressLoop
    <3>1. /\ pc = "check" /\ pc' = "decompress" /\ Len(inputs) > 1
          /\ work' = [i \in DOMAIN inputs |-> "todo"]
          /\ UNCHANGED <<openMP, transport, call, size, results, inputs, restored>>
      BY <2>0, <2>8 DEF DecompressLoop
    <3>2. \A i \in 1 .. Len(inputs) : work'[i] = "todo"
      <4>1. DOMAIN inputs = 1 .. Len(inputs)
        BY <1>0, LenProperties DEF TypeOK
      <4> QED
        BY <3>1, <4>1
    <3>3. Len(inputs) # 1
      BY <3>1
    <3> QED
      BY <2>0, <3>1, <3>2, <3>3 DEF RInv
  <2>9. CASE DecompressReturn
    <3>1. /\ pc = "decompress" /\ pc' = "returned"
          /\ \A i \in DOMAIN work : work[i] = "done"
          /\ UNCHANGED <<openMP, transport, call, size, results, work, inputs, restored>>
      BY <2>0, <2>9 DEF DecompressReturn
    <3>2. \A i \in 1 .. Len(inputs) : Lo(i) .. Hi(i) - 1 \subseteq DOMAIN restored
      <4>1. DOMAIN work = 1 .. Len(work) /\ Len(work) = Len(inputs)
        BY <1>0, <3>1, LenProperties DEF IInv, Restoring, TypeOK
      <4> QED
        BY <2>0, <3>1, <4>1 DEF RInv
    <3>3. Len(inputs) = Chunks
      BY <2>0, <3>1, ReliableLists
    <3>4. 0 .. size - 1 \subseteq DOMAIN restored
      BY <1>0, <3>2, <3>3, ChunksCover
    <3> QED
      BY <2>0, <3>1, <3>4 DEF RInv
  <2> QED
    BY <1>2, <2>1, <2>2, <2>3, <2>4, <2>5, <2>6, <2>7, <2>8, <2>9 DEF Transfer, Iteration
<1>3. CASE Stopped \/ UNCHANGED vars
  <2>1. UNCHANGED <<openMP, transport, pc, call, size, results, work, inputs, restored>>
    BY <1>3 DEF Stopped, vars
  <2>2. \A j : Lo(j)' = Lo(j) /\ Hi(j)' = Hi(j)
    BY <2>1, SameRanges
  <2> QED
    BY <2>1, <2>2 DEF RInv, Reliable
<1> QED
  BY <1>1, <1>2, <1>3 DEF Next

\* The pair of instances implements the promise of a compressor: over a
\* reliable transport no step of theirs, in whatever order the iterations run,
\* restores anything but missing bytes, unchanged and at their places, and
\* decompress() returns when none is missing.
THEOREM ImplementsCodec == Spec => Promise!Init /\ [][Promise!Next]_(Promise!vars)
<1> USE DataAssumption
<1> DEFINE src == IF Reliable THEN Data(size, call) ELSE <<>>
           res == IF Reliable THEN restored ELSE <<>>
           ret == ~Reliable \/ pc \in {"idle", "returned"}
<1>1. ASSUME Init
      PROVE  Promise!Init
  <2>1. pc = "idle" /\ call = 0 /\ size = 0 /\ restored = <<>>
    BY <1>1 DEF Init
  <2>2. 0 .. size - 1 = {} /\ 0 \in 0 .. MaxSize /\ 0 \in 0 .. MaxCalls
    BY <2>1
  <2>3. src = <<>>
    BY <2>1, <2>2, NoArguments DEF Data
  <2>4. src = Data(0, 0)
    BY <2>1, <2>2, NoArguments DEF Data
  <2>5. DOMAIN src \ DOMAIN res = {}
    BY <2>3
  <2> HIDE DEF src
  <2>6. src \in {Data(n, c) : n \in 0 .. MaxSize, c \in 0 .. MaxCalls}
    BY <2>2, <2>4
  <2> QED
    BY <2>1, <2>5, <2>6 DEF src, Promise!Init, Promise!Missing
<1>2. ASSUME IInv, RInv, [Next]_vars
      PROVE  [Promise!Next]_(Promise!vars)
  <2>0. TypeOK
    BY <1>2 DEF IInv
  <2>1. UNCHANGED transport
    BY <1>2 DEF Next, Compress, Transfer, Stopped, vars
  <2>2. CASE ~Reliable
    BY <2>1, <2>2 DEF Reliable, Promise!vars
  <2>3. ASSUME Reliable, Reliable', NEW n \in 0 .. MaxSize, Compress(n)
        PROVE  Promise!Next
    <3>1. /\ pc \in {"idle", "returned", "thrown"} /\ pc' = "compress" /\ call < MaxCalls
          /\ call' = call + 1 /\ size' = n /\ restored' = <<>>
      BY <2>3 DEF Compress
    <3>2. pc # "thrown"
      BY <1>2, <2>3 DEF RInv
    <3>3. call' \in 0 .. MaxCalls
      BY <2>0, <3>1 DEF TypeOK
    <3>4. src' \in {Data(m, c) : m \in 0 .. MaxSize, c \in 0 .. MaxCalls}
      <4>1. src' = Data(n, call')
        BY <2>3, <3>1 DEF Data
      <4> HIDE DEF src
      <4> QED
        BY <3>3, <4>1
    <3>5. ret /\ ret' = FALSE /\ res' = <<>>
      BY <2>3, <3>1, <3>2
    <3> QED
      BY <3>4, <3>5 DEF Promise!Next, Promise!Call
  <2>4. ASSUME Reliable, Reliable', Transfer
        PROVE  [Promise!Next]_(Promise!vars)
    <3>0. UNCHANGED <<openMP, transport>>
      BY <2>4 DEF Transfer
    <3>1. CASE \/ \E i \in DOMAIN work : Reserve(i) \/ CompressChunk(i)
               \/ CompressReturn \/ Send \/ DecompressLoop
      BY <3>0, <3>1 DEF Reserve, CompressChunk, CompressReturn, Send, DecompressLoop,
                        Reliable, Promise!vars
    <3>2. CASE DecompressNothing
      <4>1. Len(inputs) = 0 /\ pc = "check" /\ pc' = "returned"
            /\ UNCHANGED <<transport, call, size, restored>>
        BY <3>0, <3>2 DEF DecompressNothing
      <4>2. size = 0
        BY <1>2, <2>4, <4>1, ReliableLists
      <4>3. DOMAIN src \ DOMAIN res = {}
        BY <2>4, <4>2 DEF Data
      <4>4. ~ret /\ ret' /\ UNCHANGED <<src, res>>
        BY <2>4, <4>1
      <4> QED
        BY <4>3, <4>4 DEF Promise!Next, Promise!Return, Promise!Missing
    <3>3. CASE DecompressWhole
      <4>1. /\ pc = "check" /\ pc' = "decompress" /\ UNCHANGED <<transport, call, size>>
        BY <3>0, <3>3 DEF DecompressWhole
      <4>2. restored' = [p \in 0 .. size - 1 |-> <<call, p>>] /\ restored = <<>>
        BY <1>2, <2>4, <3>0, <3>3, WholeRestored
      <4>3. src' = src /\ res = <<>> /\ res' = src /\ ~ret /\ ~ret'
        BY <2>4, <4>1, <4>2 DEF Data
      <4>4. CASE 0 .. size - 1 = {}
        <5>1. src = <<>>
          BY <2>4, <4>4, NoArguments DEF Data
        <5> QED
          BY <4>3, <5>1 DEF Promise!vars
      <4>5. CASE 0 .. size - 1 # {}
        <5>1. DOMAIN src = 0 .. size - 1 /\ src = [k \in 0 .. size - 1 |-> src[k]]
          BY <2>4 DEF Data
        <5>2. DOMAIN res = {}
          BY <4>3
        <5> HIDE DEF src, res, ret
        <5>3. res' = [k \in DOMAIN res \cup (0 .. size - 1) |-> src[k]]
          BY <4>3, <5>1, <5>2
        <5>4. 0 .. size - 1 \in SUBSET (DOMAIN src \ DOMAIN res)
          BY <5>1, <5>2
        <5> QED
          BY <4>3, <4>5, <5>3, <5>4
             DEF src, res, ret, Promise!Next, Promise!Restore, Promise!Missing
      <4> QED
        BY <4>4, <4>5
    <3>4. CASE Throw
      BY <1>2, <2>4, <3>4, ReliableLists DEF Throw
    <3>5. ASSUME NEW i \in DOMAIN work, DecompressChunk(i)
          PROVE  [Promise!Next]_(Promise!vars)
      <4>1. pc = "decompress" /\ UNCHANGED <<transport, pc, call, size>>
        BY <3>0, <3>5 DEF DecompressChunk
      <4> DEFINE places == (Lo(i) .. Hi(i) - 1) \ DOMAIN restored
      <4>2. /\ Lo(i) .. Hi(i) - 1 \subseteq 0 .. size - 1
            /\ restored' = [p \in DOMAIN restored \cup Lo(i) .. Hi(i) - 1 |-> <<call, p>>]
        BY <1>2, <2>4, <3>0, <3>5, IterationRestored
      <4>3. /\ DOMAIN restored \subseteq 0 .. size - 1
            /\ restored = [p \in DOMAIN restored |-> <<call, p>>]
        BY <1>2, <2>4 DEF RInv
      <4>4. restored' = [p \in DOMAIN restored \cup places |-> <<call, p>>]
        <5>1. DOMAIN restored \cup Lo(i) .. Hi(i) - 1 = DOMAIN restored \cup places
          OBVIOUS
        <5> QED
          BY <4>2, <5>1
      <4>5. places \subseteq (0 .. size - 1) \ DOMAIN restored
        BY <4>2
      <4> HIDE DEF places
      <4>6. src' = src /\ res = restored /\ res' = restored' /\ ~ret /\ ~ret'
        BY <2>4, <4>1
      <4>7. CASE places = {}
        <5>1. restored' = restored
          <6>1. DOMAIN restored \cup places = DOMAIN restored
            BY <4>7
          <6> QED
            BY <4>3, <4>4, <6>1
        <5> QED
          BY <4>6, <5>1 DEF Promise!vars
      <4>8. CASE places # {}
        <5>1. DOMAIN src = 0 .. size - 1 /\ \A k \in 0 .. size - 1 : src[k] = <<call, k>>
          BY <2>4 DEF Data
        <5> HIDE DEF src, res, ret
        <5>2. DOMAIN restored \cup places \subseteq 0 .. size - 1
          BY <4>3, <4>5
        <5>3. res' = [k \in DOMAIN res \cup places |-> src[k]]
          BY <4>4, <4>6, <5>1, <5>2
        <5>4. places \in SUBSET (DOMAIN src \ DOMAIN res)
          BY <4>5, <4>6, <5>1
        <5> QED
          BY <4>6, <4>8, <5>3, <5>4
             DEF src, res, ret, Promise!Next, Promise!Restore, Promise!Missing
      <4> QED
        BY <4>7, <4>8
    <3>6. CASE DecompressReturn
      <4>1. pc = "decompress" /\ pc' = "returned" /\ UNCHANGED <<transport, call, size, restored>>
        BY <3>0, <3>6 DEF DecompressReturn
      <4>2. RInv'
        BY <1>2, NextRInv
      <4>3. 0 .. size - 1 \subseteq DOMAIN restored
        BY <2>4, <4>1, <4>2 DEF RInv
      <4>4. DOMAIN src \ DOMAIN res = {}
        BY <2>4, <4>3 DEF Data
      <4>5. ~ret /\ ret' /\ UNCHANGED <<src, res>>
        BY <2>4, <4>1
      <4> QED
        BY <4>4, <4>5 DEF Promise!Next, Promise!Return, Promise!Missing
    <3> QED
      BY <2>4, <3>1, <3>2, <3>3, <3>4, <3>5, <3>6 DEF Transfer, Iteration
  <2>5. CASE Stopped \/ UNCHANGED vars
    BY <2>5 DEF Stopped, vars, Reliable, Promise!vars
  <2>6. CASE Reliable
    <3>1. Reliable'
      BY <2>1, <2>6 DEF Reliable
    <3> QED
      BY <1>2, <2>3, <2>4, <2>5, <2>6, <3>1 DEF Next
  <2> QED
    BY <2>2, <2>6
<1>3. Init => RInv
  BY InitRInv
<1>4. IInv /\ RInv /\ [Next]_vars => RInv'
  BY NextRInv
<1> QED
  BY <1>1, <1>2, <1>3, <1>4, Inductive, PTL DEF Spec
================================================================================
