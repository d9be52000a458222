------------------------------- MODULE PixelGroups -------------------------------
(****************************************************************************)
(* The pixel engines behind the C interface of the plugin: an instance is    *)
(* made for a name; compress() divides the pixels into groups, each a        *)
(* process of an OpenMP loop that writes four RLE streams, one per channel;  *)
(* the application collects the results of the instance; decompress() finds  *)
(* the engine by name and divides the output into groups again, from the     *)
(* number of streams it is given.                                            *)
(*                                                                           *)
(* Both sides compute the groups with numbers of type float.  The vector of  *)
(* result buffers belongs to the instance and only ever grows.  What a       *)
(* stream says about its words is the subject of RLE; here a stream is the   *)
(* range of pixels it was made of, and its length in bytes.                  *)
(****************************************************************************)
EXTENDS Integers, Sequences, SequencesExt

CONSTANTS
  Engines,   \* the names of the engines of the plugin
  WordSize,  \* sizeof(ComponentType) of each
  Orders,    \* the orders in which the engines may be registered
  Requests,  \* what the application may compress: [dims, flags]
  Procs,     \* what omp_get_num_procs() may return; 1 also stands for no OpenMP
  MaxCalls   \* bound: how often the application compresses

\* The number of pixels: inDims is x, w or x, w, y, h.
NPixels(dims, flags) == IF "DATA_1D" \in flags THEN dims[2] ELSE dims[2] * dims[4]

Pixels == {NPixels(r.dims, r.flags) : r \in Requests}

\* A number of pixels below 2^24 is a float without rounding; with at most 64
\* groups all numbers below stay within 31 bits.
ASSUME GroupsAssumption ==
  /\ WordSize \in [Engines -> {1, 2}]
  /\ Engines # {} /\ Orders \subseteq Seq(Engines)
  /\ \A order \in Orders : Range(order) = Engines
  /\ Pixels \subseteq Nat /\ \A n \in Pixels : n < 2^24
  /\ \A r \in Requests : r.flags \subseteq {"DATA_1D", "IGNORE_ALPHA"}
  /\ Procs \subseteq 1 .. 64
  /\ MaxCalls \in Nat \ {0}

VARIABLES
  caching,   \* whether the engines were built with PRESSION_AGGRESSIVE_CACHING
  functions, \* _functions: the names of the engines in the order of registration
  instance,  \* the application's instance: the name it asked for, and the engine
  pc,        \* "idle", "compress", "compressed", "decompress", "returned"
  call,      \* which pixels the application works on
  request,   \* the engine to be used, their dimensions and flags
  results,   \* _results: [room, size, lo, hi, of, by] per stream, see Result
  nResults,  \* _nResults
  work,      \* the state of each group of the running loop
  inputs,    \* the streams handed to decompress()
  restored   \* what decompress() has written, by group

build == <<caching, functions>>
vars  == <<build, instance, pc, call, request, results, nResults, work, inputs, restored>>

Smaller(a, b) == IF a < b THEN a ELSE b
Larger(a, b)  == IF a > b THEN a ELSE b

\* A result buffer: room bytes are allocated, and size of them hold a channel
\* of the pixels lo .. hi - 1 of call of, written by engine by.
Result == [room : Nat, size : Nat, lo : Nat, hi : Nat, of : Nat, by : Engines]
Empty  == [room |-> 0, size |-> 0, lo |-> 0, hi |-> 0, of |-> 0, by |-> functions[1]]

nPixels  == NPixels(request.dims, request.flags)
useAlpha == "IGNORE_ALPHA" \notin request.flags

\* The streams of a group, in the vector of results.
Streams(group) == 4 * group - 3 .. 4 * group

------------------------------------------------------------------------------
(* The partition of n pixels into g groups *)

\* The whole number next to a / b, the even one of two: how a float is rounded.
RoundEven(a, b) ==
  LET q == a \div b
      r == a % b
  IN IF 2 * r < b \/ (2 * r = b /\ q % 2 = 0) THEN q ELSE q + 1

\* The width n / g of a group is a float, Width(n, g) / 2^WidthShift(n, g).
WidthShift(n, g) == CHOOSE k \in 0 .. 23 : (n * 2^k) \div g \in 2^23 .. 2^24 - 1
Width(n, g)      == RoundEven(n * 2^WidthShift(n, g), g)

\* Mutant of Bound: the width of a group is cut off to a whole number.
BoundWhole(i, n, g) == i * (n \div g)

\* How many digits a product has too many for the 24 bits of a float, and the float
\* next to it.
Spare(product) ==
  CHOOSE s \in 0 .. 6 :
    /\ product \div 2^s < 2^24
    /\ s = 0 \/ product \div 2^(s - 1) >= 2^24
ToFloat(product) == RoundEven(product, 2^Spare(product)) * 2^Spare(product)

\* i * width, rounded to a float and cut off to a whole number of pixels.
Bound(i, n, g) ==
  IF n = 0 THEN 0 ELSE ToFloat(i * Width(n, g)) \div 2^WidthShift(n, g)

\* A group for every 4096 bytes, but no more than processors.
Bytes(n, word)         == 4 * word * n
Groups(n, word, procs) == Smaller(procs, Larger(1, Bytes(n, word) \div 4096))

\* The partitions there may be, and the bounds of their groups.
Splits ==
  {<<n, Groups(n, word, procs)>> : n \in Pixels, word \in Range(WordSize), procs \in Procs}
Bounds == [it \in Splits |-> [i \in 0 .. it[2] |-> Bound(i, it[1], it[2])]]

\* Mutant of First: a group starts one pixel before the end of the last one.
FirstShared(group, n, g) == Bounds[<<n, g>>][group - 1] - 1

\* startIndex and nextIndex, in pixels.
First(group, n, g)  == Bounds[<<n, g>>][group - 1]
Behind(group, n, g) == Bounds[<<n, g>>][group]

------------------------------------------------------------------------------
(* The engines and their instances *)

\* _findFunctions(): a name that is not there is taken for the first one.
FindFunctions(name) ==
  IF name \in Range(functions) THEN name ELSE functions[1]

\* The engines register themselves while the library is loaded.
Init ==
  /\ caching \in BOOLEAN /\ functions \in Orders
  /\ instance = <<>>
  /\ pc = "idle" /\ call = 0 /\ request = [name |-> functions[1], dims |-> <<0, 0>>, flags |-> {"DATA_1D"}]
  /\ results = <<>> /\ nResults = 0
  /\ work = <<>> /\ inputs = <<>> /\ restored = <<>>

NewCompressor(name) ==
  /\ pc \in {"idle", "returned"} /\ instance = <<>>
  /\ instance' = <<[name |-> name, engine |-> FindFunctions(name)]>>
  /\ results' = <<>> /\ nResults' = 0
  /\ UNCHANGED <<pc, call, request, work, inputs, restored>>

DeleteCompressor ==
  /\ pc \in {"idle", "returned"} /\ instance # <<>> /\ call < MaxCalls
  /\ instance' = <<>> /\ results' = <<>> /\ nResults' = 0
  /\ UNCHANGED <<pc, call, request, work, inputs, restored>>

------------------------------------------------------------------------------
(* compress() *)

WordBytes == WordSize[instance[1].engine]

\* Mutant of Reserved: a buffer is only ever allocated once.
ReservedOnce(result, n, g) ==
  [result EXCEPT !.room = IF @ = 0 THEN (Bytes(n, WordBytes) \div (4 * g) + 1) * 2 ELSE @]

\* reserve(maxChunkSize) only ever enlarges the buffer.
Reserved(result, n, g) ==
  [result EXCEPT !.room = Larger(@, (Bytes(n, WordBytes) \div (4 * g) + 1) * 2)]

\* _setupResults(), and the entry of the loop over the groups.
Compress(r, procs) ==
  /\ pc \in {"idle", "returned"} /\ instance # <<>> /\ call < MaxCalls
  /\ pc' = "compress" /\ call' = call + 1
  /\ request' = [name |-> instance[1].name, dims |-> r.dims, flags |-> r.flags]
  /\ LET n == NPixels(r.dims, r.flags)
         g == Groups(n, WordBytes, procs)
     IN /\ results' = [s \in 1 .. Larger(Len(results), 4 * g) |->
                         LET result == IF s <= Len(results) THEN results[s] ELSE Empty
                         IN IF s <= 4 * g THEN Reserved(result, n, g) ELSE result]
        /\ work' = [group \in 1 .. g |-> "todo"]
  /\ inputs' = <<>> /\ restored' = <<>>
  /\ UNCHANGED <<instance, nResults>>

\* The shortest stream of k words is that of equal words in runs as long as a
\* word can count, the longest one that of alternating single markers.
LongestRun  == 2^(8 * WordBytes) - 1
Shortest(k) == 3 * (k \div LongestRun) + Smaller(3, k % LongestRun)
Longest(k)  == 2 * k + (k % 2)

\* The inner _compress(): the streams of one group.  Without alpha the fourth
\* channel is never looked at, and its stream is the single word 0.
CompressGroup(group) ==
  /\ pc = "compress" /\ work[group] = "todo"
  /\ LET lo == First(group, nPixels, Len(work))
         hi == Behind(group, nPixels, Len(work))
     IN \E words \in {Shortest(hi - lo), Longest(hi - lo)} :
          /\ results' = [s \in DOMAIN results |->
               IF s \notin Streams(group) THEN results[s]
               ELSE [room |-> results[s].room, lo |-> lo, hi |-> hi, of |-> call,
                     by |-> instance[1].engine,
                     size |-> IF s % 4 = 0 /\ ~useAlpha /\ lo < hi
                              THEN WordBytes ELSE words * WordBytes]]
          /\ work' = [work EXCEPT ![group] =
               IF lo = hi \/ caching THEN "done" ELSE "stored"]
  /\ UNCHANGED <<instance, pc, call, request, nResults, inputs, restored>>

\* pack() cuts the buffers off to what they hold.
Pack(group) ==
  /\ pc = "compress" /\ work[group] = "stored"
  /\ results' = [s \in DOMAIN results |->
       IF s \in Streams(group) THEN [results[s] EXCEPT !.room = results[s].size]
       ELSE results[s]]
  /\ work' = [work EXCEPT ![group] = "done"]
  /\ UNCHANGED <<instance, pc, call, request, nResults, inputs, restored>>

\* Mutant of CompressReturn: all buffers of the instance count as results.
CompressReturnAll ==
  /\ pc = "compress" /\ \A group \in DOMAIN work : work[group] = "done"
  /\ pc' = "compressed" /\ nResults' = Len(results)
  /\ UNCHANGED <<instance, call, request, results, work, inputs, restored>>

CompressReturn ==
  /\ pc = "compress" /\ \A group \in DOMAIN work : work[group] = "done"
  /\ pc' = "compressed" /\ nResults' = 4 * Len(work)
  /\ UNCHANGED <<instance, call, request, results, work, inputs, restored>>

------------------------------------------------------------------------------
(* decompress() *)

\* The application collects the results, one by one, and has them decompressed
\* by the engine of the same name, for the same request.
Decompress ==
  /\ pc = "compressed"
  /\ inputs' = SubSeq(results, 1, nResults)
  /\ work' = [group \in 1 .. nResults \div 4 |-> "todo"]
  /\ pc' = "decompress"
  /\ UNCHANGED <<instance, call, request, results, nResults, restored>>

\* What an engine writes for a group: the pixels it covers, and those its streams
\* were made of.
Piece(engine, lo, hi, sources) ==
  [engine |-> engine, lo |-> lo, hi |-> hi, sources |-> sources]

\* Mutant of Read: the streams are not counted from those of the group.
ReadFirst(group) == 1 .. 3

\* The streams decompress() reads for a group.
Read(group) == IF useAlpha THEN Streams(group) ELSE Streams(group) \ {4 * group}

DecompressGroup(group) ==
  /\ pc = "decompress" /\ work[group] = "todo"
  /\ restored' = [g \in DOMAIN restored \cup {group} |->
       IF g # group THEN restored[g]
       ELSE Piece(FindFunctions(request.name),
                  First(group, nPixels, Len(inputs) \div 4),
                  Behind(group, nPixels, Len(inputs) \div 4),
                  {<<inputs[s].by, inputs[s].of, inputs[s].lo, inputs[s].hi>> : s \in Read(group)})]
  /\ work' = [work EXCEPT ![group] = "done"]
  /\ UNCHANGED <<instance, pc, call, request, results, nResults, inputs>>

DecompressReturn ==
  /\ pc = "decompress" /\ \A group \in DOMAIN work : work[group] = "done"
  /\ pc' = "returned"
  /\ UNCHANGED <<instance, call, request, results, nResults, work, inputs, restored>>

------------------------------------------------------------------------------
GroupStep(group) == CompressGroup(group) \/ Pack(group) \/ DecompressGroup(group)

Transfer ==
  /\ \/ \E group \in DOMAIN work : GroupStep(group)
     \/ CompressReturn \/ Decompress \/ DecompressReturn
  /\ UNCHANGED build

Stopped == pc \in {"idle", "returned"} /\ UNCHANGED vars

Next ==
  \/ (\E name \in Engines : NewCompressor(name)) /\ UNCHANGED build
  \/ (\E r \in Requests, procs \in Procs : Compress(r, procs)) /\ UNCHANGED build
  \/ DeleteCompressor /\ UNCHANGED build
  \/ Transfer \/ Stopped

\* The calling thread and its team run; the application may stop at any time.
Spec == Init /\ [][Next]_vars /\ WF_vars(Transfer)

------------------------------------------------------------------------------
(* Properties *)

\* Every variable has its type.
TypeOK ==
  /\ caching \in BOOLEAN /\ functions \in Orders
  /\ instance \in {<<>>} \cup {<<it>> : it \in [name : Engines, engine : Engines]}
  /\ pc \in {"idle", "compress", "compressed", "decompress", "returned"}
  /\ call \in 0 .. MaxCalls /\ nPixels \in Pixels \cup {0}
  /\ request.flags \subseteq {"DATA_1D", "IGNORE_ALPHA"}
  /\ results \in Seq(Result) /\ inputs \in Seq(Result)
  /\ nResults \in 0 .. Len(results)
  /\ work \in Seq({"todo", "stored", "done"})
  /\ DOMAIN restored \subseteq DOMAIN work

\* The groups of a running loop share no pixel, leave none out between them but,
\* at the most, the last one (what the product of the rounded width and the number
\* of groups falls short), and stay inside the pixels; only above 2^23 pixels,
\* where a float has no fraction left, may the last one end a pixel late.
GroupsApart ==
  pc \in {"compress", "decompress"} =>
    LET g == Len(work)
    IN /\ \A i \in 1 .. g : First(i, nPixels, g) <= Behind(i, nPixels, g)
       /\ First(1, nPixels, g) = 0
       /\ \A i \in 1 .. g - 1 : First(i + 1, nPixels, g) = Behind(i, nPixels, g)
       /\ Behind(g, nPixels, g) \in nPixels - 1 .. nPixels + (IF nPixels < 2^23 THEN 0 ELSE 1)

\* The results an application collects are those of the last compress(),
\* however many the instance still has from an earlier one, and none of them
\* is empty if there were pixels.
ResultsOfThisCall ==
  pc = "compressed" =>
    \A s \in 1 .. nResults :
      /\ results[s].of = call
      /\ nPixels > 0 => results[s].size > 0

\* A stream is at most three words longer than the buffer that was reserved for it:
\* a group has, at the most, two pixels more than its share, and a word may be needed
\* for the last one of an odd number.  This is also so in a buffer that an earlier
\* call packed.
StreamNearlyFits ==
  pc = "compress" =>
    \A group \in DOMAIN work :
      work[group] = "todo" =>
        LET k == Behind(group, nPixels, Len(work)) - First(group, nPixels, Len(work))
        IN \A s \in Streams(group) : Longest(k) * WordBytes <= results[s].room + 3 * WordBytes

\* What decompress() is to write with engine e for g groups of n pixels of call c.
Pieces(e, n, g, c) ==
  [i \in 1 .. g |-> Piece(e, First(i, n, g), Behind(i, n, g),
                          {<<e, c, First(i, n, g), Behind(i, n, g)>>})]

Possible ==
  {<<>>} \cup {Pieces(e, split[1], split[2], c) :
                e \in Engines, split \in Splits, c \in 1 .. MaxCalls}

\* Each group is restored, by the engine that has compressed it, from its own four
\* streams of this call, at the place they were made of, and decompress() returns.
Promise == INSTANCE Codec WITH
  Sources  <- Possible,
  source   <- IF work = <<>> THEN <<>>
              ELSE Pieces(request.name, nPixels, Len(work), call),
  restored <- restored,
  returned <- pc \in {"idle", "returned"}

KeepsPromise == Promise!Spec

\* "The routine should use the output buffer fully": the groups of decompress()
\* end where the pixels do.
BufferFull == pc = "returned" => restored[Len(work)].hi = nPixels
================================================================================
