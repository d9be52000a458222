------------------------------- MODULE DataEngines -------------------------------
(****************************************************************************)
(* A chunk from an engine of one process to the engine of another: the data  *)
(* registries both fill during static initialisation, the engine taken from  *)
(* them, and its compressChunk() and decompressChunk().  LZF and FastLZ are  *)
(* modelled byte by byte; what happens inside the libraries behind the other *)
(* engines is external.                                                      *)
(****************************************************************************)
EXTENDS LZ77, FiniteSets, SequencesExt

CONSTANTS
  Unrolled, Unroll, LongBlock,  \* see LZF and FastLZ
  Orders,      \* the orders in which static initialisers may run
  Names,       \* the registered engines; "LZF" and "FastLZ" are modelled
  Rating,      \* speed and ratio of an engine, as choose() weighs them
  NoRating,    \* the rating of doing nothing: powf(1, .3)
  Levels,      \* the levels 6pack may ask FastLZ for
  Fragile,     \* bound: the chunks whose streams may be damaged
  Transports   \* how a stream reaches the other process: "reliable", "damaged"

NoName == "none"

\* The unrolled comparisons of LZF do not pass its longest match; a far match of
\* FastLZ takes no more bytes than it saves, literals before it included (8 and
\* 32); the same initialisers run in both processes, and no two engines are
\* rated the same.
ASSUME DataEnginesAssumption ==
  /\ Unrolled \in Nat /\ Unrolled + 3 <= Bytes + Lengths
  /\ Unroll \in Nat \ {0} /\ LongBlock \in Nat
  /\ Lengths >= 5 \/ Highs <= 6
  /\ Hashes # {} /\ Levels \subseteq {1, 2}
  /\ NoName \notin Names
  /\ Orders \subseteq Seq(Names) /\ \A order \in Orders : Range(order) = Names
  /\ Rating \in [Names -> Int] /\ NoRating \in Int
  /\ \A m, n \in Names : Rating[m] = Rating[n] => m = n
  /\ Transports \subseteq {"reliable", "damaged"}

Sides == {"sender", "receiver"}

VARIABLES
  level,      \* see FastLZ
  infos,      \* the engines each process has registered, in their order
  engine,     \* the engine each process has created, by its name
  transport   \* how the stream is transferred

registries == <<infos, engine, transport>>
vars == <<pc, source, coder, sink, level, registries>>

Lzf  == INSTANCE LZF
Fast == INSTANCE FastLZ

------------------------------------------------------------------------------
(* data::Registry *)

RatingOf(name) == IF name = NoName THEN NoRating ELSE Rating[name]

\* Mutant of Better: an engine better than nothing is kept.
BetterOnce(candidate, name) ==
  IF candidate = NoName /\ RatingOf(name) > NoRating THEN name ELSE candidate

\* Registry::choose(): the first of the best rated, if better than nothing.
Better(candidate, name) ==
  IF RatingOf(name) > RatingOf(candidate) THEN name ELSE candidate
Choose(order) == FoldLeft(Better, NoName, order)

\* Registry::find().
Find(order, name) == IF name \in Range(order) THEN name ELSE NoName

Init ==
  /\ infos \in [Sides -> Orders]
  /\ engine = [side \in Sides |-> NoName]
  /\ transport \in Transports
  /\ pc = "idle" /\ level = 1
  /\ input = <<>> /\ room = 0 /\ hash = CHOOSE h \in Hashes : TRUE
  /\ table = <<>> /\ ip = 0 /\ lit = 0 /\ out = <<>>
  /\ stream = <<>> /\ read = 0 /\ data = <<>>

\* The sender takes the recommended engine or one it knows by name; the
\* receiver is told the name.
CreateSender ==
  /\ engine["sender"] = NoName
  /\ \E name \in {Choose(infos["sender"])} \cup
                 {Find(infos["sender"], n) : n \in Names} :
       engine' = [engine EXCEPT !["sender"] = name]
  /\ UNCHANGED <<pc, source, coder, sink, level, infos, transport>>

CreateReceiver ==
  /\ engine["receiver"] = NoName /\ engine["sender"] # NoName
  /\ engine' = [engine EXCEPT !["receiver"] = Find(infos["receiver"], engine["sender"])]
  /\ UNCHANGED <<pc, source, coder, sink, level, infos, transport>>

------------------------------------------------------------------------------
(* compressChunk(), the transfer, and decompressChunk() *)

Begin ==
  /\ pc = "idle" /\ engine["receiver"] # NoName
  /\ \E chunk \in Inputs, h \in Hashes :
       /\ transport = "damaged" => chunk \in Fragile
       /\ \/ /\ engine["sender"] = "LZF"
             /\ \E bytes \in Rooms[Len(chunk)] : Lzf!Begin(chunk, bytes, h)
             /\ UNCHANGED level
          \/ /\ engine["sender"] = "FastLZ"
             /\ \E l \in {Fast!Dispatch(Len(chunk))} \cup Levels :
                  Fast!Begin(chunk, 0, h, l)

Compress ==
  \/ engine["sender"] = "LZF" /\ Lzf!Compress /\ UNCHANGED level
  \/ engine["sender"] = "FastLZ" /\ Fast!Compress

Transfer ==
  /\ Arrive({out} \cup IF transport = "damaged" THEN Damaged(out) ELSE {})
  /\ UNCHANGED level

Decompress ==
  \/ engine["receiver"] = "LZF" /\ Lzf!Decompress /\ UNCHANGED level
  \/ engine["receiver"] = "FastLZ" /\ Fast!Decompress

Return ==
  /\ pc \in {"done", "error"} /\ pc' = "returned"
  /\ UNCHANGED <<source, coder, sink, level>>

Run == Compress \/ Transfer \/ Decompress \/ Return

Stopped == pc \in {"idle", "returned"} /\ UNCHANGED vars

Next ==
  \/ CreateSender \/ CreateReceiver \/ Stopped
  \/ (Begin \/ Run) /\ UNCHANGED registries

Spec == Init /\ [][Next]_vars /\ WF_vars(Run /\ UNCHANGED registries)

------------------------------------------------------------------------------
(* Properties *)

\* Every variable has its type.
TypeOK ==
  /\ pc \in {"idle", "loop", "tail", "sent", "decompress", "done", "error",
            "returned"}
  /\ input \in Inputs \cup {<<>>} /\ room \in Nat /\ hash \in Hashes
  /\ pc # "idle" => table \in [Slots -> -1 .. Size]
  /\ ip \in 0 .. Size /\ lit \in 0 .. Highs - 1 /\ out \in Seq(Byte)
  /\ stream \in Seq(Byte) /\ read \in Nat /\ data \in Seq(Byte)
  /\ level \in {1, 2} /\ infos \in [Sides -> Orders]
  /\ engine \in [Sides -> Names \cup {NoName}] /\ transport \in Transports

\* Whatever the hash table held, at every level and limit of the formats: what
\* the decompressor writes is the chunk from its first byte on, it reads the
\* stream to its end, and it fails on an empty stream only.
RoundTrip ==
  transport = "reliable" =>
    /\ \A k \in DOMAIN data : k <= Size /\ data[k] = input[k]
    /\ pc = "done" => data = input /\ read = Len(stream)
    /\ pc = "error" => stream = <<>>

\* The room that is enough for any chunk of n bytes.
Enough(n) == n + (n \div Highs) + 4

\* The bytes of the result buffer in use; the first byte of a run without
\* literals is reserved and not yet written.
Used == IF pc = "loop" /\ lit = 0 THEN Len(out) - 1 ELSE Len(out)

\* The compressors stay inside the result buffer: LZF inside the room it is
\* told, FastLZ, which is told nothing, inside getCompressBound(). With that
\* room LZF never gives up.
FitsBound ==
  /\ engine["sender"] = "LZF" =>
       /\ Used <= room
       /\ (pc = "sent" /\ Size > 0 /\ room >= Enough(Size)) => out # <<>>
  /\ engine["sender"] = "FastLZ" => Len(out) <= Enough(Size)

\* Whatever arrives, the decompressors write no byte behind the end of the
\* output ("guaranteed not to write the output buffer more than what is
\* specified in maxout", fastlz.h), and that of liblzf reads none behind the end
\* of a stream ("this only shields against overflowing the input buffer", lzfP.h).
Contained ==
  /\ stream # <<>> /\ engine["receiver"] = "LZF" => read <= Len(stream)
  /\ Len(data) <= Size

\* Whatever order their initialisers ran in, both processes recommend the same
\* engine, the best, and mean the same one by a name.
AgreedEngine ==
  /\ \A side \in Sides, name \in Names :
       RatingOf(Choose(infos[side])) >= RatingOf(name)
  /\ Choose(infos["sender"]) = Choose(infos["receiver"])
  /\ engine["receiver"] \in {NoName, engine["sender"]}

\* With room enough and a reliable transport an engine keeps the promise of a
\* compressor: the chunk is restored, and decompressChunk() returns.
Promised ==
  /\ transport = "reliable" /\ pc # "idle"
  /\ engine["sender"] = "LZF" => room >= Enough(Size)

Promise == INSTANCE Codec WITH
  Sources  <- {<<>>} \cup {<<chunk>> : chunk \in Inputs},
  source   <- IF Promised THEN <<input>> ELSE <<>>,
  restored <- IF Promised /\ pc \in {"done", "error", "returned"} THEN <<data>> ELSE <<>>,
  returned <- ~Promised \/ pc = "returned"

KeepsPromise == Promise!Spec
================================================================================
