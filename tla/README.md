# Formal specification of Pression

Pression compresses binary data and pixel data. It has two halves that share one
algorithm:

* `pression::data` (`src/pression/data`): compressors for plain memory, split into
  chunks that are compressed and decompressed in parallel by OpenMP loops.
* `pression` (`src/pression`) with the plugin engines (`src/pression/compressor`):
  handles for compressors, decompressors, downloaders and uploaders that live in
  plugin libraries, loaded by a registry and reached through a C interface.

This directory holds TLA+ specifications of that code, their model checking with
TLC, and proofs checked by TLAPS.

## 1. Inventory

| Component | State it keeps | Operations | What is hard | What makes it correct |
|---|---|---|---|---|
| RLE token codec (`compressor/compressorRLE.ipp`, `data/CompressorRLE.cpp`) | encoder: last token, run counter, output position; decoder: token, remaining count, input position | `_compress`, `_compressToken`, `_write`, `_decompress`, `READ` | tokens equal to the marker, saturated counters, runs of two, counts equal to the marker | restores every input; reads exactly what was written; output fits the reserved buffer |
| Pixel groups (`compressorRLE.ipp`, `_setupResults`, outer `_compress`/`_decompress`) | the result vector, one group of four streams per chunk | partition of the pixels with a `float` width, one OpenMP iteration per group | rounding of the width, results of earlier calls, empty groups | the groups tile the pixels; both sides compute the same groups; results fit |
| Swizzles (`compressorRLE4B.cpp`, `…YUV`, `…10A2`, `…4HF`, `…565`) | none | `swizzle`, `deswizzle` | bit positions, alpha dropped, lossy formats | deswizzle is the left inverse on the bits that are kept |
| `data::Compressor` | result buffers, reused by each call | `compress`, `decompress` | parallel iterations, reuse of packed buffers, chunk lists of another size, builds without OpenMP | chunks tile the data; buffers suffice; iterations are disjoint; mismatches are refused |
| Data engines ZSTD, Snappy, LZF, FastLZ | none | `compressChunk`, `decompressChunk` | an engine that fails or whose output does not fit | the failure is not taken for data |
| Vendored codecs (`data/liblzf`, `data/fastlz`) | hash table, position, open literal run; decoder: position | `lzf_compress`, `lzf_decompress`, `fastlz_compress[_level]`, `fastlz_decompress` | a hash table that is not initialised, limits of length and distance fields, matches at the end of the chunk, damaged streams | restore every chunk; stay inside their buffers, also for damaged streams |
| Command line tools of the codecs (`lzf.c`, `6pack.c`, `6unpack.c`; in no build) | files, the block and header being read | `run_file`, `compress_fd`, `uncompress_fd`; `pack_file`, `unpack_file` | failing reads and writes, kills, cut archives, read-ahead of headers | no file is lost; what is restored is the file from its beginning |
| `data::Registry` | list of engines, filled by static initialisers | `registerEngine`, `choose`, `create` | order of initialisation | the best engine is chosen, names are found |
| `Plugin`, `PluginRegistry` | loaded libraries, their engine lists | `loadFile`, `loadDirectory`, `findPlugin`, `accept` | incomplete libraries, the same library found twice, name collisions, visitors that stop | every name resolves to one plugin that implements it |
| Handles `Compressor`, `Decompressor`, `Downloader`, `Uploader` | plugin, instance, engine info | `setup`, `clear`, `realloc`, `compress`, `getResult`, `decompress`, `start`, `finish`, `upload` | failing `setup`, repeated `setup`, instances that fail to allocate, asynchronous downloads, results that outlive their instance | no instance leaks or is deleted twice, functions are called on live instances of their own plugin |
| Plugin C API (`compressor/compressor.cpp`) | engine list, per instance the result vector | `EqCompressor…` functions | the vector only grows | `getResult` returns results of the last call |

The components meet in two pipelines. *Data*: the application calls
`data::Compressor::compress`, which calls `compressChunk` of an engine (for RLE: the
token codec) for each chunk in parallel, transports the chunk list and calls
`decompress` of another instance. *Pixels*: a handle asks the registry for a plugin,
makes an instance, and calls through the C API into an engine that splits the pixels
into groups of four RLE streams; a `CompressorResult` of plain pointers carries the
streams to a `Decompressor` handle. Apart from OpenMP there are no threads of the
library's own; a handle belongs to one thread (`LB_TS_THREAD`), a download may be
finished by another one, and the registries have no lock. The command line tools share
only the codecs with the rest.

## 2. Modules

| Module | What it is |
|---|---|
| `Codec` | the abstract promise: what was compressed is restored piece by piece, and the call returns |
| `RLE`, `MCRLE` | one token stream, encoder and decoder, in full |
| `RLE_proofs` | the proofs about `RLE` |
| `DataCompressor`, `MCDataCompressor` | chunks, parallel loops, buffer reuse, transport, the test of the chunk list |
| `DataCompressor_proofs` | the proofs about `DataCompressor` |
| `LZ77` | a chunk on its way through an LZ77 coder: the state and the steps LZF and FastLZ share |
| `LZF`, `FastLZ` | compressor and decompressor of liblzf, and of FastLZ at both levels; extend `LZ77` |
| `DataEngines`, `MCDataEngines` | two processes with a data registry each, and a chunk from the engine of one to that of the other; composes `LZF` and `FastLZ` |
| `DataEngines_proofs` | the proofs about `DataEngines`, `LZF` and `FastLZ` |
| `Archive` | a file, its archive, the restored file, and what may go wrong |
| `LzfFile`, `SixPack` | the tools `lzf`, and `6pack` and `6unpack`; extend `Archive` |
| `Archives`, `MCArchives` | the user calls the tools until the file is restored; composes `LzfFile` and `SixPack` |
| `Archives_proofs` | the proofs about `Archives`, `LzfFile` and `SixPack` |
| `PixelGroups`, `MCPixelGroups` | a pixel engine and the C API around it: the `float` partition, four streams per group, the growing result vector |
| `PixelGroups_proofs` | the proofs about `PixelGroups` |
| `Swizzle`, `MCSwizzle` | the bit maps of the pixel formats and the choice between them |
| `Swizzle_proofs` | the proofs about `Swizzle` |
| `PluginRegistry`, `MCPluginRegistry` | libraries with missing entry points, duplicates, search, `findPlugin`, the three `choose` functions |
| `PluginRegistry_proofs` | the proofs about `PluginRegistry` |
| `PluginHandles`, `MCPluginHandles` | the four handles and the instances they own; extends `PluginRegistry` |
| `PluginHandles_proofs` | the proofs about `PluginHandles` |

`RLE`, `DataCompressor`, `DataEngines` and `PixelGroups` all implement `Codec` by a refinement
mapping (`KeepsPromise` in each): the piece of `Codec` is a word of a stream, a chunk of the
data, the chunk of an engine, a group of the pixels. So the layers compose: a group or chunk
stands for streams that restore their words. One more promise that several modules
state, each about its part, is that sender and receiver mean the same engine by a name:
`SameImplementation` for handles, `AgreedEngine` for data engines, and the engine in the
pieces of `PixelGroups`.

### 2.1 `RLE`

One stream. `data::CompressorRLE` has one per chunk; the plugin engines have one per
colour channel of each group, built from the same `_write`, `_compressToken` and `READ`.
A word is a value of the unsigned type the templates are instantiated with, so words,
run lengths and the decoder's counter share `0 .. MaxWord`.

| Code | Module |
|---|---|
| `tokenLast`, `tokenSame`, loop index, `tokenOut` | `last`, `same`, `next`, `out` |
| `token`, `tokenLeft`, `in`, output | `token`, `left`, `read`, `data` |
| `size == 0` | `CompressEmpty` |
| initialisation from `in[0]` | `CompressFirst` |
| `COMPRESS(token)` | `CompressToken` (`Extends` or `Write`) |
| `WRITE_OUTPUT`, `setSize`, `pack` | `WriteOutput` |
| one iteration of the decoder loop | `DecompressToken` |
| end of that loop | `DecompressEnd` |

`--tokenLeft` is modelled modulo the word size: a count of zero in the stream would wrap.
A read past the end of the stream is undefined in C++ and yields any word here, so that
`RoundTrip` cannot hold by luck. `_write` with zero tokens, which asserts in the code,
writes nothing. `cutOut` and `cutIn` are history variables: after each unit of the
stream they hold the two positions, and no action reads them except to extend them.

### 2.2 `DataCompressor`

The instance, the transport and the decompressing instance. A byte is a pair of the call
that compressed it and its position, and a result buffer is the range it holds plus the
bytes allocated; what an engine does inside a chunk is `RLE`'s subject. Each iteration of
an OpenMP loop is a process with two steps (`Reserve`, `CompressChunk`) or one
(`DecompressChunk`). `compressed.resize` keeps old buffers (`Resized`), `reserve` only
enlarges, and an engine may `pack` a buffer to the size of its content; hence a later
call finds small and stale buffers.

`openMP`, chosen from `Builds`, says which of the two variants of `compress` the build
has; `decompress` is the same in both. `transport`, chosen from `Transports`, says whether
the chunk list arrives as it was sent, or may lose its end or carry its last chunk twice.
Over a lossy transport nothing is promised but what `AcceptedTail` says of a list that
passes the test of `decompress()`. It speaks of lists compressed with OpenMP: the single
result of a serial build that arrives twice is accepted as two chunks, and nothing in the
list tells the difference.

The two byte counters `_in` and `_out` only feed a log line and are left out. An engine that
fails on a chunk is the subject of `DataEngines`.

### 2.3 `PixelGroups`

| Code | Module |
|---|---|
| `registerEngine`, `_functions` | `functions`, in either order (`Orders`) |
| `_findFunctions` | `FindFunctions` |
| `EqCompressorNewCompressor`, `EqCompressorDeleteCompressor` | `NewCompressor`, `DeleteCompressor` |
| dimensions and flags of `EqCompressorCompress` and `EqCompressorDecompress` | `request`, `NPixels`, `useAlpha` |
| `_results`, `_nResults` of an instance | `results`, `nResults` |
| `_setupResults` | `Compress` (`Groups`, `Reserved`) |
| `width`, `startIndex`, `nextIndex` of both loops | `Width`, `First`, `Behind` |
| the inner `_compress`, one iteration of its loop | `CompressGroup` |
| `PRESSION_AGGRESSIVE_CACHING`, `pack` | `caching`, `Pack` |
| `_nResults = _compress(...)` | `CompressReturn` |
| `EqCompressorGetNumResults`, `EqCompressorGetResult`, call of `decompress` | `Decompress` |
| one iteration of `_decompress`, its end | `DecompressGroup`, `DecompressReturn` |

The group width is a `float` and the bounds are `float` products. `Width` and `Bound`
compute them with whole numbers: a `float` is 24 bits times a power of two, rounded to the
nearest, ties to even. The model has no subnormal numbers and needs numbers of pixels below
2^24 (`GroupsAssumption`); the results agree with those of a compiled C program
for the numbers TLC uses.

A stream is the range of pixels it was made of, the call, and its length. The length is
that of the shortest or of the longest stream `RLE` makes of that many words
(`Shortest`, `Longest`), which is all the buffers can tell apart. The streams of a group
are written in one step; no other group touches them (`GroupsApart`). `Procs` are the
values of `omp_get_num_procs()`; 1 gives the behaviour of a build without OpenMP, too.
`WordSize` is 1 for all engines but those of half floats, which have words of two bytes:
the buffer rule adds two bytes per stream, which is two words for the former and one for
the latter. What a stream may exceed its buffer by (`StreamNearlyFits`) is a matter of how
many pixels a group can have more than its share. Two is the answer, and three groups, as
many as TLC is given, cannot show it: it takes 22 groups and 9,227,501 pixels, for example.
The attempt to prove a smaller bound found this case, and a C program that tried all numbers
of pixels below 2^24 with up to 64 groups confirmed it.

`decompress()` of the C interface takes no instance: the name leads to the engine, so the
piece restored carries the engine that wrote its streams and the one that read them.

### 2.4 `Swizzle`

A pixel and a word are sets of bit numbers, counted from 1 as the `LB_BIT` macros are.
`Move(bits, mask, by)` is a masked shift, and each map of the code is a union of moves
in the order of its source lines. `WordsAlpha` and `WordsNoAlpha` are the template
arguments of the `compress` functions, `PixelAlpha` and `PixelNoAlpha` those of
`decompress`. The YUV engines have classes of their
own in the code, with the same maps bit for bit; they have their own definitions here. Masks are bit sets here, so an addition of words
that do not overlap (`one + (two << 8) + ...`) is a union.

### 2.5 `PluginRegistry`

The files a search comes across are `Files`; `Library` says for each which entry points it
has and which engines it lists, also for files that are no library (no entry point).

| Code | Module |
|---|---|
| `_impl->plugins` | `plugins` |
| the files a constructor or `loadDirectory` has yet to try | `search` |
| constructor of `Plugin`, `isGood` | `PluginIsGood` |
| `loadFile`, the test for a loaded library | `Loaded`, `SameLibrary` |
| one turn of a search loop | `LoadNext` |
| `findPlugin`, `accept` | `FindPlugin`, `Engines` |
| `Compressor::choose`, `Downloader::choose`, `Uploader::choose` | `Choose`, `ChooseDownloader`, `ChooseUploader` |

Ratings are whole numbers, `UnitRating` being 1.0; the constructor of `Plugin` computes
them from speed and ratio, here they are given.

### 2.6 `PluginHandles`

| Code | Module |
|---|---|
| `plugin`, `instance`, `info` of a handle | `handle` |
| instances the plugins have allocated and not yet deleted | `live`, `made` |
| value of the last `setup()` or `realloc()` | `returned` |
| the branches of `setup()` | `SetupKept`, `SetupNone`, `SetupUnknown`, `SetupIncompatible`, `SetupNew` |
| `clear()`, destructor | `Clear` |
| `Compressor::realloc` | `Realloc` |
| `isGood()`, `uses()` | `Ready`, `IsGood`, `Uses` |
| `compress`, `getResult`, `Decompressor::decompress` | `Compress`, `GetResult`, `Decompress` |
| `Downloader::start`, `finish` | `StartDownload`, `Finish` |

The model is of a release build: where an instance fails to allocate the asserts are gone
and the handle goes on with a null pointer. The application has one thread, so no handle
works while a search runs. It uses a handle only when it is good, uses a
`CompressorResult` only until its compressor is used again (`compressorResult.h:32`
asks for that) and finishes downloads it has started before it clears the handle.
Synchronous downloads and uploads change no state of a handle and are left out.

`isGood()` of an uploader is given an OpenGL context and asks the plugin whether the engine works
there; `setup()` and `uses()` of an uploader are not. What a `setup()` tells the application of an
uploader is therefore that the handle can be used for the name (`Uses`), and good it is only in
compatible contexts (`IsGood`, `Compatible`).

### 2.7 `LZ77`, `LZF`, `FastLZ`, `DataEngines`

| Code | Module |
|---|---|
| `htab`, `ip`, `lit` or `copy`, `op` with what is behind it | `table`, `ip`, `lit`, `out` |
| `in_data`, `in_len`, `out_len` | `input`, `Size`, `room` |
| `lzf_compress`: entry, one turn of the main loop, the test behind it, the rest, the last run | `LZF!Begin`, `Loop`, `EndLoop`, `Rest`, `EndStream` |
| its candidate test, match loop and code | `Matches`, `MatchLength`, `Reference`, `Match` |
| `lzf_decompress`, one code | `LZF!Decompress`: `LiteralRun`, `BackReference` |
| `fastlz_compress`, choice of the level | `Dispatch` |
| `FASTLZ_COMPRESSOR`: entry, main loop, left-over, mark of the level | `FastLZ!Begin`, `Loop`, `Rest`, `EndStream` |
| its run test, match loop and codes of both levels | `IsRun`, `Match`, `LevelOne`, `LevelTwo` |
| `FASTLZ_DECOMPRESSOR`, one code | `FastLZ!Decompress`: `LiteralRun`, `MatchOne`, `MatchTwo` |
| `Registry::registerEngine`, `choose`, `find`, `create` | `infos`, `Choose`, `Find`, `CreateSender`, `CreateReceiver` |
| `CompressorLZF`, `CompressorFastLZ`: `compressChunk`, `decompressChunk`, `getCompressBound` | `Begin`, `Return` and the steps between; `Rooms`, `Enough` |

A byte of a stream splits into a length field and the high part of a distance. The
module keeps the formats and scales the fields: `Lengths` (8 in the code) values of the one
times `Highs` (32) values of the other are the byte values, and all limits of the code are written in
terms of them: the longest literal run is `Highs`, the longest match `Bytes + Lengths`, the
largest offset `Highs * Bytes`. So short chunks reach every limit. `Unrolled` and `Unroll`
are the comparisons of the unrolled match loops, `LongBlock` the size from which FastLZ
chooses level 2.

The hash is any function of three bytes (`Hash`). The table of LZF is not initialised, so a
slot not yet written holds any position of the chunk (`Looked`; what is no position fails
the same tests). FastLZ initialises its table and after a match that ends the chunk hashes
a byte behind it, which may have any value (`SlotsAt`).

`compressChunk` of LZF is told the room its buffer has, and a result of nothing means that it
was too little; FastLZ is told nothing. `decompressChunk` ignores the value of both
decompressors, so `Return` follows `error` as it follows `done`. A stream may arrive with a
byte changed or without its end (`Damaged`). Then nothing is restored, and the
decompressors only have to stay inside their buffers (`Contained`): both inside the output,
and LZF, which checks its input, inside the stream. FastLZ checks its input for literals
only; what it reads behind the end of a match that was cut off is any byte.

`Names` are the registered engines. Those of ZSTD and Snappy take part in the choice, and
their chunks go no further: the libraries are not in the repository.

### 2.8 `Archive`, `LzfFile`, `SixPack`, `Archives`

| Code | Module |
|---|---|
| the files of the user, standard output | `disk`: `"plain"`, `"packed"`, `"copy"` |
| `run_file`, its mode and its end | `RunFile`, `Finish` |
| `compress_fd`, one turn | `LzfFile!Compress`, `Record` |
| `uncompress_fd`, one turn, its read-ahead | `Uncompress`, `Valid`, `Kept`, `over` |
| `wwrite` that fails in between | `WriteError` |
| `pack_file`, `write_magic`, the file entry | `Pack`, `Entry` |
| `pack_file_compressed`, one block | `PackBlock`, `Data` |
| `unpack_file`, one turn | `UnpackChunk`: `ReadChunk`, `ReadShort`, `ReadHeaderShort` |
| what it does with the chunk it has read | `Turn`: `UnpackEntry`, `UnpackStored`, `UnpackPacked`, `UnknownMethod` |
| its `buffer`, `compressed_buffer`, `decompressed_size`, chunk fields | `memory` |

The file format of `lzf` is modelled byte by byte, because the tool reads each header with
as many bytes as the longer one has and must give the rest back to the block, or to the next
header (`over`). Bytes are below `Base`, so sizes of two bytes are below `Base^2`, and
the magic letters are byte values that data may have. A block compresses only if it is a
run: what codes mean is the subject of `LZF`.

An archive of `6pack` is a sequence of chunks. A chunk that was cut has fewer bytes, or
fewer fields of its header; `unpack_file` does not look at how many bytes `fread` returned, so
the missing ones are what the memory held: those of the chunk before, or anything
(`memory`, `Over`). Equal checksums are taken to mean equal bytes.

`6unpack` looks at no result of its reads and writes (only at checksums, and only that of a file
entry makes it report an error), and each may fail once or from then on (`Fails`). A write is lost unnoticed (`ReadChunk`); a read
behind a header leaves the end of the buffer as it was (`ReadShort`); a read of a header leaves
its fields as they were, and the tool goes on where the size they name leads
(`ReadHeaderShort`). Each turn ends with an `fseek` to that place, so that an error that lasts does not
hold the tool forever, but it may restore the block of the header before again.

What may go wrong is in `Faults`, at most `MaxFaults` of them until the file is restored: a read
(`"read"`, of `6unpack` `"short"`) or a write fails, a tool is killed, the archive loses its end or has
a byte changed, a header is cut or not read (`"header"`), a file is in the way. The user calls a tool again when it failed or was killed.

## 3. Model checking

| Run | Bounds | Shows |
|---|---|---|
| `rle_stream` | words 0..3, marker 2, all 5461 chunks of up to 6 words | round trip, read position, stream length for odd and even numbers of words, longest possible runs, and the promise of `Codec`, including that the stream ends |
| `rle_bound` | as `rle_stream` | **violation**: the bound of `getCompressBound()` |
| `data_transfer` | chunk size 2, sizes 0..6, two calls, with and without OpenMP, both transports | fresh results, enough room, disjoint iterations, what an accepted list restores, the promise of `Codec` on both calls |
| `data_throw` | sizes 0..5, lossy transport | **violation**: the documented exception |
| `groups` | two engines in both orders, one of half floats; lines of 0, 1, 5, 12582913 and 12582917 pixels, areas of 29 x 53 and 683 x 3, with and without alpha; three processors, two calls, instances made anew in between (35,254 states) | groups are disjoint and restored by the engine of their name from their own streams of this call; at most the last pixel is missing; by how much a stream may exceed its buffer |
| `groups_lost` | as `groups` | **violation**: the output buffer is written in full |
| `swizzle` | pixels with no bit, one, all but one, and all bits; ten engine and layout pairs; two passes | every bit a lossless engine keeps, the significant bits of the lossy one, no drift in the second pass |
| `registry` | eight libraries: copies, a name clash, transfer engines, three unusable ones; three default searches, three directories | names stay resolved, each usable library is loaded once and by every search, each `choose` returns an engine no other one beats |
| `handles` | two handles (compressor and decompressor, or downloader and uploader), three instances, two runs each, plugins loaded in between | instances are owned by one handle, results reach the plugin that made them, `setup()` tells for which engine a handle can be used, downloads are finished where they began (120,004 states) |
| `downloader_setup` | downloader and uploader | **violation**: the result of `Downloader::setup()` |
| `data_engines` | three length and three distance values, so nine byte values; all chunks of up to seven bytes of two values, runs of up to ten, and words that come again after 0, 19..22, 98 or 99 bytes, 0, 1, 2 or 9 before the end; two hashes, two rooms, both levels, two orders of registration; every single damage of a run's stream (287,880 states) | both codecs restore every chunk and stay inside their buffers, also for damaged streams; both processes recommend and mean the same engine; the promise of `Codec` |
| `archives` | bytes 0..3, files of up to 16 bytes among them runs and magic letters, blocks of 2 and 7 bytes; any two faults, among them reads and writes of each tool (1,503,646 states) | which faults cannot lose the file, and which leave a restored file the original from its beginning |

Why the bounds are enough.

* `RLE`: with `MaxWord = 3` a counter saturates after three equal words, so six words hold a
  saturated run followed by a second one, by a pair, by a single word and by markers; the
  marker 2 is also a run length. The proofs cover all other values.
* `DataCompressor`: sizes 0..6 with chunks of two bytes give no chunk, a single chunk (full
  and partial), exact multiples and partial last chunks, three iterations in any order, and
  a second call with more, fewer or as many chunks. Two calls suffice because a call only
  depends on the buffers left by the one before it.
* `PixelGroups`: the numbers give an empty and a one-pixel group, two groups of which the
  second is larger, fewer groups for half the word size, a width that a `float` rounds down
  so that the last pixel is lost, and one above 2^23 that it rounds up; each after each on
  one instance, and on an instance of another engine.
* `Swizzle`: each map moves each bit by itself and adds constants, so pixels of one bit and
  of all but one show where each bit goes, and whether it survives when the others are set.
* `PluginRegistry`: the libraries include each reason for refusing one, and the lists make
  every pair of usable ones load in both orders.
* `PluginHandles`: three instances allow both handles to own one and either to be set up
  anew or reallocated; two runs tell a result from the one before it.
* `DataEngines`: with nine byte values the longest literal run has three bytes, the longest
  match 12, and offsets end at 27, at level 2 of FastLZ at 105. All binary
  chunks of seven bytes hold every pattern of literals and matches that a three-byte hash
  tells apart, each with every content of an uninitialised slot; the gaps put a match
  on both sides of each offset limit, at every length, and the ends put it at the end of the chunk
  and before it. The zeros between them reach the split matches of level 1 and
  several length bytes of level 2.
* `Archives`: a file of seven runs over one block or a part of it; 14 and 12 bytes over two; the short
  files meet empty archives and blocks too short to be compressed; magic letters and zero
  bytes stand where a header may be looked for. Two faults suffice to damage the archive
  and to fail or kill the tool that meets it.

Deadlock is checked in every run; a system that has finished stutters explicitly
(`Done`, `Stopped`, `Finished`), and a registry can always be asked to load.

Fairness. `RLE` assumes weak fairness of each loop, `DataCompressor` and `PixelGroups` of the
transfer as a whole (`Transfer`): the calling thread runs, and an OpenMP loop returns only
when all its iterations have run. `DataEngines` assumes it of the running call (`Run`), for the same
reason. `PluginRegistry` assumes that a search goes on
(`LoadNext`): it is a loop of the calling thread. Nothing obliges the application to
compress again, to load, or to use its handles, so those actions are not fair;
`PluginHandles`, whose every step is the application's, and `Archives`, whose user may give up,
have no fairness at all.

### Divergences found

* `getCompressBound()` of the RLE engine (`data/CompressorRLE.h:38`) is `2 * size`, documented
  as an upper bound. An odd number of words with single markers at the odd places needs
  one word more; the smallest case is a chunk of one marker. A full chunk of 8 KB always
  has an even number of words and fits (`OutputBound`), so only a last chunk is affected. The
  pixel engines reserve room by the same rule (`compressorRLE.ipp:306-308`) and two
  bytes more, which the larger group of an uneven partition can use up: the second of the
  two groups of 2049 pixels has 1025 words per stream, which may take 2051 bytes, and room
  for 2050. A group can have two pixels more than its share, as the width is rounded and so
  is each product: one of 22 groups of 9,227,501 pixels, or of 29 groups of 6,081,762.
  `StreamNearlyFits` therefore allows three words, and `NearlyFits` proves that this is enough.
* `decompress()` is documented to throw when the chunk size does not match the input. It
  accepts one chunk less than needed when the size is not a multiple, and one more when it
  is (`data/Compressor.cpp:93`).
* Decompression of pixels is to use its output fully (`plugins/compressor.h:507`), but the
  product of the rounded width and the number of groups can fall short: 7173 pixels in
  seven groups lose the last one, and so do larger images. Above 2^23 pixels
  the end may also be passed by one pixel (`compressorRLE.ipp:227`).
* `RGB10_A2` and `BGR10_A2` are registered for the plain engine with the flag that alpha may
  be dropped (`compressorRLE4B.cpp:40`). Dropping it drops the fourth byte: two bits
  of alpha and six of a colour (`plugins/compressorTokens.h:40`). `Lossless`
  excepts this pair; no run is about it.
* A downloader whose instance failed to allocate reports success when it is set up again for
  the same name (`downloader.cpp:53`, against `downloader.h:100`).
* Uploaders allocate with `newCompressor` and release with `deleteDecompressor`
  (`uploader.cpp:60`, `:41`); downloaders use the pair of decompressors
  (`downloader.cpp:86`). The interface pairs them otherwise (`plugins/compressor.h:396`,
  `:413`, `:436`). The engines here do not tell the difference,
  and no order of calls changes the pair, so no property is about it.
* `Downloader::choose` is documented to return the engine with the highest speed
  (`downloader.h:73`), but compares the ratio first (`downloader.cpp:164`). The model
  follows the code. `ChooseBest` asks what both agree on: no other engine that fits is at least as good
  in both and better in one (`Beats`). In the run `registry` an engine of ratio 2 and
  speed 6 is chosen before one of ratio 4 and speed 8, which the header promises; no run
  states that promise.
* The single result of a serial build cannot be told from a list of one chunk, nor two
  copies of it from two chunks (`data/Compressor.cpp:86`).
* `lzf` takes a read error for the end of the file (`liblzf/lzf.c:182`), reports success and
  removes the input: `NothingLost` excepts failing reads of `lzf`.
* `6pack` checks none of its writes (`fastlz/6pack.c:192`). `6unpack` checks no read (`6unpack.c:148`,
  `:241`, `:331`, `:373`) and no write (`:334`, `:403`), and reports success unless the checksum of a file entry is wrong: a block whose read or
  write fails is missing from the copy, and where a header is not read the block before
  may be restored twice. It also writes stored bytes before it has verified them (`:334`). `NothingLost`
  says of a restored file only what holds if nothing failed but a read of `6pack`;
  `InOrder` excepts headers that are cut or not read, writes that fail, and
  a file that is in the way. The tools are in no build and their documents promise nothing about it.

## 4. Proofs

`RLE_proofs` proves for every `MaxWord >= 3`, every marker and every set of inputs of any
length (assumption `RLEAssumption`):

* `TypeCorrect`: `Spec => []TypeOK`;
* `Inductive`: `Spec => []IInv`;
* `Lossless`: `Spec => []RoundTrip`;
* `ReadsExactly`: `Spec => []StreamConsumed`;
* `BoundedStream`: `Spec => []OutputBound`;
* `Unsplit`: `Spec => []RunsMaximal`;
* `ImplementsCodec`: initial states and steps of `RLE` are those of `Codec`.

None of the safety properties is inductive. `IInv` adds:

* `CutsInv`: the history cuts divide stream and input into units, and each unit
  `Describes` its input words: one plain word, or marker, word and count;
* `EncoderInv`: the last `same` words looked at equal `last`, and are what is missing in
  the units;
* `DecoderInv`: the decoder stands at a cut, `left` words before the corresponding input
  position, and those words equal `token`;
* `BoundInv`: the stream exceeds twice its words by at most one, by one only after an odd
  number of words, and not at all while a run of markers is pending. The parity is what
  makes the bound inductive: a single marker costs three words for one, but the run after
  it cannot be a run of single markers again.

The lemmas `WriteCuts` (a write appends one or two units), `EncoderStep`, `DecoderStep`
and `BoundStep` carry the induction step; there is one step per action in each theorem.

`RunsMaximal` has an invariant of its own, `RunsInv`: besides the property itself, `OpenInv`
says that the last unit written is not of the word that is being counted, unless it is as long
as a word can count. A write appends one unit or the two halves of a pair (`WriteUnits`), and
both parts together survive it (`WriteRuns`); the next word differs from the last unit's,
or the counter was full.

`Swizzle_proofs` proves for every set of pixels and any number of passes
(`SwizzleAssumption`):

* `TypeCorrect`: `Spec => []TypeOK`, so that no map moves a bit out of a word or a pixel;
* `LosslessAlways`: `Spec => []Lossless`;
* `MostSignificantAlways`: `Spec => []MostSignificant`;
* `Stable`: `Spec => NoDrift`.

The invariant `IInv` says that the pixel is `Pass(engine, DropsAlpha, original)` once it was
decompressed, however often: the bits `Kept` of the original and the bits `Filled`, and that
the words are those of the pixel. It is inductive because a second `Pass` changes
nothing (`PassTwice`). `PassAlpha` and `PassNoAlpha` show that each engine computes `Pass`,
from one lemma per pair of maps, in which each bit is a linear question, and `SplitJoin`
for the words in between.

`PluginRegistry_proofs` proves for any files, libraries and searches (`RegistryAssumption`):

* `Inductive`: `Spec => []IInv`, where `IInv` adds to `PluginsDistinct` that the search is a
  list of files;
* `Distinct`: `Spec => []PluginsDistinct`;
* `Stable`: `Spec => FindStable`;
* `ChoosesBest`: `Spec => []ChooseBest`.

Each step leaves the list alone or appends one library whose first engine is not in it
(`StepAppends`). `FindPlugin` is the plugin at the least of the places of a name
(`FirstFound`; that there is a least one, `Least`, is well-founded induction), and that
place stays when the list grows at its end (`FirstPlace`, `StaysFound`).

The three `choose` functions are folds over the engines. A fold over a set of places is
defined by a recursive function of the sets; that there is such a function is shown by a least
counterexample (`LoopExists`), a kind of induction that needs no operator as parameter. `LoopWins`
then says of any turn that keeps the better of two that the loop over the list ends with an
engine that no other one beats. `BestFound`, `SmallestFound` and `FastestFound` are its three uses, one
for each measure: downloaders weigh the ratio and then the speed (so that none beats
the one chosen, `UnbeatenFound`), and uploaders begin with
a speed of zero, so that one of speed zero is never chosen.

`PluginHandles_proofs` proves for any number of handles of any kinds, any libraries,
requests and bounds (`HandlesAssumption`, `RegistryAssumption`):

* `HandlesInductive`: `HandlesSpec => []HInv`;
* `HandlesTypeCorrect`, `OwnedAlways`, `SameImplementationAlways`, `TrueOnSuccessAlways`,
  `FinishFindsAlways`: `HandlesSpec => []P` for `TypeOK`, `Owned`, `SameImplementation`,
  `TrueOnSuccess` and `FinishFindsDownload`.

`HInv` adds to these that instances are numbered up to `made` (`Types`), and that the plugin of a handle or of a
result is the one its name is found in *now* (`Named`, `Results`). The last part is why
`SameImplementation` holds: compressor and decompressor look the name up at different
times, and only `StaysFound` makes the two plugins equal. An operation does one of three
things to its handle: nothing, a change of the instance in place (`InPlace`), or a
replacement (`Replaced`): the instance is deleted and another one may be allocated
(`Effects`). `OwnersKept`, `NamedKept` and `DownloadsKept` are then about these three and not
about the branches of `setup()`; a handle that owes a `finish()` is never replaced.

`DataCompressor_proofs` proves for every chunk size, every bound of the engine, any number
of bytes and calls, and every order of the iterations (`DataAssumption`):

* `Inductive`: `Spec => []IInv`;
* `Types`, `FreshResults`, `EnoughRoom`, `RaceFree`, `TailAccepted`: `Spec => []P` for `TypeOK`,
  `ResultsFresh`, `RoomForChunk`, `NoDataRaces` and `AcceptedTail`;
* `ImplementsCodec`: over a reliable transport the initial states and steps are those of `Codec`.

`IInv` adds to the type what is known at each stage: `Compressing` (a reserved buffer has the
room of its bound, a finished one holds the bytes of its iteration), `Compressed` (so does
every buffer of a returned list), `Handed` (the list handed to `decompress` is the
returned one up to its end, and perhaps its last chunk again), `Restoring` (the list was
consistent, and the bytes of finished iterations are written), `RightBytes` (what a parallel
build's list restores is right wherever it is written) and `Untouched` (nothing is before
the loop). The chunk arithmetic is in lemmas of its own: `Quotients` and `RoundedUp` say what the two
divisions of the code mean, `Ranges`, `RangesApart` and `ChunksCover` that the iterations tile the
data, `ConsistentCovers` that either accepted count covers all full chunks. `RightChunk` is
the argument why a surplus chunk does no harm: the count is only accepted when its
iteration has no byte. The refinement needs `RInv` besides: over a reliable transport the list
handed over *is* the returned one, so nothing is thrown and the whole is restored.

`DataEngines_proofs` proves for formats with fields of any size, any hash functions, contents of
the hash table, chunks, rooms, engines, ratings and orders of registration (`LZ77Assumption`,
`DataEnginesAssumption`):

* `Inductive`: `Spec => []IInv`;
* `Types`, `LosslessEngines`, `BoundSuffices`, `OutputContained`, `SameEngine`: `Spec => []P` for
  `TypeOK`, `RoundTrip`, `FitsBound`, `Contained` and `AgreedEngine`;
* `ImplementsCodec`: initial states and steps are those of `Codec`.

The argument for the round trip is that of cuts again. A stream is `Coded` if there are places
in it, each with the position of the chunk reached there, such that what stands between two
neighbours is a code for the bytes between their positions: a run of literals, or a copy of bytes
that come before. Positions of the compressor are about the chunk alone, so nothing about
the hash table is needed but that its slots hold positions; whatever candidate it gives,
the comparisons of the code make the copy right (`EqualCopies`, `LzfMatchLength`). `IInv` has a
part for each stage: `CoderInv` (what is written are codes for what was read, and an open
run of literals), `WrittenInv` (the stream is whole), `SinkInv` (what the decompressors do with any
stream at all), `ReliableInv` (with an undamaged one they go from cut to cut), `RoomInv` (LZF's
tests of the room hold for what is left), `EngineInv` (both sides use one engine) and
`SourceInv`. Each code is shown to be written (`LevelOneBytes`, `LevelTwoBytes`, `BackCodeBytes`)
and read back (`LzfDecoded`, `MatchOneDecoded`, `MatchTwoDecoded`) with arithmetic on quotients
and remainders, including matches longer than one code and distances behind the near window.

The size of the stream follows from `Thrifty`: a match never takes more bytes than it stands for,
so only full runs of literals cost a byte. That a far match of level 2 is no exception needs
`Lengths >= 5 \/ Highs <= 6` (8 and 32 in the code). `Enough` is n + n/32 + 4 bytes: the proof
found that one byte less, which TLC's small fields never need, is not enough for fields of
the size of the code. `AgreedEngine` rests on ratings that differ (`DataEnginesAssumption`), as
those of the eleven engines of the data registry do: with two equal ones the order of registration would decide.

`PixelGroups_proofs` proves for any engines, orders of registration, requests, numbers of
processors and calls, and every order of the groups (`GroupsAssumption`):

* `Inductive`: `Spec => []IInv`;
* `ResultsAreOwn`: what the application collects are streams of its last `compress()`, by the
  engine it asked for, however long the vector of the instance is from earlier calls;
* `ImplementsCodec`: initial states and steps are those of `Codec`;
* `BuffersInductive`: `Spec => []BufferInv`;
* `Apart`, `Types`, `OwnResults`, `NearlyFits`: `Spec => []P` for `GroupsApart`, `TypeOK`,
  `ResultsOfThisCall` and `StreamNearlyFits`.

`IInv` follows the streams of a call through the vector of the instance (`Compressing`), the
list handed over and the groups already written (`Restoring`); `Instances` says that an
instance is of the engine of its name, since only registered names are asked for
(`Found`), and `Called` that the groups are one of the `Splits`. `StreamsApart` is why a
group cannot disturb another one, `GroupsOfCall` why the decompressor, which only has the
number of streams, divides the pixels as the compressor did. For these theorems the bounds of the
groups are not expanded: they hold whatever the rounding does, because both sides do the same.

The others need the bounds. A float is a number of 24 digits times a power of two, so the width
is `FloatWidth`: its digits w, and d = 2^k, the power they are scaled by. `Products` shows that i * w has
at most 30 digits, and never more digits too many than the width has behind the point. Rounding
keeps the order of two numbers (`FloatMonotonic`) and never passes a multiple of a power of two that is at
least the distance of two floats (`FloatOf`); so the bounds are ordered, the first is zero, and the last
is n, or n - 1, or above 2^23 pixels n + 1 (`BoundsOrdered`). `GroupSizes` bounds the size of a group by
the share and two pixels, and by the share and one if the remainder is less than half the number of
groups: just what `ReserveFits` needs, where a half of that remainder adds a word to the room.
Powers of two are known to the backends one by one only, so `Doubles` lists them.

`BufferInv` adds to the types that the streams of finished groups are not empty (`Filled`), and that a
group still to be compressed has the room of this call (`Roomy`): packing, which another group
may do meanwhile, cuts off the buffers of its own group only, and a next call reserves again.

`Archives_proofs` proves for any file, sizes of blocks, kinds and number of faults, and any order
in which the user calls the tools again (`ArchiveAssumption`; `ArchivesAssumption` says that no
file is the sequence that stands for a missing one or for another one of its name):

* `Inductive`: `Spec => []IInv`;
* `Types`, `Kept`, `Ordered`: `Spec => []P` for `TypeOK`, `NothingLost` and `InOrder`.

An archive of `lzf` is a concatenation of records, `Cat(s, n)[j]` for the first j blocks of n bytes
(`CatIs`, `WholeIs`). `IInv` says of each tool how many blocks it has read and written:

* `Packing`: `compress_fd` has read up to block j, and the archive is `Cat(s, n)[j]`;
* `Unpacking`: `uncompress_fd` is behind the j-th record and holds in `over` at most two bytes,
  which are the next ones of the archive. `UncompressTurn` shows that a turn leads to the next
  record: with them the bytes it reads are a header (`HeadRead`), the bytes it keeps are what the
  longer header takes from the block (`KeptAt`), and what it decodes is the next block (`Decoded`),
  whether it compressed or not, if the archive was only cut;
* `LzfInv`, between two runs: the file, or the beginning of a whole archive, and the whole one
  if it was not cut. That is what makes `NothingLost` hold when the tool is killed between its
  last write and the removal of its input.

An archive of `6pack` is a file entry and a chunk for each block (`Good`). `Left6` says which of its
chunks a damaged one still has and how far their bytes and fields agree (`Matches`), `Verified` what
`6unpack` has written while its file is open and no write failed, `Copied` what it has written in all: whole blocks, and
behind them at most a part of one, which is where a stored block that is written before it is verified
goes. `Behind(s, n, k) = k * n` for such a block is why `InOrder` can cut the copy at a
multiple of the block. `SixTypes` holds in spite of stale headers: no value of theirs makes the tool
write without an open file. `SixTurn` is about a turn with
whatever header and bytes were read; `SixReadChunk`, `SixReadShort` and `SixReadHeaderShort` then say
what a read or write that fails hands to it. `SixWhole` says that nothing stops it if nothing happened to the archive.

Only model-checked, never proved: liveness (that streams, transfers, searches and calls end), which
needs fairness and `ENABLED`; both are out of the prover's reach. The invariants of every
passing run are proved.

## 5. Not modelled

* `compressorTurboJPEG.cpp` is in no build (it is missing from
  `src/pression/CMakeLists.txt`).
* ZSTD and Snappy are libraries outside the repository; the engines that wrap them are
  a call each, and they are only names in `DataEngines`.
* Of liblzf and FastLZ: the variants of other configurations (`ULTRA_FAST`, `STRICT_ALIGN`, another
  hash size), copies of several bytes at once, and assertions of the caller's pointers.
* Of the command line tools: options, standard input as argument, progress bars, the benchmark, the
  detection of an archive by its magic bytes, and damage of an `lzf` archive other than a
  lost end. Two different byte sequences never have the same checksum here.
  In a chunk of `6pack` no bytes look like a header, so that a tool whose place in the archive is
  wrong finds none inside a chunk; and its `fseek`, `ftell` and the read of the magic bytes do not fail.
* `plugins/*.h` are declarations and tokens; what they promise is stated as properties.
* What the plugins do with OpenGL (`download`, `upload`), which no source here implements.
* The benchmark `tests/perf/dataCompressor.cpp`, logging, and the byte counters.
* Uploads and synchronous downloads of the handles, which change no state here. So nothing
  of the model waits for `IsGood` of an uploader; it only says what its `setup()` means.
* lunchbox (buffers, DSO loading) and OpenMP are external and modelled from their use.
