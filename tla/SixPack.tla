--------------------------------- MODULE SixPack ---------------------------------
(****************************************************************************)
(* The tools 6pack and 6unpack.  An archive is a sequence of chunks behind   *)
(* the magic bytes: a file entry, and a chunk of data for each block.  A     *)
(* chunk whose end is lost has fewer bytes or fewer fields of its header.    *)
(* Two byte sequences have the same checksum only if they are equal, and     *)
(* bytes inside a chunk do not look like its header.                         *)
(*                                                                           *)
(* Besides what Archive names, faults holds "short" when a read of 6unpack   *)
(* behind a header returned too few bytes.                                   *)
(****************************************************************************)
EXTENDS Archive, TLC

CONSTANTS
  Small,  \* blocks of fewer bytes are stored (32)
  Name,   \* the name of the file
  End,    \* what ends the code of a block
  Junk    \* a byte nobody wrote

VARIABLES
  open,    \* 6unpack: f and output_file are set
  memory   \* 6unpack: what its variables and buffers hold

Chunk(id, options, bytes, extra) ==
  [id |-> id, options |-> options, size |-> Len(bytes), checksum |-> bytes,
   extra |-> extra, bytes |-> bytes]

\* The file entry; its bytes are the size of the file and its name.
Entry == Chunk(1, 0, <<Len(disk["plain"]), Name>>, 0)

\* FastLZ: what it makes of a block, and what its decompressor makes of that.
Packed(bytes) == Append(bytes, End)
Unpacked(code) == IF code # <<>> /\ Last(code) = End THEN Front(code) ELSE <<>>

\* A block as a chunk of data.
Data(bytes) ==
  IF Len(bytes) < Small THEN Chunk(17, 0, bytes, Len(bytes))
  ELSE Chunk(17, 1, Packed(bytes), Len(bytes))

NoHeader == [id |-> 0, options |-> 0, size |-> 0, checksum |-> <<>>, extra |-> 0]
Fresh == [header |-> NoHeader, buffer |-> <<>>, code |-> <<>>, size |-> 0]

\* pack_file() refuses to overwrite the archive. Writes are not checked.
Pack ==
  /\ mode = "none" /\ goal = "pack" /\ disk["packed"] = Absent
  /\ mode' = "6pack" /\ at' = 0 /\ block' \in {n \in Blocks : n >= Small}
  /\ \/ disk' = [disk EXCEPT !["packed"] = <<Entry>>] /\ UNCHANGED faults
     \/ disk' = [disk EXCEPT !["packed"] = <<>>] /\ Fault("write")
  /\ UNCHANGED <<goal, original, open, memory>>

Return(ok, next) ==
  /\ mode' = "none" /\ goal' = IF ok THEN next ELSE goal

\* One turn of pack_file_compressed(); bytes that could not be read are missed
\* at its end.
PackBlock ==
  /\ mode = "6pack"
  /\ \/ /\ NextBlock = <<>>
        /\ Return(TRUE, "unpack") /\ UNCHANGED <<disk, at, faults>>
     \/ Fault("read") /\ Return(FALSE, goal) /\ UNCHANGED <<disk, at>>
     \/ /\ NextBlock # <<>>
        /\ \/ disk' = Write("packed", <<Data(NextBlock)>>) /\ UNCHANGED faults
           \/ Fault("write") /\ UNCHANGED disk
        /\ at' = at + Len(NextBlock)
        /\ UNCHANGED <<goal, mode>>
  /\ UNCHANGED <<files, open, memory>>

\* The user removes an archive that is not complete.
Discard ==
  /\ mode = "none" /\ goal = "pack" /\ disk["packed"] # Absent
  /\ disk' = [disk EXCEPT !["packed"] = Absent]
  /\ UNCHANGED <<goal, mode, files, at, faults, open, memory>>

\* What is left of a header that is cut off, or read in part.
Parts == {{}, {"id"}, {"id", "options", "size"}}
Part(chunk, kept) ==
  [field \in (DOMAIN chunk \cap kept) \cup {"bytes"} |->
     IF field = "bytes" THEN <<>> ELSE chunk[field]]

\* The archive is damaged while no tool runs: it ends before a chunk, in its
\* bytes or in its header, or a byte of its data is another one.
Damage ==
  /\ mode = "none" /\ goal = "unpack"
  /\ \E k \in DOMAIN disk["packed"] :
       LET chunk == disk["packed"][k]
           Kept(last) == [disk EXCEPT !["packed"] = SubSeq(@, 1, k - 1) \o last]
       IN \/ Fault("cut") /\ disk' = Kept(<<>>)
          \/ /\ Fault("cut")
             /\ \E n \in 0 .. Len(chunk.bytes) - 1 :
                  disk' = Kept(<<[chunk EXCEPT !.bytes = SubSeq(@, 1, n)]>>)
          \/ /\ Fault("header")
             /\ \E kept \in Parts : disk' = Kept(<<Part(chunk, kept)>>)
          \/ /\ Fault("changed")
             /\ \E n \in DOMAIN chunk.bytes :
                  disk' = [disk EXCEPT !["packed"][k].bytes[n] = Junk]
  /\ UNCHANGED <<goal, mode, files, at, open, memory>>

\* A file of that name already exists where the archive is unpacked.
Exists ==
  /\ mode = "none" /\ goal = "unpack" /\ disk["copy"] = Absent /\ Fault("exists")
  /\ disk' = [disk EXCEPT !["copy"] = Other]
  /\ UNCHANGED <<goal, mode, files, at, open, memory>>

Unpack ==
  /\ mode = "none" /\ goal = "unpack" /\ mode' = "6unpack"
  /\ at' = 0 /\ open' = FALSE /\ memory' = Fresh
  /\ UNCHANGED <<goal, files, disk, faults>>

\* A header as it is read over what the memory for it holds.
Header(chunk, stale) ==
  [field \in DOMAIN NoHeader |->
     IF field \in DOMAIN chunk THEN chunk[field] ELSE stale[field]]

\* What fread() leaves in a buffer: behind the bytes it reads those of before.
Over(bytes, before) == bytes \o SubSeq(before, Len(bytes) + 1, Len(before))

\* Memory for n bytes, fresh or used before.
Room(before, n) == IF n > Len(before) THEN [k \in 1 .. n |-> Junk] ELSE before

\* Mutant of UnpackEntry: f is not reset when the file exists.
UnpackEntryKept(chunk, head, written) ==
  LET buffer == Over(Read(chunk.bytes, 0, head.size), Room(memory.buffer, head.size))
  IN /\ memory' = [memory EXCEPT !.header = head, !.buffer = buffer,
                                 !.size = IF buffer = <<>> THEN 0 ELSE buffer[1]]
     /\ IF SubSeq(buffer, 1, head.size) # head.checksum
        THEN Return(FALSE, goal) /\ open' = FALSE /\ UNCHANGED disk
        ELSE /\ UNCHANGED <<goal, mode>>
             /\ open' = written
             /\ disk' = IF open' /\ disk["copy"] = Absent THEN [disk EXCEPT !["copy"] = <<>>] ELSE disk

\* A file entry: the file before is closed, this one created unless it exists.
UnpackEntry(chunk, head, written) ==
  LET buffer == Over(Read(chunk.bytes, 0, head.size), Room(memory.buffer, head.size))
  IN /\ memory' = [memory EXCEPT !.header = head, !.buffer = buffer,
                                 !.size = IF buffer = <<>> THEN 0 ELSE buffer[1]]
     /\ IF SubSeq(buffer, 1, head.size) # head.checksum
        THEN Return(FALSE, goal) /\ open' = FALSE /\ UNCHANGED disk
        ELSE /\ UNCHANGED <<goal, mode>>
             /\ open' = (written /\ disk["copy"] = Absent)
             /\ disk' = IF open' THEN [disk EXCEPT !["copy"] = <<>>] ELSE disk

\* Stored data is written while its checksum is computed; the checksum is that
\* of the bytes read, whether they were written or not.
UnpackStored(chunk, head, written) ==
  LET bytes == Read(chunk.bytes, 0, head.size)
  IN /\ memory' = [memory EXCEPT !.header = head, !.buffer = Over(bytes, @)]
     /\ open' = (bytes = head.checksum)
     /\ disk' = IF written THEN Write("copy", bytes) ELSE disk
     /\ UNCHANGED <<goal, mode>>

\* Mutant of UnpackPacked: the checksum is not compared.
UnpackPackedAnyway(chunk, head, written) ==
  LET code == Over(Read(chunk.bytes, 0, head.size), Room(memory.code, head.size))
      bytes == Unpacked(SubSeq(code, 1, head.size))
  IN /\ memory' = [memory EXCEPT !.header = head, !.code = code]
     /\ open' = (Len(bytes) = head.extra)
     /\ disk' = IF open' /\ written THEN Write("copy", bytes) ELSE disk
     /\ UNCHANGED <<goal, mode>>

\* Compressed data is verified before it is decompressed and written.
UnpackPacked(chunk, head, written) ==
  LET code == Over(Read(chunk.bytes, 0, head.size), Room(memory.code, head.size))
      bytes == Unpacked(SubSeq(code, 1, head.size))
  IN /\ memory' = [memory EXCEPT !.header = head, !.code = code]
     /\ open' = (SubSeq(code, 1, head.size) = head.checksum /\ Len(bytes) = head.extra)
     /\ disk' = IF open' /\ written THEN Write("copy", bytes) ELSE disk
     /\ UNCHANGED <<goal, mode>>

UnknownMethod(head) ==
  /\ memory' = [memory EXCEPT !.header = head] /\ open' = FALSE
  /\ UNCHANGED <<goal, mode, disk>>

\* One turn of unpack_file() with the header and the chunk as they were read.
Turn(chunk, head, written) ==
  \/ head.id = 1 /\ head.size # 0 /\ UnpackEntry(chunk, head, written)
  \/ /\ head.id = 17 /\ open /\ memory.size # 0
     /\ \/ head.options = 0 /\ UnpackStored(chunk, head, written)
        \/ head.options = 1 /\ UnpackPacked(chunk, head, written)
        \/ head.options = 2 /\ UnknownMethod(head)
  \/ /\ ~(head.id = 1 /\ head.size # 0)
     /\ ~(head.id = 17 /\ open /\ memory.size # 0)
     /\ memory' = [memory EXCEPT !.header = head]
     /\ UNCHANGED <<goal, mode, disk, open>>

\* Fields of a header that were not read have the values the same memory had
\* for the header before, or any other.
Stale == {memory.header, NoHeader, [NoHeader EXCEPT !.options = 2]}

\* A read or write that fails may go on to fail.
Fails(kind) == Fault(kind) \/ (kind \in faults /\ UNCHANGED faults)

\* The next chunk is read in full. Nothing tells whether it could be written.
ReadChunk(chunk) ==
  /\ at' = at + 1
  /\ \E written \in BOOLEAN :
       /\ IF written THEN UNCHANGED faults ELSE Fails("write")
       /\ \E stale \in Stale : Turn(chunk, Header(chunk, stale), written)

\* The read behind its header returns too few bytes.
ReadShort(chunk) ==
  /\ at' = at + 1 /\ Fails("short")
  /\ \E n \in 0 .. Len(chunk.bytes) - 1, stale \in Stale :
       Turn([chunk EXCEPT !.bytes = SubSeq(@, 1, n)], Header(chunk, stale), TRUE)

\* The read of its header returns too few bytes. The one after it fails, or
\* begins in the header; the tool goes on at the place that the size it
\* believes in leads to, and finds no header until a later chunk begins.
ReadHeaderShort(chunk) ==
  /\ Fails("header")
  /\ \E kept \in Parts, stale \in Stale :
       LET part == Part(chunk, kept)
           head == Header(part, stale)
       IN /\ at' \in IF head.size = Header(chunk, head).size THEN {at + 1}
                     ELSE at + 1 .. Len(disk["packed"])
          /\ \E bytes \in {<<>>, [k \in 1 .. head.size |-> Junk]} :
               Turn([part EXCEPT !.bytes = bytes], head, TRUE)

\* The loop of unpack_file(), which checks no read and no write.
UnpackChunk ==
  /\ mode = "6unpack"
  /\ \/ /\ at = Len(disk["packed"]) /\ Return(TRUE, "done")
        /\ UNCHANGED <<disk, at, faults, open, memory>>
     \/ /\ at < Len(disk["packed"])
        /\ LET chunk == disk["packed"][at + 1]
           IN ReadChunk(chunk) \/ ReadShort(chunk) \/ ReadHeaderShort(chunk)
  /\ UNCHANGED files

Next ==
  \/ Pack \/ PackBlock \/ Discard \/ Damage \/ Exists \/ Unpack \/ UnpackChunk
  \/ Crash /\ UNCHANGED <<open, memory>>
================================================================================
