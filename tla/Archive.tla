--------------------------------- MODULE Archive ---------------------------------
(****************************************************************************)
(* A file, the archive a command line tool of a vendored codec makes of it,  *)
(* and the file restored: what the tools lzf (module LzfFile) and 6pack,     *)
(* 6unpack (module SixPack) have in common.                                  *)
(*                                                                           *)
(* Bytes are numbers below Base; the magic letters are two of them, so that  *)
(* data can look like a header.  The user calls the tools until the archive  *)
(* is made, and then until it is unpacked.                                   *)
(****************************************************************************)
EXTENDS Integers, Sequences, FiniteSets, SequencesExt

CONSTANTS
  Base,       \* values of a byte (256)
  Contents,   \* the contents of the file
  Blocks,     \* the sizes of the blocks a tool may be told to read
  Faults,     \* what may go wrong: "read", "write", "crash", "cut", ...
  MaxFaults,  \* bound: how much goes wrong until the file is restored
  Absent,     \* the file does not exist
  Other       \* a file of the same name with other content

Byte  == 0 .. Base - 1
Names == {"plain", "packed", "copy"}

ASSUME ArchiveAssumption ==
  /\ Base \in Nat /\ Base >= 4
  /\ Contents \subseteq Seq(Byte)
  /\ \A n \in Blocks : n \in 1 .. Base * Base - 1

VARIABLES
  goal,      \* what the user wants next: "pack", "unpack", "done"
  mode,      \* the tool that runs, "none" if none does
  original,  \* the content of the file in the beginning
  disk,      \* the content of each file; "copy" is also the standard output
  block,     \* the size of the blocks this run reads
  at,        \* how far the running tool has read its input
  faults     \* what went wrong so far

files == <<original, block>>

Fault(kind) ==
  /\ kind \in Faults \ faults
  /\ Cardinality(faults) < MaxFaults
  /\ faults' = faults \cup {kind}

\* What a read of n bytes behind the first ones returns: fewer at the end.
Read(bytes, behind, n) ==
  SubSeq(bytes, behind + 1,
         IF behind + n <= Len(bytes) THEN behind + n ELSE Len(bytes))

\* The next block of the file.
NextBlock == Read(disk["plain"], at, block)

\* The content of a file with something written behind its end.
Write(name, bytes) == [disk EXCEPT ![name] = @ \o bytes]

\* A tool begins to write a file.
Create(tool, name) ==
  /\ mode' = tool /\ disk' = [disk EXCEPT ![name] = <<>>] /\ at' = 0
  /\ block' \in Blocks
  /\ UNCHANGED <<goal, original, faults>>

\* A tool is killed between two writes; what it has written stays.
Crash ==
  /\ mode # "none" /\ Fault("crash") /\ mode' = "none"
  /\ UNCHANGED <<goal, files, disk, at>>
================================================================================
