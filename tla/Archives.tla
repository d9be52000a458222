-------------------------------- MODULE Archives ---------------------------------
(****************************************************************************)
(* A file is archived and restored by the tools of one of the two vendored   *)
(* codecs, and things go wrong: reads and writes fail, a tool is killed, the *)
(* archive is damaged, the user tries again.  No build of this repository    *)
(* contains the tools.                                                       *)
(****************************************************************************)
EXTENDS Archive, TLC

CONSTANTS Small, Name, End, Junk  \* see SixPack

ASSUME ArchivesAssumption ==
  /\ Small \in Nat
  /\ \A file \in {Absent, Other} : file \notin Seq(Nat \cup {Name, End, Junk})
  /\ Absent # Other

VARIABLES
  codec,   \* "lzf" or "6pack"
  over,    \* see LzfFile
  open,    \* see SixPack
  memory

own  == <<codec, over, open, memory>>
vars == <<goal, mode, original, disk, block, at, faults, own>>

Lzf == INSTANCE LzfFile
Six == INSTANCE SixPack

Init ==
  /\ codec \in {"lzf", "6pack"}
  /\ goal = "pack" /\ mode = "none" /\ block \in Blocks /\ at = 0 /\ faults = {}
  /\ original \in Contents
  /\ disk = [name \in Names |-> IF name = "plain" THEN original ELSE Absent]
  /\ over = <<>> /\ open = FALSE /\ memory = Six!Fresh

\* Once the file is restored nothing has to happen.
Stopped == mode = "none" /\ UNCHANGED vars

Next ==
  \/ codec = "lzf" /\ Lzf!Next /\ UNCHANGED <<codec, open, memory>>
  \/ codec = "6pack" /\ Six!Next /\ UNCHANGED <<codec, over>>
  \/ Stopped

Spec == Init /\ [][Next]_vars

------------------------------------------------------------------------------
(* Properties *)

\* Every variable has its type.
TypeOK ==
  /\ codec \in {"lzf", "6pack"} /\ goal \in {"pack", "unpack", "done"}
  /\ mode \in DOMAIN Lzf!Input \cup {"none", "6pack", "6unpack"}
  /\ original \in Contents /\ block \in Blocks /\ at \in Nat /\ faults \subseteq Faults
  /\ disk["plain"] \in Seq(Byte) \cup {Absent}
  /\ codec = "lzf" => /\ disk["packed"] \in Seq(Byte) \cup {Absent}
                      /\ over \in Seq(Byte) /\ Len(over) <= Lzf!TypeOne - Lzf!TypeZero
  /\ open \in BOOLEAN /\ (open => disk["copy"] \notin {Absent, Other})

\* The archive lzf makes of the file with blocks of n bytes.
Whole(n) ==
  LET blocks == [k \in 1 .. (Len(original) + n - 1) \div n |->
                   LET hi == IF k * n > Len(original) THEN Len(original) ELSE k * n
                   IN SubSeq(original, (k - 1) * n + 1, hi)]
  IN FlattenSeq([k \in DOMAIN blocks |-> Lzf!Record(blocks[k])])

\* Whenever a tool is killed, fails to write or is called again: lzf, which
\* removes its input, leaves the file or a whole archive of it, unless a read
\* failed (an error it takes for the end of the file) or the archive lost its
\* end. 6unpack restores the file as long as nothing goes wrong but a read of
\* 6pack, which says so; 6unpack looks at none of its own reads and writes, and
\* may end well when one fails. It never touches a file that exists.
NothingLost ==
  /\ codec = "lzf" /\ faults \cap {"read", "cut"} = {} =>
       disk["plain"] = original \/ \E n \in Blocks : disk["packed"] = Whole(n)
  /\ codec = "6pack" /\ goal = "done" /\ faults \subseteq {"read"} =>
       disk["copy"] = original
  /\ "exists" \in faults => disk["copy"] = Other

\* Whatever is cut off or changed in an archive, the bytes restored from it are
\* those of the file from its beginning: for lzf, as long as it is only cut;
\* for 6unpack, but for a last block that was stored and is written before it
\* is verified. Reads of 6unpack that fail behind a header change nothing of
\* that. A header that was cut off or not read does: the fields missing are
\* those of the chunk before, which may be restored twice, or be taken for the
\* next one. So does a failing write of 6pack or 6unpack, which check none.
InOrder ==
  /\ codec = "lzf" /\ "read" \notin faults =>
       \A name \in {"plain", "copy"} :
         disk[name] = Absent \/ IsPrefix(disk[name], original)
  /\ /\ codec = "6pack" /\ faults \cap {"header", "write", "exists"} = {}
     /\ disk["copy"] # Absent
     => LET sure == IF "changed" \notin faults THEN Len(disk["copy"])
                    ELSE Len(disk["copy"]) - (Len(disk["copy"]) % block)
        IN IsPrefix(SubSeq(disk["copy"], 1, sure), original)
================================================================================
