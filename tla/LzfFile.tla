--------------------------------- MODULE LzfFile ---------------------------------
(****************************************************************************)
(* The tool lzf: run_file() in its three modes, with the blocks, headers and *)
(* read-ahead of compress_fd() and uncompress_fd() byte by byte.             *)
(****************************************************************************)
EXTENDS Archive

VARIABLE over   \* bytes of the next header that were read with this block

TypeZero == 5   \* TYPE0_HDR_SIZE, MIN_HDR_SIZE
TypeOne  == 7   \* TYPE1_HDR_SIZE, MAX_HDR_SIZE
Z == 2
V == 3

Input  == [compress |-> "plain", uncompress |-> "packed", lzcat |-> "packed"]
Output == [compress |-> "packed", uncompress |-> "plain", lzcat |-> "copy"]

\* Two bytes for a size.
Short(n) == <<n \div Base, n % Base>>

\* What lzf_compress() makes of a block: here only a run of one byte is ever
\* shorter; empty if it does not fit.
Packed(bytes, room) ==
  LET code == <<bytes[1]>> \o Short(Len(bytes))
  IN IF Len(code) <= room /\ \A k \in DOMAIN bytes : bytes[k] = bytes[1]
     THEN code ELSE <<>>

\* lzf_decompress(), empty if the code is damaged.
Unpacked(code) ==
  IF Len(code) = 3 THEN [k \in 1 .. code[2] * Base + code[3] |-> code[1]] ELSE <<>>

\* A block in the archive: compressed if that saves more than the header.
Record(bytes) ==
  LET us == Len(bytes)
      code == Packed(bytes, IF us > 4 THEN us - 4 ELSE us)
  IN IF code # <<>> THEN <<Z, V, 1>> \o Short(Len(code)) \o Short(us) \o code
     ELSE <<Z, V, 0>> \o Short(us) \o bytes

\* run_file(): the user forces it to overwrite what an earlier run has left.
RunFile(m) ==
  /\ mode = "none" /\ disk[Input[m]] # Absent
  /\ goal = IF m = "compress" THEN "pack" ELSE "unpack"
  /\ Create(m, Output[m]) /\ over' = <<>>

\* Mutant of Finish: the input is removed whatever the result.
FinishAlways(ok, written) ==
  /\ mode' = "none"
  /\ disk' = IF mode # "lzcat" THEN [written EXCEPT ![Input[mode]] = Absent] ELSE written
  /\ goal' = IF ~ok \/ mode = "lzcat" THEN goal
             ELSE IF mode = "compress" THEN "unpack" ELSE "done"
  /\ UNCHANGED <<files, at, over>>

\* The end of run_file(), with the last bytes written: the input is removed
\* after a success.
Finish(ok, written) ==
  /\ mode' = "none"
  /\ disk' = IF ok /\ mode # "lzcat" THEN [written EXCEPT ![Input[mode]] = Absent]
             ELSE written
  /\ goal' = IF ~ok \/ mode = "lzcat" THEN goal
             ELSE IF mode = "compress" THEN "unpack" ELSE "done"
  /\ UNCHANGED <<files, at, over>>

\* wwrite() fails somewhere in the bytes it was to write.
WriteError(bytes) ==
  /\ Fault("write")
  /\ \E n \in 0 .. Len(bytes) - 1 :
       Finish(FALSE, Write(Output[mode], SubSeq(bytes, 1, n)))

\* One turn of compress_fd(). A read error ends the loop as the end of the file
\* does, with success.
Compress ==
  /\ mode = "compress"
  /\ \/ NextBlock = <<>> /\ Finish(TRUE, disk) /\ UNCHANGED faults
     \/ Fault("read") /\ Finish(TRUE, disk)
     \/ /\ NextBlock # <<>>
        /\ \/ /\ disk' = Write("packed", Record(NextBlock))
              /\ at' = at + Len(NextBlock)
              /\ UNCHANGED <<goal, mode, files, over, faults>>
           \/ WriteError(Record(NextBlock))

\* The magic letters, a type, and a header as long as its type needs.
Valid(head) ==
  /\ Len(head) >= TypeZero /\ head[1] = Z /\ head[2] = V
  /\ head[3] = 0 \/ (head[3] = 1 /\ Len(head) >= TypeOne)

\* What is kept of the bytes read with a header if the block uses the first
\* ones only.
Kept(head, used) == SubSeq(head, used + 1, Len(head))

\* One turn of uncompress_fd(). A header is read with as many bytes as the
\* longer type has, so the shorter one comes with bytes of its block, or of
\* the next header.
Uncompress ==
  /\ mode \in {"uncompress", "lzcat"}
  /\ \/ Fault("read") /\ Finish(FALSE, disk)
     \/ LET archive == disk["packed"]
            read == Read(archive, at, TypeOne - Len(over))
            head == over \o read
        IN IF head = <<>> \/ head[1] = 0 THEN Finish(TRUE, disk) /\ UNCHANGED faults
           ELSE IF ~Valid(head) THEN Finish(FALSE, disk) /\ UNCHANGED faults
           ELSE
             LET first == IF head[3] = 0 THEN TypeZero ELSE TypeOne
                 us    == head[first - 1] * Base + head[first]
                 used  == first + IF head[3] = 0 THEN us ELSE head[4] * Base + head[5]
                 more  == IF used > Len(head) THEN used - Len(head) ELSE 0
                 from  == at + Len(read)
                 bytes == SubSeq(head \o Read(archive, from, more),
                                 first + 1, used)
                 plain == IF head[3] = 0 THEN bytes ELSE Unpacked(bytes)
             IN IF from + more > Len(archive) \/ Len(plain) # us
                THEN Finish(FALSE, disk) /\ UNCHANGED faults
                ELSE \/ /\ disk' = Write(Output[mode], plain)
                        /\ at' = from + more
                        /\ over' = Kept(head, used)
                        /\ UNCHANGED <<goal, mode, files, faults>>
                     \/ WriteError(plain)

\* The archive loses its end while no tool runs.
Cut ==
  /\ mode = "none" /\ goal = "unpack" /\ disk["packed"] # Absent /\ Fault("cut")
  /\ \E n \in 0 .. Len(disk["packed"]) - 1 :
       disk' = [disk EXCEPT !["packed"] = SubSeq(@, 1, n)]
  /\ UNCHANGED <<goal, mode, files, at, over>>

Next ==
  \/ \E m \in DOMAIN Input : RunFile(m)
  \/ Compress \/ Uncompress \/ Cut
  \/ Crash /\ UNCHANGED over
================================================================================
