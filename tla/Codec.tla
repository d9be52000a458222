--------------------------------- MODULE Codec ---------------------------------
(****************************************************************************)
(* What every compressor of the library promises: the data handed to it is   *)
(* restored piece by piece, in any order, each piece at its own place and    *)
(* unchanged, and the call returns when nothing is missing.                  *)
(****************************************************************************)
EXTENDS Integers

CONSTANT Sources   \* the data a caller may compress: functions from places

VARIABLES
  source,    \* what was compressed
  restored,  \* what the decompressor has written so far
  returned   \* the decompressor has returned

vars == <<source, restored, returned>>

Missing == DOMAIN source \ DOMAIN restored

Init ==
  /\ source \in Sources
  /\ restored = <<>>
  /\ returned \in BOOLEAN /\ (returned => Missing = {})

Restore ==
  /\ ~returned
  /\ \E places \in SUBSET Missing :
       /\ places # {}
       /\ restored' = [k \in DOMAIN restored \cup places |-> source[k]]
  /\ UNCHANGED <<source, returned>>

Return ==
  /\ Missing = {}
  /\ ~returned /\ returned' = TRUE
  /\ UNCHANGED <<source, restored>>

\* The same instances may be used for the next data.
Call ==
  /\ returned /\ returned' = FALSE
  /\ source' \in Sources
  /\ restored' = <<>>

Next == Restore \/ Return \/ Call

Spec == Init /\ [][Next]_vars /\ WF_vars(Restore \/ Return)
================================================================================
