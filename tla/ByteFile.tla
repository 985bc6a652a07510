------------------------------ MODULE ByteFile ------------------------------
(***************************************************************************)
(* What the file layer promises: a file is a sequence of bytes.  A write   *)
(* puts its bytes at an offset that is not past the end, and makes the     *)
(* file longer when they reach past it; when it fails it changes at most   *)
(* the bytes it covers and never the length.  Nothing else, least of all   *)
(* another file, ever changes.                                             *)
(***************************************************************************)
EXTENDS Integers, Sequences

CONSTANTS File, NONE,
          Buffers(_)   \* the sequences of bytes written to a file

VARIABLES
  content,   \* the bytes of each file, NONE when there is no such file
  failed     \* whether a write has failed

vars == <<content, failed>>

(* bytes with those of buf in place from offset on *)
Overwrite(bytes, offset, buf) ==
  [i \in 1 .. (IF offset + Len(buf) > Len(bytes) THEN offset + Len(buf) ELSE Len(bytes)) |->
     IF i \in (offset + 1) .. (offset + Len(buf)) THEN buf[i - offset] ELSE bytes[i]]

Init == content = [f \in File |-> NONE] /\ failed = FALSE

(* From old to new, the bytes of the file that a step changes. *)
Create(old, new) == old = NONE /\ new = <<>> /\ UNCHANGED failed
Remove(old, new) == old # NONE /\ new = NONE /\ UNCHANGED failed

Write(old, new, buf) ==
  /\ old # NONE /\ new # NONE
  /\ \E offset \in 0 .. Len(old) :
       \/ new = Overwrite(old, offset, buf) /\ UNCHANGED failed
       \/ new = SubSeq(Overwrite(old, offset, buf), 1, Len(old)) /\ failed'

Next ==
  \E f \in File : \E old \in {content[f]}, new \in {content'[f]} :
    /\ content' = [content EXCEPT ![f] = new]
    /\ \/ Create(old, new) \/ Remove(old, new)
       \/ \E buf \in Buffers(f) : Write(old, new, buf)

Spec == Init /\ [][Next]_vars
=============================================================================
