----------------------------- MODULE ByteStream -----------------------------
(***************************************************************************)
(* What an open recording promises its user (spec sections 4.4 and 8):    *)
(* one file, the byte sequence Data, with a position.  vbs_read(count)    *)
(* returns the next bytes from the position, at most count and at most     *)
(* what is left, and moves the position past them; vbs_lseek sets the      *)
(* position relative to the start, the current position or the end.       *)
(*                                                                         *)
(* A read is a call (busy) and a return, so the bytes a read delivers are  *)
(* those at the position the call started from.  With IoErrors a read may *)
(* return fewer bytes (spec section 7: a short read).                      *)
(***************************************************************************)
EXTENDS Integers, Sequences

CONSTANTS Data, ReadCounts, SeekOffsets, IoErrors, MaxPosition

VARIABLES
    pos,   \* the file position
    busy,  \* a read call is in progress
    want,  \* the count of the read in progress
    out,   \* the bytes the last read delivered
    ret    \* the value the last call returned, with errno

vars == <<pos, busy, want, out, ret>>

Init == pos = 0 /\ ~busy /\ want = 0 /\ out = <<>> /\ ret = [val |-> 0, errno |-> "OK"]

Left == IF Len(Data) > pos THEN Len(Data) - pos ELSE 0

(* A read with a null buffer fails; one of 0 bytes, or at or past the end, *)
(* returns 0 at once; any other starts.                                    *)
Call ==
    /\ ~busy
    /\ \/ ret' = [val |-> -1, errno |-> "EFAULT"] /\ UNCHANGED <<busy, want, out>>
       \/ \E count \in ReadCounts :
            \/ /\ count = 0 \/ pos >= Len(Data)
               /\ ret' = [val |-> 0, errno |-> "OK"] /\ UNCHANGED <<busy, want, out>>
            \/ /\ count # 0
               /\ busy' /\ want' = count /\ out' = <<>> /\ UNCHANGED ret
    /\ UNCHANGED pos

(* The read returns k bytes: all it may, or with IoErrors possibly fewer.  *)
Return ==
    /\ busy
    /\ LET most == IF want < Left THEN want ELSE Left IN
       \E k \in IF IoErrors THEN 0..most ELSE {most} :
         /\ out' = SubSeq(Data, pos + 1, pos + k)
         /\ pos' = pos + k
         /\ ret' = [val |-> k, errno |-> "OK"]
    /\ ~busy' /\ want' = 0

(* lseek: an unknown whence or a negative position fails with EINVAL.     *)
Seek ==
    /\ ~busy
    /\ \E offset \in SeekOffsets, whence \in {"SET", "CUR", "END", "BAD"} :
         LET newfp == CASE whence = "SET" -> offset
                        [] whence = "CUR" -> pos + offset
                        [] whence = "END" -> Len(Data) + offset
                        [] OTHER          -> -1
         IN
         /\ newfp <= MaxPosition
         /\ IF whence = "BAD" \/ newfp < 0
            THEN ret' = [val |-> -1, errno |-> "EINVAL"] /\ UNCHANGED pos
            ELSE ret' = [val |-> newfp, errno |-> "OK"] /\ pos' = newfp
    /\ UNCHANGED <<busy, want, out>>

Next == Call \/ Return \/ Seek

Spec == Init /\ [][Next]_vars

=============================================================================
