---------------------------- MODULE MC_VbsFile ----------------------------
(***************************************************************************)
(* A recording of two FlexBuff chunks (one of them empty) followed by two  *)
(* Mark6 blocks stored at positions 1 and 4 of one Mark6 file.            *)
(***************************************************************************)
EXTENDS VbsFile

MCChunks ==
    << [src |-> "f1", pos |-> 0, size |-> 2, mk6 |-> FALSE],
       [src |-> "f2", pos |-> 0, size |-> 0, mk6 |-> FALSE],
       [src |-> "m6", pos |-> 1, size |-> 2, mk6 |-> TRUE],
       [src |-> "m6", pos |-> 4, size |-> 1, mk6 |-> TRUE] >>

\* every source as long as the scan found it
MCSrcLen == [s \in {"f1", "f2", "m6"} |-> CASE s = "f1" -> 2
                                            [] s = "f2" -> 0
                                            [] s = "m6" -> 5]

\* the Mark6 file ends inside the payload of its last block
MCSrcLenTruncated == [MCSrcLen EXCEPT !["m6"] = 4]

MCReadCounts  == {0, 1, 3}
MCSeekOffsets == {-1, 0, 2, 4, 6}
=============================================================================
