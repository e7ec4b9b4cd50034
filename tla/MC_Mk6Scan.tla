----------------------------- MODULE MC_Mk6Scan -----------------------------
(***************************************************************************)
(* Five mountpoints: two Mark6 files sharing block number 2, a file whose  *)
(* last block is empty, a valid file holding no block and a file of       *)
(* another version.  Header sizes are FH = WBH = 2.                       *)
(***************************************************************************)
EXTENDS Mk6Scan

MCMountpoints == <<"d0", "d1", "d2", "d3", "d4">>

Reg(size, walk) == [kind |-> "reg", hdr |-> "ok", size |-> size, walk |-> walk]
Blk(n, wb) == [num |-> n, wb |-> wb]

MCFiles ==
    [m \in {"d0", "d1", "d2", "d3", "d4"} |->
        CASE m = "d0" -> Reg(8, <<Blk(0, 3), Blk(2, 3)>>)
          [] m = "d1" -> Reg(9, <<Blk(1, 4), Blk(2, 3)>>)
          [] m = "d2" -> Reg(7, <<Blk(3, 3), Blk(4, 2)>>)
          [] m = "d3" -> Reg(2, <<>>)
          [] m = "d4" -> [kind |-> "reg", hdr |-> "badversion", size |-> 4, walk |-> <<>>]]

\* d0 ends one byte into the payload of its last block
MCFilesTruncated == [MCFiles EXCEPT !["d0"] = Reg(7, <<Blk(0, 3), Blk(2, 3)>>)]

\* d2's second block header has a negative block number
MCFilesNegativeBlock == [MCFiles EXCEPT !["d2"] = Reg(7, <<Blk(3, 3), Blk(-1, 3)>>)]

=============================================================================
