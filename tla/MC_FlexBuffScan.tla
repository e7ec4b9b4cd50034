--------------------------- MODULE MC_FlexBuffScan ---------------------------
(***************************************************************************)
(* Five mountpoints in name order.  Under d0 the recording directory r.1   *)
(* holds two chunks of r.1, a name with seven digits and a chunk name of   *)
(* the recording r-1; d1 has no r.1, d2 has a plain file r.1, d3 a         *)
(* directory r.1 opendir cannot read, and d4 a directory r.1 holding chunk *)
(* 1 again.  The second instance has the recording <r on one mountpoint:   *)
(* the directory <r holding <r.00000000 and <r.00000001.                   *)
(***************************************************************************)
EXTENDS FlexBuffScan, TLC

(* A name: a base, a dot and the digits k1 .. kn.                          *)
N(base, ks) == base \o <<".">> \o [i \in DOMAIN ks |-> DigitChars[ks[i] + 1]]
E(name, size) == [name |-> name, size |-> size]
Z7 == <<0, 0, 0, 0, 0, 0, 0>>

MCRec == <<"r", ".", "1">>
MCRecCalls == RecNames \cup {MCRec}
MCMountpoints == <<"d0", "d1", "d2", "d3", "d4">>

Dir1(kind, entries) == [kind |-> kind, entries |-> entries]

MCDir ==
    [m \in {"d0", "d1", "d2", "d3", "d4"} |->
        CASE m = "d0" -> (MCRec :> Dir1("dir",
                              << E(N(MCRec, Z7 \o <<0>>), 2),
                                 E(N(MCRec, Z7 \o <<1>>), 1),
                                 E(N(MCRec, <<0, 0, 0, 0, 0, 0, 1>>), 1),
                                 E(N(<<"r", "-", "1">>, Z7 \o <<2>>), 1) >>))
          [] m = "d1" -> [n \in {} |-> Absent]
          [] m = "d2" -> (MCRec :> Dir1("file", <<>>))
          [] m = "d3" -> (MCRec :> Dir1("unreadable", <<>>))
          [] m = "d4" -> (MCRec :> Dir1("dir", << E(N(MCRec, Z7 \o <<1>>), 3) >>))]

MCRecAnchored == {<<"<", "r">>}
MCMountpointsOne == <<"d0">>
MCDirOther ==
    [m \in {"d0"} |-> (<<"<", "r">> :> Dir1("dir",
                          << E(N(<<"<", "r">>, Z7 \o <<0>>), 2),
                             E(N(<<"<", "r">>, Z7 \o <<1>>), 1) >>))]
=============================================================================
