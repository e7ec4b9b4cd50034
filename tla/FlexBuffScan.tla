---------------------------- MODULE FlexBuffScan ----------------------------
(***************************************************************************)
(* vbs_open of a FlexBuff recording (src/evlbi5a/libvbs.cc): the sanity    *)
(* checks, scanRecording over the mountpoints in name order,               *)
(* scanRecordingMountpoint (lstat of <mp>/<rec>), scanRecordingDirectory   *)
(* (opendir, dir_filter with isRecordingChunk, one filechunk_type per      *)
(* matching name, duplicate numbers refused) and how vbs_open turns the    *)
(* outcome into a return value or an exception.                            *)
(*                                                                         *)
(* A directory entry is its name, a string of the NameMatch alphabet, and  *)
(* the size of the file; whether it is a chunk of the recording and its   *)
(* number are computed from the name as isRecordingChunk and the          *)
(* filechunk_type constructor do.  Other processes (vbs_rm, a recorder)    *)
(* may unlink chunk files while the scan runs: nothing in the scan holds   *)
(* them.                                                                   *)
(***************************************************************************)
EXTENDS Integers, Sequences, FiniteSets, NameMatch

CONSTANTS
    RecCalls,     \* the recording names vbs_open may be called with
    Mountpoints,  \* the rootdirs, as the sorted set newmps: a sequence
    Dir,          \* mountpoint -> (name -> [kind, entries]): what the
                  \*   entry <mp>/<name> is; a name not in the domain is
                  \*   absent.  kind: "file", "unreadable" (opendir fails)
                  \*   or "dir"; entries: a sequence in name order of
                  \*   [name, size]
    ListMayFail,  \* TRUE iff reading a directory (dir_filter) may fail
    Unlinkers     \* TRUE iff other processes may unlink chunk files

NM == Len(Mountpoints)
Outcomes == {"handle", "ENOENT", "EINVAL", "syscallexception", "vbs_except"}

ASSUME /\ \A m \in 1..NM : \A n \in DOMAIN Dir[Mountpoints[m]] :
            Dir[Mountpoints[m]][n].kind \in {"file", "unreadable", "dir"}
       /\ ListMayFail \in BOOLEAN /\ Unlinkers \in BOOLEAN

VARIABLES
    pc,       \* "idle", "scan" (mountpoint loop), "chunks" (chunk loop), "done"
    mp,       \* index of the mountpoint being scanned
    todo,     \* names dir_filter returned that are still to be constructed
    fcs,      \* the filechunks_type being filled
    gone,     \* <<mountpoint index, name>> of chunk files unlinked so far
    listed,   \* every <<m, entry>> dir_filter returned (history)
    outcome,  \* how vbs_open ended
    rec       \* the recording name of the call

vars == <<pc, mp, todo, fcs, gone, listed, outcome, rec>>

Absent == [kind |-> "absent", entries |-> <<>>]

(* What lstat finds at dir = mp+"/"+recname.                               *)
RecDir(m) == IF rec \in DOMAIN Dir[Mountpoints[m]] THEN Dir[Mountpoints[m]][rec] ELSE Absent
Entries(m) == {RecDir(m).entries[k] : k \in DOMAIN RecDir(m).entries}

Name == Seq(Alphabet \cup Digits \cup {"."})
Chunk == [num : Nat, size : Nat, path : (1..NM) \X Name]

Nums(S) == {c.num : c \in S}

Init ==
    /\ pc = "idle" /\ mp = 1 /\ todo = <<>> /\ fcs = {}
    /\ gone = {} /\ listed = {} /\ outcome = "none" /\ rec = <<>>

(***************************************************************************)
(* vbs_open(recname, rootdirs): a null or empty name or a null mountpoint  *)
(* list fails with EINVAL, otherwise the scan starts on an empty set.      *)
(***************************************************************************)
Call ==
    /\ pc = "idle"
    /\ \E r \in RecCalls :
         /\ rec' = r
         /\ \/ pc' = "done" /\ outcome' = "EINVAL"
            \/ r # <<>> /\ pc' = "scan" /\ UNCHANGED outcome
    /\ UNCHANGED <<mp, todo, fcs, gone, listed>>

(* Seeded fault: a mountpoint skipped twice.                              *)
SkipMountpointTwice == mp + 2

(* The for loop of scanRecording steps to the next mountpoint.             *)
SkipMountpoint == mp + 1

(* dir_filter(dirp, isRecordingChunk(rec)): the matching names present now *)
Listing(m) ==
    SelectSeq(RecDir(m).entries,
              LAMBDA e : IsRecordingChunk(rec, e.name) /\ <<m, e.name>> \notin gone)

(***************************************************************************)
(* scanRecordingMountpoint for mountpoint mp.  lstat failing (absent) or a *)
(* non-directory is skipped silently, as is an opendir failure; a failing  *)
(* dir_filter throws its error code, which vbs_open catches as int and     *)
(* rethrows as syscallexception.  Otherwise the matching names are listed. *)
(***************************************************************************)
ScanMountpoint ==
    /\ pc = "scan" /\ mp <= NM
    /\ LET kind == RecDir(mp).kind IN
       \/ /\ kind \in {"absent", "file", "unreadable"}
          /\ mp' = SkipMountpoint
          /\ UNCHANGED <<pc, todo, listed, outcome>>
       \/ /\ kind = "dir" /\ ListMayFail
          /\ pc' = "done" /\ outcome' = "syscallexception"
          /\ UNCHANGED <<mp, todo, listed>>
       \/ /\ kind = "dir"
          /\ todo' = Listing(mp)
          /\ listed' = listed \cup {<<mp, Listing(mp)[k]>> : k \in DOMAIN Listing(mp)}
          /\ pc' = "chunks"
          /\ UNCHANGED <<mp, outcome>>
    /\ UNCHANGED <<fcs, gone, rec>>

(***************************************************************************)
(* filechunk_type(dir+"/"+name): ::open the file (throws errno when that   *)
(* fails), take its size with lseek(SEEK_END), close it; the number is the *)
(* base-10 value of the suffix, the position 0, no descriptor kept.        *)
(***************************************************************************)
ChunkOf(m, e) == [num |-> ChunkNumber(e.name), size |-> e.size, path |-> <<m, e.name>>]

(* Seeded fault: the result of rv.insert(...) not checked.                 *)
InsertedUnchecked(c) == TRUE

(* std::set::insert succeeds iff no chunk with this number is present.    *)
Inserted(c) == c.num \notin Nums(fcs)

(***************************************************************************)
(* One iteration of the chunk loop of scanRecordingDirectory.  If the file *)
(* was unlinked since the listing, the constructor's ::open throws errno,  *)
(* which vbs_open rethrows as syscallexception.  A number already in the   *)
(* set fails EZASSERT2, throwing vbs_except, which vbs_open does not catch. *)
(***************************************************************************)
MakeChunk ==
    /\ pc = "chunks" /\ todo # <<>>
    /\ LET e == Head(todo)
           c == ChunkOf(mp, e)
       IN
       IF <<mp, e.name>> \in gone
       THEN pc' = "done" /\ outcome' = "syscallexception" /\ UNCHANGED <<todo, fcs>>
       ELSE IF Inserted(c)
       THEN fcs' = fcs \cup {c} /\ todo' = Tail(todo) /\ UNCHANGED <<pc, outcome>>
       ELSE pc' = "done" /\ outcome' = "vbs_except" /\ UNCHANGED <<todo, fcs>>
    /\ UNCHANGED <<mp, gone, listed, rec>>

(* The listing is consumed: back to the loop over the mountpoints.        *)
DirDone ==
    /\ pc = "chunks" /\ todo = <<>>
    /\ pc' = "scan" /\ mp' = SkipMountpoint
    /\ UNCHANGED <<todo, fcs, gone, listed, outcome, rec>>

(* After the last mountpoint: no chunks is ENOENT, otherwise vbs_open     *)
(* mints a handle for openfile_type(chunks).                               *)
Finish ==
    /\ pc = "scan" /\ mp > NM
    /\ pc' = "done"
    /\ outcome' = IF fcs = {} THEN "ENOENT" ELSE "handle"
    /\ UNCHANGED <<mp, todo, fcs, gone, listed, rec>>

(* Another process unlinks a matching chunk file during the scan.          *)
Unlink ==
    /\ Unlinkers /\ pc \in {"scan", "chunks"}
    /\ \E m \in 1..NM : \E e \in Entries(m) :
         /\ IsRecordingChunk(rec, e.name) /\ <<m, e.name>> \notin gone
         /\ gone' = gone \cup {<<m, e.name>>}
    /\ UNCHANGED <<pc, mp, todo, fcs, listed, outcome, rec>>

Next == Call \/ ScanMountpoint \/ MakeChunk \/ DirDone \/ Finish \/ Unlink

Spec == Init /\ [][Next]_vars

-----------------------------------------------------------------------------
TypeOK ==
    /\ pc \in {"idle", "scan", "chunks", "done"}
    /\ mp \in 1..NM + 1
    /\ fcs \subseteq Chunk
    /\ gone \subseteq (1..NM) \X Name
    /\ outcome \in Outcomes \cup {"none"}

(***************************************************************************)
(* When vbs_open returns (a handle, or ENOENT for no chunks found) the     *)
(* recording it opened is exactly the chunk files of the recording asked   *)
(* for: one chunk per name dir_filter listed, with the number its name     *)
(* gives and the size of its file; every such name is rec, a dot and eight *)
(* digits, and every file so named in <mp>/<rec> that was still there when *)
(* the directory was listed is in it, so ENOENT means there are none; no   *)
(* chunk number twice (the duplicate check of scanRecordingDirectory,      *)
(* across all mountpoints).                                                *)
(***************************************************************************)
OpenedRecordingIsRec ==
    outcome \in {"handle", "ENOENT"} =>
        /\ fcs = {ChunkOf(x[1], x[2]) : x \in listed}
        /\ \A c \in fcs : IsChunkNameOf(rec, c.path[2])
        /\ \A m \in 1..NM : \A e \in Entries(m) :
              /\ RecDir(m).kind = "dir"
              /\ IsChunkNameOf(rec, e.name) /\ <<m, e.name>> \notin gone
              => <<m, e>> \in listed
        /\ Cardinality(Nums(fcs)) = Cardinality(fcs)

(***************************************************************************)
(* The user complaint escape answers (comment above escape): a recording   *)
(* whose name holds regex characters is found just the same.  For the name *)
(* of the call, isRecordingChunk accepts a directory entry iff it is the   *)
(* name, a dot and eight digits (spec 4.1 and its escape law), over every  *)
(* candidate entry of the NameMatch alphabet.                              *)
(***************************************************************************)
NameMatchSound == MatchesExactly(rec)

=============================================================================
