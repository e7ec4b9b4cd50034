------------------------------ MODULE Mk6Scan ------------------------------
(***************************************************************************)
(* The Mark6 discovery engine of libvbs (src/evlbi5a/libvbs.cc):           *)
(* scanMk6Recording starts one thread per mountpoint, each thread          *)
(* (scanMk6RecordingMountpoint_thrd) stats <mountpoint>/<recording>, walks *)
(* the block headers of the file into a private chunk set                  *)
(* (scanMk6RecordingFile) and merges it into the shared set under a mutex; *)
(* the main thread joins the threads it started.                           *)
(*                                                                         *)
(* Nothing in the thread function catches: an exception thrown by          *)
(* scanMk6RecordingFile (a failing ::open, a corrupt or repeated block     *)
(* header) leaves the thread's start routine and ends in std::terminate,   *)
(* which aborts the whole process.                                         *)
(*                                                                         *)
(* A file is given by what the scan can see of it: what lstat finds, the   *)
(* verdict on its file header, its length, and the block headers found one *)
(* after the other along the walk (the k-th header is read at the          *)
(* position the (k-1)-th one points to).  Lengths are in bytes of a scale  *)
(* in which the file header is FH and a block header WBH long.             *)
(***************************************************************************)
EXTENDS Integers, Sequences, FiniteSets

CONSTANTS
    Mountpoints,    \* the mountpoints in std::set order, a sequence
    FileOf,         \* mountpoint -> [kind, hdr, size, walk]
    FH, WBH,        \* sizeof(mk6_file_header), sizeof(mk6_wb_header_v2)
    CreateMayFail,  \* TRUE iff mp_pthread_create may fail
    OpenMayFail     \* TRUE iff a file may vanish between lstat and ::open

NM  == Len(Mountpoints)
MPs == 1..NM
Header == [num : Int, wb : Int]

ASSUME /\ FH \in Nat \ {0} /\ WBH \in Nat \ {0}
       /\ CreateMayFail \in BOOLEAN /\ OpenMayFail \in BOOLEAN
       /\ \A i \in MPs :
            LET f == FileOf[Mountpoints[i]] IN
            /\ f.kind \in {"missing", "notreg", "reg"}
            /\ f.hdr \in {"ok", "short", "badsync", "badversion"}
            /\ f.size \in Nat /\ f.walk \in Seq(Header)

File(i) == FileOf[Mountpoints[i]]

VARIABLES
    mainPc,    \* "create", "join", "done", or "aborted" (std::terminate)
    nextMp,    \* the mountpoint the create loop is at
    started,   \* number of threads that were created (threadlist_type)
    joined,    \* number of threads joined so far
    wpc,       \* per mountpoint: "none", "start", "walk", "lock", "exit", "threw"
    fpos,      \* per mountpoint: fpos in scanMk6RecordingFile
    hdrs,      \* per mountpoint: block headers read so far
    lcl,       \* per mountpoint: the thread's private filechunks_type
    fdOpen,    \* per mountpoint: the file descriptor of the file is open
    mtx,       \* the thread holding the mutex, or 0
    fcs        \* the shared filechunks_type

vars == <<mainPc, nextMp, started, joined, wpc, fpos, hdrs, lcl, fdOpen, mtx, fcs>>

(* A Mark6 chunk: block number, payload position, size and source file.    *)
Chunk == [num : Nat, pos : Int, size : Int, src : MPs]   \* (unsigned int)blocknum
Nums(S) == {c.num : c \in S}

Init ==
    /\ mainPc = "create" /\ nextMp = 1 /\ started = 0 /\ joined = 0
    /\ wpc = [i \in MPs |-> "none"]
    /\ fpos = [i \in MPs |-> 0]
    /\ hdrs = [i \in MPs |-> 0]
    /\ lcl = [i \in MPs |-> {}]
    /\ fdOpen = [i \in MPs |-> FALSE]
    /\ mtx = 0
    /\ fcs = {}

(***************************************************************************)
(* The create loop of scanMk6Recording: one thread per mountpoint; a       *)
(* failing mp_pthread_create breaks out of the loop.                       *)
(***************************************************************************)
(* Seeded fault: the create loop runs one past the last mountpoint.        *)
CreateLoopDoneOffByOne == nextMp > NM + 1

(* curmp == mountpoints.end()                                              *)
CreateLoopDone == nextMp > NM

MainCreate ==
    /\ mainPc = "create"
    /\ IF CreateLoopDone
       THEN /\ mainPc' = "join" /\ UNCHANGED <<nextMp, started, wpc>>
       ELSE \/ /\ wpc' = [wpc EXCEPT ![nextMp] = "start"]
               /\ nextMp' = nextMp + 1 /\ started' = started + 1
               /\ UNCHANGED mainPc
            \/ /\ CreateMayFail
               /\ mainPc' = "join" /\ UNCHANGED <<nextMp, started, wpc>>
    /\ UNCHANGED <<joined, fpos, hdrs, lcl, fdOpen, mtx, fcs>>

(* Seeded fault: the join loop stops one thread short.                    *)
AllJoinedOffByOne == joined + 1 >= started

(* The join loop has come to the end of the thread list.                   *)
AllJoined == joined = started

(* The join loop: pthread_join of the started threads, in order.           *)
MainJoin ==
    /\ mainPc = "join"
    /\ IF AllJoined
       THEN mainPc' = "done" /\ UNCHANGED joined
       ELSE /\ wpc[joined + 1] \in {"exit", "threw"}
            /\ joined' = joined + 1 /\ UNCHANGED mainPc
    /\ UNCHANGED <<nextMp, started, wpc, fpos, hdrs, lcl, fdOpen, mtx, fcs>>

(***************************************************************************)
(* Thread i throws: std::terminate aborts the process.                    *)
Abort(i) == wpc' = [wpc EXCEPT ![i] = "threw"] /\ mainPc' = "aborted"

(***************************************************************************)
(* Thread start: lstat the file, skip it unless it is a regular file; open *)
(* it (ASSERT2_POS throws if the file vanished since the lstat) and read   *)
(* the file header; a short read, wrong sync word or version other than 2  *)
(* closes the file and ends the thread.                                    *)
(***************************************************************************)
WStart(i) ==
    /\ wpc[i] = "start"
    /\ \/ /\ File(i).kind # "reg" \/ File(i).hdr # "ok"
          /\ wpc' = [wpc EXCEPT ![i] = "exit"]
          /\ UNCHANGED <<mainPc, fpos, fdOpen>>
       \/ /\ File(i).kind = "reg" /\ OpenMayFail
          /\ Abort(i)
          /\ UNCHANGED <<fpos, fdOpen>>
       \/ /\ File(i).kind = "reg" /\ File(i).hdr = "ok"
          /\ wpc' = [wpc EXCEPT ![i] = "walk"]
          /\ fpos' = [fpos EXCEPT ![i] = FH]
          /\ fdOpen' = [fdOpen EXCEPT ![i] = TRUE]
          /\ UNCHANGED mainPc
    /\ UNCHANGED <<nextMp, started, joined, hdrs, lcl, mtx, fcs>>

(* The block header the next ::read(2) of thread i gets, if it is not short.*)
ShortRead(i) == fpos[i] + WBH > File(i).size \/ hdrs[i] >= Len(File(i).walk)
NextHeader(i) == File(i).walk[hdrs[i] + 1]

(* The chunk scanMk6RecordingFile makes of header h read at position p.    *)
ChunkOf(i, h, p) == [num |-> h.num, pos |-> p + WBH, size |-> h.wb - WBH, src |-> i]

(* The EZASSERT2 on the header: negative block number or size not positive.*)
BogusHeader(h) == h.num < 0 \/ h.wb <= 0

(***************************************************************************)
(* One iteration of while(::read(fd, wbh, wb_size)==wb_size).  A short     *)
(* read ends the walk.  A negative block number or non-positive size, or a *)
(* block number already in the private set, throws vbs_except after        *)
(* closing the file; the process aborts.  Otherwise                        *)
(* the chunk is inserted and the walk moves wb_size on.                    *)
(***************************************************************************)
WWalk(i) ==
    /\ wpc[i] = "walk"
    /\ IF ShortRead(i)
       THEN wpc' = [wpc EXCEPT ![i] = "lock"] /\ UNCHANGED <<mainPc, fpos, hdrs, lcl, fdOpen>>
       ELSE LET h == NextHeader(i)
                c == ChunkOf(i, h, fpos[i])
            IN
            IF BogusHeader(h) \/ h.num \in Nums(lcl[i])
            THEN /\ Abort(i)
                 /\ fdOpen' = [fdOpen EXCEPT ![i] = FALSE]
                 /\ UNCHANGED <<fpos, hdrs, lcl>>
            ELSE /\ lcl' = [lcl EXCEPT ![i] = @ \cup {c}]
                 /\ fpos' = [fpos EXCEPT ![i] = @ + h.wb]
                 /\ hdrs' = [hdrs EXCEPT ![i] = @ + 1]
                 /\ UNCHANGED <<mainPc, wpc, fdOpen>>
    /\ UNCHANGED <<nextMp, started, joined, mtx, fcs>>

(* ::pthread_mutex_lock                                                    *)
WLock(i) ==
    /\ wpc[i] = "lock" /\ mtx = 0
    /\ mtx' = i
    /\ UNCHANGED <<mainPc, nextMp, started, joined, wpc, fpos, hdrs, lcl, fdOpen, fcs>>

(* Seeded fault: the private set replaces the shared one.                 *)
MergedOverwriting(i) == lcl[i]

(* The shared set after inserting the private one: std::set::insert keeps  *)
(* the chunk already there when the block number is taken.                 *)
Merged(i) == fcs \cup {c \in lcl[i] : c.num \notin Nums(fcs)}

(* Seeded fault: an empty private set returns without unlocking.          *)
WMergeKeepingMutex(i) ==
    /\ mtx = i
    /\ fcs' = Merged(i)
    /\ mtx' = IF lcl[i] = {} THEN mtx ELSE 0
    /\ wpc' = [wpc EXCEPT ![i] = "exit"]
    /\ UNCHANGED <<mainPc, nextMp, started, joined, fpos, hdrs, lcl, fdOpen>>

(* Holding the mutex: merge, ::pthread_mutex_unlock, end the thread.       *)
WMerge(i) ==
    /\ mtx = i
    /\ fcs' = Merged(i)
    /\ mtx' = 0
    /\ wpc' = [wpc EXCEPT ![i] = "exit"]
    /\ UNCHANGED <<mainPc, nextMp, started, joined, fpos, hdrs, lcl, fdOpen>>

Worker(i) == WStart(i) \/ WWalk(i) \/ WLock(i) \/ WMerge(i)

(* After std::terminate nothing runs any more.                            *)
Next == MainCreate \/ MainJoin \/ (mainPc # "aborted" /\ \E i \in MPs : Worker(i))

(***************************************************************************)
(* Every started thread and the main thread keep being scheduled; the      *)
(* mutex is taken only around the merge, so a waiting thread gets it once  *)
(* it is free (strong fairness on WLock).                                  *)
(***************************************************************************)
Fairness ==
    /\ WF_vars(MainCreate) /\ WF_vars(MainJoin)
    /\ \A i \in MPs : WF_vars(WStart(i)) /\ WF_vars(WWalk(i))
                      /\ SF_vars(WLock(i)) /\ WF_vars(WMerge(i))

Spec == Init /\ [][Next]_vars /\ Fairness

-----------------------------------------------------------------------------
TypeOK ==
    /\ mainPc \in {"create", "join", "done", "aborted"}
    /\ nextMp \in 1..NM + 1 /\ started \in 0..NM /\ joined \in 0..started
    /\ wpc \in [MPs -> {"none", "start", "walk", "lock", "exit", "threw"}]
    /\ fpos \in [MPs -> Int] /\ hdrs \in [MPs -> Nat]
    /\ lcl \in [MPs -> SUBSET Chunk] /\ fcs \subseteq Chunk
    /\ fdOpen \in [MPs -> BOOLEAN] /\ mtx \in 0..NM

(***************************************************************************)
(* Reference: the chunks spec section 4.2.2 finds in the file of           *)
(* mountpoint i, or none when the walk meets a corrupt or repeated block   *)
(* header (the file's scan fails).                                         *)
(***************************************************************************)
RECURSIVE RefWalk(_, _, _, _)
RefWalk(i, k, p, acc) ==
    IF k > Len(File(i).walk) \/ p + WBH > File(i).size THEN acc
    ELSE LET h == File(i).walk[k] IN
         IF h.num < 0 \/ h.wb <= 0 \/ h.num \in Nums(acc) THEN {}
         ELSE RefWalk(i, k + 1, p + h.wb,
                      acc \cup {[num |-> h.num, pos |-> p + WBH,
                                 size |-> h.wb - WBH, src |-> i]})

RefChunks(i) ==
    IF File(i).kind = "reg" /\ File(i).hdr = "ok" THEN RefWalk(i, 1, FH, {}) ELSE {}

(***************************************************************************)
(* When scanMk6Recording returns, the shared set holds a chunk for every   *)
(* block number found in the file of any mountpoint whose thread was      *)
(* started (all of them unless mp_pthread_create failed), each one a chunk *)
(* that file really contains, whatever the order in which threads merged.  *)
(***************************************************************************)
ScanComplete ==
    mainPc = "done" =>
        /\ fcs \subseteq UNION {RefChunks(i) : i \in 1..started}
        /\ Nums(fcs) = UNION {Nums(RefChunks(i)) : i \in 1..started}

(***************************************************************************)
(* No scan thread outlives scanMk6Recording: the mutex and the chunk set   *)
(* the threads use live on the caller's stack.                             *)
(***************************************************************************)
NoThreadOutlivesScan ==
    mainPc = "done" => \A i \in MPs : wpc[i] \in {"none", "exit"}

(***************************************************************************)
(* scanMk6Recording returns, or a worker's exception ends the process: no  *)
(* thread waits forever on the mutex or in pthread_join.                   *)
(***************************************************************************)
ScanTerminates == <>(mainPc \in {"done", "aborted"})

(***************************************************************************)
(* Spec section 3: every chunk the block walk of scanMk6RecordingFile puts *)
(* into the recording lies inside its file, with a non-negative size:      *)
(* FH <= position and position + size <= file size, whatever the headers  *)
(* and the length of the file say.                                         *)
(***************************************************************************)
ChunkInsideFile ==
    \A c \in fcs : /\ c.size >= 0 /\ FH <= c.pos
                   /\ c.pos + c.size <= File(c.src).size

(***************************************************************************)
(* Spec section 7: a corrupt or repeated block header is a typed failure  *)
(* of that open, and a file that vanishes during the scan an I/O error, so *)
(* no file on a mountpoint makes a scan worker take the process down.      *)
(***************************************************************************)
ScanNeverAborts == mainPc # "aborted"

(***************************************************************************)
(* The descriptor of every Mark6 file the scan leaves open is held by a    *)
(* chunk of the result, so vbs_close, which closes the descriptors of the  *)
(* chunks, releases it.                                                    *)
(***************************************************************************)
EveryOpenFdHasChunk ==
    mainPc = "done" => \A i \in MPs : fdOpen[i] => \E c \in fcs : c.src = i

=============================================================================
