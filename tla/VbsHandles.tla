----------------------------- MODULE VbsHandles -----------------------------
(***************************************************************************)
(* The process-wide handle table of libvbs (openedFiles, guarded by       *)
(* openedFilesLock in src/evlbi5a/libvbs.cc) and the calls that change it: *)
(* vbs_open / mk6_open, which scan without the lock and then mint a handle *)
(* under the write lock, and vbs_close, which erases an entry and closes   *)
(* the Mark6 descriptors its chunks share.  vbs_read and vbs_lseek hold   *)
(* the read lock for the whole call; what they do to the entry is modelled *)
(* by VbsFile, here only the lookup and the lock matter.  A handle may be  *)
(* used by any thread it was passed to.  At exit the static cleanup_type  *)
(* clears the table without the lock.                                      *)
(*                                                                         *)
(* Handles are C ints: the model computes them in Width-bit two's          *)
(* complement so the decrement below INT_MIN wraps as the build does.      *)
(* A scan is abstracted to its outcome: whether chunks were found, which   *)
(* Mark6 files it left open (valid header) and which of those the chunks   *)
(* of the recording refer to, or that it is a FlexBuff recording, whose    *)
(* chunks open their own descriptor lazily while being read.  An OS        *)
(* descriptor is <<open call, file>>, the FlexBuff one <<open call, "chunk">>.*)
(***************************************************************************)
EXTENDS Integers, FiniteSets, TLC

CONSTANTS
    Threads,       \* application threads calling the library
    Recordings,    \* recording names the threads open
    Files,         \* Mark6 files on the mountpoints
    ScanOutcomes,  \* Recordings -> set of possible [found, kept, used] results
    Width,         \* bits of an int
    MaxOpens,      \* model bound on the number of open calls
    StaleCloses,   \* TRUE iff threads may close a handle they closed before
    ExitWhileBusy  \* TRUE iff the program may exit while a thread is inside
                   \* a libvbs call

ASSUME /\ Width \in Nat \ {0, 1} /\ MaxOpens \in Nat /\ StaleCloses \in BOOLEAN
       /\ ExitWhileBusy \in BOOLEAN
       /\ \A r \in Recordings : \A o \in ScanOutcomes[r] :
            /\ o.found \in BOOLEAN /\ o.flex \in BOOLEAN /\ o.used \subseteq o.kept
            /\ o.kept \subseteq Files

IntMax == 2^(Width - 1) - 1                  \* std::numeric_limits<int>::max()
IntMin == -(2^(Width - 1))
Wrap(x) == ((x - IntMin) % 2^Width) + IntMin  \* signed overflow as built

VARIABLES
    table,     \* openedFiles: handle -> [owner, id, fds, flex, lazy] of the
               \* openfile_type: id is the open call, fds the Mark6 descriptors,
               \* lazy the FlexBuff chunk descriptor open now, if any
    osOpen,    \* Mark6 descriptors the process holds open
    held,      \* handles each thread got from open and has not closed
    closed,    \* handles each thread has closed (history)
    opens,     \* open calls made so far
    lastRet,   \* what each thread's last call returned
    reading,   \* the entry each thread is inside vbs_read/vbs_lseek on, or NoRead
    exited     \* the process has exited and its static objects are destroyed

vars == <<table, osOpen, held, closed, opens, lastRet, reading, exited>>

NoRead == [h |-> 0, id |-> -1]

Ok(v)     == [val |-> v,  errno |-> "OK"]
Fail(eno) == [val |-> -1, errno |-> eno]

Init ==
    /\ table = <<>>
    /\ osOpen = {}
    /\ held = [t \in Threads |-> {}]
    /\ closed = [t \in Threads |-> {}]
    /\ opens = 0
    /\ lastRet = [t \in Threads |-> Ok(0)]
    /\ reading = [t \in Threads |-> NoRead]
    /\ exited = FALSE

Idle(t) == reading[t] = NoRead

(* rw_write_locker: granted once no thread holds the read lock.            *)
WriteLocked == \A t \in Threads : Idle(t)

(* openedFiles.begin()->first is the smallest key of the std::map.         *)
Smallest == CHOOSE h \in DOMAIN table : \A g \in DOMAIN table : h <= g

Largest == CHOOSE h \in DOMAIN table : \A g \in DOMAIN table : h >= g

(* Seeded faults in the handle rule.                                       *)
NewHandleNoDecrement == IF DOMAIN table = {} THEN IntMax ELSE Smallest
NewHandleAscending   == IF DOMAIN table = {} THEN IntMax ELSE Largest + 1

(* The handle vbs_open / mk6_open mint under the write lock.               *)
NewHandle ==
    IF DOMAIN table = {} THEN IntMax ELSE Wrap(Smallest - 1)

(***************************************************************************)
(* vbs_open / mk6_open by thread t of recording r.  The scan runs outside  *)
(* the lock and touches no shared state, so it is folded into the step.    *)
(* No chunks: ENOENT, returned before the lock is taken, but the Mark6    *)
(* files it validated stay open.  Else, under the write lock, the handle   *)
(* is minted and the openfile_type inserted; std::map::insert does nothing *)
(* when the key is present, and the handle is returned all the same.  The  *)
(* caller takes a returned -1 for a failure and never closes it.           *)
(***************************************************************************)
Open(t, r) ==
    /\ Idle(t)
    /\ opens < MaxOpens
    /\ \E o \in ScanOutcomes[r] :
         LET fds(S) == {<<opens, f>> : f \in S}
             h      == NewHandle
         IN
         /\ osOpen' = osOpen \cup fds(o.kept)
         /\ IF ~o.found
            THEN /\ lastRet' = [lastRet EXCEPT ![t] = Fail("ENOENT")]
                 /\ UNCHANGED <<table, held>>
            ELSE /\ WriteLocked
                 /\ table' = IF h \in DOMAIN table THEN table
                             ELSE table @@ (h :> [owner |-> t, id |-> opens, fds |-> fds(o.used),
                                                  flex |-> o.flex, lazy |-> {}])
                 /\ held' = [held EXCEPT ![t] = IF h = -1 THEN @ ELSE @ \cup {h}]
                 /\ lastRet' = [lastRet EXCEPT ![t] = Ok(h)]
    /\ opens' = opens + 1
    /\ UNCHANGED <<closed, reading>>

(* Seeded fault: Mark6 descriptors left to the openfile_type destructor.  *)
Mk6FdsNotCollected(h) == {}

(* The negative (Mark6) chunk descriptors of entry h, as a set: each is    *)
(* closed once even though many chunks share it.                           *)
Mk6Fds(h) == table[h].fds

(* Seeded fault: ~openfile_type does not close the chunks.                *)
ChunkFdsKept(h) == {}

(* ~openfile_type calls close_chunk on every chunk: the FlexBuff chunk     *)
(* descriptor still open is closed (Mark6 ones, negative, are left alone). *)
ChunkFds(h) == table[h].lazy

(***************************************************************************)
(* vbs_close(h) by thread t, on a handle it holds, the -1 a failed open   *)
(* returned, or (StaleCloses) a handle it closed before.                   *)
(* Unknown handle: EBADF.  Otherwise the Mark6 descriptors of the chunks   *)
(* are collected into a set, the entry erased and each descriptor closed.  *)
(***************************************************************************)
Close(t, h) ==
    /\ Idle(t) /\ WriteLocked
    /\ IF h \notin DOMAIN table
       THEN /\ lastRet' = [lastRet EXCEPT ![t] = Fail("EBADF")]
            /\ UNCHANGED <<table, osOpen>>
       ELSE LET rest == DOMAIN table \ {h}
            IN
            /\ osOpen' = osOpen \ (Mk6Fds(h) \cup ChunkFds(h))
            /\ table' = [g \in rest |-> table[g]]
            /\ lastRet' = [lastRet EXCEPT ![t] = Ok(0)]
    /\ held' = [held EXCEPT ![t] = @ \ {h}]
    /\ closed' = [closed EXCEPT ![t] = @ \cup {h}]
    /\ UNCHANGED <<opens, reading>>

(***************************************************************************)
(* vbs_read / vbs_lseek by thread t on handle h: take the read lock (any   *)
(* number of readers, no writer) and look the handle up.  Unknown: EBADF   *)
(* and the lock is released.  Known: the call works on the entry it found *)
(* until ReadEnd releases the lock.                                        *)
(***************************************************************************)
ReadBegin(t, h) ==
    /\ Idle(t)
    /\ IF h \notin DOMAIN table
       THEN lastRet' = [lastRet EXCEPT ![t] = Fail("EBADF")] /\ UNCHANGED reading
       ELSE reading' = [reading EXCEPT ![t] = [h |-> h, id |-> table[h].id]]
            /\ UNCHANGED lastRet
    /\ UNCHANGED <<table, osOpen, held, closed, opens>>

(***************************************************************************)
(* The call returns and rw_read_locker's destructor releases the lock.  On *)
(* a FlexBuff recording the read or seek leaves the descriptor of the     *)
(* chunk under the cursor open (open_chunk) or closed (close_chunk, when   *)
(* it moved past it); VbsFile shows at most one is open at a time.         *)
(***************************************************************************)
ReadEnd(t) ==
    /\ ~Idle(t)
    /\ LET h == reading[t].h
           fd == <<table[h].id, "chunk">>
       IN
       \E lazy \in IF table[h].flex THEN {{}, {fd}} ELSE {{}} :
          /\ table' = [table EXCEPT ![h].lazy = lazy]
          /\ osOpen' = (osOpen \ table[h].lazy) \cup lazy
    /\ reading' = [reading EXCEPT ![t] = NoRead]
    /\ lastRet' = [lastRet EXCEPT ![t] = Ok(0)]
    /\ UNCHANGED <<held, closed, opens>>

(***************************************************************************)
(* exit(): the destructor of the static cleanup_type runs                 *)
(* openedFiles.clear() without taking openedFilesLock; each               *)
(* ~openfile_type closes the FlexBuff chunk descriptor still open, and the *)
(* kernel closes every other descriptor when the process ends.  Whether a *)
(* thread may still be inside a call then is up to the program.           *)
(***************************************************************************)
Exit ==
    /\ ~exited
    /\ ExitWhileBusy \/ \A t \in Threads : Idle(t)
    /\ exited' = TRUE
    /\ table' = <<>>
    /\ osOpen' = {}
    /\ held' = [t \in Threads |-> {}]
    /\ UNCHANGED <<closed, opens, lastRet, reading>>

Next ==
    \/ Exit
    \/ /\ ~exited /\ UNCHANGED exited
       /\ \/ \E t \in Threads, r \in Recordings : Open(t, r)
          \/ \E t \in Threads :
               \E h \in held[t] \cup {-1} \cup (IF StaleCloses THEN closed[t] ELSE {}) :
                  Close(t, h)
          \/ \E t \in Threads, h \in UNION {held[u] : u \in Threads} \cup {-1} : ReadBegin(t, h)
          \/ \E t \in Threads : ReadEnd(t)

Spec == Init /\ [][Next]_vars

-----------------------------------------------------------------------------
TypeOK ==
    /\ DOMAIN table \subseteq IntMin..IntMax
    /\ \A h \in DOMAIN table : table[h].owner \in Threads
    /\ osOpen \subseteq (0..MaxOpens) \X (Files \cup {"chunk"})
    /\ held \in [Threads -> SUBSET (IntMin..IntMax)]
    /\ closed \in [Threads -> SUBSET (IntMin..IntMax)]
    /\ opens \in 0..MaxOpens
    /\ \A t \in Threads : Idle(t) \/ reading[t].h \in IntMin..IntMax

(***************************************************************************)
(* A handle a thread got from vbs_open/mk6_open and has not closed leads   *)
(* to the recording that thread opened: the handle allocation never hands *)
(* out a key in use, whatever other threads opened and closed meanwhile.   *)
(***************************************************************************)
OpenedHandleIsOwn ==
    \A t \in Threads : \A h \in held[t] :
        h \in DOMAIN table /\ table[h].owner = t

(***************************************************************************)
(* No descriptor leak (spec section 8): every descriptor the process holds *)
(* for a recording, a Mark6 file kept by the scan or a FlexBuff chunk      *)
(* opened by a read, belongs to a recording in the table, so vbs_close     *)
(* releases it.                                                            *)
(***************************************************************************)
NoFdLeak ==
    \A fd \in osOpen : \E h \in DOMAIN table : fd \in table[h].fds \cup table[h].lazy

=============================================================================
