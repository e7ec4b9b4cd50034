------------------------------ MODULE VbsFile ------------------------------
(***************************************************************************)
(* One opened recording of libvbs (src/evlbi5a/libvbs.cc): the            *)
(* openfile_type built by vbs_open/mk6_open, its chunks (filechunk_type)  *)
(* with their lazily opened FlexBuff descriptors, and the two calls that   *)
(* act on it under the handle table's read lock, vbs_read and vbs_lseek.  *)
(*                                                                         *)
(* The read loop of vbs_read is modelled iteration by iteration, because  *)
(* the value ::read(2) returns decides whether and when the loop ends.     *)
(* Data is abstracted to byte identities: the byte at physical offset q of *)
(* source file s is <<s, q>>.  A read that puts the right identities in    *)
(* the buffer has sought to the right place in the right file.             *)
(***************************************************************************)
EXTENDS Integers, Sequences, SequencesExt

CONSTANTS
    Chunks,       \* the chunk set in chunkNumber order: a sequence of
                  \* [src, pos, size, mk6] records (filechunk_type)
    SrcLen,       \* physical length of every source file, Sources -> Nat
    ReadCounts,   \* 'count' arguments offered to vbs_read
    SeekOffsets,  \* 'offset' arguments offered to vbs_lseek
    IoErrors,     \* TRUE iff ::open(2) / ::read(2) of a chunk may fail
    MaxPosition   \* model bound: vbs_lseek targets beyond it are not tried

Sources == DOMAIN SrcLen
N       == Len(Chunks)
End     == N + 1              \* fileChunks.end()
Whence  == {"SET", "CUR", "END", "BAD"}

ASSUME /\ \A i \in 1..N : Chunks[i].src \in Sources /\ Chunks[i].size \in Nat
       /\ ReadCounts \subseteq Nat /\ SeekOffsets \subseteq Int
       /\ IoErrors \in BOOLEAN /\ MaxPosition \in Nat

VARIABLES
    filePointer,  \* openfile_type::filePointer
    chunkPtr,     \* openfile_type::chunkPtr, an index into Chunks or End
    chunkOffset,  \* filechunk_type::chunkOffset of every chunk
    fileSize,     \* openfile_type::fileSize
    chunkFd,      \* filechunk_type::chunkFd: "invalid", "open" (own FlexBuff
                  \* descriptor) or "shared" (negated Mark6 descriptor)
    pc,           \* "idle" or "loop": inside the while(nr) loop of vbs_read
    nr,           \* vbs_read's count of bytes still to read
    buf,          \* the bytes vbs_read has stored in the caller's buffer
    start,        \* filePointer when the running vbs_read was entered
    ret           \* the value the last call returned, with errno

vars == <<filePointer, chunkPtr, chunkOffset, fileSize, chunkFd,
          pc, nr, buf, start, ret>>

MinOf(a, b) == IF a < b THEN a ELSE b
MaxOf(a, b) == IF a > b THEN a ELSE b

Ok(v)     == [val |-> v,  errno |-> "OK"]
Fail(eno) == [val |-> -1, errno |-> eno]

(***************************************************************************)
(* openfile_type(filechunks_type const&): walk the chunks in order, give   *)
(* each the recording size counted so far as its offset, then add its      *)
(* size.  Returns the offsets and the final fileSize.                      *)
(***************************************************************************)
RECURSIVE OffsetLoop(_, _)
OffsetLoop(i, acc) ==
    IF i > N THEN acc
    ELSE OffsetLoop(i + 1, [offs |-> Append(acc.offs, acc.size),
                            size |-> acc.size + Chunks[i].size])

OpenFile == OffsetLoop(1, [offs |-> <<>>, size |-> 0])

(* The copy of filechunk_type stored in the open file: a FlexBuff chunk    *)
(* starts without a descriptor, a Mark6 chunk keeps the shared one.        *)
CopiedFd(i) == IF Chunks[i].mk6 THEN "shared" ELSE "invalid"

(* End of chunk i in the logical stream.                                   *)
ChunkEnd(i) == chunkOffset[i] + Chunks[i].size

(***************************************************************************)
(* The logical stream the recording stands for: the payload bytes of the   *)
(* chunks concatenated in chunkNumber order (the reference definition).    *)
(***************************************************************************)
Payload(i) == [k \in 1..Chunks[i].size |-> <<Chunks[i].src, Chunks[i].pos + k - 1>>]
Stream     == FlattenSeq([i \in 1..N |-> Payload(i)])

Init ==
    /\ filePointer = 0
    /\ chunkPtr    = 1
    /\ chunkOffset = OpenFile.offs
    /\ fileSize    = OpenFile.size
    /\ chunkFd     = [i \in 1..N |-> CopiedFd(i)]
    /\ pc = "idle" /\ nr = 0 /\ buf = <<>> /\ start = 0
    /\ ret = Ok(0)

(***************************************************************************)
(* vbs_read(fd, buf, count): the checks before the loop.  A null buffer    *)
(* fails with EFAULT, count 0 and a cursor at end() return 0 at once.      *)
(***************************************************************************)
ReadCall ==
    /\ pc = "idle"
    /\ \/ /\ ret' = Fail("EFAULT")                         \* buf==0
          /\ UNCHANGED <<pc, nr, buf, start>>
       \/ \E count \in ReadCounts :
            IF count = 0 \/ chunkPtr = End
            THEN /\ ret' = Ok(0)
                 /\ UNCHANGED <<pc, nr, buf, start>>
            ELSE /\ pc' = "loop" /\ nr' = count
                 /\ buf' = <<>> /\ start' = filePointer
                 /\ UNCHANGED ret
    /\ UNCHANGED <<filePointer, chunkPtr, chunkOffset, fileSize, chunkFd>>

(* Leave the loop: return count - nr, the bytes stored in the buffer.      *)
ReadReturn ==
    /\ pc' = "idle" /\ ret' = Ok(Len(buf)) /\ nr' = 0
    /\ UNCHANGED <<buf, start>>

(* Bytes ::read(2) finds in source s from offset q on, asking for n.       *)
Available(s, q, n) == MinOf(n, MaxOf(0, SrcLen[s] - q))

(* filechunk_type::close_chunk: only an own FlexBuff descriptor is closed. *)
CloseChunk(i) ==
    IF chunkFd[i] = "open" THEN [chunkFd EXCEPT ![i] = "invalid"] ELSE chunkFd

(* Seeded faults: each is a plausible slip in the helper named after it.   *)
RemainingIgnoringPosition(i) == MinOf(nr, Chunks[i].size)
RemainingIgnoringCount(i)    == ChunkEnd(i) - filePointer
SourceOffsetWithoutPos(i)    == filePointer - chunkOffset[i]

(* n2r: bytes vbs_read may take from chunk i, at most the count left.      *)
Remaining(i) == MinOf(nr, ChunkEnd(i) - filePointer)

(* Where in chunk i's source the descriptor is sought to.                  *)
SourceOffset(i) == filePointer - chunkOffset[i] + Chunks[i].pos

(* open_chunk: a FlexBuff chunk without a descriptor gets one.            *)
OpenChunk(i) ==
    IF chunkFd[i] = "invalid" THEN [chunkFd EXCEPT ![i] = "open"] ELSE chunkFd

(***************************************************************************)
(* One iteration of while(nr) in vbs_read when the system calls succeed.   *)
(* A chunk with nothing left to read is closed and the cursor advanced;    *)
(* otherwise the chunk is opened if needed, the descriptor sought to       *)
(* SourceOffset and ::read(2) called.  A read returning 0 (the source is   *)
(* shorter than the chunk) changes nothing and the loop goes round again.  *)
(***************************************************************************)
ReadIter ==
    /\ pc = "loop"
    /\ IF nr = 0 \/ chunkPtr = End
       THEN /\ ReadReturn
            /\ UNCHANGED <<filePointer, chunkPtr, chunkFd>>
       ELSE
         LET c   == Chunks[chunkPtr]
             n2r == Remaining(chunkPtr)
             q   == SourceOffset(chunkPtr)
             r   == Available(c.src, q, n2r)
         IN
         IF n2r <= 0
         THEN /\ chunkFd' = CloseChunk(chunkPtr)
              /\ chunkPtr' = chunkPtr + 1
              /\ UNCHANGED <<filePointer, pc, nr, buf, start, ret>>
         ELSE /\ chunkFd' = OpenChunk(chunkPtr)
              /\ buf' = buf \o [k \in 1..r |-> <<c.src, q + k - 1>>]
              /\ nr' = nr - r
              /\ filePointer' = filePointer + r
              /\ UNCHANGED <<chunkPtr, pc, start, ret>>
    /\ UNCHANGED <<chunkOffset, fileSize>>

(***************************************************************************)
(* The same iteration when a system call fails: ::open(2) of a FlexBuff    *)
(* chunk (open_chunk returns invalidFileDescriptor) or ::read(2) returns   *)
(* -1.  Either breaks out of the loop with the bytes read so far.          *)
(***************************************************************************)
ReadFail ==
    /\ pc = "loop" /\ IoErrors
    /\ nr > 0 /\ chunkPtr # End /\ Remaining(chunkPtr) > 0
    /\ \/ chunkFd[chunkPtr] = "invalid" /\ UNCHANGED chunkFd   \* open fails
       \/ chunkFd' = OpenChunk(chunkPtr)                        \* read fails
    /\ ReadReturn
    /\ UNCHANGED <<filePointer, chunkPtr, chunkOffset, fileSize>>

(***************************************************************************)
(* The chunk the new file pointer lands in: the first chunk that does not  *)
(* end before it, or end() (the while loop in vbs_lseek).                  *)
(***************************************************************************)
RECURSIVE SkipToChunkStart(_, _)
SkipToChunkStart(i, newfp) ==                      \* seeded fault
    IF i <= N /\ newfp > chunkOffset[i]
    THEN SkipToChunkStart(i + 1, newfp)
    ELSE i

RECURSIVE SkipTo(_, _)
SkipTo(i, newfp) ==
    IF i <= N /\ newfp > chunkOffset[i] + Chunks[i].size
    THEN SkipTo(i + 1, newfp)
    ELSE i

(* Seeded fault: the chunk left behind is not unobserved.                  *)
LeaveChunkKeepingFd(newchunk) == chunkFd

(* "unobserve current chunk if new chunk is different"                     *)
LeaveChunk(newchunk) ==
    IF chunkPtr # newchunk /\ chunkPtr # End THEN CloseChunk(chunkPtr) ELSE chunkFd

(***************************************************************************)
(* vbs_lseek(fd, offset, whence).  An unknown whence or a negative result  *)
(* fails with EINVAL; the same position returns at once; otherwise the     *)
(* cursor moves to the chunk holding the new position and the descriptor   *)
(* of the chunk it leaves is closed.                                       *)
(***************************************************************************)
Seek ==
    /\ pc = "idle"
    /\ \E offset \in SeekOffsets, whence \in Whence :
         LET newfp == CASE whence = "SET" -> offset
                        [] whence = "END" -> fileSize + offset
                        [] whence = "CUR" -> filePointer + offset
                        [] OTHER          -> -1
             newchunk == SkipTo(1, newfp)
         IN
         /\ newfp <= MaxPosition                              \* model bound
         /\            IF whence = "BAD" \/ newfp < 0
            THEN /\ ret' = Fail("EINVAL")
                 /\ UNCHANGED <<filePointer, chunkPtr, chunkFd>>
            ELSE IF newfp = filePointer
            THEN /\ ret' = Ok(filePointer)
                 /\ UNCHANGED <<filePointer, chunkPtr, chunkFd>>
            ELSE /\ chunkFd' = LeaveChunk(newchunk)
                 /\ filePointer' = newfp
                 /\ chunkPtr' = newchunk
                 /\ ret' = Ok(newfp)
    /\ UNCHANGED <<chunkOffset, fileSize, pc, nr, buf, start>>

Next == ReadCall \/ ReadIter \/ ReadFail \/ Seek

(* The thread inside vbs_read keeps running: no lock or wait in the loop.  *)
(* System call failures are possible, never forced: ReadFail is not fair.  *)
Spec == Init /\ [][Next]_vars /\ WF_vars(ReadIter)

-----------------------------------------------------------------------------
TypeOK ==
    /\ filePointer \in Nat /\ chunkPtr \in 1..End
    /\ chunkOffset \in Seq(Nat) /\ Len(chunkOffset) = N /\ fileSize \in Nat
    /\ chunkFd \in [1..N -> {"invalid", "open", "shared"}]
    /\ pc \in {"idle", "loop"} /\ nr \in Nat /\ start \in Nat
    /\ buf \in Seq(Sources \X Nat)
    /\ ret \in [val : Int, errno : {"OK", "EFAULT", "EINVAL"}]

(***************************************************************************)
(* The cursor left by vbs_read and vbs_lseek never skips data: every chunk *)
(* before chunkPtr ends at or before filePointer, and the chunk at         *)
(* chunkPtr starts at or before it.  vbs_read trusts this when it reads    *)
(* from the chunk at the cursor without searching.                         *)
(***************************************************************************)
CursorSound ==
    /\ \A i \in 1..N : i < chunkPtr => ChunkEnd(i) <= filePointer
    /\ chunkPtr # End => chunkOffset[chunkPtr] <= filePointer

(***************************************************************************)
(* Concat identity (spec section 8): whatever vbs_read has put in the      *)
(* caller's buffer is the logical stream from the position the read        *)
(* started at, and while the loop runs the file pointer has advanced by    *)
(* exactly the bytes stored.  Breaks if the seek inside the chunk's source *)
(* (filePointer - chunkOffset + chunkPos) or the chunk offsets are wrong.  *)
(***************************************************************************)
ReadDeliversStream ==
    /\ start + Len(buf) <= Len(Stream)
    /\ buf = SubSeq(Stream, start + 1, start + Len(buf))
    /\ pc = "loop" => filePointer = start + Len(buf)

(***************************************************************************)
(* Lazy open (filechunk_type::open_chunk/close_chunk): at most one FlexBuff *)
(* descriptor of an open recording is open, the one of the chunk under the *)
(* cursor; vbs_read closes a chunk it leaves and vbs_lseek the chunk it    *)
(* moves away from, so a recording of thousands of chunks holds one fd.    *)
(***************************************************************************)
LazyFdBound ==
    \A i \in 1..N : chunkFd[i] = "open" => i = chunkPtr

(***************************************************************************)
(* Every vbs_read call returns: the while(nr) loop ends.                   *)
(***************************************************************************)
ReadReturns == pc = "loop" ~> pc = "idle"

(***************************************************************************)
(* The open recording implements the byte stream of its chunks: seen from *)
(* the caller, vbs_read and vbs_lseek behave as reads and seeks of one     *)
(* file holding Stream.  While the read loop runs, the caller still sees   *)
(* the position the call started at; the bytes appear when it returns.     *)
(***************************************************************************)
Abstract == INSTANCE ByteStream WITH
    Data <- Stream,
    pos  <- IF pc = "loop" THEN start ELSE filePointer,
    busy <- pc = "loop",
    want <- IF pc = "loop" THEN nr + Len(buf) ELSE 0,
    out  <- IF pc = "loop" THEN <<>> ELSE buf

(* Every behaviour of vbs_read / vbs_lseek on the chunks is one of ByteStream. *)
ImplementsByteStream == Abstract!Spec

=============================================================================
