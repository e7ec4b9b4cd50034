# TLA+ models of libvbs (jive5ab)

These modules model `src/evlbi5a/libvbs.cc`, the library that presents a
recording scattered over many files as one virtual file. The recording can be
FlexBuff chunk files spread over mountpoints, or Mark6 scatter-gather files
made of blocks. The modules are checked with TLC.
`src/evlbi5a/mk5command/in2disk.cc`, the `record` command of the Mark5 recorders, is modelled too.

## The system

| Part | Code | State | Operations |
|---|---|---|---|
| Chunk descriptor | `filechunk_type` (libvbs.cc 52-150) | number, position in its source file, size, offset in the recording, descriptor | FlexBuff and Mark6 constructors, copy constructor, `open_chunk`, `close_chunk`, destructor |
| Open recording | `openfile_type` (214-249) | file pointer, size, sorted chunk set, chunk cursor `chunkPtr` | constructor computing offsets, `vbs_read` (444-515), `vbs_lseek` (525-577) |
| Handle table | `openedFiles`, `openedFilesLock` (251-254) | `map<int, openfile_type>` under a rwlock | `vbs_open` (355-392), `mk6_open` (403-433), `vbs_close` (589-613), `cleanup_type` at exit (258-271) |
| Mark6 discovery | `scanMk6Recording` (780-805), `scanMk6RecordingMountpoint_thrd` (748-777), `scanMk6RecordingFile` (811-870) | one thread per mountpoint, one mutex, a shared chunk set | create, walk the block headers, merge under the mutex, join |
| FlexBuff discovery | `scanRecording*` (645-728) | directory listings | list, match chunk names, build chunks, refuse duplicates |
| Name matching | `escape` (686-693), `isRecordingChunk` (696-711), the number parse of `filechunk_type` (61-78) | none | pure functions over the recording name and a directory entry |
| in2disk command | `in2disk_fn` (in2disk.cc) | transfer mode and submode, scan pointer | `record=on/off`, `record?` |

How the parts interact:
- An open scans the mountpoints without holding any lock. The scan is parallel for Mark6 and sequential for FlexBuff.
- The open then takes the write lock, mints a handle, which is INT_MAX or the smallest key minus one, and inserts an `openfile_type` built from the chunks.
- Reads and seeks find the entry under the read lock and move its cursor.
- FlexBuff chunks open their descriptor lazily and close it when the cursor leaves them.
- Mark6 chunks share the descriptor the scan left open, stored negated. `vbs_close` collects these into a set and closes each one once.

### What is hard
- The read loop and the seek loop must agree on which chunk holds the file pointer. Empty chunks and chunk boundaries are where they can disagree.
- The bytes a read delivers come from `pos + (filePointer - offset)` in the chunk's source. Failures in the middle of a read return short counts.
- Handles are computed from the table, not from a counter. What one thread closes changes what the next thread is given.
- Descriptor ownership is split:
  - the scan leaves Mark6 descriptors open;
  - chunks share them;
  - only `vbs_close` closes them;
  - FlexBuff descriptors belong to each chunk copy.
- The Mark6 scan is multithreaded. Workers merge into one set, and the main thread must join them before the set, which lives on its stack, is used.

## Modules

### `VbsFile` — one open recording: `openfile_type`, `vbs_read`, `vbs_lseek`
- **Constants:**
  - `Chunks` is the sorted chunk set, each entry a record `[src, pos, size, mk6]`;
  - `SrcLen` is how many bytes each source file really holds;
  - the read counts and seek offsets to try;
  - `IoErrors`, which enables failing opens and reads;
  - `MaxPosition`, which bounds the file pointer.
- **Init:** the constructor is modelled by the recursive `OffsetLoop`. It gives the chunk offsets and the file size.
- **Variables:** the code's `filePointer`, `chunkPtr` and per-chunk `chunkFd`, and the state of a `vbs_read` call in progress (`pc`, `nr`, the buffer).
- **Actions:**
  - `ReadCall` is the argument checks and the entry into the loop. It returns EFAULT, or returns 0 at once.
  - `ReadIter` is one iteration of `while(nr)`. It either moves past an exhausted chunk (closing its descriptor) or opens the chunk lazily and reads `min(n2r, bytes the source holds)`.
  - `ReadFail` is the two `break`s on I/O error.
  - `ReadReturn` returns `count - nr`.
  - `Seek` is all of `vbs_lseek`, including the `SkipTo` loop and the close of the chunk it leaves.
- **Bytes:** a byte is the pair `<<source, physical offset>>`. `Stream`, the concatenation of every chunk's payload, is the reference that reads are checked against.

### `VbsHandles` — the handle table
- **Constants:**
  - handles are `Width`-bit ints, so `Wrap` gives the wrap-around of the C int;
  - two threads;
  - a scan is abstracted to its outcome: whether chunks were found, which Mark6 files it left open and which of them the chunks use.
- **Actions:**
  - `Open(t, r)` is `vbs_open`/`mk6_open`: ENOENT, returned before the lock is taken, or, under the write lock, mint the handle and insert it. Insert is a no-op on an existing key, but the handle is returned anyway. A caller given `-1` takes it for a failure, so that handle is not added to what the thread holds.
  - `Close(t, h)` is `vbs_close`: EBADF, or erase the entry and close the Mark6 descriptors of its chunks. The erase runs `~openfile_type`, which closes the FlexBuff chunk descriptor a read left open (`ChunkFds`).
  - A thread closes the handles it holds, and also the `-1` a failed open returned.
  - `ReadBegin(t, h)` is the start of `vbs_read` or `vbs_lseek`: take the read lock and look the handle up, which gives EBADF or enters the call on the entry found. `ReadEnd(t)` returns and releases the lock. Of what the call does to the entry, only the FlexBuff chunk descriptor it leaves open or closed is kept here. `VbsFile` models the rest.
  - A thread may read any live handle: handles can be passed between threads.
  - The insert of `Open` and all of `Close` take the write lock (`WriteLocked`), so they wait until no thread is inside a read.
- `Exit` is the process exit: the static `cleanup_type`'s destructor clears `openedFiles` without the lock, and the kernel closes the remaining descriptors. `ExitWhileBusy` says whether the program may exit while one of its threads is inside a libvbs call. That is the program's choice, not the library's. Nothing happens after `Exit`.
- **History variable:** `closed` holds the handles each thread closed, for `StaleCloses`.

### `ByteStream`: what an open recording promises
- **What it is:** the abstract specification of an open recording. It is one file holding the sequence `Data`, with a position.
- **Actions:**
  - a read is a `Call` and a `Return`;
  - `Return` delivers `min(count, bytes left)`, or with `IoErrors` possibly fewer;
  - `Seek` is lseek on one file.
- **Refinement:** `VbsFile` implements it (`ImplementsByteStream`) under this mapping:

  | ByteStream | VbsFile |
  |---|---|
  | `Data` | `Stream` |
  | `pos` | the position the running read started at (`start`), else `filePointer` |
  | `busy` | the read loop is running |
  | `want` | `nr + Len(buf)`, the count of the running read |
  | `out` | `buf` once the read has returned |

  The steps of the read loop are stuttering steps of the abstraction. Its exit is the abstract `Return`.

### `FlexBuffScan`: `vbs_open` of a FlexBuff recording
- **Constants:**
  - the mountpoints, in the order of the sorted `newmps` set;
  - `RecCalls`, the recording names `vbs_open` may be called with; `Call` picks one;
  - `Dir`: for each mountpoint, the entries `<mp>/<name>` it has, each a plain file, a directory that `opendir` cannot read, or a directory with entries. `RecDir(m)` is what `lstat` finds at `<mp>/<rec>` for the name of the call, absent when there is no such entry;
  - an entry is its name, a string of characters, and its size. Whether it is a chunk of the recording (`IsRecordingChunk`) and its number (`ChunkNumber`) are computed from the name by `NameMatch`.
- **Actions:**
  - `Call` is the EINVAL checks.
  - `ScanMountpoint` is `scanRecordingMountpoint` and the listing of `scanRecordingDirectory`. It covers the silent skips, a failing `dir_filter` and the listing itself.
  - `MakeChunk` is one `filechunk_type` construction and insert:
    - the constructor's `::open` can fail, which throws `errno`;
    - a duplicate number throws `vbs_except`.
  - `DirDone` ends the chunk loop of one directory.
  - `Finish` is ENOENT, or a handle.
  - `Unlink` is another process removing a chunk file while the scan runs. Nothing in the scan holds the files.
- **Outcome:** what `vbs_open` ends with, including the exceptions it lets escape: `syscallexception` for a caught int, and `vbs_except` for a duplicate.

### `NameMatch`: which directory entries are chunks of a recording
- **Strings:** a string is a sequence of one-character strings. The backquote is written `"grave"`, because a TLA+ string cannot hold it.
- **Operators:**
  - `Escape` is `escape`: a backslash before every character outside `alphanum_str`.
  - `ChunkPattern` is the pattern `^escape(rec)\.[0-9]{8}$` that `isRecordingChunk` compiles.
  - `IsRecordingChunk` is the predicate applied to an entry.
  - `ChunkNumber` is the constructor's `strtoul` of what follows the last dot.
- **The matcher:** `Regular_Expression` is not in this repository. `Compile` and `MatchAt` model what glibc's `regcomp`/`regexec` (extended syntax) do with the constructs this pattern can contain:
  - anchors and literals;
  - `.`;
  - the class `[0-9]` and the interval `{8}`;
  - a backslash escape. Here glibc reads `\<` and `\>` as word-boundary anchors and `` \` `` and `\'` as buffer anchors (GNU operators). Any other escaped character stands for itself.
- **The reference:** `IsChunkNameOf(rec, e)` holds when `e` is `rec`, a dot and eight digits. `MatchesExactly(rec)` compares the two over every candidate entry: a base name of up to `MaxBaseLen` characters of `Alphabet`, a dot, then eight digits, seven, nine, or seven and a letter.

### `In2Disk`: the `record` command
- **State:**
  - the hardware type (Mark5A, Mark5B/DIM, Mark5C);
  - `transfermode` and `run_flag`;
  - the StreamStor state (idle, programmed, recording, halted);
  - whether the disk is full;
  - the I/O board clock;
  - the scans of the user directory (open or finished);
  - the static `curscanptr`;
  - `rte.current_scan`.
- **Actions:**
  - `Query` is `record?`.
  - `On` is `record=on`. Its device calls run in code order: device info, directory check, StreamStor programming, `startScan`, `XLRAppend`, `start_mk5b_dfhg`. Any call named in `Faults` may throw and leave the effects of the calls before it. A full disk always throws.
  - `Off` is `record=off`. It has two caught failure points:
    - stopping the I/O board;
    - the StreamStor block: `XLRStop`, or clearing the channels and `finishScan`.

    `transfermode` is reset whatever happens.
  - `OtherArgs` covers replies 8 and 2.
  - `DiskFills` is the StreamStor halting on a full disk.

### `Mk6Scan`: the parallel Mark6 scan
- **Constants:** mountpoints, what file each holds, and the header sizes `FH` and `WBH`. A file is described by its kind, the state of its header, its size and its sequence of block headers.
- **Actions:**
  - The main thread takes `MainCreate` steps (thread creation, which may fail when `CreateMayFail` and then breaks the loop) and `MainJoin` steps.
  - Each worker takes these steps:
    - `WStart` is the lstat, the regular-file test, open and the file-header checks. With `OpenMayFail`, the file may vanish between lstat and open, and `ASSERT2_POS` throws;
    - `WWalk` reads one block header, checks it with the two `EZASSERT2`s and inserts the chunk;
    - `WLock`;
    - `WMerge` merges, where a duplicate is dropped, then unlocks and exits.
- **Exceptions:** nothing in the thread function catches, so an exception thrown in a worker ends in `std::terminate`. `Abort(i)` sets `mainPc` to `"aborted"`, after which nothing runs. This assumes `mp_pthread_create` (not in this repository) starts the function as given, like `pthread_create`.
- **Properties:** they are stated against `RefChunks`, a recursive sequential walk of each file.

## Runs

| Run | Expect | Checks | Shows |
|---|---|---|---|
| vbsfile_core | pass | TypeOK, CursorSound, ReadDeliversStream, LazyFdBound, ReadReturns, ImplementsByteStream | The cursor stays on the chunk holding the file pointer. Every byte read is the stream byte at its position. At most one FlexBuff descriptor is open. Every read returns, with failing I/O allowed. The chunked recording implements `ByteStream`: every read returns `min(count, left)` bytes from the position, or fewer on an I/O error, and every seek lands where lseek on one file would. |
| vbsfile_truncated | violation | ReadReturns | A chunk longer than its source file makes `::read` return 0, and `vbs_read` spins forever. |
| handles_core | pass | TypeOK, OpenedHandleIsOwn, NoFdLeak | With two threads opening, failing and closing (including `close(-1)`), and reading each other's handles, a held handle always reaches its own recording. Every descriptor held for a recording is freed by close: the Mark6 files the scan kept, and the FlexBuff chunk descriptor a read left open. The program exits, and the table is torn down without the lock, only once its threads are out of the library. |
| handles_overflow | violation | OpenedHandleIsOwn | With 3-bit ints and nine opens, the handles descend past -1 and below INT_MIN. The open that gets -1 takes it for a failure, so that entry is never closed. The decrement below INT_MIN wraps to INT_MAX, which one thread still holds: `insert` does nothing and the other thread is handed the same handle. |
| mk6scan_core | pass | TypeOK, ScanComplete, NoThreadOutlivesScan, ScanTerminates | Thread creation may fail. The scan yields one reference chunk for every block number of the mountpoints whose thread was started, keeping whichever copy of a duplicate merged first. It joins every started worker and terminates. |
| mk6scan_truncated | violation | ChunkInsideFile | A Mark6 file that ends one byte into the payload of its last block: the walk inserts that block as a chunk reaching past EOF, which is the chunk vbsfile_truncated spins on. |
| mk6scan_abort | violation | ScanNeverAborts | A block header with a negative block number makes `EZASSERT2` throw inside the worker thread. Nothing catches it, and `std::terminate` aborts the process instead of failing the open. |
| mk6scan_orphanfd | violation | EveryOpenFdHasChunk | A valid Mark6 file that has no blocks keeps its descriptor open, and nothing closes it. |
| flexbuff_core | pass | TypeOK, OpenedRecordingIsRec, NameMatchSound | With readdir failures and concurrent unlinks, a handle is minted only for exactly the files named after the recording (`r.1` and eight digits, never the `r-1` chunk beside them), with unique numbers, and ENOENT only when no such file is there. For every recording name of up to two characters from `r`, `1`, `.` and `-`, `isRecordingChunk` accepts exactly that name, a dot and eight digits. |
| flexbuff_names | violation | OpenedRecordingIsRec | The recording `<r`, the directory `<r` holding `<r.00000000` and `<r.00000001`, is never found: `vbs_open("<r")` returns ENOENT. `escape` writes `<` as `\<`, which glibc reads as a word-start anchor, not a literal. The pattern then matches `r`, a dot and eight digits, and `<r.00000000` is not such a name. The same holds for `>`, `` ` `` and `'`. |
| in2disk_core | pass | TypeOK, ScanDirectoryMatchesMode | On every recorder type, across any command sequence with failures before `startScan`, failing I/O board stops and a disk filling up, `transfermode` agrees with the StreamStor. The only unfinished scan is the one being recorded. |
| in2disk_append | violation | ScanDirectoryMatchesMode | `XLRAppend` failing after `startScan` leaves an unfinished scan while `transfermode` is `no_transfer`. `record=off` then says "not doing anything". |

Each property of a passing run is paired in `PROJECT.json` with a seeded fault in the code it depends on, and TLC finds that fault. For example:
- seeking to the start of a chunk instead of to the position;
- forgetting `chunkPos`;
- not closing the chunk being left;
- dropping the decrement of the handle;
- not checking the result of the chunk insert;
- leaving the recording name unescaped;
- overwriting on merge;
- joining one thread too few;
- keeping the mutex.

## Bounds and why they are enough

- **VbsFile.** There are four chunks:
  - a 2-byte FlexBuff chunk;
  - an empty FlexBuff chunk;
  - two Mark6 chunks sharing one source at positions 1 and 4.

  This covers an empty chunk between two others, a boundary seek, a non-zero `chunkPos`, and a shared descriptor. Read counts `{0,1,3}` cover the zero case, single bytes, and a read across boundaries. Seek offsets `{-1,0,2,4,6}` cover EINVAL, every whence, and a position past EOF. `MaxPosition = 7` bounds the repeated `SEEK_CUR`.
- **VbsHandles.** There are two threads (symmetric), one FlexBuff recording that may be absent and one Mark6 recording with two files. The core run reaches about 2.2 million states in about a minute. `MaxOpens = 4` and `Width = 8` allow a handle to be closed and reused while another is open, which takes four steps. The overflow run uses `Width = 3` and only the FlexBuff recording, so that the descent past -1 and the wrap below INT_MIN happen within nine opens.
- **Mk6Scan.** There are five mountpoints:
  - two files sharing block 2;
  - a file whose last block is empty (`wb_size` equal to the header size);
  - an empty valid file;
  - a file with a bad version.

  These exercise every exit of the worker, the duplicate drop in both orders, a zero-size chunk, and an empty merge. The core run has no corrupt header, because one would abort every behaviour that scans it. `OpenMayFail` adds an abort at any thread start, but it never removes a behaviour in which no file vanishes. The truncated run replaces d0 with a file one byte short of its last block, and the abort run replaces d2 with one whose second block number is negative. `CreateMayFail` lets the create loop break after any mountpoint. A failed creation drops the remaining mountpoints from the recording without an error; the spec says nothing about this case.

- **FlexBuffScan.** There are five mountpoints:
  - a recording directory `r.1` with two chunks, a near-miss name and a chunk name of `r-1`;
  - no entry `r.1`;
  - a plain file `r.1`;
  - an unreadable directory `r.1`;
  - a second directory `r.1` repeating chunk 1.

  Every other name of the call has no entry on any mountpoint. Depending on when the unlinks happen, one configuration reaches every outcome: a handle, ENOENT, EINVAL, `syscallexception` and `vbs_except`. The call is made with `r.1` or any name of one or two characters from `r`, `1`, `.` and `-`. `.` is the regex character a missing escape would break, and `-` lets `r-1` stand beside `r.1`. `MaxBaseLen = 3` makes the candidate entries include every call name with one character more or less. The `<` of the violation run is kept out of this alphabet, because with it `NameMatchSound` fails.
- **In2Disk.** All three recorder types are chosen in Init, with either initial clock state. `MaxScans = 3` allows a stop, a restart and a refused start. The pass run's faults are the ones the code recovers from: failures before `startScan`, a failing I/O board stop, and `record?`'s status call.

## Fairness

- `vbs_read` runs on the caller's thread without waiting, so `ReadIter` is weakly fair.
- I/O failures (`ReadFail`) are not fair: the OS need not fail.
- The Mark6 workers and the main thread are OS threads, so every step is weakly fair.
- Acquiring the mutex is strongly fair (`SF(WLock)`). A waiting thread is woken when the mutex is released.
- The scan runs once, so its runs set `CHECK_DEADLOCK FALSE`, because the final state, where the scan has returned, is terminal.
- VbsHandles has no liveness property. Its core run sets `CHECK_DEADLOCK FALSE`, because the process may exit, after which nothing runs.
- In `Mk6Scan`, the abort is a possible end of the scan, and `ScanTerminates` asks for `done` or `aborted`. The abort on a vanished file is a choice and is not fair.
- FlexBuffScan has no liveness property and no fairness: its loops are bounded by the mountpoints and the listing.
- In2Disk is driven by operator commands, so it has no fairness and no liveness property.

## Not modelled, and why
- **`isMountpoint`.** It is compiled, but it is used only by the `#if 0` form of `vbs_open`, so no call of the library reaches it.
- **The regex engine beyond this pattern.** `NameMatch` models only the constructs `isRecordingChunk`'s pattern can hold. Multibyte characters and locales are left out: a byte outside ASCII is escaped, and what glibc makes of a backslash before it depends on the locale.
- **In2Disk's device library.** `XLR*` calls and `xlrdevice` (`startScan`, `finishScan`, `stopRecordingFailure`) are not in the repository. Each is reduced to its effect on the StreamStor state and the user directory. `stopRecordingFailure` is taken not to finish the scan. The throttled and overflow flags of `record?` only change its wording.
- **Other transfer modes.** `INPROGRESS` refuses `record=on/off` during them. They are set by commands outside this repository.
- **A thread inside a call at exit.** `Exit` models `cleanup_type`'s unlocked teardown, and with `ExitWhileBusy` TRUE the table is cleared under a thread that is inside `vbs_read`. Whether a program exits while its threads are inside libvbs depends on that program, so the core run sets it FALSE and no run checks the case (hazard at line 269).
- **Spec 4.5's "no reuse while the table is non-empty".** The code does not do this. Line 389 mints the smallest key minus one, so closing the smallest handle and opening again gives the same number back while other recordings are open. `OpenedHandleIsOwn` checks what matters for the caller instead: a handle a thread holds is never handed to another open.
- **The `#if 0` code and `vbs_setdbg`.** These are not compiled, or are logging only.
- **Concurrent `vbs_read`/`vbs_lseek` on one handle.** This is a data race that the library's contract excludes.
- **A block header with `0 < wb_size < sizeof(header)`.** The model walks such a header as the code does: a chunk of negative size, and `fpos` moving on by `wb_size` (hazard at line 849). No run holds such a file.
- **The exceptions `vbs_open` lets escape.** `FlexBuffScan` models them as outcomes (`syscallexception`, `vbs_except` for a chunk number on two mountpoints), and the core run reaches them, but no run states spec §7's "returns -1 with errno" as a property (hazard at line 727).
- **The failures of `start_mk5b_dfhg`, `XLRStop` and the channel clearing.** `In2Disk` has them as faults, but no run enables them. They would leave an unfinished scan just as the `XLRAppend` failure of in2disk_append does.
- **A failing `lseek` in the block walk.** This cannot happen on a regular file at a non-negative offset.

## Plan
Done:
- the FlexBuff discovery;
- the `record` command;
- the refinement of `VbsFile` to `ByteStream`;
- the process abort from a scan worker;
- the read lock of the handle table;
- the name matching and its composition into the FlexBuff scan;
- the teardown at exit.

Left: compose the scans into `VbsHandles`, replacing the abstract `ScanOutcomes`. This would make the descriptor a Mark6 scan leaves open, and the exceptions of the FlexBuff scan, part of the handle table's behaviour.
