------------------------------- MODULE In2Disk -------------------------------
(***************************************************************************)
(* The record (in2disk) command of jive5ab on a Mark5A, Mark5B (DIM) or    *)
(* Mark5C recorder (src/evlbi5a/mk5command/in2disk.cc): record? reports    *)
(* the transfer, record=on:<scan>... starts a scan on the StreamStor disk  *)
(* pack and record=off stops it.                                           *)
(*                                                                         *)
(* Every XLRCALL and assertion throws on failure; the exception leaves the *)
(* command function (record=on) or is caught and reported with code 4      *)
(* (record=off).  Which call fails is a nondeterministic choice among the  *)
(* calls named in Faults.  The device is abstracted to the StreamStor      *)
(* state, the I/O board clock and the scans of the user directory.         *)
(***************************************************************************)
EXTENDS Integers, Sequences

CONSTANTS
    Recorders,  \* hardware flags the recorder may have: "mk5a", "dim", "mk5c"
    Faults,     \* calls that may throw: a subset of the names in OnSteps,
                \* "stopio", "stop", "clear" and "status"
    MaxScans    \* model bound on the scans recorded

(* The calls of record=on that may throw, in the order they are made.     *)
OnSteps == <<"devinfo", "directory", "program", "startscan", "append", "dfhg">>
NS == Len(OnSteps)

ASSUME Recorders \subseteq {"mk5a", "dim", "mk5c"} /\ MaxScans \in Nat

VARIABLES
    hw,            \* rte.ioboard.hardware()
    transfermode,  \* rte.transfermode: "no_transfer" or "in2disk"
    runflag,       \* run_flag of rte.transfersubmode
    ss,            \* StreamStor: "idle", "programmed", "recording", "halted"
    full,          \* the disk pack is full (S_DIR.Full)
    ioboard,       \* I/O board data clock / DFH generator: "running", "stopped"
    scans,         \* the user directory: the state of every scan started
    curscan,       \* static curscanptr: index of the scan last started
    currentScan,   \* rte.current_scan, set by record=off
    reply          \* return code of the last command, "exc" if it threw

vars == <<hw, transfermode, runflag, ss, full, ioboard, scans, curscan,
          currentScan, reply>>

Init ==
    /\ hw \in Recorders
    /\ transfermode = "no_transfer" /\ runflag = FALSE
    /\ ss = "idle" /\ full = FALSE
    /\ ioboard \in {"running", "stopped"}
    /\ scans = <<>> /\ curscan = 0 /\ currentScan = 0
    /\ reply = "0"

(***************************************************************************)
(* record?  Reports "off" unless in2disk; else XLRGetDeviceStatus tells   *)
(* whether the device records (on, throttled or overflow, from the I/O     *)
(* board flags) and, if not, XLRGetDirectory whether it halted on a full   *)
(* disk or waits.  Nothing changes but the reply.                          *)
(***************************************************************************)
Query ==
    /\ \/ transfermode # "in2disk" /\ reply' = "off"
       \/ transfermode = "in2disk" /\ "status" \in Faults /\ reply' = "exc"
       \/ /\ transfermode = "in2disk"
          /\ reply' = CASE ss = "recording" -> "on"
                        [] full             -> "halted"
                        [] OTHER            -> "waiting"
    /\ UNCHANGED <<hw, transfermode, runflag, ss, full, ioboard, scans,
                   curscan, currentScan>>

(* A command without arguments (8) or with an unknown one (2).             *)
OtherArgs ==
    /\ reply' \in {"8", "2"}
    /\ UNCHANGED <<hw, transfermode, runflag, ss, full, ioboard, scans,
                   curscan, currentScan>>

(* Seeded fault: record=on without the "already doing" check.             *)
OnAllowedAlways == TRUE

(* "if transfermode is already in2disk, we ARE already recording"          *)
OnAllowed == transfermode = "no_transfer"

(* Step k of record=on may throw; the directory check throws on a full    *)
(* disk; the DFH generator is only started on a Mark5B.                    *)
MayFail(k)  == OnSteps[k] \in Faults \/ (OnSteps[k] = "directory" /\ full)
MustFail(k) == OnSteps[k] = "directory" /\ full
Exists(k)   == OnSteps[k] # "dfhg" \/ hw = "dim"

(* The index of the call that throws, NS + 1 if none does.                 *)
FailPoints ==
    {k \in 1..NS + 1 : /\ k <= NS => (Exists(k) /\ MayFail(k))
                       /\ \A j \in 1..k - 1 : ~(Exists(j) /\ MustFail(j))}

(***************************************************************************)
(* record=on:<scan>[:...]  When not yet recording: check drives and that  *)
(* the disk is neither full nor write protected, stop the I/O board clock  *)
(* (Mark5A notClock, Mark5B DIM_STARTSTOP), program the StreamStor for     *)
(* FPDP/10GbE -> disk, startScan (a new scan in the user directory),       *)
(* XLRAppend, restart the clock (start_mk5b_dfhg), then transfermode is    *)
(* in2disk with run_flag.  A throw at call f leaves the effects of the     *)
(* calls before it.  When already recording: reply 6.                      *)
(***************************************************************************)
On ==
    /\ Len(scans) < MaxScans
    /\ IF OnAllowed
       THEN \E f \in FailPoints :
            LET did(k) == f > k   \* call k returned
            IN
            /\ ioboard' = IF hw = "mk5c" \/ ~did(2) THEN ioboard
                          ELSE IF did(NS) THEN "running" ELSE "stopped"
            /\ ss' = IF did(5) THEN "recording" ELSE IF did(3) THEN "programmed" ELSE ss
            /\ scans' = IF did(4) THEN Append(scans, "open") ELSE scans
            /\ curscan' = IF did(4) THEN Len(scans) + 1 ELSE curscan
            /\ IF did(NS)
               THEN transfermode' = "in2disk" /\ runflag' = TRUE /\ reply' = "0"
               ELSE UNCHANGED <<transfermode, runflag>> /\ reply' = "exc"
       ELSE reply' = "6" /\ UNCHANGED <<transfermode, runflag, ss, ioboard, scans, curscan>>
    /\ UNCHANGED <<hw, full, currentScan>>

(* Seeded fault: the 0-based scan count used as a 1-based index.         *)
PlaybackScanOffByOne == Len(scans) + 1

(* rte.current_scan = nScans() - 1: the last scan of the directory.        *)
PlaybackScan == Len(scans)

(* Seeded fault: finishScan not called.                                    *)
FinishedNothing(sc) == sc

(* rte.xlrdev.finishScan(curscanptr)                                       *)
Finished(sc) == [sc EXCEPT ![curscan] = "done"]

(***************************************************************************)
(* record=off.  When in2disk with run_flag: stop the I/O board (errors     *)
(* caught), then XLRStop twice, clear and unbind the channels, finishScan  *)
(* and point playback at the last scan (errors caught, followed by         *)
(* stopRecordingFailure).  Whatever failed, transfermode is reset to       *)
(* no_transfer; the reply is 0, or 4 with the errors.  Not in2disk: 6.     *)
(***************************************************************************)
Off ==
    /\ IF transfermode = "in2disk"
       THEN /\ IF runflag
               THEN \E ioFails \in BOOLEAN, g \in {"stop", "clear", "none"} :
                    /\ ioFails => "stopio" \in Faults
                    /\ g # "none" => g \in Faults
                    /\ ioboard' = IF hw = "mk5c" \/ ioFails THEN ioboard ELSE "stopped"
                    /\ ss' = IF g = "stop" THEN ss ELSE "idle"
                    /\ scans' = IF g = "none" THEN Finished(scans) ELSE scans
                    /\ currentScan' = IF g = "none" THEN PlaybackScan ELSE currentScan
                    /\ reply' = IF ioFails \/ g # "none" THEN "4" ELSE "0"
               ELSE reply' = "0" /\ UNCHANGED <<ss, ioboard, scans, currentScan>>
            /\ transfermode' = "no_transfer" /\ runflag' = FALSE
       ELSE reply' = "6" /\ UNCHANGED <<transfermode, runflag, ss, ioboard, scans, currentScan>>
    /\ UNCHANGED <<hw, full, curscan>>

(* The disk pack fills up: the StreamStor stops recording by itself.       *)
DiskFills ==
    /\ ss = "recording"
    /\ ss' = "halted" /\ full' = TRUE
    /\ UNCHANGED <<hw, transfermode, runflag, ioboard, scans, curscan,
                   currentScan, reply>>

Next == Query \/ OtherArgs \/ On \/ Off \/ DiskFills

Spec == Init /\ [][Next]_vars

-----------------------------------------------------------------------------
TypeOK ==
    /\ hw \in Recorders
    /\ transfermode \in {"no_transfer", "in2disk"} /\ runflag \in BOOLEAN
    /\ ss \in {"idle", "programmed", "recording", "halted"} /\ full \in BOOLEAN
    /\ ioboard \in {"running", "stopped"}
    /\ scans \in Seq({"open", "done"}) /\ Len(scans) <= MaxScans
    /\ curscan \in 0..Len(scans) /\ currentScan \in 0..Len(scans)

(***************************************************************************)
(* The transfer state jive5ab keeps agrees with the recorder: while        *)
(* transfermode is in2disk the StreamStor records (or halted on a full     *)
(* disk) into the scan curscanptr points at, which is the one unfinished   *)
(* scan of the user directory; otherwise the StreamStor does not record    *)
(* and every scan is finished.  record=on refusing a second start and      *)
(* record=off finishing the scan keep this across any command sequence.    *)
(***************************************************************************)
ScanDirectoryMatchesMode ==
    /\ transfermode = "in2disk" <=> ss \in {"recording", "halted"}
    /\ {i \in DOMAIN scans : scans[i] = "open"}
         = IF transfermode = "in2disk" THEN {curscan} ELSE {}

=============================================================================
