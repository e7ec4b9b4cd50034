--------------------------- MODULE MC_VbsHandles ---------------------------
(***************************************************************************)
(* Two threads opening a FlexBuff recording that may be absent and a      *)
(* Mark6 recording spread over two files.                                 *)
(***************************************************************************)
EXTENDS VbsHandles

CONSTANTS t1, t2

MCThreads == {t1, t2}
MCRecordings == {"vrec", "mrec"}
MCFiles == {"fa", "fb"}

NoFiles == [found |-> FALSE, flex |-> TRUE, kept |-> {}, used |-> {}]

\* every Mark6 file whose header validates contributes chunks
MCScanOutcomes ==
    [r \in MCRecordings |->
        IF r = "vrec"
        THEN {NoFiles, [found |-> TRUE, flex |-> TRUE, kept |-> {}, used |-> {}]}
        ELSE {[found |-> TRUE, flex |-> FALSE, kept |-> {"fa", "fb"}, used |-> {"fa", "fb"}]}]

\* the FlexBuff recording alone, for the long runs of opens
MCRecordingsFlex == {"vrec"}

MCSymmetry == Permutations(MCThreads)
=============================================================================
