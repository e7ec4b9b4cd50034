----------------------------- MODULE MC_In2Disk -----------------------------
(***************************************************************************)
(* All three recorder types; the faults split into those record=on and     *)
(* record=off recover from and those after which a scan is left unfinished.*)
(***************************************************************************)
EXTENDS In2Disk

MCRecorders == {"mk5a", "dim", "mk5c"}

\* calls whose failure leaves no scan behind, or is caught
MCFaultsRecovered == {"devinfo", "directory", "program", "startscan", "stopio", "status"}

\* XLRAppend fails after startScan
MCFaultsAppend == {"append"}
=============================================================================
