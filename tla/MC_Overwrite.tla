---------------------------- MODULE MC_Overwrite ----------------------------
EXTENDS Overwrite

(* Every combination of the four flags that steer the mode. *)
MC_ParamsModes == SUBSET {"cpResume", "cpAppend", "cpNewerOnly", "cpNoConfirmation"}

(* A whole minute and a half minute, so that reducing to minutes turns  *)
(* a newer source into an equal one.                                   *)
MC_Times == {0, 30}

MC_Precisions == {"mfFull", "mfMDHM"}
=============================================================================
