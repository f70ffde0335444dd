--------------------------- MODULE MC_SyncCollect ---------------------------
(* Instance of SyncCollect for TLC: two names at the root, one of them    *)
(* possibly a directory holding one name; times 60 and 90 seconds so that *)
(* a minute-precision server (mfMDHM) reports both as 60.                 *)
EXTENDS SyncCollect

MC_Names == {1, 2}
MC_Paths == {<<1>>, <<2>>, <<2, 1>>}
MC_Sizes == {1, 2}
MC_Times == {60, 90}
MC_RemoteFmts == {"mfFull", "mfMDHM"}
MC_VariedParams == {"spBySize", "spNotByTime", "spTimestamp", "spMirror", "spNoRecurse"}
MC_FixedParams == {"spDelete"}
MC_Excluded == {}
MC_Filter == {2}
MC_ListingOk == {"ok", "abort"}
MC_ListingSkip == {"ok", "skip"}
=============================================================================
