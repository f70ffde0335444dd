---------------------------- MODULE MC_SyncApply ----------------------------
EXTENDS SyncApply

MC_Names == {1, 2}
MC_Paths == {<<1>>, <<2>>, <<2, 1>>}
MC_Sizes == {1, 2}
MC_Times == {60, 90}
MC_RemoteFmts == {"mfFull", "mfMDHM"}
MC_VariedParams == {"spBySize", "spNotByTime", "spTimestamp", "spMirror", "spNoRecurse"}
MC_FixedParams == {"spDelete"}
MC_Excluded == {}
MC_ApplyVariedParams == {"spBySize", "spNotByTime", "spTimestamp"}
MC_Filter == {1, 2}
MC_ListingOk == {"ok"}
MC_ApplyCancel == {"ok", "cancel"}
=============================================================================
