---------------------------- MODULE MC_RetryLoop ----------------------------
EXTENDS RetryLoop

MC_Wrappers == {"ari_action", "file_loop", "ari"}
MC_AriOnly == {"ari_action", "ari"}
MC_LoopOnly == {"file_loop"}
MC_ExceptionOnFail == {FALSE, TRUE}
====
