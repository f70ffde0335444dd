---------------------------- MODULE MC_Lifecycle ----------------------------
EXTENDS Lifecycle

(* Sessions with and without a tunnel, over SSH and over FTP/WebDAV. *)
MC_TunnelModes == {FALSE, TRUE}
MC_SshModes == {FALSE, TRUE}
MC_TunnelOnly == {TRUE}
MC_SshOnly == {TRUE}
=============================================================================
