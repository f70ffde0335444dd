----------------------- MODULE MC_SynchronizeController ----------------------
EXTENDS SynchronizeController

(* Sessions with and without a tunnel, over SSH and over FTP/WebDAV. *)
MC_TunnelModes == {FALSE, TRUE}
MC_SshModes == {FALSE, TRUE}
=============================================================================
