--------------------------- MODULE MC_Transaction ---------------------------
EXTENDS Transaction

\* One command of each kind ReactOnCommand tells apart.
MC_Commands == {"fsChangeDirectory", "fsDeleteFile", "fsAnyCommand", "fsCopyToLocal"}
MC_ReopenPlain == {{}}
MC_ReopenAll == {{}, {"ropNoReadDirectory"}}
=============================================================================
