------------------------- MODULE MC_DirectoryCache -------------------------
EXTENDS DirectoryCache

\* One command of each kind ReactOnCommand tells apart.
MC_Commands == {"fsChangeDirectory", "fsDeleteFile", "fsAnyCommand", "fsCopyToLocal"}
MC_ReopenPlain == {{}}
\* One directory under the root: a change leads into it or out of it, and
\* it can be deleted and created again while the session is at the root.
\* (Two directories multiply the reachable caches a hundredfold.)
MC_Names == {"a"}
=============================================================================
