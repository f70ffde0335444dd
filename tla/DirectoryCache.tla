--------------------------- MODULE DirectoryCache ---------------------------
(***************************************************************************)
(* The directory-change cache of TTerminal (FDirectoryChangesCache,        *)
(* src/src/core/Terminal.cpp) composed with the transaction manager it     *)
(* learns through (Transaction).                                           *)
(*                                                                         *)
(* ChangeDirectory records the request in FLastDirectoryChange; the next  *)
(* ReadCurrentDirectory, at once or at the outermost EndTransaction,       *)
(* learns (old directory, request) -> new directory.  A later              *)
(* ChangeDirectory of the same request from the same directory, on an     *)
(* opened session, goes to the learned target with CachedChangeDirectory  *)
(* without asking the server.  DeleteFile of a directory clears the        *)
(* entries from and to it; ReloadDirectory those from the working          *)
(* directory; ResetConnection, at every Open, drops the cache and Open     *)
(* creates a new one.                                                      *)
(*                                                                         *)
(* The backend is not in the repository.  Its working directory follows   *)
(* SFTP: a change is resolved at once against the pending directory, but  *)
(* GetCurrentDirectory reports the directory of the last                   *)
(* ReadCurrentDirectory; this is what the learning in ReadCurrentDirectory *)
(* is written for (OldDirectory would equal the new one otherwise).  The  *)
(* server's directories change only through this session's DeleteFile and *)
(* CreateDirectory.                                                        *)
(*                                                                         *)
(* dc.tree is the set of directories on the server, dc.cwd the backend's  *)
(* working directory (pending or read), dc.fsCwd what its                  *)
(* GetCurrentDirectory returns, dc.last FLastDirectoryChange and           *)
(* dc.changes the cache: a set of <<from, request, target>>, one per       *)
(* (from, request); an empty one stands also for a NULL cache, which the  *)
(* code never consults (it is created at Open, before any change).      *)
(***************************************************************************)
EXTENDS Transaction

CONSTANTS
  Names,                  \* names of the directories under the root
  CacheDirectoryChanges   \* SessionData->GetCacheDirectoryChanges()

ASSUME CacheDirectoryChanges \in BOOLEAN

VARIABLE dc

allVars == <<t, dc>>

None == "none"   \* an empty string
Root == "/"
Child(n) == "/" \o n   \* UnixIncludeTrailingBackslash(Root) + n
Paths == {Root} \cup {Child(n) : n \in Names}
Requests == Names \cup {".."}   \* relative requests; an absolute one is a path

(* The server's resolution of a request from a directory: None when the  *)
(* directory does not exist, and the change fails.                        *)
Resolve(tree, from, req) ==
  CASE req \in Paths -> IF req \in tree THEN req ELSE None
    [] req = ".." -> Root
    [] OTHER -> IF from = Root /\ Child(req) \in tree THEN Child(req) ELSE None

(* TRemoteDirectoryChangesCache (not in the repository):                *)
(* AddDirectoryChange replaces the entry of (from, request);             *)
(* ClearDirectoryChange drops the entries from a directory and           *)
(* ClearDirectoryChangeTarget those from or to it.                       *)
AddDirectoryChange(ch, from, req, to) ==
  {e \in ch : <<e[1], e[2]>> # <<from, req>>} \cup {<<from, req, to>>}
ClearDirectoryChange(ch, dir) == {e \in ch : e[1] # dir}
ClearDirectoryChangeTarget(ch, dir) == {e \in ch : e[1] # dir /\ e[3] # dir}

(* Mutant: FLastDirectoryChange is not reset after it is used. *)
ReadCurrentDirectoryKeepLast(d) ==
  LET learn == CacheDirectoryChanges /\ d.last # None /\ d.cwd # d.fsCwd
  IN [d EXCEPT !.fsCwd = d.cwd,
               !.changes = IF learn THEN AddDirectoryChange(@, d.fsCwd, d.last, d.cwd)
                           ELSE @]

(* ReadCurrentDirectory: OldDirectory is what the backend reported, the  *)
(* backend reads its directory, and a change made by ChangeDirectory     *)
(* that moved it is learned; FLastDirectoryChange is reset, so that a    *)
(* later change not made by ChangeDirectory (HomeDirectory) is not       *)
(* learned under its request.                                            *)
ReadCurrentDirectoryChanges(d) ==
  LET learn == CacheDirectoryChanges /\ d.last # None /\ d.cwd # d.fsCwd
  IN [d EXCEPT !.fsCwd = d.cwd,
               !.changes = IF learn THEN AddDirectoryChange(@, d.fsCwd, d.last, d.cwd)
                           ELSE @,
               !.last = IF CacheDirectoryChanges THEN None ELSE @]

(* The target of ChangeDirectory on an opened session: the cached target *)
(* of (PeekCurrentDirectory, request) if there is one, else the server's *)
(* resolution.                                                            *)
CachedTargets(d, req) ==
  {e[3] : e \in {e \in d.changes : e[1] = d.fsCwd /\ e[2] = req}}

Target(d, req) ==
  IF CacheDirectoryChanges /\ CachedTargets(d, req) # {}
    THEN CHOOSE to \in CachedTargets(d, req) : TRUE
    ELSE Resolve(d.tree, d.cwd, req)

ChangeDirectoryChanges(d, req) == [d EXCEPT !.cwd = Target(d, req), !.last = req]

(* During startup the cache is never used. *)
StartupChangeDirectory(d, req) ==
  [d EXCEPT !.cwd = Resolve(d.tree, d.cwd, req), !.last = req]

(* ResetConnection drops the cache; the new connection starts in the     *)
(* home directory (the root) with no directory read; Open creates an     *)
(* empty cache.                                                           *)
OpenChanges(d) == [d EXCEPT !.changes = {}, !.cwd = Root, !.fsCwd = None]

(* FileModified of a directory with ClearDirectoryChange (DeleteFile):   *)
(* the entries from and to the directory are cleared.                    *)
FileModifiedChanges(d, dir) ==
  IF CacheDirectoryChanges
    THEN [d EXCEPT !.changes = ClearDirectoryChangeTarget(ClearDirectoryChange(@, dir), dir)]
    ELSE d

-----------------------------------------------------------------------------
(* The steps of Transaction, with what each does to the change cache.   *)
(* A step that ran ReadCurrentDirectory, at once or at the outermost     *)
(* EndTransaction, has a "cwd" read in t'.reads.                         *)

CwdRead == \E i \in DOMAIN t'.reads : t'.reads[i].kind = "cwd"

AfterReads(d) == IF CwdRead THEN ReadCurrentDirectoryChanges(d) ELSE d

DcInit ==
  dc = [tree |-> Paths, cwd |-> Root, fsCwd |-> None, last |-> None,
        changes |-> {}]

ComposedInit == Init /\ DcInit

(* ChangeDirectory: the user's relative change outside any operation, or *)
(* the absolute one MoveFiles (its nearest existing directory) and       *)
(* DoAnyCommand (the command session's directory) make inside theirs.    *)
(* A change the server refuses ends in CommandError and changes nothing. *)
ChangeDirectoryStep(req, hit) ==
  /\ req \in Requests => t.depth = 0
  /\ Target(dc, req) # None
  /\ Command("fsChangeDirectory", hit)
  /\ dc' = AfterReads(ChangeDirectoryChanges(dc, req))

(* HomeDirectory, from the user outside any operation. *)
HomeDirectoryStep(hit) ==
  /\ t.depth = 0
  /\ Command("fsHomeDirectory", hit)
  /\ dc' = AfterReads([dc EXCEPT !.cwd = Root])

(* DeleteFile of a directory other than the working one: FileModified   *)
(* with ClearDirectoryChange, then DoDeleteFile, which succeeds or is    *)
(* skipped by the user, then ReactOnCommand.                             *)
DeleteDirectoryStep(dir, ok, hit) ==
  /\ dir \in dc.tree \ {Root, dc.cwd, dc.fsCwd}
  /\ Command("fsDeleteFile", hit)
  /\ dc' = LET d1 == FileModifiedChanges(dc, dir)
           IN [d1 EXCEPT !.tree = IF ok THEN @ \ {dir} ELSE @]

(* CreateDirectory: FileModified(NULL, DirName) clears no change, then   *)
(* DoCreateDirectory and ReactOnCommand.                                 *)
CreateDirectoryStep(dir, hit) ==
  /\ dir \in Paths \ dc.tree
  /\ Command("fsCreateDirectory", hit)
  /\ dc' = [dc EXCEPT !.tree = @ \cup {dir}]

(* The other operations leave the directories alone.  A custom command  *)
(* run with fcAnyCommand from the console, outside any operation, may   *)
(* move the working directory, not through ChangeDirectory, so nothing  *)
(* is learned.                                                           *)
OtherCommandStep(cmd, hit) ==
  /\ cmd \in Commands \ DirectoryCommands
  /\ Command(cmd, hit)
  /\ \E to \in IF cmd = "fsAnyCommand" /\ t.depth = 0 THEN dc.tree ELSE {dc.cwd} :
       dc' = AfterReads([dc EXCEPT !.cwd = to])

(* Open with the session's remote directory, if it has one, as           *)
(* DoStartup's ChangeDirectory.                                          *)
UserOpenStep(rd, hit) ==
  /\ UserOpen(rd, hit)
  /\ \E dir \in dc.tree :
       dc' = AfterReads(IF rd THEN StartupChangeDirectory(OpenChanges(dc), dir)
                        ELSE OpenChanges(dc))

(* Reopen: PeekCurrentDirectory becomes the remote directory of Open.   *)
QueryReopenStep(params) ==
  /\ dc.fsCwd \in dc.tree
  /\ QueryReopen(params)
  /\ dc' = AfterReads(StartupChangeDirectory(OpenChanges(dc), dc.fsCwd))

(* ReloadDirectory: ClearDirectoryChange of GetCurrentDirectory, then    *)
(* both reads.                                                            *)
ReloadStep ==
  /\ Reload
  /\ dc' = AfterReads(IF CacheDirectoryChanges
                        THEN [dc EXCEPT !.changes = ClearDirectoryChange(@, dc.fsCwd)]
                        ELSE dc)

(* AnyCommand on the command session, whose directory the main session  *)
(* then changes to with ChangeDirectory (an absolute request).           *)
AnyCommandStep(hit) ==
  /\ AnyCommandOnCommandSession(hit)
  /\ \E to \in dc.tree : dc' = AfterReads(ChangeDirectoryChanges(dc, to))

ComposedNext ==
  \/ \E req \in Requests \cup Paths, hit \in BOOLEAN : ChangeDirectoryStep(req, hit)
  \/ \E hit \in BOOLEAN : HomeDirectoryStep(hit)
  \/ \E dir \in Paths, ok, hit \in BOOLEAN : DeleteDirectoryStep(dir, ok, hit)
  \/ \E dir \in Paths, hit \in BOOLEAN : CreateDirectoryStep(dir, hit)
  \/ \E cmd \in Commands, hit \in BOOLEAN : OtherCommandStep(cmd, hit)
  \/ \E rd, hit \in BOOLEAN : UserOpenStep(rd, hit)
  \/ \E params \in ReopenParams : QueryReopenStep(params)
  \/ ReloadStep
  \/ \E hit \in BOOLEAN : AnyCommandStep(hit)
  \/ (Begin \/ End) /\ dc' = AfterReads(dc)
  \/ (ConnectionLost \/ GetCommandSession \/ CommandSessionOpen \/ CommandSessionLost)
     /\ UNCHANGED dc

ComposedSpec == ComposedInit /\ [][ComposedNext]_allVars

-----------------------------------------------------------------------------
(* Properties *)

(* P3 rests on this: every entry of the change cache that ChangeDirectory *)
(* can find (PeekCurrentDirectory is never empty on an opened session)  *)
(* leads where the server would resolve its request from its directory  *)
(* now.  It needs                                                        *)
(* the learning to use the request of the change that moved the          *)
(* directory, across a transaction that defers the read and a            *)
(* HomeDirectory that follows, and DeleteFile to clear what led into or  *)
(* out of a directory it removed.                                        *)
ChangeCacheCoherent ==
  \A e \in dc.changes : e[1] # None => e[3] = Resolve(dc.tree, e[1], e[2])
=============================================================================
