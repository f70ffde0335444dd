---------------------------- MODULE Transaction ----------------------------
(***************************************************************************)
(* The transaction manager of TTerminal and the reloads it defers         *)
(* (src/src/core/Terminal.cpp): BeginTransaction, EndTransaction,          *)
(* InTransaction, ReactOnCommand, ReadCurrentDirectory, ReadDirectory,     *)
(* ReloadDirectory, ChangeDirectory, DoStartup, Open and Reopen.           *)
(*                                                                         *)
(* A handler calls several of these in sequence, so each function of the  *)
(* code is an operator from a terminal record to a terminal record, and a  *)
(* handler is one step that composes them.  Besides the fields of          *)
(* TTerminal the record keeps what the terminal's view lags behind:        *)
(*   cwdStale   - the working directory may have changed since the last    *)
(*                ReadCurrentDirectory;                                    *)
(*   dirChanged - FFiles is not a listing of the working directory: the    *)
(*                directory changed, or ResetConnection cleared it, since  *)
(*                the last ReadDirectory;                                  *)
(*   listStale  - files were modified since the last ReadDirectory;        *)
(*   cached     - FDirectoryCache holds a listing of the working           *)
(*                directory (a valid one: modifications invalidate it);    *)
(*   reads      - the reads the current step made, in order.               *)
(*                                                                         *)
(* The command session (FCommandSession, a TSecondaryTerminal used for    *)
(* commands the file system cannot run) is composed in: cmd is "none"     *)
(* (NULL), "inactive" (created, or closed since) or "opened" (ssOpened),   *)
(* and cmdDepth is its own FInTransaction, which the main session's       *)
(* BeginTransaction and EndTransaction drive.                              *)
(***************************************************************************)
EXTENDS Naturals, Sequences

CONSTANTS
  Commands,                  \* TFSCommand values the operations issue
  MaxDepth,                  \* bound on FInTransaction
  AutoReadDirectoryAfterOp,  \* Configuration->GetAutoReadDirectoryAfterOp()
  CacheDirectories,          \* SessionData->GetCacheDirectories()
  ReopenParams               \* the Params QueryReopen's callers pass

DirectoryCommands == {"fsChangeDirectory", "fsHomeDirectory"}
ModifyingCommands ==
  {"fsCopyToRemote", "fsDeleteFile", "fsRenameFile", "fsMoveFile", "fsCopyFile",
   "fsCreateDirectory", "fsChangeMode", "fsChangeGroup", "fsChangeOwner",
   "fsChangeProperties"}

ASSUME MaxDepth \in Nat \ {0}
ASSUME AutoReadDirectoryAfterOp \in BOOLEAN /\ CacheDirectories \in BOOLEAN
ASSUME ReopenParams \subseteq SUBSET {"ropNoReadDirectory"}   \* flag sets

VARIABLE t   \* the TTerminal

Read(kind, reloadOnly, s) ==
  [kind |-> kind, reloadOnly |-> reloadOnly, dirChanged |-> s.dirChanged]

(* ReadCurrentDirectory: the pending flag is cleared first, then pwd. *)
ReadCurrentDirectory(s) ==
  [s EXCEPT !.rcdPending = FALSE, !.cwdStale = FALSE,
            !.reads = Append(@, Read("cwd", FALSE, s))]

(* Mutant: the listing is cached even when caching is off. *)
ReadDirectoryCacheAlways(s, reloadOnly) ==
  [s EXCEPT !.listStale = FALSE, !.dirChanged = FALSE,
            !.cached = s.active,
            !.reads = IF CacheDirectories /\ s.cached /\ ~reloadOnly THEN @
                      ELSE Append(@, Read("list", reloadOnly, s))]

(* ReadDirectory(ReloadOnly, ForceCache = false): a cached directory is   *)
(* loaded from FDirectoryCache unless ReloadOnly; with ReloadOnly it is   *)
(* "not reloaded" from the cache, LoadedFromCache stays false and the     *)
(* server is listed, as is any directory not cached.  A listing read     *)
(* while the session is active is cached (DirectoryLoaded).  Either way   *)
(* FFiles is then a listing of the working directory.                     *)
ReadDirectory(s, reloadOnly) ==
  [s EXCEPT !.listStale = FALSE, !.dirChanged = FALSE,
            !.cached = @ \/ (CacheDirectories /\ s.active),
            !.reads = IF CacheDirectories /\ s.cached /\ ~reloadOnly THEN @
                      ELSE Append(@, Read("list", reloadOnly, s))]

InTransaction(s) == s.depth > 0 /\ ~s.suspend

(* Mutant: a deferred directory change does not defer the listing. *)
ReactOnCommandNoDeferredList(s, cmd) ==
  LET s1 == ReadCurrentDirectory(s)
  IN IF cmd \in DirectoryCommands \cup {"fsAnyCommand"}
       THEN IF ~InTransaction(s)
              THEN IF s.autoRead THEN ReadDirectory(s1, FALSE) ELSE s1
              ELSE [s EXCEPT !.rcdPending = TRUE]
     ELSE IF cmd \in ModifyingCommands /\ s.autoRead /\ AutoReadDirectoryAfterOp
       THEN IF ~InTransaction(s) THEN ReadDirectory(s, TRUE)
            ELSE [s EXCEPT !.rdPending = TRUE]
     ELSE s

(* Mutant: a modification reloads even inside a transaction. *)
ReactOnCommandEager(s, cmd) ==
  LET s1 == ReadCurrentDirectory(s)
  IN IF cmd \in DirectoryCommands \cup {"fsAnyCommand"}
       THEN IF ~InTransaction(s)
              THEN IF s.autoRead THEN ReadDirectory(s1, FALSE) ELSE s1
              ELSE [s EXCEPT !.rcdPending = TRUE, !.rdPending = @ \/ s.autoRead]
     ELSE IF cmd \in ModifyingCommands /\ s.autoRead /\ AutoReadDirectoryAfterOp
       THEN ReadDirectory(s, TRUE)
     ELSE s

(* ReactOnCommand: reload at once outside a transaction, else mark the  *)
(* reload pending.                                                      *)
ReactOnCommand(s, cmd) ==
  LET changesDirectory == cmd \in DirectoryCommands \cup {"fsAnyCommand"}
      modifiesFiles == cmd \in ModifyingCommands \cup {"fsAnyCommand"}
      s1 == ReadCurrentDirectory(s)
  IN IF changesDirectory
       THEN IF ~InTransaction(s)
              THEN IF s.autoRead THEN ReadDirectory(s1, FALSE) ELSE s1
              ELSE [s EXCEPT !.rcdPending = TRUE, !.rdPending = @ \/ s.autoRead]
     ELSE IF modifiesFiles /\ s.autoRead /\ AutoReadDirectoryAfterOp
       THEN IF ~InTransaction(s)
              THEN ReadDirectory(s, TRUE)
              ELSE [s EXCEPT !.rdPending = TRUE]
     ELSE s

(* The server side of an operation, before its ReactOnCommand: a        *)
(* directory change lands in a directory whose listing is cached or not *)
(* (hit); a modification, and DoAnyCommand, call DirectoryModified on    *)
(* the working directory.                                               *)
Execute(s, cmd, hit) ==
  CASE cmd \in DirectoryCommands ->
         [s EXCEPT !.cwdStale = TRUE, !.dirChanged = TRUE,
                   !.cached = hit /\ CacheDirectories]
    [] cmd \in ModifyingCommands \cup {"fsAnyCommand"} ->
         [s EXCEPT !.cwdStale = @ \/ cmd = "fsAnyCommand", !.listStale = TRUE,
                   !.cached = FALSE]
    [] OTHER -> s

(* The command session's own BeginTransaction and EndTransaction, which *)
(* the main session calls whenever FCommandSession is not NULL.          *)
CommandBeginTransaction(s) ==
  IF s.cmd = "none" THEN s ELSE [s EXCEPT !.cmdDepth = @ + 1]
CommandEndTransaction(s) ==
  IF s.cmd = "none" THEN s ELSE [s EXCEPT !.cmdDepth = @ - 1]

(* Mutant: every BeginTransaction resets the pending flags. *)
BeginTransactionAlwaysReset(s) ==
  CommandBeginTransaction(
    [s EXCEPT !.rcdPending = FALSE, !.rdPending = FALSE, !.depth = @ + 1])

(* Mutant: the command session is not told of the transaction. *)
BeginTransactionNoForward(s) ==
  IF s.depth = 0
    THEN [s EXCEPT !.rcdPending = FALSE, !.rdPending = FALSE, !.depth = 1]
    ELSE [s EXCEPT !.depth = @ + 1]

BeginTransaction(s) ==
  CommandBeginTransaction(
    IF s.depth = 0
      THEN [s EXCEPT !.rcdPending = FALSE, !.rdPending = FALSE, !.depth = 1]
      ELSE [s EXCEPT !.depth = @ + 1])

(* EndTransaction: the outermost end of an active session flushes the   *)
(* pending reloads; ReloadOnly is the value of the flag after            *)
(* ReadCurrentDirectory cleared it.                                      *)
EndTransaction(s) ==
  LET s1 == [s EXCEPT !.depth = @ - 1]
      s2 == IF s1.rcdPending THEN ReadCurrentDirectory(s1) ELSE s1
      s3 == IF s2.rdPending THEN ReadDirectory(s2, ~s2.rcdPending) ELSE s2
  IN CommandEndTransaction(
       IF s1.active /\ s1.depth = 0
         THEN [s3 EXCEPT !.rcdPending = FALSE, !.rdPending = FALSE]
         ELSE s1)

ChangeDirectory(s, hit) ==
  ReactOnCommand(Execute(s, "fsChangeDirectory", hit), "fsChangeDirectory")

(* DoStartup: its own transaction, both reloads requested up front, then *)
(* the change to the session's remote directory if there is one.         *)
DoStartup(s, remoteDirectory, hit) ==
  LET s1 == BeginTransaction(s)
      s2 == [s1 EXCEPT !.rcdPending = TRUE, !.rdPending = s1.autoRead]
      s3 == IF remoteDirectory THEN ChangeDirectory(s2, hit) ELSE s2
  IN EndTransaction(s3)

(* Open that connects: ResetConnection detaches FFiles from its         *)
(* directory, the new connection starts in the home directory (cached  *)
(* or not), then DoStartup.                                             *)
Open(s, remoteDirectory, hit) ==
  DoStartup([s EXCEPT !.active = TRUE, !.opened = TRUE, !.cwdStale = TRUE,
                      !.dirChanged = TRUE, !.cached = hit /\ CacheDirectories],
            remoteDirectory, hit)

(* Mutant: Close leaves the command session connected. *)
CloseKeepsCommandSession(s) == [s EXCEPT !.active = FALSE]

(* Close: FFileSystem->Close, and Close of the command session when it  *)
(* is opened (GetCommandSessionOpened).                                  *)
Close(s) == [s EXCEPT !.active = FALSE, !.cmd = IF @ = "opened" THEN "inactive" ELSE @]

(* Reopen: saves the flags, suspends the transaction, closes and opens  *)
(* with PeekCurrentDirectory as the remote directory, and restores what *)
(* it saved.  The connection returns to the directory it had, so the    *)
(* cache state of that directory is the one it had.                     *)
Reopen(s, params) ==
  LET s1 == [s EXCEPT !.rcdPending = FALSE, !.rdPending = FALSE,
                      !.suspend = TRUE,
                      !.autoRead = @ /\ "ropNoReadDirectory" \notin params]
      s2 == Open(IF s1.active THEN Close(s1) ELSE s1, TRUE, s.cached)
  IN [s2 EXCEPT !.autoRead = s.autoRead, !.rcdPending = s.rcdPending,
                !.rdPending = s.rdPending, !.suspend = FALSE]

(* ReloadDirectory: DirectoryModified on the working directory, then     *)
(* both reads, both flags cleared.                                       *)
ReloadDirectory(s) ==
  LET s1 == ReadCurrentDirectory([s EXCEPT !.cached = FALSE])
  IN [ReadDirectory(s1, TRUE) EXCEPT !.rdPending = FALSE]

-----------------------------------------------------------------------------
(* The steps.  Every step starts with no reads. *)

Clear(s) == [s EXCEPT !.reads = <<>>]

Init ==
  t = [active |-> FALSE, opened |-> FALSE, depth |-> 0, suspend |-> FALSE,
       rcdPending |-> FALSE, rdPending |-> FALSE, autoRead |-> TRUE,
       cwdStale |-> TRUE, dirChanged |-> TRUE, listStale |-> FALSE,
       cached |-> FALSE, reads |-> <<>>, cmd |-> "none", cmdDepth |-> 0]

(* A user operation on the open session issues cmd. *)
Command(cmd, hit) ==
  /\ t.active
  /\ t' = ReactOnCommand(Execute(Clear(t), cmd, hit), cmd)

Begin ==
  /\ t.depth < MaxDepth
  /\ t' = BeginTransaction(Clear(t))

End ==
  /\ t.depth > 0
  /\ t' = EndTransaction(Clear(t))

(* The user opens a closed session outside any operation. *)
UserOpen(remoteDirectory, hit) ==
  /\ ~t.active /\ t.depth = 0
  /\ hit => t.opened
  /\ t' = Open(Clear(t), remoteDirectory, hit)

(* QueryReopen, from an operation of a session that was opened. *)
QueryReopen(params) ==
  /\ t.opened
  /\ t' = Reopen(Clear(t), params)

Reload ==
  /\ t.active
  /\ t' = ReloadDirectory(Clear(t))

(* The connection drops under an operation or Idle: FatalError calls   *)
(* Close, as the session is active.                                      *)
ConnectionLost ==
  /\ t.active
  /\ t' = Close(Clear(t))

(* GetCommandSession: an inactive command session is destroyed; a new   *)
(* one is created when there is none, which assert(FInTransaction == 0)  *)
(* requires of the caller.  An opened one is returned as it is.          *)
GetCommandSession ==
  /\ t.cmd # "opened"
  /\ t.depth = 0
  /\ t' = [Clear(t) EXCEPT !.cmd = "inactive", !.cmdDepth = 0]

(* The caller opens the command session it got, on a connected session; *)
(* the Begin and End of the secondary's own DoStartup cancel out.        *)
CommandSessionOpen ==
  /\ t.active /\ t.cmd = "inactive"
  /\ t' = [Clear(t) EXCEPT !.cmd = "opened"]

(* Idle: the main session is pumped, then an opened command session;    *)
(* when the latter's connection drops its FatalError closes it and the   *)
(* exception is ignored, the session being inactive.                    *)
CommandSessionLost ==
  /\ t.active /\ t.cmd = "opened"
  /\ t' = [Clear(t) EXCEPT !.cmd = "inactive"]

(* DoAnyCommand without fcAnyCommand: DirectoryModified on the working   *)
(* directory, the command on the command session, whose working          *)
(* directory the main session then changes to, and ReactOnCommand.       *)
AnyCommandOnCommandSession(hit) ==
  /\ t.active /\ t.cmd = "opened"
  /\ t' = ReactOnCommand(ChangeDirectory(Execute(Clear(t), "fsAnyCommand", hit), hit),
                         "fsAnyCommand")

Next ==
  \/ \E cmd \in Commands, hit \in BOOLEAN : Command(cmd, hit)
  \/ Begin
  \/ End
  \/ \E rd, hit \in BOOLEAN : UserOpen(rd, hit)
  \/ \E params \in ReopenParams : QueryReopen(params)
  \/ Reload
  \/ ConnectionLost
  \/ GetCommandSession
  \/ CommandSessionOpen
  \/ CommandSessionLost
  \/ \E hit \in BOOLEAN : AnyCommandOnCommandSession(hit)

Spec == Init /\ [][Next]_t
-----------------------------------------------------------------------------
(* Properties *)

Reads == Seq([kind : {"cwd", "list"}, reloadOnly : BOOLEAN, dirChanged : BOOLEAN])

TypeOK ==
  /\ t.depth \in 0..MaxDepth
  /\ \A f \in {"active", "opened", "suspend", "rcdPending", "rdPending",
               "autoRead", "cwdStale", "dirChanged", "listStale", "cached"} :
       t[f] \in BOOLEAN
  /\ t.reads \in Reads
  /\ t.cached => CacheDirectories
  /\ t.cmd \in {"none", "inactive", "opened"}
  /\ t.cmdDepth \in 0..MaxDepth

(* The session is at rest: connected, and no operation holds a           *)
(* transaction open.                                                     *)
AtRest == t.active /\ t.depth = 0

(* After every handler that leaves the session at rest, the working      *)
(* directory the terminal reports is the server's: every directory       *)
(* change, reconnect or custom command was followed by                   *)
(* ReadCurrentDirectory, at once or at the outermost EndTransaction,     *)
(* across nesting, Reopen's suspension and flag restore.                 *)
CwdFresh == AtRest => ~t.cwdStale

(* After every handler that leaves the session at rest with automatic    *)
(* reading on, FFiles lists the working directory, and lists it as it is *)
(* after the last modification when AutoReadDirectoryAfterOp is set: the *)
(* reloads ReactOnCommand and ResetConnection call for are never lost.   *)
ListingFresh ==
  AtRest /\ t.autoRead =>
    ~t.dirChanged /\ (AutoReadDirectoryAfterOp => ~t.listStale)

(* P2: an operation issued while a transaction is open (FInTransaction   *)
(* above zero; Reopen's suspension never outlives its step) triggers no  *)
(* reload: ReactOnCommand only marks it pending.                         *)
NoReloadInTransaction ==
  [][\A cmd \in Commands, hit \in BOOLEAN :
       t.depth > 0 /\ (Command(cmd, hit) \/ AnyCommandOnCommandSession(hit))
         => t'.reads = <<>>]_t

(* The command session is in as many transactions as the main session:  *)
(* it is created outside any, and every BeginTransaction and             *)
(* EndTransaction of the main session, those of DoStartup under Reopen   *)
(* included, is passed on to it, so the main session's outermost         *)
(* EndTransaction never ends one the command session did not begin.     *)
CommandDepthMatches == t.cmd # "none" => t.cmdDepth = t.depth

(* The command session is never left connected once the main session   *)
(* has lost or closed its connection: FatalError, and Reopen, go         *)
(* through Close, which closes an opened command session.                *)
CommandClosedWithMain == t.cmd = "opened" => t.active
=============================================================================
