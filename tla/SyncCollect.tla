---------------------------- MODULE SyncCollect ----------------------------
(***************************************************************************)
(* The collect phase of synchronization: TTerminal::SynchronizeCollect,    *)
(* DoSynchronizeCollectDirectory and SynchronizeCollectFile               *)
(* (src/src/core/Terminal.cpp).                                            *)
(*                                                                         *)
(* The two trees are fixed for one run.  The recursion of the code is a    *)
(* stack of frames; a frame is one activation of                           *)
(* DoSynchronizeCollectDirectory with its TSynchronizeData: the local file *)
(* list built by the FindFirst/FindNext loop and the remote names that     *)
(* ProcessDirectory has still to hand to SynchronizeCollectFile.  The      *)
(* server lists a directory in any order, so the next remote name is       *)
(* chosen nondeterministically.  One step is one SynchronizeCollectFile    *)
(* call, which may open a child frame (the recursive call), or the local   *)
(* pass that ends an activation; the local pass of the root frame also     *)
(* performs Checklist->Sort, which ends SynchronizeCollect.                *)
(*                                                                         *)
(* Names are naturals ordered as AnsiCompareText orders them, distinct     *)
(* under case folding; CopyParam->ChangeFileName is the identity on them   *)
(* (the default name mode), so a remote name is also its local name.       *)
(***************************************************************************)
EXTENDS Integers, Sequences, FiniteSets

CONSTANTS
  Names,          \* file names (naturals > 0)
  Paths,          \* the paths a tree may use; closed under taking the parent
  Sizes,          \* file sizes
  Times,          \* modification times, in seconds
  RemoteFmts,     \* precisions the server reports, subset of {"mfFull", "mfMDHM"}
  VariedParams,   \* synchronize params (sp* flags) that may or may not be set
  FixedParams,    \* synchronize params that are always set
  Excluded,       \* names AllowTransfer or TemporaryTransferFile reject
  Filter,         \* names Options->MatchesFilter accepts at the first level
  ListingOutcomes \* what CustomReadDirectoryListing may end in: "ok", or
                  \* "skip" or "abort" answered in COMMAND_ERROR_ARI

ASSUME Names \subseteq Nat \ {0}
ASSUME "ok" \in ListingOutcomes /\ ListingOutcomes \subseteq {"ok", "skip", "abort"}
ASSUME \A p \in Paths : Len(p) > 1 => SubSeq(p, 1, Len(p) - 1) \in Paths

NoName == 0   \* an empty FileName of TSynchronizeChecklist::TItem

Modes == {"smLocal", "smRemote", "smBoth"}

ChecklistActions == {"saUploadNew", "saDeleteRemote", "saUploadUpdate",
                     "saDownloadNew", "saDeleteLocal", "saDownloadUpdate"}

NoEntry  == [kind |-> "none", size |-> 0, time |-> 0, fmt |-> "mfFull"]
DirEntry == [kind |-> "dir", size |-> 0, time |-> 0, fmt |-> "mfFull"]

(* ReduceDateTimePrecision: mfMDHM listings carry no seconds. *)
ReduceDateTimePrecision(t, fmt) == IF fmt = "mfMDHM" THEN t - (t % 60) ELSE t

(* A server reporting a precision reports times already at it. *)
FileEntries(fmts) ==
  {[kind |-> "file", size |-> s, time |-> ReduceDateTimePrecision(t, f),
    fmt |-> f] : s \in Sizes, t \in Times, f \in fmts}

Parent(p) == SubSeq(p, 1, Len(p) - 1)

Trees(fmts) ==
  {t \in [Paths -> {NoEntry, DirEntry} \cup FileEntries(fmts)] :
     \A p \in Paths : t[p] # NoEntry /\ Len(p) > 1 => t[Parent(p)] = DirEntry}

At(t, p) == IF p \in Paths THEN t[p] ELSE NoEntry

VARIABLES
  local,      \* the local tree
  remote,     \* the remote tree
  mode,       \* TSynchronizeMode
  params,     \* the set of sp* flags
  stack,      \* activations of DoSynchronizeCollectDirectory, innermost last
  checklist,  \* the items added to the TSynchronizeChecklist, as a set
  sorted,     \* the checklist after Checklist->Sort
  phase       \* "idle", "collect", "done" or "aborted"

vars == <<local, remote, mode, params, stack, checklist, sorted, phase>>

Top == stack[Len(stack)]

(* CopyParam->AllowTransfer, TemporaryTransferFile and, at the first     *)
(* level only, Options->MatchesFilter of the name.                       *)
Admitted(n, first) == n \notin Excluded /\ (~first \/ n \in Filter)

(* The FindFirst/FindNext loop: TSynchronizeFileData of every admitted  *)
(* local entry, New = TRUE and Modified = FALSE.                         *)
LocalFileList(ld, first) ==
  [n \in {m \in Names : At(local, ld \o <<m>>).kind # "none"
                         /\ Admitted(m, first)} |->
     [IsDirectory |-> At(local, ld \o <<n>>).kind = "dir",
      New |-> TRUE, Modified |-> FALSE]]

(* The remote listing: every name except "." and "..".  A listing that  *)
(* failed and was skipped in COMMAND_ERROR_ARI leaves FileList NULL.    *)
RemoteListing(rd, listed) ==
  IF listed THEN {n \in Names : At(remote, rd \o <<n>>).kind # "none"} ELSE {}

(* An activation of DoSynchronizeCollectDirectory up to ProcessDirectory. *)
Frame(ld, rd, first, outcome) ==
  [ldir |-> ld, rdir |-> rd, first |-> first,
   pending |-> RemoteListing(rd, outcome = "ok"),
   files |-> LocalFileList(ld, first)]

(* The Checked expression shared by all the branches that create items. *)
ItemChecked(p, action, modified, isDir) ==
  /\ IF action \in {"saDeleteRemote", "saDeleteLocal"}
       THEN "spDelete" \in p
       ELSE modified \/ "spExistingOnly" \notin p
  /\ ~isDir \/ "spNoRecurse" \notin p \/ "spSubDirs" \in p

Item(ld, ln, rd, rn, isDir, action, p, modified) ==
  [ldir |-> ld, lname |-> ln, rdir |-> rd, rname |-> rn, isDir |-> isDir,
   action |-> action, checked |-> ItemChecked(p, action, modified, isDir)]

TimeCompare(p, l, r) ==
  LET lt == ReduceDateTimePrecision(l.time, r.fmt)
  IN IF /\ "spNotByTime" \notin p
        /\ "spTimestamp" \notin p \/ "spBySize" \notin p \/ l.size = r.size
       THEN (IF lt < r.time THEN -1 ELSE IF lt > r.time THEN 1 ELSE 0)
       ELSE 0

Plain(p) == "spTimestamp" \notin p /\ "spMirror" \notin p

SizeModified(p, l, r) ==
  "spBySize" \in p /\ l.size # r.size /\ "spTimestamp" \notin p

(* Modified: the remote file is to be downloaded. *)
RemoteModified(p, m, l, r) ==
  LET tc == TimeCompare(p, l, r) IN
  \/ tc < 0 /\ (Plain(p) \/ m \in {"smBoth", "smLocal"})
  \/ tc > 0 /\ ~(Plain(p) \/ m \in {"smBoth", "smRemote"})
  \/ tc = 0 /\ SizeModified(p, l, r)

(* Mutant: a newer local file wins only in mode smRemote. *)
LocalModifiedRemoteOnly(p, m, l, r) ==
  LET tc == TimeCompare(p, l, r) IN
  \/ tc < 0 /\ ~(Plain(p) \/ m \in {"smBoth", "smLocal"})
  \/ tc > 0 /\ (Plain(p) \/ m = "smRemote")
  \/ tc = 0 /\ SizeModified(p, l, r)

(* LocalModified: the local file is to be uploaded. *)
LocalModified(p, m, l, r) ==
  LET tc == TimeCompare(p, l, r) IN
  \/ tc < 0 /\ ~(Plain(p) \/ m \in {"smBoth", "smLocal"})
  \/ tc > 0 /\ (Plain(p) \/ m \in {"smBoth", "smRemote"})
  \/ tc = 0 /\ SizeModified(p, l, r)

(* Mutant: a modified remote file is downloaded whatever the mode. *)
RemoteActionAnyMode(p, m, new, modified) ==
  IF m \in {"smBoth", "smLocal"} \/ modified
    THEN IF "spTimestamp" \notin p \/ modified
           THEN IF modified THEN "saDownloadUpdate" ELSE "saDownloadNew"
           ELSE "saNone"
    ELSE IF new /\ "spTimestamp" \notin p THEN "saDeleteRemote" ELSE "saNone"

(* The action of an item for a remote file that is New or Modified. *)
RemoteAction(p, m, new, modified) ==
  IF m \in {"smBoth", "smLocal"}
    THEN IF "spTimestamp" \notin p \/ modified
           THEN IF modified THEN "saDownloadUpdate" ELSE "saDownloadNew"
           ELSE "saNone"
    ELSE IF new /\ "spTimestamp" \notin p THEN "saDeleteRemote" ELSE "saNone"

(* Mutant: a new local file is acted on even with spTimestamp. *)
LocalActionNewAlways(p, m, fd) ==
  LET modified == fd.Modified /\ m \in {"smBoth", "smRemote"}
      new == fd.New
  IN IF ~(modified \/ new) THEN "saNone"
     ELSE IF m \in {"smBoth", "smRemote"}
       THEN IF modified THEN "saUploadUpdate" ELSE "saUploadNew"
     ELSE IF "spTimestamp" \notin p THEN "saDeleteLocal" ELSE "saNone"

(* The action of an item of the local pass, or saNone. *)
LocalAction(p, m, fd) ==
  LET modified == fd.Modified /\ m \in {"smBoth", "smRemote"}
      new == fd.New /\ (m = "smLocal" \/ "spTimestamp" \notin p)
  IN IF ~(modified \/ new) THEN "saNone"
     ELSE IF m \in {"smBoth", "smRemote"}
       THEN IF modified THEN "saUploadUpdate" ELSE "saUploadNew"
     ELSE IF "spTimestamp" \notin p THEN "saDeleteLocal" ELSE "saNone"

(* Mutant: the matched local entry keeps New = TRUE. *)
MatchLocalFileKeepNew(fd, localModified) ==
  [fd EXCEPT !.Modified = @ \/ localModified]

(* SynchronizeCollectFile marks the matched local entry: no longer New, *)
(* and Modified when the local side wins.                                *)
MatchLocalFile(fd, localModified) ==
  [fd EXCEPT !.New = FALSE, !.Modified = @ \/ localModified]

(* The item of the local pass for the entry fd of name n in frame f. *)
LocalItem(p, m, f, n) ==
  LET fd == f.files[n]
      modified == fd.Modified /\ m \in {"smBoth", "smRemote"}
  IN Item(f.ldir, n, f.rdir, IF modified THEN n ELSE NoName, fd.IsDirectory,
          LocalAction(p, m, fd), p, modified)

(* Mutant: items are added whatever their action. *)
AddItemsAll(cl, items) == cl \cup items

(* Data->Checklist->Add only of the items whose Action is not saNone. *)
AddItems(cl, items) == cl \cup {i \in items : i.action # "saNone"}

(* TSynchronizeChecklist::TItem::GetFileName *)
FileName(i) == IF i.rname # NoName THEN i.rname ELSE i.lname

(* AnsiCompareText of two directory paths: a prefix sorts first. *)
RECURSIVE DirLess(_, _)
DirLess(a, b) ==
  /\ b # <<>>
  /\ \/ a = <<>>
     \/ Head(a) < Head(b)
     \/ Head(a) = Head(b) /\ DirLess(Tail(a), Tail(b))

(* TSynchronizeChecklist::Compare: Local.Directory, never empty here,    *)
(* then GetFileName.                                                     *)
ItemLess(a, b) ==
  \/ DirLess(a.ldir, b.ldir)
  \/ a.ldir = b.ldir /\ FileName(a) < FileName(b)

(* Checklist->Sort: TList::Sort is a quicksort and not stable, so items *)
(* that compare equal may end in any order.                              *)
RECURSIVE SortOutcomes(_)
SortOutcomes(S) ==
  IF S = {} THEN {<<>>}
  ELSE UNION {{<<x>> \o s : s \in SortOutcomes(S \ {x})} :
                x \in {y \in S : \A z \in S : ~ItemLess(z, y)}}

(* An exception leaves SynchronizeCollect, which deletes the checklist. *)
Aborted ==
  /\ phase' = "aborted"
  /\ stack' = <<>>
  /\ checklist' = {}

-----------------------------------------------------------------------------

Init ==
  /\ local \in Trees({"mfFull"})
  /\ remote \in Trees(RemoteFmts)
  /\ mode \in Modes
  /\ params \in {FixedParams \cup s : s \in SUBSET VariedParams}
  /\ stack = <<>>
  /\ checklist = {}
  /\ sorted = <<>>
  /\ phase = "idle"

(* SynchronizeCollect: the root activation, sfFirstLevel set. *)
SynchronizeCollect ==
  /\ phase = "idle"
  /\ \E o \in ListingOutcomes :
       IF o = "abort" THEN Aborted
       ELSE /\ phase' = "collect"
            /\ stack' = <<Frame(<<>>, <<>>, TRUE, o)>>
            /\ UNCHANGED checklist
  /\ UNCHANGED <<local, remote, mode, params, sorted>>

(* SynchronizeCollectFile for the remote entry n of the innermost frame, *)
(* the recursive DoSynchronizeCollectDirectory into a matched directory  *)
(* included up to its own ProcessDirectory.                              *)
SynchronizeCollectFile(n) ==
  /\ phase = "collect"
  /\ stack # <<>>
  /\ n \in Top.pending
  /\ LET f == Top
         r == At(remote, f.rdir \o <<n>>)
         l == At(local, f.ldir \o <<n>>)
         isDir == r.kind = "dir"
         new == n \notin DOMAIN f.files
         same == ~new /\ f.files[n].IsDirectory = isDir
         modified == same /\ ~isDir /\ RemoteModified(params, mode, l, r)
         localModified == same /\ ~isDir /\ LocalModified(params, mode, l, r)
         recurse == same /\ isDir /\ "spNoRecurse" \notin params
         action == IF new \/ modified
                     THEN RemoteAction(params, mode, new, modified)
                     ELSE "saNone"
         item == Item(f.ldir,
                      IF modified THEN n ELSE NoName, f.rdir, n, isDir,
                      action, params, modified)
         done == [f EXCEPT !.pending = @ \ {n}]
         matched == [done EXCEPT !.files =
                       IF new THEN @ ELSE [@ EXCEPT ![n] =
                                             MatchLocalFile(@, localModified)]]
         rest == [stack EXCEPT ![Len(stack)] = matched]
     IN IF ~Admitted(n, f.first)
          THEN /\ stack' = [stack EXCEPT ![Len(stack)] = done]
               /\ UNCHANGED <<checklist, phase>>
          ELSE \E o \in IF recurse THEN ListingOutcomes ELSE {"ok"} :
                 IF o = "abort" THEN Aborted
                 ELSE /\ stack' = IF recurse
                                    THEN Append(rest, Frame(f.ldir \o <<n>>,
                                                  f.rdir \o <<n>>, FALSE, o))
                                    ELSE rest
                      /\ checklist' = AddItems(checklist, {item})
                      /\ UNCHANGED phase
  /\ UNCHANGED <<local, remote, mode, params, sorted>>

(* The local pass that ends DoSynchronizeCollectDirectory; at the root   *)
(* it returns to SynchronizeCollect, which sorts the checklist.          *)
CollectLocalFiles ==
  /\ phase = "collect"
  /\ stack # <<>>
  /\ Top.pending = {}
  /\ LET f == Top
         items == {LocalItem(params, mode, f, n) : n \in DOMAIN f.files}
     IN /\ checklist' = AddItems(checklist, items)
        /\ stack' = SubSeq(stack, 1, Len(stack) - 1)
        /\ IF Len(stack) = 1
             THEN /\ phase' = "done"
                  /\ sorted' \in SortOutcomes(checklist')
             ELSE UNCHANGED <<phase, sorted>>
  /\ UNCHANGED <<local, remote, mode, params>>

Next ==
  \/ SynchronizeCollect
  \/ \E n \in Names : SynchronizeCollectFile(n)
  \/ CollectLocalFiles

Spec == Init /\ [][Next]_vars

-----------------------------------------------------------------------------
(***************************************************************************)
(* Properties                                                              *)
(***************************************************************************)

Frames ==
  [ldir : Seq(Names), rdir : Seq(Names), first : BOOLEAN,
   pending : SUBSET Names,
   files : UNION {[D -> [IsDirectory : BOOLEAN, New : BOOLEAN,
                         Modified : BOOLEAN]] : D \in SUBSET Names}]

Items ==
  [ldir : Seq(Names), lname : Names \cup {NoName}, rdir : Seq(Names),
   rname : Names \cup {NoName}, isDir : BOOLEAN, action : ChecklistActions,
   checked : BOOLEAN]

TypeOK ==
  /\ mode \in Modes
  /\ stack \in Seq(Frames)
  /\ checklist \subseteq Items
  /\ phase \in {"idle", "collect", "done", "aborted"}
  /\ phase = "done" => sorted \in SortOutcomes(checklist)

LocalPath(i) == i.ldir \o <<FileName(i)>>
RemotePath(i) == i.rdir \o <<FileName(i)>>

Updates == {"saDownloadUpdate", "saUploadUpdate"}

(* P8, sync mirror: in mode smLocal SynchronizeCollectFile and the local *)
(* pass plan no change of the remote tree, in mode smRemote none of the  *)
(* local tree.                                                           *)
ModeSides ==
  \A i \in checklist :
    /\ mode = "smLocal" =>
         i.action \in {"saDownloadNew", "saDownloadUpdate", "saDeleteLocal"}
    /\ mode = "smRemote" =>
         i.action \in {"saUploadNew", "saUploadUpdate", "saDeleteRemote"}

(* A delete is planned only for an orphan: saDeleteRemote only when the  *)
(* local tree has nothing at that path, saDeleteLocal only when the      *)
(* remote tree has nothing there.  It rests on SynchronizeCollectFile    *)
(* clearing New of every local entry it matches, in every directory the  *)
(* recursion reaches.                                                    *)
DeleteOnlyOrphans ==
  \A i \in checklist :
    /\ i.action = "saDeleteRemote" => At(local, LocalPath(i)).kind = "none"
    /\ i.action = "saDeleteLocal" => At(remote, RemotePath(i)).kind = "none"

Reached(p) ==
  /\ \A k \in 1..Len(p) : Admitted(p[k], k = 1)
  /\ \A k \in 1..Len(p) - 1 :
       At(local, SubSeq(p, 1, k)) = DirEntry /\ At(remote, SubSeq(p, 1, k)) = DirEntry
  /\ Len(p) > 1 => "spNoRecurse" \notin params

(* In mode smBoth, comparing by time, no change is missed: once the      *)
(* checklist is sorted, every reached pair of files whose times differ   *)
(* after reduction has an update item (with spTimestamp and spBySize     *)
(* only if the sizes are equal).                                         *)
NoMissedChange ==
  phase = "done" /\ mode = "smBoth" /\ "spNotByTime" \notin params =>
    \A p \in Paths :
      LET l == At(local, p)
          r == At(remote, p)
      IN /\ Reached(p) /\ l.kind = "file" /\ r.kind = "file"
         /\ ReduceDateTimePrecision(l.time, r.fmt) # r.time
         /\ {"spTimestamp", "spBySize"} \subseteq params => l.size = r.size
         => \E j \in 1..Len(sorted) :
              sorted[j].action \in Updates /\ LocalPath(sorted[j]) = p

(* With spTimestamp the checklist holds only update items: the switch of *)
(* SynchronizeApply for timestamp mode has assert(false) for any other   *)
(* action.                                                               *)
TimestampOnlyUpdates ==
  "spTimestamp" \in params => \A i \in checklist : i.action \in Updates

(* P6: the checklist has no two items for the same (directory, name) as *)
(* TSynchronizeChecklist::Compare tells them apart.                      *)
NoDuplicateItems ==
  \A a, b \in checklist :
    a # b => ~(a.ldir = b.ldir /\ FileName(a) = FileName(b))

=============================================================================
