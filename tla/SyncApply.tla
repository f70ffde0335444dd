----------------------------- MODULE SyncApply -----------------------------
(***************************************************************************)
(* The apply phase of synchronization, TTerminal::SynchronizeApply         *)
(* (src/src/core/Terminal.cpp), run on the sorted checklist of the collect *)
(* phase, and a second collect over the trees it leaves.                   *)
(*                                                                         *)
(* One ApplyGroup step is one pass of the outer loop: the items of one     *)
(* (local directory, remote directory) pair go into the four lists, and    *)
(* if any is checked DoSynchronizeProgress is called and the bulk          *)
(* operations run in the code's order.  A bulk operation that returns      *)
(* false (the user cancelled it, after it did part of its work) makes      *)
(* SynchronizeApply Abort.  The copies and deletions are what the file     *)
(* systems do to the trees: a copy carries the subtree, a delete removes   *)
(* it.                                                                     *)
(***************************************************************************)
EXTENDS SyncCollect

CONSTANTS
  PreserveTime,    \* CopyParam->GetPreserveTime() of the caller
  ApplyOutcomes    \* "ok", and "cancel" if bulk operations may be cancelled

ASSUME PreserveTime \in BOOLEAN
ASSUME "ok" \in ApplyOutcomes /\ ApplyOutcomes \subseteq {"ok", "cancel"}

VARIABLES
  round,   \* 1: the collect and apply; 2: the collect that follows
  cursor   \* IIndex of SynchronizeApply

applyVars == <<vars, round, cursor>>

Path(i) == LocalPath(i)   \* local and remote paths coincide

IsPrefix(p, q) == Len(p) <= Len(q) /\ SubSeq(q, 1, Len(p)) = p

(* The last index of the group that starts at k: the inner while loop.  *)
RECURSIVE GroupEnd(_, _)
GroupEnd(s, k) ==
  IF k < Len(s) /\ s[k + 1].ldir = s[k].ldir /\ s[k + 1].rdir = s[k].rdir
    THEN GroupEnd(s, k + 1)
    ELSE k

(* The copy of the subtree at p from the tree src over dst: the file     *)
(* system's recursive copy, AllowTransfer skipping excluded names.  The  *)
(* entries take the target's precision, and the time of the source only *)
(* if time is preserved (else the time of the copy, now).                *)
CopyTree(src, dst, p, preserve, fmt, now) ==
  [q \in Paths |->
     IF IsPrefix(p, q) /\ \A k \in Len(p)..Len(q) : q[k] \notin Excluded
       THEN IF src[q].kind = "file"
              THEN [src[q] EXCEPT
                      !.time = ReduceDateTimePrecision(
                                 IF preserve THEN src[q].time ELSE now, fmt),
                      !.fmt = fmt]
              ELSE src[q]
       ELSE dst[q]]

(* Mutant: the delete removes the entry but not what is below it. *)
DeleteTreeTopOnly(t, p) == [t EXCEPT ![p] = NoEntry]

(* RecursiveDeleteFile, and DeleteFile of a remote file or directory.    *)
DeleteTree(t, p) == [q \in Paths |-> IF IsPrefix(p, q) THEN NoEntry ELSE t[q]]

(* SetLocalFileTime to the listed Remote.Modification, and               *)
(* ChangeFileProperties of the remote time to the local one.             *)
SetTime(t, p, time, fmt) ==
  [t EXCEPT ![p].time = ReduceDateTimePrecision(time, fmt)]

(* Mutant: the two copy lists are handed to each other's operation. *)
BucketsSwappedCopies(p, items) ==
  LET with(as) == {i \in items : i.checked /\ i.action \in as}
  IN IF "spTimestamp" \in p
       THEN <<[op |-> "LocalTimestamp", items |-> with({"saDownloadUpdate"})],
              [op |-> "RemoteTimestamp", items |-> with({"saUploadUpdate"})]>>
       ELSE <<[op |-> "CopyToLocal",
               items |-> with({"saUploadNew", "saUploadUpdate"})],
              [op |-> "DeleteFiles", items |-> with({"saDeleteRemote"})],
              [op |-> "CopyToRemote",
               items |-> with({"saDownloadNew", "saDownloadUpdate"})],
              [op |-> "DeleteLocalFiles", items |-> with({"saDeleteLocal"})]>>

(* The lists of a group, in the order SynchronizeApply processes them.   *)
(* In timestamp mode only the two update actions go to a list.          *)
Buckets(p, items) ==
  LET with(as) == {i \in items : i.checked /\ i.action \in as}
  IN IF "spTimestamp" \in p
       THEN <<[op |-> "LocalTimestamp", items |-> with({"saDownloadUpdate"})],
              [op |-> "RemoteTimestamp", items |-> with({"saUploadUpdate"})]>>
       ELSE <<[op |-> "CopyToLocal",
               items |-> with({"saDownloadNew", "saDownloadUpdate"})],
              [op |-> "DeleteFiles", items |-> with({"saDeleteRemote"})],
              [op |-> "CopyToRemote",
               items |-> with({"saUploadNew", "saUploadUpdate"})],
              [op |-> "DeleteLocalFiles", items |-> with({"saDeleteLocal"})]>>

(* One file of a bulk operation on the pair of trees tr.                  *)
ProcessFile(tr, op, i, preserve, fmt, now) ==
  LET p == Path(i) IN
  CASE op = "CopyToLocal" ->
         [tr EXCEPT !.l = CopyTree(tr.r, @, p, preserve, "mfFull", now)]
    [] op = "CopyToRemote" ->
         [tr EXCEPT !.r = CopyTree(tr.l, @, p, preserve, fmt, now)]
    [] op = "DeleteFiles" -> [tr EXCEPT !.r = DeleteTree(@, p)]
    [] op = "DeleteLocalFiles" -> [tr EXCEPT !.l = DeleteTree(@, p)]
    [] op = "LocalTimestamp" ->
         [tr EXCEPT !.l = SetTime(@, p, tr.r[p].time, "mfFull")]
    [] op = "RemoteTimestamp" ->
         [tr EXCEPT !.r = SetTime(@, p, tr.l[p].time, tr.r[p].fmt)]

(* ProcessFiles over a set of files, in any order (they are disjoint).  *)
RECURSIVE ProcessFiles(_, _, _, _, _, _)
ProcessFiles(tr, op, S, preserve, fmt, now) ==
  IF S = {} THEN tr
  ELSE LET i == CHOOSE x \in S : TRUE
       IN ProcessFiles(ProcessFile(tr, op, i, preserve, fmt, now), op, S \ {i},
                       preserve, fmt, now)

(* The bulk operations from the k-th on, the c-th (0 for none) being    *)
(* cancelled after it processed the files done.  An empty list is not   *)
(* passed to its operation.                                              *)
RECURSIVE RunBuckets(_, _, _, _, _, _, _, _)
RunBuckets(tr, bs, k, c, done, preserve, fmt, now) ==
  IF k > Len(bs) \/ (c > 0 /\ k > c) THEN tr
  ELSE LET files == IF k = c THEN done ELSE bs[k].items
       IN RunBuckets(ProcessFiles(tr, bs[k].op, files, preserve, fmt, now),
                     bs, k + 1, c, done, preserve, fmt, now)

(* Mutant: the caller's PreserveTime is used as it is. *)
SyncPreserveTimeNotForced(p) == PreserveTime

(* SyncCopyParam: time preserved whenever synchronizing by time. *)
SyncPreserveTime(p) == "spNotByTime" \notin p \/ PreserveTime

-----------------------------------------------------------------------------

ApplyInit == Init /\ round = 1 /\ cursor = 1

ApplyAborted ==
  /\ phase' = "aborted"
  /\ UNCHANGED <<mode, params, stack, checklist, sorted, round, cursor>>

(* One pass of the outer loop of SynchronizeApply over the group at      *)
(* IIndex: the lists, then, if any item is checked, DoSynchronizeProgress *)
(* (whose Continue = false aborts) and the bulk operations; one of them  *)
(* that returns false aborts.  fmt is the precision the server lists     *)
(* new files at, now the time copies get when time is not preserved.     *)
ApplyGroup ==
  /\ round = 1 /\ phase = "done" /\ cursor <= Len(sorted)
  /\ LET e == GroupEnd(sorted, cursor)
         items == {sorted[k] : k \in cursor..e}
         bs == Buckets(params, items)
         nonEmpty == {k \in 1..Len(bs) : bs[k].items # {}}
         tr == [l |-> local, r |-> remote]
     IN IF \A i \in items : ~i.checked
          THEN /\ cursor' = e + 1
               /\ UNCHANGED <<local, remote, phase>>
          ELSE \E fmt \in RemoteFmts, now \in Times, o \in ApplyOutcomes :
                 IF o = "cancel"
                   THEN \/ /\ UNCHANGED <<local, remote>>   \* DoSynchronizeProgress
                           /\ ApplyAborted
                        \/ \E c \in nonEmpty : \E done \in SUBSET bs[c].items :
                             LET tr2 == RunBuckets(tr, bs, 1, c, done,
                                                   SyncPreserveTime(params), fmt, now)
                             IN /\ local' = tr2.l /\ remote' = tr2.r
                                /\ ApplyAborted
                   ELSE LET tr2 == RunBuckets(tr, bs, 1, 0, {},
                                              SyncPreserveTime(params), fmt, now)
                        IN /\ local' = tr2.l /\ remote' = tr2.r
                           /\ cursor' = e + 1
                           /\ UNCHANGED phase
  /\ UNCHANGED <<mode, params, stack, checklist, sorted, round>>

(* The same synchronization run again once SynchronizeApply returned.    *)
Recollect ==
  /\ round = 1 /\ phase = "done" /\ cursor > Len(sorted)
  /\ round' = 2
  /\ phase' = "idle" /\ checklist' = {} /\ sorted' = <<>> /\ cursor' = 1
  /\ UNCHANGED <<local, remote, mode, params, stack>>

ApplyNext ==
  \/ Next /\ UNCHANGED <<round, cursor>>
  \/ ApplyGroup
  \/ Recollect

ApplySpec == ApplyInit /\ [][ApplyNext]_applyVars

-----------------------------------------------------------------------------
(* Properties *)

ApplyTypeOK ==
  /\ round \in {1, 2}
  /\ cursor \in 1..Len(sorted) + 1
  /\ local \in Trees({"mfFull"})
  /\ remote \in Trees(RemoteFmts)

(* Synchronization is idempotent: once SynchronizeApply has completed   *)
(* the plan of a collect, collecting again with the same mode and params *)
(* finds nothing left to do, whatever the listing orders, precisions and *)
(* flags.                                                                 *)
Idempotent ==
  round = 2 /\ phase = "done" => \A i \in checklist : ~i.checked

(* P8 for the effects: SynchronizeApply in mode smRemote never changes  *)
(* the local tree and in mode smLocal never the remote one, even when a  *)
(* bulk operation is cancelled half-way.                                  *)
SourceUntouched ==
  [][/\ mode = "smRemote" => local' = local
     /\ mode = "smLocal" => remote' = remote]_applyVars
=============================================================================
