----------------------------- MODULE RetryLoop -----------------------------
(***************************************************************************)
(* The retry loop around the file operations of a bulk operation:          *)
(* TTerminal::ProcessFiles (src/src/core/Terminal.cpp) over a list of      *)
(* files, with one of the three wrappers the code puts around a fallible  *)
(* operation on one file:                                                  *)
(*                                                                         *)
(*  "ari_action": DeleteFiles -> DeleteFile -> DoDeleteFile, whose        *)
(*    failure goes through COMMAND_ERROR_ARI_ACTION and CommandError, with *)
(*    a TRmSessionAction per attempt (a retry is a recursive call, so a   *)
(*    new action); remote side, so ProcessFiles opens a transaction.       *)
(*  "file_loop": the timestamp list of SynchronizeApply ->                 *)
(*    SynchronizeLocalTimestamp -> SetLocalFileTime, whose failure goes    *)
(*    through FILE_OPERATION_LOOP and FileOperationLoopQuery; local side, *)
(*    no session action.                                                    *)
(*  "ari": CustomCommandOnFiles -> CustomCommandOnFile ->                  *)
(*    DoCustomCommandOnFile, whose failure goes through COMMAND_ERROR_ARI  *)
(*    and CommandError with no session action (a retry is a recursive      *)
(*    call); remote side.                                                  *)
(*                                                                         *)
(* The wrapper is part of the initial state, so one model covers both.   *)
(* The one variable run is the state of one ProcessFiles call; each       *)
(* helper below is a function of it, as the code's functions are of the  *)
(* terminal and the progress object.                                       *)
(***************************************************************************)
EXTENDS Naturals, Sequences

CONSTANTS
  Wrappers,             \* the wrappers the file operation may have
  NumFiles,             \* FileList->Count
  MaxRetries,           \* bound on the retries of one file (the code has none)
  ExceptionOnFailModes  \* values FExceptionOnFail > 0 may have at the call

ASSUME Wrappers \subseteq {"ari_action", "file_loop", "ari"} /\ Wrappers # {}
ASSUME NumFiles \in Nat \ {0} /\ MaxRetries \in Nat
ASSUME ExceptionOnFailModes \subseteq BOOLEAN /\ ExceptionOnFailModes # {}

Files == 1..NumFiles
Remote(s) == s.wrapper \in {"ari_action", "ari"}   \* Side == osRemote
HasAction(s) == s.wrapper = "ari_action"          \* TRmSessionAction Action

(* What one attempt may end with: DoDeleteFile's backend call succeeds,  *)
(* or raises a command error, an EFatal or an EAbort; SetLocalFileTime's *)
(* body succeeds, raises an OS error (OpenLocalFile), or finds           *)
(* SetFileTime failed.                                                    *)
Outcomes(s) ==
  IF Remote(s) THEN {"ok", "error", "fatal", "abort"} ELSE {"ok", "error", "timefail"}

ActionStates == {"pending", "committed", "cancelled", "rolledback"}
Exceptions == {"EFatal", "EAbort", "ECommand", "EScpSkipFile"}

VARIABLE run

-----------------------------------------------------------------------------
(* TSessionAction (src/src/core/SessionInfo.h; its bodies are not in src): *)
(* Commit, Cancel and Rollback close the record if it is still open and   *)
(* do nothing otherwise; the destructor commits an open record.            *)

Close(s, k, st) ==
  IF s.actions[k].state = "pending"
    THEN [s EXCEPT !.actions[k].state = st] ELSE s

LastAction(s, st) == IF s.actions = <<>> THEN s ELSE Close(s, Len(s.actions), st)

NewAction(s) ==
  [s EXCEPT !.actions = Append(@, [file |-> s.index, state |-> "pending",
                                    failed |-> FALSE])]

(* Entering the Do* function: DoDeleteFile opens its action; under       *)
(* COMMAND_ERROR_ARI there is none.                                        *)
OpenAction(s) == IF HasAction(s) THEN NewAction(s) ELSE s

(* The destructors of the actions still open when the file's frames     *)
(* unwind.                                                                *)
Destruct(s) ==
  [s EXCEPT !.actions = [k \in DOMAIN @ |->
                           IF @[k].state = "pending"
                             THEN [@[k] EXCEPT !.state = "committed"] ELSE @[k]]]

(* Mutant: the record is cancelled whatever the exception. *)
RollbackActionAlwaysCancel(s, skipFile, withProgress) == LastAction(s, "cancelled")

(* RollbackAction: an EScpSkipFile without cancel is a skip, recorded as *)
(* cancelled; anything else is recorded as rolled back.                   *)
RollbackAction(s, skipFile, withProgress) ==
  IF skipFile /\ (~withProgress \/ s.cancel = "csContinue")
    THEN LastAction(s, "cancelled")
    ELSE LastAction(s, "rolledback")

-----------------------------------------------------------------------------
(* ProcessFiles *)

(* The finally of the file: Progress.Finish(FileName, Success), after the *)
(* frames of the file (and their actions) are gone.                        *)
FinishFile(s, success) ==
  [Destruct(s) EXCEPT !.finished[s.index] = IF success THEN "success" ELSE "failure"]

(* Index++ and back to the loop condition. *)
NextFile(s) == [s EXCEPT !.index = @ + 1, !.stage = "loop"]

(* Mutant: the finally blocks run only on a normal exit. *)
ThrowNoFinally(s, cls) ==
  [FinishFile(s, FALSE) EXCEPT !.outcome = cls, !.stage = "ended"]

(* Mutant: EndTransaction whatever the side. *)
ThrowAlwaysEnd(s, cls) ==
  [FinishFile(s, FALSE) EXCEPT !.outcome = cls, !.stage = "ended",
                               !.depth = @ - 1, !.progress = FALSE]

(* An exception leaves ProcessFiles: the file's finally, then            *)
(* EndTransaction (remote side), FOperationProgress = NULL and Stop, and  *)
(* catch (...) rethrows.                                                   *)
Throw(s, cls) ==
  [FinishFile(s, FALSE) EXCEPT !.outcome = cls, !.stage = "ended",
                               !.depth = IF Remote(s) THEN @ - 1 ELSE @,
                               !.progress = FALSE]

(* catch (EScpSkipFile & E): HandleException rethrows it when            *)
(* FExceptionOnFail, else the loop goes on with the next file.            *)
SkipCaught(s) ==
  IF s.exceptionOnFail THEN Throw(s, "EScpSkipFile")
  ELSE NextFile(FinishFile(s, FALSE))

-----------------------------------------------------------------------------
(* COMMAND_ERROR_ARI_ACTION and CommandError *)

(* Mutant: a retry leaves the failed attempt's action open. *)
AriAnswerNoCancel(s, a) ==
  CASE a = "retry" -> OpenAction([s EXCEPT !.attempt = @ + 1, !.stage = "attempt"])
    [] a \in {"skip", "all"} ->
         NextFile(FinishFile([LastAction(s, "cancelled") EXCEPT
                                !.skipToAll = @ \/ a = "all"], TRUE))
    [] a = "abort" ->
         Throw([RollbackAction(s, FALSE, FALSE) EXCEPT !.userAbort = TRUE], "EAbort")

(* The switch of COMMAND_ERROR_ARI_ACTION on the answer (qaAll is turned  *)
(* into qaSkip by CommandError after setting SkipToAll): a retry cancels   *)
(* the action and calls DoDeleteFile again, which opens a new action; a   *)
(* skip cancels it and DoDeleteFile returns normally, so DeleteFile goes  *)
(* on (ReactOnCommand) and ProcessFiles sets Success; an abort rolls it    *)
(* back and throws EAbort.  COMMAND_ERROR_ARI is the same switch with no  *)
(* action to close: qaRetry repeats DoCustomCommandOnFile, qaSkip breaks  *)
(* out so CustomCommandOnFile goes on, qaAbort calls Abort().             *)
AriAnswer(s, a) ==
  CASE a = "retry" ->
         OpenAction([LastAction(s, "cancelled") EXCEPT
                       !.attempt = @ + 1, !.stage = "attempt"])
    [] a \in {"skip", "all"} ->
         NextFile(FinishFile([LastAction(s, "cancelled") EXCEPT
                                !.skipToAll = @ \/ a = "all"], TRUE))
    [] a = "abort" ->
         Throw([RollbackAction(s, FALSE, FALSE) EXCEPT !.userAbort = TRUE], "EAbort")

(* Mutant: SkipToAll is not consulted. *)
CommandErrorNoSkipToAll(s, e) ==
  CASE e = "fatal" -> Throw(RollbackAction(s, FALSE, FALSE), "EFatal")
    [] e = "abort" -> Throw(RollbackAction(s, FALSE, FALSE), "EAbort")
    [] s.exceptionOnFail -> Throw(RollbackAction(s, FALSE, FALSE), "ECommand")
    [] OTHER -> [s EXCEPT !.stage = "query", !.prompted = TRUE]

(* CommandError(&E, Msg, qaRetry | qaSkip | qaAbort) inside the macro:     *)
(* FatalError throws ESshFatal, an EAbort is re-raised, ExceptionOnFail   *)
(* throws ECommand (each caught as E2: RollbackAction and throw); with an *)
(* operation in progress and SkipToAll set the answer is qaSkip unasked;  *)
(* else the user is asked.                                                  *)
CommandError(s, e) ==
  CASE e = "fatal" -> Throw(RollbackAction(s, FALSE, FALSE), "EFatal")
    [] e = "abort" -> Throw(RollbackAction(s, FALSE, FALSE), "EAbort")
    [] s.exceptionOnFail -> Throw(RollbackAction(s, FALSE, FALSE), "ECommand")
    [] s.skipToAll -> AriAnswer(s, "skip")
    [] OTHER -> [s EXCEPT !.stage = "query", !.prompted = TRUE]

-----------------------------------------------------------------------------
(* FILE_OPERATION_LOOP and FileOperationLoopQuery (AllowSkip = true) *)

(* The answer of FileOperationLoopQuery: qaRetry runs the body again; a   *)
(* skip (qaAll sets SkipToAll first) throws EScpSkipFile; qaAbort sets    *)
(* Cancel = csCancel and throws EScpSkipFile too.                           *)
LoopAnswer(s, a) ==
  CASE a = "retry" -> [s EXCEPT !.attempt = @ + 1, !.stage = "attempt"]
    [] a \in {"skip", "all"} -> SkipCaught([s EXCEPT !.skipToAll = @ \/ a = "all"])
    [] a = "abort" -> SkipCaught([s EXCEPT !.cancel = "csCancel", !.userAbort = TRUE])

(* A failure of the body: SetFileTime returning false calls Abort(), and *)
(* the loop lets EAbort through; an OS error goes to                       *)
(* FileOperationLoopQuery, which skips unasked under SkipToAll.           *)
FileOperationLoopQuery(s, e) ==
  CASE e = "timefail" -> Throw(s, "EAbort")
    [] s.skipToAll -> LoopAnswer(s, "skip")
    [] OTHER -> [s EXCEPT !.stage = "query", !.prompted = TRUE]

-----------------------------------------------------------------------------

Init ==
  \E w \in Wrappers, eof \in ExceptionOnFailModes :
    run = [wrapper |-> w, stage |-> "idle", index |-> 1, attempt |-> 0,
           cancel |-> "csContinue", skipToAll |-> FALSE,
           exceptionOnFail |-> eof, depth |-> 0, progress |-> FALSE,
           actions |-> <<>>, finished |-> [f \in Files |-> "none"],
           done |-> [f \in Files |-> FALSE], outcome |-> "running",
           prompted |-> FALSE, userAbort |-> FALSE]

(* The step's prompt flag is reset before each step. *)
Step(s) == [s EXCEPT !.prompted = FALSE]

(* Progress.Start, FOperationProgress = &Progress, BeginTransaction on    *)
(* the remote side.                                                        *)
Start ==
  /\ run.stage = "idle"
  /\ run' = [Step(run) EXCEPT !.stage = "loop", !.progress = TRUE,
                              !.depth = IF Remote(run) THEN @ + 1 ELSE @]

(* The loop body for the next file: DeleteFile (its check of Cancel     *)
(* cannot fire, the loop condition has just checked it) and DoDeleteFile *)
(* opening its action; or SetLocalFileTime entering its loop.              *)
StartFile ==
  /\ run.stage = "loop" /\ run.index <= NumFiles /\ run.cancel = "csContinue"
  /\ LET s == [Step(run) EXCEPT !.stage = "attempt", !.attempt = 0]
     IN run' = OpenAction(s)

(* The loop condition fails: EndTransaction, FOperationProgress = NULL,  *)
(* Result = (Progress.Cancel == csContinue).                               *)
EndLoop ==
  /\ run.stage = "loop" /\ (run.index > NumFiles \/ run.cancel # "csContinue")
  /\ run' = [Step(run) EXCEPT !.stage = "ended", !.progress = FALSE,
                              !.depth = IF Remote(run) THEN @ - 1 ELSE @,
                              !.outcome = IF run.cancel = "csContinue"
                                            THEN "true" ELSE "false"]

(* One attempt of the operation ends with o.  A failed attempt marks the *)
(* open action as failed before the error handling runs.  The backend    *)
(* raises EAbort when it finds the progress cancelled.                    *)
Attempt(o) ==
  /\ run.stage = "attempt"
  /\ o \in Outcomes(run)
  /\ o = "abort" => run.cancel = "csCancel"
  /\ LET s == Step(run)
         f == IF HasAction(s) /\ o # "ok"
                THEN [s EXCEPT !.actions[Len(s.actions)].failed = TRUE] ELSE s
     IN run' = CASE o = "ok" ->
                      NextFile(FinishFile([s EXCEPT !.done[s.index] = TRUE], TRUE))
                 [] Remote(s) -> CommandError(f, o)
                 [] OTHER -> FileOperationLoopQuery(f, o)

(* The user presses Cancel in the progress window while the operation   *)
(* runs.                                                                  *)
UserCancel ==
  /\ run.stage = "attempt" /\ run.cancel = "csContinue"
  /\ run' = [Step(run) EXCEPT !.cancel = "csCancel", !.userAbort = TRUE]

(* The user answers the error prompt; qaAll is offered since an          *)
(* operation is in progress; a retry is bounded by MaxRetries.           *)
Answer(a) ==
  /\ run.stage = "query"
  /\ a = "retry" => run.attempt < MaxRetries
  /\ run' = IF Remote(run) THEN AriAnswer(Step(run), a) ELSE LoopAnswer(Step(run), a)

Next ==
  \/ Start
  \/ StartFile
  \/ EndLoop
  \/ \E o \in {"ok", "error", "fatal", "abort", "timefail"} : Attempt(o)
  \/ UserCancel
  \/ \E a \in {"retry", "skip", "all", "abort"} : Answer(a)

Spec == Init /\ [][Next]_run

-----------------------------------------------------------------------------
(* Properties *)

Ended == run.stage = "ended"

TypeOK ==
  /\ run.wrapper \in Wrappers
  /\ run.stage \in {"idle", "loop", "attempt", "query", "ended"}
  /\ run.index \in 1..NumFiles + 1 /\ run.attempt \in 0..MaxRetries
  /\ run.cancel \in {"csContinue", "csCancel"}
  /\ run.depth \in {0, 1}
  /\ run.actions \in Seq([file : Files, state : ActionStates, failed : BOOLEAN])
  /\ run.finished \in [Files -> {"none", "success", "failure"}]
  /\ run.outcome \in {"running", "true", "false"} \cup Exceptions
  /\ run.skipToAll \in BOOLEAN /\ run.userAbort \in BOOLEAN


(* P10, and the finally blocks of ProcessFiles: whichever way the bulk   *)
(* operation ends (all files done, cancelled, or by any exception out of *)
(* the retry loop), every session action it opened is closed, the        *)
(* transaction it began is ended and FOperationProgress is cleared.      *)
ExitClean ==
  Ended => /\ run.depth = 0 /\ ~run.progress
           /\ \A k \in DOMAIN run.actions : run.actions[k].state # "pending"

(* The action log never records as committed an attempt that failed:    *)
(* every error path of COMMAND_ERROR_ARI_ACTION (retry, skip, abort, and *)
(* the exceptions CommandError raises) closes the attempt's action before *)
(* its destructor would commit it.                                        *)
NoFailedCommit ==
  \A k \in DOMAIN run.actions :
    run.actions[k].state = "committed" => ~run.actions[k].failed

(* An operation that stops because of a failure records it: if the bulk  *)
(* operation ends with an exception, the last action is rolled back, and *)
(* no action before it is (a retried or skipped attempt is cancelled).   *)
AbortRecorded ==
  Ended =>
    /\ \A k \in 1..Len(run.actions) - 1 : run.actions[k].state # "rolledback"
    /\ run.outcome \in Exceptions /\ run.actions # <<>> =>
         run.actions[Len(run.actions)].state = "rolledback"

(* P4: once SkipToAll is set in the operation's progress, no later       *)
(* failure of the same operation prompts the user; CommandError and      *)
(* FileOperationLoopQuery answer skip on their own.                      *)
SkipToAllHonoured == [][run.skipToAll => ~run'.prompted]_run

(* A skipped file counts as failed (spec, exceptions: the bulk operation *)
(* catches the skip and marks the current file failed): ProcessFiles      *)
(* reports a file as a success only if an attempt of its operation       *)
(* succeeded.                                                             *)
SkipIsFailure ==
  \A f \in Files : run.finished[f] = "success" => run.done[f]

(* A bulk operation ends with EAbort, the silent exception, only if the  *)
(* user aborted: at the error prompt, or in the operation itself.        *)
NoSilentAbort ==
  Ended /\ run.outcome = "EAbort" => run.userAbort

====
