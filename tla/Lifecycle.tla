----------------------------- MODULE Lifecycle -----------------------------
(***************************************************************************)
(* The connection lifecycle of TTerminal (src/src/core/Terminal.cpp):      *)
(* the retry loop of Open with the optional SSH tunnel, the cleanup its    *)
(* EFatal handler does before trying again, DoQueryReopen with its retry   *)
(* counter, QueryReopen's loop around Reopen, FatalError, Close and        *)
(* Closed, and the tunnel thread that pumps the tunnel's secure shell.     *)
(*                                                                         *)
(* The session is single-threaded; the one concurrent actor is            *)
(* TTunnelThread.  One OpenIteration step is one pass of the do/while of  *)
(* Open, from ResetConnection to its catch handlers; the reconnect prompt *)
(* of DoQueryReopen is a state of its own (pc = "ask") so that the user's *)
(* answer, or its timeout, is a step.  Exceptions are not state: each     *)
(* operator passes on the state the throw leaves and calls the handler    *)
(* that catches it.                                                        *)
(***************************************************************************)
EXTENDS Naturals

CONSTANTS
  MaxRetries,   \* GetSessionReopenAutoMaximumNumberOfRetries()
  TunnelModes,  \* values FSessionData->GetTunnel() may have
  SshModes      \* TRUE: the SSH branch of Open; FALSE: FTP or WebDAV

ASSUME MaxRetries \in Nat
ASSUME TunnelModes \subseteq BOOLEAN /\ SshModes \subseteq BOOLEAN

VARIABLE term

(* Outcomes of the steps of one Open iteration. *)
TunnelOutcomes == {"ok", "noport", "fail"}   \* port search, FTunnel->Open
OpenOutcomes == {"ok", "fatal", "error"}     \* file system open, DoStartup

(* GetActive: a file system exists and is connected. *)
Active(s) == s.fs = "active"

(* Back to the caller: nothing of Open or QueryReopen is running. *)
Rest(s) == [s EXCEPT !.pc = "idle", !.inQR = FALSE]

(* CloseTunnel: destroys the thread (terminate and join), the tunnel's  *)
(* secure shell, its UI, log and session data, and releases the port.    *)
CloseTunnel(s) ==
  [s EXCEPT !.thread = "none", !.tunnel = FALSE, !.tunnelData = FALSE]

(* Closed: the file system reports the end of its connection. *)
Closed(s) == [IF s.tunnel THEN CloseTunnel(s) ELSE s EXCEPT !.status = "ssClosed"]

(* Close: FFileSystem->Close, whose end of connection calls Closed back  *)
(* (the file systems are not under src/).                                *)
Close(s) == Closed([s EXCEPT !.fs = "inactive"])

(* Mutant: the active connection is left open. *)
FatalErrorNoClose(s) == s

(* FatalError without a callback guard: closes the connection if it is  *)
(* active, then throws ESshFatal, which the caller handles.  The         *)
(* FSecureShell of the SSH branch is never active when this is reached.  *)
FatalError(s) == IF Active(s) THEN Close(s) ELSE s

(* OpenTunnel: the port search (FatalError when no port is free), then  *)
(* the tunnel's secure shell and the thread; a failure in the try block *)
(* runs CloseTunnel and rethrows.  TTunnelUI::FatalError throws ESshFatal. *)
OpenTunnel(s, tun) ==
  CASE tun = "ok" ->
         [s |-> [s EXCEPT !.tunnel = TRUE, !.tunnelData = TRUE,
                          !.thread = "running"],
          exc |-> "none"]
    [] tun = "noport" -> [s |-> FatalError(s), exc |-> "fatal"]
    [] tun = "fail" ->
         [s |-> CloseTunnel([s EXCEPT !.tunnel = TRUE, !.tunnelData = TRUE]),
          exc |-> "fatal"]

(* The file system part of Open: create and open one, or reopen the one *)
(* that is there.  A failed SSH open deletes FSecureShell and leaves no *)
(* file system; FTP and WebDAV create theirs before opening it.          *)
OpenFileSystem(s, main) ==
  IF main = "ok"
    THEN [s |-> [s EXCEPT !.fs = "active"], exc |-> "none"]
    ELSE [s |-> [s EXCEPT !.fs = IF @ = "none" /\ s.ssh THEN "none" ELSE "inactive"],
          exc |-> main]

(* DoStartup and the end of the try block.  A connection lost during    *)
(* startup comes through FatalError, which closes it.                    *)
Startup(s, st) ==
  CASE st = "ok" -> [s |-> [s EXCEPT !.status = "ssOpened"], exc |-> "none"]
    [] st = "fatal" -> [s |-> FatalError(s), exc |-> "fatal"]
    [] st = "error" -> [s |-> s, exc |-> "error"]

(* Mutant: the exception's ReopenQueried mark is ignored. *)
DoQueryReopenAskAgain(s, queried, from, no) ==
  IF s.retries >= MaxRetries THEN no
  ELSE [s EXCEPT !.retries = @ + 1, !.pc = "ask", !.from = from]

(* Mutant: the retry bound checked off by one. *)
DoQueryReopenOffByOne(s, queried, from, no) ==
  IF queried \/ s.retries > MaxRetries THEN no
  ELSE [s EXCEPT !.retries = @ + 1, !.pc = "ask", !.from = from]

(* DoQueryReopen on an EFatal: false if this exception was asked about  *)
(* already or the retries are used up (the state no); else counts the   *)
(* retry and asks (qaRetry or qaAbort).  The exception is marked queried *)
(* in both of the last cases, so its handlers pass TRUE from here on.    *)
DoQueryReopen(s, queried, from, no) ==
  IF queried \/ s.retries >= MaxRetries THEN no
  ELSE [s EXCEPT !.retries = @ + 1, !.pc = "ask", !.from = from]

(* The catch of QueryReopen's loop: an active session rethrows; else    *)
(* the loop goes on if the reopen timeout has not run out (late) and    *)
(* DoQueryReopen says so.                                                *)
QueryReopenCatch(s, queried, late) ==
  IF Active(s) \/ late THEN Rest(s)
  ELSE DoQueryReopen(s, queried, "qr", Rest(s))

(* An EFatal leaves Open: to the user, or to QueryReopen's catch. *)
OpenThrows(s, queried, late) ==
  IF s.inQR THEN QueryReopenCatch(s, queried, late) ELSE Rest(s)

(* Mutant: the retry counter is not reset after a successful open. *)
OpenSucceedsNoReset(s) == Rest(s)

(* Open returns: SetNumberOfRetries(0) after the loop, and again in the *)
(* loop of QueryReopen, which then ends as the session is active.        *)
OpenSucceeds(s) == Rest([s EXCEPT !.retries = 0])

(* The cleanup of Open's EFatal handler when the user reconnects.  It   *)
(* deletes FTunnel but leaves FTunnelThread as it is.                   *)
ReopenCleanup(s) ==
  [s EXCEPT !.fs = "none", !.tunnelData = FALSE, !.status = "ssClosed",
            !.tunnel = FALSE]

(* Reopen(Params) as QueryReopen calls it: closes an active session and *)
(* runs Open.  Its saving and restoring of the transaction flags is     *)
(* modelled in Transaction.                                              *)
Reopen(s) == [IF Active(s) THEN Close(s) ELSE s EXCEPT !.pc = "open", !.inQR = TRUE]

-----------------------------------------------------------------------------

Init ==
  \E tunnelMode \in TunnelModes, sshMode \in SshModes :
    term = [pc |-> "idle", inQR |-> FALSE, from |-> "open",
            status |-> "ssClosed", fs |-> "none", tunnel |-> FALSE,
            tunnelData |-> FALSE, thread |-> "none", retries |-> 0,
            useTunnel |-> tunnelMode, ssh |-> sshMode]

(* The user calls Open on a session that is not connected. *)
UserOpen ==
  /\ term.pc = "idle" /\ ~Active(term)
  /\ term' = [term EXCEPT !.pc = "open", !.inQR = FALSE]

(* One pass of the do/while of Open: ResetConnection, ssOpening, the    *)
(* tunnel, the file system, DoStartup, and the handlers.  An EFatal goes *)
(* to DoQueryReopen; any other exception to FatalError, whose ESshFatal  *)
(* leaves Open unqueried.                                                *)
OpenIteration(tun, main, st, late) ==
  /\ term.pc = "open"
  /\ LET s0 == [term EXCEPT !.status = "ssOpening"]
         r1 == IF s0.useTunnel THEN OpenTunnel(s0, tun) ELSE [s |-> s0, exc |-> "none"]
         r2 == IF r1.exc = "none" THEN OpenFileSystem(r1.s, main) ELSE r1
         r3 == IF r2.exc = "none" THEN Startup(r2.s, st) ELSE r2
     IN term' = CASE r3.exc = "none" -> OpenSucceeds(r3.s)
                  [] r3.exc = "fatal" ->
                       DoQueryReopen(r3.s, FALSE, "open", OpenThrows(r3.s, TRUE, late))
                  [] r3.exc = "error" -> OpenThrows(FatalError(r3.s), FALSE, late)

(* The answer to the reconnect prompt, given by the user or by its      *)
(* timeout (qaRetry).  In Open, retry cleans up and loops, abort        *)
(* rethrows; in QueryReopen, retry runs Reopen, abort ends the loop.    *)
Answer(a, late) ==
  /\ term.pc = "ask"
  /\ term' = CASE term.from = "open" /\ a = "retry" ->
                    [ReopenCleanup(term) EXCEPT !.pc = "open"]
               [] term.from = "open" /\ a = "abort" -> OpenThrows(term, TRUE, late)
               [] term.from = "qr" /\ a = "retry" -> Reopen(term)
               [] term.from = "qr" /\ a = "abort" -> Rest(term)

(* The connection drops while the session is at rest (found by Idle or  *)
(* by an operation): the file system calls FatalError, which closes it, *)
(* and the handler of the operation calls QueryReopen with the EFatal.  *)
ConnectionLost ==
  /\ term.pc = "idle" /\ Active(term)
  /\ LET s == FatalError(term)
     IN term' = DoQueryReopen(s, FALSE, "qr", Rest(s))

(* The user closes a connected session. *)
UserClose ==
  /\ term.pc = "idle" /\ Active(term)
  /\ term' = Close(term)

(* TTunnelThread::Execute: Idle of the tunnel's shell throws, the thread *)
(* closes the shell and its loop ends.                                   *)
TunnelDies ==
  /\ term.thread = "running"
  /\ term' = [term EXCEPT !.thread = "exited"]

Next ==
  \/ UserOpen
  \/ \E tun \in TunnelOutcomes, main \in OpenOutcomes, st \in OpenOutcomes,
        late \in BOOLEAN : OpenIteration(tun, main, st, late)
  \/ \E a \in {"retry", "abort"}, late \in BOOLEAN : Answer(a, late)
  \/ ConnectionLost
  \/ UserClose
  \/ TunnelDies

(* Open is always running code; the prompt of DoQueryReopen times out to *)
(* qaRetry (Params.TimeoutAnswer), so it is always answered.             *)
Fairness ==
  /\ WF_term(\E tun \in TunnelOutcomes, main \in OpenOutcomes,
                st \in OpenOutcomes, late \in BOOLEAN :
               OpenIteration(tun, main, st, late))
  /\ WF_term(\E late \in BOOLEAN : Answer("retry", late))

Spec == Init /\ [][Next]_term /\ Fairness

-----------------------------------------------------------------------------
(* Properties *)

TypeOK ==
  /\ term.pc \in {"idle", "open", "ask"}
  /\ term.inQR \in BOOLEAN
  /\ term.from \in {"open", "qr"}
  /\ term.status \in {"ssClosed", "ssOpening", "ssOpened"}
  /\ term.fs \in {"none", "inactive", "active"}
  /\ term.tunnel \in BOOLEAN /\ term.tunnelData \in BOOLEAN
  /\ term.thread \in {"none", "running", "exited"}
  /\ term.retries \in 0..MaxRetries
  /\ term.useTunnel \in BOOLEAN /\ term.ssh \in BOOLEAN

(* Whenever Open or QueryReopen has returned, the status the session    *)
(* reports is ssOpened exactly when the connection is active: every      *)
(* failure of Open that leaves a connection up closes it (FatalError),   *)
(* and every close goes through Closed.                                  *)
StatusMatchesConnection ==
  term.pc = "idle" => (term.status = "ssOpened" <=> Active(term))

(* Refinement mapping: the session is connecting while Open, QueryReopen *)
(* or the prompt of DoQueryReopen runs, and otherwise connected exactly   *)
(* when its file system is active; the prompts are DoQueryReopen's count. *)
ConnState ==
  IF term.pc # "idle" THEN "connecting"
  ELSE IF Active(term) THEN "connected" ELSE "closed"

Conn == INSTANCE Connection WITH conn <- ConnState, prompts <- term.retries

(* Lifecycle implements Connection: every step of Open, its EFatal      *)
(* handler, DoQueryReopen, QueryReopen, Close and the tunnel thread is   *)
(* one of its steps or leaves the abstract state alone.  In particular   *)
(* the user is never asked to reconnect more than MaxRetries times      *)
(* between two successful connections (SetNumberOfRetries(0) only after  *)
(* Open succeeds), a lost connection either prompts or closes, and      *)
(* connecting always ends.                                               *)
ImplementsConnection == Conn!Spec

(* The user's answer to the reconnect prompt is final for the exception *)
(* it was asked about: no step goes from the prompt straight to a new   *)
(* prompt, which would count another retry (the tunnel thread may end  *)
(* while the prompt is shown, which is not a new prompt).              *)
(* An abort in Open's handler rethrows the EFatal, QueryReopen's catch   *)
(* (when Open runs under it) gets that same exception, and DoQueryReopen *)
(* must see it marked ReopenQueried and end the loop rather than ask     *)
(* again; a retry first runs another pass of Open or Reopen.             *)
AbortNotAskedAgain ==
  [][term.pc = "ask" /\ term'.pc = "ask" => term'.retries = term.retries]_term

(* The tunnel thread only runs while the secure shell it pumps exists:  *)
(* TTunnelThread::Execute calls FSecureShell->Idle on FTunnel.           *)
ThreadHasTunnel == term.thread = "running" => term.tunnel
=============================================================================
