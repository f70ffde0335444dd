------------------------ MODULE SynchronizeController -----------------------
(***************************************************************************)
(* The keep-up-to-date controller, TSynchronizeController                 *)
(* (src/Common/SynchronizeController.cpp), composed with the terminal it  *)
(* synchronizes through (Lifecycle).                                       *)
(*                                                                         *)
(* StartStop creates and opens a directory monitor (TDiscMonitor, whose   *)
(* thread posts its events to the main thread) or destroys it.  Each      *)
(* change the monitor reports runs SynchronizeChange on the main thread:  *)
(* FOnSynchronize synchronizes that directory over the terminal, and an   *)
(* exception ends in SynchronizeAbort, which closes the monitor and asks  *)
(* the owner to stop, with Close set when the exception is an EFatal.     *)
(* The synchronization itself is the engine of SyncCollect and SyncApply; *)
(* here it is one step that begins and one that ends, and between them    *)
(* the terminal may lose its connection and run its reconnect loop.       *)
(*                                                                         *)
(* mon.monitor is FSynchronizeMonitor: "none" (NULL), "open" or "closed"  *)
(* (closed by SynchronizeAbort, not yet destroyed); mon.options is        *)
(* FOptions # NULL; mon.pc is "sync" while SynchronizeChange runs;        *)
(* mon.abort is the Close argument of the last FSynchronizeAbort call     *)
(* since the last start ("none" if there was none).                       *)
(***************************************************************************)
EXTENDS Lifecycle

VARIABLE mon

allVars == <<term, mon>>

StartOutcomes == {"ok", "error"}   \* an exception from FOnSynchronize or Open

(* SynchronizeAbort: closes the monitor if there is one, then calls     *)
(* FSynchronizeAbort(NULL, Close).                                       *)
SynchronizeAbort(m, close) ==
  [m EXCEPT !.monitor = IF @ = "none" THEN "none" ELSE "closed",
            !.abort = IF close THEN "close" ELSE "keep", !.pc = "idle"]

(* The catch of SynchronizeChange: Close is set for an EFatal only. *)
ChangeFailed(m, fatal) == SynchronizeAbort(m, fatal)

-----------------------------------------------------------------------------

MonitorInit ==
  mon = [monitor |-> "none", options |-> FALSE, pc |-> "idle", abort |-> "none"]

(* StartStop(Start = true) on a stopped controller, between operations  *)
(* of the terminal: FOptions is set first; the first synchronization    *)
(* (soSynchronize) or the monitor's Open may throw, and the catch        *)
(* destroys the monitor and rethrows.                                    *)
Start(out) ==
  /\ mon.monitor = "none" /\ mon.pc = "idle" /\ term.pc = "idle"
  /\ mon' = [mon EXCEPT !.options = TRUE, !.abort = "none",
                        !.monitor = IF out = "ok" THEN "open" ELSE "none"]
  /\ UNCHANGED term

(* StartStop(Start = false): FOptions = NULL and the monitor destroyed. *)
Stop ==
  /\ mon.pc = "idle"
  /\ mon' = [mon EXCEPT !.options = FALSE, !.monitor = "none"]
  /\ UNCHANGED term

(* The monitor reports a change; SynchronizeChange calls FOnSynchronize, *)
(* which synchronizes the directory over the terminal.                   *)
ChangeBegin ==
  /\ mon.monitor = "open" /\ mon.pc = "idle" /\ term.pc = "idle"
  /\ mon' = [mon EXCEPT !.pc = "sync"]
  /\ UNCHANGED term

(* FOnSynchronize returns or throws, once the terminal has come back    *)
(* from any reconnect.  On a session that is not connected it throws    *)
(* the EFatal of the lost connection; on a connected one it succeeds, or *)
(* fails with an ordinary error.                                         *)
ChangeEnd(ok) ==
  /\ mon.pc = "sync" /\ term.pc = "idle"
  /\ mon' = IF ~Active(term) THEN ChangeFailed(mon, TRUE)
            ELSE IF ok THEN [mon EXCEPT !.pc = "idle"]
            ELSE ChangeFailed(mon, FALSE)
  /\ UNCHANGED term

(* SynchronizeInvalid: the monitor cannot watch a directory any more. *)
Invalid ==
  /\ mon.monitor = "open" /\ mon.pc = "idle"
  /\ mon' = SynchronizeAbort(mon, FALSE)
  /\ UNCHANGED term

(* The terminal's own steps.  While a change is being synchronized the  *)
(* main thread is busy: the user can neither open nor close, but the    *)
(* connection may drop and the reconnect loop run.                       *)
TerminalStep ==
  /\ \/ (UserOpen \/ UserClose) /\ mon.pc = "idle"
     \/ \E tun \in TunnelOutcomes, main \in OpenOutcomes, st \in OpenOutcomes,
           late \in BOOLEAN : OpenIteration(tun, main, st, late)
     \/ \E a \in {"retry", "abort"}, late \in BOOLEAN : Answer(a, late)
     \/ ConnectionLost
     \/ TunnelDies
  /\ UNCHANGED mon

MonitorNext ==
  \/ \E out \in StartOutcomes : Start(out)
  \/ Stop
  \/ ChangeBegin
  \/ \E ok \in BOOLEAN : ChangeEnd(ok)
  \/ Invalid

ComposedInit == Init /\ MonitorInit

ComposedNext == TerminalStep \/ MonitorNext

(* The terminal's fairness (Lifecycle).  Nothing is assumed of           *)
(* SynchronizeChange: FOnSynchronize is not in the repository, and its   *)
(* return depends on the network as much as on the code.                 *)
ComposedSpec == ComposedInit /\ [][ComposedNext]_allVars /\ Fairness
=============================================================================
