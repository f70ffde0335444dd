----------------------------- MODULE Connection ----------------------------
(***************************************************************************)
(* What a TTerminal promises about its connection, without the tunnel,    *)
(* the file system, the loops of Open and QueryReopen or the prompt.      *)
(*                                                                         *)
(* A session is closed, connecting or connected.  While it connects it may *)
(* ask the user to reconnect, at most MaxRetries times in a row: the      *)
(* count of prompts is only cleared by a connection that succeeds.        *)
(* Connecting always ends, connected or closed.  Lifecycle implements     *)
(* this specification under the mapping given there.                      *)
(***************************************************************************)
EXTENDS Naturals

CONSTANT MaxRetries

VARIABLES
  conn,     \* "closed", "connecting" or "connected"
  prompts   \* reconnect prompts since the last successful connection

vars == <<conn, prompts>>

Init == conn = "closed" /\ prompts = 0

(* The user opens a closed session. *)
Connect == conn = "closed" /\ conn' = "connecting" /\ UNCHANGED prompts

(* The user is asked whether to reconnect, within the budget. *)
Prompt ==
  /\ conn = "connecting" /\ prompts < MaxRetries
  /\ prompts' = prompts + 1 /\ UNCHANGED conn

(* The connection is up; the budget is whole again. *)
Connected == conn = "connecting" /\ conn' = "connected" /\ prompts' = 0

(* Connecting gives up and the session stays closed. *)
GiveUp == conn = "connecting" /\ conn' = "closed" /\ UNCHANGED prompts

(* A connected session is closed by the user or by a lost connection. *)
Disconnect == conn = "connected" /\ conn' = "closed" /\ UNCHANGED prompts

(* The connection drops and the user is asked at once to reconnect. *)
Lost ==
  /\ conn = "connected" /\ prompts < MaxRetries
  /\ conn' = "connecting" /\ prompts' = prompts + 1

Next == Connect \/ Prompt \/ Connected \/ GiveUp \/ Disconnect \/ Lost

Spec == Init /\ [][Next]_vars /\ WF_vars(Connected \/ GiveUp)
=============================================================================
