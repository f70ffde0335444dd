----------------------------- MODULE Overwrite -----------------------------
(***************************************************************************)
(* Overwrite confirmation: TTerminal::ConfirmFileOverwrite and             *)
(* EffectiveBatchOverwrite (src/src/core/Terminal.cpp), called by a        *)
(* transfer for each file whose target exists.                             *)
(*                                                                         *)
(* The batch mode the user picks (Yes to all, No to all, All = older) is   *)
(* kept in the operation's progress, OperationProgress->BatchOverwrite,    *)
(* and "never ask again" turns ConfirmOverwriting off in the               *)
(* configuration, for every later operation too.  One ConfirmFile step is *)
(* one call with the target's details (FileParams, or none) and the       *)
(* answer the user would give if asked.                                    *)
(***************************************************************************)
EXTENDS Naturals

CONSTANTS
  NumFiles,     \* files of one operation that need a confirmation
  ParamsModes,  \* copy params (cp* flags) an operation may have
  Times,        \* modification times, in seconds
  Precisions    \* TModificationFmt of a listing: "mfFull" or "mfMDHM"

ASSUME NumFiles \in Nat \ {0}
ASSUME \A p \in ParamsModes :
         p \subseteq {"cpResume", "cpAppend", "cpNewerOnly", "cpNoConfirmation"}
ASSUME Precisions \subseteq {"mfFull", "mfMDHM"}

VARIABLES
  params,   \* the operation's copy params
  ascii,    \* OperationProgress->AsciiTransfer
  batch,    \* OperationProgress->BatchOverwrite
  confirm,  \* Configuration->GetConfirmOverwriting()
  k,        \* calls made in this operation
  chosen,   \* the batch answer the user gave in this operation (history)
  last      \* the last call: its file, whether it asked, the mode used, the result

vars == <<params, ascii, batch, confirm, k, chosen, last>>

NoParams == [none |-> TRUE]   \* FileParams == NULL

FileParamsSet ==
  [destSmaller : BOOLEAN, srcTime : Times, srcPrec : Precisions,
   dstTime : Times, dstPrec : Precisions]

Answers == {"qaYes", "qaNo", "qaYesToAll", "qaAll", "qaNoToAll", "qaNeverAskAgain"}

BatchModes == {"boNo", "boAll", "boNone", "boOlder", "boAlternateResume",
               "boResume", "boAppend"}

(* LessDateTimePrecision: the coarser of two precisions. *)
LessDateTimePrecision(p1, p2) ==
  IF "mfMDHM" \in {p1, p2} THEN "mfMDHM" ELSE "mfFull"

(* ReduceDateTimePrecision: mfMDHM listings carry no seconds. *)
ReduceDateTimePrecision(t, fmt) == IF fmt = "mfMDHM" THEN t - (t % 60) ELSE t

(* Mutant: confirmations switched off globally are not looked at. *)
EffectiveBatchOverwriteIgnoresConfig(p, progressBatch, conf, special) ==
  CASE special /\ "cpResume" \in p -> "boResume"
    [] "cpAppend" \in p -> "boAppend"
    [] "cpNewerOnly" \in p -> "boOlder"
    [] "cpNoConfirmation" \in p -> "boAll"
    [] OTHER ->
         IF ~special /\ progressBatch \in {"boOlder", "boAlternateResume", "boResume"}
           THEN "boNo" ELSE progressBatch

(* EffectiveBatchOverwrite: the copy params first, then the mode the     *)
(* progress records; the special modes only where special.               *)
EffectiveBatchOverwrite(p, progressBatch, conf, special) ==
  CASE special /\ "cpResume" \in p -> "boResume"
    [] "cpAppend" \in p -> "boAppend"
    [] "cpNewerOnly" \in p -> "boOlder"
    [] "cpNoConfirmation" \in p \/ ~conf -> "boAll"
    [] OTHER ->
         IF ~special /\ progressBatch \in {"boOlder", "boAlternateResume", "boResume"}
           THEN "boNo" ELSE progressBatch

CanAlternateResume(fp) == fp # NoParams /\ fp.destSmaller /\ ~ascii

(* Whether a mode can decide for this file. *)
Applicable(b, fp) ==
  CASE b = "boOlder" -> fp # NoParams
    [] b \in {"boAlternateResume", "boResume"} -> CanAlternateResume(fp)
    [] OTHER -> TRUE

(* Mutant: the times are reduced to the source's precision only. *)
NewerSourcePrecision(fp) ==
  ReduceDateTimePrecision(fp.srcTime, fp.srcPrec)
    > ReduceDateTimePrecision(fp.dstTime, fp.srcPrec)

(* The boOlder test: the source is newer once both times are reduced to  *)
(* the coarser precision (CompareFileTime > 0).                          *)
Newer(fp) ==
  LET pr == LessDateTimePrecision(fp.srcPrec, fp.dstPrec)
  IN ReduceDateTimePrecision(fp.srcTime, pr) > ReduceDateTimePrecision(fp.dstTime, pr)

(* The answer a batch mode gives without asking. *)
BatchAnswer(b, fp) ==
  CASE b = "boAll" -> "qaYes"
    [] b = "boNone" -> "qaNo"
    [] b = "boOlder" -> IF fp # NoParams /\ Newer(fp) THEN "qaYes" ELSE "qaNo"
    [] b = "boAlternateResume" -> "qaSkip"
    [] b \in {"boAppend", "boResume"} -> "qaRetry"

(* The mode an answer to the prompt selects. *)
UserBatch(ans) ==
  CASE ans = "qaYesToAll" -> "boAll"
    [] ans = "qaAll" -> "boOlder"
    [] ans = "qaNoToAll" -> "boNone"
    [] OTHER -> "boNo"

(* Mutant: "never ask again" is returned as it came from the prompt. *)
PromptResultUnmapped(ans) == ans

(* The prompt's answer as ConfirmFileOverwrite returns it. *)
PromptResult(ans) == IF ans = "qaNeverAskAgain" THEN "qaYes" ELSE ans

(* Mutant: the mode the user picks is not stored in the progress. *)
StoredBatchNotKept(asked, b) == batch

(* The progress keeps a mode the user picked at the prompt. *)
StoredBatch(asked, b) == IF asked /\ b # "boNo" THEN b ELSE batch

-----------------------------------------------------------------------------

Init ==
  /\ params \in ParamsModes
  /\ ascii \in BOOLEAN
  /\ batch = "boNo"
  /\ confirm \in BOOLEAN
  /\ k = 0
  /\ chosen = "none"
  /\ last = [fp |-> NoParams, asked |-> FALSE, used |-> "boNo", result |-> "none"]

(* ConfirmFileOverwrite for one file, with the answer ans if it asks.   *)
ConfirmFile(fp, ans) ==
  /\ k < NumFiles
  /\ LET b0 == EffectiveBatchOverwrite(params, batch, confirm, TRUE)
         b1 == IF Applicable(b0, fp) THEN b0
               ELSE EffectiveBatchOverwrite(params, batch, confirm, FALSE)
         asked == b1 = "boNo"
         b2 == IF asked THEN UserBatch(ans) ELSE b1
         result == IF b2 # "boNo" THEN BatchAnswer(b2, fp) ELSE PromptResult(ans)
     IN /\ batch' = StoredBatch(asked, b2)
        /\ confirm' = (confirm /\ ~(asked /\ ans = "qaNeverAskAgain"))
        /\ k' = k + 1
        /\ chosen' = IF asked /\ ans \in {"qaYesToAll", "qaNoToAll", "qaAll"}
                       THEN ans ELSE chosen
        /\ last' = [fp |-> fp, asked |-> asked, used |-> b2, result |-> result]
  /\ UNCHANGED <<params, ascii>>

(* The operation ends and a new one starts with a fresh progress; the   *)
(* configuration stays.                                                  *)
NewOperation ==
  /\ k = NumFiles
  /\ params' \in ParamsModes
  /\ ascii' \in BOOLEAN
  /\ batch' = "boNo"
  /\ k' = 0
  /\ chosen' = "none"
  /\ UNCHANGED <<confirm, last>>

Next ==
  \/ \E fp \in FileParamsSet \cup {NoParams}, ans \in Answers : ConfirmFile(fp, ans)
  \/ NewOperation

Spec == Init /\ [][Next]_vars

-----------------------------------------------------------------------------
(* Properties *)

TypeOK ==
  /\ params \in ParamsModes /\ ascii \in BOOLEAN
  /\ batch \in BatchModes /\ confirm \in BOOLEAN
  /\ k \in 0..NumFiles
  /\ chosen \in {"none", "qaYesToAll", "qaNoToAll", "qaAll"}
  /\ last.fp \in FileParamsSet \cup {NoParams}
  /\ last.used \in BatchModes
  /\ last.result \in {"none", "qaYes", "qaNo", "qaSkip", "qaRetry"}

(* P9: whenever a file is decided by the "older" mode, it is overwritten *)
(* exactly when the source is strictly newer, comparing both times at   *)
(* the coarser of the two precisions; a file without details is kept.    *)
OlderRule ==
  [][k' = k + 1 /\ last'.used = "boOlder" =>
       (last'.result = "qaYes" <=>
          /\ last'.fp # NoParams
          /\ LET pr == IF last'.fp.srcPrec = "mfFull" /\ last'.fp.dstPrec = "mfFull"
                         THEN 1 ELSE 60
             IN last'.fp.srcTime \div pr > last'.fp.dstTime \div pr)]_vars

(* Yes to all and No to all hold for the rest of the operation: the user *)
(* is not asked again, and every later file gets that answer, except     *)
(* that with cpResume a file that can be resumed is resumed (qaRetry),   *)
(* as the copy params take precedence over the progress's mode.          *)
BatchHonoured ==
  [][k' = k + 1 =>
       /\ chosen = "qaYesToAll" => ~last'.asked /\ last'.result \in {"qaYes", "qaRetry"}
       /\ chosen = "qaNoToAll" => ~last'.asked /\ last'.result \in {"qaNo", "qaRetry"}]_vars

(* "Never ask again" holds for every later file of every later          *)
(* operation: once ConfirmOverwriting is off, nothing asks.             *)
NeverAskHonoured == [][k' = k + 1 /\ ~confirm => ~last'.asked]_vars
=============================================================================
