------------------------------ MODULE CheckEval ------------------------------
(***************************************************************************)
(* The verdict on a build: monitor.ResolveRequiredChecks and               *)
(* monitor.EvaluateChecks (src/internal/monitor/monitor.go).               *)
(*                                                                         *)
(* A ledger is what queue.GetCheckStatuses returns for one queue entry: at *)
(* most one recorded state per check context (the table is UNIQUE on       *)
(* queue_entry_id, context), so it is a function from contexts to states,  *)
(* NoCheck where nothing was recorded.                                     *)
(***************************************************************************)

CheckState == {"pending", "success", "failure", "error"}

NoCheck == "none"

Red == {"failure", "error"}

Verdict == {"waiting", "success", "failure"}

(* Forge-reported required checks win over the configured fallback.        *)
ResolveRequiredChecks(fromForge, fallback) ==
    IF fromForge # {} THEN fromForge ELSE fallback

(* With nothing required one green context is enough, and a red one only   *)
(* decides while none is green; otherwise a red required context decides   *)
(* even while others are still missing.                                    *)
EvaluateChecks(ledger, required) ==
    LET green == {c \in DOMAIN ledger : ledger[c] = "success"}
        red   == {c \in DOMAIN ledger : ledger[c] \in Red}
    IN  IF required = {}
        THEN IF green # {} THEN "success"
             ELSE IF red # {} THEN "failure" ELSE "waiting"
        ELSE IF required \cap red # {} THEN "failure"
             ELSE IF required \subseteq green THEN "success" ELSE "waiting"

=============================================================================
