-------------------------- MODULE MCAutomationRuns --------------------------
(* Two automations, one due at 1 and 2, one at 1: an instance for TLC. *)
EXTENDS AutomationRuns, TLC

CONSTANTS a1, a2
TwoSchedules == a1 :> {1, 2} @@ a2 :> {1}
=============================================================================
