----------------------------- MODULE MCAnalyzer -----------------------------
(***************************************************************************)
(* Two criterion routines: one that raises an alert sent at once and may   *)
(* fail (unreachable nodes), one that raises an alert needing two reports  *)
(* (height).                                                               *)
(***************************************************************************)
EXTENDS Analyzer

CONSTANTS unreachable, height, internalError, rUnreachable, rHeight

MCAlerts == {unreachable, height, internalError}

MCTypeOf == [a \in MCAlerts |-> a]

MCRequiredConfirmations == [t \in {height} |-> 2]

MCRoutines == {rUnreachable, rHeight}

MCFinds == [r \in MCRoutines |-> IF r = rUnreachable THEN {unreachable}
                                 ELSE {height}]
=============================================================================
