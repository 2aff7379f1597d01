---------------------------- MODULE MCL2Analyzer ----------------------------
(***************************************************************************)
(* An L2 node whose requests fail with one kind of error.                  *)
(***************************************************************************)
EXTENDS L2Analyzer

CONSTANTS requestFailed

MCAlerts == {<<"stuck", h>> : h \in Heights \cup {0}} \cup {requestFailed}

MCTypeOf == [a \in MCAlerts |-> IF a = requestFailed THEN "Simple" ELSE "L2Stuck"]

\* collectorErrorAlertConfirmations
MCRequiredConfirmations == [t \in {"Simple"} |-> 3]

MCStuckAlert == [h \in Heights \cup {0} |-> <<"stuck", h>>]
=============================================================================
