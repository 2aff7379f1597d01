----------------------------- MODULE AlertFeed -----------------------------
(***************************************************************************)
(* What the analyzer promises to whoever reads its alerts channel, without *)
(* goroutines, maps or backoff: an alert opens only when it has just been  *)
(* reported, and often enough; it is declared fixed only when it is open   *)
(* and has been silent for the whole quota of rounds; and everything due   *)
(* is declared before the next round says anything.                        *)
(***************************************************************************)
EXTENDS Integers

CONSTANTS
    Alerts,
    Quota,   \* rounds of silence that make an alert fixed
    Needed   \* Needed[a]: reports that open alert a

VARIABLES
    open,    \* alerts announced and not declared fixed
    reports, \* reports of an alert since it was last silent for Quota rounds
    silent   \* rounds ended since the last report, at most Quota

feedVars == <<open, reports, silent>>

Init ==
    /\ open = {}
    /\ reports = [a \in Alerts |-> 0]
    /\ silent = [a \in Alerts |-> Quota]

NothingDue == \A a \in open : silent[a] < Quota

Report(a) ==
    /\ NothingDue
    /\ reports' = [reports EXCEPT ![a] = @ + 1]
    /\ silent' = [silent EXCEPT ![a] = 0]
    /\ UNCHANGED open

Announce(a) ==
    /\ silent[a] = 0
    /\ reports[a] >= Needed[a]
    /\ open' = open \cup {a}
    /\ UNCHANGED <<reports, silent>>

EndRound ==
    /\ NothingDue
    /\ silent' = [a \in Alerts |-> IF silent[a] < Quota THEN silent[a] + 1
                                   ELSE silent[a]]
    /\ reports' = [a \in Alerts |-> IF silent'[a] = Quota THEN 0 ELSE reports[a]]
    /\ UNCHANGED open

DeclareFixed(a) ==
    /\ a \in open
    /\ silent[a] = Quota
    /\ open' = open \ {a}
    /\ UNCHANGED <<reports, silent>>

Next ==
    \/ EndRound
    \/ \E a \in Alerts : Report(a) \/ Announce(a) \/ DeclareFixed(a)

Spec == Init /\ [][Next]_feedVars
=============================================================================
