----------------------------- MODULE MCNodeList -----------------------------
(***************************************************************************)
(* Three nodes, one of them given on the command line.  A list to which a  *)
(* node is added while it is read is not followed until the reader is      *)
(* done: nothing is promised about what it is shown, and what it does      *)
(* changes neither the lists nor what is stored.                           *)
(***************************************************************************)
EXTENDS NodeList, TLC

CONSTANTS a, b, c

MCUrls == {a, b, c}

MCConfigured == <<a>>

MCBound == [common |-> 2, specific |-> 1]

\* The nodes of the bots.
Symmetry == Permutations({b, c})

NotGrown == ~ grown
=============================================================================
