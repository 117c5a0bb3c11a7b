------------------------------ MODULE MCDri2Swap ------------------------------
(***************************************************************************)
(* An instance of Dri2Swap for TLC: a top-level window t with a child k.   *)
(***************************************************************************)
EXTENDS Dri2Swap

CONSTANTS c1, c2, t, k

ChildOfT == [x \in {k} |-> t]

\* A run ends with a FatalError, with t spoiled, and with k spoiled when a
\* client leaves or a counter goes below zero: there is no end to what the
\* counters do then, and nothing is promised but about t.
SpoiledBound ==
  /\ phase # "fatal"
  /\ \/ spoiled = {}
     \/ /\ spoiled = {k} /\ gone = {}
        /\ swapsPending[k] >= 0 /\ blocked[k].swap >= 0
=============================================================================
