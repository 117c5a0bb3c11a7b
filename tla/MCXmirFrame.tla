----------------------------- MODULE MCXmirFrame -----------------------------
(***************************************************************************)
(* Instances of XmirFrame for TLC.                                         *)
(***************************************************************************)
EXTENDS XmirFrame, TLC

\* Windows and surfaces are interchangeable (for the runs without liveness).
Symmetry == Permutations(Windows) \cup Permutations(Surfaces)

\* Bound on the swaps in flight, for the run where unmapping adds to them.
SwapsBound == \A s \in Surfaces : Len(swaps[s]) <= 3
=============================================================================
