---------------------------- MODULE MCXmirInput ----------------------------
(***************************************************************************)
(* Instances of XmirInput for TLC.                                         *)
(***************************************************************************)
EXTENDS XmirInput, TLC

CONSTANTS
  MaxQueue,   \* bound: events in the queue
  MaxTraffic  \* bound: events in the queue and messages in the pipe

TrafficBound == Len(queue) <= MaxQueue /\ Len(pipe) + Len(queue) <= MaxTraffic

Symmetry == Permutations(Windows) \cup Permutations(Fingers)
=============================================================================
