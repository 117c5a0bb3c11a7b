---------------------------- MODULE FrameExchange ----------------------------
(***************************************************************************)
(* What the frame loop promises of each window, without the threads, the   *)
(* pipe or the flags that keep the promise: a frame is submitted only with *)
(* a buffer the client holds, Mir gives every submitted buffer back, and a *)
(* window that has been drawn gets a frame submitted.                      *)
(***************************************************************************)
EXTENDS Naturals

CONSTANT Windows

VARIABLES
  shown,   \* windows on a surface
  dirty,   \* windows drawn since their last frame
  out      \* buffers of the window submitted and not yet given back

vars == <<shown, dirty, out>>

Init ==
  /\ shown = {}
  /\ dirty = {}
  /\ out = [w \in Windows |-> 0]

Show(w) ==
  /\ w \notin shown
  /\ shown' = shown \cup {w}
  /\ UNCHANGED <<dirty, out>>

\* The surface goes, and whatever was submitted with it.
Hide(w) ==
  /\ w \in shown
  /\ shown' = shown \ {w}
  /\ dirty' = dirty \ {w}
  /\ out' = [out EXCEPT ![w] = 0]

Draw(w) ==
  /\ w \in shown
  /\ dirty' = dirty \cup {w}
  /\ UNCHANGED <<shown, out>>

\* Submit a frame.  Its size may be the wrong one, and then the window stays
\* dirty.
Submit(w) ==
  /\ w \in shown
  /\ out[w] = 0
  /\ out' = [out EXCEPT ![w] = 1]
  /\ dirty' \in {dirty \ {w}, dirty \cup {w}}
  /\ UNCHANGED shown

GiveBack(w) ==
  /\ out[w] = 1
  /\ out' = [out EXCEPT ![w] = 0]
  /\ UNCHANGED <<shown, dirty>>

Next == \E w \in Windows :
          Show(w) \/ Hide(w) \/ Draw(w) \/ Submit(w) \/ GiveBack(w)

Spec == /\ Init /\ [][Next]_vars
        /\ \A w \in Windows : /\ WF_vars(w \in dirty /\ Submit(w))
                              /\ WF_vars(GiveBack(w))
=============================================================================
