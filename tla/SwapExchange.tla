----------------------------- MODULE SwapExchange -----------------------------
(***************************************************************************)
(* What DRI2 promises the clients that render directly, without the        *)
(* counters, lists and queues that keep the promise: a window has one swap *)
(* pending at most, no back buffer is handed out while it has one, a client *)
(* sleeps only for a swap of its own that is pending, or for one it has    *)
(* yet to ask for, and the completion that ends a swap wakes whoever       *)
(* sleeps for it.  Nothing is promised about a window that is void.        *)
(***************************************************************************)

CONSTANTS Clients, NoClient, Windows

VARIABLES
  void,     \* windows the promise does not cover, or no longer covers
  held,     \* windows whose back buffer a client may render to
  pending,  \* whose swap of the window waits for a frame
  asleep,   \* clients that sleep for the pending swap of the window
  ahead     \* clients that sleep for a swap of it nobody has asked for yet

vars == <<void, held, pending, asleep, ahead>>

Init ==
  /\ void = {} /\ held = {}
  /\ pending = [w \in Windows |-> NoClient]
  /\ asleep = [w \in Windows |-> {}]
  /\ ahead = [w \in Windows |-> {}]

Awake(c) == \A w \in Windows : c \notin asleep[w] \cup ahead[w]

\* A window that is rendered to for the first time, or again.
Create(w) ==
  /\ held' = held \ {w}
  /\ UNCHANGED <<void, pending, asleep, ahead>>

Get(c, w) ==
  /\ Awake(c) /\ w \notin void /\ pending[w] = NoClient
  /\ held' = held \cup {w}
  /\ UNCHANGED <<void, pending, asleep, ahead>>

\* The buffer is given away with the swap, or copied and kept.
Swap(c, w) ==
  /\ Awake(c) /\ pending[w] = NoClient /\ w \in held
  /\ pending' = [pending EXCEPT ![w] = c]
  /\ held' \in {held, held \ {w}}
  /\ UNCHANGED <<void, asleep, ahead>>

Wait(c, w) ==
  /\ Awake(c) /\ pending[w] = c
  /\ asleep' = [asleep EXCEPT ![w] = @ \cup {c}]
  /\ UNCHANGED <<void, held, pending, ahead>>

\* No swap that is pending ends this, and the client sleeps: it has only
\* itself to blame.
WaitAhead(c, w) ==
  /\ Awake(c) /\ w \notin void
  /\ ahead' = [ahead EXCEPT ![w] = @ \cup {c}]
  /\ UNCHANGED <<void, held, pending, asleep>>

\* A frame shows what the windows W have swapped, or their surface is gone.
Complete(W) ==
  /\ \A w \in W : pending[w] # NoClient
  /\ pending' = [w \in Windows |-> IF w \in W THEN NoClient ELSE pending[w]]
  /\ asleep' = [w \in Windows |-> IF w \in W THEN {} ELSE asleep[w]]
  /\ UNCHANGED <<void, held, ahead>>

\* A client closes down; its swap will complete all the same.
Leave(c) ==
  /\ asleep' = [w \in Windows |-> asleep[w] \ {c}]
  /\ ahead' = [w \in Windows |-> ahead[w] \ {c}]
  /\ UNCHANGED <<void, held, pending>>

\* The windows W are void from now on, and the other ones are not concerned.
Forfeit(W) ==
  /\ void' = void \cup W /\ held' = held \ W
  /\ pending' = [w \in Windows |-> IF w \in W THEN NoClient ELSE pending[w]]
  /\ asleep' = [w \in Windows |-> IF w \in W THEN {} ELSE asleep[w]]
  /\ ahead' = [w \in Windows |-> IF w \in W THEN {} ELSE ahead[w]]

Next ==
  \/ \E w \in Windows : Create(w)
  \/ \E c \in Clients, w \in Windows :
       Get(c, w) \/ Swap(c, w) \/ Wait(c, w) \/ WaitAhead(c, w)
  \/ \E W \in SUBSET Windows : Complete(W) \/ Forfeit(W)
  \/ \E c \in Clients : Leave(c)

CompleteOf(w) == \E W \in SUBSET Windows : w \in W /\ Complete(W)

Spec == Init /\ [][Next]_vars /\ \A w \in Windows : WF_vars(CompleteOf(w))
=============================================================================
