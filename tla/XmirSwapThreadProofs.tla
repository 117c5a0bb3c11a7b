------------------------- MODULE XmirSwapThreadProofs -------------------------
(***************************************************************************)
(* What holds of the swap thread for any windows and any pipe, however     *)
(* often windows are drawn, turned, mapped and unmapped: types, the mutex, *)
(* that the condition variable loses no signal, and that the swap list     *)
(* stays one until a window is queued that is still on it.                 *)
(***************************************************************************)
EXTENDS XmirSwapThread, TLAPS

-----------------------------------------------------------------------------
(* include/list.h *)

Links(n, p) == n \in [Nodes -> Nodes] /\ p \in [Nodes -> Nodes]

\* A node that is not linked can be prepended.
LEMMA AddKeepsList ==
  ASSUME Links(next, prev), ListIntact,
         NEW w \in Windows, ~Linked(w), xorg_list_add(w)
  PROVE  /\ Links(next', prev') /\ ListIntact'
         /\ \A x \in Windows \ {w} : next'[x] = next[x]
<1> DEFINE first == next[ListHead]
<1>1. /\ next \in [Nodes -> Nodes] /\ prev \in [Nodes -> Nodes]
      /\ w \in Nodes /\ ListHead \in Nodes /\ w # ListHead /\ first \in Nodes
      /\ next[w] = w /\ prev[w] = w /\ prev[first] = ListHead /\ first # w
  BY WindowsAssumption DEF Links, Linked, ListIntact, Nodes
<1>2. /\ next' = [n \in Nodes |-> IF n = ListHead THEN w
                                  ELSE IF n = w THEN first ELSE next[n]]
      /\ prev' = [n \in Nodes |-> IF n = w THEN ListHead
                                  ELSE IF n = first THEN w ELSE prev[n]]
  BY <1>1 DEF xorg_list_add
<1>3. Links(next', prev')
  BY <1>1, <1>2 DEF Links
<1> HIDE DEF first
<1>4. first = next[ListHead]
  BY DEF first
<1>5. ASSUME NEW n \in Nodes PROVE prev'[next'[n]] = n /\ next'[prev'[n]] = n
  <2>1. prev[next[n]] = n /\ next[prev[n]] = n /\ next[n] \in Nodes /\ prev[n] \in Nodes
    BY <1>1 DEF ListIntact
  <2>2. prev'[next'[n]] = n
    <3>1. CASE n = ListHead
      BY <1>1, <1>2, <3>1
    <3>2. CASE n = w
      BY <1>1, <1>2, <3>2
    <3>3. CASE n # ListHead /\ n # w
      <4>1. next'[n] = next[n]
        BY <1>2, <3>3
      <4>2. next[n] # w /\ next[n] # first
        BY <1>1, <1>4, <2>1, <3>3
      <4> QED  BY <1>2, <2>1, <4>1, <4>2
    <3> QED  BY <3>1, <3>2, <3>3
  <2>3. next'[prev'[n]] = n
    <3>1. CASE n = w
      BY <1>1, <1>2, <3>1
    <3>2. CASE n = first
      BY <1>1, <1>2, <3>2
    <3>3. CASE n # w /\ n # first
      <4>1. prev'[n] = prev[n]
        BY <1>2, <3>3
      <4>2. prev[n] # ListHead /\ prev[n] # w
        BY <1>1, <1>4, <2>1, <3>3
      <4> QED  BY <1>2, <2>1, <4>1, <4>2
    <3> QED  BY <3>1, <3>2, <3>3
  <2> QED  BY <2>2, <2>3
<1>6. ListIntact'
  BY <1>5 DEF ListIntact
<1>7. \A x \in Windows \ {w} : next'[x] = next[x]
  BY <1>1, <1>2, WindowsAssumption DEF Nodes
<1> QED  BY <1>3, <1>6, <1>7

\* Any node can be deleted; it is not linked then, and no other is linked anew.
LEMMA DelKeepsList ==
  ASSUME Links(next, prev), ListIntact, NEW w \in Windows, xorg_list_del(w)
  PROVE  /\ Links(next', prev') /\ ListIntact'
         /\ ~Linked(w)' /\ \A x \in Windows : Linked(x)' => Linked(x)
<1> DEFINE before == prev[w]
           after == next[w]
<1>1. /\ next \in [Nodes -> Nodes] /\ prev \in [Nodes -> Nodes]
      /\ w \in Nodes /\ before \in Nodes /\ after \in Nodes
      /\ next[before] = w /\ prev[after] = w
  BY DEF Links, ListIntact, Nodes
<1>2. /\ next' = [n \in Nodes |-> IF n = w THEN w
                                  ELSE IF n = before THEN after ELSE next[n]]
      /\ prev' = [n \in Nodes |-> IF n = w THEN w
                                  ELSE IF n = after THEN before ELSE prev[n]]
  BY <1>1 DEF xorg_list_del
<1>3. Links(next', prev')
  BY <1>1, <1>2 DEF Links
<1>4. before = prev[w] /\ after = next[w]
  OBVIOUS
<1> HIDE DEF before, after
<1>5. ASSUME NEW n \in Nodes PROVE prev'[next'[n]] = n /\ next'[prev'[n]] = n
  <2>1. prev[next[n]] = n /\ next[prev[n]] = n /\ next[n] \in Nodes /\ prev[n] \in Nodes
    BY <1>1 DEF ListIntact
  <2>2. CASE n = w
    BY <1>1, <1>2, <2>2
  <2>3. CASE n # w
    <3>1. before = w <=> after = w
      BY <1>1, <1>4
    <3>2. prev'[next'[n]] = n
      <4>1. CASE n = before
        BY <1>1, <1>2, <2>3, <3>1, <4>1
      <4>2. CASE n # before
        <5>1. next'[n] = next[n]
          BY <1>2, <2>3, <4>2
        <5>2. next[n] # w /\ next[n] # after
          BY <1>1, <1>4, <2>1, <2>3, <4>2
        <5> QED  BY <1>2, <2>1, <5>1, <5>2
      <4> QED  BY <4>1, <4>2
    <3>3. next'[prev'[n]] = n
      <4>1. CASE n = after
        BY <1>1, <1>2, <2>3, <3>1, <4>1
      <4>2. CASE n # after
        <5>1. prev'[n] = prev[n]
          BY <1>2, <2>3, <4>2
        <5>2. prev[n] # w /\ prev[n] # before
          BY <1>1, <1>4, <2>1, <2>3, <4>2
        <5> QED  BY <1>2, <2>1, <5>1, <5>2
      <4> QED  BY <4>1, <4>2
    <3> QED  BY <3>2, <3>3
  <2> QED  BY <2>2, <2>3
<1>6. ListIntact'
  BY <1>5 DEF ListIntact
<1>7. ~Linked(w)'
  BY <1>1, <1>2 DEF Linked
<1>8. ASSUME NEW x \in Windows, Linked(x)' PROVE Linked(x)
  <2>1. x \in Nodes /\ x # w
    BY <1>1, <1>2, <1>8 DEF Linked, Nodes
  <2>2. CASE x = before
    BY <1>1, <2>1, <2>2 DEF Linked
  <2>3. CASE x # before
    BY <1>2, <1>8, <2>1, <2>3 DEF Linked
  <2> QED  BY <2>2, <2>3
<1> QED  BY <1>3, <1>6, <1>7, <1>8

-----------------------------------------------------------------------------
(* Type correctness.  The window in hand is a window, for either thread: it *)
(* is copied, or swapped, outside the region where it was looked up.        *)

TypeInv ==
  /\ TypeOK
  /\ mpc \in {"lock", "signal", "empty"} => target \in Windows
  /\ tpc \in {"swap", "post"} => current \in Windows

LEMMA InitTypes == Init => TypeInv
<1> SUFFICES ASSUME Init PROVE TypeInv
  OBVIOUS
<1>1. /\ next \in [Nodes -> Nodes] /\ prev \in [Nodes -> Nodes]
      /\ image \in [Windows -> {"none", "live", "dead"}]
      /\ inputs \in [Windows -> 0 .. MaxInputs]
  BY BoundsAssumption DEF Init
<1>2. pipe \in Seq(Message)
  BY DEF Init
<1> QED  BY <1>1, <1>2 DEF Init, TypeInv, TypeOK

LEMMA AppendType ==
  ASSUME NEW S, NEW s \in Seq(S), NEW m \in S
  PROVE  /\ Append(s, m) \in Seq(S) /\ Len(Append(s, m)) = Len(s) + 1
         /\ \A i \in 1 .. Len(s) : Append(s, m)[i] = s[i]
         /\ Append(s, m)[Len(s) + 1] = m
  OBVIOUS

LEMMA TailType ==
  ASSUME NEW S, NEW s \in Seq(S), s # <<>>
  PROVE  /\ Tail(s) \in Seq(S) /\ Len(Tail(s)) = Len(s) - 1
         /\ \A i \in 1 .. Len(Tail(s)) : Tail(s)[i] = s[i + 1]
         /\ Len(s) \in Nat \ {0} /\ Head(s) = s[1] /\ Head(s) \in S
  OBVIOUS

LEMMA MainTypes ==
  ASSUME TypeInv, MainLoop PROVE TypeInv'
<1> USE DEF TypeInv, TypeOK
<1>1. ASSUME NEW w \in Windows, BlockRepaint(w) PROVE TypeInv'
  BY <1>1 DEF BlockRepaint, StartCopy
<1>2. ASSUME pipe # <<>>, pipe' = Tail(pipe) PROVE pipe' \in Seq(Message)
  BY <1>2, TailType
<1>3. ASSUME NEW w \in Windows, HandleBufferAvailable(w) PROVE TypeInv'
  <2>1. pipe' \in Seq(Message)
    BY <1>2, <1>3 DEF HandleBufferAvailable, Receive
  <2>2. CASE w \in damaged
    BY <1>3, <2>1, <2>2 DEF HandleBufferAvailable, StartCopy, Receive
  <2>3. CASE w \notin damaged
    BY <1>3, <2>1, <2>3 DEF HandleBufferAvailable, Receive
  <2> QED  BY <2>2, <2>3
<1>4. ASSUME NEW w \in Windows, NEW turn \in Turns, HandleOrientation(w, turn)
      PROVE  TypeInv'
  <2>1. pipe' \in Seq(Message)
    BY <1>2, <1>4 DEF HandleOrientation, Receive
  <2>2. damaged' \subseteq shown /\ image' \in [Windows -> {"none", "live", "dead"}]
    BY <1>4 DEF HandleOrientation, DropImage
  <2>3. UNCHANGED <<shown, region, mpc, target, resume, unmapping, inputs, tpc,
                    current, next, prev, locked, alive, relinked>>
    BY <1>4 DEF HandleOrientation
  <2> QED  BY <2>1, <2>2, <2>3
<1>5. CASE Signal
  BY <1>5 DEF Signal, Wake
<1>6. CASE EmptyRegion
  BY <1>6 DEF EmptyRegion
<1>7. CASE BlockDone \/ WakeupPipe \/ DrainDone \/ Join
  BY <1>7 DEF BlockDone, WakeupPipe, DrainDone, Join, Goto
<1>8. CASE DropMessage
  <2>1. pipe' \in Seq(Message)
    BY <1>2, <1>8 DEF DropMessage, Receive
  <2> QED  BY <1>8, <2>1 DEF DropMessage, mainthread
<1>9. CASE FiniSignal
  BY <1>9 DEF FiniSignal, Wake
<1> QED
  BY <1>1, <1>3, <1>4, <1>5, <1>6, <1>7, <1>8, <1>9 DEF MainLoop

LEMMA ClientTypes ==
  ASSUME TypeInv, Queue \/ Yield \/ ClientRequest PROVE TypeInv'
<1> USE DEF TypeInv, TypeOK
<1>1. CASE Queue
  <2>1. next' \in [Nodes -> Nodes] /\ prev' \in [Nodes -> Nodes]
    BY <1>1 DEF Queue, xorg_list_add, Nodes
  <2> QED  BY <1>1, <2>1 DEF Queue
<1>2. CASE Yield \/ WakeupClient
  BY <1>2 DEF Yield, WakeupClient, Goto
<1>3. CASE Fini
  BY <1>3 DEF Fini
<1>4. ASSUME NEW w \in Windows, Draw(w) PROVE TypeInv'
  BY <1>4, BoundsAssumption DEF Draw
<1>5. ASSUME NEW w \in Windows, Realize(w) PROVE TypeInv'
  BY <1>5 DEF Realize
<1>6. ASSUME NEW w \in Windows, Unmap(w) PROVE TypeInv'
  BY <1>6 DEF Unmap
<1> QED  BY <1>1, <1>2, <1>3, <1>4, <1>5, <1>6 DEF ClientRequest

LEMMA ThreadTypes ==
  ASSUME TypeInv, SwapThread \/ SpuriousWakeup \/ MirThread PROVE TypeInv'
<1> USE DEF TypeInv, TypeOK
<1>1. CASE ThreadStart \/ SetAlive \/ WhileAlive \/ CondWait \/ Relock
           \/ SpuriousWakeup
  <2>1. CASE ThreadStart \/ SetAlive
    BY <2>1 DEF ThreadStart, SetAlive, mainthread
  <2>2. CASE WhileAlive
    <3>1. tpc' \in {"test", "ended"} /\ locked' \in BOOLEAN
      BY <2>2 DEF WhileAlive
    <3>2. UNCHANGED <<mainthread, current, next, prev, alive, pipe, relinked>>
      BY <2>2 DEF WhileAlive
    <3> QED  BY <3>1, <3>2 DEF mainthread
  <2>3. CASE CondWait \/ Relock
    BY <2>3 DEF CondWait, Relock, mainthread
  <2>4. CASE SpuriousWakeup
    BY <2>4 DEF SpuriousWakeup, mainthread
  <2> QED  BY <1>1, <2>1, <2>2, <2>3, <2>4
<1>2. CASE Take
  <2>1. ~Empty => next[ListHead] \in Windows
    BY DEF Empty, Nodes
  <2> QED  BY <1>2, <2>1 DEF Take, mainthread
<1>3. CASE Swap
  <2>1. next' \in [Nodes -> Nodes] /\ prev' \in [Nodes -> Nodes]
    BY <1>3 DEF Swap, xorg_list_del, Nodes
  <2> QED  BY <1>3, <2>1 DEF Swap, mainthread
<1>4. CASE Post
  <2>1. BufferMsg(current) \in Message
    BY <1>4 DEF Post, BufferMsg, Message
  <2>2. pipe' \in Seq(Message)
    BY <1>4, <2>1, AppendType DEF Post
  <2> QED  BY <1>4, <2>2 DEF Post, mainthread
<1>5. ASSUME NEW w \in Windows, NEW turn \in Turns, PostOrientation(w, turn)
      PROVE  TypeInv'
  <2>1. OrientationMsg(w, turn) \in Message
    BY DEF OrientationMsg, Message
  <2>2. pipe' \in Seq(Message)
    BY <1>5, <2>1, AppendType DEF PostOrientation
  <2> QED  BY <1>5, <2>2, BoundsAssumption DEF PostOrientation
<1> QED
  BY <1>1, <1>2, <1>3, <1>4, <1>5 DEF SwapThread, MirThread

LEMMA StutterTypes == TypeInv /\ UNCHANGED vars => TypeInv'
  BY DEF TypeInv, TypeOK, vars, mainthread

\* Every variable keeps its type, and the swap thread never handles the head
\* of the list as a window (xmir_glamor_flip).
THEOREM TypeCorrect == Spec => []TypeOK
<1>1. TypeInv /\ [Next]_vars => TypeInv'
  BY MainTypes, ClientTypes, ThreadTypes, StutterTypes DEF Next
<1>2. TypeInv => TypeOK
  BY DEF TypeInv
<1> QED  BY InitTypes, <1>1, <1>2, PTL DEF Spec

\* However often windows are drawn, and however the list is linked then, the
\* signal that follows the unlock in xmir_glamor_copy_egl_queue is not lost.
THEOREM SignalsArrive == Spec => []NoLostSignal
<1>1. Init => NoLostSignal
  BY DEF Init, NoLostSignal
<1>2. NoLostSignal /\ [Next]_vars => NoLostSignal'
  <2> SUFFICES ASSUME NoLostSignal, [Next]_vars, tpc' = "waiting", ~Empty'
               PROVE  mpc' = "signal"
    BY DEF NoLostSignal
  <2>1. CASE Queue
    BY <2>1 DEF Queue
  <2>2. CASE Signal \/ FiniSignal
    BY <2>2 DEF Signal, FiniSignal, Wake
  <2>3. CASE SwapThread
    BY <2>3 DEF SwapThread, ThreadStart, SetAlive, WhileAlive, CondWait, Relock,
                Take, Swap, Post, Empty
  <2>4. CASE UNCHANGED vars \/ SpuriousWakeup \/ MirThread
    BY <2>4 DEF vars, mainthread, SpuriousWakeup, MirThread, PostOrientation,
                NoLostSignal, Empty
  \* The other steps of the main thread are not taken before it has signalled.
  <2>5. ASSUME UNCHANGED <<tpc, next>>, mpc # "signal" PROVE FALSE
    BY <2>5 DEF NoLostSignal, Empty
  <2>6. CASE Yield \/ ClientRequest
    BY <2>5, <2>6 DEF Yield, ClientRequest, WakeupClient, Goto, Fini, Draw, Realize,
                      Unmap
  <2>7. CASE EmptyRegion \/ BlockDone \/ WakeupPipe \/ DrainDone \/ Join
    BY <2>5, <2>7 DEF EmptyRegion, BlockDone, WakeupPipe, DrainDone, Join, Goto
  <2>8. CASE DropMessage
    BY <2>5, <2>8 DEF DropMessage, Receive
  <2>9. ASSUME NEW w \in Windows,
               \/ BlockRepaint(w) \/ HandleBufferAvailable(w)
               \/ \E turn \in Turns : HandleOrientation(w, turn)
        PROVE  FALSE
    BY <2>5, <2>9 DEF BlockRepaint, HandleBufferAvailable, HandleOrientation, Receive
  <2> QED
    BY <2>1, <2>2, <2>3, <2>4, <2>6, <2>7, <2>8, <2>9 DEF Next, MainLoop
<1> QED  BY <1>1, <1>2, PTL DEF Spec

\* The server ends once it has begun to, and until then nobody has told the
\* thread to end: alive is written by xmir_glamor_fini alone and, with 1, by
\* the thread itself.
Ending == mpc \in {"finisignal", "join", "closed"}
MutexInv == MutexOwned /\ (alive < 0 => Ending)

LEMMA MainMutex ==
  ASSUME MutexInv, UNCHANGED <<tpc, locked, alive>>, Ending => Ending'
  PROVE  MutexInv'
BY DEF MutexInv, MutexOwned, Ending

LEMMA WakeMutex ==
  ASSUME MutexInv, Wake, UNCHANGED <<locked, alive>>, Ending => Ending'
  PROVE  MutexInv'
BY DEF MutexInv, MutexOwned, Ending, Wake

\* Every step of the swap thread takes the mutex when it is free, or has it.
LEMMA ThreadMutex == ASSUME MutexInv, SwapThread PROVE MutexInv'
<1>1. CASE ThreadStart
  BY <1>1 DEF ThreadStart, mainthread, MutexInv, MutexOwned, Ending
<1>2. CASE SetAlive
  BY <1>2 DEF SetAlive, mainthread, MutexInv, MutexOwned, Ending
<1>3. CASE WhileAlive \/ CondWait \/ Relock
  BY <1>3 DEF WhileAlive, CondWait, Relock, mainthread, MutexInv, MutexOwned, Ending
<1>4. CASE Take \/ Swap \/ Post
  BY <1>4 DEF Take, Swap, Post, mainthread, MutexInv, MutexOwned, Ending
<1> QED  BY <1>1, <1>2, <1>3, <1>4 DEF SwapThread

\* The mutex is locked exactly while the swap thread is at work, or for good by
\* a thread that ended on its start, which nobody waits for but to join it:
\* for any windows and drawings, and with spurious wake-ups.
THEOREM MutexStaysOwned == Spec => []MutexOwned
<1>1. Init => MutexInv
  BY DEF Init, MutexInv, MutexOwned, Ending
<1>2. MutexInv /\ [Next]_vars => MutexInv'
  <2> SUFFICES ASSUME MutexInv, [Next]_vars PROVE MutexInv'
    OBVIOUS
  <2>1. CASE SwapThread
    BY <2>1, ThreadMutex
  <2>2. CASE Signal \/ FiniSignal
    BY <2>2, WakeMutex DEF Signal, FiniSignal, Ending
  <2>3. CASE SpuriousWakeup
    BY <2>3 DEF SpuriousWakeup, mainthread, MutexInv, MutexOwned, Ending
  <2>4. CASE Fini
    BY <2>4 DEF Fini, MutexInv, MutexOwned, Ending
  <2>5. CASE Queue \/ Yield
    BY <2>5, MainMutex DEF Queue, Yield, Goto, Ending
  <2>6. CASE MirThread \/ UNCHANGED vars
    BY <2>6, MainMutex DEF MirThread, PostOrientation, vars, mainthread, Ending
  <2>7. CASE WakeupClient \/ \E w \in Windows : Draw(w) \/ Realize(w) \/ Unmap(w)
    BY <2>7, MainMutex DEF WakeupClient, Goto, Draw, Realize, Unmap, Ending
  <2>8. CASE EmptyRegion
    <3>1. mpc = "empty" /\ UNCHANGED <<tpc, locked, alive>>
      BY <2>8 DEF EmptyRegion
    <3> QED  BY <3>1, MainMutex DEF Ending
  <2>9. CASE BlockDone \/ WakeupPipe \/ DrainDone \/ Join
    BY <2>9, MainMutex DEF BlockDone, WakeupPipe, DrainDone, Join, Goto, Ending
  <2>10. CASE DropMessage
    BY <2>10, MainMutex DEF DropMessage, Receive, mainthread, Ending
  <2>11. ASSUME NEW w \in Windows,
                \/ BlockRepaint(w) \/ HandleBufferAvailable(w)
                \/ \E turn \in Turns : HandleOrientation(w, turn)
         PROVE  MutexInv'
    <3>1. UNCHANGED <<tpc, locked, alive>> /\ ~Ending
      BY <2>11 DEF BlockRepaint, HandleBufferAvailable, HandleOrientation, Receive, Ending
    <3> QED  BY <3>1, MainMutex
  <2> QED
    BY <2>1, <2>2, <2>3, <2>4, <2>5, <2>6, <2>7, <2>8, <2>9, <2>10, <2>11
       DEF Next, MainLoop, ClientRequest
<1>3. MutexInv => MutexOwned
  BY DEF MutexInv
<1> QED  BY <1>1, <1>2, <1>3, PTL DEF Spec

-----------------------------------------------------------------------------
(* The swap list *)

IInv == TypeInv /\ ListKept

\* Queue prepends its target: a new one is linked in, and an old one noted.
LEMMA QueueKeeps == ASSUME IInv, Queue PROVE ListKept'
<1>1. target \in Windows /\ Links(next, prev)
  BY DEF Queue, IInv, TypeInv, TypeOK, Links
<1>2. CASE relinked \/ Linked(target)
  BY <1>2 DEF Queue, ListKept
<1>3. CASE ~relinked /\ ~Linked(target)
  <2>1. ListIntact /\ xorg_list_add(target)
    BY <1>3 DEF IInv, ListKept, Queue
  <2> QED  BY <1>1, <1>3, <2>1, AddKeepsList DEF ListKept
<1> QED  BY <1>2, <1>3

LEMMA SwapKeeps == ASSUME IInv, Swap PROVE ListKept'
<1>1. /\ current \in Windows /\ Links(next, prev)
      /\ relinked' = relinked /\ xorg_list_del(current)
  BY DEF Swap, IInv, TypeInv, TypeOK, Links
<1>2. CASE relinked
  BY <1>1, <1>2 DEF ListKept
<1>3. CASE ~relinked
  <2>1. ListIntact
    BY <1>3 DEF IInv, ListKept
  <2> QED  BY <1>1, <2>1, DelKeepsList DEF ListKept
<1> QED  BY <1>2, <1>3

\* The other steps leave the links alone.
LEMMA StillKept ==
  ASSUME ListKept, UNCHANGED <<next, prev, relinked>> PROVE ListKept'
  BY DEF ListKept, ListIntact

\* swap_list is at every moment the doubly linked list include/list.h
\* describes, whatever the threads, the clients and Mir do, for any windows and
\* any pipe, until a window is queued that is still on it: nothing else breaks
\* it, neither deleting the entry only after the swap nor what the main thread
\* does meanwhile (xmir_glamor_copy_egl_queue, xmir_glamor_flip).
THEOREM ListStaysIntact == Spec => []ListKept
<1>1. Init => IInv
  BY InitTypes DEF Init, IInv, ListKept, ListIntact
<1>2. IInv /\ [Next]_vars => IInv'
  <2> SUFFICES ASSUME IInv, [Next]_vars PROVE ListKept'
    BY MainTypes, ClientTypes, ThreadTypes, StutterTypes DEF Next, IInv
  <2> USE StillKept DEF IInv
  <2>1. CASE Queue
    BY <2>1, QueueKeeps
  <2>2. CASE Swap
    BY <2>2, SwapKeeps
  <2>3. CASE ThreadStart \/ SetAlive \/ WhileAlive \/ CondWait \/ Relock
             \/ SpuriousWakeup \/ Take \/ Post
    BY <2>3 DEF ThreadStart, SetAlive, WhileAlive, CondWait, Relock,
                SpuriousWakeup, Take, Post
  <2>4. CASE MirThread \/ UNCHANGED vars
    BY <2>4 DEF MirThread, PostOrientation, vars
  <2>5. CASE Yield \/ ClientRequest
    BY <2>5 DEF Yield, ClientRequest, WakeupClient, Goto, Fini, Draw, Realize, Unmap
  <2>6. CASE Signal \/ EmptyRegion \/ BlockDone \/ WakeupPipe \/ DropMessage
             \/ DrainDone \/ FiniSignal \/ Join
    BY <2>6 DEF Signal, EmptyRegion, BlockDone, WakeupPipe, DropMessage,
                DrainDone, FiniSignal, Join, Goto
  <2>7. ASSUME NEW w \in Windows,
               \/ BlockRepaint(w) \/ HandleBufferAvailable(w)
               \/ \E turn \in Turns : HandleOrientation(w, turn)
        PROVE  ListKept'
    BY <2>7 DEF BlockRepaint, HandleBufferAvailable, HandleOrientation
  <2> QED
    BY <2>1, <2>2, <2>3, <2>4, <2>5, <2>6, <2>7
       DEF Next, MainLoop, SwapThread
<1>3. IInv => ListKept
  BY DEF IInv
<1> QED  BY <1>1, <1>2, <1>3, PTL DEF Spec
=============================================================================
