------------------------ MODULE XmirFrameRefinement --------------------------
(***************************************************************************)
(* The frame loop of XmirFrame implements the safety part of               *)
(* FrameExchange: each of its steps is a step of the abstract exchange, or *)
(* leaves it alone.                                                        *)
(***************************************************************************)
EXTENDS XmirFrameProofs

\* The buffers of a window that are out, as the refinement maps them.
Out == [w \in Windows |-> IF damage[w] THEN Len(swaps[surface[w]]) ELSE 0]

Shown == {w \in Windows : damage[w]}

Abstract == FX!Next \/ UNCHANGED FX!vars

\* Steps that move no buffer: at most a window is drawn.
LEMMA DrawRefines ==
  ASSUME UNCHANGED <<damage, surface, swaps>>,
         \/ UNCHANGED damage_window_list
         \/ \E w \in Windows : /\ damage[w]
                               /\ damage_window_list' = damage_window_list \cup {w}
  PROVE  Abstract
<1>1. CASE UNCHANGED damage_window_list
  BY <1>1 DEF Abstract, FX!vars
<1>2. ASSUME NEW w \in Windows, damage[w],
             damage_window_list' = damage_window_list \cup {w}
      PROVE  FX!Draw(w)
  BY <1>2 DEF FX!Draw
<1> QED  BY <1>1, <1>2 DEF Abstract, FX!Next

\* Painting a window that holds a buffer submits that buffer.
LEMMA SubmitRefines ==
  ASSUME IInv, NEW w \in Windows, damage[w], swaps[surface[w]] = <<>>,
         swaps' = [swaps EXCEPT ![surface[w]] = <<w>>],
         UNCHANGED <<damage, surface>>,
         damage_window_list' \in {damage_window_list \ {w},
                                  damage_window_list \cup {w}}
  PROVE  Abstract
<1>1. surface[w] \in Surfaces
  BY DEF IInv, TypeOK, SurfacesOwned
<1>2. \A v \in Windows : damage[v] /\ v # w =>
        surface[v] # surface[w] /\ surface[v] \in Surfaces
  BY DEF IInv, TypeOK, SurfacesOwned
<1>3. Out' = [Out EXCEPT ![w] = 1]
  <2> SUFFICES ASSUME NEW v \in Windows
               PROVE  Out'[v] = IF v = w THEN 1 ELSE Out[v]
    BY DEF Out
  <2>1. CASE v = w
    BY <1>1, <2>1 DEF Out, IInv, TypeOK
  <2>2. CASE v # w
    BY <1>1, <1>2, <2>2 DEF Out, IInv, TypeOK
  <2> QED  BY <2>1, <2>2
<1>4. Out[w] = 0
  BY DEF Out
<1> QED  BY <1>3, <1>4 DEF Abstract, FX!Next, FX!Submit, Out

\* The buffer-available message and the resize event.
LEMMA CallbackRefines ==
  ASSUME IInv, pipe # <<>>, damage[Head(pipe).win], Callback(Head(pipe))
  PROVE  Abstract
<1> DEFINE m == Head(pipe)
           w == m.win
           z == buffer_size[surface[w]]
<1>1. m \in Message /\ w \in Windows
  BY MessageTypes DEF IInv, TypeOK
<1>2. CASE m.cb = "buffer_available" /\ HandleBufferAvailable(w)
  <2>1. m = BufferMsg(w) /\ mir[surface[w]] = "live"
    BY <1>1, <1>2, MessageTypes DEF IInv, TypeOK, SurfacesOwned
  <2>2. BufferAvailable(w, z) /\ UNCHANGED <<damage, surface>>
    BY <1>2, <2>1 DEF HandleBufferAvailable, xmir_handle_buffer_available
  <2>3. swaps[surface[w]] = <<>>
    <3>1. ~Absent(BufferMsg(w), pipe)
      BY <2>1 DEF Absent, IInv, TypeOK
    <3> QED  BY <1>1, <3>1 DEF IInv, OneBuffer
  <2>4. damage_window_list' \in {damage_window_list \ {w},
                                 damage_window_list \cup {w}}
    BY <2>2 DEF BufferAvailable
  <2>5. CASE PaintNow(w, z)
    <3>1. swaps' = [swaps EXCEPT ![surface[w]] = <<w>>]
      BY <2>2, <2>3, <2>5 DEF BufferAvailable, xmir_swap
    <3> QED  BY <1>1, <2>2, <2>3, <2>4, <3>1, SubmitRefines
  <2>6. CASE ~PaintNow(w, z)
    <3>1. UNCHANGED swaps /\ w \notin damage_window_list
      BY <2>2, <2>6 DEF BufferAvailable, PaintNow
    <3> QED  BY <1>1, <2>2, <2>4, <3>1, DrawRefines
  <2> QED  BY <2>5, <2>6
<1>3. CASE m.cb = "resize_event" /\ HandleResizeEvent(w, m.size)
  BY <1>1, <1>3, DrawRefines DEF HandleResizeEvent, mirserver
<1> QED  BY <1>2, <1>3 DEF Callback

\* A window with a surface is not shown yet.
LEMMA RealizeRefines ==
  ASSUME IInv, NEW w \in Windows, NEW s \in Surfaces,
         surface[w] = NoSurface, RealizeOn(w, s), UNCHANGED swaps
  PROVE  Abstract
<1>1. ~damage[w]
  BY DEF IInv, SurfacesOwned
<1>2. /\ surface' = [surface EXCEPT ![w] = s]
      /\ UNCHANGED <<damage, damage_window_list>>
  BY DEF RealizeOn
<1>3. Out' = Out
  <2> SUFFICES ASSUME NEW v \in Windows PROVE Out'[v] = Out[v]
    BY DEF Out
  <2> QED  BY <1>1, <1>2 DEF Out, IInv, TypeOK
<1> QED  BY <1>2, <1>3 DEF Abstract, FX!vars, Out

\* It is when its damage is tracked.
LEMMA RealizedRefines ==
  ASSUME IInv, RealizeDone
  PROVE  Abstract
<1> DEFINE w == subject
<1>1. w \in Windows /\ ~damage[w] /\ surface[w] \in Surfaces /\ surface[w] # NoSurface
  BY DEF RealizeDone, IInv, Control, TypeOK
<1>2. /\ damage' = [damage EXCEPT ![w] = TRUE]
      /\ UNCHANGED <<surface, damage_window_list, swaps>>
  BY DEF RealizeDone, mirserver
<1> HIDE DEF w
<1>3. swaps[surface[w]] = <<>>
  <2>1. \A u \in Windows : damage[u] => surface[u] # surface[w]
    BY <1>1 DEF IInv, SurfacesOwned
  <2> QED  BY <1>1, <2>1 DEF IInv, SurfacesOwned
<1>4. Out' = Out
  <2> SUFFICES ASSUME NEW v \in Windows PROVE Out'[v] = Out[v]
    BY DEF Out
  <2>1. CASE v = w
    BY <1>1, <1>2, <1>3, <2>1 DEF Out, IInv, TypeOK
  <2>2. CASE v # w
    BY <1>2, <2>2 DEF Out, IInv, TypeOK
  <2> QED  BY <2>1, <2>2
<1>5. Shown' = Shown \cup {w} /\ w \notin Shown
  BY <1>1, <1>2 DEF Shown, IInv, TypeOK
<1> QED  BY <1>1, <1>2, <1>4, <1>5 DEF Abstract, FX!Next, FX!Show, Out, Shown

\* A surface that is given up takes its buffer with it.
LEMMA UnmapRefines ==
  ASSUME IInv, ~NeverClose, NEW w \in Windows, UnmapSurface(w)
  PROVE  Abstract
<1>1. /\ damage' = [damage EXCEPT ![w] = FALSE]
      /\ damage_window_list' = damage_window_list \ {w}
      /\ surface' = [surface EXCEPT ![w] = NoSurface]
      /\ swaps' = [swaps EXCEPT ![surface[w]] = <<>>]
      /\ surface[w] \in Surfaces
  BY DEF UnmapSurface, GiveUpSurface, IInv, TypeOK
<1>2. \A v \in Windows : damage[v] /\ v # w =>
        surface[v] # surface[w] /\ surface[v] \in Surfaces
  BY <1>1 DEF IInv, TypeOK, SurfacesOwned
<1>3. Out' = [Out EXCEPT ![w] = 0]
  <2> SUFFICES ASSUME NEW v \in Windows
               PROVE  Out'[v] = IF v = w THEN 0 ELSE Out[v]
    BY DEF Out
  <2>1. CASE v = w
    BY <1>1, <2>1 DEF Out, IInv, TypeOK
  <2>2. CASE v # w
    BY <1>1, <1>2, <2>2 DEF Out, IInv, TypeOK
  <2> QED  BY <2>1, <2>2
<1>4. Shown' = Shown \ {w}
  BY <1>1 DEF Shown, IInv, TypeOK
<1>5. CASE damage[w]
  BY <1>1, <1>3, <1>4, <1>5 DEF Abstract, FX!Next, FX!Hide, Out, Shown
<1>6. CASE ~damage[w]
  <2>1. Shown' = Shown
    BY <1>4, <1>6 DEF Shown
  <2>2. w \notin damage_window_list /\ Out[w] = 0
    BY <1>6 DEF IInv, SurfacesOwned, Out
  <2>3. Out' = Out
    BY <1>3, <2>2 DEF Out
  <2> QED  BY <1>1, <2>1, <2>2, <2>3 DEF Abstract, FX!vars, Out, Shown
<1> QED  BY <1>5, <1>6

\* Mir hands a buffer back.
LEMMA ReceivedRefines ==
  ASSUME IInv, NEW s \in Surfaces, HandleBufferReceived(s)
  PROVE  Abstract
<1>1. PICK w \in Windows : damage[w] /\ surface[w] = s
  BY DEF HandleBufferReceived, IInv, SurfacesOwned
<1>2. swaps[s] = <<w>>
  BY <1>1 DEF HandleBufferReceived, IInv, OneBuffer
<1>3. swaps' = [swaps EXCEPT ![s] = <<>>]
  BY <1>2 DEF HandleBufferReceived
<1>4. UNCHANGED <<damage, surface, damage_window_list>>
  BY DEF HandleBufferReceived, xserver
<1>5. \A v \in Windows : damage[v] /\ v # w =>
        surface[v] # s /\ surface[v] \in Surfaces
  BY <1>1 DEF IInv, TypeOK, SurfacesOwned
<1>6. Out' = [Out EXCEPT ![w] = 0]
  <2> SUFFICES ASSUME NEW v \in Windows
               PROVE  Out'[v] = IF v = w THEN 0 ELSE Out[v]
    BY DEF Out
  <2>1. CASE v = w
    BY <1>1, <1>3, <1>4, <2>1 DEF Out, IInv, TypeOK
  <2>2. CASE v # w
    BY <1>3, <1>4, <1>5, <2>2 DEF Out, IInv, TypeOK
  <2> QED  BY <2>1, <2>2
<1>7. Out[w] = 1
  BY <1>1, <1>2 DEF Out
<1> QED  BY <1>4, <1>6, <1>7 DEF Abstract, FX!Next, FX!GiveBack, Out

\* Every step, one per action of Next.
LEMMA StepRefines ==
  ASSUME IInv, ~NeverClose, [Next]_vars
  PROVE  Abstract
<1>1. CASE UNCHANGED vars
  BY <1>1, DrawRefines DEF vars, xserver, mirserver
<1>2. ASSUME NEW w \in Windows, BlockRepaint(w) PROVE Abstract
  <2>1. damage[w] /\ swaps[surface[w]] = <<>>
    BY <1>2 DEF BlockRepaint, IInv, SurfacesOwned, OneBuffer
  <2>2. swaps' = [swaps EXCEPT ![surface[w]] = <<w>>]
    BY <1>2, <2>1 DEF BlockRepaint, xmir_repaint, xmir_swap
  <2>3. /\ UNCHANGED <<damage, surface>>
        /\ damage_window_list' = damage_window_list \ {w}
    BY <1>2 DEF BlockRepaint, xmir_repaint
  <2> QED  BY <2>1, <2>2, <2>3, SubmitRefines
<1>3. CASE BlockDone \/ WakeupPipe \/ WakeupClient \/ DrainDone \/ Yield \/ UnmapDone
  BY <1>3, DrawRefines DEF BlockDone, WakeupPipe, WakeupClient, DrainDone,
                           Yield, UnmapDone, xserver, mirserver
<1>4. CASE ProcessFromEventloop
  <2>1. pipe # <<>> /\ damage[Head(pipe).win]
    BY <1>4 DEF ProcessFromEventloop, IInv, TypeOK, NoStaleMessage
  <2> QED  BY <1>4, <2>1, CallbackRefines DEF ProcessFromEventloop
<1>5. CASE ProcessFromEventloopExcept
  <2>1. CASE Head(pipe).win = subject
    BY <1>5, <2>1, DrawRefines DEF ProcessFromEventloopExcept, xserver, mirserver
  <2>2. CASE Head(pipe).win # subject
    <3>1. pipe # <<>> /\ damage[Head(pipe).win]
      BY <1>5, <2>2 DEF ProcessFromEventloopExcept, IInv, TypeOK, NoStaleMessage
    <3> QED  BY <1>5, <2>2, <3>1, CallbackRefines DEF ProcessFromEventloopExcept
  <2> QED  BY <2>1, <2>2
<1>6. ASSUME NEW w \in Windows, Draw(w) PROVE Abstract
  BY <1>6, DrawRefines DEF Draw, mirserver
<1>7. ASSUME NEW w \in Windows, NEW z \in Sizes, ResizeWindow(w, z) PROVE Abstract
  BY <1>7, DrawRefines DEF ResizeWindow, mirserver
<1>8. ASSUME NEW w \in Windows, NEW s \in Surfaces, NEW z \in Sizes,
             RealizeNew(w, s, z)
      PROVE  Abstract
  BY <1>8, RealizeRefines DEF RealizeNew
<1>9. ASSUME NEW w \in Windows, NEW s \in Surfaces, RealizeInvalid(w, s)
      PROVE  Abstract
  BY <1>9, RealizeRefines DEF RealizeInvalid
<1>10. ASSUME NEW w \in Windows, RealizeNeverclosed(w) PROVE Abstract
  BY <1>10 DEF RealizeNeverclosed, IInv, Control
<1>10a. CASE RealizeDone
  BY <1>10a, RealizedRefines
<1>11. ASSUME NEW w \in Windows, UnmapSurface(w) PROVE Abstract
  BY <1>11, UnmapRefines
<1>12. ASSUME NEW w \in Windows, DestroyWindow(w) PROVE Abstract
  BY <1>12, DrawRefines DEF DestroyWindow, mirserver
<1>13. ASSUME NEW s \in Surfaces, HandleBufferReceived(s) PROVE Abstract
  BY <1>13, ReceivedRefines
<1>14. ASSUME NEW s \in Surfaces, NEW z \in Sizes, ShellResize(s, z) PROVE Abstract
  BY <1>14, DrawRefines DEF ShellResize, xserver
<1>15. ASSUME NEW s \in Surfaces, SurfaceHandleEvent(s) PROVE Abstract
  BY <1>15, DrawRefines DEF SurfaceHandleEvent, xserver
<1>16. ASSUME NEW s \in Surfaces, ReallocateBuffers(s) PROVE Abstract
  BY <1>16, DrawRefines DEF ReallocateBuffers, xserver
<1> QED
  BY <1>1, <1>2, <1>3, <1>4, <1>5, <1>6, <1>7, <1>8, <1>9, <1>10, <1>10a, <1>11,
     <1>12, <1>13, <1>14, <1>15, <1>16
     DEF Next, MainLoop, ClientRequest, Mir

\* The frame loop, without -neverclose, implements the exchange of frames: it
\* submits a frame only with a buffer the client holds, and every buffer that
\* comes back was submitted.
THEOREM FramesExchanged ==
  ASSUME ~NeverClose
  PROVE  Spec => FrameExchangeSafety
<1>1. Init => FX!Init
  BY DEF Init, FX!Init
<1>2. IInv /\ [Next]_vars => [FX!Next]_(FX!vars)
  BY StepRefines DEF Abstract
<1> QED  BY <1>1, <1>2, Invariance, PTL DEF Spec, FrameExchangeSafety
=============================================================================
