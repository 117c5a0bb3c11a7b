-------------------------- MODULE XmirFrameProofs ----------------------------
(***************************************************************************)
(* What is proved of XmirFrame, for all windows, surfaces, sizes and       *)
(* bounds.                                                                 *)
(***************************************************************************)
EXTENDS XmirFrame, TLAPS

-----------------------------------------------------------------------------
(* Occurrences of a message in a queue *)

LEMMA AppendAbsent ==
  ASSUME NEW S, NEW seq \in Seq(S), NEW m \in S, NEW x, m # x, Absent(x, seq)
  PROVE  Absent(x, Append(seq, m))
  BY DEF Absent

LEMMA AppendOnce ==
  ASSUME NEW S, NEW seq \in Seq(S), NEW m \in S, NEW x, m # x, Once(x, seq)
  PROVE  Once(x, Append(seq, m))
  BY DEF Once

LEMMA AppendIt ==
  ASSUME NEW S, NEW seq \in Seq(S), NEW x \in S, Absent(x, seq)
  PROVE  Once(x, Append(seq, x))
<1>1. /\ Append(seq, x)[Len(seq) + 1] = x
      /\ Len(seq) + 1 \in DOMAIN Append(seq, x)
  OBVIOUS
<1>2. ASSUME NEW j \in DOMAIN Append(seq, x), Append(seq, x)[j] = x
      PROVE  j = Len(seq) + 1
  BY <1>2 DEF Absent
<1> QED  BY <1>1, <1>2 DEF Once

LEMMA TailAbsent ==
  ASSUME NEW S, NEW seq \in Seq(S), seq # <<>>, NEW x, Absent(x, seq)
  PROVE  Absent(x, Tail(seq))
  BY DEF Absent

LEMMA TailOnce ==
  ASSUME NEW S, NEW seq \in Seq(S), seq # <<>>, NEW x, Once(x, seq),
         Head(seq) # x
  PROVE  Once(x, Tail(seq))
<1>1. PICK i \in DOMAIN seq :
        seq[i] = x /\ \A j \in DOMAIN seq : seq[j] = x => j = i
  BY DEF Once
<1>2. i # 1 /\ i - 1 \in DOMAIN Tail(seq) /\ Tail(seq)[i - 1] = x
  BY <1>1
<1>3. ASSUME NEW j \in DOMAIN Tail(seq), Tail(seq)[j] = x
      PROVE  j = i - 1
  BY <1>1, <1>3
<1> QED  BY <1>2, <1>3 DEF Once

LEMMA TailIt ==
  ASSUME NEW S, NEW seq \in Seq(S), seq # <<>>, NEW x, Once(x, seq),
         Head(seq) = x
  PROVE  Absent(x, Tail(seq))
<1>1. PICK i \in DOMAIN seq :
        seq[i] = x /\ \A j \in DOMAIN seq : seq[j] = x => j = i
  BY DEF Once
<1>2. i = 1
  BY <1>1
<1> QED  BY <1>1, <1>2 DEF Absent

-----------------------------------------------------------------------------
(* Types *)

LEMMA MessageTypes ==
  /\ \A w \in Windows : BufferMsg(w) \in Message
  /\ \A w \in Windows, z \in Sizes : ResizeMsg(w, z) \in Message
  /\ \A m \in Message : m.win \in Windows
  /\ \A m \in Message : m.cb = "buffer_available" => m = BufferMsg(m.win)
  /\ \A m \in Message :
       m.cb = "resize_event" => m.size \in Sizes /\ m = ResizeMsg(m.win, m.size)
  BY DEF Message, BufferMsg, ResizeMsg

LEMMA MessagesDiffer ==
  /\ \A v, w \in Windows : BufferMsg(v) = BufferMsg(w) => v = w
  /\ \A v, w \in Windows, z \in Sizes : ResizeMsg(v, z) # BufferMsg(w)
<1>1. \A w : BufferMsg(w).win = w /\ BufferMsg(w).cb = "buffer_available"
  BY DEF BufferMsg
<1>2. \A w, z : ResizeMsg(w, z).cb = "resize_event"
  BY DEF ResizeMsg
<1> QED  BY <1>1, <1>2

\* Types, piece by piece: what the main thread's handlers leave well typed.
XserverTypes ==
  /\ created \subseteq Windows
  /\ surface \in [Windows -> Surfaces \cup {NoSurface}]
  /\ damage \in [Windows -> BOOLEAN]
  /\ damage_window_list \subseteq Windows
  /\ has_free_buffer \in [Windows -> BOOLEAN]
  /\ surface_size \in [Windows -> Sizes]
  /\ buf_size \in [Windows -> Sizes]
  /\ window_size \in [Windows -> Sizes]
  /\ redraw_owed \subseteq Windows
  /\ neverclosed \in Surfaces \cup {NoSurface}
  /\ rootless \in BOOLEAN /\ (NeverClose => rootless)
  /\ partial \subseteq Windows

MirTypes ==
  /\ mir \in [Surfaces -> {"free", "live", "invalid"}]
  /\ shell_size \in [Surfaces -> Sizes]
  /\ event_due \subseteq Surfaces
  /\ alloc_size \in [Surfaces -> Sizes]
  /\ buffer_size \in [Surfaces -> Sizes]
  /\ swaps \in [Surfaces -> Seq(Windows \cup {NoWindow})]
  /\ unheard \subseteq Surfaces

LEMMA RepaintTypes ==
  ASSUME XserverTypes, MirTypes, NEW w \in Windows, surface[w] # NoSurface,
         xmir_repaint(w),
         UNCHANGED <<created, surface, damage, surface_size, buf_size,
                     window_size, redraw_owed, neverclosed, rootless, mir, shell_size,
                     event_due, alloc_size, buffer_size, unheard>>
  PROVE  XserverTypes' /\ MirTypes'
<1>1. surface[w] \in Surfaces
  BY DEF XserverTypes
<1>2. swaps' \in [Surfaces -> Seq(Windows \cup {NoWindow})]
  BY <1>1 DEF xmir_repaint, xmir_swap, MirTypes
<1> QED  BY <1>2 DEF xmir_repaint, xmir_sw_copy, XserverTypes, MirTypes

\* Damage is tracked on a surface, and only windows that track it are damaged.
DamageTracked ==
  /\ \A w \in Windows : damage[w] => surface[w] # NoSurface
  /\ \A w \in damage_window_list : damage[w]

LEMMA CallbackTypes ==
  ASSUME XserverTypes, MirTypes, DamageTracked, NEW m \in Message, Callback(m)
  PROVE  XserverTypes' /\ MirTypes'
<1>1. CASE m.cb = "buffer_available" /\ HandleBufferAvailable(m.win)
  <2> DEFINE w == m.win
  <2>w. w \in Windows
    BY MessageTypes
  <2>1. CASE ~damage[w] \/ mir[surface[w]] # "live"
    BY <1>1, <2>1 DEF HandleBufferAvailable, xmir_handle_buffer_available,
                      XserverTypes, MirTypes
  <2>2. CASE damage[w] /\ mir[surface[w]] = "live"
    <3> DEFINE z == buffer_size[surface[w]]
    <3>1. surface[w] \in Surfaces /\ z \in Sizes
      BY <2>2, <2>w DEF DamageTracked, XserverTypes, MirTypes
    <3>2. BufferAvailable(w, z)
      BY <1>1, <2>2 DEF HandleBufferAvailable, xmir_handle_buffer_available
    <3>3. swaps' \in [Surfaces -> Seq(Windows \cup {NoWindow})]
      <4>1. xmir_swap(w) \/ UNCHANGED swaps
        BY <3>2 DEF BufferAvailable
      <4>2. Append(swaps[surface[w]], w) \in Seq(Windows \cup {NoWindow})
        BY <2>w, <3>1 DEF MirTypes
      <4> QED  BY <4>1, <4>2 DEF xmir_swap, MirTypes
    <3>4. UNCHANGED <<created, surface, damage, surface_size, neverclosed, rootless,
                      mir, shell_size, event_due, alloc_size, buffer_size, unheard>>
      BY <1>1 DEF HandleBufferAvailable
    <3>5. has_free_buffer' \in [Windows -> BOOLEAN]
      <4>1. PaintNow(w, z) \in BOOLEAN
        BY DEF PaintNow, xserver_lagging
      <4> QED  BY <2>w, <3>2, <4>1 DEF BufferAvailable, XserverTypes
    <3>6. /\ damage_window_list' \subseteq Windows
          /\ redraw_owed' \subseteq Windows
          /\ partial' \subseteq Windows
      BY <2>w, <3>2 DEF BufferAvailable, FollowBuffer, xmir_sw_copy, XserverTypes
    <3>7. /\ buf_size' \in [Windows -> Sizes]
          /\ window_size' \in [Windows -> Sizes]
      BY <2>w, <3>1, <3>2 DEF BufferAvailable, FollowBuffer, XserverTypes
    <3> QED  BY <3>3, <3>4, <3>5, <3>6, <3>7 DEF XserverTypes, MirTypes
  <2> QED  BY <2>1, <2>2, <2>w DEF XserverTypes
<1>2. CASE m.cb = "resize_event" /\ HandleResizeEvent(m.win, m.size)
  BY <1>2, MessageTypes DEF HandleResizeEvent, NoteSurfaceSize, mirserver,
                            XserverTypes, MirTypes
<1> QED  BY <1>1, <1>2 DEF Callback

LoopTypes ==
  /\ pipe \in Seq(Message)
  /\ pc \in {"dispatch", "block", "select", "drain", "unmap", "realize"}
  /\ subject \in Windows \cup {NoWindow}
  /\ resizes \in 0 .. MaxResizes

LEMMA TypesSplit ==
  /\ TypeOK <=> XserverTypes /\ MirTypes /\ LoopTypes
  /\ TypeOK' <=> XserverTypes' /\ MirTypes' /\ LoopTypes'
  BY DEF TypeOK, XserverTypes, MirTypes, LoopTypes

\* A post, a read and everything else keep the pipe well typed.
LEMMA PostTypes ==
  ASSUME pipe \in Seq(Message), NEW m \in Message, xmir_post_to_eventloop(m)
  PROVE  pipe' \in Seq(Message)
  BY DEF xmir_post_to_eventloop

LEMMA TypeStep ==
  ASSUME TypeOK, DamageTracked, [Next]_vars
  PROVE  TypeOK'
<1> USE TypesSplit
<1>0. CASE UNCHANGED vars
  BY <1>0 DEF vars, xserver, mirserver, TypeOK
<1>1. ASSUME NEW w \in Windows, BlockRepaint(w) PROVE TypeOK'
  <2>1. damage[w] /\ surface[w] # NoSurface
    BY <1>1 DEF BlockRepaint, DamageTracked
  <2>2. XserverTypes' /\ MirTypes'
    BY <1>1, <2>1, RepaintTypes DEF BlockRepaint
  <2> QED  BY <1>1, <2>2 DEF BlockRepaint, LoopTypes
<1>2. CASE BlockDone \/ WakeupPipe \/ WakeupClient \/ DrainDone \/ Yield
  BY <1>2 DEF BlockDone, WakeupPipe, WakeupClient, DrainDone, Yield, TypeOK,
              xserver, mirserver
<1>3. CASE UnmapDone
  BY <1>3 DEF UnmapDone, TypeOK, xserver, mirserver
<1>4. CASE ProcessFromEventloop
  <2>1. Head(pipe) \in Message /\ Tail(pipe) \in Seq(Message)
    BY <1>4 DEF ProcessFromEventloop, LoopTypes
  <2>2. XserverTypes' /\ MirTypes'
    BY <1>4, <2>1, CallbackTypes DEF ProcessFromEventloop
  <2> QED  BY <1>4, <2>1, <2>2 DEF ProcessFromEventloop, LoopTypes
<1>5. CASE ProcessFromEventloopExcept
  <2>1. Head(pipe) \in Message /\ Tail(pipe) \in Seq(Message)
    BY <1>5 DEF ProcessFromEventloopExcept, LoopTypes
  <2>2. XserverTypes' /\ MirTypes'
    <3>1. CASE Callback(Head(pipe))
      BY <2>1, <3>1, CallbackTypes
    <3>2. CASE UNCHANGED <<xserver, mirserver>>
      BY <3>2 DEF xserver, mirserver, XserverTypes, MirTypes
    <3> QED  BY <1>5, <3>1, <3>2 DEF ProcessFromEventloopExcept
  <2> QED  BY <1>5, <2>1, <2>2 DEF ProcessFromEventloopExcept, LoopTypes
<1>6a. ASSUME NEW w \in Windows, Draw(w) \/ DestroyWindow(w) PROVE TypeOK'
  BY <1>6a DEF Draw, DestroyWindow, TypeOK, mirserver
<1>6b. ASSUME NEW w \in Windows, NEW z \in Sizes, ResizeWindow(w, z)
       PROVE  TypeOK'
  <2>1. resizes' \in 0 .. MaxResizes
    BY <1>6b, BoundsAssumption DEF ResizeWindow, TypeOK
  <2> QED  BY <1>6b, <2>1 DEF ResizeWindow, TypeOK, mirserver
<1>7. ASSUME NEW w \in Windows, NEW s \in Surfaces, NEW z \in Sizes,
             RealizeNew(w, s, z)
      PROVE  TypeOK'
  BY <1>7, BoundsAssumption DEF RealizeNew, RealizeOn, TypeOK
<1>8. ASSUME NEW w \in Windows, NEW s \in Surfaces, RealizeInvalid(w, s)
      PROVE  TypeOK'
  BY <1>8 DEF RealizeInvalid, RealizeOn, TypeOK
<1>9. ASSUME NEW w \in Windows, RealizeNeverclosed(w) PROVE TypeOK'
  BY <1>9 DEF RealizeNeverclosed, RealizeOn, TypeOK, mirserver
<1>9a. CASE RealizeDone
  BY <1>9a DEF RealizeDone, TypeOK, mirserver
<1>10. ASSUME NEW w \in Windows, UnmapSurface(w) PROVE TypeOK'
  <2>1. surface[w] \in Surfaces
    BY <1>10 DEF UnmapSurface, TypeOK
  <2>2. <<>> \in Seq(Windows \cup {NoWindow})
        /\ Append(swaps[surface[w]], NoWindow) \in Seq(Windows \cup {NoWindow})
    BY <2>1 DEF TypeOK
  <2>3. MirTypes' /\ neverclosed' \in Surfaces \cup {NoSurface}
    BY <1>10, <2>1, <2>2 DEF UnmapSurface, GiveUpSurface, TypeOK, MirTypes
  <2> QED  BY <1>10, <2>3 DEF UnmapSurface, XserverTypes, LoopTypes
<1>11. ASSUME NEW s \in Surfaces, HandleBufferReceived(s) PROVE TypeOK'
  <2>1. /\ Tail(swaps[s]) \in Seq(Windows \cup {NoWindow})
        /\ Head(swaps[s]) \in Windows \cup {NoWindow}
    BY <1>11 DEF HandleBufferReceived, TypeOK
  <2>2. pipe' \in Seq(Message)
    <3>1. CASE Head(swaps[s]) = NoWindow
      BY <1>11, <3>1 DEF HandleBufferReceived, TypeOK
    <3>2. CASE Head(swaps[s]) # NoWindow
      BY <1>11, <2>1, <3>2, MessageTypes, PostTypes
      DEF HandleBufferReceived, TypeOK
    <3> QED  BY <3>1, <3>2
  <2> QED  BY <1>11, <2>1, <2>2 DEF HandleBufferReceived, TypeOK, xserver
<1>12. ASSUME NEW s \in Surfaces, SurfaceHandleEvent(s) PROVE TypeOK'
  <2>1. pipe' \in Seq(Message)
    BY <1>12, MessageTypes, PostTypes DEF SurfaceHandleEvent, TypeOK
  <2> QED  BY <1>12, <2>1 DEF SurfaceHandleEvent, TypeOK, xserver
<1>13a. ASSUME NEW s \in Surfaces, NEW z \in Sizes, ShellResize(s, z)
        PROVE  TypeOK'
  <2>1. resizes' \in 0 .. MaxResizes
    BY <1>13a, BoundsAssumption DEF ShellResize, TypeOK
  <2> QED  BY <1>13a, <2>1 DEF ShellResize, TypeOK, xserver
<1>13b. ASSUME NEW s \in Surfaces, ReallocateBuffers(s) PROVE TypeOK'
  BY <1>13b DEF ReallocateBuffers, TypeOK, xserver
<1> QED  BY <1>0, <1>1, <1>2, <1>3, <1>4, <1>5, <1>6a, <1>6b, <1>7, <1>8, <1>9,
            <1>9a, <1>10, <1>11, <1>12, <1>13a, <1>13b
         DEF Next, MainLoop, ClientRequest, Mir

-----------------------------------------------------------------------------
(* The inductive invariant *)

\* What the places of the main thread's loop tell.
Control ==
  /\ neverclosed = NoSurface
  /\ pc = "unmap" => subject \in Windows /\ ~damage[subject]
  /\ pc = "realize" => /\ subject \in Windows /\ ~damage[subject]
                       /\ surface[subject] # NoSurface /\ has_free_buffer[subject]
  /\ pc = "select" => \A w \in damage_window_list : ~has_free_buffer[w]

IInv ==
  TypeOK /\ SurfacesOwned /\ OneBuffer /\ NoStaleMessage /\ Control

LEMMA InitIInv ==
  ASSUME Init
  PROVE  IInv
<1>1. TypeOK
  <2>1. <<>> \in Seq(Windows \cup {NoWindow}) /\ <<>> \in Seq(Message)
    OBVIOUS
  <2>2. 0 \in 0 .. MaxResizes
    BY BoundsAssumption
  <2> QED  BY <2>1, <2>2, OptionsAssumption DEF Init, TypeOK
<1>2. NoStaleMessage
  BY DEF Init, NoStaleMessage
<1> QED  BY <1>1, <1>2 DEF Init, IInv, SurfacesOwned, OneBuffer, Control

\* The token of one window, as OneBuffer states it.
Token(w) ==
  \/ has_free_buffer[w] /\ swaps[surface[w]] = <<>> /\ Absent(BufferMsg(w), pipe)
  \/ ~has_free_buffer[w] /\ swaps[surface[w]] = <<w>> /\ Absent(BufferMsg(w), pipe)
  \/ ~has_free_buffer[w] /\ swaps[surface[w]] = <<>> /\ Once(BufferMsg(w), pipe)

LEMMA TokenOne ==
  /\ OneBuffer <=> \A w \in Windows : damage[w] => Token(w)
  /\ OneBuffer' <=> \A w \in Windows : damage'[w] => Token(w)'
  BY DEF OneBuffer, Token

\* A step that leaves alone the flag, the surface, its swaps and the messages
\* of a window leaves its token alone.
LEMMA TokenKept ==
  ASSUME NEW w \in Windows, Token(w),
         has_free_buffer'[w] = has_free_buffer[w], surface'[w] = surface[w],
         swaps'[surface[w]] = swaps[surface[w]],
         Absent(BufferMsg(w), pipe) => Absent(BufferMsg(w), pipe'),
         Once(BufferMsg(w), pipe) => Once(BufferMsg(w), pipe')
  PROVE  Token(w)'
  BY DEF Token

\* Painting a window that has a free buffer.
LEMMA RepaintKeeps ==
  ASSUME IInv, NEW w \in Windows, BlockRepaint(w)
  PROVE  SurfacesOwned' /\ OneBuffer' /\ NoStaleMessage' /\ Control'
<1>1. /\ damage[w] /\ surface[w] \in Surfaces /\ has_free_buffer[w]
      /\ swaps[surface[w]] = <<>> /\ Absent(BufferMsg(w), pipe)
  <2>1. damage[w] /\ surface[w] \in Surfaces /\ has_free_buffer[w]
    BY DEF BlockRepaint, IInv, SurfacesOwned, TypeOK
  <2> QED  BY <2>1 DEF IInv, OneBuffer
<1>2. swaps' = [swaps EXCEPT ![surface[w]] = <<w>>]
  BY <1>1 DEF BlockRepaint, xmir_repaint, xmir_swap
<1>3. has_free_buffer' = [has_free_buffer EXCEPT ![w] = FALSE]
  BY DEF BlockRepaint, xmir_repaint
<1>4. UNCHANGED <<created, surface, damage, mir, pipe, pc, subject, neverclosed, rootless>>
  BY DEF BlockRepaint
<1>5. damage_window_list' = damage_window_list \ {w}
  BY DEF BlockRepaint, xmir_repaint
<1>6. SurfacesOwned'
  <2>1. ASSUME NEW s \in Surfaces, swaps'[s] # <<>>
        PROVE  \E v \in Windows : damage'[v] /\ surface'[v] = s
    <3>1. CASE s = surface[w]
      BY <1>1, <1>4, <3>1
    <3>2. CASE s # surface[w]
      <4>1. swaps[s] # <<>>
        BY <1>1, <1>2, <2>1, <3>2 DEF IInv, TypeOK
      <4> QED  BY <4>1, <1>4 DEF IInv, SurfacesOwned
    <3> QED  BY <3>1, <3>2
  <2> QED  BY <2>1, <1>4, <1>5 DEF IInv, SurfacesOwned
<1>7. OneBuffer'
  <2> SUFFICES ASSUME NEW v \in Windows, damage'[v] PROVE Token(v)'
    BY TokenOne
  <2>1. CASE v = w
    BY <1>1, <1>2, <1>3, <1>4, <2>1 DEF IInv, TypeOK, Token
  <2>2. CASE v # w
    <3>1. surface[v] # surface[w] /\ surface[v] \in Surfaces
      BY <1>1, <1>4, <2>2 DEF IInv, SurfacesOwned, TypeOK
    <3>2. Token(v)
      BY <1>4, TokenOne DEF IInv
    <3> QED  BY <1>1, <1>2, <1>3, <1>4, <2>2, <3>1, <3>2, TokenKept
             DEF IInv, TypeOK
  <2> QED  BY <2>1, <2>2
<1>8. NoStaleMessage'
  BY <1>4 DEF IInv, NoStaleMessage
<1>9. Control'
  BY <1>4 DEF IInv, Control, BlockRepaint
<1> QED  BY <1>6, <1>7, <1>8, <1>9

\* Reading a message takes nothing stale away and leaves nothing stale.
LEMMA ReadKeepsFresh ==
  ASSUME IInv, pipe # <<>>, pipe' = Tail(pipe),
         UNCHANGED <<damage, created, pc, subject>>
  PROVE  NoStaleMessage'
<1>1. \A i \in DOMAIN Tail(pipe) :
        i + 1 \in DOMAIN pipe /\ Tail(pipe)[i] = pipe[i + 1]
  BY DEF IInv, TypeOK
<1> QED  BY <1>1 DEF IInv, NoStaleMessage

\* The messages of another window than that of the message read.
LEMMA ReadKeepsToken ==
  ASSUME IInv, NEW w \in Windows, Token(w), pipe # <<>>, pipe' = Tail(pipe),
         Head(pipe) # BufferMsg(w),
         has_free_buffer'[w] = has_free_buffer[w], surface'[w] = surface[w],
         swaps'[surface[w]] = swaps[surface[w]]
  PROVE  Token(w)'
<1>1. pipe \in Seq(Message)
  BY DEF IInv, TypeOK
<1> QED  BY <1>1, TailAbsent, TailOnce, TokenKept

\* The buffer-available message of a window is its token: has_free_buffer
\* or, if it is painted at once, a swap takes its place.
LEMMA BufferAvailableKeeps ==
  ASSUME IInv, pipe # <<>>, pipe' = Tail(pipe), pc \notin {"select", "realize"},
         NEW w \in Windows, damage[w], Head(pipe) = BufferMsg(w),
         HandleBufferAvailable(w), UNCHANGED <<pc, subject>>
  PROVE  SurfacesOwned' /\ OneBuffer' /\ NoStaleMessage' /\ Control'
<1> DEFINE z == buffer_size[surface[w]]
<1>1. surface[w] \in Surfaces /\ mir[surface[w]] = "live" /\ pipe \in Seq(Message)
  BY DEF IInv, SurfacesOwned, TypeOK
<1>2. BufferAvailable(w, z)
  BY <1>1 DEF HandleBufferAvailable, xmir_handle_buffer_available
<1>3. UNCHANGED <<created, surface, damage, mir, neverclosed, rootless>>
  BY DEF HandleBufferAvailable
<1>4. /\ ~has_free_buffer[w] /\ swaps[surface[w]] = <<>>
      /\ Once(BufferMsg(w), pipe)
  <2>1. ~Absent(BufferMsg(w), pipe)
    BY <1>1 DEF Absent
  <2> QED  BY <2>1 DEF IInv, OneBuffer
<1>5. Absent(BufferMsg(w), pipe')
  BY <1>1, <1>4, TailIt
<1>6. \/ /\ has_free_buffer' = [has_free_buffer EXCEPT ![w] = TRUE]
         /\ swaps' = swaps
      \/ /\ has_free_buffer' = [has_free_buffer EXCEPT ![w] = FALSE]
         /\ swaps' = [swaps EXCEPT ![surface[w]] = <<w>>]
  <2>1. CASE PaintNow(w, z)
    <3>1. (~PaintNow(w, z)) = FALSE
      BY <2>1
    <3>2. swaps' = [swaps EXCEPT ![surface[w]] = <<w>>]
      BY <1>2, <1>4, <2>1 DEF BufferAvailable, xmir_swap
    <3>3. has_free_buffer' = [has_free_buffer EXCEPT ![w] = FALSE]
      BY <1>2, <3>1 DEF BufferAvailable
    <3> QED  BY <3>2, <3>3
  <2>2. CASE ~PaintNow(w, z)
    <3>1. (~PaintNow(w, z)) = TRUE
      BY <2>2
    <3>2. has_free_buffer' = [has_free_buffer EXCEPT ![w] = TRUE]
      BY <1>2, <3>1 DEF BufferAvailable
    <3> QED  BY <1>2, <2>2, <3>2 DEF BufferAvailable
  <2> QED  BY <2>1, <2>2
<1>7. SurfacesOwned'
  <2>1. ASSUME NEW s \in Surfaces, swaps'[s] # <<>>
        PROVE  \E v \in Windows : damage'[v] /\ surface'[v] = s
    <3>1. CASE s = surface[w]
      BY <1>3, <3>1
    <3>2. CASE s # surface[w]
      <4>1. swaps[s] # <<>>
        BY <1>1, <1>6, <2>1, <3>2 DEF IInv, TypeOK
      <4> QED  BY <4>1, <1>3 DEF IInv, SurfacesOwned
    <3> QED  BY <3>1, <3>2
  <2>2. \A v \in damage_window_list' : damage[v]
    BY <1>2 DEF BufferAvailable, IInv, SurfacesOwned
  <2> QED  BY <2>1, <2>2, <1>3 DEF IInv, SurfacesOwned
<1>8. OneBuffer'
  <2> SUFFICES ASSUME NEW v \in Windows, damage'[v] PROVE Token(v)'
    BY TokenOne
  <2>1. CASE v = w
    BY <1>1, <1>3, <1>4, <1>5, <1>6, <2>1 DEF IInv, TypeOK, Token
  <2>2. CASE v # w
    <3>1. surface[v] # surface[w] /\ surface[v] \in Surfaces
      BY <1>1, <1>3, <2>2 DEF IInv, SurfacesOwned, TypeOK
    <3>2. Token(v) /\ Head(pipe) # BufferMsg(v)
      BY <1>3, <2>2, TokenOne, MessagesDiffer DEF IInv
    <3>3. /\ has_free_buffer'[v] = has_free_buffer[v]
          /\ swaps'[surface[v]] = swaps[surface[v]]
      BY <1>1, <1>6, <2>2, <3>1 DEF IInv, TypeOK
    <3> QED  BY <1>3, <3>2, <3>3, ReadKeepsToken
  <2> QED  BY <2>1, <2>2
<1>9. NoStaleMessage'
  BY <1>3, ReadKeepsFresh
<1>10. Control'
  BY <1>3 DEF IInv, Control
<1> QED  BY <1>7, <1>8, <1>9, <1>10

\* Reading a message without effect on surfaces, flags and swaps.
LEMMA ReadKeeps ==
  ASSUME IInv, pipe # <<>>, pipe' = Tail(pipe), pc \notin {"select", "realize"},
         \A w \in Windows : damage[w] => Head(pipe) # BufferMsg(w),
         UNCHANGED <<created, surface, damage, has_free_buffer, mir, swaps,
                     neverclosed, rootless, pc, subject>>,
         damage_window_list' \subseteq {w \in Windows : damage[w]}
  PROVE  SurfacesOwned' /\ OneBuffer' /\ NoStaleMessage' /\ Control'
<1>1. OneBuffer'
  <2> SUFFICES ASSUME NEW v \in Windows, damage'[v] PROVE Token(v)'
    BY TokenOne
  <2> QED  BY TokenOne, ReadKeepsToken DEF IInv
<1>2. SurfacesOwned'
  BY DEF IInv, SurfacesOwned
<1>3. NoStaleMessage'
  BY ReadKeepsFresh
<1>4. Control'
  BY DEF IInv, Control
<1> QED  BY <1>1, <1>2, <1>3, <1>4

LEMMA CallbackKeeps ==
  ASSUME IInv, pipe # <<>>, pipe' = Tail(pipe), pc \notin {"select", "realize"},
         damage[Head(pipe).win], Callback(Head(pipe)), UNCHANGED <<pc, subject>>
  PROVE  SurfacesOwned' /\ OneBuffer' /\ NoStaleMessage' /\ Control'
<1> DEFINE m == Head(pipe)
<1>1. m \in Message /\ m.win \in Windows
  BY MessageTypes DEF IInv, TypeOK
<1>2. CASE m.cb = "buffer_available" /\ HandleBufferAvailable(m.win)
  BY <1>1, <1>2, MessageTypes, BufferAvailableKeeps
<1>3. CASE m.cb = "resize_event" /\ HandleResizeEvent(m.win, m.size)
  <2>1. \A w \in Windows : m # BufferMsg(w)
    BY <1>1, <1>3, MessageTypes, MessagesDiffer
  <2>2. damage_window_list' \subseteq {w \in Windows : damage[w]}
    BY <1>1, <1>3 DEF HandleResizeEvent, IInv, SurfacesOwned, TypeOK
  <2> QED  BY <1>3, <2>1, <2>2, ReadKeeps DEF HandleResizeEvent, mirserver
<1> QED  BY <1>2, <1>3 DEF Callback

\* Realizing a window, before it tracks damage.
LEMMA RealizeKeeps ==
  ASSUME IInv, NEW w \in Windows, NEW s \in Surfaces, NEW valid \in BOOLEAN,
         pc = "dispatch", w \in created, surface[w] = NoSurface,
         mir[s] = "free",
         mir' = [mir EXCEPT ![s] = IF valid THEN "live" ELSE "invalid"],
         RealizeOn(w, s), UNCHANGED swaps,
         IF valid THEN pc' = "realize" /\ subject' = w ELSE UNCHANGED <<pc, subject>>
  PROVE  SurfacesOwned' /\ OneBuffer' /\ NoStaleMessage' /\ Control'
<1>1. ~damage[w] /\ \A v \in Windows : surface[v] # s
  BY SurfacesAssumption DEF IInv, SurfacesOwned
<1>2. /\ surface' = [surface EXCEPT ![w] = s]
      /\ has_free_buffer' = [has_free_buffer EXCEPT ![w] = TRUE]
      /\ UNCHANGED <<created, damage, damage_window_list, neverclosed, rootless, pipe>>
  BY DEF RealizeOn
<1>3. SurfacesOwned'
  <2>1. \A u, v \in Windows :
          surface'[u] = surface'[v] /\ surface'[u] # NoSurface => u = v
    BY <1>1, <1>2 DEF IInv, SurfacesOwned, TypeOK
  <2>2. ASSUME NEW v \in Windows
        PROVE  /\ damage'[v] => surface'[v] # NoSurface
               /\ surface'[v] # NoSurface =>
                    /\ v \in created
                    /\ mir'[surface'[v]] =
                         IF damage'[v] \/ (pc' = "realize" /\ subject' = v)
                           THEN "live" ELSE "invalid"
    <3>1. CASE v = w
      BY <1>1, <1>2, <3>1, SurfacesAssumption DEF IInv, TypeOK
    <3>2. CASE v # w
      BY <1>1, <1>2, <3>2 DEF IInv, SurfacesOwned, TypeOK
    <3> QED  BY <3>1, <3>2
  <2>3. ASSUME NEW r \in Surfaces, swaps'[r] # <<>>
        PROVE  \E v \in Windows : damage'[v] /\ surface'[v] = r
    <3>1. PICK v \in Windows : damage[v] /\ surface[v] = r
      BY <2>3 DEF IInv, SurfacesOwned
    <3>2. v # w
      BY <1>1, <3>1
    <3> QED  BY <1>2, <3>1, <3>2 DEF IInv, TypeOK
  <2>4. \A v \in damage_window_list' : damage'[v]
    BY <1>2 DEF IInv, SurfacesOwned
  <2> QED  BY <2>1, <2>2, <2>3, <2>4, <1>2 DEF SurfacesOwned
<1>4. OneBuffer'
  <2> SUFFICES ASSUME NEW v \in Windows, damage'[v] PROVE Token(v)'
    BY TokenOne
  <2>1. v # w /\ Token(v) /\ surface[v] \in Surfaces
    BY <1>1, <1>2, TokenOne DEF IInv, TypeOK, SurfacesOwned
  <2> QED  BY <1>2, <2>1, TokenKept DEF IInv, TypeOK
<1>5. NoStaleMessage'
  BY <1>2 DEF IInv, NoStaleMessage
<1>6. Control'
  <2>1. w \in Windows /\ surface'[w] # NoSurface /\ has_free_buffer'[w]
    BY <1>2, SurfacesAssumption DEF IInv, TypeOK
  <2> QED  BY <1>1, <1>2, <2>1 DEF IInv, Control
<1> QED  BY <1>3, <1>4, <1>5, <1>6

\* The handler is set and damage tracked: there is no message for the window
\* yet, nor a swap on its surface.
LEMMA RealizedKeeps ==
  ASSUME IInv, RealizeDone
  PROVE  SurfacesOwned' /\ OneBuffer' /\ NoStaleMessage' /\ Control'
<1> DEFINE w == subject
<1>1. /\ w \in Windows /\ ~damage[w] /\ surface[w] \in Surfaces
      /\ surface[w] # NoSurface /\ has_free_buffer[w]
  BY DEF RealizeDone, IInv, Control, TypeOK
<1>2. /\ damage' = [damage EXCEPT ![w] = TRUE] /\ pc = "realize" /\ pc' = "dispatch"
      /\ UNCHANGED <<created, surface, damage_window_list, has_free_buffer,
                     neverclosed, rootless, mir, swaps, pipe>>
  BY DEF RealizeDone, mirserver
<1> HIDE DEF w
<1>3. \A v \in Windows : damage'[v] <=> damage[v] \/ v = w
  BY <1>1, <1>2 DEF IInv, TypeOK
<1>4. SurfacesOwned'
  <2>1. \A v \in Windows : damage'[v] => surface'[v] # NoSurface
    BY <1>1, <1>2, <1>3 DEF IInv, SurfacesOwned
  <2>2. ASSUME NEW v \in Windows, surface'[v] # NoSurface
        PROVE  /\ v \in created'
               /\ mir'[surface'[v]] = IF damage'[v] THEN "live" ELSE "invalid"
    BY <1>2, <1>3, <2>2 DEF IInv, SurfacesOwned, w
  <2>3. ASSUME NEW r \in Surfaces, swaps'[r] # <<>>
        PROVE  \E v \in Windows : damage'[v] /\ surface'[v] = r
    BY <1>2, <1>3, <2>3 DEF IInv, SurfacesOwned
  <2>4. \A v \in damage_window_list' : damage'[v]
    BY <1>2, <1>3 DEF IInv, SurfacesOwned, TypeOK
  <2> QED  BY <1>2, <2>1, <2>2, <2>3, <2>4 DEF IInv, SurfacesOwned
<1>5. OneBuffer'
  <2> SUFFICES ASSUME NEW v \in Windows, damage'[v] PROVE Token(v)'
    BY TokenOne
  <2>1. CASE v = w
    <3>1. swaps[surface[w]] = <<>>
      <4>1. \A u \in Windows : damage[u] => surface[u] # surface[w]
        BY <1>1 DEF IInv, SurfacesOwned
      <4> QED  BY <1>1, <4>1 DEF IInv, SurfacesOwned
    <3>2. Absent(BufferMsg(w), pipe)
      <4>1. \A i \in DOMAIN pipe : damage[pipe[i].win]
        BY <1>2 DEF IInv, NoStaleMessage
      <4> QED  BY <1>1, <4>1 DEF Absent, BufferMsg
    <3> QED  BY <1>1, <1>2, <2>1, <3>1, <3>2 DEF Token
  <2>2. CASE v # w
    BY <1>2, <1>3, <2>2, TokenOne, TokenKept DEF IInv
  <2> QED  BY <2>1, <2>2
<1>6. NoStaleMessage'
  <2>1. \A i \in DOMAIN pipe : pipe[i].win \in Windows
    BY MessageTypes DEF IInv, TypeOK
  <2> QED  BY <1>2, <1>3, <2>1 DEF IInv, NoStaleMessage
<1>7. Control'
  BY <1>2 DEF IInv, Control
<1> QED  BY <1>4, <1>5, <1>6, <1>7

\* Unmapping: the messages for the window become the drain's business.
LEMMA UnmapKeeps ==
  ASSUME IInv, ~NeverClose, NEW w \in Windows, UnmapSurface(w)
  PROVE  SurfacesOwned' /\ OneBuffer' /\ NoStaleMessage' /\ Control'
<1> DEFINE s == surface[w]
<1>1. s \in Surfaces /\ pc = "dispatch"
  BY DEF UnmapSurface, IInv, TypeOK
<1>2. /\ damage' = [damage EXCEPT ![w] = FALSE]
      /\ damage_window_list' = damage_window_list \ {w}
      /\ surface' = [surface EXCEPT ![w] = NoSurface]
      /\ swaps' = [swaps EXCEPT ![s] = <<>>]
      /\ mir' = [mir EXCEPT ![s] = "free"]
      /\ pc' = "unmap" /\ subject' = w
      /\ UNCHANGED <<created, has_free_buffer, neverclosed, rootless, pipe>>
  BY DEF UnmapSurface, GiveUpSurface
<1>3. \A v \in Windows : v # w => surface[v] # s
  BY <1>1, SurfacesAssumption DEF IInv, SurfacesOwned
<1>4. SurfacesOwned'
  <2>1. \A u, v \in Windows :
          surface'[u] = surface'[v] /\ surface'[u] # NoSurface => u = v
    BY <1>2 DEF IInv, SurfacesOwned, TypeOK
  <2>2. \A v \in Windows :
          /\ damage'[v] => surface'[v] # NoSurface
          /\ surface'[v] # NoSurface =>
               /\ v \in created
               /\ mir'[surface'[v]] =
                    IF damage'[v] \/ (pc' = "realize" /\ subject' = v)
                      THEN "live" ELSE "invalid"
    BY <1>1, <1>2, <1>3 DEF IInv, SurfacesOwned, TypeOK
  <2>3. \A r \in Surfaces :
          swaps'[r] # <<>> => \E v \in Windows : damage'[v] /\ surface'[v] = r
    <3> SUFFICES ASSUME NEW r \in Surfaces, swaps'[r] # <<>>
                 PROVE  \E v \in Windows : damage'[v] /\ surface'[v] = r
      OBVIOUS
    <3>1. r # s /\ swaps[r] # <<>>
      BY <1>1, <1>2 DEF IInv, TypeOK
    <3>2. PICK v \in Windows : damage[v] /\ surface[v] = r
      BY <3>1 DEF IInv, SurfacesOwned
    <3> QED  BY <1>2, <3>1, <3>2 DEF IInv, TypeOK
  <2>4. \A v \in damage_window_list' : damage'[v]
    BY <1>2 DEF IInv, SurfacesOwned, TypeOK
  <2> QED  BY <2>1, <2>2, <2>3, <2>4, <1>2 DEF SurfacesOwned
<1>5. OneBuffer'
  <2> SUFFICES ASSUME NEW v \in Windows, damage'[v] PROVE Token(v)'
    BY TokenOne
  <2>1. v # w /\ damage[v]
    BY <1>2 DEF IInv, TypeOK
  <2>2. Token(v) /\ surface[v] \in Surfaces
    BY <2>1, TokenOne DEF IInv, TypeOK, SurfacesOwned
  <2> QED  BY <1>1, <1>2, <1>3, <2>1, <2>2, TokenKept DEF IInv, TypeOK
<1>6. NoStaleMessage'
  <2> SUFFICES ASSUME NEW i \in DOMAIN pipe
               PROVE  pipe[i].win = w \/ (damage'[pipe[i].win] /\ pipe[i].win \in created)
    BY <1>2 DEF NoStaleMessage
  <2>1. pipe[i].win \in Windows /\ damage[pipe[i].win] /\ pipe[i].win \in created
    BY <1>1, MessageTypes DEF IInv, TypeOK, NoStaleMessage
  <2> QED  BY <1>2, <2>1 DEF IInv, TypeOK
<1>7. Control'
  BY <1>2 DEF IInv, TypeOK, Control
<1> QED  BY <1>4, <1>5, <1>6, <1>7

\* Mir gives a buffer back: the swap becomes a message.
LEMMA ReceivedKeeps ==
  ASSUME IInv, NEW s \in Surfaces, HandleBufferReceived(s)
  PROVE  SurfacesOwned' /\ OneBuffer' /\ NoStaleMessage' /\ Control'
<1>1. PICK w \in Windows : damage[w] /\ surface[w] = s
  BY DEF HandleBufferReceived, IInv, SurfacesOwned
<1>2. /\ swaps[s] = <<w>> /\ ~has_free_buffer[w]
      /\ Absent(BufferMsg(w), pipe)
  BY <1>1 DEF HandleBufferReceived, IInv, OneBuffer
<1>3. Tail(swaps[s]) = <<>> /\ Head(swaps[s]) = w /\ w # NoWindow
  BY <1>2, WindowsAssumption
<1>4. /\ swaps' = [swaps EXCEPT ![s] = <<>>]
      /\ pipe' = Append(pipe, BufferMsg(w))
      /\ UNCHANGED <<created, surface, damage, damage_window_list, mir,
                     has_free_buffer, neverclosed, rootless, pc, subject>>
  BY <1>3 DEF HandleBufferReceived, xmir_post_to_eventloop, xserver
<1>5. pipe \in Seq(Message) /\ BufferMsg(w) \in Message
  BY MessageTypes DEF IInv, TypeOK
<1>6. SurfacesOwned'
  <2>1. \A r \in Surfaces : swaps'[r] # <<>> => swaps[r] # <<>>
    BY <1>4 DEF IInv, TypeOK
  <2> QED  BY <1>4, <2>1 DEF IInv, SurfacesOwned
<1>7. OneBuffer'
  <2> SUFFICES ASSUME NEW v \in Windows, damage'[v] PROVE Token(v)'
    BY TokenOne
  <2>1. CASE v = w
    BY <1>1, <1>2, <1>4, <1>5, <2>1, AppendIt DEF IInv, TypeOK, Token
  <2>2. CASE v # w
    <3>1. Token(v) /\ surface[v] # s /\ BufferMsg(w) # BufferMsg(v)
      BY <1>1, <1>4, <2>2, TokenOne, MessagesDiffer DEF IInv, SurfacesOwned
    <3>2. Absent(BufferMsg(v), pipe) => Absent(BufferMsg(v), pipe')
      BY <1>4, <1>5, <3>1, AppendAbsent
    <3>3. Once(BufferMsg(v), pipe) => Once(BufferMsg(v), pipe')
      BY <1>4, <1>5, <3>1, AppendOnce
    <3>4. swaps'[surface[v]] = swaps[surface[v]]
      BY <1>4, <3>1 DEF IInv, TypeOK
    <3> QED  BY <1>4, <3>1, <3>2, <3>3, <3>4, TokenKept
  <2> QED  BY <2>1, <2>2
<1>8. NoStaleMessage'
  <2>1. BufferMsg(w).win = w /\ w \in created
    BY <1>1 DEF BufferMsg, IInv, SurfacesOwned
  <2>2. \A i \in DOMAIN pipe' : \/ i \in DOMAIN pipe /\ pipe'[i] = pipe[i]
                               \/ pipe'[i] = BufferMsg(w)
    BY <1>4, <1>5
  <2> QED  BY <1>1, <1>4, <2>1, <2>2 DEF IInv, NoStaleMessage
<1>9. Control'
  BY <1>4 DEF IInv, Control
<1> QED  BY <1>6, <1>7, <1>8, <1>9

\* A resize event is posted to the window that shows the surface.
LEMMA EventKeeps ==
  ASSUME IInv, NEW s \in Surfaces, SurfaceHandleEvent(s)
  PROVE  SurfacesOwned' /\ OneBuffer' /\ NoStaleMessage' /\ Control'
<1>1. /\ mir[s] = "live"
      /\ UNCHANGED <<created, surface, damage, damage_window_list, mir, swaps,
                     has_free_buffer, neverclosed, rootless, pc, subject>>
  BY DEF SurfaceHandleEvent, xserver
<1>2. CASE UNCHANGED pipe
  BY <1>1, <1>2 DEF IInv, SurfacesOwned, OneBuffer, NoStaleMessage, Control
<1>3. ASSUME NEW w \in Windows, surface[w] = s, damage[w],
             pipe' = Append(pipe, ResizeMsg(w, shell_size[s]))
      PROVE  SurfacesOwned' /\ OneBuffer' /\ NoStaleMessage' /\ Control'
  <2> DEFINE m == ResizeMsg(w, shell_size[s])
  <2>1. /\ shell_size[s] \in Sizes /\ m \in Message /\ pipe \in Seq(Message)
        /\ \A v \in Windows : m # BufferMsg(v)
    BY MessageTypes, MessagesDiffer DEF IInv, TypeOK
  <2>2. OneBuffer'
    <3> SUFFICES ASSUME NEW v \in Windows, damage'[v] PROVE Token(v)'
      BY TokenOne
    <3>1. Token(v)
      BY <1>1, TokenOne DEF IInv
    <3>2. Absent(BufferMsg(v), pipe) => Absent(BufferMsg(v), pipe')
      BY <1>3, <2>1, AppendAbsent
    <3>3. Once(BufferMsg(v), pipe) => Once(BufferMsg(v), pipe')
      BY <1>3, <2>1, AppendOnce
    <3> QED  BY <1>1, <3>1, <3>2, <3>3, TokenKept
  <2>3. NoStaleMessage'
    <3>1. damage[w] /\ w \in created /\ m.win = w
      BY <1>1, <1>3, SurfacesAssumption DEF ResizeMsg, IInv, SurfacesOwned
    <3>2. \A i \in DOMAIN pipe' : \/ i \in DOMAIN pipe /\ pipe'[i] = pipe[i]
                                 \/ pipe'[i] = m
      BY <1>3, <2>1
    <3> QED  BY <1>1, <3>1, <3>2 DEF IInv, NoStaleMessage
  <2>4. SurfacesOwned' /\ Control'
    BY <1>1 DEF IInv, SurfacesOwned, Control
  <2> QED  BY <2>2, <2>3, <2>4
<1> QED  BY <1>2, <1>3 DEF SurfaceHandleEvent, xmir_post_to_eventloop

\* A step that leaves surfaces, flags, swaps and messages alone.
LEMMA QuietKeeps ==
  ASSUME IInv,
         UNCHANGED <<created, surface, damage, has_free_buffer, mir, swaps,
                     neverclosed, rootless, pipe>>,
         damage_window_list' \subseteq {w \in Windows : damage[w]},
         \/ UNCHANGED <<pc, subject>>
         \/ /\ pc # "realize" /\ pc' \notin {"unmap", "realize"}
            /\ pc # "unmap" \/ pipe = <<>>,
         pc' = "select" => \A w \in damage_window_list' : ~has_free_buffer[w]
  PROVE  SurfacesOwned' /\ OneBuffer' /\ NoStaleMessage' /\ Control'
<1>1. OneBuffer'
  <2> SUFFICES ASSUME NEW v \in Windows, damage'[v] PROVE Token(v)'
    BY TokenOne
  <2> QED  BY TokenOne, TokenKept DEF IInv
<1>2. SurfacesOwned'
  BY DEF IInv, SurfacesOwned
<1>3. NoStaleMessage'
  BY DEF IInv, NoStaleMessage
<1>4. Control'
  BY DEF IInv, Control
<1> QED  BY <1>1, <1>2, <1>3, <1>4

\* Every step keeps the invariant: one step per action of Next.
LEMMA IInvStep ==
  ASSUME IInv, ~NeverClose, [Next]_vars
  PROVE  IInv'
<1>1. TypeOK'
  BY TypeStep DEF IInv, SurfacesOwned, DamageTracked
<1>0. damage_window_list \subseteq {w \in Windows : damage[w]}
  BY DEF IInv, TypeOK, SurfacesOwned
<1> DEFINE Rest == SurfacesOwned /\ OneBuffer /\ NoStaleMessage /\ Control
<1> SUFFICES Rest'
  BY <1>1 DEF IInv
<1>2. CASE UNCHANGED vars
  BY <1>0, <1>2, QuietKeeps DEF vars, xserver, mirserver, IInv, Control
<1>3. ASSUME NEW w \in Windows, BlockRepaint(w) PROVE Rest'
  BY <1>3, RepaintKeeps
<1>4. CASE BlockDone
  BY <1>0, <1>4, QuietKeeps DEF BlockDone, xserver, mirserver, IInv, Control
<1>5. CASE WakeupPipe
  BY <1>0, <1>5, QuietKeeps DEF WakeupPipe, xserver, mirserver, IInv, Control
<1>6. CASE WakeupClient
  BY <1>0, <1>6, QuietKeeps DEF WakeupClient, xserver, mirserver, IInv, Control
<1>7. CASE DrainDone
  BY <1>0, <1>7, QuietKeeps DEF DrainDone, xserver, mirserver, IInv, Control
<1>8. CASE Yield
  BY <1>0, <1>8, QuietKeeps DEF Yield, xserver, mirserver, IInv, Control
<1>9. CASE UnmapDone
  BY <1>0, <1>9, QuietKeeps DEF UnmapDone, xserver, mirserver, IInv, Control
<1>10. CASE ProcessFromEventloop
  <2>1. damage[Head(pipe).win] /\ pc = "drain" /\ pipe # <<>>
    BY <1>10 DEF ProcessFromEventloop, IInv, TypeOK, NoStaleMessage
  <2> QED  BY <1>10, <2>1, CallbackKeeps DEF ProcessFromEventloop
<1>11. CASE ProcessFromEventloopExcept
  <2>1. pc = "unmap" /\ pipe # <<>>
    BY <1>11 DEF ProcessFromEventloopExcept
  <2>2. CASE Head(pipe).win = subject
    <3>1. subject \in Windows /\ ~damage[subject]
      BY <1>11, <2>1, <2>2, MessageTypes DEF IInv, TypeOK, Control
    <3>2. \A w \in Windows : damage[w] => Head(pipe) # BufferMsg(w)
      BY <2>2, <3>1 DEF BufferMsg
    <3> QED  BY <1>11, <2>1, <2>2, <3>2, ReadKeeps
             DEF ProcessFromEventloopExcept, xserver, mirserver, IInv, SurfacesOwned, TypeOK
  <2>3. CASE Head(pipe).win # subject
    <3>1. damage[Head(pipe).win]
      BY <2>1, <2>3 DEF IInv, TypeOK, NoStaleMessage
    <3> QED  BY <1>11, <2>1, <2>3, <3>1, CallbackKeeps DEF ProcessFromEventloopExcept
  <2> QED  BY <2>2, <2>3
<1>12. ASSUME NEW w \in Windows, Draw(w) PROVE Rest'
  BY <1>0, <1>12, QuietKeeps DEF Draw, mirserver
<1>13. ASSUME NEW w \in Windows, NEW z \in Sizes, ResizeWindow(w, z) PROVE Rest'
  BY <1>0, <1>13, QuietKeeps DEF ResizeWindow, mirserver, IInv, Control
<1>14. ASSUME NEW w \in Windows, NEW s \in Surfaces, NEW z \in Sizes,
              RealizeNew(w, s, z)
       PROVE  Rest'
  BY <1>14, RealizeKeeps DEF RealizeNew
<1>15. ASSUME NEW w \in Windows, NEW s \in Surfaces, RealizeInvalid(w, s)
       PROVE  Rest'
  BY <1>15, RealizeKeeps DEF RealizeInvalid
<1>16. ASSUME NEW w \in Windows, RealizeNeverclosed(w) PROVE Rest'
  BY <1>16 DEF RealizeNeverclosed, IInv, Control
<1>16a. CASE RealizeDone
  BY <1>16a, RealizedKeeps
<1>17. ASSUME NEW w \in Windows, UnmapSurface(w) PROVE Rest'
  BY <1>17, UnmapKeeps
<1>18. ASSUME NEW w \in Windows, DestroyWindow(w) PROVE Rest'
  <2>1. \A v \in Windows : surface[v] # NoSurface => v \in created'
    BY <1>18 DEF DestroyWindow, IInv, SurfacesOwned
  <2>2. UNCHANGED <<surface, damage, has_free_buffer, mir, swaps, neverclosed, rootless,
                    pipe, damage_window_list, pc, subject>>
    BY <1>18 DEF DestroyWindow, mirserver
  <2>3. OneBuffer'
    <3> SUFFICES ASSUME NEW v \in Windows, damage'[v] PROVE Token(v)'
      BY TokenOne
    <3> QED  BY <2>2, TokenOne, TokenKept DEF IInv
  <2>4. NoStaleMessage'
    BY <2>1, <2>2, MessageTypes DEF IInv, TypeOK, SurfacesOwned, NoStaleMessage
  <2>5. SurfacesOwned' /\ Control'
    BY <2>1, <2>2 DEF IInv, SurfacesOwned, Control
  <2> QED  BY <2>3, <2>4, <2>5
<1>19. ASSUME NEW s \in Surfaces, HandleBufferReceived(s) PROVE Rest'
  BY <1>19, ReceivedKeeps
<1>20. ASSUME NEW s \in Surfaces, NEW z \in Sizes, ShellResize(s, z) PROVE Rest'
  BY <1>0, <1>20, QuietKeeps DEF ShellResize, xserver, IInv, Control
<1>21. ASSUME NEW s \in Surfaces, SurfaceHandleEvent(s) PROVE Rest'
  BY <1>21, EventKeeps
<1>22. ASSUME NEW s \in Surfaces, ReallocateBuffers(s) PROVE Rest'
  BY <1>0, <1>22, QuietKeeps DEF ReallocateBuffers, xserver, IInv, Control
<1> QED
  BY <1>2, <1>3, <1>4, <1>5, <1>6, <1>7, <1>8, <1>9, <1>10, <1>11, <1>12,
     <1>13, <1>14, <1>15, <1>16, <1>16a, <1>17, <1>18, <1>19, <1>20, <1>21, <1>22
     DEF Next, MainLoop, ClientRequest, Mir

-----------------------------------------------------------------------------
(* With -neverclose the token is not one any more: the swaps of a surface    *)
(* outlive the window, and the unmap submits one of its own.  What is left,  *)
(* with every option, is that a window without a buffer waits for one.       *)

Present(x, seq) == ~Absent(x, seq)

LEMMA AppendPresent ==
  ASSUME NEW S, NEW seq \in Seq(S), NEW m \in S, NEW x
  PROVE  /\ Present(m, Append(seq, m))
         /\ Present(x, seq) => Present(x, Append(seq, m))
<1> DEFINE s == Append(seq, m)
<1>1. /\ Len(seq) \in Nat /\ Len(seq) + 1 \in DOMAIN s /\ s[Len(seq) + 1] = m
      /\ \A i \in DOMAIN seq : i \in DOMAIN s /\ s[i] = seq[i]
  OBVIOUS
<1> HIDE DEF s
<1>2. Present(m, s)
  BY <1>1 DEF Present, Absent
<1>3. Present(x, seq) => Present(x, s)
  BY <1>1 DEF Present, Absent
<1> QED  BY <1>2, <1>3 DEF s

LEMMA TailPresent ==
  ASSUME NEW S, NEW seq \in Seq(S), seq # <<>>, NEW x, Present(x, seq), Head(seq) # x
  PROVE  Present(x, Tail(seq))
<1>1. PICK i \in DOMAIN seq : seq[i] = x
  BY DEF Present, Absent
<1>2. i \in Nat /\ i # 1 /\ i - 1 \in DOMAIN Tail(seq) /\ Tail(seq)[i - 1] = x
  BY <1>1
<1> QED  BY <1>2 DEF Present, Absent

\* A surface that tracks damage is live, as nothing is given back.
LiveTracked ==
  /\ DamageTracked
  /\ \A w \in Windows : damage[w] => mir[surface[w]] = "live"
  /\ pc = "unmap" => subject \in Windows /\ ~damage[subject]
  /\ pc = "realize" => /\ subject \in Windows /\ has_free_buffer[subject]
                       /\ surface[subject] # NoSurface
                       /\ mir[surface[subject]] = "live"

\* A window without a buffer waits for a swap in flight or for a message.
Waits(w) ==
  has_free_buffer[w] \/ Present(w, swaps[surface[w]]) \/ Present(BufferMsg(w), pipe)

AllWait == \A w \in Windows : damage[w] => Waits(w)

KeptInv == TypeOK /\ LiveTracked /\ AllWait

LEMMA InitKept == Init => KeptInv
<1> SUFFICES ASSUME Init PROVE KeptInv
  OBVIOUS
<1>1. TypeOK
  BY InitIInv DEF IInv
<1> QED  BY <1>1 DEF Init, KeptInv, LiveTracked, DamageTracked, AllWait

\* A step in which no flag is lost, no swap but those that become messages, and
\* no message of a window that tracks damage.
LEMMA WaitsKept ==
  ASSUME NEW w \in Windows, Waits(w), surface'[w] = surface[w],
         has_free_buffer[w] => has_free_buffer'[w],
         Present(w, swaps[surface[w]]) =>
           Present(w, swaps'[surface[w]]) \/ Present(BufferMsg(w), pipe'),
         Present(BufferMsg(w), pipe) => Present(BufferMsg(w), pipe')
  PROVE  Waits(w)'
  BY DEF Waits

\* The swaps of a surface grow by the window painted.
LEMMA SwapPresent ==
  ASSUME TypeOK, NEW w \in Windows, surface[w] # NoSurface, xmir_swap(w)
  PROVE  /\ Present(w, swaps'[surface[w]])
         /\ \A v \in Windows, s \in Surfaces :
              Present(v, swaps[s]) => Present(v, swaps'[s])
<1> DEFINE S == Windows \cup {NoWindow}
<1>1. /\ surface[w] \in Surfaces /\ \A s \in Surfaces : swaps[s] \in Seq(S)
      /\ \A s \in Surfaces :
           swaps'[s] = IF s = surface[w] THEN Append(swaps[s], w) ELSE swaps[s]
      /\ w \in S
  BY DEF TypeOK, xmir_swap
<1> HIDE DEF S
<1>2. Present(w, swaps'[surface[w]])
  BY <1>1, AppendPresent
<1>3. ASSUME NEW v \in Windows, NEW s \in Surfaces, Present(v, swaps[s])
      PROVE  Present(v, swaps'[s])
  BY <1>1, <1>3, AppendPresent
<1> QED  BY <1>2, <1>3

LEMMA KeptRepaint ==
  ASSUME KeptInv, NEW w \in Windows, BlockRepaint(w)
  PROVE  LiveTracked' /\ AllWait'
<1>1. /\ damage[w] /\ surface[w] # NoSurface /\ xmir_swap(w)
      /\ has_free_buffer' = [has_free_buffer EXCEPT ![w] = FALSE]
      /\ damage_window_list' = damage_window_list \ {w}
      /\ UNCHANGED <<surface, damage, mir, pipe, pc, subject>> /\ pc = "block"
  BY DEF BlockRepaint, xmir_repaint, KeptInv, LiveTracked, DamageTracked
<1>2. LiveTracked'
  BY <1>1 DEF KeptInv, LiveTracked, DamageTracked
<1>3. ASSUME NEW v \in Windows, damage[v] PROVE Waits(v)'
  <2>1. CASE v = w
    BY <1>1, <2>1, SwapPresent DEF KeptInv, Waits
  <2>2. CASE v # w
    <3>1. surface[v] \in Surfaces /\ Waits(v)
      BY <1>3 DEF KeptInv, AllWait, LiveTracked, DamageTracked, TypeOK
    <3>2. has_free_buffer'[v] = has_free_buffer[v]
      BY <1>1, <2>2 DEF KeptInv, TypeOK
    <3> QED  BY <1>1, <3>1, <3>2, SwapPresent, WaitsKept DEF KeptInv
  <2> QED  BY <2>1, <2>2
<1>4. AllWait'
  BY <1>1, <1>3 DEF AllWait
<1> QED  BY <1>2, <1>4

\* A message read ends its window's wait: the flag is set or a swap submitted.
LEMMA KeptCallback ==
  ASSUME KeptInv, pipe # <<>>, pipe' = Tail(pipe), Callback(Head(pipe)), pc # "realize",
         UNCHANGED <<pc, subject>>
  PROVE  LiveTracked' /\ AllWait'
<1> DEFINE m == Head(pipe)
           w == m.win
<1>1. m \in Message /\ w \in Windows /\ pipe \in Seq(Message)
  BY MessageTypes DEF KeptInv, TypeOK
<1>2. UNCHANGED <<surface, damage, mir>>
  BY DEF Callback, HandleBufferAvailable, HandleResizeEvent, mirserver
<1>3. ASSUME damage_window_list' \subseteq {v \in Windows : damage[v]}
      PROVE  LiveTracked'
  BY <1>2, <1>3 DEF KeptInv, LiveTracked, DamageTracked
<1>4. damage_window_list \subseteq {v \in Windows : damage[v]}
  BY DEF KeptInv, TypeOK, LiveTracked, DamageTracked
<1>5. ASSUME NEW v \in Windows, m # BufferMsg(v), Present(BufferMsg(v), pipe)
      PROVE  Present(BufferMsg(v), pipe')
  BY <1>1, <1>5, TailPresent
<1>6. ASSUME UNCHANGED <<has_free_buffer, swaps>>,
             \A v \in Windows : damage[v] => m # BufferMsg(v)
      PROVE  AllWait'
  <2>1. ASSUME NEW v \in Windows, damage[v] PROVE Waits(v)'
    BY <1>2, <1>5, <1>6, <2>1, WaitsKept DEF KeptInv, AllWait
  <2> QED  BY <1>2, <2>1 DEF AllWait
<1>7. CASE m.cb = "resize_event" /\ HandleResizeEvent(w, m.size)
  <2>1. \A v \in Windows : m # BufferMsg(v)
    BY <1>1, <1>7, MessageTypes, MessagesDiffer
  <2>2. damage_window_list' \subseteq {v \in Windows : damage[v]}
    BY <1>1, <1>4, <1>7 DEF HandleResizeEvent
  <2>3. UNCHANGED <<has_free_buffer, swaps>>
    BY <1>7 DEF HandleResizeEvent, mirserver
  <2> QED  BY <1>3, <1>6, <2>1, <2>2, <2>3
<1>8. CASE m = BufferMsg(w) /\ HandleBufferAvailable(w) /\ ~damage[w]
  <2>1. UNCHANGED <<has_free_buffer, swaps, damage_window_list>>
    BY <1>8 DEF HandleBufferAvailable, xmir_handle_buffer_available
  <2>2. \A v \in Windows : damage[v] => m # BufferMsg(v)
    BY <1>1, <1>8, MessagesDiffer
  <2> QED  BY <1>3, <1>4, <1>6, <2>1, <2>2
<1>9. CASE m = BufferMsg(w) /\ HandleBufferAvailable(w) /\ damage[w]
  <2> DEFINE z == buffer_size[surface[w]]
  <2>1. surface[w] # NoSurface /\ mir[surface[w]] = "live"
    BY <1>1, <1>9 DEF KeptInv, LiveTracked, DamageTracked
  <2>2. BufferAvailable(w, z)
    BY <1>9, <2>1 DEF HandleBufferAvailable, xmir_handle_buffer_available
  <2>3. LiveTracked'
    BY <1>3, <1>4, <1>9, <1>1, <2>2 DEF BufferAvailable
  <2>4. /\ \A v \in Windows : v # w => has_free_buffer'[v] = has_free_buffer[v]
        /\ has_free_buffer'[w] \/ xmir_swap(w)
        /\ xmir_swap(w) \/ UNCHANGED swaps
    <3>1. has_free_buffer'[w] = ~PaintNow(w, z)
          /\ \A v \in Windows : v # w => has_free_buffer'[v] = has_free_buffer[v]
      BY <1>1, <2>2 DEF BufferAvailable, KeptInv, TypeOK
    <3>2. IF PaintNow(w, z) THEN xmir_swap(w) ELSE UNCHANGED swaps
      BY <2>2 DEF BufferAvailable
    <3> QED  BY <3>1, <3>2
  <2>5. ASSUME NEW v \in Windows, damage[v] PROVE Waits(v)'
    <3>1. surface[v] \in Surfaces /\ Waits(v)
      BY <2>5 DEF KeptInv, AllWait, LiveTracked, DamageTracked, TypeOK
    <3>2. CASE v = w
      BY <1>1, <1>2, <2>1, <2>4, <3>2, SwapPresent DEF KeptInv, Waits
    <3>3. CASE v # w
      <4>1. m # BufferMsg(v)
        BY <1>1, <1>9, <3>3, MessagesDiffer
      <4>2. Present(v, swaps[surface[v]]) => Present(v, swaps'[surface[v]])
        BY <1>1, <2>1, <2>4, <3>1, SwapPresent DEF KeptInv
      <4> QED  BY <1>2, <1>5, <2>4, <3>1, <3>3, <4>1, <4>2, WaitsKept
    <3> QED  BY <3>2, <3>3
  <2>6. AllWait'
    BY <1>2, <2>5 DEF AllWait
  <2> QED  BY <2>3, <2>6
<1> QED  BY <1>1, <1>7, <1>8, <1>9, MessageTypes DEF Callback

\* The drain of an unmap drops messages of a window that waits no more.
LEMMA KeptExcept ==
  ASSUME KeptInv, ProcessFromEventloopExcept
  PROVE  LiveTracked' /\ AllWait'
<1>1. CASE Head(pipe).win # subject
  BY <1>1, KeptCallback DEF ProcessFromEventloopExcept
<1>2. CASE Head(pipe).win = subject
  <2>1. /\ UNCHANGED <<surface, damage, has_free_buffer, damage_window_list, mir,
                       swaps, pc, subject>>
        /\ pc = "unmap" /\ pipe # <<>> /\ pipe' = Tail(pipe) /\ pipe \in Seq(Message)
    BY <1>2 DEF ProcessFromEventloopExcept, xserver, mirserver, KeptInv, TypeOK
  <2>2. LiveTracked'
    BY <2>1 DEF KeptInv, LiveTracked, DamageTracked
  <2>3. ASSUME NEW v \in Windows, damage[v] PROVE Waits(v)'
    <3>1. Head(pipe) # BufferMsg(v)
      BY <1>2, <2>1, <2>3 DEF BufferMsg, KeptInv, LiveTracked
    <3>2. Present(BufferMsg(v), pipe) => Present(BufferMsg(v), pipe')
      BY <2>1, <3>1, TailPresent
    <3> QED  BY <2>1, <2>3, <3>2, WaitsKept DEF KeptInv, AllWait
  <2>4. AllWait'
    BY <2>1, <2>3 DEF AllWait
  <2> QED  BY <2>2, <2>4
<1> QED  BY <1>1, <1>2

\* A window is realized with the flag set, whatever is in flight.
LEMMA KeptRealize ==
  ASSUME KeptInv, NEW w \in Windows, NEW s \in Surfaces,
         RealizeOn(w, s), surface[w] = NoSurface, mir'[s] = "live",
         pc' = "realize", subject' = w,
         \A r \in Surfaces : mir[r] = "live" => mir'[r] = "live",
         UNCHANGED swaps
  PROVE  LiveTracked' /\ AllWait'
<1>1. /\ surface' = [surface EXCEPT ![w] = s]
      /\ has_free_buffer' = [has_free_buffer EXCEPT ![w] = TRUE]
      /\ UNCHANGED <<damage, damage_window_list, pipe>>
  BY DEF RealizeOn
<1>2. \A v \in Windows : damage[v] =>
        /\ surface'[v] = surface[v] /\ surface[v] \in Surfaces
        /\ surface[v] # NoSurface /\ mir[surface[v]] = "live"
        /\ has_free_buffer'[v] = has_free_buffer[v]
  BY <1>1 DEF KeptInv, TypeOK, LiveTracked, DamageTracked
<1>3. surface'[w] = s /\ has_free_buffer'[w] /\ s # NoSurface
  BY <1>1, SurfacesAssumption DEF KeptInv, TypeOK
<1>4. LiveTracked'
  <2>1. DamageTracked'
    BY <1>1, <1>2 DEF KeptInv, LiveTracked, DamageTracked
  <2>2. \A v \in Windows : damage'[v] => mir'[surface'[v]] = "live"
    BY <1>1, <1>2
  <2>3. /\ subject' \in Windows /\ has_free_buffer'[subject']
        /\ surface'[subject'] # NoSurface /\ mir'[surface'[subject']] = "live"
    BY <1>3
  <2> QED  BY <2>1, <2>2, <2>3 DEF LiveTracked
<1>5. ASSUME NEW v \in Windows, damage'[v] PROVE Waits(v)'
  BY <1>1, <1>2, <1>5, WaitsKept DEF KeptInv, AllWait
<1>6. AllWait'
  BY <1>5 DEF AllWait
<1> QED  BY <1>4, <1>6

\* Damage is tracked: the flag is still set.
LEMMA KeptRealized ==
  ASSUME KeptInv, RealizeDone
  PROVE  LiveTracked' /\ AllWait'
<1>1. /\ damage' = [damage EXCEPT ![subject] = TRUE] /\ pc' = "dispatch"
      /\ subject \in Windows /\ has_free_buffer[subject]
      /\ surface[subject] # NoSurface /\ mir[surface[subject]] = "live"
      /\ UNCHANGED <<surface, damage_window_list, has_free_buffer, mir, swaps, pipe>>
  BY DEF RealizeDone, mirserver, KeptInv, LiveTracked
<1>2. \A v \in Windows : damage'[v] <=> damage[v] \/ v = subject
  BY <1>1 DEF KeptInv, TypeOK
<1>3. LiveTracked'
  BY <1>1, <1>2 DEF KeptInv, TypeOK, LiveTracked, DamageTracked
<1>4. ASSUME NEW v \in Windows, damage'[v] PROVE Waits(v)'
  <2>1. CASE v = subject
    BY <1>1, <2>1 DEF Waits
  <2>2. CASE v # subject
    BY <1>1, <1>2, <1>4, <2>2, WaitsKept DEF KeptInv, AllWait
  <2> QED  BY <2>1, <2>2
<1>5. AllWait'
  BY <1>4 DEF AllWait
<1> QED  BY <1>3, <1>5

\* The surface is kept, with the swaps in flight.
LEMMA KeptUnmap ==
  ASSUME KeptInv, NeverClose, NEW w \in Windows, UnmapSurface(w)
  PROVE  LiveTracked' /\ AllWait'
<1> DEFINE s == surface[w]
<1>1. /\ s \in Surfaces /\ pc' = "unmap" /\ subject' = w
      /\ damage' = [damage EXCEPT ![w] = FALSE]
      /\ damage_window_list' = damage_window_list \ {w}
      /\ surface' = [surface EXCEPT ![w] = NoSurface]
      /\ UNCHANGED <<has_free_buffer, mir, pipe>>
      /\ swaps' \in {swaps, [swaps EXCEPT ![s] = Append(@, NoWindow)]}
  BY DEF UnmapSurface, GiveUpSurface, KeptInv, TypeOK
<1> HIDE DEF s
<1>2. \A v \in Windows : damage'[v] =>
        v # w /\ damage[v] /\ surface'[v] = surface[v] /\ surface[v] \in Surfaces
  BY <1>1 DEF KeptInv, TypeOK, LiveTracked, DamageTracked
<1>3. LiveTracked'
  <2>1. \A v \in damage_window_list' : damage'[v]
    BY <1>1 DEF KeptInv, TypeOK, LiveTracked, DamageTracked
  <2>2. \A v \in Windows : damage'[v] =>
          surface'[v] # NoSurface /\ mir'[surface'[v]] = "live"
    BY <1>1, <1>2 DEF KeptInv, LiveTracked, DamageTracked
  <2>3. subject' \in Windows /\ ~damage'[subject']
    BY <1>1 DEF KeptInv, TypeOK
  <2> QED  BY <1>1, <2>1, <2>2, <2>3 DEF LiveTracked, DamageTracked
<1>4. ASSUME NEW v \in Windows, NEW r \in Surfaces, Present(v, swaps[r])
      PROVE  Present(v, swaps'[r])
  <2> DEFINE S == Windows \cup {NoWindow}
  <2>1. swaps[r] \in Seq(S) /\ NoWindow \in S
    BY DEF KeptInv, TypeOK
  <2>2. swaps'[r] = swaps[r] \/ swaps'[r] = Append(swaps[r], NoWindow)
    BY <1>1 DEF KeptInv, TypeOK
  <2> HIDE DEF S
  <2> QED  BY <1>4, <2>1, <2>2, AppendPresent
<1>5. ASSUME NEW v \in Windows, damage'[v] PROVE Waits(v)'
  BY <1>1, <1>2, <1>4, <1>5, WaitsKept DEF KeptInv, AllWait
<1>6. AllWait'
  BY <1>5 DEF AllWait
<1> QED  BY <1>3, <1>6

\* A swap that comes back becomes the message of the window it names.
LEMMA KeptReceived ==
  ASSUME KeptInv, NEW s \in Surfaces, HandleBufferReceived(s)
  PROVE  LiveTracked' /\ AllWait'
<1> DEFINE S == Windows \cup {NoWindow}
<1>1. /\ swaps[s] \in Seq(S) /\ swaps[s] # <<>> /\ pipe \in Seq(Message)
      /\ swaps' = [swaps EXCEPT ![s] = Tail(@)]
      /\ pipe' = pipe \/ \E w \in Windows : pipe' = Append(pipe, BufferMsg(w))
      /\ Head(swaps[s]) # NoWindow => pipe' = Append(pipe, BufferMsg(Head(swaps[s])))
      /\ UNCHANGED <<surface, damage, has_free_buffer, damage_window_list, mir,
                     pc, subject>>
  <2>1. swaps[s] \in Seq(S) /\ swaps[s] # <<>> /\ Head(swaps[s]) \in S
        /\ pipe \in Seq(Message)
    BY DEF HandleBufferReceived, KeptInv, TypeOK
  <2> QED  BY <2>1 DEF HandleBufferReceived, xmir_post_to_eventloop, xserver
<1> HIDE DEF S
<1>2. LiveTracked'
  BY <1>1 DEF KeptInv, LiveTracked, DamageTracked
<1>3. ASSUME NEW v \in Windows, Present(BufferMsg(v), pipe)
      PROVE  Present(BufferMsg(v), pipe')
  <2>1. \A w \in Windows : BufferMsg(w) \in Message
    BY MessageTypes
  <2> QED  BY <1>1, <1>3, <2>1, AppendPresent
<1>4. ASSUME NEW v \in Windows, damage[v], Present(v, swaps[surface[v]])
      PROVE  Present(v, swaps'[surface[v]]) \/ Present(BufferMsg(v), pipe')
  <2>1. surface[v] \in Surfaces
    BY <1>4 DEF KeptInv, TypeOK, LiveTracked, DamageTracked
  <2>2. CASE surface[v] # s
    BY <1>1, <1>4, <2>1, <2>2 DEF KeptInv, TypeOK
  <2>3. CASE surface[v] = s /\ Head(swaps[s]) = v
    <3>1. v # NoWindow /\ BufferMsg(v) \in Message
      BY WindowsAssumption, MessageTypes
    <3> QED  BY <1>1, <2>3, <3>1, AppendPresent
  <2>4. CASE surface[v] = s /\ Head(swaps[s]) # v
    <3>1. swaps'[s] = Tail(swaps[s])
      BY <1>1 DEF KeptInv, TypeOK
    <3> QED  BY <1>1, <1>4, <2>4, <3>1, TailPresent
  <2> QED  BY <2>2, <2>3, <2>4
<1>5. ASSUME NEW v \in Windows, damage[v] PROVE Waits(v)'
  BY <1>1, <1>3, <1>4, <1>5, WaitsKept DEF KeptInv, AllWait
<1>6. AllWait'
  BY <1>1, <1>5 DEF AllWait
<1> QED  BY <1>2, <1>6

\* A step that leaves surfaces, flags and swaps alone, and at most posts.
LEMMA KeptQuiet ==
  ASSUME KeptInv, UNCHANGED <<surface, damage, has_free_buffer, mir, swaps>>,
         pipe' = pipe \/ \E m \in Message : pipe' = Append(pipe, m),
         damage_window_list' \subseteq {w \in Windows : damage[w]},
         UNCHANGED <<pc, subject>> \/ pc' \notin {"unmap", "realize"}
  PROVE  LiveTracked' /\ AllWait'
<1>1. LiveTracked'
  BY DEF KeptInv, LiveTracked, DamageTracked
<1>2. ASSUME NEW v \in Windows, Present(BufferMsg(v), pipe)
      PROVE  Present(BufferMsg(v), pipe')
  <2>1. pipe \in Seq(Message)
    BY DEF KeptInv, TypeOK
  <2>2. CASE pipe' = pipe
    BY <1>2, <2>2
  <2>3. ASSUME NEW m \in Message, pipe' = Append(pipe, m)
        PROVE  Present(BufferMsg(v), pipe')
    BY <1>2, <2>1, <2>3, AppendPresent
  <2> QED  BY <2>2, <2>3
<1>3. ASSUME NEW v \in Windows, damage[v] PROVE Waits(v)'
  BY <1>2, <1>3, WaitsKept DEF KeptInv, AllWait
<1>4. AllWait'
  BY <1>3 DEF AllWait
<1> QED  BY <1>1, <1>4

LEMMA KeptStep ==
  ASSUME KeptInv, NeverClose, [Next]_vars
  PROVE  KeptInv'
<1> DEFINE Rest == LiveTracked /\ AllWait
<1>0. damage_window_list \subseteq {w \in Windows : damage[w]}
  BY DEF KeptInv, TypeOK, LiveTracked, DamageTracked
<1>1. TypeOK'
  BY TypeStep DEF KeptInv, LiveTracked
<1> SUFFICES Rest'
  BY <1>1 DEF KeptInv
<1>2. ASSUME NEW w \in Windows, BlockRepaint(w) PROVE Rest'
  BY <1>2, KeptRepaint
<1>3. CASE ProcessFromEventloop
  BY <1>3, KeptCallback DEF ProcessFromEventloop
<1>4. CASE ProcessFromEventloopExcept
  BY <1>4, KeptExcept
<1>5. CASE BlockDone \/ WakeupPipe \/ WakeupClient \/ DrainDone \/ Yield \/ UnmapDone
           \/ UNCHANGED vars
  <2>1. /\ UNCHANGED <<surface, damage, has_free_buffer, mir, swaps, pipe,
                       damage_window_list>>
        /\ UNCHANGED <<pc, subject>> \/ pc' \notin {"unmap", "realize"}
    BY <1>5 DEF BlockDone, WakeupPipe, WakeupClient, DrainDone, Yield, UnmapDone,
                vars, xserver, mirserver
  <2> QED  BY <1>0, <2>1, KeptQuiet
<1>6. ASSUME NEW w \in Windows, NEW z \in Sizes,
             Draw(w) \/ ResizeWindow(w, z) \/ DestroyWindow(w)
      PROVE  Rest'
  <2>1. UNCHANGED <<surface, damage, has_free_buffer, mir, swaps, pipe, pc, subject>>
    BY <1>6 DEF Draw, ResizeWindow, DestroyWindow, mirserver
  <2>2. damage_window_list' \subseteq {v \in Windows : damage[v]}
    BY <1>0, <1>6 DEF Draw, ResizeWindow, DestroyWindow
  <2> QED  BY <2>1, <2>2, KeptQuiet
<1>7. ASSUME NEW w \in Windows, NEW s \in Surfaces, NEW z \in Sizes,
             RealizeNew(w, s, z)
      PROVE  Rest'
  <2>1. mir'[s] = "live" /\ \A r \in Surfaces : mir[r] = "live" => mir'[r] = "live"
    BY <1>7 DEF RealizeNew, KeptInv, TypeOK
  <2> QED  BY <1>7, <2>1, KeptRealize DEF RealizeNew
<1>8. ASSUME NEW w \in Windows, NEW s \in Surfaces, RealizeInvalid(w, s)
      PROVE  Rest'
  BY <1>8 DEF RealizeInvalid
<1>9. ASSUME NEW w \in Windows, RealizeNeverclosed(w) PROVE Rest'
  <2>1. neverclosed \in Surfaces /\ mir[neverclosed] = "live" /\ UNCHANGED <<mir, swaps>>
    BY <1>9 DEF RealizeNeverclosed, KeptInv, TypeOK, mirserver
  <2> QED  BY <1>9, <2>1, KeptRealize DEF RealizeNeverclosed
<1>9a. CASE RealizeDone
  BY <1>9a, KeptRealized
<1>10. ASSUME NEW w \in Windows, UnmapSurface(w) PROVE Rest'
  BY <1>10, KeptUnmap
<1>11. ASSUME NEW s \in Surfaces, HandleBufferReceived(s) PROVE Rest'
  BY <1>11, KeptReceived
<1>12. ASSUME NEW s \in Surfaces, SurfaceHandleEvent(s) PROVE Rest'
  <2>1. shell_size[s] \in Sizes
    BY DEF KeptInv, TypeOK
  <2>2. pipe' = pipe \/ \E m \in Message : pipe' = Append(pipe, m)
    BY <1>12, <2>1, MessageTypes DEF SurfaceHandleEvent, xmir_post_to_eventloop
  <2>3. UNCHANGED <<surface, damage, has_free_buffer, mir, swaps, pc, subject,
                    damage_window_list>>
    BY <1>12 DEF SurfaceHandleEvent, xserver
  <2> QED  BY <1>0, <2>2, <2>3, KeptQuiet
<1>13. ASSUME NEW s \in Surfaces, NEW z \in Sizes,
              ShellResize(s, z) \/ ReallocateBuffers(s)
       PROVE  Rest'
  <2>1. UNCHANGED <<surface, damage, has_free_buffer, mir, swaps, pipe, pc, subject,
                    damage_window_list>>
    BY <1>13 DEF ShellResize, ReallocateBuffers, xserver
  <2> QED  BY <1>0, <2>1, KeptQuiet
<1> QED
  BY <1>2, <1>3, <1>4, <1>5, <1>6, <1>7, <1>8, <1>9, <1>9a, <1>10, <1>11, <1>12, <1>13,
     SizesAssumption DEF Next, MainLoop, ClientRequest, Mir

-----------------------------------------------------------------------------
(* The theorems.  Those with the hypothesis ~NeverClose are false with the *)
(* option, whose unmap submits a buffer that may be in flight (run         *)
(* frame_neverclose); the others hold whatever the options are.            *)

\* The invariant holds of every behaviour.
LEMMA Invariance ==
  ASSUME ~NeverClose
  PROVE  Spec => []IInv
<1>1. Init => IInv
  BY InitIInv
<1>2. IInv /\ [Next]_vars => IInv'
  BY IInvStep
<1> QED  BY <1>1, <1>2, PTL DEF Spec

\* What is left of it when the surface is kept.
LEMMA KeptInvariance ==
  ASSUME NeverClose
  PROVE  Spec => []KeptInv
<1>1. Init => KeptInv
  BY InitKept
<1>2. KeptInv /\ [Next]_vars => KeptInv'
  BY KeptStep
<1> QED  BY <1>1, <1>2, PTL DEF Spec

\* The variables keep their types, whatever the options: the fields of the
\* windows, the surfaces, the swaps and the messages in the pipe.
THEOREM TypeCorrect == Spec => []TypeOK
<1>1. CASE ~NeverClose
  <2>1. IInv => TypeOK
    BY DEF IInv
  <2> QED  BY <1>1, <2>1, Invariance, PTL
<1>2. CASE NeverClose
  <2>1. KeptInv => TypeOK
    BY DEF KeptInv
  <2> QED  BY <1>2, <2>1, KeptInvariance, PTL
<1> QED  BY <1>1, <1>2

\* xmir_realize_window and xmir_unmap_surface keep windows and surfaces in
\* step: no surface is shared, damage is tracked on valid surfaces only, and
\* a surface that is given up leaves no swap behind.
THEOREM SurfacesStayOwned ==
  ASSUME ~NeverClose
  PROVE  Spec => []SurfacesOwned
<1>1. IInv => SurfacesOwned
  BY DEF IInv
<1> QED  BY <1>1, Invariance, PTL

\* has_free_buffer, the swaps in flight and the buffer-available messages of a
\* window are one token, however the main thread and Mir's interleave.
THEOREM OneBufferAlways ==
  ASSUME ~NeverClose
  PROVE  Spec => []OneBuffer
<1>1. IInv => OneBuffer
  BY DEF IInv
<1> QED  BY <1>1, Invariance, PTL

\* The drain of xmir_unmap_surface suffices: no callback ever runs on behalf of
\* a window that has lost its surface or has been destroyed.
THEOREM MessagesStayFresh ==
  ASSUME ~NeverClose
  PROVE  Spec => []NoStaleMessage
<1>1. IInv => NoStaleMessage
  BY DEF IInv
<1> QED  BY <1>1, Invariance, PTL

\* A surface never has two buffers submitted: xmir_repaint is never called
\* without a buffer to paint to.
THEOREM PaintsStaySafe ==
  ASSUME ~NeverClose
  PROVE  Spec => []PaintsOnlyOwnBuffers
<1>1. IInv => PaintsOnlyOwnBuffers
  <2> SUFFICES ASSUME IInv, NEW s \in Surfaces PROVE Len(swaps[s]) <= 1
    BY DEF PaintsOnlyOwnBuffers
  <2>1. CASE swaps[s] = <<>>
    BY <2>1
  <2>2. CASE swaps[s] # <<>>
    <3>1. PICK w \in Windows : damage[w] /\ surface[w] = s
      BY <2>2 DEF IInv, SurfacesOwned
    <3>2. swaps[s] = <<w>>
      BY <2>2, <3>1 DEF IInv, OneBuffer
    <3> QED  BY <3>2
  <2> QED  BY <2>1, <2>2
<1> QED  BY <1>1, Invariance, PTL

\* The block handler and select lose no wake-up: the main thread sleeps on a
\* damaged window only while Mir holds the window's buffer.
THEOREM SleepsSoundly ==
  ASSUME ~NeverClose
  PROVE  Spec => []SleepsOnlyForMir
<1>1. IInv => SleepsOnlyForMir
  <2> SUFFICES ASSUME IInv, pc = "select", pipe = <<>>,
                      NEW w \in damage_window_list
               PROVE  swaps[surface[w]] = <<w>>
    BY DEF SleepsOnlyForMir
  <2>1. w \in Windows /\ damage[w] /\ ~has_free_buffer[w]
    BY DEF IInv, TypeOK, SurfacesOwned, Control
  <2>2. ~Once(BufferMsg(w), pipe)
    BY DEF Once
  <2> QED  BY <2>1, <2>2 DEF IInv, OneBuffer
<1> QED  BY <1>1, Invariance, PTL

\* No damaged window is left without a buffer to come, whatever the options:
\* with -neverclose too, where swaps outlive their window, the window that
\* waits for a buffer is woken by a swap in flight or a message in the pipe.
THEOREM NeverFreezes == Spec => []NeverFrozen
<1>1. CASE ~NeverClose
  <2>1. ASSUME IInv, NEW w \in damage_window_list, ~has_free_buffer[w]
        PROVE  ~Absent(w, swaps[surface[w]]) \/ ~Absent(BufferMsg(w), pipe)
    <3>1. w \in Windows /\ damage[w]
      BY <2>1 DEF IInv, TypeOK, SurfacesOwned
    <3>2. swaps[surface[w]] = <<w>> => ~Absent(w, swaps[surface[w]])
      BY DEF Absent
    <3>3. Once(BufferMsg(w), pipe) => ~Absent(BufferMsg(w), pipe)
      BY DEF Once, Absent
    <3> QED  BY <2>1, <3>1, <3>2, <3>3 DEF IInv, OneBuffer
  <2>2. IInv => NeverFrozen
    BY <2>1 DEF NeverFrozen
  <2> QED  BY <1>1, <2>2, Invariance, PTL
<1>2. CASE NeverClose
  <2>1. KeptInv => NeverFrozen
    BY DEF KeptInv, TypeOK, LiveTracked, DamageTracked, AllWait, Waits, Present,
           NeverFrozen
  <2> QED  BY <1>2, <2>1, KeptInvariance, PTL
<1> QED  BY <1>1, <1>2
=============================================================================
