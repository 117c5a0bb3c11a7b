--------------------------- MODULE XmirFrameSizes ----------------------------
(***************************************************************************)
(* The sizes of XmirFrame: when nothing is left to do for a window, the    *)
(* window, its surface and its buffer have the size the shell wants.       *)
(*                                                                         *)
(* While there is something left to do the sizes may differ in any way, so *)
(* the invariant says what each difference waits for.  The size the shell  *)
(* wants has been noted, or is on its way: as an event that is due, or in  *)
(* the newest resize message of the pipe.  A free buffer of another size   *)
(* is sure to be exchanged, since its window is damaged or will be by the  *)
(* resize message; and a window of another size than its buffer is damaged *)
(* or will be drawn by its client.  A window that is being realized is as  *)
(* fit as one that is shown, but for the event that no handler hears.      *)
(***************************************************************************)
EXTENDS XmirFrameProofs

Resizes(w, m) == m.cb = "resize_event" /\ m.win = w

Unresized(w, q) == \A i \in DOMAIN q : ~Resizes(w, q[i])

\* The newest resize message of w in q tells the size z.
Newest(w, q, z) ==
  \A i \in DOMAIN q :
    Resizes(w, q[i]) /\ (\A j \in DOMAIN q : j > i => ~Resizes(w, q[j]))
      => q[i].size = z

\* The size of the surface has been noted or is on its way.
Announced(w) ==
  surface[w] \in event_due \cup unheard \/
    /\ Newest(w, pipe, shell_size[surface[w]])
    /\ Unresized(w, pipe) => surface_size[w] = shell_size[surface[w]]

\* A free buffer has the size of the surface, or is about to be exchanged.
BufferFits(w) ==
  \/ w \in damage_window_list
  \/ surface[w] \in event_due \cup unheard
  \/ ~Unresized(w, pipe)
  \/ buffer_size[surface[w]] = surface_size[w] /\ buf_size[w] = surface_size[w]

\* The window has the size of its free buffer, or is about to be painted.
WindowFits(w) ==
  \/ w \in damage_window_list \cup redraw_owed
  \/ window_size[w] = buf_size[w]

Fits(w) == Announced(w) /\ (has_free_buffer[w] => BufferFits(w) /\ WindowFits(w))

\* Windows on a valid surface: shown, or being realized.
Held(w) == damage[w] \/ (pc = "realize" /\ subject = w)

Fitting == \A w \in Windows : Held(w) => Fits(w)

-----------------------------------------------------------------------------
(* The newest message of a queue *)

LEMMA AppendOtherResize ==
  ASSUME NEW q \in Seq(Message), NEW m \in Message, NEW w, NEW z, ~Resizes(w, m)
  PROVE  /\ Unresized(w, q) <=> Unresized(w, Append(q, m))
         /\ Newest(w, q, z) => Newest(w, Append(q, m), z)
<1> DEFINE r == Append(q, m)
<1>1. /\ \A i \in DOMAIN q : i \in DOMAIN r /\ r[i] = q[i]
      /\ \A i \in DOMAIN r : i \in DOMAIN q \/ r[i] = m
  OBVIOUS
<1> HIDE DEF r
<1>2. Unresized(w, q) <=> Unresized(w, r)
  BY <1>1 DEF Unresized
<1>3. Newest(w, q, z) => Newest(w, r, z)
  BY <1>1 DEF Newest
<1> QED  BY <1>2, <1>3 DEF r

LEMMA AppendResize ==
  ASSUME NEW q \in Seq(Message), NEW m \in Message, NEW w, Resizes(w, m)
  PROVE  ~Unresized(w, Append(q, m)) /\ Newest(w, Append(q, m), m.size)
<1> DEFINE r == Append(q, m)
           n == Len(q) + 1
<1>1. /\ n \in DOMAIN r /\ r[n] = m
      /\ \A i \in DOMAIN r : i = n \/ n > i
  OBVIOUS
<1> HIDE DEF r, n
<1>2. ~Unresized(w, r) /\ Newest(w, r, m.size)
  BY <1>1 DEF Unresized, Newest
<1> QED  BY <1>2 DEF r

LEMMA TailResize ==
  ASSUME NEW q \in Seq(Message), q # <<>>, NEW w, NEW z
  PROVE  /\ Newest(w, q, z) => Newest(w, Tail(q), z)
         /\ ~Resizes(w, Head(q)) => (Unresized(w, q) <=> Unresized(w, Tail(q)))
         /\ Resizes(w, Head(q)) /\ Unresized(w, Tail(q)) /\ Newest(w, q, z)
              => Head(q).size = z
<1> DEFINE r == Tail(q)
<1>1. /\ 1 \in DOMAIN q /\ Head(q) = q[1]
      /\ \A i \in DOMAIN r : i + 1 \in DOMAIN q /\ r[i] = q[i + 1] /\ i + 1 > 1
      /\ \A i \in DOMAIN q : i = 1 \/ (i - 1 \in DOMAIN r /\ r[i - 1] = q[i])
      /\ DOMAIN q \subseteq Int /\ DOMAIN r \subseteq Int
  OBVIOUS
<1> HIDE DEF r
<1>2. ASSUME Newest(w, q, z), NEW i \in DOMAIN r, Resizes(w, r[i]),
             \A j \in DOMAIN r : j > i => ~Resizes(w, r[j])
      PROVE  r[i].size = z
  <2>1. ASSUME NEW j \in DOMAIN q, j > i + 1 PROVE ~Resizes(w, q[j])
    <3>1. i \in Int /\ j \in Int /\ i + 1 > 1
      BY <1>1
    <3>2. j # 1 /\ j - 1 > i
      BY <2>1, <3>1
    <3>3. j - 1 \in DOMAIN r /\ r[j - 1] = q[j]
      BY <1>1, <3>2
    <3> QED  BY <1>2, <3>2, <3>3
  <2> QED  BY <1>1, <1>2, <2>1 DEF Newest
<1>3. ASSUME ~Resizes(w, Head(q)) PROVE Unresized(w, q) <=> Unresized(w, r)
  BY <1>1, <1>3 DEF Unresized
<1>4. ASSUME Resizes(w, Head(q)), Unresized(w, r), Newest(w, q, z)
      PROVE  Head(q).size = z
  <2>1. ASSUME NEW j \in DOMAIN q, j > 1 PROVE ~Resizes(w, q[j])
    <3>1. j # 1
      BY <2>1
    <3>2. j - 1 \in DOMAIN r /\ r[j - 1] = q[j]
      BY <1>1, <3>1
    <3> QED  BY <1>4, <3>2 DEF Unresized
  <2> QED  BY <1>1, <1>4, <2>1 DEF Newest
<1>5. Newest(w, q, z) => Newest(w, r, z)
  BY <1>2 DEF Newest
<1> QED  BY <1>3, <1>4, <1>5 DEF r

-----------------------------------------------------------------------------
(* Steps *)

\* A step that loses nothing that the differences in w's sizes wait for.
LEMMA FitsKept ==
  ASSUME NEW w \in Windows, Fits(w),
         surface'[w] = surface[w],
         shell_size'[surface[w]] = shell_size[surface[w]],
         surface_size'[w] = surface_size[w],
         surface[w] \in event_due \cup unheard => surface[w] \in (event_due \cup unheard)',
         Unresized(w, pipe) <=> Unresized(w, pipe'),
         Newest(w, pipe, shell_size[surface[w]])
           => Newest(w, pipe', shell_size[surface[w]]),
         has_free_buffer'[w] =>
           /\ has_free_buffer[w]
           /\ buffer_size'[surface[w]] = buffer_size[surface[w]]
           /\ buf_size'[w] = buf_size[w]
           /\ w \in damage_window_list => w \in damage_window_list'
           /\ \/ w \in (damage_window_list \cup redraw_owed)'
              \/ w \notin redraw_owed /\ window_size'[w] = window_size[w]
  PROVE  Fits(w)'
<1>1. Announced(w)'
  BY DEF Fits, Announced
<1>2. ASSUME has_free_buffer'[w] PROVE BufferFits(w)' /\ WindowFits(w)'
  BY <1>2 DEF Fits, BufferFits, WindowFits
<1> QED  BY <1>1, <1>2 DEF Fits

\* What the other invariants tell of a window on a valid surface.  There is no
\* message yet about one that is being realized.
LEMMA Shown ==
  ASSUME IInv, NEW w \in Windows, Held(w)
  PROVE  /\ surface[w] \in Surfaces /\ surface[w] # NoSurface
         /\ \A v \in Windows : v # w => surface[v] # surface[w]
         /\ mir[surface[w]] = "live" /\ Token(w)
         /\ damage[w] \/ Unresized(w, pipe)
<1>1. CASE damage[w]
  BY <1>1, TokenOne DEF IInv, TypeOK, SurfacesOwned
<1>2. CASE ~damage[w]
  <2>1. pc = "realize" /\ subject = w /\ has_free_buffer[w] /\ surface[w] # NoSurface
        /\ surface[w] \in Surfaces
    BY <1>2 DEF Held, IInv, TypeOK, Control
  <2>2. (\A v \in Windows : v # w => surface[v] # surface[w]) /\ mir[surface[w]] = "live"
    BY <2>1 DEF IInv, SurfacesOwned
  <2>3. swaps[surface[w]] = <<>>
    BY <1>2, <2>1, <2>2 DEF IInv, SurfacesOwned
  <2>4. \A i \in DOMAIN pipe : damage[pipe[i].win]
    BY <2>1 DEF IInv, NoStaleMessage
  <2>5. Absent(BufferMsg(w), pipe) /\ Unresized(w, pipe)
    BY <1>2, <2>4 DEF Absent, BufferMsg, Unresized, Resizes
  <2> QED  BY <2>1, <2>2, <2>3, <2>5 DEF Token
<1> QED  BY <1>1, <1>2

\* Outside xmir_realize_window the two are the same.
LEMMA HeldShown ==
  ASSUME NEW w \in Windows
  PROVE  /\ pc # "realize" => (Held(w) <=> damage[w])
         /\ pc' # "realize" => (Held(w)' <=> damage'[w])
  BY DEF Held

\* A step of the main thread that leaves Mir, the pipe and the sizes alone.
LEMMA QuietFits ==
  ASSUME IInv, Fitting,
         UNCHANGED <<surface, damage, has_free_buffer, surface_size, buf_size,
                     shell_size, buffer_size, unheard, pipe>>,
         UNCHANGED <<pc, subject>> \/ pc' # "realize",
         event_due \subseteq event_due',
         damage_window_list \subseteq damage_window_list',
         \A w \in Windows : Held(w) =>
           \/ w \in (damage_window_list \cup redraw_owed)'
           \/ w \notin redraw_owed /\ window_size'[w] = window_size[w]
  PROVE  Fitting'
<1> SUFFICES ASSUME NEW w \in Windows, Held(w)' PROVE Fits(w)'
  BY DEF Fitting
<1>1. Held(w)
  BY DEF Held
<1> QED  BY <1>1, FitsKept DEF Fitting

\* xmir_repaint takes the damage away, but also the buffer.
LEMMA RepaintFits ==
  ASSUME IInv, Fitting, NEW w \in Windows, BlockRepaint(w)
  PROVE  Fitting'
<1> SUFFICES ASSUME NEW v \in Windows, Held(v)' PROVE Fits(v)'
  BY DEF Fitting
<1>1. /\ has_free_buffer' = [has_free_buffer EXCEPT ![w] = FALSE]
      /\ damage_window_list' = damage_window_list \ {w}
      /\ UNCHANGED <<surface, damage, surface_size, buf_size, window_size,
                     redraw_owed, shell_size, event_due, buffer_size, unheard,
                     pipe, pc, subject>>
  BY DEF BlockRepaint, xmir_repaint
<1>2. has_free_buffer'[v] => v # w /\ has_free_buffer[v]
  BY <1>1 DEF IInv, TypeOK
<1> QED  BY <1>1, <1>2, FitsKept DEF Fitting, Held

\* Reading a message that is no resize of w.
LEMMA ReadOther ==
  ASSUME IInv, pipe # <<>>, pipe' = Tail(pipe), NEW w \in Windows,
         ~Resizes(w, Head(pipe)), NEW z
  PROVE  /\ Unresized(w, pipe) <=> Unresized(w, pipe')
         /\ Newest(w, pipe, z) => Newest(w, pipe', z)
  BY TailResize DEF IInv, TypeOK

\* The resize event: the size is noted, and the window damaged.
LEMMA ResizeReadFits ==
  ASSUME IInv, Fitting, pipe # <<>>, pipe' = Tail(pipe), UNCHANGED <<pc, subject>>,
         NEW w \in Windows, pc # "realize",
         Resizes(w, Head(pipe)), HandleResizeEvent(w, Head(pipe).size)
  PROVE  Fitting'
<1> SUFFICES ASSUME NEW v \in Windows, Held(v)' PROVE Fits(v)'
  BY DEF Fitting
<1> DEFINE z == Head(pipe).size
<1>1. /\ surface_size' = [surface_size EXCEPT ![w] = z]
      /\ damage_window_list \subseteq damage_window_list'
      /\ damage[w] => w \in damage_window_list'
      /\ UNCHANGED <<surface, damage, has_free_buffer, buf_size, window_size,
                     redraw_owed, shell_size, event_due, buffer_size, unheard>>
  BY DEF HandleResizeEvent, NoteSurfaceSize, mirserver
<1>2. Fits(v) /\ damage[v]
  BY <1>1 DEF Fitting, Held
<1>3. CASE v # w
  <2>1. ~Resizes(v, Head(pipe))
    BY <1>3 DEF Resizes
  <2>2. surface_size'[v] = surface_size[v]
    BY <1>1, <1>3 DEF IInv, TypeOK
  <2> QED  BY <1>1, <1>2, <2>1, <2>2, ReadOther, FitsKept
<1>4. CASE v = w
  <2>1. /\ Newest(v, pipe, shell_size[surface[v]])
             => Newest(v, pipe', shell_size[surface[v]])
        /\ Unresized(v, pipe') /\ Newest(v, pipe, shell_size[surface[v]])
             => z = shell_size[surface[v]]
    BY <1>4, TailResize DEF IInv, TypeOK
  <2>2. surface_size'[v] = z
    BY <1>1, <1>4 DEF IInv, TypeOK
  <2>3. Announced(v)'
    BY <1>1, <1>2, <2>1, <2>2 DEF Fits, Announced
  <2>4. BufferFits(v)' /\ WindowFits(v)'
    BY <1>1, <1>2, <1>4 DEF BufferFits, WindowFits
  <2> QED  BY <2>3, <2>4 DEF Fits
<1> QED  BY <1>3, <1>4

\* The buffer-available message: a buffer that is kept has the size of the
\* surface, and the window takes it.
LEMMA BufferReadFits ==
  ASSUME IInv, Fitting, pipe # <<>>, pipe' = Tail(pipe), UNCHANGED <<pc, subject>>,
         NEW w \in Windows, pc # "realize",
         Head(pipe) = BufferMsg(w), HandleBufferAvailable(w)
  PROVE  Fitting'
<1> SUFFICES ASSUME NEW v \in Windows, Held(v)' PROVE Fits(v)'
  BY DEF Fitting
<1> DEFINE z == buffer_size[surface[w]]
<1>1. UNCHANGED <<surface, damage, surface_size, shell_size, event_due, buffer_size,
                  unheard>>
  BY DEF HandleBufferAvailable
<1>2. Fits(v) /\ damage[v]
  BY <1>1 DEF Fitting, Held
<1>3. ~Resizes(v, Head(pipe))
  BY DEF BufferMsg, Resizes
<1>4. CASE ~damage[w]
  <2>1. UNCHANGED <<has_free_buffer, buf_size, window_size, damage_window_list,
                    redraw_owed>>
    BY <1>4 DEF HandleBufferAvailable, xmir_handle_buffer_available
  <2> QED  BY <1>1, <1>2, <1>3, <2>1, ReadOther, FitsKept
<1>5. CASE damage[w]
  <2>1. BufferAvailable(w, z)
    BY <1>5, Shown, HeldShown DEF HandleBufferAvailable, xmir_handle_buffer_available
  <2>2. CASE v # w
    <3>1. /\ has_free_buffer'[v] = has_free_buffer[v]
          /\ buf_size'[v] = buf_size[v] /\ window_size'[v] = window_size[v]
      BY <2>1, <2>2 DEF BufferAvailable, FollowBuffer, IInv, TypeOK
    <3>2. /\ v \in damage_window_list => v \in damage_window_list'
          /\ v \in redraw_owed => v \in redraw_owed'
      BY <2>1, <2>2 DEF BufferAvailable, FollowBuffer
    <3>3. v \in (damage_window_list \cup redraw_owed)'
          \/ (v \notin redraw_owed /\ window_size'[v] = window_size[v])
      BY <3>1, <3>2
    <3> QED  BY <1>1, <1>2, <1>3, <3>1, <3>2, <3>3, ReadOther, FitsKept
  <2>3. CASE v = w
    <3>1. /\ Newest(v, pipe, shell_size[surface[v]])
               => Newest(v, pipe', shell_size[surface[v]])
          /\ Unresized(v, pipe') => Unresized(v, pipe)
      BY <1>3, ReadOther
    <3>2. Announced(v)'
      BY <1>1, <1>2, <3>1 DEF Fits, Announced
    <3>3. buf_size'[v] = z /\ window_size'[v] = z
      BY <2>1, <2>3 DEF BufferAvailable, FollowBuffer, IInv, TypeOK
    <3>4. has_free_buffer'[v] => z = surface_size[v]
      <4>1. has_free_buffer'[v] = ~PaintNow(v, z)
        BY <2>1, <2>3 DEF BufferAvailable, IInv, TypeOK
      <4> QED  BY <4>1 DEF PaintNow, xserver_lagging
    <3>5. has_free_buffer'[v] => BufferFits(v)' /\ WindowFits(v)'
      BY <1>1, <2>3, <3>3, <3>4 DEF BufferFits, WindowFits
    <3> QED  BY <3>2, <3>5 DEF Fits
  <2> QED  BY <2>2, <2>3
<1> QED  BY <1>4, <1>5

LEMMA CallbackFits ==
  ASSUME IInv, Fitting, pipe # <<>>, pipe' = Tail(pipe), Callback(Head(pipe)),
         UNCHANGED <<pc, subject>>, pc # "realize"
  PROVE  Fitting'
<1>1. Head(pipe) \in Message
  BY DEF IInv, TypeOK
<1> QED  BY <1>1, MessageTypes, ResizeReadFits, BufferReadFits DEF Callback, Resizes

\* The drain of an unmap drops messages of the window that is going only.
LEMMA ExceptFits ==
  ASSUME IInv, Fitting, ProcessFromEventloopExcept
  PROVE  Fitting'
<1>1. pipe # <<>> /\ pipe' = Tail(pipe) /\ pc = "unmap" /\ UNCHANGED <<pc, subject>>
  BY DEF ProcessFromEventloopExcept
<1>2. CASE Head(pipe).win = subject
  <2> SUFFICES ASSUME NEW v \in Windows, Held(v)' PROVE Fits(v)'
    BY DEF Fitting
  <2>1. UNCHANGED <<surface, damage, has_free_buffer, surface_size, buf_size,
                    shell_size, event_due, buffer_size, window_size, unheard,
                    damage_window_list, redraw_owed>> /\ Held(v) /\ damage[v]
    BY <1>1, <1>2 DEF ProcessFromEventloopExcept, xserver, mirserver, Held
  <2>2. v # subject
    BY <1>1, <2>1 DEF IInv, Control
  <2>3. ~Resizes(v, Head(pipe))
    BY <1>2, <2>2 DEF Resizes
  <2> QED  BY <1>1, <2>1, <2>3, ReadOther, FitsKept DEF Fitting
<1>3. CASE Head(pipe).win # subject
  BY <1>1, <1>3, CallbackFits DEF ProcessFromEventloopExcept
<1> QED  BY <1>2, <1>3

\* Steps that touch one surface: the sizes of the windows on the others.
LEMMA ElsewhereFits ==
  ASSUME IInv, NEW w \in Windows, Fits(w), surface'[w] = surface[w],
         UNCHANGED <<pipe, window_size>>,
         shell_size'[surface[w]] = shell_size[surface[w]],
         buffer_size'[surface[w]] = buffer_size[surface[w]],
         surface_size'[w] = surface_size[w], buf_size'[w] = buf_size[w],
         has_free_buffer'[w] = has_free_buffer[w],
         surface[w] \in event_due \cup unheard => surface[w] \in (event_due \cup unheard)',
         w \in damage_window_list => w \in damage_window_list',
         w \in redraw_owed => w \in redraw_owed'
  PROVE  Fits(w)'
<1>1. w \in (damage_window_list \cup redraw_owed)'
      \/ (w \notin redraw_owed /\ window_size'[w] = window_size[w])
  OBVIOUS
<1> QED  BY <1>1, FitsKept

\* A new surface has the size of its window, or an event is due that says it
\* has not.  No message about the window is left from an earlier surface.
LEMMA RealizeFits ==
  ASSUME IInv, Fitting, NEW w \in Windows, NEW s \in Surfaces, NEW z \in Sizes,
         RealizeNew(w, s, z) \/ RealizeInvalid(w, s)
  PROVE  Fitting'
<1> SUFFICES ASSUME NEW v \in Windows, Held(v)' PROVE Fits(v)'
  BY DEF Fitting
<1>1. /\ surface[w] = NoSurface /\ mir[s] = "free" /\ pc = "dispatch"
      /\ surface' = [surface EXCEPT ![w] = s]
      /\ surface_size' = [surface_size EXCEPT ![w] = window_size[w]]
      /\ buf_size' = [buf_size EXCEPT ![w] = window_size[w]]
      /\ has_free_buffer' = [has_free_buffer EXCEPT ![w] = TRUE]
      /\ UNCHANGED <<damage, damage_window_list, redraw_owed, window_size, unheard, pipe>>
  BY DEF RealizeNew, RealizeInvalid, RealizeOn
<1>2. ~damage[w] /\ (v # w => damage[v])
  <2>1. pc' # "realize" \/ subject' = w
    BY <1>1 DEF RealizeNew, RealizeInvalid
  <2> QED  BY <1>1, <2>1 DEF Held, IInv, SurfacesOwned
<1>3. CASE v # w
  <2>1. damage[v] /\ surface'[v] = surface[v] /\ surface_size'[v] = surface_size[v]
        /\ buf_size'[v] = buf_size[v] /\ has_free_buffer'[v] = has_free_buffer[v]
    BY <1>1, <1>2, <1>3 DEF IInv, TypeOK
  <2>2. surface[v] # s /\ surface[v] \in Surfaces /\ Fits(v)
    BY <1>1, <2>1, Shown DEF Fitting, Held
  <2>3. /\ shell_size'[surface[v]] = shell_size[surface[v]]
        /\ buffer_size'[surface[v]] = buffer_size[surface[v]]
        /\ surface[v] \in event_due => surface[v] \in event_due'
    BY <2>2 DEF RealizeNew, RealizeInvalid, IInv, TypeOK
  <2> QED  BY <1>1, <2>1, <2>2, <2>3, ElsewhereFits
<1>4. CASE v = w
  <2>1. RealizeNew(w, s, z)
    <3>1. RealizeInvalid(w, s) => pc' # "realize"
      BY <1>1 DEF RealizeInvalid
    <3> QED  BY <1>1, <1>2, <1>4, <3>1 DEF Held
  <2>2. Unresized(v, pipe)
    <3>1. \A i \in DOMAIN pipe : damage[pipe[i].win]
      BY <1>1 DEF IInv, NoStaleMessage
    <3> QED  BY <1>2, <1>4, <3>1 DEF Unresized, Resizes
  <2>3. surface'[v] = s /\ surface_size'[v] = window_size[v]
        /\ buf_size'[v] = window_size[v]
    BY <1>1, <1>4 DEF IInv, TypeOK
  <2>4. shell_size'[s] = z /\ buffer_size'[s] = z
    BY <2>1 DEF RealizeNew, IInv, TypeOK
  <2>5. z = window_size[v] \/ s \in event_due'
    BY <1>4, <2>1 DEF RealizeNew
  <2>6. Newest(v, pipe, shell_size'[s])
    BY <2>2 DEF Newest, Unresized
  <2>7. Announced(v)'
    BY <1>1, <2>3, <2>4, <2>5, <2>6 DEF Announced
  <2>8. BufferFits(v)' /\ WindowFits(v)'
    BY <1>1, <2>3, <2>4, <2>5 DEF BufferFits, WindowFits
  <2> QED  BY <2>7, <2>8 DEF Fits
<1> QED  BY <1>3, <1>4

\* The window that gets its handler was held already.
LEMMA RealizedFits ==
  ASSUME IInv, Fitting, RealizeDone
  PROVE  Fitting'
<1> SUFFICES ASSUME NEW v \in Windows, Held(v)' PROVE Fits(v)'
  BY DEF Fitting
<1>1. /\ damage' = [damage EXCEPT ![subject] = TRUE] /\ pc = "realize" /\ pc' = "dispatch"
      /\ UNCHANGED <<surface, has_free_buffer, surface_size, buf_size, window_size,
                     damage_window_list, redraw_owed, shell_size, event_due,
                     buffer_size, unheard, pipe>>
  BY DEF RealizeDone, mirserver
<1>2. Fits(v)
  BY <1>1 DEF Fitting, Held, IInv, TypeOK
<1> QED  BY <1>1, <1>2, ElsewhereFits

LEMMA UnmapFits ==
  ASSUME IInv, Fitting, ~NeverClose, NEW w \in Windows, UnmapSurface(w)
  PROVE  Fitting'
<1> SUFFICES ASSUME NEW v \in Windows, Held(v)' PROVE Fits(v)'
  BY DEF Fitting
<1>1. /\ damage' = [damage EXCEPT ![w] = FALSE]
      /\ surface' = [surface EXCEPT ![w] = NoSurface]
      /\ damage_window_list' = damage_window_list \ {w}
      /\ redraw_owed' = redraw_owed \ {w}
      /\ event_due' = event_due \ {surface[w]}
      /\ unheard' = unheard \ {surface[w]} /\ pc' = "unmap"
      /\ UNCHANGED <<has_free_buffer, surface_size, buf_size, window_size, pipe,
                     shell_size, buffer_size>>
  BY DEF UnmapSurface, GiveUpSurface
<1>2. v # w /\ damage[v] /\ surface'[v] = surface[v]
  BY <1>1 DEF IInv, TypeOK, Held
<1>3. surface[v] # surface[w] /\ Fits(v)
  BY <1>2, Shown DEF Fitting, Held
<1> QED  BY <1>1, <1>2, <1>3, ElsewhereFits

\* The size of the buffer changes with the buffer, while the client has none.
LEMMA ReceivedFits ==
  ASSUME IInv, Fitting, NEW s \in Surfaces, HandleBufferReceived(s)
  PROVE  Fitting'
<1> SUFFICES ASSUME NEW v \in Windows, Held(v)' PROVE Fits(v)'
  BY DEF Fitting
<1>1. /\ swaps[s] # <<>>
      /\ buffer_size' = [buffer_size EXCEPT ![s] = alloc_size[s]]
      /\ UNCHANGED <<surface, damage, has_free_buffer, surface_size, buf_size,
                     window_size, damage_window_list, redraw_owed, shell_size,
                     event_due, unheard, pc, subject>>
  BY DEF HandleBufferReceived, xserver
<1>2. /\ Unresized(v, pipe) <=> Unresized(v, pipe')
      /\ Newest(v, pipe, shell_size[surface[v]])
           => Newest(v, pipe', shell_size[surface[v]])
  <2>1. pipe \in Seq(Message) /\ swaps[s] \in Seq(Windows \cup {NoWindow})
    BY DEF IInv, TypeOK
  <2>2. CASE pipe' = pipe
    BY <2>2
  <2>3. ASSUME NEW w \in Windows, pipe' = Append(pipe, BufferMsg(w))
        PROVE  /\ Unresized(v, pipe) <=> Unresized(v, pipe')
               /\ Newest(v, pipe, shell_size[surface[v]])
                    => Newest(v, pipe', shell_size[surface[v]])
    <3>1. BufferMsg(w) \in Message /\ ~Resizes(v, BufferMsg(w))
      BY MessageTypes DEF BufferMsg, Resizes
    <3> QED  BY <2>1, <2>3, <3>1, AppendOtherResize
  <2>4. pipe' = pipe \/ \E w \in Windows : pipe' = Append(pipe, BufferMsg(w))
    <3>1. Head(swaps[s]) \in Windows \cup {NoWindow}
      BY <1>1, <2>1
    <3> QED  BY <3>1 DEF HandleBufferReceived, xmir_post_to_eventloop
  <2> QED  BY <2>2, <2>3, <2>4
<1>3. Fits(v) /\ Held(v)
  BY <1>1 DEF Fitting, Held
<1>4. has_free_buffer[v] => buffer_size'[surface[v]] = buffer_size[surface[v]]
  <2>1. has_free_buffer[v] => surface[v] # s
    BY <1>1, <1>3, Shown DEF Token
  <2> QED  BY <1>1, <1>3, <2>1, Shown DEF IInv, TypeOK
<1>5. v \in (damage_window_list \cup redraw_owed)'
      \/ (v \notin redraw_owed /\ window_size'[v] = window_size[v])
  BY <1>1
<1> QED  BY <1>1, <1>2, <1>3, <1>4, <1>5, FitsKept

\* The event tells the size the shell wants now, whatever was told before.
LEMMA EventFits ==
  ASSUME IInv, Fitting, NEW s \in Surfaces, SurfaceHandleEvent(s)
  PROVE  Fitting'
<1> SUFFICES ASSUME NEW v \in Windows, Held(v)' PROVE Fits(v)'
  BY DEF Fitting
<1>1. /\ event_due' = event_due \ {s}
      /\ UNCHANGED <<surface, damage, has_free_buffer, surface_size, buf_size,
                     window_size, damage_window_list, redraw_owed, shell_size,
                     buffer_size, pc, subject>>
  BY DEF SurfaceHandleEvent, xserver
<1>2. Fits(v) /\ Held(v) /\ surface[v] \in Surfaces /\ pipe \in Seq(Message)
  BY <1>1, Shown DEF Fitting, Held, IInv, TypeOK
<1>2a. has_free_buffer[v] => WindowFits(v)'
  BY <1>1, <1>2 DEF Fits, WindowFits
<1>5. CASE surface[v] = s /\ ~damage[v]
  <2>1. s \in unheard'
    BY <1>2, <1>5, Shown DEF SurfaceHandleEvent
  <2> QED  BY <1>1, <1>2a, <1>5, <2>1 DEF Fits, Announced, BufferFits
<1>3. CASE surface[v] = s /\ damage[v]
  <2> DEFINE m == ResizeMsg(v, shell_size[s])
  <2>1. pipe' = Append(pipe, m)
    BY <1>2, <1>3, Shown DEF SurfaceHandleEvent, xmir_post_to_eventloop
  <2>2. m \in Message /\ Resizes(v, m) /\ m.size = shell_size[s]
    BY MessageTypes DEF ResizeMsg, Resizes, IInv, TypeOK
  <2>3. ~Unresized(v, pipe') /\ Newest(v, pipe', shell_size[s])
    BY <1>2, <2>1, <2>2, AppendResize
  <2>4. Announced(v)'
    BY <1>1, <1>3, <2>3 DEF Announced
  <2> QED  BY <1>1, <1>2a, <2>3, <2>4 DEF Fits, BufferFits
<1>4. CASE surface[v] # s
  <2>1. /\ Unresized(v, pipe) <=> Unresized(v, pipe')
        /\ Newest(v, pipe, shell_size[surface[v]])
             => Newest(v, pipe', shell_size[surface[v]])
    <3>1. CASE pipe' = pipe
      BY <3>1
    <3>2. ASSUME NEW w \in Windows, surface[w] = s,
                 pipe' = Append(pipe, ResizeMsg(w, shell_size[s]))
          PROVE  /\ Unresized(v, pipe) <=> Unresized(v, pipe')
                 /\ Newest(v, pipe, shell_size[surface[v]])
                      => Newest(v, pipe', shell_size[surface[v]])
      <4> DEFINE m == ResizeMsg(w, shell_size[s])
      <4>1. m \in Message /\ ~Resizes(v, m)
        BY <1>4, <3>2, MessageTypes DEF ResizeMsg, Resizes, IInv, TypeOK
      <4> HIDE DEF m
      <4>2. pipe' = Append(pipe, m)
        BY <3>2 DEF m
      <4> QED  BY <1>2, <4>1, <4>2, AppendOtherResize
    <3> QED  BY <3>1, <3>2 DEF SurfaceHandleEvent, xmir_post_to_eventloop
  <2>2. v \in (damage_window_list \cup redraw_owed)'
        \/ (v \notin redraw_owed /\ window_size'[v] = window_size[v])
    BY <1>1
  <2>3. surface[v] \in event_due \cup unheard => surface[v] \in (event_due \cup unheard)'
    BY <1>1, <1>4 DEF SurfaceHandleEvent
  <2> QED  BY <1>1, <1>2, <1>4, <2>1, <2>2, <2>3, FitsKept
<1> QED  BY <1>3, <1>4, <1>5

\* A resize by the shell is an event due.
LEMMA ShellFits ==
  ASSUME IInv, Fitting, NEW s \in Surfaces, NEW z \in Sizes, ShellResize(s, z)
  PROVE  Fitting'
<1> SUFFICES ASSUME NEW v \in Windows, Held(v)' PROVE Fits(v)'
  BY DEF Fitting
<1>1. /\ event_due' = event_due \cup {s}
      /\ shell_size' = [shell_size EXCEPT ![s] = z]
      /\ UNCHANGED <<surface, damage, has_free_buffer, surface_size, buf_size,
                     window_size, damage_window_list, redraw_owed, buffer_size,
                     unheard, pipe, pc, subject>>
  BY DEF ShellResize, xserver
<1>2. Fits(v) /\ surface[v] \in Surfaces
  BY <1>1, Shown DEF Fitting, Held
<1>3. CASE surface[v] = s
  BY <1>1, <1>2, <1>3 DEF Fits, Announced, BufferFits, WindowFits
<1>4. CASE surface[v] # s
  <2>1. shell_size'[surface[v]] = shell_size[surface[v]]
    BY <1>1, <1>4 DEF IInv, TypeOK
  <2> QED  BY <1>1, <1>2, <2>1, ElsewhereFits
<1> QED  BY <1>3, <1>4

-----------------------------------------------------------------------------
(* The theorem *)

SInv == IInv /\ Fitting

LEMMA InitSInv ==
  ASSUME Init
  PROVE  SInv
  BY InitIInv DEF Init, SInv, Fitting, Held

LEMMA SInvStep ==
  ASSUME SInv, ~NeverClose, [Next]_vars
  PROVE  SInv'
<1>1. IInv /\ Fitting /\ IInv'
  BY IInvStep DEF SInv
<1> SUFFICES Fitting'
  BY <1>1 DEF SInv
<1>2. CASE BlockDone \/ WakeupPipe \/ WakeupClient \/ DrainDone \/ Yield \/ UnmapDone
           \/ UNCHANGED vars
  <2>1. UNCHANGED <<xserver, mirserver, pipe>> /\ (pc' # "realize" \/ UNCHANGED <<pc, subject>>)
    BY <1>2 DEF BlockDone, WakeupPipe, WakeupClient, DrainDone, Yield, UnmapDone, vars
  <2> QED  BY <1>1, <2>1, QuietFits DEF xserver, mirserver
<1>3. ASSUME NEW w \in Windows, BlockRepaint(w) PROVE Fitting'
  BY <1>1, <1>3, RepaintFits
<1>4. CASE ProcessFromEventloop
  BY <1>1, <1>4, CallbackFits DEF ProcessFromEventloop
<1>5. CASE ProcessFromEventloopExcept
  BY <1>1, <1>5, ExceptFits
<1>6. ASSUME NEW w \in Windows, Draw(w) PROVE Fitting'
  BY <1>1, <1>6, QuietFits DEF Draw, mirserver
<1>7. ASSUME NEW w \in Windows, NEW z \in Sizes, ResizeWindow(w, z) PROVE Fitting'
  <2>1. ASSUME NEW v \in Windows, Held(v)
        PROVE  \/ v \in (damage_window_list \cup redraw_owed)'
               \/ (v \notin redraw_owed /\ window_size'[v] = window_size[v])
    <3>1. CASE v = w
      BY <1>7, <2>1, <3>1 DEF ResizeWindow, Held
    <3>2. CASE v # w
      BY <1>1, <1>7, <3>2 DEF ResizeWindow, IInv, TypeOK
    <3> QED  BY <3>1, <3>2
  <2> QED  BY <1>1, <1>7, <2>1, QuietFits DEF ResizeWindow, mirserver
<1>8. ASSUME NEW w \in Windows, NEW s \in Surfaces, NEW z \in Sizes,
             RealizeNew(w, s, z) \/ RealizeInvalid(w, s)
      PROVE  Fitting'
  BY <1>1, <1>8, RealizeFits
<1>9. ASSUME NEW w \in Windows, RealizeNeverclosed(w) PROVE Fitting'
  BY <1>1, <1>9 DEF RealizeNeverclosed, IInv, Control
<1>9a. CASE RealizeDone
  BY <1>1, <1>9a, RealizedFits
<1>10. ASSUME NEW w \in Windows, UnmapSurface(w) PROVE Fitting'
  BY <1>1, <1>10, UnmapFits
<1>11. ASSUME NEW w \in Windows, DestroyWindow(w) PROVE Fitting'
  BY <1>1, <1>11, QuietFits DEF DestroyWindow, mirserver
<1>12. ASSUME NEW s \in Surfaces, HandleBufferReceived(s) PROVE Fitting'
  BY <1>1, <1>12, ReceivedFits
<1>13. ASSUME NEW s \in Surfaces, NEW z \in Sizes, ShellResize(s, z) PROVE Fitting'
  BY <1>1, <1>13, ShellFits
<1>14. ASSUME NEW s \in Surfaces, SurfaceHandleEvent(s) PROVE Fitting'
  BY <1>1, <1>14, EventFits
<1>15. ASSUME NEW s \in Surfaces, ReallocateBuffers(s) PROVE Fitting'
  BY <1>1, <1>15, QuietFits DEF ReallocateBuffers, xserver
<1>16. \E z \in Sizes : TRUE
  BY SizesAssumption
<1> QED
  BY <1>2, <1>3, <1>4, <1>5, <1>6, <1>7, <1>8, <1>9, <1>9a, <1>10, <1>11, <1>12,
     <1>13, <1>14, <1>15, <1>16 DEF Next, MainLoop, ClientRequest, Mir

\* However the resizes of the shell and the clients, the buffers and the frames
\* cross, a window with nothing left to do has the size of its surface and of
\* its buffer, which is the size the shell wants - if that size was not told
\* before xmir_realize_window had set the event handler.
THEOREM QuietStaysSettled ==
  ASSUME ~NeverClose
  PROVE  Spec => []QuietIsSettled
<1>1. Init => SInv
  BY InitSInv
<1>2. SInv /\ [Next]_vars => SInv'
  BY SInvStep
<1>3. SInv => QuietIsSettled
  <2> SUFFICES ASSUME SInv, pipe = <<>>, NEW w \in Windows, damage[w],
                      w \notin damage_window_list \cup redraw_owed,
                      swaps[surface[w]] = <<>>,
                      surface[w] \notin event_due \cup unheard
               PROVE  Settled(w)
    BY DEF QuietIsSettled
  <2>1. Unresized(w, pipe)
    BY DEF Unresized
  <2>2. Token(w) /\ ~Once(BufferMsg(w), pipe)
    BY Shown DEF SInv, Once, Held
  <2>3. has_free_buffer[w] /\ Fits(w)
    BY <2>2 DEF Token, SInv, Fitting, Held
  <2> QED  BY <2>1, <2>3 DEF Fits, Announced, BufferFits, WindowFits, Settled
<1> QED  BY <1>1, <1>2, <1>3, PTL DEF Spec
=============================================================================
