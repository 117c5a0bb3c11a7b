------------------------------ MODULE XmirFrame ------------------------------
(***************************************************************************)
(* The frame loop of Xmir in its software and DRI modes: the X server's    *)
(* main thread, the pipe Mir's thread posts to, and Mir itself.            *)
(*                                                                         *)
(* An X window that is realized owns a Mir surface.  Drawing puts it on    *)
(* damage_window_list; xmir_repaint copies it into the surface's current   *)
(* buffer and submits that buffer; when Mir hands out the next one its     *)
(* thread posts a "buffer available" message through the pipe, and the     *)
(* main thread then sets has_free_buffer or paints again at once.  Sizes   *)
(* travel the other way: the shell resizes the surface, Mir sends a resize *)
(* event and, later or earlier, buffers of the new size, and the X window  *)
(* follows the size of the buffer.                                         *)
(*                                                                         *)
(* A window is its struct xmir_window.  Mir (its client library, its       *)
(* thread and the shell) is external and modelled from how src/hw/xmir     *)
(* uses it.                                                                *)
(***************************************************************************)
EXTENDS Integers, Sequences

CONSTANTS
  Windows,        \* X windows that get a Mir surface when they are realized
  NoWindow,       \* the NULL window, context of a swap without a callback
  Surfaces,       \* MirWindow objects; a released one may be handed out again
  NoSurface,      \* the NULL surface
  Sizes,          \* sizes of windows, surfaces and buffers
  RootlessModes,  \* whether the server may be started with -rootless
  NeverClose,     \* -neverclose: one surface, kept when its window goes
  Software,       \* -sw: the surface's buffer is in memory (glamor_off)
  PipeCapacity,   \* messages the pipe holds before a writer blocks
  MaxResizes      \* bound: resizes by the shell and by clients together

ASSUME WindowsAssumption == Windows # {} /\ NoWindow \notin Windows
ASSUME SurfacesAssumption == Surfaces # {} /\ NoSurface \notin Surfaces
ASSUME SizesAssumption == Sizes # {}
ASSUME OptionsAssumption ==
         /\ RootlessModes \subseteq BOOLEAN /\ NeverClose \in BOOLEAN
         /\ Software \in BOOLEAN
ASSUME BoundsAssumption == PipeCapacity \in Nat \ {0} /\ MaxResizes \in Nat

VARIABLES
  created,             \* windows the X clients have not destroyed
  surface,             \* xmir_window->surface
  damage,              \* xmir_window->damage # NULL
  damage_window_list,  \* xmir_screen->damage_window_list
  has_free_buffer,     \* xmir_window->has_free_buffer
  surface_size,        \* xmir_window->surface_width, surface_height
  buf_size,            \* xmir_window->buf_width, buf_height
  window_size,         \* window->drawable.width, height
  redraw_owed,         \* windows resized whose client has yet to draw them
  neverclosed,         \* xmir_screen->neverclosed
  rootless,            \* -rootless: one surface per top-level window
  partial              \* windows whose last frame did not fit its buffer

xserver == <<created, surface, damage, damage_window_list, has_free_buffer,
             surface_size, buf_size, window_size, redraw_owed, neverclosed,
             rootless, partial>>

VARIABLES
  mir,          \* Mir's view of a surface: "free", "live" or "invalid"
  shell_size,   \* the size the shell wants the surface to have
  event_due,    \* surfaces resized by the shell, their event not yet sent
  alloc_size,   \* the size of the buffers Mir hands out from now on
  buffer_size,  \* the size of the buffer the client holds or held last
  swaps,        \* contexts of the buffers submitted and not yet exchanged
  unheard       \* history: surfaces whose last event found no handler

mirserver == <<mir, shell_size, event_due, alloc_size, buffer_size, swaps,
               unheard>>

VARIABLES
  pipe,         \* messages posted and not yet read, in order
  pc,           \* where the main thread is
  subject,      \* the window being realized or unmapped
  resizes       \* how many resizes have happened, up to MaxResizes

vars == <<xserver, mirserver, pipe, pc, subject, resizes>>

BufferMsg(w) == [cb |-> "buffer_available", win |-> w]
ResizeMsg(w, z) == [cb |-> "resize_event", win |-> w, size |-> z]

Message == [cb : {"buffer_available"}, win : Windows]
             \cup [cb : {"resize_event"}, win : Windows, size : Sizes]

\* Mutant: the writer of a full pipe gives up instead of waiting.
xmir_post_to_eventloop_Lossy(m) ==
  pipe' = IF Len(pipe) < PipeCapacity THEN Append(pipe, m) ELSE pipe

\* Write one message; the writer waits while the pipe is full.
xmir_post_to_eventloop(m) ==
  Len(pipe) < PipeCapacity /\ pipe' = Append(pipe, m)

Init ==
  /\ created = Windows
  /\ surface = [w \in Windows |-> NoSurface]
  /\ damage = [w \in Windows |-> FALSE]
  /\ damage_window_list = {}
  /\ has_free_buffer = [w \in Windows |-> FALSE]
  /\ \E z \in Sizes :
       /\ window_size = [w \in Windows |-> z]
       /\ surface_size = [w \in Windows |-> z]
       /\ buf_size = [w \in Windows |-> z]
       /\ shell_size = [s \in Surfaces |-> z]
       /\ alloc_size = [s \in Surfaces |-> z]
       /\ buffer_size = [s \in Surfaces |-> z]
  /\ redraw_owed = {}
  /\ neverclosed = NoSurface
  /\ rootless \in RootlessModes /\ (NeverClose => rootless)
  /\ partial = {}
  /\ event_due = {}
  /\ mir = [s \in Surfaces |-> "free"]
  /\ swaps = [s \in Surfaces |-> <<>>]
  /\ unheard = {}
  /\ pipe = <<>>
  /\ pc = "dispatch"
  /\ subject = NoWindow
  /\ resizes = 0

-----------------------------------------------------------------------------
(* Painting *)

\* Copy what fits of the window into the current buffer of its surface.
xmir_sw_copy(w) ==
  partial' = IF window_size[w] = buffer_size[surface[w]]
               THEN partial \ {w} ELSE partial \cup {w}

\* Mutant: the swap carries the surface where the callback wants the window.
xmir_swap_WrongContext(w) ==
  swaps' = [swaps EXCEPT ![surface[w]] = Append(@, surface[w])]

\* Submit that buffer; the swap carries the window, to be named in the
\* buffer-available message.
xmir_swap(w) == swaps' = [swaps EXCEPT ![surface[w]] = Append(@, w)]

\* Mutant: has_free_buffer stays set.
xmir_repaint_KeepsFlag(w) ==
  /\ xmir_sw_copy(w)
  /\ xmir_swap(w)
  /\ damage_window_list' = damage_window_list \ {w}
  /\ UNCHANGED has_free_buffer

xmir_repaint(w) ==
  /\ xmir_sw_copy(w)
  /\ has_free_buffer' = [has_free_buffer EXCEPT ![w] = FALSE]
  /\ xmir_swap(w)
  /\ damage_window_list' = damage_window_list \ {w}

\* Mutant: the size of the buffer is not compared with the announced one.
xserver_lagging_Never(w, z) == FALSE

\* The buffer Mir handed out has not the size the shell announced.
xserver_lagging(w, z) == z # surface_size[w]

\* The X window has not the size of the buffer.
xclient_lagging(w, z) == z # window_size[w]

\* Mutant: damage that waited for the buffer is forgotten.
PaintNow_LagOnly(w, z) == xserver_lagging(w, z)

PaintNow(w, z) == xserver_lagging(w, z) \/ w \in damage_window_list

\* Mutant: no damage after the resize of the root window.
DamagedAgain_LagOnly(w, z) == xserver_lagging(w, z)

\* A window painted at the wrong size is damaged again.  So is a root window
\* by its own resize; a top-level window is drawn again by its client.
DamagedAgain(w, z) ==
  xserver_lagging(w, z) \/ (xclient_lagging(w, z) /\ ~rootless)

\* Mutant: the X window does not follow.
FollowBuffer_Not(w, z) == UNCHANGED <<window_size, redraw_owed>>

\* The X window takes the size of the buffer; a top-level window's client is
\* told, and will draw it anew.
FollowBuffer(w, z) ==
  /\ window_size' = [window_size EXCEPT ![w] = z]
  /\ redraw_owed' = IF xclient_lagging(w, z) /\ rootless
                       THEN redraw_owed \cup {w} ELSE redraw_owed

\* A buffer of size z is there for w: paint at once if need be, and let the X
\* window follow the buffer.
BufferAvailable(w, z) ==
  /\ buf_size' = [buf_size EXCEPT ![w] = z]
  /\ has_free_buffer' = [has_free_buffer EXCEPT ![w] = ~PaintNow(w, z)]
  /\ IF PaintNow(w, z) THEN xmir_sw_copy(w) /\ xmir_swap(w)
                       ELSE UNCHANGED <<partial, swaps>>
  /\ FollowBuffer(w, z)
  /\ damage_window_list' = IF DamagedAgain(w, z)
                              THEN damage_window_list \cup {w}
                              ELSE damage_window_list \ {w}

xmir_handle_buffer_available(w) ==
  IF ~damage[w] \/ mir[surface[w]] # "live"
    THEN UNCHANGED <<buf_size, has_free_buffer, swaps, window_size,
                     damage_window_list, redraw_owed, partial>>
    ELSE BufferAvailable(w, buffer_size[surface[w]])

HandleBufferAvailable(w) ==
  /\ xmir_handle_buffer_available(w)
  /\ UNCHANGED <<created, surface, damage, surface_size, neverclosed,
                 rootless, mir, shell_size, event_due, alloc_size,
                 buffer_size, unheard>>

\* Mutant: the announced size is not noted.
NoteSurfaceSize_Not(w, z) == UNCHANGED surface_size

NoteSurfaceSize(w, z) == surface_size' = [surface_size EXCEPT ![w] = z]

\* The resize event: buffers of that size will follow, so paint the window
\* to have the current buffer exchanged.
HandleResizeEvent(w, z) ==
  /\ NoteSurfaceSize(w, z)
  /\ damage_window_list' = IF damage[w] THEN damage_window_list \cup {w}
                                        ELSE damage_window_list
  /\ UNCHANGED <<created, surface, damage, has_free_buffer, buf_size,
                 window_size, redraw_owed, neverclosed, rootless, partial,
                 mirserver>>

Callback(m) ==
  \/ m.cb = "buffer_available" /\ HandleBufferAvailable(m.win)
  \/ m.cb = "resize_event" /\ HandleResizeEvent(m.win, m.size)

-----------------------------------------------------------------------------
(* The main thread's loop: block handler, select, wakeup handler, dispatch *)

\* One turn of the block handler's loop over the damaged windows.
BlockRepaint(w) ==
  /\ pc = "block"
  /\ w \in damage_window_list
  /\ has_free_buffer[w]
  /\ xmir_repaint(w)
  /\ UNCHANGED <<created, surface, damage, surface_size, buf_size,
                 window_size, redraw_owed, neverclosed, rootless, mir,
                 shell_size, event_due, alloc_size, buffer_size, unheard,
                 pipe, pc, subject, resizes>>

\* Mutant: the block handler leaves its loop early.
BlockDone_Early ==
  /\ pc = "block"
  /\ pc' = "select"
  /\ UNCHANGED <<xserver, mirserver, pipe, subject, resizes>>

BlockDone ==
  /\ pc = "block"
  /\ \A w \in damage_window_list : ~has_free_buffer[w]
  /\ pc' = "select"
  /\ UNCHANGED <<xserver, mirserver, pipe, subject, resizes>>

\* select returns with the pipe readable: the wakeup handler drains it.
WakeupPipe ==
  /\ pc = "select" /\ pipe # <<>>
  /\ pc' = "drain"
  /\ UNCHANGED <<xserver, mirserver, pipe, subject, resizes>>

\* select returns for a client (or a timer) with nothing in the pipe.
WakeupClient ==
  /\ pc = "select" /\ pipe = <<>>
  /\ pc' = "dispatch"
  /\ UNCHANGED <<xserver, mirserver, pipe, subject, resizes>>

\* One turn of the loop that reads the pipe until it is empty.
ProcessFromEventloop ==
  /\ pc = "drain" /\ pipe # <<>>
  /\ pipe' = Tail(pipe)
  /\ Callback(Head(pipe))
  /\ UNCHANGED <<pc, subject, resizes>>

DrainDone ==
  /\ pc = "drain" /\ pipe = <<>>
  /\ pc' = "dispatch"
  /\ UNCHANGED <<xserver, mirserver, pipe, subject, resizes>>

\* The time slice is over, or no client has a request left.
Yield ==
  /\ pc = "dispatch"
  /\ pc' = "block"
  /\ UNCHANGED <<xserver, mirserver, pipe, subject, resizes>>

-----------------------------------------------------------------------------
(* Requests of X clients *)

Draw(w) ==
  /\ pc = "dispatch" /\ damage[w]
  /\ damage_window_list' = damage_window_list \cup {w}
  /\ redraw_owed' = redraw_owed \ {w}
  /\ UNCHANGED <<created, surface, damage, has_free_buffer, surface_size,
                 buf_size, window_size, neverclosed, rootless, partial,
                 mirserver, pipe, pc, subject, resizes>>

\* A client resizes its window: Mir is asked for the same size, which the
\* shell may or may not grant.
ResizeWindow(w, z) ==
  /\ pc = "dispatch" /\ rootless
  /\ w \in created /\ z # window_size[w] /\ resizes < MaxResizes
  /\ window_size' = [window_size EXCEPT ![w] = z]
  /\ redraw_owed' = IF damage[w] THEN redraw_owed \cup {w} ELSE redraw_owed
  /\ resizes' = resizes + 1
  /\ UNCHANGED <<created, surface, damage, damage_window_list,
                 has_free_buffer, surface_size, buf_size, neverclosed,
                 rootless, partial, mirserver, pipe, pc, subject>>

\* What xmir_realize_window writes whatever the surface: the sizes, and the
\* claim that there is a buffer to paint to.
RealizeOn(w, s) ==
  /\ surface' = [surface EXCEPT ![w] = s]
  /\ surface_size' = [surface_size EXCEPT ![w] = window_size[w]]
  /\ buf_size' = [buf_size EXCEPT ![w] = window_size[w]]
  /\ has_free_buffer' = [has_free_buffer EXCEPT ![w] = TRUE]
  /\ UNCHANGED <<created, damage, damage_window_list, window_size,
                 redraw_owed, neverclosed, rootless, partial, pipe>>

\* A new surface, with the main thread up to the request for its id, which
\* waits for Mir.  The shell gives the surface size z: one that is not the
\* size asked for is a resize like any other, announced by an event.
RealizeNew(w, s, z) ==
  /\ pc = "dispatch" /\ w \in created /\ surface[w] = NoSurface
  /\ neverclosed = NoSurface
  /\ NeverClose => \A v \in Windows : surface[v] = NoSurface
  /\ mir[s] = "free"
  /\ RealizeOn(w, s)
  /\ pc' = "realize" /\ subject' = w
  /\ mir' = [mir EXCEPT ![s] = "live"]
  /\ shell_size' = [shell_size EXCEPT ![s] = z]
  /\ IF z = window_size[w]
       THEN UNCHANGED <<event_due, resizes>>
       ELSE /\ resizes < MaxResizes /\ resizes' = resizes + 1
            /\ event_due' = event_due \cup {s}
  /\ alloc_size' = [alloc_size EXCEPT ![s] = z]
  /\ buffer_size' = [buffer_size EXCEPT ![s] = z]
  /\ UNCHANGED <<swaps, unheard>>

\* Mir fails to create the surface: the window keeps the invalid one, without
\* handler or damage.  (Not followed with -neverclose, where that one would
\* be kept for good.)
RealizeInvalid(w, s) ==
  /\ pc = "dispatch" /\ w \in created /\ surface[w] = NoSurface
  /\ ~NeverClose
  /\ mir[s] = "free"
  /\ RealizeOn(w, s)
  /\ mir' = [mir EXCEPT ![s] = "invalid"]
  /\ UNCHANGED <<shell_size, event_due, alloc_size, buffer_size, swaps,
                 unheard, pc, subject, resizes>>

\* -neverclose: the surface of the last window is used again.
RealizeNeverclosed(w) ==
  /\ pc = "dispatch" /\ w \in created /\ surface[w] = NoSurface
  /\ neverclosed # NoSurface /\ mir[neverclosed] = "live"
  /\ \A v \in Windows : surface[v] = NoSurface
  /\ RealizeOn(w, neverclosed)
  /\ pc' = "realize" /\ subject' = w
  /\ UNCHANGED <<mirserver, resizes>>

\* The id is there: only now is the event handler set, and tracking of damage
\* begun.
RealizeDone ==
  /\ pc = "realize"
  /\ damage' = [damage EXCEPT ![subject] = TRUE]
  /\ pc' = "dispatch" /\ subject' = NoWindow
  /\ UNCHANGED <<created, surface, damage_window_list, has_free_buffer,
                 surface_size, buf_size, window_size, redraw_owed,
                 neverclosed, rootless, partial, mirserver, pipe, resizes>>

\* Mutant: the surface is given back with its swaps still to come.
GiveUpSurface_Async(s) ==
  /\ mir' = [mir EXCEPT ![s] = "free"]
  /\ UNCHANGED <<shell_size, event_due, alloc_size, buffer_size, swaps,
                 unheard, neverclosed>>

\* The surface of an unmapped window is given back, and with it its swaps:
\* mir_window_release_sync returns when Mir has no more to say about it.
\* With -neverclose it is kept and, if its buffer is in memory, cleared to
\* black and submitted, without a callback.
GiveUpSurface(s) ==
  /\ UNCHANGED <<shell_size, alloc_size, buffer_size>>
  /\ IF NeverClose
       THEN /\ neverclosed' = s
            /\ swaps' = IF Software
                          THEN [swaps EXCEPT ![s] = Append(@, NoWindow)]
                          ELSE swaps
            /\ UNCHANGED <<mir, event_due, unheard>>
       ELSE /\ swaps' = [swaps EXCEPT ![s] = <<>>]
            /\ event_due' = event_due \ {s}
            /\ unheard' = unheard \ {s}
            /\ mir' = [mir EXCEPT ![s] = "free"]
            /\ UNCHANGED neverclosed

\* xmir_unrealize_window, up to the drain of the pipe.  (The root window is
\* never unmapped, only destroyed when the server resets.)
UnmapSurface(w) ==
  /\ pc = "dispatch" /\ surface[w] # NoSurface /\ rootless
  /\ damage' = [damage EXCEPT ![w] = FALSE]
  /\ damage_window_list' = damage_window_list \ {w}
  /\ redraw_owed' = redraw_owed \ {w}
  /\ partial' = partial \ {w}
  /\ GiveUpSurface(surface[w])
  /\ surface' = [surface EXCEPT ![w] = NoSurface]
  /\ pc' = "unmap"
  /\ subject' = w
  /\ UNCHANGED <<created, has_free_buffer, surface_size, buf_size,
                 window_size, rootless, pipe, resizes>>

\* One turn of the drain in xmir_unmap_surface: messages for the window that
\* is going are dropped, the others are handled here and now.
ProcessFromEventloopExcept ==
  /\ pc = "unmap" /\ pipe # <<>>
  /\ pipe' = Tail(pipe)
  /\ IF Head(pipe).win = subject
       THEN UNCHANGED <<xserver, mirserver>>
       ELSE Callback(Head(pipe))
  /\ UNCHANGED <<pc, subject, resizes>>

\* Mutant: the pipe is not drained.
UnmapDone_Undrained ==
  /\ pc = "unmap"
  /\ pc' = "dispatch"
  /\ subject' = NoWindow
  /\ UNCHANGED <<xserver, mirserver, pipe, resizes>>

UnmapDone ==
  /\ pc = "unmap" /\ pipe = <<>>
  /\ pc' = "dispatch"
  /\ subject' = NoWindow
  /\ UNCHANGED <<xserver, mirserver, pipe, resizes>>

\* dix unmaps a window before it destroys it, so there is no surface left.
DestroyWindow(w) ==
  /\ pc = "dispatch" /\ w \in created /\ surface[w] = NoSurface
  /\ created' = created \ {w}
  /\ UNCHANGED <<surface, damage, damage_window_list, has_free_buffer,
                 surface_size, buf_size, window_size, redraw_owed,
                 neverclosed, rootless, partial, mirserver, pipe, pc,
                 subject, resizes>>

-----------------------------------------------------------------------------
(* Mir: its thread, which posts, and the shell *)

\* The buffer submitted first comes off the screen and Mir hands out the
\* next one; xmir_handle_buffer_received posts.
HandleBufferReceived(s) ==
  /\ swaps[s] # <<>>
  /\ swaps' = [swaps EXCEPT ![s] = Tail(@)]
  /\ buffer_size' = [buffer_size EXCEPT ![s] = alloc_size[s]]
  /\ IF Head(swaps[s]) = NoWindow
       THEN UNCHANGED pipe
       ELSE xmir_post_to_eventloop(BufferMsg(Head(swaps[s])))
  /\ UNCHANGED <<xserver, mir, shell_size, event_due, alloc_size, unheard,
                 pc, subject, resizes>>

ShellResize(s, z) ==
  /\ mir[s] = "live" /\ z # shell_size[s] /\ resizes < MaxResizes
  /\ shell_size' = [shell_size EXCEPT ![s] = z]
  /\ event_due' = event_due \cup {s}
  /\ resizes' = resizes + 1
  /\ UNCHANGED <<xserver, mir, alloc_size, buffer_size, swaps, unheard,
                 pipe, pc, subject>>

\* Mir's thread calls the event handler of the surface, which posts.  A
\* surface without a handler - its window is being realized, or it is kept
\* with no window - gets the event, and nobody hears of it.
SurfaceHandleEvent(s) ==
  /\ mir[s] = "live" /\ s \in event_due
  /\ event_due' = event_due \ {s}
  /\ \/ \E w \in Windows :
          /\ surface[w] = s /\ damage[w]
          /\ xmir_post_to_eventloop(ResizeMsg(w, shell_size[s]))
          /\ unheard' = unheard \ {s}
     \/ /\ \A w \in Windows : surface[w] = s => ~damage[w]
        /\ unheard' = unheard \cup {s}
        /\ UNCHANGED pipe
  /\ UNCHANGED <<xserver, mir, shell_size, alloc_size, buffer_size, swaps,
                 pc, subject, resizes>>

ReallocateBuffers(s) ==
  /\ mir[s] = "live" /\ alloc_size[s] # shell_size[s]
  /\ alloc_size' = [alloc_size EXCEPT ![s] = shell_size[s]]
  /\ UNCHANGED <<xserver, mir, shell_size, event_due, buffer_size, swaps,
                 unheard, pipe, pc, subject, resizes>>

-----------------------------------------------------------------------------
\* What the main thread does by itself, without a client.
MainLoop ==
  \/ \E w \in Windows : BlockRepaint(w)
  \/ BlockDone
  \/ WakeupPipe
  \/ ProcessFromEventloop
  \/ DrainDone
  \/ ProcessFromEventloopExcept
  \/ UnmapDone
  \/ RealizeDone

ClientRequest ==
  \/ WakeupClient
  \/ \E w \in Windows :
       \/ Draw(w)
       \/ \E z \in Sizes : ResizeWindow(w, z)
       \/ \E s \in Surfaces, z \in Sizes : RealizeNew(w, s, z)
       \/ \E s \in Surfaces : RealizeInvalid(w, s)
       \/ RealizeNeverclosed(w)
       \/ UnmapSurface(w)
       \/ DestroyWindow(w)

Mir ==
  \E s \in Surfaces :
    \/ HandleBufferReceived(s)
    \/ \E z \in Sizes : ShellResize(s, z)
    \/ SurfaceHandleEvent(s)
    \/ ReallocateBuffers(s)

Next == MainLoop \/ Yield \/ ClientRequest \/ Mir

\* The main thread runs; a time slice ends; Mir returns buffers, tells sizes
\* and reallocates; a client draws a window it saw resized, which is the only
\* reason for which select is sure to return for a client.
Fairness ==
  /\ WF_vars(MainLoop)
  /\ SF_vars(Yield)
  /\ WF_vars(redraw_owed # {} /\ WakeupClient)
  /\ \A w \in Windows : SF_vars(w \in redraw_owed /\ Draw(w))
  /\ \A s \in Surfaces : /\ WF_vars(HandleBufferReceived(s))
                         /\ WF_vars(SurfaceHandleEvent(s))
                         /\ WF_vars(ReallocateBuffers(s))

Spec == Init /\ [][Next]_vars /\ Fairness

-----------------------------------------------------------------------------
(* Properties *)

\* Every variable has its type: the fields of struct xmir_window and struct
\* xmir_screen, Mir's side of each surface, and the messages of the pipe.
TypeOK ==
  /\ created \subseteq Windows
  /\ surface \in [Windows -> Surfaces \cup {NoSurface}]
  /\ damage \in [Windows -> BOOLEAN]
  /\ damage_window_list \subseteq Windows
  /\ has_free_buffer \in [Windows -> BOOLEAN]
  /\ surface_size \in [Windows -> Sizes]
  /\ buf_size \in [Windows -> Sizes]
  /\ window_size \in [Windows -> Sizes]
  /\ redraw_owed \subseteq Windows
  /\ neverclosed \in Surfaces \cup {NoSurface}
  /\ rootless \in BOOLEAN /\ (NeverClose => rootless)
  /\ partial \subseteq Windows
  /\ mir \in [Surfaces -> {"free", "live", "invalid"}]
  /\ shell_size \in [Surfaces -> Sizes]
  /\ event_due \subseteq Surfaces
  /\ alloc_size \in [Surfaces -> Sizes]
  /\ buffer_size \in [Surfaces -> Sizes]
  /\ swaps \in [Surfaces -> Seq(Windows \cup {NoWindow})]
  /\ unheard \subseteq Surfaces
  /\ pipe \in Seq(Message)
  /\ pc \in {"dispatch", "block", "select", "drain", "unmap", "realize"}
  /\ subject \in Windows \cup {NoWindow}
  /\ resizes \in 0 .. MaxResizes

Absent(x, seq) == \A i \in DOMAIN seq : seq[i] # x
Once(x, seq) == \E i \in DOMAIN seq :
                  seq[i] = x /\ \A j \in DOMAIN seq : seq[j] = x => j = i

\* The surfaces and the windows agree on who owns what: no two windows share
\* a surface, a window tracks damage exactly while its surface is valid, but
\* for the one being realized, and no swap is left on a surface that is not
\* shown by a window.
SurfacesOwned ==
  /\ \A v, w \in Windows :
       surface[v] = surface[w] /\ surface[v] # NoSurface => v = w
  /\ \A w \in Windows :
       /\ damage[w] => surface[w] # NoSurface
       /\ surface[w] # NoSurface =>
            /\ w \in created
            /\ mir[surface[w]] = IF damage[w] \/ (pc = "realize" /\ subject = w)
                                   THEN "live" ELSE "invalid"
  /\ \A s \in Surfaces :
       swaps[s] # <<>> => \E w \in Windows : damage[w] /\ surface[w] = s
  /\ \A w \in damage_window_list : damage[w]

\* There is one buffer token per window on a valid surface: it is the flag
\* has_free_buffer, or a swap in flight that names the window, or one
\* buffer-available message in the pipe, and never two of these.  Two tokens
\* would submit a buffer the client does not hold, which xmir_repaint calls
\* an error; none would leave the window frozen for good.
OneBuffer ==
  \A w \in Windows : damage[w] =>
    \/ /\ has_free_buffer[w]
       /\ swaps[surface[w]] = <<>> /\ Absent(BufferMsg(w), pipe)
    \/ /\ ~has_free_buffer[w]
       /\ swaps[surface[w]] = <<w>> /\ Absent(BufferMsg(w), pipe)
    \/ /\ ~has_free_buffer[w]
       /\ swaps[surface[w]] = <<>> /\ Once(BufferMsg(w), pipe)

\* A damaged window without a buffer waits for something: a swap in flight or
\* a message in the pipe will set its flag again.  (With -neverclose this is
\* all that is left of OneBuffer.)
NeverFrozen ==
  \A w \in damage_window_list : ~has_free_buffer[w] =>
    ~Absent(w, swaps[surface[w]]) \/ ~Absent(BufferMsg(w), pipe)

\* A surface has at most one buffer submitted at a time, since the client
\* holds one at a time: xmir_repaint reports "requested without a buffer to
\* paint to" as an error.
PaintsOnlyOwnBuffers == \A s \in Surfaces : Len(swaps[s]) <= 1

\* No message outlives the surface it is about: but for the unmap that is
\* draining the pipe right now, every message names a window that is on a
\* valid surface (so never one that has been destroyed, whose WindowPtr the
\* callbacks would follow).
NoStaleMessage ==
  \A i \in DOMAIN pipe : \/ damage[pipe[i].win] /\ pipe[i].win \in created
                         \/ pc = "unmap" /\ pipe[i].win = subject

\* The main thread sleeps in select on a damaged window only while Mir has
\* that window's buffer, so that the buffer's return will wake it: the block
\* handler's test and the flag it reads lose no wake-up.
SleepsOnlyForMir ==
  pc = "select" /\ pipe = <<>> =>
    \A w \in damage_window_list : swaps[surface[w]] = <<w>>

\* A frame that did not fit its buffer, painted while X lagged behind a
\* resize, is followed by one that does, unless the window goes.
FramesBecomeWhole == \A w \in Windows : w \in partial ~> w \notin partial

\* With a single resize, by the shell or a client, the sizes compared in
\* xmir_handle_buffer_available are enough for that.
OneResizeBecomesWhole == [](resizes <= 1) => FramesBecomeWhole

\* When a window stays and the resizes are over, the X window, what xmir
\* noted of the surface and of its buffer, and the shell agree on the size,
\* unless Mir told the last size before the window had its event handler.
Settled(w) ==
  /\ damage[w]
  /\ window_size[w] = shell_size[surface[w]]
  /\ surface_size[w] = shell_size[surface[w]]
  /\ buf_size[w] = shell_size[surface[w]]

SizesSettle ==
  \A w \in Windows :
    <>[](damage[w] /\ surface[w] \notin unheard) => <>[]Settled(w)

\* When nothing is left to do for a window - it is not damaged, its client
\* owes no drawing, no swap or message is under way and Mir has no size to
\* announce - its sizes agree already: the comparisons of
\* xmir_handle_buffer_available and the damage of the resize event never give
\* up while X and Mir differ, however the resizes and the buffers cross.  (A
\* size that was told while xmir_realize_window waited for Mir, before it set
\* the handler, is noted by nobody.)
QuietIsSettled ==
  pipe = <<>> =>
    \A w \in Windows :
      /\ damage[w] /\ w \notin damage_window_list \cup redraw_owed
      /\ swaps[surface[w]] = <<>> /\ surface[w] \notin event_due
      => Settled(w) \/ surface[w] \in unheard

\* Unless clients keep it busy, the server comes to rest: the repaints that a
\* size mismatch causes do not go on for ever.  (They do when the event that
\* told the size was not heard: surface_width stays wrong.)
ComesToRest ==
  \/ <>[](pc = "select" /\ pipe = <<>>)
  \/ []<><<ClientRequest>>_vars
  \/ <>[](unheard # {})

\* The loop implements the exchange of frames it promises.
FX == INSTANCE FrameExchange WITH
        shown <- {w \in Windows : damage[w]},
        dirty <- damage_window_list,
        out <- [w \in Windows |->
                  IF damage[w] THEN Len(swaps[surface[w]]) ELSE 0]

FrameExchangeSpec == FX!Spec
FrameExchangeSafety == FX!Init /\ [][FX!Next]_(FX!vars)
=============================================================================
