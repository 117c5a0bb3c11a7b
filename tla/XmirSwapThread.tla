---------------------------- MODULE XmirSwapThread ---------------------------
(***************************************************************************)
(* The asynchronous EGL mode (-egl): the X server's main thread queues the *)
(* windows it has painted on swap_list, and the thread of xmir_glamor_flip *)
(* takes them off, waits for the GPU, swaps their EGL buffers and posts    *)
(* "buffer available".  A mutex guards the list, a condition variable wakes*)
(* the thread, and the pipe, which Mir's thread writes to as well, brings  *)
(* the messages back.                                                      *)
(*                                                                         *)
(* The windows are those of a -rootless server and keep their sizes here   *)
(* (XmirFrame models sizes).  has_free_buffer is no variable: xmir_repaint *)
(* sets it again right after xmir_glamor_copy_egl_queue has cleared it, so *)
(* no test of it in this mode ever finds it clear, and the waits for it in *)
(* xmir_output_handle_resize and xmir_glamor_unrealize_window never happen.*)
(***************************************************************************)
EXTENDS Integers, Sequences

CONSTANTS
  Windows,        \* X windows that get a Mir surface when they are realized
  NoWindow,       \* the NULL window
  ListHead,       \* the head of swap_list
  PipeCapacity,   \* messages the pipe holds before a writer blocks
  MaxInputs       \* bound: drawings and rotations of a window

ASSUME WindowsAssumption ==
         /\ Windows # {} /\ ListHead # NoWindow
         /\ NoWindow \notin Windows /\ ListHead \notin Windows
ASSUME BoundsAssumption == PipeCapacity \in Nat \ {0} /\ MaxInputs \in Nat

Nodes == Windows \cup {ListHead}

VARIABLES
  shown,      \* windows on a surface: damage # NULL, egl_surface valid
  damaged,    \* xmir_screen->damage_window_list
  region,     \* windows whose xmir_window->region is not empty
  image,      \* xmir_window->image: NULL, an image, or one destroyed
  mpc,        \* where the main thread is
  target,     \* the window the main thread is copying
  resume,     \* where it goes on after that
  unmapping,  \* the window whose unmap is draining the pipe
  inputs      \* how often a window was drawn or rotated, up to MaxInputs

mainthread == <<shown, damaged, region, image, mpc, target, resume,
                unmapping, inputs>>

VARIABLES
  tpc,        \* where the swap thread is
  current     \* the window it is swapping

VARIABLES
  next, prev, \* the links of swap_list and of each xmir_window->flip.entry
  locked,     \* the swap thread holds xmir_screen->mutex
  alive,      \* xmir_screen->alive
  pipe        \* messages posted and not yet read

VARIABLE
  relinked    \* history: a window was queued that was still on swap_list

vars == <<mainthread, tpc, current, next, prev, locked, alive, pipe, relinked>>

BufferMsg(w) == [cb |-> "buffer_available", win |-> w]
OrientationMsg(w, turn) == [cb |-> "orientation", win |-> w, turn |-> turn]

Turns == {"half", "quarter"}
Message == [cb : {"buffer_available"}, win : Windows]
             \cup [cb : {"orientation"}, win : Windows, turn : Turns]

Init ==
  /\ shown = {} /\ damaged = {} /\ region = {}
  /\ image = [w \in Windows |-> "none"]
  /\ mpc = "block" /\ target = NoWindow /\ resume = "block"
  /\ unmapping = NoWindow
  /\ inputs = [w \in Windows |-> 0]
  /\ tpc = "start" /\ current = NoWindow
  /\ next = [n \in Nodes |-> n] /\ prev = [n \in Nodes |-> n]
  /\ locked = FALSE
  /\ alive = 0
  /\ pipe = <<>>
  /\ relinked = FALSE

-----------------------------------------------------------------------------
(* include/list.h *)

\* Mutant: the old first entry is not linked back.
xorg_list_add_NoBackLink(w) ==
  /\ next' = [next EXCEPT ![w] = next[ListHead], ![ListHead] = w]
  /\ prev' = [prev EXCEPT ![w] = ListHead]

\* Prepend w, link by link; w may be linked already.
xorg_list_add(w) ==
  LET first == next[ListHead]
      linked == [prev EXCEPT ![first] = w]
  IN  /\ next' = [[next EXCEPT ![w] = first] EXCEPT ![ListHead] = w]
      /\ prev' = [linked EXCEPT ![w] = ListHead]

xorg_list_del(w) ==
  LET before == prev[w]
      after == next[w]
  IN  /\ prev' = [[prev EXCEPT ![after] = before] EXCEPT ![w] = w]
      /\ next' = [[next EXCEPT ![before] = after] EXCEPT ![w] = w]

Empty == next[ListHead] = ListHead

Linked(w) == next[w] # w

-----------------------------------------------------------------------------
(* The main thread *)

\* xmir_repaint, up to the lock in xmir_glamor_copy_egl_queue.
StartCopy(w, back) ==
  /\ damaged' = damaged \ {w}
  /\ image' = [image EXCEPT ![w] = IF @ = "none" THEN "live" ELSE @]
  /\ target' = w
  /\ resume' = back
  /\ mpc' = "lock"

BlockRepaint(w) ==
  /\ mpc = "block"
  /\ w \in damaged
  /\ StartCopy(w, "block")
  /\ UNCHANGED <<shown, region, unmapping, inputs, tpc, current, next, prev,
                 locked, alive, pipe, relinked>>

\* Lock, add, unlock.
Queue ==
  /\ mpc = "lock" /\ ~locked
  /\ xorg_list_add(target)
  /\ relinked' = (relinked \/ Linked(target))
  /\ mpc' = "signal"
  /\ UNCHANGED <<shown, damaged, region, image, target, resume, unmapping,
                 inputs, tpc, current, locked, alive, pipe>>

\* pthread_cond_signal wakes the thread if it waits at this moment.
Wake == tpc' = IF tpc = "waiting" THEN "relock" ELSE tpc

Signal ==
  /\ mpc = "signal"
  /\ Wake
  /\ mpc' = "empty"
  /\ UNCHANGED <<shown, damaged, region, image, target, resume, unmapping,
                 inputs, current, next, prev, locked, alive, pipe, relinked>>

\* The region copied is the window's own: RegionEmpty(dirty) empties it.
EmptyRegion ==
  /\ mpc = "empty"
  /\ region' = region \ {target}
  /\ target' = NoWindow
  /\ mpc' = resume
  /\ UNCHANGED <<shown, damaged, image, resume, unmapping, inputs, tpc,
                 current, next, prev, locked, alive, pipe, relinked>>

\* A step of the main thread that only moves on.
Goto(from, to) ==
  /\ mpc = from
  /\ mpc' = to
  /\ UNCHANGED <<shown, damaged, region, image, target, resume, inputs, tpc,
                 current, next, prev, locked, alive, pipe, relinked>>

BlockDone == damaged = {} /\ Goto("block", "select") /\ UNCHANGED unmapping

WakeupPipe == pipe # <<>> /\ Goto("select", "drain") /\ UNCHANGED unmapping

WakeupClient == pipe = <<>> /\ Goto("select", "dispatch") /\ UNCHANGED unmapping

DrainDone ==
  pipe = <<>> /\ Goto("drain", "dispatch") /\ unmapping' = NoWindow

Yield == Goto("dispatch", "block") /\ UNCHANGED unmapping

\* The next message of the drain, unless it is for the window that is going.
Receive(m) ==
  /\ mpc = "drain" /\ pipe # <<>>
  /\ m = Head(pipe)
  /\ pipe' = Tail(pipe)

DropMessage ==
  /\ \E m \in Message : Receive(m) /\ m.win = unmapping
  /\ UNCHANGED <<mainthread, tpc, current, next, prev, locked, alive,
                 relinked>>

\* Paint at once what was damaged in the meantime.  A window that is not
\* shown any more has no damage and nothing to paint.
HandleBufferAvailable(w) ==
  /\ w # unmapping /\ Receive(BufferMsg(w))
  /\ IF w \in damaged THEN StartCopy(w, "drain")
                      ELSE UNCHANGED <<damaged, image, target, resume, mpc>>
  /\ UNCHANGED <<shown, region, unmapping, inputs, tpc, current, next, prev,
                 locked, alive, relinked>>

\* The image has not the shape of the turned window: destroy it.
DropImage(w) == image' = [image EXCEPT ![w] = "none"]

\* By half a turn the window keeps its shape and is damaged, by its region.
HandleOrientation(w, turn) ==
  /\ w # unmapping /\ Receive(OrientationMsg(w, turn))
  /\ \/ /\ turn = "half"
        /\ damaged' = IF w \in region THEN damaged \cup {w} ELSE damaged
        /\ UNCHANGED image
     \/ turn = "quarter" /\ DropImage(w) /\ UNCHANGED damaged
  /\ UNCHANGED <<shown, region, mpc, target, resume, unmapping, inputs, tpc,
                 current, next, prev, locked, alive, relinked>>

Draw(w) ==
  /\ mpc = "dispatch" /\ w \in shown /\ inputs[w] < MaxInputs
  /\ damaged' = damaged \cup {w}
  /\ inputs' = [inputs EXCEPT ![w] = @ + 1]
  /\ UNCHANGED <<shown, region, image, mpc, target, resume, unmapping, tpc,
                 current, next, prev, locked, alive, pipe, relinked>>

\* A window is realized with a new EGL surface, but with the image it had.
Realize(w) ==
  /\ mpc = "dispatch" /\ w \notin shown
  /\ shown' = shown \cup {w}
  /\ region' = region \cup {w}
  /\ UNCHANGED <<damaged, image, mpc, target, resume, unmapping, inputs, tpc,
                 current, next, prev, locked, alive, pipe, relinked>>

\* xmir_glamor_unrealize_window destroys the image and the EGL surface, and
\* complete_flips takes a window whose entry is linked for the head of a list
\* of children and follows the pointers of what comes after it.
Unmap(w) ==
  /\ mpc = "dispatch" /\ w \in shown
  /\ shown' = shown \ {w}
  /\ damaged' = damaged \ {w}
  /\ image' = [image EXCEPT ![w] = IF @ = "none" THEN "none" ELSE "dead"]
  /\ region' = region \ {w}
  /\ IF Linked(w) THEN mpc' = "crashed" /\ UNCHANGED unmapping
                  ELSE mpc' = "drain" /\ unmapping' = w
  /\ UNCHANGED <<target, resume, inputs, tpc, current, next, prev, locked,
                 alive, pipe, relinked>>

\* xmir_glamor_fini, when the last window is gone; alive is written without
\* the mutex.
Fini ==
  /\ mpc = "dispatch" /\ shown = {}
  /\ alive' = -1
  /\ mpc' = "finisignal"
  /\ UNCHANGED <<shown, damaged, region, image, target, resume, unmapping,
                 inputs, tpc, current, next, prev, locked, pipe, relinked>>

FiniSignal ==
  /\ mpc = "finisignal"
  /\ Wake
  /\ mpc' = "join"
  /\ UNCHANGED <<shown, damaged, region, image, target, resume, unmapping,
                 inputs, current, next, prev, locked, alive, pipe, relinked>>

Join == tpc = "ended" /\ Goto("join", "closed") /\ UNCHANGED unmapping

-----------------------------------------------------------------------------
(* The swap thread, xmir_glamor_flip *)

Running == mpc # "crashed"

\* Lock the mutex and look at alive; pthread_exit does not unlock it.
ThreadStart ==
  /\ Running /\ tpc = "start" /\ ~locked
  /\ locked' = TRUE
  /\ tpc' = IF alive < 0 THEN "ended" ELSE "starting"
  /\ UNCHANGED <<mainthread, current, next, prev, alive, pipe, relinked>>

SetAlive ==
  /\ Running /\ tpc = "starting"
  /\ alive' = 1
  /\ tpc' = "loop"
  /\ UNCHANGED <<mainthread, current, next, prev, locked, pipe, relinked>>

WhileAlive ==
  /\ Running /\ tpc = "loop"
  /\ IF alive >= 0 THEN tpc' = "test" /\ UNCHANGED locked
                   ELSE tpc' = "ended" /\ locked' = FALSE
  /\ UNCHANGED <<mainthread, current, next, prev, alive, pipe, relinked>>

\* Mutants: the thread waits whatever the list, or without the unlock.
CondWait_Untested ==
  /\ Running /\ tpc = "test"
  /\ tpc' = "waiting" /\ locked' = FALSE
  /\ UNCHANGED <<mainthread, current, next, prev, alive, pipe, relinked>>
CondWait_Locked ==
  /\ Running /\ tpc = "test"
  /\ tpc' = IF Empty THEN "waiting" ELSE "list"
  /\ UNCHANGED <<mainthread, current, next, prev, locked, alive, pipe,
                 relinked>>

CondWait ==
  /\ Running /\ tpc = "test"
  /\ IF Empty THEN tpc' = "waiting" /\ locked' = FALSE
              ELSE tpc' = "list" /\ UNCHANGED locked
  /\ UNCHANGED <<mainthread, current, next, prev, alive, pipe, relinked>>

\* POSIX lets a wait end without a signal.
SpuriousWakeup ==
  /\ Running /\ tpc = "waiting"
  /\ tpc' = "relock"
  /\ UNCHANGED <<mainthread, current, next, prev, locked, alive, pipe,
                 relinked>>

Relock ==
  /\ Running /\ tpc = "relock" /\ ~locked
  /\ locked' = TRUE
  /\ tpc' = "list"
  /\ UNCHANGED <<mainthread, current, next, prev, alive, pipe, relinked>>

\* Mutant: the list is not tested after the wait.
Take_Untested ==
  /\ Running /\ tpc = "list"
  /\ current' = next[ListHead] /\ tpc' = "swap"
  /\ UNCHANGED <<mainthread, next, prev, locked, alive, pipe, relinked>>

Take ==
  /\ Running /\ tpc = "list"
  /\ IF Empty THEN tpc' = "loop" /\ UNCHANGED current
              ELSE current' = next[ListHead] /\ tpc' = "swap"
  /\ UNCHANGED <<mainthread, next, prev, locked, alive, pipe, relinked>>

\* eglSwapBuffers returns; the entry is deleted only now.
Swap ==
  /\ Running /\ tpc = "swap"
  /\ xorg_list_del(current)
  /\ tpc' = "post"
  /\ UNCHANGED <<mainthread, current, locked, alive, pipe, relinked>>

\* The pipe's writer waits while it is full, here with the mutex locked.
Post ==
  /\ Running /\ tpc = "post"
  /\ Len(pipe) < PipeCapacity
  /\ pipe' = Append(pipe, BufferMsg(current))
  /\ current' = NoWindow
  /\ tpc' = "list"
  /\ UNCHANGED <<mainthread, next, prev, locked, alive, relinked>>

-----------------------------------------------------------------------------
\* Mir's thread posts an event: the shell has turned the window.
PostOrientation(w, turn) ==
  /\ Running /\ w \in shown /\ inputs[w] < MaxInputs
  /\ Len(pipe) < PipeCapacity
  /\ pipe' = Append(pipe, OrientationMsg(w, turn))
  /\ inputs' = [inputs EXCEPT ![w] = @ + 1]
  /\ UNCHANGED <<shown, damaged, region, image, mpc, target, resume, unmapping,
                 tpc, current, next, prev, locked, alive, relinked>>

MainLoop ==
  \/ \E w \in Windows : \/ BlockRepaint(w)
                        \/ HandleBufferAvailable(w)
                        \/ \E turn \in Turns : HandleOrientation(w, turn)
  \/ Signal \/ EmptyRegion
  \/ BlockDone \/ WakeupPipe \/ DropMessage \/ DrainDone
  \/ FiniSignal \/ Join

ClientRequest ==
  \/ WakeupClient \/ Fini
  \/ \E w \in Windows : Draw(w) \/ Realize(w) \/ Unmap(w)

SwapThread ==
  \/ ThreadStart \/ SetAlive \/ WhileAlive \/ CondWait \/ Relock
  \/ Take \/ Swap \/ Post

MirThread == \E w \in Windows, turn \in Turns : PostOrientation(w, turn)

Next ==
  MainLoop \/ Queue \/ Yield \/ ClientRequest \/ SwapThread
    \/ SpuriousWakeup \/ MirThread

\* Both threads run, the main thread gets a mutex that is free again and
\* again, and a time slice ends.  Clients, Mir and stray wake-ups owe nothing.
Fairness == /\ WF_vars(MainLoop)
            /\ SF_vars(Queue)
            /\ SF_vars(Yield)
            /\ WF_vars(SwapThread)

Spec == Init /\ [][Next]_vars /\ Fairness

-----------------------------------------------------------------------------
(* Properties *)

\* Every variable has its type; the swap thread handles windows, never the
\* head of the list.
TypeOK ==
  /\ shown \subseteq Windows /\ damaged \subseteq shown
  /\ region \subseteq shown
  /\ image \in [Windows -> {"none", "live", "dead"}]
  /\ mpc \in {"block", "lock", "signal", "empty", "select", "drain",
              "dispatch", "finisignal", "join", "closed", "crashed"}
  /\ target \in Windows \cup {NoWindow} /\ resume \in {"block", "drain"}
  /\ unmapping \in Windows \cup {NoWindow}
  /\ inputs \in [Windows -> 0 .. MaxInputs]
  /\ tpc \in {"start", "starting", "loop", "test", "waiting", "relock",
              "list", "swap", "post", "ended"}
  /\ current \in Windows \cup {NoWindow}
  /\ next \in [Nodes -> Nodes] /\ prev \in [Nodes -> Nodes]
  /\ locked \in BOOLEAN
  /\ alive \in {-1, 0, 1}
  /\ pipe \in Seq(Message)
  /\ relinked \in BOOLEAN

\* swap_list is a doubly linked list, as include/list.h asks of its callers:
\* what is prepended is new to it.  An entry linked twice points to itself and
\* keeps the swap thread in its loop, with the mutex, for good.
ListIntact == \A n \in Nodes : prev[next[n]] = n /\ next[prev[n]] = n

\* swap_list is one for as long as no window is queued that is still on it.
ListKept == relinked \/ ListIntact

\* Each thread waits for the other: the swap thread for room in the pipe, with
\* the mutex locked, the main thread, which alone reads the pipe, for the mutex.
Deadlocked == tpc = "post" /\ Len(pipe) = PipeCapacity /\ mpc = "lock"

\* A queued frame is swapped: the condition variable loses no wake-up, for all
\* that the signal comes after the unlock.
FramesSwapped ==
  \A w \in Windows : Linked(w) ~> \/ ~Linked(w) \/ ~Running
                                  \/ relinked \/ Deadlocked

\* The swap thread sleeps on a list with an entry only while the main thread,
\* which has unlocked the mutex, has yet to signal: the test of the list and the
\* wait are one step under the mutex, so no entry comes in between, and no
\* signal for it is given before the thread waits.
NoLostSignal == tpc = "waiting" /\ ~Empty => mpc = "signal"

\* The mutex is locked exactly while the swap thread is at work: nobody sleeps,
\* waits or ends with it.  The exception is the thread that finds on its start
\* that the server ends, which exits without the unlock; the main thread is
\* past its last use of the mutex then.
MutexOwned ==
  /\ tpc \in {"starting", "loop", "test", "list", "swap", "post"} => locked
  /\ locked /\ tpc \in {"start", "waiting", "relock", "ended"} =>
       tpc = "ended" /\ mpc \in {"finisignal", "join", "closed"}

\* The main thread gets the mutex of the swap list, while other messages fill
\* the pipe, but for two cases: the loop over an entry linked twice, and a pipe
\* that is full when the thread posts with the mutex locked.  In no other way
\* do the threads wait for one another.
MainGetsMutex == mpc = "lock" ~> mpc # "lock" \/ relinked \/ Deadlocked

\* The image of a window outlives the swap of its frame.
ImageOutlivesSwap == tpc = "swap" => image[current] = "live"

\* The server terminates once it has begun to: the swap thread is joined.
ServerTerminates == mpc = "finisignal" ~> mpc = "closed"
=============================================================================
