# Xmir in TLA+

Xmir is an X server that draws into windows of the Mir display server. This
directory holds TLA+ modules of the part of it that is its own, under
`src/hw/xmir`, with as much of the X server around it as decides whether that part is right:
how windows, Mir surfaces, damage and buffers go together; how the
server's main thread works with Mir's thread and with its own EGL thread; the swaps of
DRI2 clients; the power of the outputs and the screen saver; and input. TLC checks the modules on
small instances, and TLAPS proves the main safety properties for every value
of the constants.

## 1. The system

### Threads and how they meet

| Actor | Code | What it does |
|---|---|---|
| main thread | `src/dix/dispatch.c`, `src/os/WaitFor.c`, most of `src/hw/xmir` | runs requests of X clients for a time slice; then block handler, `select`, wakeup handler |
| Mir's thread | Mir's client library (not in `src`) | calls `xmir_handle_buffer_received` and `xmir_surface_handle_event`, which only post to the pipe |
| swap thread | `xmir_glamor_flip` in `xmir-glamor.c` | with asynchronous EGL (`-egl`): takes windows off `swap_list`, swaps them, posts to the pipe |

The pipe of `xmir-thread-proxy.c` carries `{callback, screen, window, arg}`
records to the main thread. Its read end does not block and is drained until it is
empty by the wakeup handler, and, without regard to the loop, in the middle of a
request by `xmir_unmap_surface`, which drops the messages for the window that is
going and runs all others. Its write end blocks when the pipe is full.

### Components

| Component | State | Operations | What is hard | What makes it correct |
|---|---|---|---|---|
| Frame loop (`xmir.c`) | `surface`, `damage`, `has_free_buffer`, surface, buffer and window sizes of `struct xmir_window`; `damage_window_list`, `neverclosed` of `struct xmir_screen` | realize, unrealize, destroy, resize, `xmir_repaint`, `xmir_swap`, `xmir_handle_buffer_available`, block handler | the flag, the swap in flight and the message are seen at different times by different threads; sizes arrive by two ways in any order | one buffer token per window; no message for a dead window; no lost wake-up; sizes converge; every damaged window is painted |
| Thread proxy (`xmir-thread-proxy.c`) | the pipe | post, drain, drain except one window | full pipe; callbacks run inside unmap | order kept, nothing stale |
| Surface events (`xmir-input.c`) | noted surface size, `focus_window`, `touch_id` | post an event, handle resize, orientation, key, pointer and touch events | an event is handled long after it was sent, some in the middle of an unmap, and its effect on the devices comes later still | sizes consistent with the window; what is down is what Mir says; focus on a window that is there |
| Input queue and devices (`mi/mieq.c`, `Xi/exevents.c`) | event queue; buttons and keys that are down | queue, process | queue and device state are two views of one thing at different times | order kept |
| GL copy and swap thread (`xmir-glamor.c`) | `swap_list` and its links, `mutex`, `cond`, `alive`, `image`, `egl_surface`, `region` | queue a frame, swap it, unrealize, shut down | mutex, condition variable and unlocked flags | list stays a list; no lost wake-up; nothing freed in use; the thread ends |
| Outputs (`xmir-output.c`) | outputs, modes, orientation, display configuration, DPMS | resize, rotate, hotplug, DPMS | a configuration is replaced while others look at it | screen size and root window agree; power mode is what was asked |
| Screen saver (`dix/window.c`, `os/WaitFor.c`, `Xext/saver.c`, `Xext/dpms.c`) | level, times, `screenIsSaved`, the saver window, the timer | requests, timer, input | two mechanisms share the outputs and one timer | no display left dark; input wakes it; an idle one blanks |
| DRI2 (`xmir-dri2.c`, `hw/xfree86/dri2/dri2.c`, `dix/dixutils.c`) | `flip`, `back_pixmap`, `front_pixmap`, swap limit, pending swaps | create and reuse buffers, schedule and complete swaps | a client waits for a completion that depends on a buffer of another window | every swap completes once; none of the `FatalError`s is reachable |
| Flattening and focus (`xmir.c`) | `flattened_list`, `flatten_top`, `last_focus` | flatten, bequeath a surface, focus | a surface changes its owner with swaps in flight | one top owner, no window without a way to a surface |
| Cursor (`xmir-cursor.c`) | one cached stream per cursor | set a cursor | stale stream | stream has the cursor's size |
| Mode lines (`xmir-cvt.c`) | none | CVT computation | floating point | - |
| dix, mi, extensions, rendering, the other servers | inherited X.Org code | - | - | not specific to Xmir |

The hazards of this code, each at its line and with the property that covers it,
are listed in `PROJECT.json`.

## 2. Modules

| Module | Models |
|---|---|
| `XmirFrame` | frame loop, thread proxy, main loop and Mir, in the software and DRI modes, with `-rootless`, `-neverclose` and a single root window |
| `FrameExchange` | abstract: what the frame loop promises of each window |
| `MCXmirFrame` | symmetry and a bound for TLC |
| `XmirFrameProofs` | inductive invariant of `XmirFrame` and its theorems |
| `XmirFrameRefinement` | `XmirFrame` implements the safety part of `FrameExchange` |
| `XmirFrameSizes` | the sizes of `XmirFrame` agree when nothing is left to do |
| `XmirSwapThread` | main thread, swap thread and Mir's thread in the asynchronous EGL mode |
| `XmirSwapThreadProofs` | its types, mutex and signals, and the condition under which `swap_list` stays a list |
| `Dri2Swap` | DRI2 buffers and swaps of `dri2.c` and `xmir-dri2.c`, the sleep and work queues of dix, and the completion of swaps by paint and unmap |
| `SwapExchange` | abstract: what the DRI2 swaps promise the clients that render |
| `MCDri2Swap` | windows, and the bound on spoiled ones, for TLC |
| `Dri2SwapProofs` | inductive invariant of `Dri2Swap`, about windows that are not spoiled, and its theorems |
| `Dri2SwapRefinement` | `Dri2Swap` implements the safety part of `SwapExchange` |
| `XmirDpms` | power of the outputs, screen savers and their timer |
| `MCXmirDpms` | times for TLC |
| `XmirDpmsProofs` | what each function does to the state, and the theorems |
| `XmirInput` | keys, buttons, motion and touch from Mir's thread to the state of the X devices |
| `MCXmirInput` | symmetry and a bound for TLC |
| `XmirInputProofs` | the last word of Mir on its way to the devices, and the theorems |

How they meet: `XmirFrame` shows that a surface's buffer is one token (`OneBuffer`), and
`Dri2Swap` starts from that (its variable `buffer`). The pipe with its drain, in the wakeup handler and inside an unmap, is in `XmirFrame`,
`XmirSwapThread` and `XmirInput`, each with the messages whose handlers it models: these touch different
state, except that an unmap removes the messages of all kinds, and each module has that.
The main loop is the same in all: requests, block handler, `select`, wakeup handler.

### XmirFrame

A window is its `struct xmir_window`; a variable of the model is the field of the
same name, as a function of the window. `rootless` is chosen at the start among `RootlessModes`. Three things are added: `created` (the
window has not been destroyed), `redraw_owed` (the X client has seen a resize and
not drawn yet) and `partial` (the last frame did not fit its buffer, computed in
`xmir_sw_copy`, which clips); the last two are history that liveness speaks of. So is
`unheard`, of surfaces whose last event met no handler.

`pc` is the place of the main thread: `dispatch` (requests of clients), `block` (the loop
of `xmir_block_handler`), `select`, `drain` (`xmir_wakeup_handler`), `unmap`
(the drain inside `xmir_unmap_surface`) and `realize` (`xmir_realize_window` between
`mir_window_get_id` and `mir_window_set_event_handler`, in which it waits for Mir and the new surface
has no handler). `subject` is the window that is unmapped or realized. An action is one turn of a loop or one
request, whole: `BlockRepaint` is `xmir_repaint` with the copy, the swap and the
removal from the list; `ProcessFromEventloop` reads one message and runs its
callback. Requests are not interleaved with one another, since they all run on the main thread,
but Mir acts between any two steps.

Mir is external and modelled from how the code uses it: each surface has a queue
of submitted buffers (`swaps`, holding the contexts of the callbacks), the size of the
buffer at hand, the size of the buffers to come and the size the shell wants.
Event and reallocation after a resize are separate steps, so that either may be first.
`mir_window_release_sync` ends what is pending on the surface.
A released surface may be handed out again, which stands for reuse of memory.

Left out of it: title changes, focus, the flatten mode, `-windowed` and DPMS.
The DRI mode differs from the software mode here only in `xmir_clear_to_black`;
`complete_flips`, which it also calls, is in `Dri2Swap`.
`xmir_output_handle_resize` appears by its effect on the root window's size and damage.

### XmirSwapThread

`next` and `prev` are the real links of `swap_list`, since what goes wrong
there goes wrong in them. `tpc` is the place of the swap thread; a step of it is what it does
between two points where another thread can matter: lock, test, wait, wake,
relock, take, swap, post. `pthread_cond_wait` may wake by itself. The main thread has the steps
of `XmirFrame` with the queueing of `xmir_glamor_copy_egl_queue` split into
lock, add, unlock; signal; and the emptying of the region. Sizes, which
`XmirFrame` has, are left out; rotations, which it has not, are in.

`has_free_buffer` is not a variable: `xmir_glamor_copy_egl_queue` clears it, but its
caller `xmir_repaint` sets it again for both EGL modes (`xmir.c:561`), and
no test of it comes between. Three waits or guards that rely on it are thus never taken.

`relinked` is history: a window has been queued that was still linked.

An unmap that meets a linked entry ends in `crashed`: `complete_flips` follows
pointers of `swap_list` as if they were children, which is undefined, and nothing is
said of what comes after. The freeing of windows is not in the module.

### Dri2Swap

A window's DRI2 drawable is a reference count by client (`refs`), and its record exists while that is not
empty: the fields of `DRI2DrawableRec` (`swapsPending`, `swap_limit`, `target_sbc`, `blocked`)
start afresh with the first reference, and what xmir holds (`flip`, `linked`, `back_pixmap`) does not,
as in the code. A client asks for a buffer (`ProcDRI2GetBuffers`), swaps (`ProcDRI2SwapBuffers`) and
waits for a swap count (`ProcDRI2WaitSBC`). One that is throttled goes to the sleep queue, its request is kept
in `request`, and it repeats it after `workQueue` has run, which happens before the block handler (`Yield`).
`DRI2SwapComplete` is one operator with everything it calls: SBC wake-ups, the raised swap limit and
its wake-ups, and the counting of sleepers that were signalled already.

`blocked` and `swapsPending` are unsigned in the code and integers here, so that going below zero is
seen as what it is. A `FatalError` ends in the phase `fatal`.

Clients render as they please: several to one window, to windows that cannot be seen, to a child of the root that fills it
(`FullSize`, whose swaps are flips of the root window's buffer). `spoiled` is history: the windows where that has happened in a way
that the code does not provide for, so that `flip` may hold another swap than the one that `dri2.c` counts. These are a window
to which a client comes while another has a drawable of it, or has left a swap in its `flip`, or renders to the window
that it shares its buffers with (`Contested`), and a window that is mapped with a swap in `flip` that had not been scheduled
(`MapTop`). Nothing else spoils one.

A client that waits for an SBC does so for the swaps that are pending (`target_sbc` 0) or for one so many completions ahead
(`Targets`); `target_sbc` is here the distance to `swap_count`, which no test of the code tells apart from the difference.

Taken from how the code's users behave: the GL library swaps only a buffer that it got since the last
flip; a client that closes down does not return.

Left out: MSC waits and their timers, authentication, pixmaps as drawables, PRIME, sizes, the swap of a child that lies wholly outside its top window,
an X drawing between GetBuffers and SwapBuffers.

### XmirDpms

The functions involved call each other five deep, and each changes part of a global state. That state is one
record, and a function of the code an operator from record to record of the same name, so that
`dixSaveScreens` in the model calls what it calls in the source, in the order of the source. A request,
an input event, an expiry of the timer or a hotplug is one action. Time is in ticks; `idle`, the
time since the last input, stops counting at `MaxTime`. `display` is the power mode
in the configuration xmir holds and compares with, `mir` the one Mir has: a hotplug
(`MirPowersOn`, `xmir_update_config`) makes them differ for a while.

`forced` is a ghost: see section 5. `attended` becomes FALSE when the user leaves, which liveness needs.

Left out: tiled savers, notification events, the saver's colormap, changes of the number of outputs (the code ends the server).

### XmirInput

An input is a button, a key, or the button of the fake touch pointer. Mir's thread posts what happens to it
(`told`, `fingers`: external). The main thread takes a message (`HandleKey`, `HandlePointer`, `HandleTouch`), which puts presses and
releases in `queue`, or drops it (`DropMessage`, during the unmap of its window); `ProcessInputEvent` takes them out and changes `down`.
`pc` is where the main thread is; `request` is the
rest of a request that unmapped a window and may unmap another.

A touch event names the points on the surface with what each does. With `touch_id` none the code takes the first
point of the event, whichever that is and whatever it does (`Followed`), and an event without points makes it forget the finger.

An event of several buttons pressed at once is one element of `queue` here, for their order does not
matter to anything. `unheard` is history: inputs on which Mir's last word cannot have been heard (section 5).
Motion is no event in the queue: mi merges it, and only its effect on `focus_window` is here.

Left out: coordinates and their conversion, valuators and scrolling, key maps, X input focus, grabs and delivery, master devices.
The queue of mi has 512 places that grow; it does not overflow here.

## 3. Runs

`tlc -config <run>.cfg <module>`; the module is `MCXmirFrame` for `frame_*`,
`XmirSwapThread` for `swap_*`, `MCDri2Swap`, `MCXmirDpms` and `MCXmirInput` for the others.

| Run | Instance | Shows |
|---|---|---|
| `frame_windows` | 2 windows, 2 surfaces, 2 sizes, pipe of 2, 2 resizes, symmetry | `TypeOK`, `SurfacesOwned`, `OneBuffer`, `NoStaleMessage`, `SleepsOnlyForMir`, `QuietIsSettled` |
| `frame_sizes` | 1 window, of `-rootless` or the root window, 2 sizes, pipe of 3, 3 resizes | liveness: `SizesSettle`, `ComesToRest`, `OneResizeBecomesWhole`; `FrameExchange` implemented, with its fairness |
| `frame_neverclose_wakes` | `-neverclose`, 2 windows, 1 surface, 1 resize | `NeverFrozen`: what is left of `OneBuffer` in that mode |
| `frame_two_resizes` | 1 window, 2 resizes | **violated**: `FramesBecomeWhole` |
| `frame_neverclose` | `-neverclose`, 1 window | **violated**: `PaintsOnlyOwnBuffers` |
| `swap_frames` | 2 windows, each drawn or turned twice, pipe of 2 | `TypeOK`, `ListKept`, `MutexOwned`, `NoLostSignal`; liveness `FramesSwapped`, `MainGetsMutex` |
| `swap_twice` | 1 window, 2 drawings or turns | **violated**: `ListIntact` |
| `swap_image` | 1 window, 2 drawings or turns | **violated**: `ImageOutlivesSwap` |
| `swap_fini` | 1 window, mapped and unmapped, never drawn | **violated**: `ServerTerminates` |
| `dri2_swaps` | 2 clients, a top-level window and its child, SBC waits for what is pending or two ahead | `TypeOK`, `PendingIsQueued`, `QueuedOnSurface`, `NoFatalError`, `SleepersCounted`; liveness `SwapsComplete`, `ClientsWake`; `SwapExchange` implemented, with its fairness |
| `dpms_idle` | 1 output, times up to 2 ticks, with and without `-rootless` | `TypeOK`, `NeverLeftDark`, `TimerArmed`, `SavedWhileOff`; steps `InputLights`, `TimerNeverLights`; liveness `IdleBlanks` |
| `input_events` | 2 windows, 1 button, 1 key, 2 fingers, pipe of 2, queue of 2 | `TypeOK`, `FocusShown`, `FollowsMir`, `TouchReleased` |

Bounds and why they are enough:

* *Windows and surfaces.* Two of each: windows meet only in the pipe, in the drain that
  one window's unmap runs for another's messages, and in the surface one gives up
  and the other gets. A third adds no new pair; the proofs need no bound.
* *Pipe.* Two messages make writers wait, and leave a message of either
  kind, or of either window, in front of another.
* *Sizes and `MaxResizes`.* Two sizes tell equal from unequal, which is all the code
  asks. Three resizes take a window there, back and there again, with each size announced
  before or after its buffer.
* *`SwapsBound`* (at most three swaps on a surface) is a state constraint of
  `frame_neverclose_wakes` alone, where each unmap adds a swap.
* *`MaxInputs`* counts drawings and rotations of a window in `XmirSwapThread`. Two of each of two windows reach
  what goes wrong there, a second frame of a queued window (`swap_twice`) and the full pipe, and everything that
  must not go wrong before. After a window has been queued twice nothing is promised (`relinked`).
* *`PipeCapacity` in `swap_frames`.* Two messages, events and frames of two windows together, fill the pipe while the swap thread
  posts with the mutex locked (`xmir-glamor.c:542`). The kernel's pipe holds some two thousand.

* *`dri2_swaps`.* Two clients meet in the work queue, in the list of a top window's children, in
  the painting of a top that completes both, and on one window. `Targets` are "all that is pending" and two ahead, which is
  one more than can be pending.
* *`SpoiledBound`* is a state constraint: TLC goes on after the child has been spoiled, as long as no client leaves and its counters do
  not go below zero, and checks that the top window keeps its promises; it stops when the top
  window is spoiled, and after a `FatalError`. Liveness is checked of the behaviours that stay within it. The proofs have no such bound.
* *`dpms_idle`.* One output: outputs are only ever compared and set all together, and the proofs are for any number.
  Two ticks put one DPMS time or saver time before another and leave a level without one.
* *`input_events`.* `MaxQueue` and `MaxTraffic` are a state constraint: two events in the queue, one before another, and three together with the
  messages of the pipe, so that what is queued and what is to come meet. Two fingers are
  one that is followed and one that is not; two windows are one that goes and one that gets the events.

`CHECK_DEADLOCK FALSE` stands in the `swap_*` configurations because there the
server does stop: it closes, or it crashes; and in `dpms_idle`, where nothing may be left to happen once the
user has gone and no time is set. The others check deadlock.

### Fairness

`XmirFrame`: the main thread takes its steps (`WF`); a time slice ends even if
requests come without end (`SF` on `Yield`, from the smart scheduler of
`dispatch.c`); Mir gives submitted buffers back, sends events and reallocates
(`WF` per surface). The X client of a window that was resized draws it, and
`select` returns for it; this is the only thing expected of clients, and only
`SizesSettle`, `ComesToRest` and the two about whole frames can profit from it. Nothing is assumed
of other requests or of the shell, nor that a window is ever unmapped.

`XmirSwapThread`: both threads run; the main thread gets a mutex that becomes free again
and again (`SF` on `Queue`: threads waiting for a mutex are served);
clients, Mir and spurious wake-ups owe nothing.

`Dri2Swap`: the main loop runs (`WF`), a time slice ends (`SF` on `Yield`), Mir gives buffers back (`WF` per
surface). A woken client's request is repeated by the server itself, as part of `Yield`'s work; clients owe nothing.

`XmirDpms`: time passes and the timer expires when it is due (`WF` on `Tick \/ Expire`).

`XmirInput` has safety only, without fairness.

## 4. What is proved

Everything from the named `ASSUME`s of the modules, for any number of windows, surfaces, clients, outputs, buttons, keys and
fingers, any time and any capacity of the pipe.

Every invariant and every action property that a passing run checks is the property of a theorem, and the
two refinements that runs check are proved for their safety part.

### The frame loop

Without `-neverclose` the argument is one inductive invariant,

    IInv == TypeOK /\ SurfacesOwned /\ OneBuffer /\ NoStaleMessage /\ Control

* `OneBuffer` is the heart: has_free_buffer, the swap in flight and the buffer-available
  message of a window are one token that is always in exactly one place. It is
  not inductive by itself.
* A swap must end up at the window that shows the surface, and a new owner must find
  the surface without swaps: `SurfacesOwned`.
* A window mapped again must find no message of its previous life in the pipe, which
  would be a second token: `NoStaleMessage`, kept by the drain.
* `Control` says what the places of the main thread stand for: in `unmap` the window
  going has lost its damage (so no message is added for it during the drain), in
  `select` no damaged window has a free buffer, and without `-neverclose` no
  surface is kept.

`IInvStep` has one case per action; those that move a token (repaint, buffer received, buffer
available, realize, unmap) have a lemma each, the others fall under `QuietKeeps`
and `ReadKeeps`. `TypeOK` is kept under `SurfacesOwned` (`TypeStep`).

With `-neverclose` most of that is false: the swaps of a surface outlive its window, and an unmap submits one more.
A weaker invariant holds with every option,

    KeptInv == TypeOK /\ LiveTracked /\ AllWait

A surface that tracks damage is live (`LiveTracked`), and a window whose flag is down has a swap in flight or a message in
the pipe, however many of them there are (`AllWait`). `NeverFrozen` follows, and `TypeOK` with it, so that these
two theorems need no hypothesis.

Sizes (`XmirFrameSizes`) have an invariant on top of `IInv`,

    SInv == IInv /\ Fitting

While something is left to do the sizes may differ in any way; `Fitting` says for each difference what will remove it, for the
windows that are shown and the one that is being realized (`Held`). The
size the shell wants is noted, or an event of it is due, or the newest resize message of the pipe tells it
(`Announced`). A free buffer of another size than the surface has belongs to a window that is damaged or will be by the
resize message (`BufferFits`), and a window of another size than its free buffer is damaged or owed a drawing (`WindowFits`).
With nothing left to do only equality remains, which is `QuietIsSettled`. That there comes a time with nothing
left to do is liveness (`SizesSettle`, `ComesToRest`). Surfaces that are `unheard` are excepted throughout (section 5).

| Theorem | States |
|---|---|
| `TypeCorrect` | `[]TypeOK`, with every option |
| `SurfacesStayOwned` | `[]SurfacesOwned` |
| `OneBufferAlways` | `[]OneBuffer` |
| `MessagesStayFresh` | `[]NoStaleMessage` |
| `SleepsSoundly` | `[]SleepsOnlyForMir` |
| `PaintsStaySafe` | `[]PaintsOnlyOwnBuffers`, which fails with `-neverclose` (`frame_neverclose`) |
| `NeverFreezes` | `[]NeverFrozen`, with every option |
| `QuietStaysSettled` | `[]QuietIsSettled` |
| `FramesExchanged` | `Spec => FrameExchangeSafety`: every step of the loop is a step of `FrameExchange` or a stutter |

The refinement maps `shown` to the windows that track damage, `dirty` to
`damage_window_list` and `out` to the number of buffers submitted on the window's surface; it is
a refinement because `OneBuffer` makes that number 0 or 1. All theorems but the two so marked are for
`~NeverClose`, which they need: with the constants of `frame_neverclose_wakes` TLC finds `SurfacesOwned`, `OneBuffer`, `NoStaleMessage`,
`SleepsOnlyForMir` and `QuietIsSettled` violated.

### The swap thread and its list

`TypeCorrect` (`[]TypeOK`) holds however often windows are drawn; the places of the two threads
say when `target` and `current` are windows. So do the next two.
`MutexStaysOwned` (`[]MutexOwned`) says who has the mutex, with what
`alive` tells of the end of the server added to make it inductive: a thread that ends with the mutex locked has seen `alive < 0`, and the main
thread does not lock it after it has written that.
`SignalsArrive` (`[]NoLostSignal`) needs nothing added: test and wait are one step of the thread, the main thread signals after every addition, and
while it has yet to signal it does nothing else. `ListStaysIntact` (`[]ListKept`) is the other
side of the run `swap_twice`, and has no hypothesis either: the list is intact until a window is queued that is still linked. `AddKeepsList` shows that a node that is not linked may be
prepended, `DelKeepsList` that any may be deleted. So a second frame of a queued window is the only thing that breaks the list.

### DRI2 swaps

The theorems are for whatever clients do: any number of them renders to any window, hidden or not, with any SBC to
wait for. They speak of every window that is not `spoiled`, whatever has happened to the others; section 5 says what spoils a window and
what fails there. The invariant has two halves,

    IInv == Queues /\ Sleeps

* `Queues` ties what `dri2.c` counts to what xmir holds: a swap in `flip` on a surface is exactly a pending one, on a damaged surface.
  It needs three things that say why the window is not spoiled. At most one client has a drawable of it, and none has while another's swap is in `flip` (`RefsOwned`,
  `FlipOwned`); the `swap_limit` of 1 throttles that client (`FlipThrottles`), so that no `FatalError` is near; and
  windows with the same buffers are not rendered to together (`Apart`).
* `Sleeps` ties the sleepers to the counters by which a completion decides whether to signal anyone (`BlockedCounts`).

Theorems `TypeCorrect`, `SwapsAccounted` (`PendingIsQueued`), `SwapsQueued` (`QueuedOnSurface`),
`ServerSurvives` (`NoFatalError`: a `FatalError` needs a spoiled window), `NoLostWakeup` (`SleepersCounted`), each `Spec => []...`.

`SwapsExchanged` (in `Dri2SwapRefinement`): every step is one of `SwapExchange` or a stutter. `pending` is
what `flip` holds for windows that can be seen, `asleep` the sleepers that have not been signalled yet, `ahead` those of them that
wait for an SBC which no pending swap reaches, and `void` the windows that are spoiled, or all after a `FatalError`. A paint or
an unmap is one `Complete` of all windows whose swaps it ends, the run of the work queue is invisible, and what spoils a
window is `Forfeit` of that window alone.
It rests on both halves of the invariant: `Queues` makes what completes a swap that is pending, and `Sleeps` makes
the counters let the completion signal every sleeper of it.

### Outputs and screen saver

A lemma for each function of the code says how the state it leaves relates to the one it found, and
cites those of the functions it calls. The invariant, `Sound`, says that the timer is as it should be, that power off
means saved, and that xmir's configuration and Mir differ only where Mir has turned an output on.
Theorems: `TypeCorrect`, `NoneLeftDark`, `TimerRuns`, `OffIsSaved`, and for steps `InputIsEnough`
(`InputLights`) and `TimerOnlyDarkens` (`TimerNeverLights`).

### Input

A word of Mir on a button or a key is in the pipe, then in the queue, then in `down`. The invariant
(`Words` in `IInv == TypeOK /\ FocusShown /\ Control /\ Words`) says of each of the three that, if nothing later is before it,
its last word is what Mir has told; `FollowsMir` is that statement with pipe and queue empty. Theorems
`TypeCorrect`, `FocusStaysShown`, `MirIsFollowed`. The hardest case is a drain that handles a button against a
processed state that is behind, where `unheard` says which buttons are lost.

`TouchIsReleased` (`[]TouchReleased`) has an invariant of its own beside that, `Touching == FollowedIsDown /\ Gestures`. `FollowedIsDown`: the
last event of the fake touch pointer in the queue, or `down` if there is none, says whether `touch_id` names a finger.
`Gestures`: the touch messages in the pipe are a chain, each starting with the fingers the one before left, from
those `touch_id` is known to be one of to those on a surface now; a link may be broken only by messages of the
window being unmapped, which are dropped and make the pointer `unheard`, or by an event without points.

### Only model-checked

All liveness, since the prover handles neither fairness nor `ENABLED`: `SizesSettle`, `ComesToRest`, `OneResizeBecomesWhole`,
`FramesSwapped`, `MainGetsMutex`, `SwapsComplete`, `ClientsWake`, `IdleBlanks`, and the fairness of `FrameExchange` and
`SwapExchange` in `FrameExchangeSpec` and `SwapExchangeSpec`. Their safety cores are proved: `NoStaleMessage`, `SleepsOnlyForMir` and
`QuietIsSettled` for the first three, `NoLostSignal` and `MutexOwned` for the swap thread, `SleepersCounted` and
`QueuedOnSurface` for the clients, `TimerArmed` for the saver.

## 5. What the violated runs say, and the exceptions

* `frame_two_resizes`: no size remembered by the server tells at which size the last
  frame was painted. Resize there and back, and a frame painted for the other size
  stays until the client draws again. One resize is safe (`OneResizeBecomesWhole`).
* `unheard` (in `frame_windows` and `frame_sizes`): a new surface has no event handler until `xmir_realize_window` has waited once more for Mir
  (`xmir.c:882-905`, with the call in 887). A resize that the shell sends in between is lost. `surface_width` is then wrong
  until the next resize, and if the buffers are of the other size `xserver_lagging` (594) stays true and each frame damages the window for
  the next one. `QuietIsSettled`, `SizesSettle` and `ComesToRest` except such a surface, until it gets an event that is handled.
* `frame_neverclose`: `xmir_clear_to_black` submits the surface's buffer without asking who
  has it, and the next realize claims a free one. With the run `frame_neverclose_wakes`: this
  never leaves a window waiting for nothing.
* `swap_twice`, `swap_image`: in the asynchronous EGL mode `has_free_buffer` is always set, so that a window is
  queued twice (its entry then points to itself and the swap thread does not leave
  its loop) and its image is destroyed during the swap. The same flag lets
  `xmir_glamor_unrealize_window` skip the removal from the list: action `Unmap` and
  its `crashed`. A window unmapped between the thread's `xorg_list_del` and
  its post gets a message after the drain.
* `Deadlocked` (in `swap_frames`): the swap thread posts with the mutex locked (`xmir-glamor.c:542`). When the pipe is full and
  the main thread, its only reader, waits for the mutex to queue a frame, neither ever goes on. `FramesSwapped` and `MainGetsMutex` except this
  state, and TLC shows that there is no other in which they fail before a window is queued twice.
* `swap_fini`: `alive` is written and the signal sent without the mutex. A thread between its
  test and its wait misses both; one that is just starting overwrites `alive`; one
  that starts late exits with the mutex locked.

In the same state space, without a run of its own: after its first frame in an EGL
mode a window's `region` is empty, so that `xmir_output_handle_resize` damages
nothing when it "damages" the window for a rotation by half a turn (`xmir-output.c:318-320`).

In `Dri2Swap`, what spoils a window, and what then goes wrong in its own state space:

* A second client that renders to it. The throttle is in the drawable's record, which goes with
  its last client (`dri2.c:450`), and the swap in `flip` stays. The second client gets a fresh record, is not
  throttled, and its second `DRI2GetBuffers` ends the server with "Returned before swapping?" (`xmir-dri2.c:129`). With both there at
  once, `dri2WakeAll` counts a sleeper twice who has been signalled and not taken off the queue yet, and one who
  waits for an SBC but is not the one who swapped may never be woken.
* A swap of a hidden window: `xmir_dri2_schedule_swap` writes `flip` before it finds that there is no surface
  (`xmir-dri2.c:463`). `dri2.c:1181` takes the swap back, but when the window is shown, its paint completes the swap, and
  `swapsPending` goes below zero.
* A child that fills the root window, without `-rootless`: it and the root share the flip of one top, and the same `FatalError` is within reach.
  The run has `-rootless`; for this one set `Rootless = FALSE` and `FullSize = {k}`.

And on any window: a client that waits for an explicit SBC beyond the swaps that are pending sleeps (`dri2.c:1288-1304`), and as it is the one
that would have to swap, for ever. `ClientsWake` and `SleepersCounted` except it (`Ahead`), until the count is so near that a pending swap reaches it.

In `XmirDpms`, where properties make an exception, and in its state space:

* `forced`: `ForceLevel(Off)`, `ForceScreenSaver(Reset)`, an expiry of the timer, then `DPMSDisable` or
  `ForceLevel(On)`. The screen is then not saved, with no timer until the next input, since the callback found the
  level `Off` and returned 0 (`WaitFor.c:598`), and nothing that follows sets it. `TimerArmed` and `SavedWhileOff` except it.
* A client whose saver prefers not to blank goes while DPMS has the power off: the outputs are lit, at level `Off`.
* An output connected while the rest is off is turned on by Mir and stays lit; the held configuration says it is off.
* A root window resized while the outputs are off: `xmir_output_dpms` does nothing from then on.
* Times such as standby 3, suspend 0, off 1, which `SetTimeouts` accepts: Off comes late, at 3.
* `ScreenSaverUnsetAttributes` frees the attributes but, unlike the loss of its client, does not go through `ScreenSaverFreeAttr`.

In `XmirInput`, the inputs that `unheard` excepts:

* A message dropped by an unmap: the release of a key is lost with the window, and the key is down until it is pressed again.
* `pointer_handle_button` compares with `button->down`, which changes only when the queue is processed. A press and
  a release read in one drain queue the press alone (the release finds the button up), so that the button stays down until the next event of any button, and the next
  press is not queued either. The wakeup handler drains the whole pipe, and a request that unmaps may drain
  more before the queue is processed.
* A finger on a surface that is unmapped: the fake touch pointer stays pressed until the next touch.
* A touch event without points: `touch_id` is forgotten without a release (`xmir-input.c:432-435`), and the pointer
  stays pressed until a finger comes down or goes up again.

An event queued under one `focus_window` is processed under whatever the rest of the drain has made it.

## 6. Not modelled

* Drawing (`xmir_glamor_copy_*`, glamor, fb, render): computation on pixels without
  state that the above depends on.
* `xmir-cvt.c`: floating-point formulas.
* Synchronous calls to Mir against a full pipe: whether `mir_window_release_sync` can
  wait for a thread that waits for the pipe depends on which of Mir's threads calls
  back, which is not in `src`. `GiveUpSurface` takes it to return. The same goes for `mir_create_window_sync` and the call for the
  window's id in `xmir_realize_window`.
* Flattened windows (`xmir_realize_window` with `-flatten`, `xmir_bequeath_surface`). Both call `ReparentWindow`, which
  unmaps and maps the very window they work on (`dix/window.c:2513`) and so enters `xmir_unrealize_window` and
  `xmir_realize_window` again in the middle of themselves, through the wrappers of Composite. A model of one without the dix functions it
  runs through would claim an order of steps that is not the code's.
* Cursors: which surface is configured with a cursor's stream depends on the calls that mi's sprite code merges. A
  focus that moves between windows with the same cursor does not configure the new surface.
* Coordinates (`pointer_convert_xy`): scaling and reflection of one point; a reflected coordinate is one past the edge for
  input at 0, and dix clips it to the screen.
* dix, mi, extensions and the other servers: inherited, and present only by
  the calls Xmir makes and, for the screen saver, DRI2 and the input queue, by the functions those reach. They are
  most of the repository: of its 540,000 lines of implementation, `src/hw/xmir` is about 1%, so that the share of all lines that any
  model of Xmir maps is small.

## 7. Plan

Done:

1. `XmirFrame`, `FrameExchange`, their proofs, with `-neverclose` and the sizes, and the refinement.
2. `XmirSwapThread`; its types, mutex, signals and list proved.
3. `Dri2Swap`, `SwapExchange`, its safety and the refinement, with any clients, for windows that are not spoiled.
4. `XmirDpms` and its proofs.
5. `XmirInput` and its proofs.

Left, in this order:

1. What the abstract exchanges promise, proved of them alone: invariants of `FrameExchange` and `SwapExchange` that the refinements then carry over.
2. A throttle for `Dri2Swap` that outlives the drawable's record, under which no window is ever spoiled.
3. MSC waits of `dri2.c` with their deferred completions.
4. The composition of the frame loop with rotation (`xmir-output.c`), with coordinates as functions over small screens against the inverse of the rotation.
