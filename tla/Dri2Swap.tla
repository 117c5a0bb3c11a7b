------------------------------- MODULE Dri2Swap -------------------------------
(***************************************************************************)
(* Buffer swaps of direct-rendering clients (DRI2): how dri2.c throttles   *)
(* and wakes clients, how xmir-dri2.c queues a swap on the window with the *)
(* surface, and how complete_flips ends it when that window is painted.    *)
(*                                                                         *)
(* A client gets a back buffer, renders, and asks for a swap.  One that    *)
(* asks for more while its swap is pending is put to sleep, and is woken   *)
(* through the work queue of dix, which runs before the block handler.     *)
(*                                                                         *)
(* The frame loop is that of XmirFrame, with each window's buffer as the   *)
(* single token that XmirFrame's OneBuffer shows it to be.  The type of a  *)
(* swap's completion, pixels and pixmaps are left out, but for whether the *)
(* back buffer and back_pixmap are there.                                  *)
(***************************************************************************)
EXTENDS Integers, FiniteSets

CONSTANTS
  Clients,      \* X clients that render directly
  NoClient,     \* flip.client = NULL
  Tops,         \* windows that have a surface while they are mapped
  Children,     \* their descendants, which have none
  TopOf,        \* the window with the surface above a child
  Surfaceless,  \* tops that never get one: the root window of -rootless
  Rootless,     \* -rootless; otherwise the one top is the root window
  FullSize,     \* children of the root that fill it
  Targets       \* the SBCs clients wait for: how many completions ahead, or 0

Windows == Tops \cup Children

ASSUME ClientsAssumption == NoClient \notin Clients /\ IsFiniteSet(Clients)
ASSUME WindowsAssumption ==
         /\ Tops \cap Children = {} /\ TopOf \in [Children -> Tops \ Surfaceless]
         /\ Surfaceless \subseteq Tops
         /\ FullSize \subseteq Children
ASSUME OptionsAssumption ==
         /\ Rootless \in BOOLEAN /\ Targets \subseteq Nat
         /\ IF Rootless THEN FullSize = {} ELSE Surfaceless = {}

VARIABLES
  refs,          \* clients that have a DRI2 drawable for the window; while
                 \* there are none it has no DRI2DrawableRec
  buffers,       \* its back buffer: "none", "held" (driverPrivate set), or
                 \* "given" away by a flip
  swapsPending, swap_limit,
  target_sbc,    \* completions until the awaited one; NoTarget if none is
  blocked        \* pPriv->blocked: sleepers for a swap, sleepers for an SBC

dri2 == <<refs, buffers, swapsPending, swap_limit, target_sbc, blocked>>

VARIABLES
  sleep,         \* sleepQueue: what a client sleeps for
  workQueue,     \* clients that are to be woken
  request,       \* the request a client that slept will repeat
  gone           \* clients that have closed down

dix == <<sleep, workQueue, request, gone>>

VARIABLES
  flip,          \* xmir_window->flip.client
  linked,        \* children whose flip.entry is on the list of their top
  back_pixmap,   \* windows with xmir_window->back_pixmap
  realized,      \* children that are realized when their top is
  shown,         \* tops on a surface
  dirty,         \* xmir_screen->damage_window_list
  buffer,        \* a surface's buffer: "free", "out", or "back" in the pipe
  phase          \* where the main thread is; "fatal" after a FatalError

xmir == <<flip, linked, back_pixmap, realized, shown, dirty, buffer, phase>>

\* History, of which the code knows nothing: windows whose swaps may no longer
\* be told apart, since another client, or the same client through a window
\* with the same buffers, rendered there too, or since a swap that had not
\* been scheduled was still in flip when the window was shown.
VARIABLE spoiled

vars == <<dri2, dix, xmir, spoiled>>

NoTarget == -1
Awake == <<>>

Init ==
  /\ refs = [w \in Windows |-> {}]
  /\ buffers = [w \in Windows |-> "none"]
  /\ swapsPending = [w \in Windows |-> 0]
  /\ swap_limit = [w \in Windows |-> 1]
  /\ target_sbc = [w \in Windows |-> NoTarget]
  /\ blocked = [w \in Windows |-> [swap |-> 0, sbc |-> 0]]
  /\ sleep = [c \in Clients |-> Awake]
  /\ workQueue = {}
  /\ request = [c \in Clients |-> <<>>]
  /\ gone = {}
  /\ flip = [w \in Windows |-> NoClient]
  /\ linked = {}
  /\ back_pixmap = {}
  /\ realized = Children
  /\ shown = IF Rootless THEN {} ELSE Tops
  /\ dirty = {}
  /\ buffer = [t \in Tops |-> "free"]
  /\ phase = "dispatch"
  /\ spoiled = {}

Top(w) == IF w \in Tops THEN w ELSE TopOf[w]
Drawables == {w \in Windows : refs[w] # {}}

-----------------------------------------------------------------------------
(* Sleeping and waking *)

\* swapsPending is unsigned: one below zero exceeds every limit.
Exceeds(pending, limit) == pending < 0 \/ pending >= limit

Sleepers(w) == {c \in Clients : sleep[c] = <<"swap", w>>}

\* Mutant: off by one, the only sleeper is not signalled.
Signalled_OffByOne(w) == IF blocked[w].swap <= 1 THEN {} ELSE Sleepers(w)

\* dri2WakeAll(CLIENT_SIGNAL_ANY, pPriv, WAKE_SWAP): it signals no one when
\* the count is zero, and otherwise counts all who are still on the queue,
\* signalled before or not.
Signalled(w) == IF blocked[w].swap = 0 THEN {} ELSE Sleepers(w)
AfterWake(w, count) == IF count = 0 THEN 0 ELSE count - Cardinality(Sleepers(w))

\* Mutant: target_sbc < swap_count.
SbcWoken_Late(w, c) ==
  target_sbc[w] = 0 /\ blocked[w].sbc # 0 /\ sleep[c] = <<"sbc", w>>

\* A completion of c's swap ends c's wait for an SBC that is now reached.
SbcWoken(w, c) ==
  /\ target_sbc[w] \in {0, 1}
  /\ blocked[w].sbc # 0 /\ sleep[c] = <<"sbc", w>>

SbcAfter(w, c) ==
  IF SbcWoken(w, c) THEN NoTarget
  ELSE IF target_sbc[w] > 0 THEN target_sbc[w] - 1 ELSE target_sbc[w]

\* DRI2SwapComplete of swaps of windows D, which have a drawable: swap[w] is
\* the client, left[w] counts the sleepers for a swap that remain.
DRI2SwapComplete(D, swap, left) ==
  /\ target_sbc' = [w \in Windows |-> IF w \in D THEN SbcAfter(w, swap[w])
                                                 ELSE target_sbc[w]]
  /\ blocked' = [w \in Windows |->
       IF w \in D
         THEN [swap |-> left[w],
               sbc |-> IF SbcWoken(w, swap[w]) THEN blocked[w].sbc - 1
                                               ELSE blocked[w].sbc]
         ELSE blocked[w]]
  /\ workQueue' = workQueue \cup
       {c \in Clients : \E w \in D : \/ c \in Signalled(w)
                                     \/ c = swap[w] /\ SbcWoken(w, c)}

SignalledOnce(w) == AfterWake(w, blocked[w].swap)

\* DRI2SwapLimit(draw, 2) signals again, unless the swaps that are still
\* pending exceed the new limit.
SignalledTwice(w) ==
  IF Exceeds(swapsPending[w] - 1, 2) THEN SignalledOnce(w)
                                     ELSE AfterWake(w, SignalledOnce(w))

\* complete_flips for windows W, all with a client in flip; a swap whose
\* drawable is gone is forgotten.
complete_flips(W) ==
  LET D == W \cap Drawables IN
  /\ swapsPending' = [w \in Windows |-> IF w \in D THEN swapsPending[w] - 1
                                                   ELSE swapsPending[w]]
  /\ swap_limit' = [w \in Windows |-> IF w \in D THEN 2 ELSE swap_limit[w]]
  /\ DRI2SwapComplete(D, flip, [w \in D |-> SignalledTwice(w)])
  /\ flip' = [w \in Windows |-> IF w \in W THEN NoClient ELSE flip[w]]
  /\ linked' = linked \ W

\* Mutant: only the list is walked.
Queued_Children(t) == {w \in linked : TopOf[w] = t}

\* Mutant: only the swap of the window itself.
Queued_Own(t) == {w \in {t} : flip[w] # NoClient}

\* The swaps queued on a surface: that of its window and of its children.
Queued(t) == {w \in {t} : flip[w] # NoClient}
               \cup {w \in linked : TopOf[w] = t}

-----------------------------------------------------------------------------
(* Requests of the clients that render *)

Ready(c, r) ==
  /\ phase = "dispatch"
  /\ c \notin gone /\ sleep[c] = Awake /\ request[c] \in {<<>>, r}

\* Windows that take their back buffers from one pixmap.
SameBuffers(v, w) == \/ w \in FullSize /\ v = TopOf[w]
                     \/ v \in FullSize /\ w = TopOf[v]

\* Whoever else renders to w, or has left a swap there.
Contested(c, w) ==
  \/ refs[w] \ {c} # {} \/ flip[w] \notin {NoClient, c}
  \/ \E v \in Windows : SameBuffers(v, w) /\ (refs[v] # {} \/ flip[v] # NoClient)

ProcDRI2CreateDrawable(c, w) ==
  /\ Ready(c, <<>>) /\ request[c] = <<>> /\ c \notin refs[w]
  /\ refs' = [refs EXCEPT ![w] = @ \cup {c}]
  /\ IF w \in Drawables
       THEN UNCHANGED <<buffers, swapsPending, swap_limit, target_sbc, blocked>>
       ELSE /\ buffers' = [buffers EXCEPT ![w] = "none"]
            /\ swapsPending' = [swapsPending EXCEPT ![w] = 0]
            /\ swap_limit' = [swap_limit EXCEPT ![w] = 1]
            /\ target_sbc' = [target_sbc EXCEPT ![w] = NoTarget]
            /\ blocked' = [blocked EXCEPT ![w] = [swap |-> 0, sbc |-> 0]]
  /\ spoiled' = IF Contested(c, w) THEN spoiled \cup {w} ELSE spoiled
  /\ UNCHANGED <<dix, xmir>>

\* Mutant: one swap too many is let through.
Throttled_Late(w) == swapsPending[w] > swap_limit[w]

Throttled(w) == Exceeds(swapsPending[w], swap_limit[w])

\* Mutant: the sleeper is not counted.
Throttle_Uncounted(c, w, r) ==
  /\ Ready(c, r) /\ c \in refs[w] /\ Throttled(w)
  /\ sleep' = [sleep EXCEPT ![c] = <<"swap", w>>]
  /\ request' = [request EXCEPT ![c] = r]
  /\ UNCHANGED <<dri2, workQueue, gone, xmir, spoiled>>

\* DRI2ThrottleClient: sleep, to repeat the request when woken.
Throttle(c, w, r) ==
  /\ Ready(c, r) /\ c \in refs[w] /\ Throttled(w)
  /\ sleep' = [sleep EXCEPT ![c] = <<"swap", w>>]
  /\ blocked' = [blocked EXCEPT ![w].swap = @ + 1]
  /\ request' = [request EXCEPT ![c] = r]
  /\ UNCHANGED <<refs, buffers, swapsPending, swap_limit, target_sbc,
                 workQueue, gone, xmir, spoiled>>

\* A request that is not throttled is done, if it was a repeated one.
Proceed(c, w, r) ==
  /\ Ready(c, r) /\ c \in refs[w] /\ ~Throttled(w)
  /\ request' = [request EXCEPT ![c] = <<>>]
  /\ UNCHANGED <<refs, sleep, gone, realized, shown, buffer, spoiled>>

\* "Returned before swapping?": the window, or the window it takes its back
\* buffers from, already has one waiting.
ReturnedBeforeSwapping(w) ==
  \/ w \in back_pixmap
  \/ w \in FullSize /\ TopOf[w] \in back_pixmap

\* The back buffer is created, or the old one is given a new pixmap.
ProcDRI2GetBuffers(c, w) ==
  /\ Proceed(c, w, <<"get", w>>)
  /\ IF buffers[w] # "none" /\ ReturnedBeforeSwapping(w)
       THEN phase' = "fatal" /\ UNCHANGED buffers
       ELSE buffers' = [buffers EXCEPT ![w] = "held"] /\ UNCHANGED phase
  /\ UNCHANGED <<swapsPending, swap_limit, target_sbc, blocked, workQueue,
                 flip, linked, back_pixmap, dirty>>

\* Mutant: damage is kept for windows that are not realized.
Damaged_Hidden(w) == dirty \cup {Top(w)}

\* Mutant: the swap reports no damage.
Damaged_Not(w) == dirty

\* Damage to a window is damage to what its surface shows.
Damaged(w) == dirty \cup (shown \cap {Top(w)})

\* The swap of a window with a surface: its back buffer is to become the
\* next frame.  Damage is reported last, in the same step.
Flip(c, w) ==
  /\ w \in shown
  /\ IF w \in back_pixmap
       THEN phase' = "fatal" /\ UNCHANGED <<back_pixmap, buffers>>
       ELSE /\ back_pixmap' = back_pixmap \cup {w}
            /\ buffers' = [buffers EXCEPT ![w] = "given"]
            /\ UNCHANGED phase
  /\ flip' = [flip EXCEPT ![w] = c]
  /\ dirty' = Damaged(w)
  /\ swapsPending' = [swapsPending EXCEPT ![w] = @ + 1]
  /\ swap_limit' = [swap_limit EXCEPT ![w] = 1]
  /\ UNCHANGED <<target_sbc, blocked, workQueue, linked>>

\* Any other swap is copied at once, and its completion waits on the list of
\* the window with the surface.
Blit(c, w) ==
  /\ w \notin shown /\ Top(w) \in shown
  /\ IF w \in linked THEN phase' = "fatal" /\ UNCHANGED linked
                     ELSE linked' = linked \cup {w} /\ UNCHANGED phase
  /\ flip' = [flip EXCEPT ![w] = c]
  /\ dirty' = Damaged(w)
  /\ swapsPending' = [swapsPending EXCEPT ![w] = @ + 1]
  /\ swap_limit' = [swap_limit EXCEPT ![w] = 1]
  /\ UNCHANGED <<buffers, target_sbc, blocked, workQueue, back_pixmap>>

\* "Could not find mir surface for swapping!": the swap is not scheduled,
\* but flip keeps it.
NotScheduled(c, w) ==
  /\ Top(w) \notin shown
  /\ IF w \in linked THEN phase' = "fatal" ELSE UNCHANGED phase
  /\ flip' = [flip EXCEPT ![w] = c]
  /\ swap_limit' = [swap_limit EXCEPT ![w] = 2]
  /\ workQueue' = workQueue \cup Signalled(w)
  /\ blocked' = [blocked EXCEPT ![w].swap = AfterWake(w, @)]
  /\ UNCHANGED <<buffers, swapsPending, target_sbc, linked, back_pixmap,
                 dirty>>

\* A GL library swaps a back buffer it has got since the last flip.
ProcDRI2SwapBuffers(c, w) ==
  /\ Proceed(c, w, <<"swap", w>>)
  /\ buffers[w] = "held"
  /\ Flip(c, w) \/ Blit(c, w) \/ NotScheduled(c, w)

\* With a swap interval of 0 the buffer is copied and the swap complete.
SwapAtOnce(c, w) ==
  /\ Proceed(c, w, <<"swap", w>>)
  /\ buffers[w] = "held"
  /\ dirty' = Damaged(w)
  /\ DRI2SwapComplete({w}, [v \in {w} |-> c], [v \in {w} |-> SignalledOnce(v)])
  /\ UNCHANGED <<buffers, swapsPending, swap_limit, flip, linked, back_pixmap,
                 phase>>

\* DRI2WaitSBC, for an SBC that is n completions ahead, or with target_sbc 0
\* for all swaps that are pending; swapsPending below zero is an SBC far ahead.
\* One that is reached already gets its reply, one while another client waits
\* a BadDrawable.
ProcDRI2WaitSBC(c, w, n) ==
  /\ Ready(c, <<>>) /\ request[c] = <<>> /\ c \in refs[w]
  /\ target_sbc[w] = NoTarget
  /\ n > 0 \/ swapsPending[w] > 0
  /\ target_sbc' = [target_sbc EXCEPT ![w] = IF n > 0 THEN n ELSE swapsPending[w]]
  /\ sleep' = [sleep EXCEPT ![c] = <<"sbc", w>>]
  /\ blocked' = [blocked EXCEPT ![w].sbc = @ + 1]
  /\ UNCHANGED <<refs, buffers, swapsPending, swap_limit, workQueue, request,
                 gone, xmir, spoiled>>

\* A client closes down, asleep or not.  With the last reference the drawable
\* goes, on which no one else sleeps then; flip keeps a swap in flight.
ClientGone(c) ==
  /\ phase = "dispatch" /\ c \notin gone
  /\ gone' = gone \cup {c}
  /\ sleep' = [sleep EXCEPT ![c] = Awake]
  /\ request' = [request EXCEPT ![c] = <<>>]
  /\ refs' = [w \in Windows |-> refs[w] \ {c}]
  /\ workQueue' = workQueue \ {c}
  /\ UNCHANGED <<buffers, swapsPending, swap_limit, target_sbc, blocked, xmir,
                 spoiled>>

-----------------------------------------------------------------------------
(* Windows, whoever's request it is *)

Draw(t) ==
  /\ phase = "dispatch" /\ t \in shown
  /\ dirty' = dirty \cup {t}
  /\ UNCHANGED <<dri2, dix, flip, linked, back_pixmap, realized, shown, buffer,
                 phase, spoiled>>

\* What flip holds from the time before the window had its surface counts as
\* a swap on it from now on.
MapTop(t) ==
  /\ phase = "dispatch" /\ Rootless /\ t \notin shown \cup Surfaceless
  /\ shown' = shown \cup {t}
  /\ buffer' = [buffer EXCEPT ![t] = "free"]
  /\ spoiled' = spoiled \cup
       {w \in Windows : Top(w) = t /\ flip[w] # NoClient}
  /\ UNCHANGED <<dri2, dix, flip, linked, back_pixmap, realized, dirty, phase>>

\* xmir_glamor_unrealize_window completes what waits for the surface, of the
\* window and then of each realized child, and drops back_pixmap; the pipe is
\* drained before the request goes on.
UnmapTop(t) ==
  /\ phase = "dispatch" /\ Rootless /\ t \in shown
  /\ complete_flips(Queued(t) \cup
       {w \in realized : TopOf[w] = t /\ flip[w] # NoClient})
  /\ back_pixmap' = back_pixmap \ {t}
  /\ shown' = shown \ {t}
  /\ dirty' = dirty \ {t}
  /\ phase' = "drain"
  /\ UNCHANGED <<refs, buffers, sleep, request, gone, realized, buffer, spoiled>>

MapChild(k) ==
  /\ phase = "dispatch" /\ k \notin realized
  /\ realized' = realized \cup {k}
  /\ UNCHANGED <<dri2, dix, flip, linked, back_pixmap, shown, dirty, buffer,
                 phase, spoiled>>

UnmapChild(k) ==
  /\ phase = "dispatch" /\ k \in realized
  /\ realized' = realized \ {k}
  /\ IF TopOf[k] \in shown /\ flip[k] # NoClient
       THEN complete_flips({k})
       ELSE UNCHANGED <<swapsPending, swap_limit, target_sbc, blocked,
                        workQueue, flip, linked>>
  /\ UNCHANGED <<refs, buffers, sleep, request, gone, back_pixmap, shown,
                 dirty, buffer, phase, spoiled>>

-----------------------------------------------------------------------------
(* The main loop, and Mir *)

\* ProcessWorkQueue, on the way to the block handler.
Yield ==
  /\ phase = "dispatch"
  /\ sleep' = [c \in Clients |-> IF c \in workQueue THEN Awake ELSE sleep[c]]
  /\ workQueue' = {}
  /\ phase' = "block"
  /\ UNCHANGED <<dri2, request, gone, flip, linked, back_pixmap, realized,
                 shown, dirty, buffer, spoiled>>

\* xmir_repaint: the copy of xmir_glamor_copy_gbm completes the swaps queued,
\* whether the frame it makes is a flipped back_pixmap or not.
Repaint(t) ==
  /\ complete_flips(Queued(t))
  /\ back_pixmap' = back_pixmap \ {t}
  /\ dirty' = dirty \ {t}
  /\ buffer' = [buffer EXCEPT ![t] = "out"]
  /\ UNCHANGED <<refs, buffers, sleep, request, gone, realized, shown, phase,
                 spoiled>>

BlockRepaint(t) ==
  phase = "block" /\ t \in dirty /\ buffer[t] = "free" /\ Repaint(t)

BlockDone ==
  /\ phase = "block"
  /\ \A t \in dirty : buffer[t] # "free"
  /\ phase' = "drain"
  /\ UNCHANGED <<dri2, dix, flip, linked, back_pixmap, realized, shown, dirty,
                 buffer, spoiled>>

HandleBufferAvailable(t) ==
  /\ phase = "drain" /\ t \in shown /\ buffer[t] = "back"
  /\ \/ t \in dirty /\ Repaint(t)
     \/ /\ t \notin dirty
        /\ buffer' = [buffer EXCEPT ![t] = "free"]
        /\ UNCHANGED <<dri2, dix, flip, linked, back_pixmap, realized, shown,
                       dirty, phase, spoiled>>

DrainDone ==
  /\ phase = "drain"
  /\ \A t \in shown : buffer[t] # "back"
  /\ phase' = "dispatch"
  /\ UNCHANGED <<dri2, dix, flip, linked, back_pixmap, realized, shown, dirty,
                 buffer, spoiled>>

HandleBufferReceived(t) ==
  /\ t \in shown /\ buffer[t] = "out"
  /\ buffer' = [buffer EXCEPT ![t] = "back"]
  /\ UNCHANGED <<dri2, dix, flip, linked, back_pixmap, realized, shown, dirty,
                 phase, spoiled>>

-----------------------------------------------------------------------------
MainLoop ==
  \/ BlockDone \/ DrainDone
  \/ \E t \in Tops : BlockRepaint(t) \/ HandleBufferAvailable(t)

Render(c, w) ==
  \/ ProcDRI2CreateDrawable(c, w)
  \/ Throttle(c, w, <<"get", w>>) \/ ProcDRI2GetBuffers(c, w)
  \/ buffers[w] = "held" /\ Throttle(c, w, <<"swap", w>>)
  \/ ProcDRI2SwapBuffers(c, w) \/ SwapAtOnce(c, w)
  \/ \E n \in Targets : ProcDRI2WaitSBC(c, w, n)

ClientRequest ==
  \/ \E c \in Clients : ClientGone(c) \/ \E w \in Windows : Render(c, w)
  \/ \E t \in Tops : Draw(t) \/ MapTop(t) \/ UnmapTop(t)
  \/ \E k \in Children : MapChild(k) \/ UnmapChild(k)

Next ==
  \/ MainLoop \/ Yield \/ ClientRequest
  \/ \E t \in Tops : HandleBufferReceived(t)

\* The main thread runs, a time slice ends, and Mir returns buffers.
Fairness == /\ WF_vars(MainLoop)
            /\ SF_vars(Yield)
            /\ \A t \in Tops : WF_vars(HandleBufferReceived(t))

Spec == Init /\ [][Next]_vars /\ Fairness

-----------------------------------------------------------------------------
(* Properties *)

\* Every variable has its type.
TypeOK ==
  /\ refs \in [Windows -> SUBSET Clients]
  /\ buffers \in [Windows -> {"none", "held", "given"}]
  /\ swapsPending \in [Windows -> Int] /\ swap_limit \in [Windows -> {1, 2}]
  /\ target_sbc \in [Windows -> Int]
  /\ blocked \in [Windows -> [swap : Int, sbc : Int]]
  /\ sleep \in [Clients -> ({"swap", "sbc"} \X Windows) \cup {Awake}]
  /\ workQueue \subseteq Clients /\ gone \subseteq Clients
  /\ request \in [Clients -> ({"get", "swap"} \X Windows) \cup {<<>>}]
  /\ flip \in [Windows -> Clients \cup {NoClient}]
  /\ linked \subseteq Children /\ realized \subseteq Children
  /\ back_pixmap \subseteq Tops
  /\ shown \subseteq Tops /\ dirty \subseteq shown
  /\ buffer \in [Tops -> {"free", "out", "back"}]
  /\ phase \in {"dispatch", "block", "drain", "fatal"}
  /\ spoiled \subseteq Windows

\* What dri2.c counts as pending is what xmir_window->flip holds: a swap
\* completes once, and none that was not scheduled ever does, but on a window
\* that is spoiled.
PendingIsQueued ==
  \A w \in Drawables \ spoiled :
    swapsPending[w] = IF flip[w] # NoClient /\ Top(w) \in shown THEN 1 ELSE 0

\* A swap that waits waits on a surface, which will be painted: a flip holds
\* the back_pixmap of its window, a blit is on the list of its top.
QueuedOnSurface ==
  /\ \A w \in Windows \ spoiled : flip[w] # NoClient /\ Top(w) \in shown =>
       /\ Top(w) \in dirty
       /\ w \in Children => w \in linked
  /\ \A w \in linked \ spoiled : flip[w] # NoClient /\ TopOf[w] \in shown
  /\ \A w \in back_pixmap \ spoiled : flip[w] # NoClient /\ w \in shown

\* No FatalError: a client cannot get a new back buffer, nor swap again,
\* while the last one waits, as long as no window is spoiled.
NoFatalError == phase = "fatal" => spoiled # {}

\* c waits for an SBC that needs more swaps than the window has pending.
Ahead(c, w) == /\ sleep[c] = <<"sbc", w>> /\ c \notin workQueue
               /\ target_sbc[w] > swapsPending[w]

\* Whoever sleeps and has not been signalled is counted, and sleeps on a
\* window with a swap pending, whose completion will wake it, but for a client
\* that asked for an SBC ahead of what is pending.
SleepersCounted ==
  \A c \in Clients : \A w \in Windows \ spoiled : c \notin workQueue =>
    /\ sleep[c] = <<"swap", w>> => blocked[w].swap > 0 /\ swapsPending[w] > 0
    /\ sleep[c] = <<"sbc", w>> => /\ blocked[w].sbc > 0 /\ target_sbc[w] > 0
                                  /\ swapsPending[w] > 0 \/ Ahead(c, w)

\* Nothing is promised about w: it is spoiled, or the server is gone.
Void(w) == w \in spoiled \/ phase = "fatal"

\* Every swap of a window that is on a surface completes.
SwapsComplete ==
  \A w \in Windows :
    flip[w] # NoClient /\ Top(w) \in shown ~> flip[w] = NoClient \/ Void(w)

\* No client sleeps for ever, but one that waits for an SBC which only swaps
\* that no one has asked for can reach.
ClientsWake ==
  \A c \in Clients : \A w \in Windows :
    sleep[c] \in {<<"swap", w>>, <<"sbc", w>>}
      ~> sleep[c] = Awake \/ Ahead(c, w) \/ Void(w)

\* The swaps implement the exchange they promise: what is pending is what a
\* window that can be seen has in flip, and a client sleeps until it has been
\* signalled.
SX == INSTANCE SwapExchange WITH
        void <- {w \in Windows : Void(w)},
        held <- {w \in Windows : buffers[w] = "held" /\ ~Void(w)},
        pending <- [w \in Windows |->
                      IF Top(w) \in shown /\ ~Void(w) THEN flip[w] ELSE NoClient],
        asleep <- [w \in Windows |->
                     {c \in Clients : /\ sleep[c] \in {<<"swap", w>>, <<"sbc", w>>}
                                      /\ c \notin workQueue
                                      /\ ~Ahead(c, w) /\ ~Void(w)}],
        ahead <- [w \in Windows |-> {c \in Clients : Ahead(c, w) /\ ~Void(w)}]

SwapExchangeSpec == SX!Spec
SwapExchangeSafety == SX!Init /\ [][SX!Next]_(SX!vars)
=============================================================================
