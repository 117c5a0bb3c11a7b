---------------------------- MODULE Dri2SwapProofs ----------------------------
(***************************************************************************)
(* Safety of DRI2 swaps for every set of clients and windows, whatever the *)
(* clients do.                                                             *)
(*                                                                         *)
(* The invariant has two halves, about each window that is not spoiled.    *)
(* Queues ties DRI2DrawableRec to xmir's flip: a pending swap of a live    *)
(* client is exactly a flip on a surface, and while there is one the limit *)
(* of 1 throttles that client, so that it reaches no FatalError.  Sleeps   *)
(* ties the sleep queue and work queue to the counters that decide whether *)
(* a completion signals anyone.  What happens to a spoiled window leaves   *)
(* the other ones alone, up to a FatalError.                               *)
(***************************************************************************)
EXTENDS Dri2Swap, FiniteSetTheorems, TLAPS

-----------------------------------------------------------------------------
(* The inductive invariant *)

\* One client has a window's drawable, until it closes down.
RefsOwned ==
  \A w \in Windows : \A c \in refs[w] :
    c \notin gone /\ (w \notin spoiled => \A d \in refs[w] : d = c)

\* A swap in flip is its, or that of a client that is gone.
FlipOwned ==
  \A w \in Windows \ spoiled : flip[w] # NoClient =>
    /\ flip[w] \in refs[w] \cup gone
    /\ \A c \in refs[w] : flip[w] = c

\* A window with a swap on a surface is throttled.
FlipThrottles ==
  \A w \in Drawables \ spoiled :
    flip[w] # NoClient /\ Top(w) \in shown => swap_limit[w] = 1

\* While a child that fills the root is rendered, the root itself is not.
Apart ==
  spoiled = {} => \A k \in FullSize \cap Drawables :
    flip[TopOf[k]] = NoClient /\ refs[TopOf[k]] = {}

Queues ==
  /\ TypeOK /\ RefsOwned /\ FlipOwned /\ FlipThrottles /\ Apart
  /\ PendingIsQueued /\ QueuedOnSurface /\ NoFatalError

\* Who sleeps, sleeps on a drawable of its own.
SleepOwned ==
  \A c \in Clients : \A w \in Windows :
    sleep[c] \in {<<"swap", w>>, <<"sbc", w>>} => c \in refs[w]

\* Only who sleeps is to be woken.
WorkForSleepers == \A c \in workQueue : sleep[c] # Awake

\* c sleeps on w for what, and nothing has signalled it.
Unsignalled(c, what, w) == sleep[c] = <<what, w>> /\ c \notin workQueue

\* The counters say whether c has not been signalled, target_sbc for what.
CountedOn(c, w) ==
  /\ blocked[w].swap = IF Unsignalled(c, "swap", w) THEN 1 ELSE 0
  /\ blocked[w].sbc = IF Unsignalled(c, "sbc", w) THEN 1 ELSE 0
  /\ IF Unsignalled(c, "sbc", w) THEN target_sbc[w] > 0
                                 ELSE target_sbc[w] = NoTarget
  /\ Unsignalled(c, "swap", w) => swapsPending[w] = 1

BlockedCounts == \A w \in Windows \ spoiled : \A c \in refs[w] : CountedOn(c, w)

Sleeps == SleepOwned /\ WorkForSleepers /\ BlockedCounts

IInv == Queues /\ Sleeps

-----------------------------------------------------------------------------
(* Waking *)

\* Every window has a top.
LEMMA TopType == \A w \in Windows : Top(w) \in Tops
BY WindowsAssumption DEF Windows, Top

\* What a client can sleep for.
LEMMA SleepType ==
  ASSUME TypeOK, NEW c \in Clients, sleep[c] # Awake
  PROVE  \E w \in Windows : sleep[c] \in {<<"swap", w>>, <<"sbc", w>>}
<1>1. sleep[c] \in {"swap", "sbc"} \X Windows
  BY DEF TypeOK
<1>2. /\ sleep[c][2] \in Windows /\ sleep[c][1] \in {"swap", "sbc"}
      /\ sleep[c] = <<sleep[c][1], sleep[c][2]>>
  BY <1>1
<1> QED  BY <1>2

\* No two clients sleep for a swap of one window.
LEMMA SoleSleeper ==
  ASSUME IInv, NEW w \in Windows \ spoiled
  PROVE  Sleepers(w) = {} \/ \E c \in refs[w] : Sleepers(w) = {c}
<1>1. \A c \in Sleepers(w) : c \in refs[w]
  BY DEF Sleepers, IInv, Sleeps, SleepOwned
<1>2. \A c, d \in Sleepers(w) : c = d
  BY <1>1 DEF IInv, Queues, RefsOwned
<1> QED  BY <1>1, <1>2

\* The counts stay integers, whoever sleeps.
LEMMA AfterWakeType ==
  ASSUME NEW w \in Windows, NEW n \in Int
  PROVE  AfterWake(w, n) \in Int
<1>1. Sleepers(w) \subseteq Clients
  BY DEF Sleepers
<1>2. Cardinality(Sleepers(w)) \in Nat
  BY <1>1, ClientsAssumption, FS_Subset, FS_CardinalityType
<1> QED  BY <1>2 DEF AfterWake

\* A wake leaves no one to count, and no sleeper without a signal.
LEMMA WakesAll ==
  ASSUME IInv, NEW w \in Windows \ spoiled, NEW c \in refs[w]
  PROVE  /\ SignalledOnce(w) = 0 /\ SignalledTwice(w) = 0
         /\ sleep[c] = <<"swap", w>> => c \in workQueue \cup Signalled(w)
<1>0. c \in Clients
  BY DEF IInv, Queues, TypeOK
<1>1. CASE Unsignalled(c, "swap", w)
  <2>1. blocked[w].swap = 1
    BY <1>1 DEF IInv, Sleeps, BlockedCounts, CountedOn
  <2>2. c \in Sleepers(w)
    BY <1>0, <1>1 DEF Unsignalled, Sleepers
  <2>3. Cardinality(Sleepers(w)) = 1
    BY <2>2, SoleSleeper, FS_Singleton
  <2>4. SignalledOnce(w) = 0
    BY <2>1, <2>3 DEF SignalledOnce, AfterWake
  <2> QED  BY <2>1, <2>2, <2>4 DEF SignalledTwice, AfterWake, Signalled
<1>2. CASE ~Unsignalled(c, "swap", w)
  <2>1. blocked[w].swap = 0
    BY <1>2 DEF IInv, Sleeps, BlockedCounts, CountedOn
  <2> QED  BY <1>2, <2>1 DEF SignalledOnce, SignalledTwice, AfterWake, Unsignalled
<1> QED  BY <1>1, <1>2

\* The client of a swap on a drawable is the one that has the drawable.
LEMMA FlipOfRenderer ==
  ASSUME IInv, NEW w \in Windows \ spoiled, NEW c \in refs[w],
         flip[w] # NoClient
  PROVE  flip[w] = c /\ c \in Clients
BY DEF IInv, Queues, TypeOK, FlipOwned

-----------------------------------------------------------------------------
(* complete_flips *)

\* What complete_flips leaves of the queues.
LEMMA CompleteFlipsQueues ==
  ASSUME IInv, NEW W \in SUBSET Windows, complete_flips(W)
  PROVE  /\ swapsPending' \in [Windows -> Int]
         /\ swap_limit' \in [Windows -> {1, 2}]
         /\ target_sbc' \in [Windows -> Int]
         /\ blocked' \in [Windows -> [swap : Int, sbc : Int]]
         /\ workQueue' \subseteq Clients
         /\ flip' \in [Windows -> Clients \cup {NoClient}]
         /\ linked' = linked \ W
         /\ \A w \in W : flip'[w] = NoClient
         /\ \A w \in W \cap Drawables :
              swapsPending'[w] = swapsPending[w] - 1
         /\ \A w \in Windows \ W :
              /\ flip'[w] = flip[w]
              /\ swapsPending'[w] = swapsPending[w]
              /\ swap_limit'[w] = swap_limit[w]
<1>1. \A w \in Windows : SignalledTwice(w) \in Int
  <2> TAKE w \in Windows
  <2>1. blocked[w].swap \in Int
    BY DEF IInv, Queues, TypeOK
  <2>2. SignalledOnce(w) \in Int
    BY <2>1, AfterWakeType DEF SignalledOnce
  <2>3. AfterWake(w, SignalledOnce(w)) \in Int
    BY <2>2, AfterWakeType
  <2> QED  BY <2>2, <2>3 DEF SignalledTwice
<1>2. blocked' \in [Windows -> [swap : Int, sbc : Int]]
  BY <1>1 DEF complete_flips, DRI2SwapComplete, IInv, Queues, TypeOK
<1>3. target_sbc' \in [Windows -> Int]
  BY DEF complete_flips, DRI2SwapComplete, SbcAfter, NoTarget, IInv, Queues, TypeOK
<1> QED
  BY <1>2, <1>3 DEF complete_flips, DRI2SwapComplete, IInv, Queues, TypeOK

\* Completing swaps that are queued signals whoever sleeps for them, but who
\* waits for an SBC that is still ahead.
LEMMA CompleteFlipsSleeps ==
  ASSUME IInv, NEW W \in SUBSET Windows, complete_flips(W),
         \A w \in W \ spoiled : flip[w] # NoClient /\ Top(w) \in shown,
         UNCHANGED <<refs, sleep, spoiled>>
  PROVE  Sleeps'
<1>0. \A c \in workQueue' : c \in workQueue \/ \E w \in W :
        c \in Signalled(w) \/ SbcWoken(w, c)
  BY Zenon DEF complete_flips, DRI2SwapComplete
<1>1. SleepOwned'
  BY DEF IInv, Sleeps, SleepOwned
<1>2. WorkForSleepers'
  <2> SUFFICES ASSUME NEW c \in workQueue' PROVE sleep[c] # Awake
    BY DEF WorkForSleepers
  <2>1. CASE c \in workQueue
    BY <2>1 DEF IInv, Sleeps, WorkForSleepers
  <2>2. CASE c \notin workQueue
    <3>1. PICK w \in W : c \in Signalled(w) \/ SbcWoken(w, c)
      BY <1>0, <2>2
    <3>2. sleep[c] \in {<<"swap", w>>, <<"sbc", w>>}
      BY <3>1 DEF Signalled, Sleepers, SbcWoken
    <3> QED  BY <3>2 DEF Awake
  <2> QED  BY <2>1, <2>2
<1>3. workQueue \subseteq workQueue'
  BY DEF complete_flips, DRI2SwapComplete
<1>4. ASSUME NEW w \in W \ spoiled, NEW c \in refs[w]
      PROVE  CountedOn(c, w)'
  <2>1. w \in Windows /\ w \in Drawables /\ flip[w] = c /\ c \in Clients
    BY <1>4, FlipOfRenderer DEF Drawables
  <2>2. blocked'[w].swap = 0 /\ ~Unsignalled(c, "swap", w)'
    <3>1. SignalledTwice(w) = 0 /\ (sleep[c] = <<"swap", w>> => c \in workQueue')
      BY <1>3, <2>1, WakesAll DEF complete_flips, DRI2SwapComplete
    <3> QED  BY <2>1, <3>1 DEF complete_flips, DRI2SwapComplete, Unsignalled
  <2>3. /\ target_sbc'[w] = SbcAfter(w, c)
        /\ blocked'[w].sbc = IF SbcWoken(w, c) THEN blocked[w].sbc - 1
                                               ELSE blocked[w].sbc
        /\ SbcWoken(w, c) => c \in workQueue'
    BY <2>1 DEF complete_flips, DRI2SwapComplete
  <2>4. CASE Unsignalled(c, "sbc", w)
    <3>1. blocked[w].sbc = 1 /\ target_sbc[w] > 0 /\ target_sbc[w] \in Int
      BY <2>1, <2>4 DEF IInv, Queues, TypeOK, Sleeps, BlockedCounts, CountedOn
    <3>2. CASE target_sbc[w] = 1
      <4>1. SbcWoken(w, c)
        BY <2>4, <3>1, <3>2 DEF SbcWoken, Unsignalled
      <4> QED
        BY <2>2, <2>3, <3>1, <4>1 DEF SbcAfter, CountedOn, Unsignalled
    <3>3. CASE target_sbc[w] # 1
      <4>1. ~SbcWoken(w, c)
        BY <3>1, <3>3 DEF SbcWoken
      <4>2. c \notin workQueue'
        BY <2>1, <2>4, <4>1
        DEF Unsignalled, complete_flips, DRI2SwapComplete, Signalled, Sleepers,
            SbcWoken
      <4>3. Unsignalled(c, "sbc", w)'
        BY <2>4, <4>2 DEF Unsignalled
      <4>4. target_sbc'[w] > 0 /\ blocked'[w].sbc = 1
        BY <2>3, <3>1, <3>3, <4>1 DEF SbcAfter
      <4> QED  BY <2>2, <4>3, <4>4 DEF CountedOn
    <3> QED  BY <3>2, <3>3
  <2>5. CASE ~Unsignalled(c, "sbc", w)
    <3>1. blocked[w].sbc = 0 /\ target_sbc[w] = NoTarget
      BY <2>1, <2>5 DEF IInv, Sleeps, BlockedCounts, CountedOn
    <3>2. ~SbcWoken(w, c)
      BY <3>1 DEF SbcWoken
    <3>3. ~Unsignalled(c, "sbc", w)'
      BY <1>3, <2>5 DEF Unsignalled
    <3> QED
      BY <2>2, <2>3, <3>1, <3>2, <3>3 DEF SbcAfter, NoTarget, CountedOn
  <2> QED  BY <2>4, <2>5
<1>5. ASSUME NEW w \in Windows \ W, NEW c \in refs[w],
             sleep[c] \in {<<"swap", w>>, <<"sbc", w>>}, c \notin workQueue
      PROVE  c \notin workQueue'
  BY <1>5 DEF complete_flips, DRI2SwapComplete, Signalled, Sleepers, SbcWoken
<1>6. BlockedCounts'
  <2> SUFFICES ASSUME NEW w \in Windows \ spoiled, NEW c \in refs[w]
               PROVE  CountedOn(c, w)'
    BY DEF BlockedCounts
  <2>1. CASE w \in W
    BY <1>4, <2>1
  <2>2. CASE w \notin W
    <3>1. /\ Unsignalled(c, "swap", w)' = Unsignalled(c, "swap", w)
          /\ Unsignalled(c, "sbc", w)' = Unsignalled(c, "sbc", w)
      BY <1>3, <1>5, <2>2 DEF Unsignalled
    <3>2. /\ blocked'[w] = blocked[w] /\ target_sbc'[w] = target_sbc[w]
          /\ swapsPending'[w] = swapsPending[w]
      BY <2>2 DEF complete_flips, DRI2SwapComplete
    <3>3. CountedOn(c, w)
      BY DEF IInv, Sleeps, BlockedCounts
    <3> QED  BY <3>1, <3>2, <3>3 DEF CountedOn
  <2> QED  BY <2>1, <2>2
<1> QED  BY <1>1, <1>2, <1>6 DEF Sleeps

-----------------------------------------------------------------------------
(* The requests of clients *)

\* A window that is not throttled has no swap on a surface.
LEMMA IdleWhenUnthrottled ==
  ASSUME IInv, NEW w \in Windows \ spoiled, NEW c \in refs[w], ~Throttled(w)
  PROVE  /\ w \in Drawables /\ swapsPending[w] = 0
         /\ flip[w] = NoClient \/ Top(w) \notin shown
         /\ w \notin linked /\ w \notin back_pixmap
<1>1. w \in Drawables
  BY DEF Drawables
<1>2. flip[w] = NoClient \/ Top(w) \notin shown
  BY <1>1 DEF Throttled, Exceeds, IInv, Queues, FlipThrottles, PendingIsQueued
<1>3. swapsPending[w] = 0
  BY <1>1, <1>2 DEF IInv, Queues, PendingIsQueued
<1>4. w \notin linked /\ w \notin back_pixmap
  BY <1>2, WindowsAssumption
  DEF IInv, Queues, QueuedOnSurface, TypeOK, Top
<1> QED  BY <1>1, <1>2, <1>3, <1>4

\* A client that makes a request is awake and not to be woken.
LEMMA ReadyAwake ==
  ASSUME IInv, NEW c \in Clients, NEW q, Ready(c, q)
  PROVE  sleep[c] = Awake /\ c \notin workQueue /\ c \notin gone
BY DEF Ready, IInv, Sleeps, WorkForSleepers

\* Sleeps depends on these variables only.
LEMMA SleepsUnchanged ==
  ASSUME IInv, UNCHANGED <<refs, target_sbc, blocked, sleep, workQueue>>,
         spoiled \subseteq spoiled',
         \A w \in Windows \ spoiled' : \A c \in refs[w] :
           Unsignalled(c, "swap", w) => swapsPending'[w] = swapsPending[w]
  PROVE  Sleeps'
<1>1. SleepOwned' /\ WorkForSleepers'
  BY DEF IInv, Sleeps, SleepOwned, WorkForSleepers
<1>2. BlockedCounts'
  BY DEF IInv, Sleeps, BlockedCounts, CountedOn, Unsignalled
<1> QED  BY <1>1, <1>2 DEF Sleeps

\* A swap of a client that is not asleep disturbs no one who is.
LEMMA NobodySleeps ==
  ASSUME IInv, NEW w \in Windows \ spoiled, NEW c \in refs[w], NEW q, Ready(c, q)
  PROVE  /\ \A d \in refs[w] : d = c /\ ~Unsignalled(d, "swap", w)
                                    /\ ~Unsignalled(d, "sbc", w)
         /\ blocked[w].swap = 0 /\ blocked[w].sbc = 0
         /\ target_sbc[w] = NoTarget
<1>1. \A d \in refs[w] : d = c /\ d \in Clients
  BY DEF IInv, Queues, TypeOK, RefsOwned
<1>2. ~Unsignalled(c, "swap", w) /\ ~Unsignalled(c, "sbc", w)
  BY DEF Ready, Unsignalled, Awake
<1> QED  BY <1>1, <1>2 DEF IInv, Sleeps, BlockedCounts, CountedOn

\* Queues depends on these variables only.
LEMMA QueuesUnchanged ==
  ASSUME IInv, TypeOK', UNCHANGED <<refs, gone, swapsPending, swap_limit, flip, linked,
                            back_pixmap, shown, spoiled>>,
         dirty \subseteq dirty', phase' = "fatal" => phase = "fatal" \/ spoiled # {}
  PROVE  Queues'
BY DEF IInv, Queues, RefsOwned, FlipOwned, FlipThrottles, Apart,
       PendingIsQueued, QueuedOnSurface, NoFatalError, Drawables, Top

LEMMA CreatePreserves ==
  ASSUME IInv, NEW c \in Clients, NEW w \in Windows, ProcDRI2CreateDrawable(c, w)
  PROVE  IInv'
<1>0. sleep[c] = Awake /\ c \notin gone /\ c \notin refs[w] /\ c \notin workQueue
  BY ReadyAwake DEF ProcDRI2CreateDrawable
<1>1. /\ refs' = [refs EXCEPT ![w] = @ \cup {c}]
      /\ spoiled \subseteq spoiled' /\ spoiled' \subseteq spoiled \cup {w}
      /\ Contested(c, w) => w \in spoiled'
      /\ UNCHANGED <<sleep, workQueue, request, gone, flip, linked, back_pixmap,
                     realized, shown, dirty, buffer, phase>>
  BY DEF ProcDRI2CreateDrawable, dix, xmir
<1>2. ASSUME w \notin spoiled'
      PROVE  /\ refs[w] = {} /\ w \notin Drawables /\ flip[w] = NoClient
             /\ \A v \in Windows : SameBuffers(v, w) =>
                  refs[v] = {} /\ flip[v] = NoClient
  <2>1. /\ refs[w] \ {c} = {} /\ flip[w] \in {NoClient, c}
        /\ \A v \in Windows : SameBuffers(v, w) =>
             refs[v] = {} /\ flip[v] = NoClient
    BY <1>1, <1>2 DEF Contested
  <2>2. refs[w] = {} /\ w \notin Drawables
    BY <1>0, <2>1 DEF Drawables
  <2>3. flip[w] # c
    BY <1>0, <1>1, <1>2, <2>2, ClientsAssumption DEF IInv, Queues, FlipOwned
  <2> QED  BY <2>1, <2>2, <2>3
<1>3. CASE w \in Drawables
  <2>1. UNCHANGED <<buffers, swapsPending, swap_limit, target_sbc, blocked>>
    BY <1>3 DEF ProcDRI2CreateDrawable
  <2>2. w \in spoiled'
    BY <1>2, <1>3
  <2>3. TypeOK'
    BY <1>1, <2>1 DEF IInv, Queues, TypeOK
  <2>4. RefsOwned' /\ FlipOwned' /\ Apart' /\ NoFatalError'
    BY <1>0, <1>1, <2>2
    DEF IInv, Queues, TypeOK, RefsOwned, FlipOwned, Apart, NoFatalError
  <2>5. \A v \in Windows : v # w => refs'[v] = refs[v]
    BY <1>1 DEF IInv, Queues, TypeOK
  <2>6. FlipThrottles' /\ PendingIsQueued' /\ QueuedOnSurface'
    BY <1>1, <2>1, <2>2, <2>5
    DEF IInv, Queues, FlipThrottles, PendingIsQueued, QueuedOnSurface,
        Drawables, Top
  <2>7. SleepOwned' /\ WorkForSleepers'
    BY <1>1 DEF IInv, Queues, TypeOK, Sleeps, SleepOwned, WorkForSleepers
  <2>8. BlockedCounts'
    BY <1>1, <2>1, <2>2, <2>5
    DEF IInv, Sleeps, BlockedCounts, CountedOn, Unsignalled
  <2> QED  BY <2>3, <2>4, <2>6, <2>7, <2>8 DEF IInv, Queues, Sleeps
<1>4. CASE w \notin Drawables
  <2>1. /\ buffers' = [buffers EXCEPT ![w] = "none"]
        /\ swapsPending' = [swapsPending EXCEPT ![w] = 0]
        /\ swap_limit' = [swap_limit EXCEPT ![w] = 1]
        /\ target_sbc' = [target_sbc EXCEPT ![w] = -1]
        /\ blocked' = [blocked EXCEPT ![w] = [swap |-> 0, sbc |-> 0]]
    BY <1>4 DEF ProcDRI2CreateDrawable, NoTarget
  <2>2. TypeOK'
    <3>1. refs' \in [Windows -> SUBSET Clients]
      BY <1>1 DEF IInv, Queues, TypeOK
    <3>2. blocked' \in [Windows -> [swap : Int, sbc : Int]]
      <4>1. blocked \in [Windows -> [swap : Int, sbc : Int]]
        BY DEF IInv, Queues, TypeOK
      <4> QED  BY <2>1, <4>1
    <3>3. /\ buffers' \in [Windows -> {"none", "held", "given"}]
          /\ swapsPending' \in [Windows -> Int]
          /\ swap_limit' \in [Windows -> {1, 2}]
          /\ target_sbc' \in [Windows -> Int]
      BY <2>1 DEF IInv, Queues, TypeOK
    <3>4. spoiled' \subseteq Windows
      BY <1>1 DEF IInv, Queues, TypeOK
    <3> QED  BY <1>1, <3>1, <3>2, <3>3, <3>4 DEF IInv, Queues, TypeOK
  <2>3. refs[w] = {} /\ refs'[w] = {c}
    BY <1>1, <1>4 DEF Drawables, IInv, Queues, TypeOK
  <2>4. ASSUME NEW v \in Windows, v # w
        PROVE  /\ refs'[v] = refs[v] /\ blocked'[v] = blocked[v]
               /\ target_sbc'[v] = target_sbc[v]
               /\ swapsPending'[v] = swapsPending[v]
               /\ swap_limit'[v] = swap_limit[v]
    BY <1>1, <2>1, <2>4 DEF IInv, Queues, TypeOK
  <2>5. /\ blocked'[w] = [swap |-> 0, sbc |-> 0] /\ target_sbc'[w] = NoTarget
        /\ swapsPending'[w] = 0
    BY <2>1 DEF NoTarget, IInv, Queues, TypeOK
  <2>6. RefsOwned'
    BY <1>0, <1>1, <2>3, <2>4 DEF IInv, Queues, RefsOwned
  <2>7. FlipOwned'
    BY <1>1, <1>2, <2>4 DEF IInv, Queues, FlipOwned
  <2>8. FlipThrottles' /\ PendingIsQueued'
    BY <1>1, <1>2, <2>4, <2>5
    DEF IInv, Queues, FlipThrottles, PendingIsQueued, Drawables, Top
  <2>9. QueuedOnSurface' /\ NoFatalError'
    BY <1>1 DEF IInv, Queues, QueuedOnSurface, NoFatalError, Top
  <2>10. Apart'
    <3> SUFFICES ASSUME spoiled' = {}, NEW k \in FullSize, refs'[k] # {}
                 PROVE  flip[TopOf[k]] = NoClient /\ refs'[TopOf[k]] = {}
      BY <1>1 DEF Apart, Drawables
    <3>1. /\ k \in Windows /\ TopOf[k] \in Windows /\ TopOf[k] # k
          /\ spoiled = {} /\ w \notin spoiled'
      BY <1>1, WindowsAssumption DEF Windows
    <3>2. CASE w = k
      BY <1>2, <2>4, <3>1, <3>2 DEF SameBuffers
    <3>3. CASE w # k
      <4>1. k \in Drawables /\ refs[k] # {}
        BY <2>4, <3>1, <3>3 DEF Drawables
      <4>2. w # TopOf[k]
        BY <1>2, <3>1, <4>1 DEF SameBuffers
      <4> QED  BY <2>4, <3>1, <4>1, <4>2 DEF IInv, Queues, Apart
    <3> QED  BY <3>2, <3>3
  <2>11. SleepOwned' /\ WorkForSleepers'
    BY <1>1 DEF IInv, Queues, TypeOK, Sleeps, SleepOwned, WorkForSleepers
  <2>12. BlockedCounts'
    <3> SUFFICES ASSUME NEW v \in Windows \ spoiled', NEW d \in refs'[v]
                 PROVE  CountedOn(d, v)'
      BY DEF BlockedCounts
    <3>1. CASE v = w
      <4>1. d = c /\ ~Unsignalled(d, "swap", v)' /\ ~Unsignalled(d, "sbc", v)'
        BY <1>0, <1>1, <2>3, <3>1 DEF Unsignalled, Awake
      <4> QED  BY <2>5, <3>1, <4>1 DEF CountedOn
    <3>2. CASE v # w
      <4>1. CountedOn(d, v)
        BY <1>1, <2>4, <3>2 DEF IInv, Sleeps, BlockedCounts
      <4> QED  BY <1>1, <2>4, <3>2, <4>1 DEF CountedOn, Unsignalled
    <3> QED  BY <3>1, <3>2
  <2> QED
    BY <2>2, <2>6, <2>7, <2>8, <2>9, <2>10, <2>11, <2>12
    DEF IInv, Queues, Sleeps
<1> QED  BY <1>3, <1>4

\* What a client does when it goes to sleep on w.
LEMMA SleepPreserves ==
  ASSUME IInv, NEW c \in Clients, NEW w \in Windows, NEW q, Ready(c, q),
         NEW what \in {"swap", "sbc"}, c \in refs[w],
         sleep' = [sleep EXCEPT ![c] = <<what, w>>],
         w \notin spoiled => CountedOn(c, w)',
         \A v \in Windows \ {w} :
           blocked'[v] = blocked[v] /\ target_sbc'[v] = target_sbc[v],
         UNCHANGED <<refs, swapsPending, workQueue, spoiled>>
  PROVE  Sleeps'
<1>0. sleep[c] = Awake /\ c \notin workQueue
  BY ReadyAwake
<1>1. /\ sleep'[c] = <<what, w>>
      /\ \A d \in Clients \ {c} : sleep'[d] = sleep[d]
  BY DEF IInv, Queues, TypeOK
<1>2. SleepOwned' /\ WorkForSleepers'
  BY <1>0, <1>1
  DEF IInv, Queues, TypeOK, Sleeps, SleepOwned, WorkForSleepers, Awake
<1>3. BlockedCounts'
  <2> SUFFICES ASSUME NEW v \in Windows \ spoiled, NEW d \in refs[v]
               PROVE  CountedOn(d, v)'
    BY DEF BlockedCounts
  <2>0. d \in Clients
    BY DEF IInv, Queues, TypeOK
  <2>1. CASE v = w
    BY <2>1 DEF IInv, Queues, RefsOwned
  <2>2. CASE v # w
    <3>1. /\ Unsignalled(d, "swap", v)' = Unsignalled(d, "swap", v)
          /\ Unsignalled(d, "sbc", v)' = Unsignalled(d, "sbc", v)
      BY <1>0, <1>1, <2>0, <2>2 DEF Unsignalled, Awake
    <3>2. CountedOn(d, v)
      BY DEF IInv, Sleeps, BlockedCounts
    <3> QED  BY <2>2, <3>1, <3>2 DEF CountedOn
  <2> QED  BY <2>1, <2>2
<1> QED  BY <1>2, <1>3 DEF Sleeps

LEMMA ThrottlePreserves ==
  ASSUME IInv, NEW c \in Clients, NEW w \in Windows,
         NEW q \in {"get", "swap"} \X Windows, Throttle(c, w, q)
  PROVE  IInv'
<1>0. Ready(c, q) /\ c \in refs[w] /\ w \in Drawables /\ c \notin workQueue
  BY ReadyAwake DEF Throttle, Drawables
<1>1. ASSUME w \notin spoiled PROVE swapsPending[w] = 1
  <2>1. swapsPending[w] \in {0, 1}
    BY <1>0, <1>1 DEF IInv, Queues, PendingIsQueued
  <2>2. swap_limit[w] \in {1, 2}
    BY DEF IInv, Queues, TypeOK
  <2> QED  BY <2>1, <2>2 DEF Throttle, Throttled, Exceeds
<1>2. TypeOK'
  <2>1. blocked' \in [Windows -> [swap : Int, sbc : Int]]
    <3>1. blocked \in [Windows -> [swap : Int, sbc : Int]]
      BY DEF IInv, Queues, TypeOK
    <3>2. blocked' = [blocked EXCEPT ![w].swap = @ + 1]
      BY DEF Throttle
    <3> QED  BY <3>1, <3>2
  <2>2. sleep' \in [Clients -> ({"swap", "sbc"} \X Windows) \cup {Awake}]
    BY DEF IInv, Queues, TypeOK, Throttle
  <2>3. request' \in [Clients -> ({"get", "swap"} \X Windows) \cup {<<>>}]
    BY DEF IInv, Queues, TypeOK, Throttle
  <2> QED  BY <2>1, <2>2, <2>3 DEF IInv, Queues, TypeOK, Throttle, xmir
<1>3. Queues'
  BY <1>2, QueuesUnchanged DEF Throttle, xmir, IInv, Queues, NoFatalError
<1>4. blocked \in [Windows -> [swap : Int, sbc : Int]] /\ sleep'[c] = <<"swap", w>>
  BY DEF Throttle, IInv, Queues, TypeOK
<1>5. blocked'[w].swap = blocked[w].swap + 1 /\ blocked'[w].sbc = blocked[w].sbc
      /\ \A v \in Windows \ {w} : blocked'[v] = blocked[v]
  BY <1>4 DEF Throttle
<1>6. ASSUME w \notin spoiled PROVE CountedOn(c, w)'
  <2>1. blocked[w].swap = 0 /\ blocked[w].sbc = 0 /\ target_sbc[w] = NoTarget
    BY <1>0, <1>6, NobodySleeps
  <2>2. Unsignalled(c, "swap", w)' /\ ~Unsignalled(c, "sbc", w)'
    BY <1>0, <1>4 DEF Unsignalled, Throttle
  <2> QED  BY <1>1, <1>5, <1>6, <2>1, <2>2 DEF CountedOn, Throttle
<1>7. Sleeps'
  BY <1>0, <1>5, <1>6, SleepPreserves DEF Throttle
<1> QED  BY <1>3, <1>7 DEF IInv

LEMMA WaitSBCPreserves ==
  ASSUME IInv, NEW c \in Clients, NEW w \in Windows, NEW n \in Targets,
         ProcDRI2WaitSBC(c, w, n)
  PROVE  IInv'
<1>0. Ready(c, <<>>) /\ c \in refs[w] /\ c \notin workQueue
  BY ReadyAwake DEF ProcDRI2WaitSBC
<1>1. /\ n \in Int /\ target_sbc \in [Windows -> Int]
      /\ blocked \in [Windows -> [swap : Int, sbc : Int]]
      /\ swapsPending \in [Windows -> Int]
  BY OptionsAssumption DEF IInv, Queues, TypeOK
<1>2. /\ target_sbc'[w] \in Int /\ target_sbc'[w] > 0
      /\ target_sbc' \in [Windows -> Int]
      /\ \A v \in Windows \ {w} : target_sbc'[v] = target_sbc[v]
  BY <1>1 DEF ProcDRI2WaitSBC
<1>3. /\ blocked' \in [Windows -> [swap : Int, sbc : Int]]
      /\ blocked'[w].swap = blocked[w].swap /\ blocked'[w].sbc = blocked[w].sbc + 1
      /\ \A v \in Windows \ {w} : blocked'[v] = blocked[v]
  <2>1. blocked' = [blocked EXCEPT ![w].sbc = @ + 1]
    BY DEF ProcDRI2WaitSBC
  <2> QED  BY <1>1, <2>1
<1>4. TypeOK'
  <2>1. sleep' \in [Clients -> ({"swap", "sbc"} \X Windows) \cup {Awake}]
    BY DEF IInv, Queues, TypeOK, ProcDRI2WaitSBC
  <2>2. UNCHANGED <<refs, buffers, swapsPending, swap_limit, workQueue, request,
                    gone, flip, linked, back_pixmap, realized, shown, dirty,
                    buffer, phase, spoiled>>
    BY DEF ProcDRI2WaitSBC, xmir
  <2> QED  BY <1>2, <1>3, <2>1, <2>2 DEF IInv, Queues, TypeOK
<1>5. Queues'
  BY <1>4, QueuesUnchanged DEF ProcDRI2WaitSBC, xmir, IInv, Queues, NoFatalError
<1>6. ASSUME w \notin spoiled PROVE CountedOn(c, w)'
  <2>1. blocked[w].swap = 0 /\ blocked[w].sbc = 0
    BY <1>0, <1>6, NobodySleeps
  <2>2. ~Unsignalled(c, "swap", w)' /\ Unsignalled(c, "sbc", w)'
    BY <1>0 DEF Unsignalled, ProcDRI2WaitSBC, IInv, Queues, TypeOK
  <2> QED  BY <1>2, <1>3, <2>1, <2>2 DEF CountedOn
<1>7. Sleeps'
  BY <1>0, <1>2, <1>3, <1>6, SleepPreserves DEF ProcDRI2WaitSBC
<1> QED  BY <1>5, <1>7 DEF IInv

LEMMA GetBuffersPreserves ==
  ASSUME IInv, NEW c \in Clients, NEW w \in Windows, ProcDRI2GetBuffers(c, w)
  PROVE  IInv' /\ (spoiled = {} => phase' = phase)
<1>1. c \in refs[w] /\ w \in Drawables /\ ~Throttled(w) /\ phase = "dispatch"
  BY DEF ProcDRI2GetBuffers, Proceed, Ready, Drawables
<1>2. ASSUME spoiled = {} PROVE ~ReturnedBeforeSwapping(w)
  <2>1. w \notin back_pixmap
    BY <1>1, <1>2, IdleWhenUnthrottled
  <2>2. w \in FullSize => TopOf[w] \notin back_pixmap
    BY <1>1, <1>2 DEF IInv, Queues, Apart, QueuedOnSurface
  <2> QED  BY <2>1, <2>2 DEF ReturnedBeforeSwapping
<1>3. spoiled = {} => phase' = phase
  BY <1>2 DEF ProcDRI2GetBuffers
<1>4. TypeOK'
  <2>1. request' \in [Clients -> ({"get", "swap"} \X Windows) \cup {<<>>}]
    BY DEF IInv, Queues, TypeOK, ProcDRI2GetBuffers, Proceed
  <2>2. buffers' \in [Windows -> {"none", "held", "given"}]
    BY DEF IInv, Queues, TypeOK, ProcDRI2GetBuffers
  <2>3. phase' \in {"dispatch", "block", "drain", "fatal"}
    BY DEF IInv, Queues, TypeOK, ProcDRI2GetBuffers
  <2> QED
    BY <2>1, <2>2, <2>3 DEF IInv, Queues, TypeOK, ProcDRI2GetBuffers, Proceed
<1>5. Queues'
  BY <1>1, <1>3, <1>4, QueuesUnchanged DEF ProcDRI2GetBuffers, Proceed
<1>6. Sleeps'
  BY SleepsUnchanged DEF ProcDRI2GetBuffers, Proceed
<1> QED  BY <1>3, <1>5, <1>6 DEF IInv

\* Damage keeps to windows on a surface.
LEMMA DamagedShown ==
  ASSUME TypeOK, NEW w \in Windows
  PROVE  /\ dirty \subseteq Damaged(w) /\ Damaged(w) \subseteq shown
         /\ Top(w) \in shown => Top(w) \in Damaged(w)
BY DEF TypeOK, Damaged

\* A swap that is scheduled: what Flip and Blit share.
LEMMA ScheduledQueues ==
  ASSUME IInv, NEW c \in Clients, NEW w \in Windows,
         Proceed(c, w, <<"swap", w>>), Top(w) \in shown,
         flip' = [flip EXCEPT ![w] = c], dirty' = Damaged(w),
         swapsPending' = [swapsPending EXCEPT ![w] = @ + 1],
         swap_limit' = [swap_limit EXCEPT ![w] = 1],
         UNCHANGED <<target_sbc, blocked, workQueue>>
  PROVE  /\ RefsOwned' /\ FlipOwned' /\ FlipThrottles' /\ Apart'
         /\ PendingIsQueued' /\ Sleeps'
         /\ dirty' \subseteq shown' /\ Top(w) \in dirty' /\ dirty \subseteq dirty'
<1>0. /\ c \in refs[w] /\ w \in Drawables /\ Ready(c, <<"swap", w>>)
      /\ UNCHANGED <<refs, sleep, gone, shown, spoiled>>
      /\ w \notin spoiled => swapsPending[w] = 0
  BY IdleWhenUnthrottled DEF Proceed, Drawables
<1>1. /\ flip'[w] = c /\ swap_limit'[w] = 1
      /\ swapsPending'[w] = swapsPending[w] + 1
      /\ \A v \in Windows : v # w => /\ flip'[v] = flip[v]
                                     /\ swap_limit'[v] = swap_limit[v]
                                     /\ swapsPending'[v] = swapsPending[v]
  BY DEF IInv, Queues, TypeOK
<1>2. RefsOwned'
  BY <1>0 DEF IInv, Queues, RefsOwned
<1>3. FlipOwned'
  BY <1>0, <1>1 DEF IInv, Queues, RefsOwned, FlipOwned
<1>4. Apart'
  <2>1. \A k \in FullSize : TopOf[k] \in Windows
    BY WindowsAssumption DEF Windows
  <2> QED  BY <1>0, <1>1, <2>1 DEF IInv, Queues, Apart, Drawables
<1>5. FlipThrottles'
  BY <1>0, <1>1 DEF IInv, Queues, FlipThrottles, Drawables, Top
<1>6. PendingIsQueued'
  BY <1>0, <1>1, ClientsAssumption DEF IInv, Queues, PendingIsQueued, Drawables, Top
<1>7. Sleeps'
  BY <1>0, <1>1, NobodySleeps, SleepsUnchanged
<1>8. /\ dirty' \subseteq shown' /\ Top(w) \in dirty' /\ dirty \subseteq dirty'
  BY <1>0, DamagedShown DEF IInv, Queues
<1> QED  BY <1>2, <1>3, <1>4, <1>5, <1>6, <1>7, <1>8

\* A swap of w leaves the queues of the other windows as they are.
LEMMA OtherQueued ==
  ASSUME IInv, TypeOK', NEW w \in Windows,
         \A v \in Windows \ {w} : flip'[v] = flip[v],
         linked' \subseteq linked \cup {w}, linked \subseteq linked',
         back_pixmap' \subseteq back_pixmap \cup {w},
         dirty \subseteq dirty', UNCHANGED <<shown, spoiled>>,
         w \notin spoiled =>
           /\ flip'[w] # NoClient /\ Top(w) \in shown =>
                Top(w) \in dirty' /\ (w \in Children => w \in linked')
           /\ w \in linked' => flip'[w] # NoClient /\ Top(w) \in shown
           /\ w \in back_pixmap' => flip'[w] # NoClient /\ w \in shown
  PROVE  QueuedOnSurface'
<1>1. linked \subseteq Children /\ back_pixmap \subseteq Windows
  BY DEF IInv, Queues, TypeOK, Windows
<1>2. ASSUME NEW v \in Windows \ spoiled', flip'[v] # NoClient, Top(v) \in shown'
      PROVE  Top(v) \in dirty' /\ (v \in Children => v \in linked')
  BY <1>2 DEF IInv, Queues, QueuedOnSurface
<1>3. ASSUME NEW v \in linked' \ spoiled'
      PROVE  flip'[v] # NoClient /\ Top(v) \in shown'
  BY <1>1, WindowsAssumption DEF IInv, Queues, QueuedOnSurface, Windows, Top
<1>4. ASSUME NEW v \in back_pixmap' \ spoiled'
      PROVE  flip'[v] # NoClient /\ v \in shown'
  BY <1>1 DEF IInv, Queues, QueuedOnSurface
<1>5. \A v \in linked' : Top(v) = TopOf[v]
  BY WindowsAssumption DEF TypeOK, Top
<1> QED  BY <1>2, <1>3, <1>4, <1>5 DEF QueuedOnSurface, Top

LEMMA FlipPreserves ==
  ASSUME IInv, NEW c \in Clients, NEW w \in Windows,
         Proceed(c, w, <<"swap", w>>), Flip(c, w)
  PROVE  IInv' /\ (spoiled = {} => phase' = phase)
<1>0. w \in Tops /\ Top(w) = w /\ w \in shown
  BY DEF Flip, Top, IInv, Queues, TypeOK
<1>1. /\ w \notin spoiled => w \notin back_pixmap
      /\ UNCHANGED <<refs, sleep, gone, realized, shown, buffer, spoiled, linked>>
  BY IdleWhenUnthrottled DEF Proceed, Flip
<1>2. /\ RefsOwned' /\ FlipOwned' /\ FlipThrottles' /\ Apart'
      /\ PendingIsQueued' /\ Sleeps'
      /\ dirty' \subseteq shown' /\ w \in dirty' /\ dirty \subseteq dirty'
  BY <1>0, ScheduledQueues DEF Flip
<1>3. CASE w \in back_pixmap
  <2>1. w \in spoiled /\ phase' = "fatal" /\ UNCHANGED <<back_pixmap, buffers>>
    BY <1>1, <1>3 DEF Flip
  <2>2. TypeOK'
    <3>1. request' \in [Clients -> ({"get", "swap"} \X Windows) \cup {<<>>}]
      BY DEF IInv, Queues, TypeOK, Proceed
    <3>2. /\ flip' \in [Windows -> Clients \cup {NoClient}]
          /\ swapsPending' \in [Windows -> Int]
          /\ swap_limit' \in [Windows -> {1, 2}]
      BY DEF IInv, Queues, TypeOK, Flip
    <3> QED  BY <1>1, <1>2, <2>1, <3>1, <3>2 DEF IInv, Queues, TypeOK, Flip
  <2>3. \A v \in Windows \ {w} : flip'[v] = flip[v]
    BY DEF Flip, IInv, Queues, TypeOK
  <2>4. NoFatalError'
    BY <1>1, <2>1 DEF NoFatalError
  <2>5. QueuedOnSurface'
    BY <1>0, <1>1, <1>2, <2>1, <2>2, <2>3, OtherQueued
  <2> QED  BY <1>1, <1>2, <2>1, <2>2, <2>4, <2>5 DEF IInv, Queues
<1>4. CASE w \notin back_pixmap
  <2>1. /\ back_pixmap' = back_pixmap \cup {w} /\ phase' = phase
        /\ buffers' = [buffers EXCEPT ![w] = "given"]
        /\ flip' = [flip EXCEPT ![w] = c]
    BY <1>4 DEF Flip
  <2>2. TypeOK'
    <3>1. request' \in [Clients -> ({"get", "swap"} \X Windows) \cup {<<>>}]
      BY DEF IInv, Queues, TypeOK, Proceed
    <3>2. /\ back_pixmap' \subseteq Tops
          /\ buffers' \in [Windows -> {"none", "held", "given"}]
          /\ flip' \in [Windows -> Clients \cup {NoClient}]
      BY <1>0, <2>1 DEF IInv, Queues, TypeOK
    <3>3. /\ swapsPending' \in [Windows -> Int]
          /\ swap_limit' \in [Windows -> {1, 2}]
      BY DEF IInv, Queues, TypeOK, Flip
    <3> QED  BY <1>1, <1>2, <2>1, <3>1, <3>2, <3>3 DEF IInv, Queues, TypeOK, Flip
  <2>3. flip'[w] = c /\ \A v \in Windows \ {w} : flip'[v] = flip[v]
    BY <2>1 DEF IInv, Queues, TypeOK
  <2>4. NoFatalError'
    BY <1>1, <2>1 DEF NoFatalError, IInv, Queues
  <2>5. w \notin Children /\ w \notin linked
    BY <1>0, WindowsAssumption DEF IInv, Queues, TypeOK
  <2>6. QueuedOnSurface'
    BY <1>0, <1>1, <1>2, <2>1, <2>2, <2>3, <2>5, OtherQueued, ClientsAssumption
  <2> QED  BY <1>2, <2>1, <2>2, <2>4, <2>6 DEF IInv, Queues
<1> QED  BY <1>3, <1>4

LEMMA BlitPreserves ==
  ASSUME IInv, NEW c \in Clients, NEW w \in Windows,
         Proceed(c, w, <<"swap", w>>), Blit(c, w)
  PROVE  IInv' /\ (spoiled = {} => phase' = phase)
<1>0. w \in Children /\ w \notin Tops /\ Top(w) = TopOf[w] /\ Top(w) \in shown
  BY WindowsAssumption DEF Blit, Top, Windows
<1>1. /\ w \notin spoiled => w \notin linked
      /\ UNCHANGED <<refs, sleep, gone, realized, shown, buffer, spoiled,
                     back_pixmap, buffers>>
  BY IdleWhenUnthrottled DEF Proceed, Blit
<1>2. /\ RefsOwned' /\ FlipOwned' /\ FlipThrottles' /\ Apart'
      /\ PendingIsQueued' /\ Sleeps'
      /\ dirty' \subseteq shown' /\ Top(w) \in dirty' /\ dirty \subseteq dirty'
  BY <1>0, ScheduledQueues DEF Blit
<1>3. /\ linked' = linked \cup {w}
      /\ phase' = IF w \in linked THEN "fatal" ELSE phase
  BY DEF Blit
<1>4. TypeOK'
  <2>1. request' \in [Clients -> ({"get", "swap"} \X Windows) \cup {<<>>}]
    BY DEF IInv, Queues, TypeOK, Proceed
  <2>2. /\ flip' \in [Windows -> Clients \cup {NoClient}]
        /\ swapsPending' \in [Windows -> Int]
        /\ swap_limit' \in [Windows -> {1, 2}]
    BY DEF IInv, Queues, TypeOK, Blit
  <2> QED
    BY <1>0, <1>1, <1>2, <1>3, <2>1, <2>2 DEF IInv, Queues, TypeOK, Blit
<1>5. flip'[w] = c /\ \A v \in Windows \ {w} : flip'[v] = flip[v]
  BY DEF Blit, IInv, Queues, TypeOK
<1>6. NoFatalError'
  BY <1>1, <1>3 DEF NoFatalError, IInv, Queues
<1>7. w \notin back_pixmap'
  BY <1>0, <1>1 DEF IInv, Queues, TypeOK
<1>8. QueuedOnSurface'
  BY <1>0, <1>1, <1>2, <1>3, <1>4, <1>5, <1>7, OtherQueued, ClientsAssumption
<1> QED  BY <1>1, <1>2, <1>3, <1>4, <1>6, <1>8 DEF IInv, Queues

\* A swap of a hidden window leaves its mark in flip, but counts for nothing
\* as long as the window stays hidden.
LEMMA NotScheduledPreserves ==
  ASSUME IInv, NEW c \in Clients, NEW w \in Windows,
         Proceed(c, w, <<"swap", w>>), NotScheduled(c, w)
  PROVE  IInv' /\ (spoiled = {} => phase' = phase)
<1>0. /\ c \in refs[w] /\ w \in Drawables /\ Ready(c, <<"swap", w>>)
      /\ Top(w) \notin shown
      /\ UNCHANGED <<refs, sleep, gone, realized, shown, buffer, spoiled, buffers,
                     swapsPending, target_sbc, linked, back_pixmap, dirty>>
  BY DEF NotScheduled, Proceed, Drawables
<1>1. flip'[w] = c /\ \A v \in Windows \ {w} : flip'[v] = flip[v]
                                               /\ swap_limit'[v] = swap_limit[v]
  BY DEF NotScheduled, IInv, Queues, TypeOK
<1>2. w \in linked \cup back_pixmap => w \in spoiled
  BY <1>0, IdleWhenUnthrottled DEF Proceed
<1>3. phase' = IF w \in linked THEN "fatal" ELSE phase
  BY DEF NotScheduled
<1>4. /\ blocked' = [blocked EXCEPT ![w].swap = AfterWake(w, @)]
      /\ blocked \in [Windows -> [swap : Int, sbc : Int]]
      /\ workQueue' = workQueue \cup Signalled(w)
      /\ Signalled(w) \subseteq Sleepers(w)
  BY DEF NotScheduled, Signalled, IInv, Queues, TypeOK
<1>5. AfterWake(w, blocked[w].swap) \in Int
  BY <1>4, AfterWakeType
<1>6. TypeOK'
  <2>1. request' \in [Clients -> ({"get", "swap"} \X Windows) \cup {<<>>}]
    BY DEF IInv, Queues, TypeOK, Proceed
  <2>2. /\ flip' \in [Windows -> Clients \cup {NoClient}]
        /\ swap_limit' \in [Windows -> {1, 2}]
    BY DEF IInv, Queues, TypeOK, NotScheduled
  <2>3. blocked' \in [Windows -> [swap : Int, sbc : Int]]
    BY <1>4, <1>5
  <2>4. workQueue' \subseteq Clients
    BY <1>4 DEF Sleepers, IInv, Queues, TypeOK
  <2> QED  BY <1>0, <1>3, <2>1, <2>2, <2>3, <2>4 DEF IInv, Queues, TypeOK
<1>7. RefsOwned' /\ FlipOwned'
  BY <1>0, <1>1 DEF IInv, Queues, RefsOwned, FlipOwned
<1>8. Apart'
  <2>1. \A k \in FullSize : TopOf[k] \in Windows
    BY WindowsAssumption DEF Windows
  <2> QED  BY <1>0, <1>1, <2>1 DEF IInv, Queues, Apart, Drawables
<1>9. FlipThrottles' /\ PendingIsQueued'
  <2>1. FlipThrottles'
    BY <1>0, <1>1 DEF IInv, Queues, FlipThrottles, Drawables, Top
  <2>2. PendingIsQueued'
    BY <1>0, <1>1 DEF IInv, Queues, PendingIsQueued, Drawables, Top
  <2> QED  BY <2>1, <2>2
<1>10. QueuedOnSurface' /\ NoFatalError'
  <2>1. NoFatalError'
    BY <1>0, <1>2, <1>3 DEF NoFatalError, IInv, Queues
  <2>2. QueuedOnSurface'
    <3>1. Top(w) \notin shown /\ (w \notin spoiled => w \notin linked' /\ w \notin back_pixmap')
      BY <1>0, <1>2
    <3>2. /\ UNCHANGED <<linked, back_pixmap, dirty, shown, spoiled>>
          /\ \A v \in Windows \ {w} : flip'[v] = flip[v]
      BY <1>0, <1>1
    <3> QED  BY <1>6, <3>1, <3>2, OtherQueued
  <2> QED  BY <2>1, <2>2
<1>11. SleepOwned' /\ WorkForSleepers'
  <2>1. SleepOwned'
    BY <1>0 DEF IInv, Sleeps, SleepOwned
  <2>2. \A d \in Sleepers(w) : sleep[d] # Awake
    BY DEF Sleepers, Awake
  <2>3. WorkForSleepers'
    BY <1>0, <1>4, <2>2 DEF IInv, Sleeps, WorkForSleepers
  <2> QED  BY <2>1, <2>3
<1>12. BlockedCounts'
  <2> SUFFICES ASSUME NEW v \in Windows \ spoiled, NEW d \in refs[v]
               PROVE  CountedOn(d, v)'
    BY <1>0 DEF BlockedCounts
  <2>0. CountedOn(d, v)
    BY DEF IInv, Sleeps, BlockedCounts
  <2>1. CASE v = w
    <3>1. /\ blocked[w].swap = 0
          /\ ~Unsignalled(d, "swap", w) /\ ~Unsignalled(d, "sbc", w)
      BY <1>0, <2>1, NobodySleeps
    <3>2. AfterWake(w, blocked[w].swap) = 0
      BY <3>1 DEF AfterWake
    <3>3. blocked'[w].swap = 0 /\ blocked'[w].sbc = blocked[w].sbc
      BY <1>4, <3>2
    <3>4. ~Unsignalled(d, "swap", w)' /\ ~Unsignalled(d, "sbc", w)'
      BY <1>0, <1>4, <3>1 DEF Unsignalled
    <3> QED  BY <1>0, <2>0, <2>1, <3>1, <3>3, <3>4 DEF CountedOn
  <2>2. CASE v # w
    <3>1. blocked'[v] = blocked[v]
      BY <1>4, <2>2
    <3>2. /\ Unsignalled(d, "swap", v)' = Unsignalled(d, "swap", v)
          /\ Unsignalled(d, "sbc", v)' = Unsignalled(d, "sbc", v)
      BY <1>0, <1>4, <2>2 DEF Unsignalled, Sleepers
    <3> QED  BY <1>0, <2>0, <3>1, <3>2 DEF CountedOn
  <2> QED  BY <2>1, <2>2
<1> QED
  BY <1>2, <1>3, <1>6, <1>7, <1>8, <1>9, <1>10, <1>11, <1>12
  DEF IInv, Queues, Sleeps

LEMMA SwapPreserves ==
  ASSUME IInv, NEW c \in Clients, NEW w \in Windows, ProcDRI2SwapBuffers(c, w)
  PROVE  IInv' /\ (spoiled = {} => phase' = phase)
BY FlipPreserves, BlitPreserves, NotScheduledPreserves DEF ProcDRI2SwapBuffers

LEMMA SwapAtOncePreserves ==
  ASSUME IInv, NEW c \in Clients, NEW w \in Windows, SwapAtOnce(c, w)
  PROVE  IInv'
<1>0. /\ c \in refs[w] /\ w \in Drawables /\ Ready(c, <<"swap", w>>)
      /\ UNCHANGED <<refs, sleep, gone, realized, shown, buffer, spoiled, buffers,
                     swapsPending, swap_limit, flip, linked, back_pixmap, phase>>
  BY DEF SwapAtOnce, Proceed, Drawables
<1>1. /\ \A v \in Windows : v # w => /\ target_sbc'[v] = target_sbc[v]
                                     /\ blocked'[v] = blocked[v]
      /\ target_sbc'[w] = SbcAfter(w, c)
      /\ blocked'[w].swap = SignalledOnce(w)
      /\ blocked'[w].sbc = IF SbcWoken(w, c) THEN blocked[w].sbc - 1
                                             ELSE blocked[w].sbc
  BY DEF SwapAtOnce, DRI2SwapComplete
<1>2. \A d \in workQueue' :
        \/ d \in workQueue
        \/ d \in Clients /\ sleep[d] \in {<<"swap", w>>, <<"sbc", w>>}
  <2> SUFFICES ASSUME NEW d \in workQueue', d \notin workQueue
               PROVE  d \in Clients /\ sleep[d] \in {<<"swap", w>>, <<"sbc", w>>}
    OBVIOUS
  <2>1. d \in Clients
    BY DEF SwapAtOnce, DRI2SwapComplete
  <2>2. d \in Signalled(w) \/ SbcWoken(w, d)
    BY DEF SwapAtOnce, DRI2SwapComplete
  <2> QED  BY <2>1, <2>2 DEF Signalled, Sleepers, SbcWoken
<1>3. workQueue \subseteq workQueue'
  BY DEF SwapAtOnce, DRI2SwapComplete
<1>4. TypeOK'
  <2>1. request' \in [Clients -> ({"get", "swap"} \X Windows) \cup {<<>>}]
    BY DEF IInv, Queues, TypeOK, SwapAtOnce, Proceed
  <2>2. dirty' \subseteq shown
    BY DamagedShown DEF SwapAtOnce, IInv, Queues
  <2>3. SignalledOnce(w) \in Int
    BY AfterWakeType DEF SignalledOnce, IInv, Queues, TypeOK
  <2>4. blocked' \in [Windows -> [swap : Int, sbc : Int]]
    BY <2>3 DEF SwapAtOnce, DRI2SwapComplete, IInv, Queues, TypeOK
  <2>5. target_sbc' \in [Windows -> Int]
    BY DEF SwapAtOnce, DRI2SwapComplete, SbcAfter, NoTarget, IInv, Queues, TypeOK
  <2>6. workQueue' \subseteq Clients
    BY <1>2 DEF IInv, Queues, TypeOK
  <2> QED  BY <1>0, <2>1, <2>2, <2>4, <2>5, <2>6 DEF IInv, Queues, TypeOK
<1>5. Queues'
  <2>1. dirty \subseteq dirty'
    BY DamagedShown DEF SwapAtOnce, IInv, Queues
  <2> QED  BY <1>0, <1>4, <2>1, QueuesUnchanged
<1>6. SleepOwned' /\ WorkForSleepers'
  BY <1>0, <1>2 DEF IInv, Sleeps, SleepOwned, WorkForSleepers, Awake
<1>7. BlockedCounts'
  <2> SUFFICES ASSUME NEW v \in Windows \ spoiled, NEW d \in refs[v]
               PROVE  CountedOn(d, v)'
    BY <1>0 DEF BlockedCounts
  <2>0. CountedOn(d, v)
    BY DEF IInv, Sleeps, BlockedCounts
  <2>1. CASE v = w
    <3>1. /\ d = c /\ ~Unsignalled(d, "swap", w) /\ ~Unsignalled(d, "sbc", w)
          /\ blocked[w].swap = 0 /\ blocked[w].sbc = 0 /\ target_sbc[w] = NoTarget
      BY <1>0, <2>1, NobodySleeps
    <3>2. SignalledOnce(w) = 0 /\ ~SbcWoken(w, c) /\ SbcAfter(w, c) = NoTarget
      BY <3>1 DEF SignalledOnce, AfterWake, SbcWoken, SbcAfter, NoTarget
    <3>3. ~Unsignalled(d, "swap", w)' /\ ~Unsignalled(d, "sbc", w)'
      BY <1>0, <1>3, <3>1 DEF Unsignalled
    <3> QED  BY <1>1, <2>1, <3>1, <3>2, <3>3 DEF CountedOn
  <2>2. CASE v # w
    <3>1. /\ Unsignalled(d, "swap", v)' = Unsignalled(d, "swap", v)
          /\ Unsignalled(d, "sbc", v)' = Unsignalled(d, "sbc", v)
      BY <1>0, <1>2, <1>3, <2>2 DEF Unsignalled
    <3> QED  BY <1>0, <1>1, <2>0, <2>2, <3>1 DEF CountedOn
  <2> QED  BY <2>1, <2>2
<1> QED  BY <1>5, <1>6, <1>7 DEF IInv, Sleeps

LEMMA ClientGonePreserves ==
  ASSUME IInv, NEW c \in Clients, ClientGone(c)
  PROVE  IInv'
<1>1. /\ \A w \in Windows : refs'[w] = refs[w] \ {c}
      /\ sleep'[c] = Awake /\ \A d \in Clients \ {c} : sleep'[d] = sleep[d]
      /\ workQueue' = workQueue \ {c} /\ gone' = gone \cup {c}
      /\ spoiled' = spoiled
  BY DEF ClientGone, IInv, Queues, TypeOK
<1>2. TypeOK'
  <2>1. sleep' \in [Clients -> ({"swap", "sbc"} \X Windows) \cup {Awake}]
    BY DEF IInv, Queues, TypeOK, ClientGone
  <2>2. request' \in [Clients -> ({"get", "swap"} \X Windows) \cup {<<>>}]
    BY DEF IInv, Queues, TypeOK, ClientGone
  <2> QED  BY <2>1, <2>2 DEF IInv, Queues, TypeOK, ClientGone, xmir
<1>3. RefsOwned' /\ FlipOwned'
  BY <1>1 DEF IInv, Queues, RefsOwned, FlipOwned, ClientGone, xmir
<1>4. Apart'
  <2>1. \A k \in FullSize : k \in Windows /\ TopOf[k] \in Windows
    BY WindowsAssumption DEF Windows
  <2> QED  BY <1>1, <2>1 DEF IInv, Queues, Apart, Drawables, ClientGone, xmir
<1>5. FlipThrottles' /\ PendingIsQueued' /\ QueuedOnSurface' /\ NoFatalError'
  BY <1>1
  DEF IInv, Queues, FlipThrottles, PendingIsQueued, QueuedOnSurface,
      NoFatalError, Drawables, Top, ClientGone, xmir
<1>6. SleepOwned' /\ WorkForSleepers'
  <2>1. \A w \in Windows : sleep'[c] \notin {<<"swap", w>>, <<"sbc", w>>}
    BY <1>1 DEF Awake
  <2>2. SleepOwned'
    BY <1>1, <2>1 DEF IInv, Sleeps, SleepOwned
  <2>3. \A d \in workQueue' : d \in Clients \ {c} /\ d \in workQueue
    BY <1>1 DEF IInv, Queues, TypeOK
  <2> QED
    BY <1>1, <2>2, <2>3 DEF IInv, Sleeps, WorkForSleepers
<1>7. BlockedCounts'
  <2> SUFFICES ASSUME NEW v \in Windows \ spoiled, NEW d \in refs[v] \ {c}
               PROVE  CountedOn(d, v)'
    BY <1>1 DEF BlockedCounts
  <2>1. d \in Clients \ {c} /\ CountedOn(d, v)
    BY DEF IInv, Queues, TypeOK, Sleeps, BlockedCounts
  <2>2. /\ Unsignalled(d, "swap", v)' = Unsignalled(d, "swap", v)
        /\ Unsignalled(d, "sbc", v)' = Unsignalled(d, "sbc", v)
    BY <1>1, <2>1 DEF Unsignalled
  <2> QED  BY <2>1, <2>2 DEF CountedOn, ClientGone
<1> QED  BY <1>2, <1>3, <1>4, <1>5, <1>6, <1>7 DEF IInv, Queues, Sleeps

-----------------------------------------------------------------------------
(* Windows and the main loop *)

LEMMA DrawPreserves ==
  ASSUME IInv, NEW t \in Tops, Draw(t) \/ HandleBufferReceived(t)
  PROVE  IInv'
<1>1. Sleeps'
  BY SleepsUnchanged DEF Draw, HandleBufferReceived, dri2, dix
<1>2. TypeOK'
  BY DEF IInv, Queues, TypeOK, Draw, HandleBufferReceived, dri2, dix
<1>3. Queues'
  BY <1>2, QueuesUnchanged
  DEF Draw, HandleBufferReceived, dri2, dix, IInv, Queues, NoFatalError
<1> QED  BY <1>1, <1>3 DEF IInv

\* A window with something in flip is spoiled when it is shown.
LEMMA MapTopPreserves ==
  ASSUME IInv, NEW t \in Tops, MapTop(t)
  PROVE  IInv'
<1>0. /\ t \notin shown /\ shown' = shown \cup {t}
      /\ spoiled' = spoiled \cup {w \in Windows : Top(w) = t /\ flip[w] # NoClient}
      /\ UNCHANGED <<dri2, dix, flip, linked, back_pixmap, realized, dirty, phase>>
  BY DEF MapTop
<1>1. Sleeps'
  BY <1>0, SleepsUnchanged DEF dri2, dix
<1>2. TypeOK'
  BY <1>0 DEF IInv, Queues, TypeOK, dri2, dix, MapTop
<1>3. RefsOwned' /\ FlipOwned' /\ Apart' /\ NoFatalError'
  BY <1>0
  DEF IInv, Queues, RefsOwned, FlipOwned, Apart, NoFatalError, Drawables, dri2, dix
<1>4. \A w \in Windows \ spoiled' :
        flip[w] = NoClient \/ (Top(w) \in shown' <=> Top(w) \in shown)
  BY <1>0
<1>5. FlipThrottles' /\ PendingIsQueued'
  BY <1>0, <1>4
  DEF IInv, Queues, FlipThrottles, PendingIsQueued, Drawables, Top, dri2, dix
<1>6. QueuedOnSurface'
  BY <1>0, <1>4 DEF IInv, Queues, QueuedOnSurface, Top
<1> QED  BY <1>1, <1>2, <1>3, <1>5, <1>6 DEF IInv, Queues

LEMMA MapChildPreserves ==
  ASSUME IInv, NEW k \in Children, MapChild(k)
  PROVE  IInv'
<1>1. Sleeps'
  BY SleepsUnchanged DEF MapChild, dri2, dix
<1>2. TypeOK'
  BY DEF IInv, Queues, TypeOK, MapChild, dri2, dix
<1>3. Queues'
  BY <1>2, QueuesUnchanged DEF MapChild, dri2, dix, IInv, Queues, NoFatalError
<1> QED  BY <1>1, <1>3 DEF IInv

LEMMA PhasePreserves ==
  ASSUME IInv, BlockDone \/ DrainDone
  PROVE  IInv'
<1>1. Sleeps'
  BY SleepsUnchanged DEF BlockDone, DrainDone, dri2, dix
<1>2. TypeOK'
  BY DEF IInv, Queues, TypeOK, BlockDone, DrainDone, dri2, dix
<1>3. Queues'
  BY <1>2, QueuesUnchanged DEF BlockDone, DrainDone, dri2, dix
<1> QED  BY <1>1, <1>3 DEF IInv

LEMMA YieldPreserves ==
  ASSUME IInv, Yield
  PROVE  IInv'
<1>1. \A c \in Clients : sleep'[c] = IF c \in workQueue THEN Awake ELSE sleep[c]
  BY DEF Yield
<1>2. TypeOK'
  <2>1. sleep' \in [Clients -> ({"swap", "sbc"} \X Windows) \cup {Awake}]
    BY DEF IInv, Queues, TypeOK, Yield
  <2> QED  BY <2>1 DEF IInv, Queues, TypeOK, Yield, dri2
<1>3. Queues'
  BY <1>2, QueuesUnchanged DEF Yield, dri2
<1>4. SleepOwned' /\ WorkForSleepers'
  BY <1>1
  DEF IInv, Sleeps, SleepOwned, WorkForSleepers, Awake, Yield, dri2
<1>5. BlockedCounts'
  <2> SUFFICES ASSUME NEW v \in Windows \ spoiled, NEW d \in refs[v]
               PROVE  CountedOn(d, v)'
    BY DEF BlockedCounts, Yield, dri2
  <2>1. d \in Clients /\ CountedOn(d, v)
    BY DEF IInv, Queues, TypeOK, Sleeps, BlockedCounts
  <2>2. /\ Unsignalled(d, "swap", v)' = Unsignalled(d, "swap", v)
        /\ Unsignalled(d, "sbc", v)' = Unsignalled(d, "sbc", v)
    BY <1>1, <2>1 DEF Unsignalled, Awake, Yield
  <2> QED  BY <2>1, <2>2 DEF CountedOn, Yield, dri2
<1> QED  BY <1>3, <1>4, <1>5 DEF IInv, Sleeps

\* Swaps queued on surfaces complete; those of other windows stay queued.
LEMMA CompletedPreserves ==
  ASSUME IInv, NEW W \in SUBSET Windows, complete_flips(W),
         \A w \in W \ spoiled : flip[w] # NoClient /\ Top(w) \in shown,
         shown' \subseteq shown,
         \A w \in Windows \ (W \cup spoiled) :
           flip[w] # NoClient /\ Top(w) \in shown => Top(w) \in shown' \cap dirty',
         \A w \in back_pixmap' \ spoiled : w \in back_pixmap \ W,
         UNCHANGED <<refs, sleep, gone, spoiled>>
  PROVE  /\ RefsOwned' /\ FlipOwned' /\ Apart' /\ FlipThrottles'
         /\ PendingIsQueued' /\ QueuedOnSurface' /\ Sleeps'
<1>0. /\ linked' = linked \ W
      /\ \A w \in W : flip'[w] = NoClient
      /\ \A w \in W \cap Drawables : swapsPending'[w] = swapsPending[w] - 1
      /\ \A w \in Windows \ W : /\ flip'[w] = flip[w]
                                /\ swapsPending'[w] = swapsPending[w]
                                /\ swap_limit'[w] = swap_limit[w]
  BY CompleteFlipsQueues
<1>1. Sleeps'
  BY CompleteFlipsSleeps
<1>2. \A w \in (W \cap Drawables) \ spoiled : swapsPending'[w] = 0
  BY <1>0 DEF IInv, Queues, PendingIsQueued
<1>3. RefsOwned' /\ FlipOwned'
  BY <1>0 DEF IInv, Queues, RefsOwned, FlipOwned
<1>4. Apart'
  <2>1. \A k \in FullSize : TopOf[k] \in Windows
    BY WindowsAssumption DEF Windows
  <2> QED  BY <1>0, <2>1 DEF IInv, Queues, Apart, Drawables
<1>5. FlipThrottles'
  BY <1>0 DEF IInv, Queues, FlipThrottles, Drawables, Top
<1>6. PendingIsQueued'
  <2> SUFFICES ASSUME NEW w \in Windows \ spoiled, w \in Drawables
      PROVE swapsPending'[w] =
              IF flip'[w] # NoClient /\ Top(w) \in shown' THEN 1 ELSE 0
    BY DEF PendingIsQueued, Drawables, Top
  <2>1. CASE w \in W
    BY <1>0, <1>2, <2>1
  <2>2. CASE w \notin W
    BY <1>0, <2>2 DEF IInv, Queues, PendingIsQueued
  <2> QED  BY <2>1, <2>2
<1>7. QueuedOnSurface'
  <2>1. linked \subseteq Windows /\ back_pixmap \subseteq Windows
    BY DEF IInv, Queues, TypeOK, Windows
  <2>2. \A w \in back_pixmap : Top(w) = w
    BY DEF IInv, Queues, TypeOK, Top
  <2>3. \A w \in linked : Top(w) = TopOf[w]
    BY WindowsAssumption DEF IInv, Queues, TypeOK, Top
  <2> QED
    BY <1>0, <2>1, <2>2, <2>3 DEF IInv, Queues, QueuedOnSurface, Top
<1> QED  BY <1>1, <1>3, <1>4, <1>5, <1>6, <1>7

\* The swaps queued on a surface are those of the windows it shows.
LEMMA QueuedOf ==
  ASSUME IInv, NEW t \in Tops, t \in shown
  PROVE  /\ Queued(t) \subseteq Windows
         /\ \A w \in Queued(t) \ spoiled : flip[w] # NoClient /\ Top(w) = t
         /\ \A w \in Windows \ spoiled :
              flip[w] # NoClient /\ Top(w) = t => w \in Queued(t)
<1>1. \A w \in linked : /\ w \in Windows /\ Top(w) = TopOf[w]
                        /\ w \notin spoiled => flip[w] # NoClient
  BY WindowsAssumption DEF IInv, Queues, TypeOK, QueuedOnSurface, Top, Windows
<1>2. \A w \in Windows \ spoiled : flip[w] # NoClient /\ Top(w) = t =>
         w = t \/ w \in linked
  BY DEF IInv, Queues, QueuedOnSurface, Top, Windows
<1> QED  BY <1>1, <1>2 DEF Queued, Top, Windows

LEMMA UnmapTopPreserves ==
  ASSUME IInv, NEW t \in Tops, UnmapTop(t)
  PROVE  IInv'
<1> DEFINE W == Queued(t) \cup
                {w \in realized : TopOf[w] = t /\ flip[w] # NoClient}
<1>1. /\ W \in SUBSET Windows
      /\ \A w \in W \ spoiled : flip[w] # NoClient /\ Top(w) = t
      /\ \A w \in Windows \ (W \cup spoiled) : flip[w] = NoClient \/ Top(w) # t
  BY QueuedOf, WindowsAssumption
  DEF UnmapTop, IInv, Queues, TypeOK, Windows, Top
<1>2. complete_flips(W) /\ t \in shown /\ shown' = shown \ {t}
      /\ dirty' = dirty \ {t} /\ back_pixmap' = back_pixmap \ {t}
      /\ phase' = "drain" /\ UNCHANGED <<refs, sleep, gone, spoiled>>
  BY DEF UnmapTop
<1>3. \A w \in back_pixmap' \ spoiled : w \in back_pixmap \ W
  BY <1>1, <1>2 DEF IInv, Queues, TypeOK, Top
<1>4. \A w \in Windows \ (W \cup spoiled) :
        flip[w] # NoClient /\ Top(w) \in shown => Top(w) \in shown' \cap dirty'
  BY <1>1, <1>2 DEF IInv, Queues, QueuedOnSurface
<1> HIDE DEF W
<1>5. /\ RefsOwned' /\ FlipOwned' /\ Apart' /\ FlipThrottles'
      /\ PendingIsQueued' /\ QueuedOnSurface' /\ Sleeps'
  BY <1>1, <1>2, <1>3, <1>4, CompletedPreserves
<1>6. TypeOK'
  <2>1. /\ swapsPending' \in [Windows -> Int]
        /\ swap_limit' \in [Windows -> {1, 2}]
        /\ target_sbc' \in [Windows -> Int]
        /\ blocked' \in [Windows -> [swap : Int, sbc : Int]]
        /\ workQueue' \subseteq Clients
        /\ flip' \in [Windows -> Clients \cup {NoClient}]
        /\ linked' \subseteq linked
    BY <1>1, <1>2, CompleteFlipsQueues
  <2> QED  BY <1>2, <2>1 DEF IInv, Queues, TypeOK, UnmapTop
<1>7. NoFatalError'
  BY <1>2 DEF NoFatalError
<1> QED  BY <1>5, <1>6, <1>7 DEF IInv, Queues

LEMMA UnmapChildPreserves ==
  ASSUME IInv, NEW k \in Children, UnmapChild(k)
  PROVE  IInv'
<1>0. k \in Windows /\ k \notin Tops /\ Top(k) = TopOf[k]
  BY WindowsAssumption DEF Windows, Top
<1>1. CASE TopOf[k] \in shown /\ flip[k] # NoClient
  <2>1. complete_flips({k}) /\ phase' = phase
        /\ UNCHANGED <<refs, sleep, gone, shown, dirty, back_pixmap, spoiled>>
    BY <1>1 DEF UnmapChild
  <2>2. \A w \in back_pixmap' \ spoiled : w \in back_pixmap \ {k}
    BY <1>0, <2>1 DEF IInv, Queues, TypeOK
  <2>3. \A w \in Windows \ ({k} \cup spoiled) :
          flip[w] # NoClient /\ Top(w) \in shown => Top(w) \in shown' \cap dirty'
    BY <2>1 DEF IInv, Queues, QueuedOnSurface
  <2>4. /\ RefsOwned' /\ FlipOwned' /\ Apart' /\ FlipThrottles'
        /\ PendingIsQueued' /\ QueuedOnSurface' /\ Sleeps'
    BY <1>0, <1>1, <2>1, <2>2, <2>3, CompletedPreserves
  <2>5. TypeOK'
    <3>1. /\ swapsPending' \in [Windows -> Int]
          /\ swap_limit' \in [Windows -> {1, 2}]
          /\ target_sbc' \in [Windows -> Int]
          /\ blocked' \in [Windows -> [swap : Int, sbc : Int]]
          /\ workQueue' \subseteq Clients
          /\ flip' \in [Windows -> Clients \cup {NoClient}]
          /\ linked' \subseteq linked
      BY <1>0, <2>1, CompleteFlipsQueues
    <3> QED  BY <2>1, <3>1 DEF IInv, Queues, TypeOK, UnmapChild
  <2> QED  BY <2>1, <2>4, <2>5 DEF IInv, Queues, NoFatalError
<1>2. CASE ~(TopOf[k] \in shown /\ flip[k] # NoClient)
  <2>1. UNCHANGED <<dri2, dix, flip, linked, back_pixmap, shown, dirty, buffer,
                    phase, spoiled>> /\ realized' = realized \ {k}
    BY <1>2 DEF UnmapChild, dri2, dix
  <2>2. Sleeps'
    BY <2>1, SleepsUnchanged DEF dri2, dix
  <2>3. TypeOK'
    BY <2>1 DEF IInv, Queues, TypeOK, dri2, dix
  <2>4. Queues'
    BY <2>1, <2>3, QueuesUnchanged DEF dri2, dix, IInv, Queues, NoFatalError
  <2> QED  BY <2>2, <2>4 DEF IInv
<1> QED  BY <1>1, <1>2

LEMMA RepaintPreserves ==
  ASSUME IInv, NEW t \in Tops, t \in dirty, Repaint(t)
  PROVE  IInv'
<1>1. t \in shown
  BY DEF IInv, Queues, TypeOK
<1>2. /\ Queued(t) \in SUBSET Windows
      /\ \A w \in Queued(t) \ spoiled : flip[w] # NoClient /\ Top(w) = t
      /\ \A w \in Windows \ (Queued(t) \cup spoiled) :
           flip[w] = NoClient \/ Top(w) # t
  BY <1>1, QueuedOf
<1>3. complete_flips(Queued(t)) /\ dirty' = dirty \ {t}
      /\ back_pixmap' = back_pixmap \ {t}
      /\ UNCHANGED <<refs, sleep, gone, shown, phase, spoiled>>
  BY DEF Repaint
<1>4. \A w \in back_pixmap' \ spoiled : w \in back_pixmap \ Queued(t)
  BY <1>2, <1>3 DEF IInv, Queues, TypeOK, Top
<1>5. \A w \in Windows \ (Queued(t) \cup spoiled) :
        flip[w] # NoClient /\ Top(w) \in shown => Top(w) \in shown' \cap dirty'
  BY <1>2, <1>3 DEF IInv, Queues, QueuedOnSurface
<1>6. /\ RefsOwned' /\ FlipOwned' /\ Apart' /\ FlipThrottles'
      /\ PendingIsQueued' /\ QueuedOnSurface' /\ Sleeps'
  BY <1>1, <1>2, <1>3, <1>4, <1>5, CompletedPreserves
<1>7. TypeOK'
  <2>1. /\ swapsPending' \in [Windows -> Int]
        /\ swap_limit' \in [Windows -> {1, 2}]
        /\ target_sbc' \in [Windows -> Int]
        /\ blocked' \in [Windows -> [swap : Int, sbc : Int]]
        /\ workQueue' \subseteq Clients
        /\ flip' \in [Windows -> Clients \cup {NoClient}]
        /\ linked' \subseteq linked
    BY <1>2, <1>3, CompleteFlipsQueues
  <2> QED  BY <1>3, <2>1 DEF IInv, Queues, TypeOK, Repaint
<1> QED  BY <1>3, <1>6, <1>7 DEF IInv, Queues, NoFatalError

LEMMA BufferAvailablePreserves ==
  ASSUME IInv, NEW t \in Tops, HandleBufferAvailable(t)
  PROVE  IInv'
<1>1. CASE t \in dirty
  BY <1>1, RepaintPreserves DEF HandleBufferAvailable
<1>2. CASE t \notin dirty
  <2>1. UNCHANGED <<dri2, dix, flip, linked, back_pixmap, realized, shown, dirty,
                    phase, spoiled>> /\ buffer' = [buffer EXCEPT ![t] = "free"]
    BY <1>2 DEF HandleBufferAvailable
  <2>2. Sleeps'
    BY <2>1, SleepsUnchanged DEF dri2, dix
  <2>3. TypeOK'
    BY <2>1 DEF IInv, Queues, TypeOK, dri2, dix
  <2>4. Queues'
    BY <2>1, <2>3, QueuesUnchanged DEF dri2, dix, IInv, Queues, NoFatalError
  <2> QED  BY <2>2, <2>4 DEF IInv
<1> QED  BY <1>1, <1>2

-----------------------------------------------------------------------------
(* The invariant *)

\* Initially nothing is queued and no one sleeps.
LEMMA InitInvariant == Init => IInv
<1> SUFFICES ASSUME Init PROVE IInv
  OBVIOUS
<1>1. TypeOK
  <2>1. sleep \in [Clients -> ({"swap", "sbc"} \X Windows) \cup {Awake}]
    BY DEF Init
  <2>2. request \in [Clients -> ({"get", "swap"} \X Windows) \cup {<<>>}]
    BY DEF Init
  <2>3. blocked \in [Windows -> [swap : Int, sbc : Int]]
    BY DEF Init
  <2> QED  BY <2>1, <2>2, <2>3 DEF Init, TypeOK, NoTarget
<1>2. Queues
  BY <1>1, OptionsAssumption
  DEF Init, Queues, RefsOwned, FlipOwned, Apart, FlipThrottles,
      PendingIsQueued, QueuedOnSurface, NoFatalError, Drawables
<1>3. Sleeps
  BY DEF Init, Sleeps, SleepOwned, WorkForSleepers, BlockedCounts, Awake
<1> QED  BY <1>2, <1>3 DEF IInv

LEMMA NextInvariant ==
  ASSUME IInv, [Next]_vars
  PROVE  IInv'
<1>1. ASSUME NEW c \in Clients, NEW w \in Windows, Render(c, w)
      PROVE  IInv'
  <2>1. <<"get", w>> \in {"get", "swap"} \X Windows
        /\ <<"swap", w>> \in {"get", "swap"} \X Windows
    OBVIOUS
  <2> QED
    BY <1>1, <2>1, CreatePreserves, ThrottlePreserves, GetBuffersPreserves,
       SwapPreserves, SwapAtOncePreserves, WaitSBCPreserves DEF Render
<1>2. CASE ClientRequest
  BY <1>1, <1>2, ClientGonePreserves, DrawPreserves, MapTopPreserves,
     UnmapTopPreserves, MapChildPreserves, UnmapChildPreserves DEF ClientRequest
<1>3. CASE MainLoop
  BY <1>3, PhasePreserves, RepaintPreserves, BufferAvailablePreserves
  DEF MainLoop, BlockRepaint
<1>4. CASE UNCHANGED vars
  <2>1. UNCHANGED <<dri2, dix, xmir, spoiled>>
    BY <1>4 DEF vars
  <2>2. Sleeps'
    BY <2>1, SleepsUnchanged DEF dri2, dix
  <2>3. TypeOK'
    BY <2>1 DEF IInv, Queues, TypeOK, dri2, dix, xmir
  <2>4. Queues'
    BY <2>1, <2>3, QueuesUnchanged DEF dri2, dix, xmir, IInv, Queues, NoFatalError
  <2> QED  BY <2>2, <2>4 DEF IInv
<1> QED
  BY <1>2, <1>3, <1>4, YieldPreserves, DrawPreserves DEF Next

\* The invariant of all that follows.
THEOREM Invariance == Spec => []IInv
<1>1. IInv /\ [Next]_vars => IInv'
  BY NextInvariant
<1> QED  BY <1>1, InitInvariant, PTL DEF Spec

\* Every variable keeps its type, whatever the clients do.
THEOREM TypeCorrect == Spec => []TypeOK
<1>1. IInv => TypeOK
  BY DEF IInv, Queues
<1> QED  BY <1>1, Invariance, PTL

\* On a window that is not spoiled, dri2.c counts as pending exactly the swaps
\* that xmir keeps in flip for a surface, whatever happens to other windows:
\* none completes twice, or without having been scheduled.
THEOREM SwapsAccounted == Spec => []PendingIsQueued
<1>1. IInv => PendingIsQueued
  BY DEF IInv, Queues
<1> QED  BY <1>1, Invariance, PTL

\* A swap that waits on a window that is not spoiled waits for a surface that is
\* going to be painted.
THEOREM SwapsQueued == Spec => []QueuedOnSurface
<1>1. IInv => QueuedOnSurface
  BY DEF IInv, Queues
<1> QED  BY <1>1, Invariance, PTL

\* The swap limit keeps all clients away from the FatalErrors of xmir-dri2.c,
\* until a window is spoiled.
THEOREM ServerSurvives == Spec => []NoFatalError
<1>1. IInv => NoFatalError
  BY DEF IInv, Queues
<1> QED  BY <1>1, Invariance, PTL

\* No wake-up is lost: who sleeps unsignalled on a window that is not spoiled is
\* counted, and a completion is still to come, unless the client waits for more
\* swaps than there are.
THEOREM NoLostWakeup == Spec => []SleepersCounted
<1>1. IInv => SleepersCounted
  <2> SUFFICES ASSUME IInv, NEW c \in Clients, NEW w \in Windows \ spoiled,
                      c \notin workQueue,
                      sleep[c] \in {<<"swap", w>>, <<"sbc", w>>}
               PROVE  /\ sleep[c] = <<"swap", w>> =>
                           blocked[w].swap > 0 /\ swapsPending[w] > 0
                      /\ sleep[c] = <<"sbc", w>> =>
                           /\ blocked[w].sbc > 0 /\ target_sbc[w] > 0
                           /\ swapsPending[w] > 0 \/ Ahead(c, w)
    BY DEF SleepersCounted
  <2>1. c \in refs[w] /\ w \in Drawables
    BY DEF IInv, Sleeps, SleepOwned, Drawables
  <2>2. CountedOn(c, w)
    BY <2>1 DEF IInv, Sleeps, BlockedCounts
  <2>3. swapsPending[w] \in {0, 1}
    BY <2>1 DEF IInv, Queues, PendingIsQueued
  <2>4. CASE sleep[c] = <<"swap", w>>
    <3>1. Unsignalled(c, "swap", w)
      BY <2>4 DEF Unsignalled
    <3> QED  BY <2>2, <2>4, <3>1 DEF CountedOn
  <2>5. CASE sleep[c] = <<"sbc", w>>
    <3>1. Unsignalled(c, "sbc", w)
      BY <2>5 DEF Unsignalled
    <3>2. blocked[w].sbc > 0 /\ target_sbc[w] > 0
      BY <2>2, <3>1 DEF CountedOn
    <3> QED  BY <2>3, <2>5, <3>2 DEF Ahead
  <2> QED  BY <2>4, <2>5
<1> QED  BY <1>1, Invariance, PTL
=============================================================================
