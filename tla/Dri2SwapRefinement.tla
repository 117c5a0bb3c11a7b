-------------------------- MODULE Dri2SwapRefinement --------------------------
(***************************************************************************)
(* The swaps of Dri2Swap implement the safety part of SwapExchange: each   *)
(* step of theirs is a step of the abstract exchange, or leaves it alone.  *)
(* A window that is spoiled is void there, and a FatalError makes all of   *)
(* them void, so that the proof looks at steps that do not end in one, and *)
(* at windows that are not spoiled.                                        *)
(***************************************************************************)
EXTENDS Dri2SwapProofs

\* What the refinement maps to the abstract variables on each window that is
\* not void.
Holds(w) == buffers[w] = "held"

PendingOn(w) == IF Top(w) \in shown THEN flip[w] ELSE NoClient

SleepsOn(c, w) == sleep[c] \in {<<"swap", w>>, <<"sbc", w>>}

AheadOn(w) == {c \in Clients : Ahead(c, w)}

AsleepOn(w) == {c \in Clients : SleepsOn(c, w) /\ c \notin workQueue /\ ~Ahead(c, w)}

NotAsleep(c) == \A v \in Windows : c \notin AsleepOn(v) \cup AheadOn(v)

\* A step that does not end in a FatalError, nor comes after one.
Alive == phase # "fatal" /\ phase' # "fatal"

\* A step that leaves w alone.
SamePending(w) == PendingOn(w)' = PendingOn(w)
SameAsleep(w) == AsleepOn(w)' = AsleepOn(w)
SameAhead(w) == AheadOn(w)' = AheadOn(w)
Alike(w) == Holds(w)' = Holds(w) /\ SamePending(w) /\ SameAsleep(w) /\ SameAhead(w)

Abstract == SX!Next \/ UNCHANGED SX!vars

-----------------------------------------------------------------------------
(* The abstract variables, and the steps of the abstract exchange *)

VHeld == {w \in Windows : buffers[w] = "held" /\ ~Void(w)}
VPending(w) == IF Top(w) \in shown /\ ~Void(w) THEN flip[w] ELSE NoClient
VAsleep(w) == {c \in Clients : /\ sleep[c] \in {<<"swap", w>>, <<"sbc", w>>}
                               /\ c \notin workQueue
                               /\ ~Ahead(c, w) /\ ~Void(w)}
VAhead(w) == {c \in Clients : Ahead(c, w) /\ ~Void(w)}

\* They are what they should be on a window that is not void, and nothing on
\* one that is.
LEMMA Mapped ==
  \A w \in Windows :
    /\ w \in VHeld <=> Holds(w) /\ ~Void(w)
    /\ VPending(w) = IF Void(w) THEN NoClient ELSE PendingOn(w)
    /\ VAsleep(w) = IF Void(w) THEN {} ELSE AsleepOn(w)
    /\ VAhead(w) = IF Void(w) THEN {} ELSE AheadOn(w)
BY DEF VHeld, VPending, VAsleep, VAhead, Holds, PendingOn, AsleepOn, AheadOn,
       SleepsOn

LEMMA MappedNext ==
  \A w \in Windows :
    /\ w \in VHeld' <=> Holds(w)' /\ ~Void(w)'
    /\ VPending(w)' = IF Void(w)' THEN NoClient ELSE PendingOn(w)'
    /\ VAsleep(w)' = IF Void(w)' THEN {} ELSE AsleepOn(w)'
    /\ VAhead(w)' = IF Void(w)' THEN {} ELSE AheadOn(w)'
BY DEF VHeld, VPending, VAsleep, VAhead, Holds, PendingOn, AsleepOn, AheadOn,
       SleepsOn

\* A step that ends in a FatalError gives up every window.
LEMMA AbstractFatal ==
  ASSUME phase' = "fatal"
  PROVE  Abstract
<1>1. SX!Forfeit(Windows)
  BY DEF SX!Forfeit, Void
<1> QED  BY <1>1 DEF Abstract, SX!Next

\* A step that spoils nothing leaves void what is, and what it leaves alone on
\* all windows but U it leaves alone in the abstract exchange.
LEMMA AliveVoid ==
  ASSUME Alive, UNCHANGED spoiled, NEW U,
         \A v \in Windows \ (spoiled \cup U) : Alike(v)
  PROVE  /\ \A v \in Windows : (Void(v) <=> v \in spoiled) /\ Void(v)' = Void(v)
         /\ \A v \in Windows \ U : /\ v \in VHeld' <=> v \in VHeld
                                   /\ VPending(v)' = VPending(v)
                                   /\ VAsleep(v)' = VAsleep(v)
                                   /\ VAhead(v)' = VAhead(v)
<1>1. \A v \in Windows : (Void(v) <=> v \in spoiled) /\ Void(v)' = Void(v)
  BY DEF Alive, Void
<1>2. \A v \in Windows \ (spoiled \cup U) :
         /\ Holds(v)' = Holds(v) /\ PendingOn(v)' = PendingOn(v)
         /\ AsleepOn(v)' = AsleepOn(v) /\ AheadOn(v)' = AheadOn(v)
  BY DEF Alike, SamePending, SameAsleep, SameAhead
<1> QED  BY <1>1, <1>2, Mapped, MappedNext

\* Who sleeps on no window sleeps on none that is not void.
LEMMA AbstractAwake ==
  ASSUME NEW c \in Clients, NotAsleep(c)
  PROVE  SX!Awake(c)
BY DEF SX!Awake, NotAsleep, AsleepOn, AheadOn, SleepsOn

\* Some windows are spoiled, or none, and the others are left alone.
LEMMA AbstractForfeit ==
  ASSUME Alive, TypeOK', spoiled \subseteq spoiled',
         \A w \in Windows \ spoiled' : Alike(w)
  PROVE  Abstract
<1>1. PICK W \in SUBSET Windows : W = spoiled'
  BY DEF TypeOK
<1>2. SX!Forfeit(W)
  BY <1>1
  DEF SX!Forfeit, Alive, Void, Alike, Holds, SamePending, PendingOn, SameAsleep,
      AsleepOn, SameAhead, AheadOn, SleepsOn
<1> QED  BY <1>2 DEF Abstract, SX!Next

LEMMA AbstractCreate ==
  ASSUME Alive, UNCHANGED spoiled, NEW w \in Windows \ spoiled,
         ~Holds(w)', SamePending(w), SameAsleep(w), SameAhead(w),
         \A v \in Windows \ (spoiled \cup {w}) : Alike(v)
  PROVE  Abstract
<1>1. /\ \A v \in Windows : (Void(v) <=> v \in spoiled) /\ Void(v)' = Void(v)
      /\ \A v \in Windows \ {w} : /\ v \in VHeld' <=> v \in VHeld
                                  /\ VPending(v)' = VPending(v)
                                  /\ VAsleep(v)' = VAsleep(v)
                                  /\ VAhead(v)' = VAhead(v)
  BY AliveVoid
<1>2. /\ w \notin VHeld' /\ VPending(w)' = VPending(w)
      /\ VAsleep(w)' = VAsleep(w) /\ VAhead(w)' = VAhead(w)
  BY <1>1, Mapped, MappedNext DEF SamePending, SameAsleep, SameAhead
<1>3. VHeld \subseteq Windows /\ VHeld' \subseteq Windows
  BY DEF VHeld
<1>4. SX!Create(w)
  BY <1>1, <1>2, <1>3
  DEF SX!Create, VHeld, VPending, VAsleep, VAhead
<1> QED  BY <1>4 DEF Abstract, SX!Next

LEMMA AbstractGet ==
  ASSUME Alive, UNCHANGED spoiled, NEW c \in Clients, NEW w \in Windows \ spoiled,
         NotAsleep(c), PendingOn(w) = NoClient, Holds(w)',
         SamePending(w), SameAsleep(w), SameAhead(w),
         \A v \in Windows \ (spoiled \cup {w}) : Alike(v)
  PROVE  Abstract
<1>1. /\ \A v \in Windows : (Void(v) <=> v \in spoiled) /\ Void(v)' = Void(v)
      /\ \A v \in Windows \ {w} : /\ v \in VHeld' <=> v \in VHeld
                                  /\ VPending(v)' = VPending(v)
                                  /\ VAsleep(v)' = VAsleep(v)
                                  /\ VAhead(v)' = VAhead(v)
  BY AliveVoid
<1>2. /\ w \in VHeld' /\ VPending(w)' = VPending(w) /\ VPending(w) = NoClient
      /\ VAsleep(w)' = VAsleep(w) /\ VAhead(w)' = VAhead(w)
  BY <1>1, Mapped, MappedNext DEF SamePending, SameAsleep, SameAhead
<1>3. VHeld \subseteq Windows /\ VHeld' \subseteq Windows
  BY DEF VHeld
<1>4. SX!Get(c, w)
  BY <1>1, <1>2, <1>3, AbstractAwake
  DEF SX!Get, VHeld, VPending, VAsleep, VAhead
<1> QED  BY <1>4 DEF Abstract, SX!Next

LEMMA AbstractSwap ==
  ASSUME Alive, UNCHANGED spoiled, NEW c \in Clients, NEW w \in Windows \ spoiled,
         NotAsleep(c), PendingOn(w) = NoClient, Holds(w), PendingOn(w)' = c,
         SameAsleep(w), SameAhead(w),
         \A v \in Windows \ (spoiled \cup {w}) : Alike(v)
  PROVE  Abstract
<1>1. /\ \A v \in Windows : (Void(v) <=> v \in spoiled) /\ Void(v)' = Void(v)
      /\ \A v \in Windows \ {w} : /\ v \in VHeld' <=> v \in VHeld
                                  /\ VPending(v)' = VPending(v)
                                  /\ VAsleep(v)' = VAsleep(v)
                                  /\ VAhead(v)' = VAhead(v)
  BY AliveVoid
<1>2. /\ w \in VHeld /\ VPending(w)' = c /\ VPending(w) = NoClient
      /\ VAsleep(w)' = VAsleep(w) /\ VAhead(w)' = VAhead(w)
  BY <1>1, Mapped, MappedNext DEF SamePending, SameAsleep, SameAhead
<1>3. VHeld \subseteq Windows /\ VHeld' \subseteq Windows
  BY DEF VHeld
<1>4. [v \in Windows |-> VPending(v)]' =
        [[v \in Windows |-> VPending(v)] EXCEPT ![w] = c]
  BY <1>1, <1>2
<1>5. SX!Swap(c, w)
  BY <1>1, <1>2, <1>3, <1>4, AbstractAwake
  DEF SX!Swap, VHeld, VPending, VAsleep, VAhead
<1> QED  BY <1>5 DEF Abstract, SX!Next

LEMMA AbstractWait ==
  ASSUME Alive, UNCHANGED spoiled, NEW c \in Clients, NEW w \in Windows \ spoiled,
         NotAsleep(c), PendingOn(w) = c, Holds(w)' = Holds(w), SamePending(w),
         AsleepOn(w)' = AsleepOn(w) \cup {c}, SameAhead(w),
         \A v \in Windows \ (spoiled \cup {w}) : Alike(v)
  PROVE  Abstract
<1>1. /\ \A v \in Windows : (Void(v) <=> v \in spoiled) /\ Void(v)' = Void(v)
      /\ \A v \in Windows \ {w} : /\ v \in VHeld' <=> v \in VHeld
                                  /\ VPending(v)' = VPending(v)
                                  /\ VAsleep(v)' = VAsleep(v)
                                  /\ VAhead(v)' = VAhead(v)
  BY AliveVoid
<1>2. /\ w \in VHeld' <=> w \in VHeld
      /\ VPending(w)' = VPending(w) /\ VPending(w) = c
      /\ VAsleep(w)' = VAsleep(w) \cup {c} /\ VAhead(w)' = VAhead(w)
  BY <1>1, Mapped, MappedNext DEF SamePending, SameAsleep, SameAhead
<1>3. VHeld \subseteq Windows /\ VHeld' \subseteq Windows
  BY DEF VHeld
<1>4. [v \in Windows |-> VAsleep(v)]' =
        [[v \in Windows |-> VAsleep(v)] EXCEPT ![w] = @ \cup {c}]
  BY <1>1, <1>2
<1>5. SX!Wait(c, w)
  BY <1>1, <1>2, <1>3, <1>4, AbstractAwake
  DEF SX!Wait, VHeld, VPending, VAsleep, VAhead
<1> QED  BY <1>5 DEF Abstract, SX!Next

LEMMA AbstractWaitAhead ==
  ASSUME Alive, UNCHANGED spoiled, NEW c \in Clients, NEW w \in Windows \ spoiled,
         NotAsleep(c), Holds(w)' = Holds(w), SamePending(w), SameAsleep(w),
         AheadOn(w)' = AheadOn(w) \cup {c},
         \A v \in Windows \ (spoiled \cup {w}) : Alike(v)
  PROVE  Abstract
<1>1. /\ \A v \in Windows : (Void(v) <=> v \in spoiled) /\ Void(v)' = Void(v)
      /\ \A v \in Windows \ {w} : /\ v \in VHeld' <=> v \in VHeld
                                  /\ VPending(v)' = VPending(v)
                                  /\ VAsleep(v)' = VAsleep(v)
                                  /\ VAhead(v)' = VAhead(v)
  BY AliveVoid
<1>2. /\ w \in VHeld' <=> w \in VHeld
      /\ VPending(w)' = VPending(w)
      /\ VAsleep(w)' = VAsleep(w) /\ VAhead(w)' = VAhead(w) \cup {c}
  BY <1>1, Mapped, MappedNext DEF SamePending, SameAsleep, SameAhead
<1>3. VHeld \subseteq Windows /\ VHeld' \subseteq Windows
  BY DEF VHeld
<1>4. [v \in Windows |-> VAhead(v)]' =
        [[v \in Windows |-> VAhead(v)] EXCEPT ![w] = @ \cup {c}]
  BY <1>1, <1>2
<1>5. SX!WaitAhead(c, w)
  BY <1>1, <1>2, <1>3, <1>4, AbstractAwake
  DEF SX!WaitAhead, VHeld, VPending, VAsleep, VAhead
<1> QED  BY <1>5 DEF Abstract, SX!Next

LEMMA AbstractComplete ==
  ASSUME Alive, UNCHANGED spoiled, NEW W \in SUBSET (Windows \ spoiled),
         \A w \in W : /\ PendingOn(w) # NoClient /\ PendingOn(w)' = NoClient
                      /\ AsleepOn(w)' = {} /\ SameAhead(w)
                      /\ Holds(w)' = Holds(w),
         \A v \in Windows \ (spoiled \cup W) : Alike(v)
  PROVE  Abstract
<1>1. SX!Complete(W)
  BY DEF SX!Complete, Alive, Void, Alike, Holds, SamePending,
         PendingOn, SameAsleep, AsleepOn, SameAhead, AheadOn, SleepsOn
<1> QED  BY <1>1 DEF Abstract, SX!Next

LEMMA AbstractLeave ==
  ASSUME Alive, UNCHANGED spoiled, NEW c \in Clients,
         \A w \in Windows \ spoiled :
            /\ Holds(w)' = Holds(w) /\ SamePending(w)
            /\ AsleepOn(w)' = AsleepOn(w) \ {c} /\ AheadOn(w)' = AheadOn(w) \ {c}
  PROVE  Abstract
<1>1. SX!Leave(c)
  BY DEF SX!Leave, Alive, Void, Alike, Holds, SamePending, PendingOn, SameAsleep,
         AsleepOn, SameAhead, AheadOn, SleepsOn
<1> QED  BY <1>1 DEF Abstract, SX!Next

-----------------------------------------------------------------------------
(* What the steps of the swaps leave alone *)

\* This is all that the refinement looks at.
LEMMA Unmoved ==
  ASSUME NEW w \in Windows, buffers'[w] = buffers[w],
         flip'[w] = flip[w], target_sbc'[w] = target_sbc[w],
         swapsPending'[w] = swapsPending[w], UNCHANGED <<shown, sleep, workQueue>>
  PROVE  Alike(w)
BY DEF Alike, Holds, SamePending, PendingOn, SameAsleep, AsleepOn, SameAhead,
       AheadOn, SleepsOn, Ahead, Top

\* A step with nothing of this in it.
LEMMA OtherStep ==
  ASSUME Alive, TypeOK', UNCHANGED <<buffers, flip, target_sbc, swapsPending, shown,
                                     sleep, workQueue, spoiled>>
  PROVE  Abstract
BY Unmoved, AbstractForfeit

\* Who makes a request sleeps for nothing.
LEMMA ReadyNotAsleep ==
  ASSUME IInv, NEW c \in Clients, NEW q, Ready(c, q)
  PROVE  NotAsleep(c)
<1>1. sleep[c] = Awake
  BY ReadyAwake
<1> QED  BY <1>1 DEF NotAsleep, AsleepOn, AheadOn, SleepsOn, Ahead, Awake

\* No one sleeps on a window while its client makes a request.
LEMMA NobodyWaits ==
  ASSUME IInv, NEW w \in Windows \ spoiled, NEW c \in refs[w], NEW q, Ready(c, q)
  PROVE  /\ \A d \in Clients : ~SleepsOn(d, w)
         /\ AsleepOn(w) = {} /\ AheadOn(w) = {}
<1>1. c \in Clients
  BY DEF IInv, Queues, TypeOK
<1>2. ASSUME NEW d \in Clients PROVE ~SleepsOn(d, w)
  <2>1. SUFFICES ASSUME SleepsOn(d, w) PROVE FALSE
    OBVIOUS
  <2>2. d \in refs[w]
    BY <2>1 DEF SleepsOn, IInv, Sleeps, SleepOwned
  <2>3. d = c
    BY <2>2 DEF IInv, Queues, RefsOwned
  <2>4. sleep[c] = Awake
    BY <1>1, ReadyAwake
  <2> QED  BY <2>1, <2>3, <2>4 DEF SleepsOn, Awake
<1> QED  BY <1>2 DEF AsleepOn, AheadOn, Ahead, SleepsOn

\* With a swap pending, it is that of the window's client.
LEMMA PendingOfRenderer ==
  ASSUME IInv, NEW w \in Windows \ spoiled, NEW c \in refs[w], swapsPending[w] # 0
  PROVE  swapsPending[w] = 1 /\ PendingOn(w) = c
<1>1. w \in Drawables
  BY DEF Drawables
<1>2. swapsPending[w] = 1 /\ flip[w] # NoClient /\ Top(w) \in shown
  BY <1>1 DEF IInv, Queues, PendingIsQueued
<1> QED  BY <1>2, FlipOfRenderer DEF PendingOn

\* A client that is let through finds no swap of its window pending.
LEMMA ProceedIdle ==
  ASSUME IInv, NEW c \in Clients, NEW w \in Windows \ spoiled, NEW q, Proceed(c, w, q)
  PROVE  /\ NotAsleep(c) /\ PendingOn(w) = NoClient
         /\ \A d \in Clients : ~SleepsOn(d, w)
<1>1. Ready(c, q) /\ c \in refs[w] /\ ~Throttled(w)
  BY DEF Proceed
<1>2. flip[w] = NoClient \/ Top(w) \notin shown
  BY <1>1, IdleWhenUnthrottled
<1>3. NotAsleep(c) /\ PendingOn(w) = NoClient
  BY <1>1, <1>2, ReadyNotAsleep DEF PendingOn
<1> QED  BY <1>1, <1>3, NobodyWaits

\* Sleepers on a window are the same when only others are signalled.
LEMMA OthersSignalled ==
  ASSUME NEW w \in Windows, UNCHANGED sleep, workQueue \subseteq workQueue',
         target_sbc'[w] = target_sbc[w], swapsPending'[w] = swapsPending[w],
         \A d \in workQueue' : d \in workQueue \/ ~SleepsOn(d, w)
  PROVE  SameAsleep(w) /\ SameAhead(w)
BY DEF SameAsleep, AsleepOn, SameAhead, AheadOn, SleepsOn, Ahead

\* Where no one sleeps, no one does after a step that puts no one to sleep.
LEMMA StillNobody ==
  ASSUME NEW w \in Windows, UNCHANGED sleep, \A d \in Clients : ~SleepsOn(d, w)
  PROVE  SameAsleep(w) /\ SameAhead(w)
BY DEF SameAsleep, AsleepOn, SameAhead, AheadOn, SleepsOn, Ahead

-----------------------------------------------------------------------------
(* The requests of clients *)

LEMMA CreateRefines ==
  ASSUME IInv, IInv', Alive, NEW c \in Clients, NEW w \in Windows,
         ProcDRI2CreateDrawable(c, w)
  PROVE  Abstract
<1>1. /\ UNCHANGED <<flip, shown, sleep, workQueue>>
      /\ \A v \in Windows \ {w} : /\ buffers'[v] = buffers[v]
                                  /\ target_sbc'[v] = target_sbc[v]
                                  /\ swapsPending'[v] = swapsPending[v]
      /\ spoiled' = IF Contested(c, w) THEN spoiled \cup {w} ELSE spoiled
  BY DEF ProcDRI2CreateDrawable, dix, xmir, IInv, Queues, TypeOK
<1>2. \A v \in Windows \ {w} : Alike(v)
  BY <1>1, Unmoved
<1>3. CASE w \in spoiled'
  BY <1>1, <1>2, <1>3, AbstractForfeit DEF IInv, Queues
<1>4. CASE w \notin spoiled'
  <2>1. w \notin spoiled /\ spoiled' = spoiled /\ ~Contested(c, w)
    BY <1>1, <1>4
  <2>2. refs[w] = {}
    BY <2>1 DEF Contested, ProcDRI2CreateDrawable
  <2>3. \A d \in Clients : ~SleepsOn(d, w)
    BY <2>2 DEF SleepsOn, IInv, Sleeps, SleepOwned
  <2>4. SameAsleep(w) /\ SameAhead(w)
    BY <1>1, <2>3, StillNobody
  <2>5. ~Holds(w)'
    BY <2>2 DEF Holds, ProcDRI2CreateDrawable, Drawables, IInv, Queues, TypeOK
  <2>6. SamePending(w)
    BY <1>1 DEF SamePending, PendingOn, Top
  <2> QED  BY <1>2, <2>1, <2>4, <2>5, <2>6, AbstractCreate
<1> QED  BY <1>3, <1>4

\* A client that falls asleep on w.
LEMMA FallsAsleep ==
  ASSUME IInv, NEW c \in Clients, NEW w \in Windows, NEW q, Ready(c, q), c \in refs[w],
         NEW what \in {"swap", "sbc"},
         sleep' = [sleep EXCEPT ![c] = <<what, w>>],
         \A v \in Windows \ {w} : target_sbc'[v] = target_sbc[v],
         UNCHANGED <<buffers, flip, shown, swapsPending, workQueue>>
  PROVE  /\ \A v \in Windows \ {w} : Alike(v)
         /\ Holds(w)' = Holds(w) /\ SamePending(w) /\ NotAsleep(c)
         /\ w \notin spoiled =>
              IF Ahead(c, w)'
                THEN SameAsleep(w) /\ AheadOn(w)' = AheadOn(w) \cup {c}
                ELSE AsleepOn(w)' = AsleepOn(w) \cup {c} /\ SameAhead(w)
<1>1. /\ \A d \in Clients : sleep'[d] = IF d = c THEN <<what, w>> ELSE sleep[d]
      /\ sleep[c] = Awake /\ c \notin workQueue /\ NotAsleep(c)
  BY ReadyAwake, ReadyNotAsleep DEF IInv, Queues, TypeOK
<1>2. ASSUME NEW v \in Windows \ {w} PROVE Alike(v)
  <2>1. \A d \in Clients : SleepsOn(d, v)' = SleepsOn(d, v) /\ Ahead(d, v)' = Ahead(d, v)
    BY <1>1 DEF SleepsOn, Ahead, Awake
  <2> QED
    BY <2>1 DEF Alike, Holds, SamePending, PendingOn, SameAsleep, AsleepOn,
                SameAhead, AheadOn, Top
<1>3. Holds(w)' = Holds(w) /\ SamePending(w)
  BY DEF Holds, SamePending, PendingOn, Top
<1>4. ASSUME w \notin spoiled
      PROVE  IF Ahead(c, w)'
                THEN SameAsleep(w) /\ AheadOn(w)' = AheadOn(w) \cup {c}
                ELSE AsleepOn(w)' = AsleepOn(w) \cup {c} /\ SameAhead(w)
  <2>1. /\ \A d \in Clients : ~SleepsOn(d, w)
        /\ AsleepOn(w) = {} /\ AheadOn(w) = {}
    BY <1>4, NobodyWaits
  <2>2. \A d \in Clients \ {c} : ~SleepsOn(d, w)' /\ ~Ahead(d, w)'
    BY <1>1, <2>1 DEF SleepsOn, Ahead
  <2>3. SleepsOn(c, w)' /\ c \notin workQueue'
    BY <1>1 DEF SleepsOn
  <2> QED  BY <2>1, <2>2, <2>3 DEF SameAsleep, AsleepOn, SameAhead, AheadOn
<1> QED  BY <1>1, <1>2, <1>3, <1>4

\* A throttled client sleeps for its own swap.
LEMMA ThrottleRefines ==
  ASSUME IInv, IInv', Alive, NEW c \in Clients, NEW w \in Windows,
         NEW q, Throttle(c, w, q)
  PROVE  Abstract
<1>1. /\ Ready(c, q) /\ c \in refs[w] /\ Throttled(w)
      /\ sleep' = [sleep EXCEPT ![c] = <<"swap", w>>]
      /\ UNCHANGED <<buffers, flip, shown, target_sbc, swapsPending, workQueue, spoiled>>
  BY DEF Throttle, xmir
<1>2. /\ \A v \in Windows \ {w} : Alike(v)
      /\ Holds(w)' = Holds(w) /\ SamePending(w) /\ NotAsleep(c)
      /\ w \notin spoiled =>
           IF Ahead(c, w)'
             THEN SameAsleep(w) /\ AheadOn(w)' = AheadOn(w) \cup {c}
             ELSE AsleepOn(w)' = AsleepOn(w) \cup {c} /\ SameAhead(w)
  BY <1>1, FallsAsleep
<1>3. CASE w \in spoiled
  BY <1>1, <1>2, <1>3, AbstractForfeit DEF IInv, Queues
<1>4. CASE w \notin spoiled
  <2>0. sleep'[c] = <<"swap", w>> /\ sleep'[c] # <<"sbc", w>>
    BY <1>1 DEF IInv, Queues, TypeOK
  <2>1. ~Ahead(c, w)'
    BY <2>0 DEF Ahead
  <2>2. swapsPending[w] # 0
    <3>1. swap_limit[w] \in {1, 2}
      BY DEF IInv, Queues, TypeOK
    <3> QED  BY <1>1, <3>1 DEF Throttled, Exceeds
  <2>3. PendingOn(w) = c
    BY <1>1, <1>4, <2>2, PendingOfRenderer
  <2> QED  BY <1>1, <1>2, <1>4, <2>1, <2>3, AbstractWait
<1> QED  BY <1>3, <1>4

\* A client that waits for an SBC sleeps for its own swap, too, or for one
\* that is ahead of it.
LEMMA WaitSBCRefines ==
  ASSUME IInv, IInv', Alive, NEW c \in Clients, NEW w \in Windows,
         NEW n \in Targets, ProcDRI2WaitSBC(c, w, n)
  PROVE  Abstract
<1>1. /\ Ready(c, <<>>) /\ c \in refs[w] /\ (n > 0 \/ swapsPending[w] > 0)
      /\ sleep' = [sleep EXCEPT ![c] = <<"sbc", w>>]
      /\ UNCHANGED <<buffers, flip, shown, swapsPending, workQueue, spoiled>>
  BY DEF ProcDRI2WaitSBC, xmir
<1>2. /\ \A v \in Windows \ {w} : target_sbc'[v] = target_sbc[v]
      /\ target_sbc'[w] = IF n > 0 THEN n ELSE swapsPending[w]
  BY DEF ProcDRI2WaitSBC, IInv, Queues, TypeOK
<1>3. /\ \A v \in Windows \ {w} : Alike(v)
      /\ Holds(w)' = Holds(w) /\ SamePending(w) /\ NotAsleep(c)
      /\ w \notin spoiled =>
           IF Ahead(c, w)'
             THEN SameAsleep(w) /\ AheadOn(w)' = AheadOn(w) \cup {c}
             ELSE AsleepOn(w)' = AsleepOn(w) \cup {c} /\ SameAhead(w)
  BY <1>1, <1>2, FallsAsleep
<1>4. CASE w \in spoiled
  BY <1>1, <1>3, <1>4, AbstractForfeit DEF IInv, Queues
<1>5. CASE w \notin spoiled /\ Ahead(c, w)'
  BY <1>1, <1>3, <1>5, AbstractWaitAhead
<1>6. CASE w \notin spoiled /\ ~Ahead(c, w)'
  <2>1. sleep'[c] = <<"sbc", w>> /\ c \notin workQueue'
    BY <1>1, ReadyAwake DEF IInv, Queues, TypeOK
  <2>2. ~(target_sbc'[w] > swapsPending[w])
    BY <1>1, <1>6, <2>1 DEF Ahead
  <2>3. n \in Nat /\ swapsPending[w] \in Int
    BY OptionsAssumption DEF IInv, Queues, TypeOK
  <2>4. swapsPending[w] # 0
    BY <1>1, <1>2, <2>2, <2>3
  <2>5. PendingOn(w) = c
    BY <1>1, <1>6, <2>4, PendingOfRenderer
  <2> QED  BY <1>1, <1>3, <1>6, <2>5, AbstractWait
<1> QED  BY <1>4, <1>5, <1>6

\* No buffer is handed out while a swap is pending.
LEMMA GetBuffersRefines ==
  ASSUME IInv, IInv', Alive, NEW c \in Clients, NEW w \in Windows,
         ProcDRI2GetBuffers(c, w)
  PROVE  Abstract
<1>1. /\ Proceed(c, w, <<"get", w>>)
      /\ UNCHANGED <<sleep, shown, workQueue, flip, target_sbc, swapsPending, spoiled>>
      /\ buffers' = [buffers EXCEPT ![w] = "held"]
  BY DEF ProcDRI2GetBuffers, Proceed, Alive
<1>2. \A v \in Windows \ {w} : Alike(v)
  BY <1>1, Unmoved DEF IInv, Queues, TypeOK
<1>3. CASE w \in spoiled
  BY <1>1, <1>2, <1>3, AbstractForfeit DEF IInv, Queues
<1>4. CASE w \notin spoiled
  <2>1. /\ NotAsleep(c) /\ PendingOn(w) = NoClient
        /\ \A d \in Clients : ~SleepsOn(d, w)
    BY <1>1, <1>4, ProceedIdle
  <2>2. SameAsleep(w) /\ SameAhead(w)
    BY <1>1, <2>1, StillNobody
  <2>3. Holds(w)' /\ SamePending(w)
    BY <1>1 DEF Holds, SamePending, PendingOn, Top, IInv, Queues, TypeOK
  <2> QED  BY <1>1, <1>2, <1>4, <2>1, <2>2, <2>3, AbstractGet
<1> QED  BY <1>3, <1>4

\* A swap is scheduled on a flip of the window or on a copy.
LEMMA SwapRefines ==
  ASSUME IInv, IInv', Alive, NEW c \in Clients, NEW w \in Windows,
         ProcDRI2SwapBuffers(c, w)
  PROVE  Abstract
<1>1. /\ Proceed(c, w, <<"swap", w>>) /\ Holds(w)
      /\ UNCHANGED <<sleep, shown, target_sbc, spoiled>>
      /\ flip' = [flip EXCEPT ![w] = c] /\ workQueue \subseteq workQueue'
      /\ \A v \in Windows \ {w} : /\ buffers'[v] = buffers[v]
                                  /\ swapsPending'[v] = swapsPending[v]
  BY DEF ProcDRI2SwapBuffers, Proceed, Holds, Flip, Blit, NotScheduled, IInv,
         Queues, TypeOK
<1>2. \A d \in workQueue' : d \in workQueue \/ sleep[d] = <<"swap", w>>
  BY DEF ProcDRI2SwapBuffers, Flip, Blit, NotScheduled, Signalled, Sleepers
<1>3. ASSUME NEW v \in Windows \ {w} PROVE Alike(v)
  <2>1. SameAsleep(v) /\ SameAhead(v)
    BY <1>1, <1>2, OthersSignalled DEF SleepsOn
  <2>2. SamePending(v) /\ Holds(v)' = Holds(v)
    BY <1>1 DEF SamePending, PendingOn, Holds, Top, IInv, Queues, TypeOK
  <2> QED  BY <2>1, <2>2 DEF Alike
<1>4. CASE w \in spoiled
  BY <1>1, <1>3, <1>4, AbstractForfeit DEF IInv, Queues
<1>5. CASE w \notin spoiled
  <2>1. /\ NotAsleep(c) /\ PendingOn(w) = NoClient
        /\ \A d \in Clients : ~SleepsOn(d, w)
    BY <1>1, <1>5, ProceedIdle
  <2>2. SameAsleep(w) /\ SameAhead(w)
    BY <1>1, <2>1, StillNobody
  <2>3. CASE Top(w) \in shown
    <3>1. PendingOn(w)' = c
      BY <1>1, <2>3 DEF PendingOn, Top, IInv, Queues, TypeOK
    <3> QED  BY <1>1, <1>3, <1>5, <2>1, <2>2, <3>1, AbstractSwap
  <2>4. CASE Top(w) \notin shown
    <3>1. SamePending(w)
      BY <1>1, <2>4 DEF SamePending, PendingOn, Top
    <3>2. UNCHANGED buffers
      BY <2>4 DEF ProcDRI2SwapBuffers, Flip, Blit, NotScheduled, Top, IInv, Queues,
                  TypeOK
    <3>3. Alike(w)
      BY <2>2, <3>1, <3>2 DEF Alike, Holds
    <3> QED  BY <1>1, <1>3, <3>3, AbstractForfeit DEF IInv, Queues
  <2> QED  BY <2>3, <2>4
<1> QED  BY <1>4, <1>5

\* With nothing pending a swap that completes at once has no one to wake.
LEMMA SwapAtOnceRefines ==
  ASSUME IInv, IInv', Alive, NEW c \in Clients, NEW w \in Windows, SwapAtOnce(c, w)
  PROVE  Abstract
<1>1. /\ Proceed(c, w, <<"swap", w>>)
      /\ UNCHANGED <<sleep, shown, flip, buffers, swapsPending, spoiled>>
      /\ workQueue \subseteq workQueue'
      /\ \A v \in Windows \ {w} : target_sbc'[v] = target_sbc[v]
  BY DEF SwapAtOnce, Proceed, DRI2SwapComplete
<1>2. \A d \in workQueue' : d \in workQueue \/ SleepsOn(d, w)
  <2> SUFFICES ASSUME NEW d \in workQueue', d \notin workQueue PROVE SleepsOn(d, w)
    OBVIOUS
  <2>1. d \in Signalled(w) \/ SbcWoken(w, d)
    BY DEF SwapAtOnce, DRI2SwapComplete
  <2> QED  BY <2>1 DEF Signalled, Sleepers, SbcWoken, SleepsOn
<1>3. ASSUME NEW v \in Windows, v # w \/ w \notin spoiled PROVE Alike(v)
  <2>1. SamePending(v) /\ Holds(v)' = Holds(v)
    BY <1>1 DEF SamePending, PendingOn, Holds, Top
  <2>2. CASE v # w
    <3>1. \A d \in workQueue' : d \in workQueue \/ ~SleepsOn(d, v)
      BY <1>2, <2>2 DEF SleepsOn
    <3> QED  BY <1>1, <2>1, <2>2, <3>1, OthersSignalled DEF Alike
  <2>3. CASE v = w
    <3>1. \A d \in Clients : ~SleepsOn(d, w)
      BY <1>1, <1>3, <2>3, ProceedIdle
    <3> QED  BY <1>1, <2>1, <2>3, <3>1, StillNobody DEF Alike
  <2> QED  BY <2>2, <2>3
<1> QED  BY <1>1, <1>3, AbstractForfeit DEF IInv, Queues

LEMMA ClientGoneRefines ==
  ASSUME IInv, Alive, NEW c \in Clients, ClientGone(c)
  PROVE  Abstract
<1>1. /\ sleep' = [sleep EXCEPT ![c] = Awake] /\ workQueue' = workQueue \ {c}
      /\ UNCHANGED <<buffers, flip, shown, target_sbc, swapsPending, spoiled>>
  BY DEF ClientGone, xmir
<1>2. \A d \in Clients : sleep'[d] = IF d = c THEN Awake ELSE sleep[d]
  BY <1>1 DEF IInv, Queues, TypeOK
<1>3. ASSUME NEW w \in Windows
      PROVE  /\ AsleepOn(w)' = AsleepOn(w) \ {c}
             /\ AheadOn(w)' = AheadOn(w) \ {c}
  <2>1. ~SleepsOn(c, w)' /\ ~Ahead(c, w)'
    BY <1>2 DEF SleepsOn, Ahead, Awake
  <2>2. \A d \in Clients \ {c} : /\ SleepsOn(d, w)' = SleepsOn(d, w)
                                 /\ Ahead(d, w)' = Ahead(d, w)
                                 /\ d \in workQueue' <=> d \in workQueue
    BY <1>1, <1>2 DEF SleepsOn, Ahead
  <2> QED  BY <2>1, <2>2 DEF AsleepOn, AheadOn
<1>4. \A w \in Windows : Holds(w)' = Holds(w) /\ SamePending(w)
  BY <1>1 DEF Holds, SamePending, PendingOn, Top
<1> QED  BY <1>1, <1>3, <1>4, AbstractLeave

-----------------------------------------------------------------------------
(* Windows and the main loop *)

\* Whoever sleeps for the swap of w is woken by its completion, unless it
\* waits for an SBC ahead of it, and goes on waiting.
LEMMA CompletionWakes ==
  ASSUME IInv, NEW W \in SUBSET Windows, complete_flips(W), UNCHANGED sleep,
         NEW w \in W \ spoiled, flip[w] # NoClient, Top(w) \in shown
  PROVE  AsleepOn(w)' = {} /\ AheadOn(w)' = AheadOn(w)
<1>1. workQueue \subseteq workQueue'
  BY DEF complete_flips, DRI2SwapComplete
<1>2. ASSUME NEW c \in Clients, SleepsOn(c, w), c \notin workQueue
      PROVE  /\ c \in AsleepOn(w) => c \in workQueue'
             /\ Ahead(c, w) => Ahead(c, w)'
  <2>1. c \in refs[w] /\ w \in Drawables
    BY <1>2 DEF SleepsOn, IInv, Sleeps, SleepOwned, Drawables
  <2>2. flip[w] = c /\ CountedOn(c, w) /\ swapsPending[w] = 1
    BY <2>1, FlipOfRenderer
    DEF IInv, Sleeps, BlockedCounts, Queues, PendingIsQueued
  <2>3. CASE sleep[c] = <<"swap", w>>
    <3>1. c \in workQueue'
      BY <1>1, <2>1, <2>3, WakesAll DEF complete_flips, DRI2SwapComplete
    <3> QED  BY <2>3, <3>1 DEF Ahead
  <2>4. CASE sleep[c] = <<"sbc", w>>
    <3>1. Unsignalled(c, "sbc", w)
      BY <1>2, <2>4 DEF Unsignalled
    <3>2. blocked[w].sbc = 1 /\ target_sbc[w] > 0 /\ target_sbc[w] \in Int
      BY <2>2, <3>1 DEF CountedOn, IInv, Queues, TypeOK
    <3>3. CASE target_sbc[w] = 1
      <4>1. SbcWoken(w, c)
        BY <2>4, <3>2, <3>3 DEF SbcWoken
      <4>2. c \in workQueue'
        BY <2>1, <2>2, <4>1 DEF complete_flips, DRI2SwapComplete
      <4> QED  BY <2>2, <3>3, <4>2 DEF Ahead
    <3>4. CASE target_sbc[w] # 1
      <4>1. Ahead(c, w) /\ ~SbcWoken(w, c)
        BY <1>2, <2>2, <2>4, <3>2, <3>4 DEF Ahead, SbcWoken
      <4>2. c \notin workQueue'
        BY <1>2, <2>4, <4>1
        DEF complete_flips, DRI2SwapComplete, Signalled, Sleepers, SbcWoken
      <4>3. target_sbc'[w] = target_sbc[w] - 1 /\ swapsPending'[w] = 0
        BY <2>1, <2>2, <3>2, <4>1
        DEF complete_flips, DRI2SwapComplete, SbcAfter
      <4>4. Ahead(c, w)'
        BY <2>4, <3>2, <3>4, <4>2, <4>3 DEF Ahead
      <4> QED  BY <4>1, <4>4 DEF AsleepOn
    <3> QED  BY <3>3, <3>4
  <2> QED  BY <1>2, <2>3, <2>4 DEF SleepsOn
<1>3. ASSUME NEW c \in AsleepOn(w)' PROVE FALSE
  <2>1. c \in Clients /\ SleepsOn(c, w) /\ c \notin workQueue /\ c \notin workQueue'
    BY <1>1, <1>3 DEF AsleepOn, SleepsOn
  <2>2. ~Ahead(c, w)'
    BY <1>3 DEF AsleepOn
  <2> QED  BY <1>2, <2>1, <2>2 DEF AsleepOn
<1>4. ASSUME NEW c \in Clients PROVE Ahead(c, w)' <=> Ahead(c, w)
  <2>1. Ahead(c, w) => Ahead(c, w)'
    BY <1>2 DEF Ahead, SleepsOn
  <2>2. ASSUME Ahead(c, w)' PROVE Ahead(c, w)
    <3>1. SleepsOn(c, w) /\ c \notin workQueue /\ c \notin workQueue'
      BY <1>1, <2>2 DEF Ahead, SleepsOn
    <3> QED  BY <1>2, <3>1 DEF AsleepOn
  <2> QED  BY <2>1, <2>2
<1> QED  BY <1>3, <1>4 DEF AheadOn

\* complete_flips ends the swaps of W and wakes whoever sleeps for them.
LEMMA CompletedRefines ==
  ASSUME IInv, Alive, NEW W \in SUBSET Windows, complete_flips(W),
         \A w \in W \ spoiled : flip[w] # NoClient /\ Top(w) \in shown,
         shown' \subseteq shown,
         \A w \in Windows \ (W \cup spoiled) :
            flip[w] = NoClient \/ (Top(w) \in shown' <=> Top(w) \in shown),
         UNCHANGED <<buffers, sleep, spoiled>>
  PROVE  Abstract
<1>1. /\ \A w \in W : flip'[w] = NoClient
      /\ \A w \in Windows \ W : flip'[w] = flip[w] /\ swapsPending'[w] = swapsPending[w]
  BY CompleteFlipsQueues
<1>2. ASSUME NEW w \in W \ spoiled
      PROVE  /\ PendingOn(w) # NoClient /\ PendingOn(w)' = NoClient
             /\ AsleepOn(w)' = {} /\ SameAhead(w) /\ Holds(w)' = Holds(w)
  <2>1. AsleepOn(w)' = {} /\ SameAhead(w)
    BY CompletionWakes DEF SameAhead
  <2> QED  BY <1>1, <2>1 DEF PendingOn, Holds
<1>3. ASSUME NEW w \in Windows \ (W \cup spoiled) PROVE Alike(w)
  <2>1. SamePending(w)
    BY <1>1 DEF SamePending, PendingOn, Top
  <2>2. target_sbc'[w] = target_sbc[w] /\ workQueue \subseteq workQueue'
    BY DEF complete_flips, DRI2SwapComplete
  <2>3. \A d \in workQueue' : d \in workQueue \/ ~SleepsOn(d, w)
    BY DEF complete_flips, DRI2SwapComplete, Signalled, Sleepers, SbcWoken, SleepsOn
  <2> QED  BY <1>1, <2>1, <2>2, <2>3, OthersSignalled DEF Alike, Holds
<1>4. PICK V \in SUBSET (Windows \ spoiled) : V = W \ spoiled
  OBVIOUS
<1> QED  BY <1>2, <1>3, <1>4, AbstractComplete

LEMMA RepaintRefines ==
  ASSUME IInv, Alive, NEW t \in Tops, t \in dirty, Repaint(t)
  PROVE  Abstract
<1>1. t \in shown
  BY DEF IInv, Queues, TypeOK
<1>2. /\ Queued(t) \in SUBSET Windows
      /\ \A w \in Queued(t) \ spoiled : flip[w] # NoClient /\ Top(w) \in shown
  BY <1>1, QueuedOf
<1> QED  BY <1>2, CompletedRefines DEF Repaint

LEMMA UnmapTopRefines ==
  ASSUME IInv, Alive, NEW t \in Tops, UnmapTop(t)
  PROVE  Abstract
<1> DEFINE W == Queued(t) \cup
                {w \in realized : TopOf[w] = t /\ flip[w] # NoClient}
<1>1. /\ W \in SUBSET Windows
      /\ \A w \in W \ spoiled : flip[w] # NoClient /\ Top(w) = t
      /\ \A w \in Windows \ (W \cup spoiled) : flip[w] = NoClient \/ Top(w) # t
  BY QueuedOf, WindowsAssumption
  DEF UnmapTop, IInv, Queues, TypeOK, Windows, Top
<1>2. complete_flips(W) /\ t \in shown /\ shown' = shown \ {t}
      /\ UNCHANGED <<buffers, sleep, spoiled>>
  BY DEF UnmapTop
<1> HIDE DEF W
<1> QED  BY <1>1, <1>2, CompletedRefines

LEMMA UnmapChildRefines ==
  ASSUME IInv, IInv', Alive, NEW k \in Children, UnmapChild(k)
  PROVE  Abstract
<1>1. k \in Windows /\ Top(k) = TopOf[k] /\ UNCHANGED <<shown, sleep, buffers, spoiled>>
  BY WindowsAssumption DEF Windows, Top, UnmapChild
<1>2. CASE TopOf[k] \in shown /\ flip[k] # NoClient
  BY <1>1, <1>2, CompletedRefines DEF UnmapChild
<1>3. CASE ~(TopOf[k] \in shown /\ flip[k] # NoClient)
  BY <1>1, <1>3, OtherStep DEF UnmapChild, IInv, Queues
<1> QED  BY <1>2, <1>3

\* A window that is mapped and not spoiled by it brings no swap with it.
LEMMA MapTopRefines ==
  ASSUME IInv, IInv', Alive, NEW t \in Tops, MapTop(t)
  PROVE  Abstract
<1>1. /\ t \notin shown /\ shown' = shown \cup {t}
      /\ UNCHANGED <<buffers, flip, sleep, workQueue, target_sbc, swapsPending>>
      /\ spoiled' = spoiled \cup {w \in Windows : Top(w) = t /\ flip[w] # NoClient}
  BY DEF MapTop, dri2, dix
<1>2. ASSUME NEW w \in Windows \ spoiled' PROVE Alike(w)
  <2>1. SamePending(w)
    BY <1>1 DEF SamePending, PendingOn, Top
  <2> QED
    BY <1>1, <2>1
    DEF Alike, Holds, SameAsleep, AsleepOn, SameAhead, AheadOn, SleepsOn, Ahead
<1> QED  BY <1>1, <1>2, AbstractForfeit DEF IInv, Queues

\* A client that is woken had been signalled before.
LEMMA YieldRefines ==
  ASSUME IInv, IInv', Alive, Yield
  PROVE  Abstract
<1>1. /\ \A c \in Clients : sleep'[c] = IF c \in workQueue THEN Awake ELSE sleep[c]
      /\ workQueue' = {}
      /\ UNCHANGED <<buffers, flip, shown, target_sbc, swapsPending, spoiled>>
  BY DEF Yield, dri2
<1>2. ASSUME NEW w \in Windows PROVE Alike(w)
  <2>1. \A c \in Clients : /\ Ahead(c, w)' <=> Ahead(c, w)
                           /\ SleepsOn(c, w)' <=> SleepsOn(c, w) /\ c \notin workQueue
    BY <1>1 DEF Ahead, SleepsOn, Awake
  <2>2. SameAsleep(w) /\ SameAhead(w)
    BY <1>1, <2>1 DEF SameAsleep, AsleepOn, SameAhead, AheadOn
  <2> QED  BY <1>1, <2>2 DEF Alike, Holds, SamePending, PendingOn, Top
<1> QED  BY <1>1, <1>2, AbstractForfeit DEF IInv, Queues

-----------------------------------------------------------------------------
(* The refinement *)

LEMMA RenderRefines ==
  ASSUME IInv, IInv', Alive, NEW c \in Clients, NEW w \in Windows, Render(c, w)
  PROVE  Abstract
<1>1. CASE ProcDRI2CreateDrawable(c, w)
  BY <1>1, CreateRefines
<1>2. CASE Throttle(c, w, <<"get", w>>) \/ Throttle(c, w, <<"swap", w>>)
  BY <1>2, ThrottleRefines
<1>3. CASE ProcDRI2GetBuffers(c, w) \/ ProcDRI2SwapBuffers(c, w)
  BY <1>3, GetBuffersRefines, SwapRefines
<1>4. CASE SwapAtOnce(c, w)
  BY <1>4, SwapAtOnceRefines
<1>5. CASE \E n \in Targets : ProcDRI2WaitSBC(c, w, n)
  BY <1>5, WaitSBCRefines
<1> QED  BY <1>1, <1>2, <1>3, <1>4, <1>5 DEF Render

\* After a FatalError there is nothing but buffers that come back from Mir.
LEMMA FatalStays ==
  ASSUME [Next]_vars, phase = "fatal"
  PROVE  phase' = "fatal"
<1>1. ~MainLoop
  BY DEF MainLoop, BlockDone, DrainDone, BlockRepaint, HandleBufferAvailable
<1>2. ~ClientRequest
  <2>1. ASSUME NEW c \in Clients, NEW w \in Windows PROVE ~Render(c, w)
    BY DEF Render, ProcDRI2CreateDrawable, Throttle, ProcDRI2GetBuffers,
           ProcDRI2SwapBuffers, SwapAtOnce, ProcDRI2WaitSBC, Proceed, Ready
  <2> QED
    BY <2>1
    DEF ClientRequest, ClientGone, Draw, MapTop, UnmapTop, MapChild, UnmapChild
<1>3. ~Yield
  BY DEF Yield
<1> QED  BY <1>1, <1>2, <1>3 DEF Next, HandleBufferReceived, vars, xmir

LEMMA StepRefines ==
  ASSUME IInv, [Next]_vars
  PROVE  Abstract
<1>0. IInv' /\ TypeOK'
  BY NextInvariant DEF IInv, Queues
<1> SUFFICES ASSUME Alive PROVE Abstract
  BY AbstractFatal, FatalStays DEF Alive
<1>1. ASSUME NEW t \in Tops, HandleBufferAvailable(t) PROVE Abstract
  <2>1. CASE t \in dirty
    BY <1>1, <2>1, RepaintRefines DEF HandleBufferAvailable
  <2>2. CASE t \notin dirty
    BY <1>0, <1>1, <2>2, OtherStep DEF HandleBufferAvailable, dri2, dix
  <2> QED  BY <2>1, <2>2
<1>2. ASSUME NEW t \in Tops, BlockRepaint(t) PROVE Abstract
  BY <1>2, RepaintRefines DEF BlockRepaint
<1>3. CASE BlockDone \/ DrainDone
  BY <1>0, <1>3, OtherStep DEF BlockDone, DrainDone, dri2, dix
<1>4. ASSUME NEW t \in Tops, Draw(t) \/ HandleBufferReceived(t) PROVE Abstract
  BY <1>0, <1>4, OtherStep DEF Draw, HandleBufferReceived, dri2, dix
<1>5. ASSUME NEW k \in Children, MapChild(k) \/ UnmapChild(k) PROVE Abstract
  BY <1>0, <1>5, UnmapChildRefines, OtherStep DEF MapChild, dri2, dix
<1>6. CASE UNCHANGED vars
  BY <1>0, <1>6, OtherStep DEF vars, dri2, dix, xmir
<1> QED
  BY <1>0, <1>1, <1>2, <1>3, <1>4, <1>5, <1>6, YieldRefines, ClientGoneRefines,
     RenderRefines, MapTopRefines, UnmapTopRefines
     DEF Next, MainLoop, ClientRequest

\* DRI2 as Xmir implements it keeps its promise to the clients, whatever they
\* do, on every window that is not spoiled: no buffer is handed out and no swap
\* begun while one is pending, a client sleeps only for its own pending swap or
\* for an SBC ahead of it, and what ends a swap wakes its sleepers in the same
\* step.
THEOREM SwapsExchanged == Spec => SwapExchangeSafety
<1>1. Init => SX!Init
  BY DEF Init, SX!Init, Awake, Ahead, Void
<1>2. IInv /\ [Next]_vars => [SX!Next]_(SX!vars)
  BY StepRefines DEF Abstract
<1> QED  BY <1>1, <1>2, Invariance, PTL DEF Spec, SwapExchangeSafety
=============================================================================
