--------------------------- MODULE XmirInputProofs ---------------------------
(***************************************************************************)
(* What XmirInput keeps, for any windows, buttons, keys and fingers and    *)
(* any size of the pipe and of the queue.                                  *)
(*                                                                         *)
(* A word of Mir on an input is in the pipe, then in the queue, then in    *)
(* down.  The invariant says of each of the three that the last word in it *)
(* is what Mir has told, as long as none is before it.  Of the fake touch  *)
(* pointer it says that it is pressed just while a finger is followed,     *)
(* which is known to be down.                                              *)
(***************************************************************************)
EXTENDS XmirInput, TLAPS

-----------------------------------------------------------------------------
(* The last word *)

\* What a message that tells of i says of it.
Says(m, i) == IF m.type = "key" THEN m.action # "up" ELSE i \in m.state

\* The last message of p on i, if any, says just that i is in T.
PipeEnds(p, i, T) ==
  \A n \in DOMAIN p :
    i \in Tells(p[n]) /\ (\A k \in DOMAIN p : k > n => i \notin Tells(p[k]))
      => (Says(p[n], i) <=> i \in T)

InPipe(p, i) == \E n \in DOMAIN p : i \in Tells(p[n])

\* The last event of q on i, if any, presses it just if i is in T.
QueueEnds(q, i, T) ==
  \A n \in DOMAIN q :
    i \in q[n].of /\ (\A k \in DOMAIN q : k > n => i \notin q[k].of)
      => (q[n].press <=> i \in T)

InQueue(q, i) == \E n \in DOMAIN q : i \in q[n].of

\* A message appended is the last on what it tells of, and changes no other.
LEMMA PipeAppend ==
  ASSUME NEW p \in Seq(Message), NEW m \in Message, NEW i, NEW T
  PROVE  /\ Append(p, m) \in Seq(Message)
         /\ i \in Tells(m) => /\ InPipe(Append(p, m), i)
                              /\ (Says(m, i) <=> i \in T) => PipeEnds(Append(p, m), i, T)
         /\ i \notin Tells(m) => /\ InPipe(Append(p, m), i) <=> InPipe(p, i)
                                 /\ PipeEnds(p, i, T) => PipeEnds(Append(p, m), i, T)
<1> DEFINE s == Append(p, m)
<1>1. /\ s \in Seq(Message) /\ Len(s) = Len(p) + 1
      /\ DOMAIN s = 1 .. (Len(p) + 1) /\ DOMAIN p = 1 .. Len(p)
      /\ s[Len(p) + 1] = m /\ \A n \in 1 .. Len(p) : s[n] = p[n]
      /\ Len(p) \in Nat
  OBVIOUS
<1> HIDE DEF s
<1>2. ASSUME i \in Tells(m) PROVE InPipe(s, i)
  BY <1>1, <1>2 DEF InPipe
<1>3. ASSUME i \in Tells(m), Says(m, i) <=> i \in T PROVE PipeEnds(s, i, T)
  <2> SUFFICES ASSUME NEW n \in DOMAIN s, i \in Tells(s[n]),
                      \A k \in DOMAIN s : k > n => i \notin Tells(s[k])
               PROVE  Says(s[n], i) <=> i \in T
    BY DEF PipeEnds
  <2>1. n = Len(p) + 1
    BY <1>1, <1>3
  <2> QED  BY <1>1, <1>3, <2>1
<1>4. ASSUME i \notin Tells(m) PROVE InPipe(s, i) <=> InPipe(p, i)
  BY <1>1, <1>4 DEF InPipe
<1>5. ASSUME i \notin Tells(m), PipeEnds(p, i, T) PROVE PipeEnds(s, i, T)
  <2> SUFFICES ASSUME NEW n \in DOMAIN s, i \in Tells(s[n]),
                      \A k \in DOMAIN s : k > n => i \notin Tells(s[k])
               PROVE  Says(s[n], i) <=> i \in T
    BY DEF PipeEnds
  <2>1. n \in 1 .. Len(p) /\ s[n] = p[n]
    BY <1>1, <1>5
  <2>2. \A k \in DOMAIN p : k > n => i \notin Tells(p[k])
    BY <1>1
  <2> QED  BY <1>1, <1>5, <2>1, <2>2 DEF PipeEnds
<1> QED  BY <1>1, <1>2, <1>3, <1>4, <1>5 DEF s

\* Reading the first message leaves the last as it was, or is the last.
LEMMA PipeTail ==
  ASSUME NEW p \in Seq(Message), p # <<>>, NEW i, NEW T
  PROVE  /\ Head(p) \in Message /\ Tail(p) \in Seq(Message)
         /\ \A n \in DOMAIN Tail(p) : n + 1 \in DOMAIN p /\ Tail(p)[n] = p[n + 1]
         /\ 1 \in DOMAIN p /\ Head(p) = p[1]
         /\ PipeEnds(p, i, T) => PipeEnds(Tail(p), i, T)
         /\ i \notin Tells(Head(p)) => (InPipe(Tail(p), i) <=> InPipe(p, i))
         /\ i \in Tells(Head(p)) /\ ~InPipe(Tail(p), i) /\ PipeEnds(p, i, T)
              => (Says(Head(p), i) <=> i \in T)
<1> DEFINE s == Tail(p)
<1>1. /\ s \in Seq(Message) /\ Len(p) \in Nat /\ Len(p) >= 1
      /\ DOMAIN s = 1 .. (Len(p) - 1) /\ DOMAIN p = 1 .. Len(p)
      /\ \A n \in 1 .. (Len(p) - 1) : s[n] = p[n + 1]
      /\ Head(p) = p[1] /\ p[1] \in Message
  OBVIOUS
<1> HIDE DEF s
<1>2. ASSUME PipeEnds(p, i, T) PROVE PipeEnds(s, i, T)
  <2> SUFFICES ASSUME NEW n \in DOMAIN s, i \in Tells(s[n]),
                      \A k \in DOMAIN s : k > n => i \notin Tells(s[k])
               PROVE  Says(s[n], i) <=> i \in T
    BY DEF PipeEnds
  <2>1. n + 1 \in DOMAIN p /\ s[n] = p[n + 1]
    BY <1>1
  <2>2. ASSUME NEW k \in DOMAIN p, k > n + 1 PROVE i \notin Tells(p[k])
    <3>1. k - 1 \in DOMAIN s /\ k - 1 > n /\ s[k - 1] = p[k]
      BY <1>1, <2>2
    <3> QED  BY <3>1
  <2> QED  BY <1>2, <2>1, <2>2 DEF PipeEnds
<1>3. ASSUME NEW k \in DOMAIN p, k # 1 PROVE k - 1 \in DOMAIN s /\ s[k - 1] = p[k]
  BY <1>1, <1>3
<1>4. ASSUME i \notin Tells(Head(p)) PROVE InPipe(s, i) <=> InPipe(p, i)
  <2>1. ASSUME NEW n \in DOMAIN p, i \in Tells(p[n]) PROVE InPipe(s, i)
    BY <1>1, <1>3, <1>4, <2>1 DEF InPipe
  <2>2. ASSUME NEW n \in DOMAIN s, i \in Tells(s[n]) PROVE InPipe(p, i)
    <3>1. n + 1 \in DOMAIN p /\ s[n] = p[n + 1]
      BY <1>1
    <3> QED  BY <2>2, <3>1 DEF InPipe
  <2> QED  BY <2>1, <2>2 DEF InPipe
<1>5. ASSUME i \in Tells(Head(p)), ~InPipe(s, i), PipeEnds(p, i, T)
      PROVE  Says(Head(p), i) <=> i \in T
  <2>1. \A k \in DOMAIN p : k > 1 => i \notin Tells(p[k])
    BY <1>1, <1>3, <1>5 DEF InPipe
  <2> QED  BY <1>1, <1>5, <2>1 DEF PipeEnds
<1> QED  BY <1>1, <1>2, <1>4, <1>5 DEF s

\* The same of the queue, where an event of nothing is not enqueued.
LEMMA QueueAppend ==
  ASSUME NEW q \in Seq(Event), NEW e \in Event, NEW i, NEW T
  PROVE  /\ q \o Enqueued(e) \in Seq(Event)
         /\ i \in e.of => /\ InQueue(q \o Enqueued(e), i)
                          /\ (e.press <=> i \in T) => QueueEnds(q \o Enqueued(e), i, T)
         /\ i \notin e.of => /\ InQueue(q \o Enqueued(e), i) <=> InQueue(q, i)
                             /\ QueueEnds(q, i, T) => QueueEnds(q \o Enqueued(e), i, T)
<1>1. CASE e.of = {}
  <2>1. q \o Enqueued(e) = q
    BY <1>1 DEF Enqueued
  <2> QED  BY <1>1, <2>1
<1>2. CASE e.of # {}
  <2> DEFINE s == q \o Enqueued(e)
  <2>1. s = Append(q, e)
    BY <1>2 DEF Enqueued
  <2>2. /\ s \in Seq(Event) /\ Len(q) \in Nat
        /\ DOMAIN s = 1 .. (Len(q) + 1) /\ DOMAIN q = 1 .. Len(q)
        /\ s[Len(q) + 1] = e /\ \A n \in 1 .. Len(q) : s[n] = q[n]
    BY <2>1
  <2> HIDE DEF s
  <2>3. ASSUME i \in e.of PROVE InQueue(s, i)
    BY <2>2, <2>3 DEF InQueue
  <2>4. ASSUME i \in e.of, e.press <=> i \in T PROVE QueueEnds(s, i, T)
    <3> SUFFICES ASSUME NEW n \in DOMAIN s, i \in s[n].of,
                        \A k \in DOMAIN s : k > n => i \notin s[k].of
                 PROVE  s[n].press <=> i \in T
      BY DEF QueueEnds
    <3>1. n = Len(q) + 1
      BY <2>2, <2>4
    <3> QED  BY <2>2, <2>4, <3>1
  <2>5. ASSUME i \notin e.of PROVE InQueue(s, i) <=> InQueue(q, i)
    BY <2>2, <2>5 DEF InQueue
  <2>6. ASSUME i \notin e.of, QueueEnds(q, i, T) PROVE QueueEnds(s, i, T)
    <3> SUFFICES ASSUME NEW n \in DOMAIN s, i \in s[n].of,
                        \A k \in DOMAIN s : k > n => i \notin s[k].of
                 PROVE  s[n].press <=> i \in T
      BY DEF QueueEnds
    <3>1. n \in 1 .. Len(q) /\ s[n] = q[n]
      BY <2>2, <2>6
    <3>2. \A k \in DOMAIN q : k > n => i \notin q[k].of
      BY <2>2
    <3> QED  BY <2>2, <2>6, <3>1, <3>2 DEF QueueEnds
  <2> QED  BY <2>2, <2>3, <2>4, <2>5, <2>6 DEF s
<1> QED  BY <1>1, <1>2

LEMMA QueueTail ==
  ASSUME NEW q \in Seq(Event), q # <<>>, NEW i, NEW T
  PROVE  /\ Head(q) \in Event /\ Tail(q) \in Seq(Event)
         /\ QueueEnds(q, i, T) => QueueEnds(Tail(q), i, T)
         /\ i \notin Head(q).of => (InQueue(Tail(q), i) <=> InQueue(q, i))
         /\ i \in Head(q).of /\ ~InQueue(Tail(q), i) /\ QueueEnds(q, i, T)
              => (Head(q).press <=> i \in T)
<1> DEFINE s == Tail(q)
<1>1. /\ s \in Seq(Event) /\ Len(q) \in Nat /\ Len(q) >= 1
      /\ DOMAIN s = 1 .. (Len(q) - 1) /\ DOMAIN q = 1 .. Len(q)
      /\ \A n \in 1 .. (Len(q) - 1) : s[n] = q[n + 1]
      /\ Head(q) = q[1] /\ q[1] \in Event
  OBVIOUS
<1> HIDE DEF s
<1>2. ASSUME QueueEnds(q, i, T) PROVE QueueEnds(s, i, T)
  <2> SUFFICES ASSUME NEW n \in DOMAIN s, i \in s[n].of,
                      \A k \in DOMAIN s : k > n => i \notin s[k].of
               PROVE  s[n].press <=> i \in T
    BY DEF QueueEnds
  <2>1. n + 1 \in DOMAIN q /\ s[n] = q[n + 1]
    BY <1>1
  <2>2. ASSUME NEW k \in DOMAIN q, k > n + 1 PROVE i \notin q[k].of
    <3>1. k - 1 \in DOMAIN s /\ k - 1 > n /\ s[k - 1] = q[k]
      BY <1>1, <2>2
    <3> QED  BY <3>1
  <2> QED  BY <1>2, <2>1, <2>2 DEF QueueEnds
<1>3. ASSUME NEW k \in DOMAIN q, k # 1 PROVE k - 1 \in DOMAIN s /\ s[k - 1] = q[k]
  BY <1>1, <1>3
<1>4. ASSUME i \notin Head(q).of PROVE InQueue(s, i) <=> InQueue(q, i)
  <2>1. ASSUME NEW n \in DOMAIN q, i \in q[n].of PROVE InQueue(s, i)
    BY <1>1, <1>3, <1>4, <2>1 DEF InQueue
  <2>2. ASSUME NEW n \in DOMAIN s, i \in s[n].of PROVE InQueue(q, i)
    <3>1. n + 1 \in DOMAIN q /\ s[n] = q[n + 1]
      BY <1>1
    <3> QED  BY <2>2, <3>1 DEF InQueue
  <2> QED  BY <2>1, <2>2 DEF InQueue
<1>5. ASSUME i \in Head(q).of, ~InQueue(s, i), QueueEnds(q, i, T)
      PROVE  Head(q).press <=> i \in T
  <2>1. \A k \in DOMAIN q : k > 1 => i \notin q[k].of
    BY <1>1, <1>3, <1>5 DEF InQueue
  <2> QED  BY <1>1, <1>5, <2>1 DEF QueueEnds
<1> QED  BY <1>1, <1>2, <1>4, <1>5 DEF s

-----------------------------------------------------------------------------
(* The invariant *)

\* Messages are for windows that are shown, or for the one whose unmap drains
\* them; the queue is empty wherever a request may begin.
Control ==
  /\ unmapping # NoWindow => pc = "drain"
  /\ \A n \in DOMAIN pipe : pipe[n].win \in shown \cup {unmapping}
  /\ queue # <<>> => pc \in {"drain", "request", "process"}

Heard(i) ==
  i \notin unheard /\ ~InPipe(pipe, i)
    => /\ QueueEnds(queue, i, told)
       /\ ~InQueue(queue, i) => (i \in down <=> i \in told)

Words ==
  \A i \in Buttons \cup Keys : PipeEnds(pipe, i, told) /\ Heard(i)

IInv == TypeOK /\ FocusShown /\ Control /\ Words

LEMMA InitIInv == Init => IInv
<1> SUFFICES ASSUME Init PROVE IInv
  OBVIOUS
<1>1. TypeOK /\ FocusShown
  BY PipeAssumption DEF Init, TypeOK, FocusShown
<1>2. Control
  BY DEF Init, Control
<1>3. Words
  BY DEF Init, Words, Heard, PipeEnds, QueueEnds, InPipe, InQueue
<1> QED  BY <1>1, <1>2, <1>3 DEF IInv

\* At rest the pipe and the queue are empty, and down is the last word.
LEMMA IInvFollows == IInv => FollowsMir
<1> SUFFICES ASSUME IInv, AtRest, NEW i \in (Buttons \cup Keys) \ unheard
             PROVE  i \in down <=> i \in told
  BY DEF FollowsMir
<1>1. queue = <<>> /\ pipe = <<>>
  BY DEF IInv, Control, AtRest
<1>2. ~InQueue(queue, i) /\ ~InPipe(pipe, i)
  BY <1>1 DEF InQueue, InPipe
<1> QED  BY <1>2 DEF IInv, Words, Heard

-----------------------------------------------------------------------------
(* Mir posts a message *)

LEMMA PostPreserves ==
  ASSUME IInv, NEW m \in Message, xmir_surface_handle_event(m),
         UNCHANGED <<xserver, unheard>>,
         told' \subseteq Buttons \cup Keys,
         \A i \in Tells(m) \cap (Buttons \cup Keys) : Says(m, i) <=> i \in told',
         \A i \in (Buttons \cup Keys) \ Tells(m) : i \in told' <=> i \in told,
         fingers' \subseteq Fingers, touched' \in Windows \cup {NoWindow}
  PROVE  IInv'
<1>1. pipe' = Append(pipe, m) /\ pipe \in Seq(Message) /\ Len(pipe) < PipeCapacity
      /\ m.win \in shown
  BY DEF IInv, TypeOK, xmir_surface_handle_event
<1>2. TypeOK'
  <2>1. pipe' \in Seq(Message) /\ Len(pipe') <= PipeCapacity
    BY <1>1, PipeAssumption
  <2> QED  BY <2>1 DEF IInv, TypeOK, xserver
<1>3. FocusShown'
  BY DEF IInv, FocusShown, xserver
<1>4. Control'
  <2>1. \A n \in DOMAIN pipe' : (n \in DOMAIN pipe /\ pipe'[n] = pipe[n]) \/ pipe'[n] = m
    BY <1>1
  <2> QED  BY <1>1, <2>1 DEF IInv, Control, xserver
<1>5. Words'
  <2> SUFFICES ASSUME NEW i \in Buttons \cup Keys
               PROVE  PipeEnds(pipe', i, told') /\ Heard(i)'
    BY DEF Words
  <2>1. CASE i \in Tells(m)
    <3>1. PipeEnds(pipe', i, told') /\ InPipe(pipe', i)
      BY <1>1, <2>1, PipeAppend
    <3> QED  BY <3>1 DEF Heard
  <2>2. CASE i \notin Tells(m)
    <3>1. PipeEnds(pipe, i, told) /\ Heard(i) /\ (i \in told' <=> i \in told)
      BY <2>2 DEF IInv, Words
    <3>2. PipeEnds(pipe, i, told')
      BY <3>1 DEF PipeEnds
    <3>3. PipeEnds(pipe', i, told') /\ (InPipe(pipe', i) <=> InPipe(pipe, i))
      BY <1>1, <2>2, <3>2, PipeAppend
    <3>4. QueueEnds(queue, i, told) => QueueEnds(queue, i, told')
      BY <3>1 DEF QueueEnds
    <3> QED  BY <3>1, <3>3, <3>4 DEF Heard, xserver
  <2> QED  BY <2>1, <2>2
<1> QED  BY <1>2, <1>3, <1>4, <1>5 DEF IInv

LEMMA NoPointsType ==
  /\ NoPoints \in UNION {[F -> TouchActions] : F \in SUBSET Fingers}
  /\ DOMAIN NoPoints = {}
<1>1. NoPoints \in [{} -> TouchActions] /\ {} \in SUBSET Fingers
  BY DEF NoPoints
<1> QED  BY <1>1 DEF NoPoints

LEMMA MirPreserves ==
  ASSUME IInv, MirThread
  PROVE  IInv'
<1>1. PICK w \in Windows :
        \/ \E k \in Keys, action \in {"up", "down", "repeat"} : MirKey(w, k, action)
        \/ \E state \in SUBSET Buttons : MirButton(w, state)
        \/ MirMotion(w) \/ MirNoTouch(w)
        \/ \E f \in Fingers, action \in TouchActions : MirTouch(w, f, action)
  BY DEF MirThread
<1>2. told \subseteq Buttons \cup Keys /\ fingers \subseteq Fingers
      /\ touched \in Windows \cup {NoWindow}
  BY DEF IInv, TypeOK
<1>3. ASSUME NEW k \in Keys, NEW action \in {"up", "down", "repeat"}, MirKey(w, k, action)
      PROVE  IInv'
  <2> DEFINE m == [type |-> "key", win |-> w, key |-> k, action |-> action]
  <2>1. m \in Message /\ Tells(m) = {k} /\ \A i : Says(m, i) <=> action # "up"
    BY DEF Message, KeyMessage, Tells, Says
  <2>2. xmir_surface_handle_event(m)
        /\ told' = (IF action = "up" THEN told \ {k} ELSE told \cup {k})
        /\ UNCHANGED <<xserver, unheard, fingers, touched>>
    BY <1>3 DEF MirKey
  <2> HIDE DEF m
  <2> QED  BY <1>2, <2>1, <2>2, PostPreserves
<1>4. ASSUME NEW state \in SUBSET Buttons, MirButton(w, state)
      PROVE  IInv'
  <2> DEFINE m == [type |-> "pointer", win |-> w, button |-> TRUE, state |-> state]
  <2>1. m \in Message /\ Tells(m) = Buttons /\ \A i : Says(m, i) <=> i \in state
    BY DEF Message, PointerMessage, Tells, Says
  <2>2. xmir_surface_handle_event(m) /\ told' = (told \ Buttons) \cup state
        /\ UNCHANGED <<xserver, unheard, fingers, touched>>
    BY <1>4 DEF MirButton
  <2> HIDE DEF m
  <2> QED  BY <1>2, <2>1, <2>2, PostPreserves
<1>5. ASSUME MirMotion(w) PROVE IInv'
  <2> DEFINE m == [type |-> "pointer", win |-> w, button |-> FALSE,
                   state |-> told \cap Buttons]
  <2>1. m \in Message /\ Tells(m) = {}
    BY DEF Message, PointerMessage, Tells
  <2>2. xmir_surface_handle_event(m)
        /\ UNCHANGED <<xserver, unheard, told, fingers, touched>>
    BY <1>5 DEF MirMotion
  <2> HIDE DEF m
  <2> QED  BY <1>2, <2>1, <2>2, PostPreserves
<1>6. ASSUME NEW f \in Fingers, NEW action \in TouchActions, MirTouch(w, f, action)
      PROVE  IInv'
  <2> DEFINE P == [g \in fingers \cup {f} |-> IF g = f THEN action ELSE "change"]
             m == [type |-> "touch", win |-> w, points |-> P]
  <2>1. m \in Message /\ Tells(m) = {Touch}
    <3>1. P \in [fingers \cup {f} -> TouchActions] /\ fingers \cup {f} \in SUBSET Fingers
      BY <1>2 DEF TouchActions
    <3> HIDE DEF P
    <3> QED  BY <3>1 DEF Message, TouchMessage, Tells
  <2>2. /\ xmir_surface_handle_event(m)
        /\ UNCHANGED <<xserver, unheard, told>>
        /\ fingers' \subseteq Fingers /\ touched' \in Windows \cup {NoWindow}
    BY <1>2, <1>6 DEF MirTouch
  <2> HIDE DEF m
  <2>3. Touch \notin Buttons \cup Keys
    BY InputsAssumption
  <2> QED  BY <1>2, <2>1, <2>2, <2>3, PostPreserves
<1>7. ASSUME MirNoTouch(w) PROVE IInv'
  <2> DEFINE m == [type |-> "touch", win |-> w, points |-> NoPoints]
  <2>1. m \in Message /\ Tells(m) = {Touch}
    BY NoPointsType DEF Message, TouchMessage, Tells
  <2>2. /\ xmir_surface_handle_event(m)
        /\ UNCHANGED <<xserver, unheard, told>>
        /\ fingers' \subseteq Fingers /\ touched' \in Windows \cup {NoWindow}
    BY <1>2, <1>7 DEF MirNoTouch
  <2> HIDE DEF m
  <2>3. Touch \notin Buttons \cup Keys
    BY InputsAssumption
  <2> QED  BY <1>2, <2>1, <2>2, <2>3, PostPreserves
<1> QED  BY <1>1, <1>3, <1>4, <1>5, <1>6, <1>7

-----------------------------------------------------------------------------
(* The server handles a message *)

\* What the first message is, and what is left of the pipe.
LEMMA Read ==
  ASSUME IInv, Draining, NEW m, Receive(m)
  PROVE  /\ m \in Message
         /\ pipe' \in Seq(Message) /\ Len(pipe') <= PipeCapacity
         /\ m.win \in shown \cup {unmapping}
         /\ \A n \in DOMAIN pipe' : pipe'[n].win \in shown \cup {unmapping}
         /\ \A i \in Buttons \cup Keys :
              /\ PipeEnds(pipe', i, told)
              /\ i \notin Tells(m) => (InPipe(pipe', i) <=> InPipe(pipe, i))
              /\ i \in Tells(m) /\ ~InPipe(pipe', i) => (Says(m, i) <=> i \in told)
<1>1. pipe \in Seq(Message) /\ pipe # <<>> /\ m = Head(pipe) /\ pipe' = Tail(pipe)
      /\ Len(pipe) <= PipeCapacity
  BY DEF IInv, TypeOK, Draining, Receive
<1>2. /\ m \in Message /\ pipe' \in Seq(Message)
      /\ \A n \in DOMAIN pipe' : n + 1 \in DOMAIN pipe /\ pipe'[n] = pipe[n + 1]
      /\ 1 \in DOMAIN pipe /\ m = pipe[1]
  BY <1>1, PipeTail
<1>3. Len(pipe') <= PipeCapacity
  BY <1>1, PipeAssumption
<1>4. m.win \in shown \cup {unmapping}
      /\ \A n \in DOMAIN pipe' : pipe'[n].win \in shown \cup {unmapping}
  BY <1>2 DEF IInv, Control
<1>5. ASSUME NEW i \in Buttons \cup Keys
      PROVE  /\ PipeEnds(pipe', i, told)
             /\ i \notin Tells(m) => (InPipe(pipe', i) <=> InPipe(pipe, i))
             /\ i \in Tells(m) /\ ~InPipe(pipe', i) => (Says(m, i) <=> i \in told)
  <2>1. PipeEnds(pipe, i, told)
    BY DEF IInv, Words
  <2> QED  BY <1>1, <2>1, PipeTail
<1> QED  BY <1>2, <1>3, <1>4, <1>5

\* A handler keeps the invariant if it does with the queue what it should, and
\* sets the focus to no other window than the message's.
LEMMA HandlePreserves ==
  ASSUME IInv, Draining, NEW m, Receive(m),
         focus_window' = focus_window \/ (focus_window' = m.win /\ Wanted(m)),
         touch_id' \in Fingers \cup {NoFinger},
         queue' \in Seq(Event), unheard' \subseteq Inputs,
         \A i \in Buttons \cup Keys : Heard(i)'
  PROVE  IInv'
<1>1. /\ m \in Message
      /\ pipe' \in Seq(Message) /\ Len(pipe') <= PipeCapacity
      /\ m.win \in shown \cup {unmapping}
      /\ \A n \in DOMAIN pipe' : pipe'[n].win \in shown \cup {unmapping}
      /\ \A i \in Buttons \cup Keys : PipeEnds(pipe', i, told)
  BY Read
<1>2. UNCHANGED <<shown, down, pc, unmapping, told, fingers, touched>> /\ pc = "drain"
  BY DEF Receive, Draining
<1>3. FocusShown' /\ focus_window' \in Windows \cup {NoWindow}
  BY <1>1, <1>2 DEF IInv, TypeOK, FocusShown, Wanted
<1>4. TypeOK'
  BY <1>1, <1>2, <1>3 DEF IInv, TypeOK
<1>5. Control'
  BY <1>1, <1>2 DEF IInv, Control
<1>6. Words'
  BY <1>1, <1>2 DEF Words
<1> QED  BY <1>3, <1>4, <1>5, <1>6 DEF IInv

\* An input the message tells nothing of, and of which nothing is queued.
LEMMA HeardUntold ==
  ASSUME IInv, Draining, NEW m, Receive(m), NEW i \in Buttons \cup Keys,
         i \notin Tells(m), i \notin unheard' => i \notin unheard,
         QueueEnds(queue, i, told) => QueueEnds(queue', i, told),
         InQueue(queue', i) <=> InQueue(queue, i)
  PROVE  Heard(i)'
<1>1. InPipe(pipe', i) <=> InPipe(pipe, i)
  BY Read
<1>2. UNCHANGED <<down, told>> /\ Heard(i)
  BY DEF Receive, IInv, Words
<1> QED  BY <1>1, <1>2 DEF Heard

LEMMA DropPreserves ==
  ASSUME IInv, DropMessage
  PROVE  IInv'
<1>1. PICK m : m = Head(pipe) /\ Draining /\ Receive(m)
               /\ unheard' = unheard \cup Tells(m)
               /\ UNCHANGED <<focus_window, touch_id, queue>>
  BY DEF DropMessage
<1>2. m \in Message
  BY <1>1, Read
<1>3. Tells(m) \subseteq Inputs
  BY <1>2 DEF Message, KeyMessage, PointerMessage, TouchMessage, Tells, Inputs
<1>4. ASSUME NEW i \in Buttons \cup Keys PROVE Heard(i)'
  <2>1. CASE i \in Tells(m)
    BY <1>1, <2>1 DEF Heard
  <2>2. CASE i \notin Tells(m)
    BY <1>1, <2>2, HeardUntold
  <2> QED  BY <2>1, <2>2
<1>5. touch_id' \in Fingers \cup {NoFinger} /\ queue' \in Seq(Event)
      /\ unheard' \subseteq Inputs
  BY <1>1, <1>3 DEF IInv, TypeOK
<1> QED  BY <1>1, <1>4, <1>5, HandlePreserves

LEMMA KeyPreserves ==
  ASSUME IInv, HandleKey
  PROVE  IInv'
<1>1. PICK m : m = Head(pipe) /\ Draining /\ Receive(m) /\ m.type = "key"
               /\ QueueKeyboardEvents(m.key, m.action)
               /\ unheard' = unheard \ {m.key}
               /\ UNCHANGED <<focus_window, touch_id>>
  BY DEF HandleKey
<1>2. m \in Message
  BY <1>1, Read
<1>3. m.key \in Keys /\ m.action \in {"up", "down", "repeat"}
      /\ Tells(m) = {m.key} /\ \A i : Says(m, i) <=> m.action # "up"
  BY <1>1, <1>2 DEF Message, KeyMessage, PointerMessage, TouchMessage, Tells, Says
<1> DEFINE k == m.key
           r == Release(IF m.action = "down" THEN {} ELSE {k})
           p == Press(IF m.action = "up" THEN {} ELSE {k})
<1>4. /\ r \in Event /\ ~r.press /\ p \in Event /\ p.press
      /\ r.of = (IF m.action = "down" THEN {} ELSE {k})
      /\ p.of = (IF m.action = "up" THEN {} ELSE {k})
      /\ queue' = (queue \o Enqueued(r)) \o Enqueued(p)
      /\ queue \in Seq(Event)
  BY <1>1, <1>3 DEF Event, Inputs, Press, Release, QueueKeyboardEvents, IInv, TypeOK
<1> HIDE DEF r, p, k
<1>5. queue \o Enqueued(r) \in Seq(Event) /\ queue' \in Seq(Event)
  BY <1>4, QueueAppend
<1>6. ASSUME NEW i \in Buttons \cup Keys PROVE Heard(i)'
  <2>1. CASE i = k
    <3> SUFFICES ASSUME ~InPipe(pipe', i)
                 PROVE  QueueEnds(queue', i, told) /\ InQueue(queue', i)
      BY <1>1 DEF Heard, Receive
    <3>1. m.action # "up" <=> i \in told
      BY <1>1, <1>3, <2>1, Read DEF k
    <3>2. CASE m.action # "up"
      BY <1>3, <1>4, <1>5, <2>1, <3>1, <3>2, QueueAppend
    <3>3. CASE m.action = "up"
      <4>1. QueueEnds(queue \o Enqueued(r), i, told) /\ InQueue(queue \o Enqueued(r), i)
        BY <1>4, <2>1, <3>1, <3>3, QueueAppend
      <4> QED  BY <1>4, <1>5, <3>3, <4>1, QueueAppend
    <3> QED  BY <3>2, <3>3
  <2>2. CASE i # k
    <3>1. i \notin r.of /\ i \notin p.of
      BY <1>4, <2>2
    <3>2. /\ QueueEnds(queue, i, told) => QueueEnds(queue \o Enqueued(r), i, told)
          /\ InQueue(queue \o Enqueued(r), i) <=> InQueue(queue, i)
      BY <1>4, <3>1, QueueAppend
    <3>3. /\ QueueEnds(queue, i, told) => QueueEnds(queue', i, told)
          /\ InQueue(queue', i) <=> InQueue(queue, i)
      BY <1>4, <1>5, <3>1, <3>2, QueueAppend
    <3>4. i \notin Tells(m) /\ (i \notin unheard' => i \notin unheard)
      BY <1>1, <1>3, <2>2 DEF k
    <3> QED  BY <1>1, <3>3, <3>4, HeardUntold
  <2> QED  BY <2>1, <2>2
<1>7. touch_id' \in Fingers \cup {NoFinger} /\ unheard' \subseteq Inputs
  BY <1>1 DEF IInv, TypeOK
<1> QED  BY <1>1, <1>5, <1>6, <1>7, HandlePreserves

\* A button of which an event is queued becomes unheard; of another the new
\* state is what the last event, if one is enqueued, or down says.
LEMMA PointerPreserves ==
  ASSUME IInv, HandlePointer
  PROVE  IInv'
<1>1. PICK m : /\ m = Head(pipe) /\ Draining /\ Receive(m) /\ m.type = "pointer"
               /\ Wanted(m) /\ focus_window' = m.win /\ touch_id' = touch_id
               /\ IF m.button THEN pointer_handle_button(m.state)
                              ELSE UNCHANGED <<queue, unheard>>
  BY DEF HandlePointer, pointer_ensure_focus
<1>2. m \in Message
  BY <1>1, Read
<1>3. m.state \subseteq Buttons /\ (\A i : Says(m, i) <=> i \in m.state)
      /\ Tells(m) = IF m.button THEN Buttons ELSE {}
  BY <1>1, <1>2 DEF Message, KeyMessage, PointerMessage, TouchMessage, Tells, Says
<1>4. touch_id \in Fingers \cup {NoFinger} /\ queue \in Seq(Event)
      /\ unheard \subseteq Inputs /\ down \subseteq Inputs
  BY DEF IInv, TypeOK
<1>5. CASE ~m.button
  <2>1. \A i \in Buttons \cup Keys : Heard(i)'
    BY <1>1, <1>3, <1>5, HeardUntold
  <2> QED  BY <1>1, <1>4, <1>5, <2>1, HandlePreserves
<1>6. CASE m.button
  <2> DEFINE p == Press(m.state \ down)
             r == Release((Buttons \cap down) \ m.state)
  <2>1. /\ p \in Event /\ p.press /\ p.of = m.state \ down
        /\ r \in Event /\ ~r.press /\ r.of = (Buttons \cap down) \ m.state
    BY <1>3 DEF Event, Inputs, Press, Release
  <2>2. /\ queue' = (queue \o Enqueued(p)) \o Enqueued(r)
        /\ unheard' = (unheard \ Buttons) \cup (Buttons \cap Queued)
    BY <1>1, <1>6 DEF pointer_handle_button
  <2> HIDE DEF p, r
  <2>3. queue \o Enqueued(p) \in Seq(Event) /\ queue' \in Seq(Event)
    BY <1>4, <2>1, <2>2, QueueAppend
  <2>4. ASSUME NEW i \in Buttons \cup Keys, i \notin p.of, i \notin r.of
        PROVE  /\ QueueEnds(queue, i, told) => QueueEnds(queue', i, told)
               /\ InQueue(queue', i) <=> InQueue(queue, i)
    <3>1. /\ QueueEnds(queue, i, told) => QueueEnds(queue \o Enqueued(p), i, told)
          /\ InQueue(queue \o Enqueued(p), i) <=> InQueue(queue, i)
      BY <1>4, <2>1, <2>4, QueueAppend
    <3> QED  BY <2>1, <2>2, <2>3, <2>4, <3>1, QueueAppend
  <2>5. ASSUME NEW i \in Buttons PROVE Heard(i)'
    <3> SUFFICES ASSUME i \notin Queued, ~InPipe(pipe', i)
                 PROVE  /\ QueueEnds(queue', i, told)
                        /\ ~InQueue(queue', i) => (i \in down <=> i \in told)
      BY <1>1, <2>2, <2>5 DEF Heard, Receive
    <3>1. ~InQueue(queue, i)
      BY <1>4 DEF Queued, InQueue
    <3>2. QueueEnds(queue, i, told)
      BY <3>1 DEF QueueEnds, InQueue
    <3>3. i \in m.state <=> i \in told
      BY <1>1, <1>3, <1>6, Read
    <3>4. CASE i \in p.of
      <4>1. QueueEnds(queue \o Enqueued(p), i, told) /\ InQueue(queue \o Enqueued(p), i)
        BY <1>4, <2>1, <3>3, <3>4, QueueAppend
      <4>2. i \notin r.of
        BY <2>1, <3>4
      <4> QED  BY <2>1, <2>2, <2>3, <4>1, <4>2, QueueAppend
    <3>5. CASE i \in r.of
      BY <2>1, <2>2, <2>3, <3>3, <3>5, QueueAppend
    <3>6. CASE i \notin p.of /\ i \notin r.of
      BY <2>1, <2>4, <3>1, <3>2, <3>3, <3>6
    <3> QED  BY <3>4, <3>5, <3>6
  <2>6. ASSUME NEW i \in Keys PROVE Heard(i)'
    <3>1. i \notin Buttons /\ i \notin Tells(m)
      BY <1>3, <1>6, InputsAssumption
    <3>2. i \notin p.of /\ i \notin r.of
      BY <1>3, <2>1, <3>1
    <3>3. i \notin unheard' => i \notin unheard
      BY <2>2, <3>1
    <3> QED  BY <1>1, <2>4, <3>1, <3>2, <3>3, HeardUntold
  <2>7. unheard' \subseteq Inputs
    BY <1>4, <2>2 DEF Inputs
  <2> QED  BY <1>1, <1>4, <2>3, <2>5, <2>6, <2>7, HandlePreserves
<1> QED  BY <1>5, <1>6

\* A finger is neither a button nor a key.
LEMMA TouchPreserves ==
  ASSUME IInv, HandleTouch
  PROVE  IInv'
<1>1. PICK m : /\ m = Head(pipe) /\ Draining /\ Receive(m) /\ m.type = "touch"
               /\ Wanted(m)
               /\ \/ UNCHANGED <<focus_window, touch_id, queue, unheard>>
                  \/ touch_none
                  \/ \E f \in Followed(m.points) :
                       /\ touch_point(m.win, f, m.points[f])
                       /\ unheard' = IF m.points[f] = "change"
                                       THEN unheard ELSE unheard \ {Touch}
  BY DEF HandleTouch
<1>2. m \in Message
  BY <1>1, Read
<1>3. /\ Tells(m) = {Touch} /\ DOMAIN m.points \subseteq Fingers
      /\ \A f \in DOMAIN m.points : m.points[f] \in TouchActions
  BY <1>1, <1>2 DEF Message, KeyMessage, PointerMessage, TouchMessage, Tells
<1>4. touch_id \in Fingers \cup {NoFinger} /\ queue \in Seq(Event)
      /\ unheard \subseteq Inputs
  BY DEF IInv, TypeOK
<1>5. PICK e \in {Press({}), Press({Touch}), Release({Touch})} :
        /\ queue' = queue \o Enqueued(e)
        /\ focus_window' = focus_window \/ focus_window' = m.win
        /\ touch_id' \in Fingers \cup {NoFinger}
        /\ unheard' \in {unheard, unheard \ {Touch}, unheard \cup {Touch}}
  <2>1. CASE UNCHANGED <<focus_window, touch_id, queue, unheard>> \/ touch_none
    <3>1. /\ UNCHANGED <<focus_window, queue>> /\ touch_id' \in {touch_id, NoFinger}
          /\ unheard' \in {unheard, unheard \cup {Touch}}
      BY <2>1 DEF touch_none
    <3>2. queue' = queue \o Enqueued(Press({}))
      BY <1>4, <3>1 DEF Enqueued, Press
    <3> QED  BY <1>4, <3>1, <3>2
  <2>2. CASE \E f \in Followed(m.points) :
               /\ touch_point(m.win, f, m.points[f])
               /\ unheard' = IF m.points[f] = "change"
                               THEN unheard ELSE unheard \ {Touch}
    <3>1. PICK f \in Followed(m.points) :
            /\ touch_point(m.win, f, m.points[f])
            /\ unheard' \in {unheard, unheard \ {Touch}}
      BY <2>2, Zenon
    <3>2. f \in Fingers /\ m.points[f] \in TouchActions
      BY <1>3 DEF Followed
    <3>3. CASE m.points[f] = "up"
      BY <3>1, <3>3 DEF touch_point
    <3>4. CASE m.points[f] = "down"
      BY <3>1, <3>2, <3>4 DEF touch_point, pointer_ensure_focus
    <3>5. CASE m.points[f] = "change"
      <4>1. queue' = queue \o Enqueued(Press({}))
        BY <1>4, <3>1, <3>5 DEF Enqueued, Press, touch_point
      <4> QED  BY <1>4, <3>1, <3>5, <4>1 DEF touch_point
    <3> QED  BY <3>2, <3>3, <3>4, <3>5 DEF TouchActions
  <2> QED  BY <1>1, <2>1, <2>2
<1>6. e \in Event /\ e.of \subseteq {Touch}
  <2>1. /\ Press({}) \in Event /\ Press({Touch}) \in Event /\ Release({Touch}) \in Event
        /\ Press({}).of = {} /\ Press({Touch}).of = {Touch} /\ Release({Touch}).of = {Touch}
    BY DEF Event, Press, Release, Inputs
  <2> QED  BY <2>1
<1>7. queue' \in Seq(Event)
  BY <1>4, <1>5, <1>6, QueueAppend
<1>8. ASSUME NEW i \in Buttons \cup Keys PROVE Heard(i)'
  <2>1. i # Touch
    BY InputsAssumption
  <2>2. /\ QueueEnds(queue, i, told) => QueueEnds(queue', i, told)
        /\ InQueue(queue', i) <=> InQueue(queue, i)
    BY <1>4, <1>5, <1>6, <2>1, QueueAppend
  <2>3. i \notin Tells(m) /\ (i \notin unheard' => i \notin unheard)
    BY <1>3, <1>5, <2>1
  <2> QED  BY <1>1, <2>2, <2>3, HeardUntold
<1>9. unheard' \subseteq Inputs
  BY <1>4, <1>5 DEF Inputs
<1> QED  BY <1>1, <1>5, <1>7, <1>8, <1>9, HandlePreserves

-----------------------------------------------------------------------------
(* The other steps of the main thread *)

\* Steps that move on only.
LEMMA GotoPreserves ==
  ASSUME IInv,
         UNCHANGED <<shown, focus_window, touch_id, queue, down, mir, unheard>>,
         pc' \in {"select", "drain", "process", "dispatch", "request"},
         unmapping' = unmapping \/ (unmapping' = NoWindow /\ pipe = <<>>),
         unmapping' # NoWindow => pc' = "drain",
         queue # <<>> => pc' \in {"drain", "request", "process"}
  PROVE  IInv'
<1>1. TypeOK' /\ FocusShown'
  BY DEF IInv, TypeOK, FocusShown, mir
<1>2. Control'
  BY DEF IInv, Control, mir
<1>3. Words'
  BY DEF IInv, Words, Heard, mir
<1> QED  BY <1>1, <1>2, <1>3 DEF IInv

LEMMA ProcessPreserves ==
  ASSUME IInv, ProcessInputEvent
  PROVE  IInv'
<1>1. /\ pc = "process" /\ queue # <<>> /\ queue' = Tail(queue)
      /\ down' = IF Head(queue).press THEN down \cup Head(queue).of
                                      ELSE down \ Head(queue).of
      /\ UNCHANGED <<shown, focus_window, touch_id, pc, unmapping, told, fingers,
                     touched, pipe, unheard>>
      /\ queue \in Seq(Event)
  BY DEF ProcessInputEvent, UpdateDeviceState, mir, IInv, TypeOK
<1>2. Head(queue) \in Event /\ queue' \in Seq(Event)
  BY <1>1, QueueTail
<1>3. TypeOK'
  BY <1>1, <1>2 DEF IInv, TypeOK, Event
<1>4. FocusShown' /\ Control'
  BY <1>1 DEF IInv, FocusShown, Control
<1>5. ASSUME NEW i \in Buttons \cup Keys, Heard(i) PROVE Heard(i)'
  <2> SUFFICES ASSUME i \notin unheard, ~InPipe(pipe, i)
               PROVE  /\ QueueEnds(queue', i, told)
                      /\ ~InQueue(queue', i) => (i \in down' <=> i \in told)
    BY <1>1 DEF Heard
  <2>1. QueueEnds(queue, i, told) /\ (~InQueue(queue, i) => (i \in down <=> i \in told))
    BY <1>5 DEF Heard
  <2>2. QueueEnds(queue', i, told)
    BY <1>1, <2>1, QueueTail
  <2>3. CASE i \in Head(queue).of
    BY <1>1, <2>1, <2>2, <2>3, QueueTail
  <2>4. CASE i \notin Head(queue).of
    BY <1>1, <2>1, <2>2, <2>4, QueueTail
  <2> QED  BY <2>3, <2>4
<1>6. Words'
  BY <1>1, <1>5 DEF IInv, Words
<1> QED  BY <1>3, <1>4, <1>6 DEF IInv

LEMMA MapPreserves ==
  ASSUME IInv, NEW w \in Windows, Map(w)
  PROVE  IInv'
<1>1. TypeOK' /\ FocusShown'
  BY DEF IInv, TypeOK, FocusShown, Map, mir
<1>2. Control'
  BY DEF IInv, Control, Map, mir
<1>3. Words'
  BY DEF IInv, Words, Heard, Map, mir
<1> QED  BY <1>1, <1>2, <1>3 DEF IInv

\* The focus leaves the window before the drain, in which only messages for
\* other windows are handled.
LEMMA UnmapPreserves ==
  ASSUME IInv, NEW w \in Windows, Unmap(w)
  PROVE  IInv'
<1>1. /\ shown' = shown \ {w} /\ pc' = "drain" /\ unmapping' = w
      /\ pc # "drain" /\ unmapping = NoWindow
      /\ focus_window' = IF focus_window = w THEN NoWindow ELSE focus_window
      /\ unheard' \in {unheard, unheard \cup {Touch}}
      /\ UNCHANGED <<touch_id, queue, down, told, pipe>>
      /\ fingers' \in {fingers, {}} /\ touched' \in {touched, NoWindow}
  BY DEF Unmap, xmir_unmap_input, IInv, Control
<1>2. TypeOK' /\ FocusShown'
  BY <1>1 DEF IInv, TypeOK, FocusShown, Inputs
<1>3. Control'
  <2>1. \A n \in DOMAIN pipe : pipe[n] \in Message
    BY DEF IInv, TypeOK
  <2>2. \A n \in DOMAIN pipe : pipe[n].win # NoWindow
    BY <2>1, WindowsAssumption DEF Message, KeyMessage, PointerMessage, TouchMessage
  <2> QED  BY <1>1, <2>2 DEF IInv, Control
<1>4. Words'
  BY <1>1 DEF IInv, Words, Heard
<1> QED  BY <1>2, <1>3, <1>4 DEF IInv

LEMMA StepPreserves == IInv /\ [Next]_vars => IInv'
<1> SUFFICES ASSUME IInv, [Next]_vars PROVE IInv'
  OBVIOUS
<1>1. CASE MirThread
  BY <1>1, MirPreserves
<1>2. CASE DropMessage
  BY <1>2, DropPreserves
<1>3. CASE HandleKey
  BY <1>3, KeyPreserves
<1>4. CASE HandlePointer
  BY <1>4, PointerPreserves
<1>5. CASE HandleTouch
  BY <1>5, TouchPreserves
<1>6. CASE WakeupPipe
  BY <1>6, GotoPreserves DEF WakeupPipe, Goto, IInv, Control
<1>7. CASE WakeupClient
  BY <1>7, GotoPreserves DEF WakeupClient, Goto, IInv, Control
<1>8. CASE Yield
  BY <1>8, GotoPreserves DEF Yield, Goto, IInv, Control
<1>9. CASE DrainDone
  BY <1>9, GotoPreserves DEF DrainDone, Goto, IInv, Control
<1>10. CASE RequestDone
  BY <1>10, GotoPreserves DEF RequestDone, Goto, IInv, Control
<1>11. CASE ProcessInputEvent
  BY <1>11, ProcessPreserves
<1>12. CASE ProcessDone
  BY <1>12, GotoPreserves DEF ProcessDone, Goto, IInv, Control
<1>13. ASSUME NEW w \in Windows, Map(w) PROVE IInv'
  BY <1>13, MapPreserves
<1>14. ASSUME NEW w \in Windows, Unmap(w) PROVE IInv'
  BY <1>14, UnmapPreserves
<1>15. CASE UNCHANGED vars
  <2>1. TypeOK' /\ FocusShown' /\ Control'
    BY <1>15 DEF IInv, TypeOK, FocusShown, Control, vars, xserver, mir
  <2>2. Words'
    BY <1>15 DEF IInv, Words, Heard, vars, xserver, mir
  <2> QED  BY <2>1, <2>2 DEF IInv
<1> QED
  BY <1>1, <1>2, <1>3, <1>4, <1>5, <1>6, <1>7, <1>8, <1>9, <1>10, <1>11,
     <1>12, <1>13, <1>14, <1>15 DEF Next

-----------------------------------------------------------------------------
(* The fake touch pointer.  A finger that is followed is one that the server *)
(* knows to be down: by the next touch message in the pipe, or by Mir.       *)

Touches(p) == {n \in DOMAIN p : p[n].type = "touch"}

First(p, n) == n \in Touches(p) /\ \A k \in Touches(p) : k >= n
Last(p, n) == n \in Touches(p) /\ \A k \in Touches(p) : k <= n
Consecutive(p, n, k) ==
  /\ n \in Touches(p) /\ k \in Touches(p) /\ n < k
  /\ \A j \in Touches(p) : j <= n \/ j >= k

\* The fingers on the surface before and after a touch message.
Before(m) == {f \in DOMAIN m.points : m.points[f] # "down"}
After(m) == {f \in DOMAIN m.points : m.points[f] # "up"}

\* The last event of the fake touch pointer, or else what it holds down, tells
\* whether a finger is followed, unless the finger has been forgotten.
FollowedIsDown ==
  Touch \notin unheard =>
    /\ QueueEnds(queue, Touch, IF touch_id = NoFinger THEN {} ELSE {Touch})
    /\ ~InQueue(queue, Touch) => (Touch \in down <=> touch_id # NoFinger)

\* The finger followed is one of F, unless a message was not heard.
Known(F) == Touch \notin unheard => touch_id \in F \cup {NoFinger}

\* A touch event without points tells nothing of the fingers on a surface.
Bare(m) == DOMAIN m.points = {}

\* Each touch message starts from the fingers that the one before it left, and
\* the last leaves those on a surface now, the ones without points apart.
\* Excepted are those messages of a window that is unmapped under its fingers,
\* which are going to be dropped.
Leaves(m, F) == m.win = unmapping \/ Bare(m) \/ After(m) = F

Gestures ==
  /\ fingers = {} <=> touched = NoWindow
  /\ Touches(pipe) = {} => Known(fingers)
  /\ \A n \in Nat : First(pipe, n) => Bare(pipe[n]) \/ Known(Before(pipe[n]))
  /\ \A n, k \in Nat : Consecutive(pipe, n, k) =>
       Bare(pipe[k]) \/ Leaves(pipe[n], Before(pipe[k]))
  /\ \A n \in Nat : Last(pipe, n) =>
       Leaves(pipe[n], fingers) /\ (fingers # {} => pipe[n].win = touched)

LEMMA TouchesAppend ==
  ASSUME NEW p \in Seq(Message), NEW m \in Message
  PROVE  LET s == Append(p, m)
             L == Len(p) + 1
         IN  /\ L \in Nat /\ s[L] = m
             /\ \A n \in Touches(p) : n \in Nat /\ n < L /\ s[n] = p[n]
             /\ m.type # "touch" => Touches(s) = Touches(p)
             /\ m.type = "touch" => Touches(s) = Touches(p) \cup {L}
<1> DEFINE s == Append(p, m)
           L == Len(p) + 1
<1>1. /\ L \in Nat /\ s[L] = m
      /\ DOMAIN s = 1 .. L /\ DOMAIN p = 1 .. Len(p) /\ Len(p) \in Nat
      /\ \A n \in DOMAIN p : n \in Nat /\ n < L /\ s[n] = p[n]
      /\ \A n : n \in DOMAIN s <=> n \in DOMAIN p \/ n = L
  OBVIOUS
<1> HIDE DEF s, L
<1>2. \A n : n \in Touches(s) <=> n \in Touches(p) \/ (n = L /\ m.type = "touch")
  BY <1>1 DEF Touches
<1>3. \A n \in Touches(p) : n \in Nat /\ n < L /\ s[n] = p[n]
  BY <1>1 DEF Touches
<1>4. m.type # "touch" => Touches(s) = Touches(p)
  BY <1>2
<1>5. m.type = "touch" => Touches(s) = Touches(p) \cup {L}
  BY <1>2
<1> QED  BY <1>1, <1>3, <1>4, <1>5 DEF s, L

LEMMA TouchesTail ==
  ASSUME NEW p \in Seq(Message), p # <<>>
  PROVE  /\ \A n \in Touches(p) : n \in Nat \ {0}
         /\ \A n \in Nat \ {0} : n \in Touches(Tail(p)) <=> n + 1 \in Touches(p)
         /\ \A n \in Touches(Tail(p)) : n \in Nat \ {0} /\ Tail(p)[n] = p[n + 1]
         /\ 1 \in Touches(p) <=> Head(p).type = "touch"
         /\ Head(p) = p[1]
<1> DEFINE s == Tail(p)
<1>1. /\ Len(p) \in Nat /\ Len(p) >= 1
      /\ DOMAIN s = 1 .. (Len(p) - 1) /\ DOMAIN p = 1 .. Len(p)
      /\ \A n \in 1 .. (Len(p) - 1) : s[n] = p[n + 1]
      /\ Head(p) = p[1]
  OBVIOUS
<1> HIDE DEF s
<1>2. \A n \in Touches(p) : n \in Nat \ {0}
  BY <1>1 DEF Touches
<1>3. \A n \in Touches(s) : n \in Nat \ {0} /\ s[n] = p[n + 1]
  BY <1>1 DEF Touches
<1>4. ASSUME NEW n \in Nat \ {0} PROVE n \in Touches(s) <=> n + 1 \in Touches(p)
  BY <1>1 DEF Touches
<1>5. 1 \in Touches(p) <=> Head(p).type = "touch"
  BY <1>1 DEF Touches
<1> QED  BY <1>1, <1>2, <1>3, <1>4, <1>5 DEF s

\* What is first, last and consecutive after the first message is read.
LEMMA FirstTail ==
  ASSUME NEW p \in Seq(Message), p # <<>>
  PROVE  /\ Head(p).type = "touch" => First(p, 1)
         /\ \A n \in Nat : First(Tail(p), n) =>
              /\ Tail(p)[n] = p[n + 1]
              /\ IF Head(p).type = "touch" THEN Consecutive(p, 1, n + 1)
                                           ELSE First(p, n + 1)
         /\ \A n \in Nat : Last(Tail(p), n) => Tail(p)[n] = p[n + 1] /\ Last(p, n + 1)
         /\ \A n, k \in Nat : Consecutive(Tail(p), n, k) =>
              /\ Tail(p)[n] = p[n + 1] /\ Tail(p)[k] = p[k + 1]
              /\ Consecutive(p, n + 1, k + 1)
         /\ Touches(Tail(p)) = {} =>
              IF Head(p).type = "touch" THEN Last(p, 1) ELSE Touches(p) = {}
<1> DEFINE s == Tail(p)
           T == Touches(p)
           S == Touches(s)
<1>1. /\ \A n \in T : n \in Nat \ {0}
      /\ \A n \in Nat \ {0} : n \in S <=> n + 1 \in T
      /\ \A n \in S : n \in Nat \ {0} /\ s[n] = p[n + 1]
      /\ 1 \in T <=> Head(p).type = "touch"
  BY TouchesTail
<1> HIDE DEF s, T, S
<1>2. ASSUME NEW n \in T, n # 1 PROVE n - 1 \in S /\ n - 1 \in Nat
  <2> DEFINE j == n - 1
  <2>0. n \in Nat /\ n # 0 /\ n # 1
    BY <1>1, <1>2
  <2>1. j \in Nat \ {0} /\ j + 1 = n
    BY <2>0
  <2> HIDE DEF j
  <2>2. j \in S
    BY <1>1, <2>1
  <2> QED  BY <2>1, <2>2 DEF j
<1>3. Head(p).type = "touch" => First(p, 1)
  BY <1>1 DEF First, T
<1>4. ASSUME NEW n \in Nat, First(s, n)
      PROVE  /\ s[n] = p[n + 1]
             /\ IF Head(p).type = "touch" THEN Consecutive(p, 1, n + 1)
                                          ELSE First(p, n + 1)
  <2>1. n \in S /\ \A k \in S : k >= n
    BY <1>4 DEF First, S
  <2>2. n + 1 \in T /\ s[n] = p[n + 1] /\ n # 0
    BY <1>1, <2>1
  <2>3. ASSUME NEW j \in T, j # 1 PROVE j >= n + 1
    <3>1. j - 1 >= n /\ j \in Nat
      BY <1>1, <1>2, <2>1, <2>3
    <3> QED  BY <3>1
  <2>4. CASE 1 \in T
    BY <1>1, <2>2, <2>3, <2>4 DEF Consecutive, T
  <2>5. CASE 1 \notin T
    BY <1>1, <2>2, <2>3, <2>5 DEF First, T
  <2> QED  BY <1>1, <2>4, <2>5
<1>5. ASSUME NEW n \in Nat, Last(s, n) PROVE s[n] = p[n + 1] /\ Last(p, n + 1)
  <2>1. n \in S /\ \A k \in S : k <= n
    BY <1>5 DEF Last, S
  <2>2. n + 1 \in T /\ s[n] = p[n + 1]
    BY <1>1, <2>1
  <2>3. ASSUME NEW j \in T PROVE j <= n + 1
    <3>1. j \in Nat /\ (j # 1 => j - 1 <= n)
      BY <1>1, <1>2, <2>1
    <3> QED  BY <3>1
  <2> QED  BY <2>2, <2>3 DEF Last, T
<1>6. ASSUME NEW n \in Nat, NEW k \in Nat, Consecutive(s, n, k)
      PROVE  s[n] = p[n + 1] /\ s[k] = p[k + 1] /\ Consecutive(p, n + 1, k + 1)
  <2>1. n \in S /\ k \in S /\ n < k /\ \A j \in S : j <= n \/ j >= k
    BY <1>6 DEF Consecutive, S
  <2>2. n + 1 \in T /\ s[n] = p[n + 1] /\ k + 1 \in T /\ s[k] = p[k + 1]
    BY <1>1, <2>1
  <2>3. ASSUME NEW j \in T PROVE j <= n + 1 \/ j >= k + 1
    <3>1. j \in Nat /\ (j # 1 => j - 1 <= n \/ j - 1 >= k)
      BY <1>1, <1>2, <2>1
    <3> QED  BY <3>1
  <2> QED  BY <2>1, <2>2, <2>3 DEF Consecutive, T
<1>7. ASSUME S = {}
      PROVE  IF Head(p).type = "touch" THEN Last(p, 1) ELSE T = {}
  <2>1. \A n \in T : n = 1
    BY <1>2, <1>7
  <2> QED  BY <1>1, <2>1 DEF Last, T
<1> QED  BY <1>3, <1>4, <1>5, <1>6, <1>7 DEF s, T, S

Touching == FollowedIsDown /\ Gestures

LEMMA InitTouching == Init => Touching
<1> SUFFICES ASSUME Init PROVE Touching
  OBVIOUS
<1>1. FollowedIsDown
  BY DEF Init, FollowedIsDown, QueueEnds, InQueue
<1>2. Touches(pipe) = {}
  BY DEF Init, Touches
<1>3. Gestures
  BY <1>2 DEF Init, Gestures, Known, First, Last, Consecutive
<1> QED  BY <1>1, <1>3 DEF Touching

\* With nothing on its way, a finger is followed only if it is on a surface.
LEMMA TouchingReleases == IInv /\ Touching => TouchReleased
<1> SUFFICES ASSUME IInv, Touching, AtRest, fingers = {}, Touch \notin unheard
             PROVE  Touch \notin down
  BY DEF TouchReleased
<1>1. queue = <<>> /\ pipe = <<>>
  BY DEF IInv, Control, AtRest
<1>2. ~InQueue(queue, Touch) /\ Touches(pipe) = {}
  BY <1>1 DEF InQueue, Touches
<1>3. touch_id = NoFinger
  BY <1>2 DEF Touching, Gestures, Known
<1> QED  BY <1>2, <1>3 DEF Touching, FollowedIsDown

\* Steps that leave the pipe and the fingers alone.
LEMMA StillGestures ==
  ASSUME Gestures, UNCHANGED <<touch_id, fingers, touched, pipe>>,
         unmapping' = unmapping \/ pipe = <<>>,
         Touch \in unheard' <=> Touch \in unheard
  PROVE  Gestures'
<1>1. pipe = <<>> => Touches(pipe) = {}
  BY DEF Touches
<1>2. \A F : Known(F)' <=> Known(F)
  BY DEF Known
<1>3. CASE unmapping' = unmapping
  BY <1>2, <1>3 DEF Gestures, Leaves, Known
<1>4. CASE pipe = <<>>
  BY <1>1, <1>4 DEF Gestures, Known, First, Last, Consecutive
<1> QED  BY <1>3, <1>4

\* Steps of the queue: an event that is none of the touch pointer's.
LEMMA OtherEvents ==
  ASSUME FollowedIsDown, queue \in Seq(Event), UNCHANGED <<touch_id, down>>,
         Touch \in unheard' <=> Touch \in unheard,
         NEW d \in Event, NEW e \in Event, Touch \notin d.of, Touch \notin e.of,
         queue' = (queue \o Enqueued(d)) \o Enqueued(e)
  PROVE  FollowedIsDown'
<1> DEFINE T == IF touch_id = NoFinger THEN {} ELSE {Touch}
           q == queue \o Enqueued(d)
<1>1. /\ q \in Seq(Event) /\ (InQueue(q, Touch) <=> InQueue(queue, Touch))
      /\ QueueEnds(queue, Touch, T) => QueueEnds(q, Touch, T)
  BY QueueAppend
<1>2. queue' = q \o Enqueued(e)
  OBVIOUS
<1> HIDE DEF q, T
<1>3. /\ InQueue(queue', Touch) <=> InQueue(q, Touch)
      /\ QueueEnds(q, Touch, T) => QueueEnds(queue', Touch, T)
  BY <1>1, <1>2, QueueAppend
<1> QED  BY <1>1, <1>3 DEF FollowedIsDown, T

-----------------------------------------------------------------------------
(* Touch messages are posted and read *)

LEMMA PostOther ==
  ASSUME IInv, Gestures, NEW m \in Message, m.type # "touch",
         pipe' = Append(pipe, m),
         UNCHANGED <<unmapping, touch_id, fingers, touched, unheard>>
  PROVE  Gestures'
<1>1. pipe \in Seq(Message)
  BY DEF IInv, TypeOK
<1>2. Touches(pipe') = Touches(pipe) /\ \A n \in Touches(pipe) : pipe'[n] = pipe[n]
  BY <1>1, TouchesAppend
<1>3. \A n, k : /\ First(pipe', n) => First(pipe, n) /\ pipe'[n] = pipe[n]
                /\ Last(pipe', n) => Last(pipe, n) /\ pipe'[n] = pipe[n]
                /\ Consecutive(pipe', n, k) =>
                     Consecutive(pipe, n, k) /\ pipe'[n] = pipe[n] /\ pipe'[k] = pipe[k]
  BY <1>2 DEF First, Last, Consecutive
<1>4. \A n \in Nat : First(pipe', n) => Bare(pipe'[n]) \/ Known(Before(pipe'[n]))
  BY <1>3 DEF Gestures
<1>5. \A n, k \in Nat : Consecutive(pipe', n, k) =>
        Bare(pipe'[k]) \/ Leaves(pipe'[n], Before(pipe'[k]))
  BY <1>3 DEF Gestures
<1>6. \A n \in Nat : Last(pipe', n) =>
        Leaves(pipe'[n], fingers) /\ (fingers # {} => pipe'[n].win = touched)
  BY <1>3 DEF Gestures
<1> QED  BY <1>2, <1>4, <1>5, <1>6 DEF Gestures, Known, Leaves

\* The message starts from the fingers that are on the surface, or has none.
LEMMA PostTouch ==
  ASSUME IInv, Gestures, NEW m \in Message, m.type = "touch",
         pipe' = Append(pipe, m),
         Bare(m) \/ (Before(m) = fingers /\ After(m) = fingers'),
         fingers # {} => m.win = touched,
         fingers' # {} => m.win = touched',
         fingers' = {} <=> touched' = NoWindow,
         UNCHANGED <<unmapping, touch_id, unheard>>
  PROVE  Gestures'
<1> DEFINE L == Len(pipe) + 1
<1>1. pipe \in Seq(Message)
  BY DEF IInv, TypeOK
<1>2. /\ L \in Nat /\ pipe'[L] = m /\ Touches(pipe') = Touches(pipe) \cup {L}
      /\ \A n \in Touches(pipe) : n \in Nat /\ n < L /\ pipe'[n] = pipe[n]
  BY <1>1, TouchesAppend
<1> HIDE DEF L
<1>3. ASSUME NEW n \in Nat, First(pipe', n) PROVE (Bare(pipe[n]) \/ Known(Before(pipe[n])))'
  <2>1. CASE n = L
    <3>1. ASSUME NEW k \in Touches(pipe) PROVE FALSE
      <4>1. k \in Nat /\ k < L /\ k >= n
        BY <1>2, <1>3 DEF First
      <4> QED  BY <1>2, <2>1, <4>1
    <3>2. Touches(pipe) = {}
      BY <3>1
    <3> QED  BY <1>2, <2>1, <3>2 DEF Gestures, Known
  <2>2. CASE n # L
    <3>1. First(pipe, n) /\ pipe'[n] = pipe[n]
      BY <1>2, <1>3, <2>2 DEF First
    <3> QED  BY <3>1 DEF Gestures, Known
  <2> QED  BY <2>1, <2>2
<1>4. ASSUME NEW n \in Nat, NEW k \in Nat, Consecutive(pipe', n, k)
      PROVE  (Bare(pipe[k]) \/ Leaves(pipe[n], Before(pipe[k])))'
  <2>1. n \in Touches(pipe) /\ pipe'[n] = pipe[n]
    <3>1. n \in Touches(pipe') /\ k \in Touches(pipe') /\ n < k
      BY <1>4 DEF Consecutive
    <3>2. k = L \/ k < L
      BY <1>2, <3>1
    <3>3. n # L
      BY <1>2, <3>1, <3>2
    <3> QED  BY <1>2, <3>1, <3>3
  <2>2. CASE k = L
    <3>1. Last(pipe, n)
      BY <1>2, <1>4, <2>1, <2>2 DEF Consecutive, Last
    <3> QED  BY <1>2, <2>1, <2>2, <3>1 DEF Gestures, Leaves
  <2>3. CASE k # L
    <3>1. Consecutive(pipe, n, k) /\ pipe'[k] = pipe[k]
      BY <1>2, <1>4, <2>1, <2>3 DEF Consecutive
    <3> QED  BY <2>1, <3>1 DEF Gestures, Leaves
  <2> QED  BY <2>2, <2>3
<1>5. ASSUME NEW n \in Nat, Last(pipe', n)
      PROVE  /\ Leaves(pipe[n], fingers)'
             /\ fingers' # {} => pipe'[n].win = touched'
  <2>1. n = L
    BY <1>2, <1>5 DEF Last
  <2> QED  BY <1>2, <2>1 DEF Leaves
<1>6. Touches(pipe') # {}
  BY <1>2
<1> QED  BY <1>3, <1>4, <1>5, <1>6 DEF Gestures

\* A touch message read was the first: the finger followed is among those it
\* left, unless it was dropped.
LEMMA ReadGestures ==
  ASSUME IInv, Gestures, Draining, NEW m, Receive(m),
         IF m.type = "touch"
           THEN Touch \in unheard' \/ (Wanted(m) /\ touch_id' \in After(m) \cup {NoFinger})
           ELSE touch_id' = touch_id /\ (Touch \in unheard' <=> Touch \in unheard)
  PROVE  Gestures'
<1>1. /\ pipe \in Seq(Message) /\ pipe # <<>> /\ pipe' = Tail(pipe) /\ m = Head(pipe)
      /\ UNCHANGED <<unmapping, fingers, touched>>
  BY DEF IInv, TypeOK, Draining, Receive
<1>2. m = pipe[1]
  BY <1>1, TouchesTail
<1>3. /\ \A n \in Nat : First(pipe', n) =>
           /\ pipe'[n] = pipe[n + 1]
           /\ IF m.type = "touch" THEN Consecutive(pipe, 1, n + 1)
                                  ELSE First(pipe, n + 1)
      /\ \A n \in Nat : Last(pipe', n) => pipe'[n] = pipe[n + 1] /\ Last(pipe, n + 1)
      /\ \A n, k \in Nat : Consecutive(pipe', n, k) =>
           /\ pipe'[n] = pipe[n + 1] /\ pipe'[k] = pipe[k + 1]
           /\ Consecutive(pipe, n + 1, k + 1)
      /\ Touches(pipe') = {} =>
           IF m.type = "touch" THEN Last(pipe, 1) ELSE Touches(pipe) = {}
  BY <1>1, FirstTail
<1>4. ASSUME NEW F, m.type = "touch" => Leaves(m, F), m.type # "touch" => Known(F)
      PROVE  Known(F)'
  BY <1>4 DEF Known, Leaves, Wanted, Bare, After
<1>5. ASSUME Touches(pipe') = {} PROVE Known(fingers)'
  <2>1. m.type = "touch" => Leaves(m, fingers)
    BY <1>2, <1>3, <1>5 DEF Gestures
  <2>2. m.type # "touch" => Known(fingers)
    BY <1>3, <1>5 DEF Gestures
  <2>3. \A F : F = fingers => Known(F)'
    BY <1>4, <2>1, <2>2
  <2> QED  BY <1>1, <2>3 DEF Known
<1>6. ASSUME NEW n \in Nat, First(pipe', n) PROVE (Bare(pipe[n]) \/ Known(Before(pipe[n])))'
  <2> DEFINE F == Before(pipe[n + 1])
  <2>1. pipe'[n] = pipe[n + 1] /\ n + 1 \in Nat /\ 1 \in Nat
    BY <1>3, <1>6
  <2> SUFFICES ASSUME ~Bare(pipe[n + 1]) PROVE Known(Before(pipe[n]))'
    BY <2>1
  <2>2. m.type = "touch" => Leaves(m, F)
    BY <1>2, <1>3, <1>6, <2>1 DEF Gestures
  <2>3. m.type # "touch" => Known(F)
    BY <1>3, <1>6, <2>1 DEF Gestures
  <2> HIDE DEF F
  <2>4. \A G : G = F => Known(G)'
    BY <1>4, <2>2, <2>3
  <2> QED  BY <2>1, <2>4 DEF F, Known
<1>7. ASSUME NEW n \in Nat, NEW k \in Nat, Consecutive(pipe', n, k)
      PROVE  (Bare(pipe[k]) \/ Leaves(pipe[n], Before(pipe[k])))'
  <2>1. n + 1 \in Nat /\ k + 1 \in Nat
    OBVIOUS
  <2>2. Bare(pipe[k + 1]) \/ Leaves(pipe[n + 1], Before(pipe[k + 1]))
    BY <1>3, <1>7, <2>1 DEF Gestures
  <2> QED  BY <1>1, <1>3, <1>7, <2>2 DEF Leaves
<1>8. ASSUME NEW n \in Nat, Last(pipe', n)
      PROVE  /\ Leaves(pipe[n], fingers)'
             /\ fingers' # {} => pipe'[n].win = touched'
  <2>1. n + 1 \in Nat
    OBVIOUS
  <2>2. Leaves(pipe[n + 1], fingers) /\ (fingers # {} => pipe[n + 1].win = touched)
    BY <1>3, <1>8, <2>1 DEF Gestures
  <2> QED  BY <1>1, <1>3, <1>8, <2>2 DEF Leaves
<1>9. fingers' = {} <=> touched' = NoWindow
  BY <1>1 DEF Gestures
<1> QED  BY <1>5, <1>6, <1>7, <1>8, <1>9 DEF Gestures

-----------------------------------------------------------------------------
(* Each step keeps the fingers in order *)

LEMMA MirTouching ==
  ASSUME IInv, Touching, MirThread
  PROVE  Touching'
<1>1. PICK w \in Windows :
        \/ \E k \in Keys, action \in {"up", "down", "repeat"} : MirKey(w, k, action)
        \/ \E state \in SUBSET Buttons : MirButton(w, state)
        \/ MirMotion(w) \/ MirNoTouch(w)
        \/ \E f \in Fingers, action \in TouchActions : MirTouch(w, f, action)
  BY DEF MirThread
<1>2. UNCHANGED <<queue, down, touch_id, unheard>>
  BY <1>1 DEF MirKey, MirButton, MirMotion, MirTouch, MirNoTouch, xserver
<1>3. FollowedIsDown'
  BY <1>2 DEF Touching, FollowedIsDown
<1>4. ASSUME NEW k \in Keys, NEW action \in {"up", "down", "repeat"}, MirKey(w, k, action)
      PROVE  Gestures'
  <2> DEFINE m == [type |-> "key", win |-> w, key |-> k, action |-> action]
  <2>1. m \in Message /\ m.type # "touch"
    BY DEF Message, KeyMessage
  <2>2. /\ pipe' = Append(pipe, m)
        /\ UNCHANGED <<unmapping, touch_id, fingers, touched, unheard>>
    BY <1>4 DEF MirKey, xmir_surface_handle_event, xserver
  <2> HIDE DEF m
  <2> QED  BY <2>1, <2>2, PostOther DEF Touching
<1>5. ASSUME NEW state \in SUBSET Buttons, NEW button \in BOOLEAN,
             pipe' = Append(pipe, [type |-> "pointer", win |-> w, button |-> button,
                                   state |-> state]),
             UNCHANGED <<unmapping, touch_id, fingers, touched, unheard>>
      PROVE  Gestures'
  <2> DEFINE m == [type |-> "pointer", win |-> w, button |-> button, state |-> state]
  <2>1. m \in Message /\ m.type # "touch" /\ pipe' = Append(pipe, m)
    BY <1>5 DEF Message, PointerMessage
  <2> HIDE DEF m
  <2> QED  BY <1>5, <2>1, PostOther DEF Touching
<1>6. ASSUME NEW state \in SUBSET Buttons, MirButton(w, state)
      PROVE  Gestures'
  BY <1>5, <1>6 DEF MirButton, xmir_surface_handle_event, xserver
<1>7. ASSUME MirMotion(w) PROVE Gestures'
  BY <1>5, <1>7 DEF MirMotion, xmir_surface_handle_event, xserver
<1>8. ASSUME NEW f \in Fingers, NEW action \in TouchActions, MirTouch(w, f, action)
      PROVE  Gestures'
  <2> DEFINE P == [g \in fingers \cup {f} |-> IF g = f THEN action ELSE "change"]
             m == [type |-> "touch", win |-> w, points |-> P]
  <2>1. /\ pipe' = Append(pipe, m) /\ fingers \subseteq Fingers
        /\ fingers' = (IF action = "up" THEN fingers \ {f} ELSE fingers \cup {f})
        /\ touched' = (IF fingers' = {} THEN NoWindow ELSE w)
        /\ action = "down" <=> f \notin fingers
        /\ fingers # {} => w = touched
        /\ UNCHANGED <<unmapping, touch_id, unheard>>
    BY <1>8 DEF MirTouch, xmir_surface_handle_event, IInv, TypeOK, xserver
  <2>2. m \in Message /\ m.type = "touch"
    <3>1. P \in [fingers \cup {f} -> TouchActions] /\ fingers \cup {f} \in SUBSET Fingers
      BY <2>1 DEF TouchActions
    <3>2. P \in UNION {[F -> TouchActions] : F \in SUBSET Fingers}
      BY <3>1
    <3> HIDE DEF P
    <3> QED  BY <3>2 DEF Message, TouchMessage
  <2>3. Before(m) = fingers /\ After(m) = fingers' /\ m.win = w
    BY <2>1 DEF Before, After, TouchActions
  <2> HIDE DEF P, m
  <2>4. fingers' = {} <=> touched' = NoWindow
    BY <2>1, WindowsAssumption
  <2> QED  BY <2>1, <2>2, <2>3, <2>4, PostTouch DEF Touching
<1>9. ASSUME MirNoTouch(w) PROVE Gestures'
  <2> DEFINE m == [type |-> "touch", win |-> w, points |-> NoPoints]
  <2>1. m \in Message /\ m.type = "touch" /\ Bare(m) /\ m.win = w
    BY NoPointsType DEF Message, TouchMessage, Bare
  <2>2. /\ pipe' = Append(pipe, m)
        /\ fingers # {} => w = touched
        /\ (fingers' = {} /\ touched' = NoWindow) \/ UNCHANGED <<fingers, touched>>
        /\ UNCHANGED <<unmapping, touch_id, unheard>>
    BY <1>9 DEF MirNoTouch, xmir_surface_handle_event, xserver
  <2> HIDE DEF m
  <2>3. fingers' = {} <=> touched' = NoWindow
    BY <2>2 DEF Touching, Gestures
  <2> QED  BY <2>1, <2>2, <2>3, PostTouch DEF Touching
<1> QED  BY <1>1, <1>3, <1>4, <1>6, <1>7, <1>8, <1>9 DEF Touching

LEMMA DropTouching ==
  ASSUME IInv, Touching, DropMessage
  PROVE  Touching'
<1>1. PICK m : /\ Draining /\ m = Head(pipe) /\ Receive(m)
               /\ unheard' = unheard \cup Tells(m)
               /\ UNCHANGED <<touch_id, queue, down>>
  BY DEF DropMessage, Receive
<1>2. m \in Message
  BY <1>1, Read
<1>3. m.type = "touch" => Touch \in unheard'
  BY <1>1 DEF Tells
<1>4. m.type # "touch" => Touch \notin Tells(m)
  BY <1>2, InputsAssumption
     DEF Message, KeyMessage, PointerMessage, TouchMessage, Tells
<1>5. Gestures'
  BY <1>1, <1>3, <1>4, ReadGestures DEF Touching
<1>6. FollowedIsDown'
  BY <1>1 DEF Touching, FollowedIsDown
<1> QED  BY <1>5, <1>6 DEF Touching

LEMMA KeyTouching ==
  ASSUME IInv, Touching, HandleKey
  PROVE  Touching'
<1>1. PICK m : /\ m = Head(pipe) /\ Draining /\ Receive(m) /\ m.type = "key"
               /\ QueueKeyboardEvents(m.key, m.action)
               /\ unheard' = unheard \ {m.key} /\ touch_id' = touch_id
  BY DEF HandleKey
<1>2. m \in Message
  BY <1>1, Read
<1>3. m.key \in Keys /\ m.key # Touch
  BY <1>1, <1>2, InputsAssumption DEF Message, KeyMessage, PointerMessage, TouchMessage
<1>4. Gestures' /\ (Touch \in unheard' <=> Touch \in unheard)
  BY <1>1, <1>3, ReadGestures DEF Touching
<1> DEFINE r == Release(IF m.action = "down" THEN {} ELSE {m.key})
           p == Press(IF m.action = "up" THEN {} ELSE {m.key})
<1>5. r \in Event /\ p \in Event /\ Touch \notin r.of /\ Touch \notin p.of
  BY <1>3 DEF Event, Inputs, Press, Release
<1>6. queue' = (queue \o Enqueued(r)) \o Enqueued(p) /\ queue \in Seq(Event)
      /\ down' = down
  BY <1>1 DEF QueueKeyboardEvents, Receive, IInv, TypeOK
<1> HIDE DEF r, p
<1>7. FollowedIsDown'
  BY <1>1, <1>4, <1>5, <1>6, OtherEvents DEF Touching
<1> QED  BY <1>4, <1>7 DEF Touching

LEMMA PointerTouching ==
  ASSUME IInv, Touching, HandlePointer
  PROVE  Touching'
<1>1. PICK m : /\ m = Head(pipe) /\ Draining /\ Receive(m) /\ m.type = "pointer"
               /\ touch_id' = touch_id
               /\ IF m.button THEN pointer_handle_button(m.state)
                              ELSE UNCHANGED <<queue, unheard>>
  BY DEF HandlePointer
<1>2. m \in Message
  BY <1>1, Read
<1>3. m.state \subseteq Buttons /\ Touch \notin Buttons
  BY <1>1, <1>2, InputsAssumption DEF Message, KeyMessage, PointerMessage, TouchMessage
<1>4. Touch \in unheard' <=> Touch \in unheard
  BY <1>1, <1>3 DEF pointer_handle_button
<1>5. Gestures'
  BY <1>1, <1>4, ReadGestures DEF Touching
<1>6. down' = down /\ queue \in Seq(Event)
  BY <1>1 DEF Receive, IInv, TypeOK
<1>7. CASE m.button
  <2> DEFINE p == Press(m.state \ down)
             r == Release((Buttons \cap down) \ m.state)
  <2>1. r \in Event /\ p \in Event /\ Touch \notin r.of /\ Touch \notin p.of
    BY <1>3 DEF Event, Inputs, Press, Release
  <2>2. queue' = (queue \o Enqueued(p)) \o Enqueued(r)
    BY <1>1, <1>7 DEF pointer_handle_button
  <2> HIDE DEF r, p
  <2>3. FollowedIsDown'
    BY <1>1, <1>4, <1>6, <2>1, <2>2, OtherEvents DEF Touching
  <2> QED  BY <1>5, <2>3 DEF Touching
<1>8. CASE ~m.button
  <2>1. FollowedIsDown'
    BY <1>1, <1>4, <1>6, <1>8 DEF Touching, FollowedIsDown
  <2> QED  BY <1>5, <2>1 DEF Touching
<1> QED  BY <1>7, <1>8

\* A finger is followed from its "down" to its "up", each of which the touch
\* pointer is told.
LEMMA TouchTouching ==
  ASSUME IInv, Touching, HandleTouch
  PROVE  Touching'
<1>1. PICK m : /\ m = Head(pipe) /\ Draining /\ Receive(m) /\ m.type = "touch"
               /\ Wanted(m)
               /\ \/ Bare(m) /\ touch_none
                  \/ /\ ~Bare(m) /\ Followed(m.points) = {}
                     /\ UNCHANGED <<touch_id, queue, unheard>>
                  \/ \E f \in Followed(m.points) :
                       /\ touch_point(m.win, f, m.points[f])
                       /\ unheard' = IF m.points[f] = "change"
                                       THEN unheard ELSE unheard \ {Touch}
  BY DEF HandleTouch, Bare
<1>2. m \in Message
  BY <1>1, Read
<1>3. /\ DOMAIN m.points \subseteq Fingers
      /\ \A f \in DOMAIN m.points : m.points[f] \in {"up", "down", "change"}
  BY <1>1, <1>2 DEF Message, KeyMessage, PointerMessage, TouchMessage, TouchActions
<1>4. queue \in Seq(Event) /\ down' = down
  BY <1>1 DEF Receive, IInv, TypeOK
<1>5. Bare(m) \/ Known(Before(m))
  <2>1. First(pipe, 1) /\ m = pipe[1] /\ 1 \in Nat
    <3>1. pipe \in Seq(Message) /\ pipe # <<>>
      BY <1>1 DEF IInv, TypeOK, Draining
    <3> QED  BY <1>1, <3>1, FirstTail, TouchesTail
  <2> QED  BY <2>1 DEF Touching, Gestures
<1>6. CASE /\ ~Bare(m) /\ Followed(m.points) = {}
           /\ UNCHANGED <<touch_id, queue, unheard>>
  <2>1. Touch \notin unheard => touch_id = NoFinger
    BY <1>5, <1>6 DEF Known, Before, Followed, Bare
  <2>2. Gestures'
    BY <1>1, <1>6, <2>1, ReadGestures DEF Touching
  <2>3. FollowedIsDown'
    BY <1>4, <1>6 DEF Touching, FollowedIsDown
  <2> QED  BY <2>2, <2>3 DEF Touching
<1>7. ASSUME NEW f \in Followed(m.points), touch_point(m.win, f, m.points[f]),
             unheard' = IF m.points[f] = "change" THEN unheard ELSE unheard \ {Touch}
      PROVE  Touching'
  <2>1. f \in DOMAIN m.points /\ f \in Fingers /\ f # NoFinger
        /\ m.points[f] \in {"up", "down", "change"}
    BY <1>3, FingersAssumption DEF Followed
  <2>2. CASE m.points[f] = "change"
    <3>1. UNCHANGED <<touch_id, queue, unheard>>
      BY <1>7, <2>2 DEF touch_point
    <3>2. touch_id \in After(m) \cup {NoFinger}
      BY <2>1, <2>2 DEF Followed, After
    <3>3. Gestures'
      BY <1>1, <3>1, <3>2, ReadGestures DEF Touching
    <3>4. FollowedIsDown'
      BY <1>4, <3>1 DEF Touching, FollowedIsDown
    <3> QED  BY <3>3, <3>4 DEF Touching
  <2>3. CASE m.points[f] = "down"
    <3>1. touch_id' = f /\ queue' = queue \o Enqueued(Press({Touch}))
      BY <1>7, <2>3 DEF touch_point
    <3>2. f \in After(m)
      BY <2>1, <2>3 DEF After
    <3>3. Gestures'
      BY <1>1, <3>1, <3>2, ReadGestures DEF Touching
    <3>4. Press({Touch}) \in Event /\ Press({Touch}).press /\ Touch \in Press({Touch}).of
      BY DEF Press, Event, Inputs
    <3>5. QueueEnds(queue', Touch, {Touch}) /\ InQueue(queue', Touch)
      BY <1>4, <3>1, <3>4, QueueAppend
    <3>6. FollowedIsDown'
      BY <2>1, <3>1, <3>5 DEF FollowedIsDown
    <3> QED  BY <3>3, <3>6 DEF Touching
  <2>4. CASE m.points[f] = "up"
    <3>1. touch_id' = NoFinger /\ queue' = queue \o Enqueued(Release({Touch}))
      BY <1>7, <2>4 DEF touch_point
    <3>2. Gestures'
      BY <1>1, <3>1, ReadGestures DEF Touching
    <3>3. Release({Touch}) \in Event /\ ~Release({Touch}).press
          /\ Touch \in Release({Touch}).of
      BY DEF Release, Event, Inputs
    <3>4. QueueEnds(queue', Touch, {}) /\ InQueue(queue', Touch)
      BY <1>4, <3>1, <3>3, QueueAppend
    <3>5. FollowedIsDown'
      BY <3>1, <3>4 DEF FollowedIsDown
    <3> QED  BY <3>2, <3>5 DEF Touching
  <2> QED  BY <2>1, <2>2, <2>3, <2>4
<1>8. CASE Bare(m) /\ touch_none
  <2>1. /\ touch_id' = NoFinger /\ queue' = queue
        /\ Touch \in unheard' \/ (Touch \notin unheard /\ touch_id = NoFinger)
    BY <1>8 DEF touch_none
  <2>2. Draining /\ Receive(m) /\ Wanted(m) /\ m.type = "touch"
    BY <1>1
  <2>3. Gestures'
    BY <2>1, <2>2, ReadGestures DEF Touching
  <2>4. FollowedIsDown'
    BY <1>4, <2>1 DEF Touching, FollowedIsDown
  <2> QED  BY <2>3, <2>4 DEF Touching
<1> QED  BY <1>1, <1>6, <1>7, <1>8

LEMMA ProcessTouching ==
  ASSUME IInv, Touching, ProcessInputEvent
  PROVE  Touching'
<1> DEFINE T == IF touch_id = NoFinger THEN {} ELSE {Touch}
<1>1. /\ queue \in Seq(Event) /\ queue # <<>> /\ queue' = Tail(queue)
      /\ down' = IF Head(queue).press THEN down \cup Head(queue).of
                                      ELSE down \ Head(queue).of
      /\ UNCHANGED <<touch_id, unmapping, fingers, touched, pipe, unheard>>
  BY DEF ProcessInputEvent, UpdateDeviceState, mir, IInv, TypeOK
<1>2. Gestures'
  BY <1>1, StillGestures DEF Touching
<1> SUFFICES ASSUME Touch \notin unheard PROVE Touching'
  BY <1>1, <1>2 DEF Touching, FollowedIsDown
<1>3. QueueEnds(queue, Touch, T) /\ (~InQueue(queue, Touch) => (Touch \in down <=> Touch \in T))
  BY DEF Touching, FollowedIsDown
<1> HIDE DEF T
<1>4. QueueEnds(queue', Touch, T)
  BY <1>1, <1>3, QueueTail
<1>5. ~InQueue(queue', Touch) => (Touch \in down' <=> Touch \in T)
  <2>1. CASE Touch \in Head(queue).of
    BY <1>1, <1>3, <2>1, QueueTail
  <2>2. CASE Touch \notin Head(queue).of
    BY <1>1, <1>3, <2>2, QueueTail
  <2> QED  BY <2>1, <2>2
<1>6. FollowedIsDown'
  BY <1>1, <1>4, <1>5 DEF FollowedIsDown, T
<1> QED  BY <1>2, <1>6 DEF Touching

\* The surface takes its fingers along: what its messages left is not heard.
LEMMA UnmapTouching ==
  ASSUME IInv, Touching, NEW w \in Windows, Unmap(w)
  PROVE  Touching'
<1>1. /\ unmapping = NoWindow /\ unmapping' = w
      /\ UNCHANGED <<touch_id, queue, down, pipe>>
  BY DEF Unmap, IInv, Control
<1>2. FollowedIsDown'
  <2>1. Touch \in unheard => Touch \in unheard'
    BY DEF Unmap
  <2> QED  BY <1>1, <2>1 DEF Touching, FollowedIsDown
<1>3. ASSUME NEW n \in Touches(pipe) PROVE pipe[n].win # unmapping
  <2>1. pipe[n] \in Message
    BY DEF IInv, TypeOK, Touches
  <2> QED  BY <1>1, <2>1, WindowsAssumption
           DEF Message, KeyMessage, PointerMessage, TouchMessage
<1>4. \A n, k \in Nat : Consecutive(pipe, n, k) =>
        Bare(pipe[k]) \/ Bare(pipe[n]) \/ After(pipe[n]) = Before(pipe[k])
  BY <1>3 DEF Touching, Gestures, Leaves, Consecutive
<1>5. \A n \in Nat : Last(pipe, n) =>
        (Bare(pipe[n]) \/ After(pipe[n]) = fingers) /\ (fingers # {} => pipe[n].win = touched)
  BY <1>3 DEF Touching, Gestures, Leaves, Last
<1>6. CASE touched = w
  <2>1. fingers # {} /\ fingers' = {} /\ touched' = NoWindow /\ Touch \in unheard'
    BY <1>6, WindowsAssumption DEF Unmap, Touching, Gestures
  <2>2. Gestures'
    BY <1>1, <1>4, <1>5, <1>6, <2>1 DEF Gestures, Known, Leaves
  <2> QED  BY <1>2, <2>2 DEF Touching
<1>7. CASE touched # w
  <2>1. UNCHANGED <<fingers, touched, unheard>>
    BY <1>7 DEF Unmap
  <2>2. Gestures'
    BY <1>1, <1>4, <1>5, <2>1 DEF Touching, Gestures, Known, Leaves
  <2> QED  BY <1>2, <2>2 DEF Touching
<1> QED  BY <1>6, <1>7

LEMMA StepTouching == IInv /\ Touching /\ [Next]_vars => Touching'
<1> SUFFICES ASSUME IInv, Touching, [Next]_vars PROVE Touching'
  OBVIOUS
<1>1. CASE MirThread
  BY <1>1, MirTouching
<1>2. CASE DropMessage
  BY <1>2, DropTouching
<1>3. CASE HandleKey
  BY <1>3, KeyTouching
<1>4. CASE HandlePointer
  BY <1>4, PointerTouching
<1>5. CASE HandleTouch
  BY <1>5, TouchTouching
<1>6. CASE ProcessInputEvent
  BY <1>6, ProcessTouching
<1>7. CASE \/ WakeupPipe \/ WakeupClient \/ Yield \/ DrainDone \/ RequestDone
           \/ ProcessDone \/ (\E w \in Windows : Map(w)) \/ UNCHANGED vars
  <2>1. /\ UNCHANGED <<touch_id, queue, down, fingers, touched, pipe, unheard>>
        /\ unmapping' = unmapping \/ pipe = <<>>
    BY <1>7 DEF WakeupPipe, WakeupClient, Yield, DrainDone, RequestDone,
                ProcessDone, Goto, Map, mir, xserver, vars
  <2>2. FollowedIsDown'
    BY <2>1 DEF Touching, FollowedIsDown
  <2> QED  BY <2>1, <2>2, StillGestures DEF Touching
<1>8. ASSUME NEW w \in Windows, Unmap(w) PROVE Touching'
  BY <1>8, UnmapTouching
<1> QED  BY <1>1, <1>2, <1>3, <1>4, <1>5, <1>6, <1>7, <1>8 DEF Next

-----------------------------------------------------------------------------
(* Theorems *)

\* The invariant of the event path.
THEOREM Invariance == Spec => []IInv
  BY InitIInv, StepPreserves, PTL DEF Spec

\* Every variable keeps its type: the pipe never holds more than it can.
THEOREM TypeCorrect == Spec => []TypeOK
<1>1. IInv => TypeOK
  BY DEF IInv
<1> QED  BY <1>1, Invariance, PTL

\* The window that pointer events and cursors go to has a surface, through
\* every unmap and the messages handled within it.
THEOREM FocusStaysShown == Spec => []FocusShown
<1>1. IInv => FocusShown
  BY DEF IInv
<1> QED  BY <1>1, Invariance, PTL

\* At rest the server holds down the buttons and keys that Mir has told it,
\* but for those whose last word was not heard.
THEOREM MirIsFollowed == Spec => []FollowsMir
  BY IInvFollows, Invariance, PTL

\* At rest the fake touch pointer is pressed only while a finger is on a
\* surface, unless that surface was unmapped under it.
THEOREM TouchIsReleased == Spec => []TouchReleased
<1>1. Init => IInv /\ Touching
  BY InitIInv, InitTouching
<1>2. IInv /\ Touching /\ [Next]_vars => (IInv /\ Touching)'
  BY StepPreserves, StepTouching
<1> QED  BY <1>1, <1>2, TouchingReleases, PTL DEF Spec
=============================================================================
