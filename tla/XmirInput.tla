------------------------------ MODULE XmirInput ------------------------------
(***************************************************************************)
(* Input from Mir: how the buttons, keys and fingers that Mir's thread     *)
(* reports through the pipe become X events on the queue of mi, and how    *)
(* these set what the server holds down when they are processed.           *)
(*                                                                         *)
(* The server reads messages in two places, the wakeup handler and the     *)
(* unmap of a window, and processes the queue in a third, before the next  *)
(* request.  In between a message is handled on what the server held down  *)
(* before, and a window on focus_window may be unmapped.                   *)
(*                                                                         *)
(* Coordinates, motion events, key maps and input focus are left out; of   *)
(* the devices the pointer, the keyboard and the fake touch pointer are    *)
(* here, the master devices are not.  Mir is external and modelled from    *)
(* how xmir-input.c reads its events.                                      *)
(***************************************************************************)
EXTENDS Integers, Sequences

CONSTANTS
  Windows,       \* X windows that get a Mir surface when they are mapped
  NoWindow,      \* the NULL window
  Buttons,       \* buttons of the pointer that are mapped
  Keys,
  Touch,         \* the button of the fake touch pointer
  Fingers,       \* ids of Mir's touch points
  NoFinger,      \* touch_id = -1
  PipeCapacity   \* messages the pipe holds before a writer blocks

ASSUME WindowsAssumption == NoWindow \notin Windows
ASSUME FingersAssumption == NoFinger \notin Fingers
ASSUME InputsAssumption ==
         Touch \notin Buttons \cup Keys /\ Buttons \cap Keys = {}
ASSUME PipeAssumption == PipeCapacity \in Nat \ {0}

Inputs == Buttons \cup Keys \cup {Touch}

VARIABLES
  shown,         \* windows with a surface
  focus_window,  \* xmir_input->focus_window
  touch_id,      \* xmir_input->touch_id
  queue,         \* miEventQueue: what is pressed or released, in order
  down,          \* what the server holds down: the devices' processed state
  pc,            \* where the main thread is
  unmapping      \* the window whose unmap drains the pipe

xserver == <<shown, focus_window, touch_id, queue, down, pc, unmapping>>

VARIABLES
  told,          \* buttons and keys that are down by Mir's last word on them
  fingers,       \* touch points on a surface
  touched,       \* the window they are on
  pipe           \* messages posted and not yet read, in order

mir == <<told, fingers, touched, pipe>>

\* History: inputs on which Mir's last word was not heard, see FollowsMir and
\* TouchReleased.
VARIABLE unheard

vars == <<xserver, mir, unheard>>

TouchActions == {"up", "down", "change"}
KeyMessage ==
  [type : {"key"}, win : Windows, key : Keys,
   action : {"up", "down", "repeat"}]
PointerMessage ==
  [type : {"pointer"}, win : Windows, button : BOOLEAN,
   state : SUBSET Buttons]
TouchMessage ==
  [type : {"touch"}, win : Windows,
   points : UNION {[F -> TouchActions] : F \in SUBSET Fingers}]
Message == KeyMessage \cup PointerMessage \cup TouchMessage

Event == [press : BOOLEAN, of : SUBSET Inputs]
Press(S) == [press |-> TRUE, of |-> S]
Release(S) == [press |-> FALSE, of |-> S]

\* The inputs a message has a word on.
Tells(m) == CASE m.type = "key" -> {m.key}
              [] m.type = "pointer" -> IF m.button THEN Buttons ELSE {}
              [] m.type = "touch" -> {Touch}

\* The inputs of which an event is queued and not yet processed.
Queued == UNION {queue[i].of : i \in DOMAIN queue}

Init ==
  /\ shown = {} /\ focus_window = NoWindow /\ touch_id = NoFinger
  /\ queue = <<>> /\ down = {}
  /\ pc = "select" /\ unmapping = NoWindow
  /\ told = {} /\ fingers = {} /\ touched = NoWindow
  /\ pipe = <<>>
  /\ unheard = {}

-----------------------------------------------------------------------------
(* Mir: one message for each change, to the window it is over.  What changes *)
(* while another program has the pointer or the keyboard is not heard of.    *)

\* Mutant: nobody waits for room in the pipe.
xmir_surface_handle_event_Unbounded(m) == pipe' = Append(pipe, m)

xmir_surface_handle_event(m) ==
  /\ m.win \in shown
  /\ Len(pipe) < PipeCapacity
  /\ pipe' = Append(pipe, m)

MirKey(w, k, action) ==
  /\ (action = "down") = (k \notin told)
  /\ xmir_surface_handle_event([type |-> "key", win |-> w, key |-> k, action |-> action])
  /\ told' = IF action = "up" THEN told \ {k} ELSE told \cup {k}
  /\ UNCHANGED <<xserver, fingers, touched, unheard>>

\* A press or a release, of another button too, comes with the state of all.
MirButton(w, state) ==
  /\ xmir_surface_handle_event(
       [type |-> "pointer", win |-> w, button |-> TRUE, state |-> state])
  /\ told' = (told \ Buttons) \cup state
  /\ UNCHANGED <<xserver, fingers, touched, unheard>>

MirMotion(w) ==
  /\ xmir_surface_handle_event(
       [type |-> "pointer", win |-> w, button |-> FALSE,
        state |-> told \cap Buttons])
  /\ UNCHANGED <<xserver, told, fingers, touched, unheard>>

\* A gesture belongs to the window that its first finger came down on.
MirTouch(w, f, action) ==
  /\ fingers # {} => w = touched
  /\ (action = "down") = (f \notin fingers)
  /\ xmir_surface_handle_event(
       [type |-> "touch", win |-> w,
        points |-> [g \in fingers \cup {f} |->
                      IF g = f THEN action ELSE "change"]])
  /\ fingers' = IF action = "up" THEN fingers \ {f} ELSE fingers \cup {f}
  /\ touched' = IF fingers' = {} THEN NoWindow ELSE w
  /\ UNCHANGED <<xserver, told, unheard>>

NoPoints == [g \in {} |-> "change"]

\* A touch event with no points: xmir-input.c provides for one and does not say
\* whether it ends the gesture, so it may or may not.
MirNoTouch(w) ==
  /\ fingers # {} => w = touched
  /\ xmir_surface_handle_event([type |-> "touch", win |-> w, points |-> NoPoints])
  /\ \/ fingers' = {} /\ touched' = NoWindow
     \/ UNCHANGED <<fingers, touched>>
  /\ UNCHANGED <<xserver, told, unheard>>

-----------------------------------------------------------------------------
(* Messages are handled *)

\* The next message of the drain.
Receive(m) ==
  /\ m = Head(pipe)
  /\ pipe' = Tail(pipe)
  /\ UNCHANGED <<shown, down, pc, unmapping, told, fingers, touched>>

Draining == pc = "drain" /\ pipe # <<>>

\* Mutant: every message is handled, those of the window that goes too.
Wanted_Always(m) == TRUE

\* xmir_process_from_eventloop_except.
Wanted(m) == m.win # unmapping

DropMessage ==
  /\ Draining
  /\ LET m == Head(pipe)
     IN  ~Wanted(m) /\ Receive(m) /\ unheard' = unheard \cup Tells(m)
  /\ UNCHANGED <<focus_window, touch_id, queue>>

pointer_ensure_focus(w) == focus_window' = w

\* An event, unless it is of nothing.
Enqueued(e) == IF e.of = {} THEN <<>> ELSE <<e>>

\* Mutant: a repeated key is pressed before it is released.
QueueKeyboardEvents_Swapped(k, action) ==
  queue' = queue \o Enqueued(Press(IF action = "up" THEN {} ELSE {k}))
                 \o Enqueued(Release(IF action = "down" THEN {} ELSE {k}))

\* A repeated key is released and pressed.
QueueKeyboardEvents(k, action) ==
  queue' = queue \o Enqueued(Release(IF action = "down" THEN {} ELSE {k}))
                 \o Enqueued(Press(IF action = "up" THEN {} ELSE {k}))

HandleKey ==
  /\ Draining
  /\ LET m == Head(pipe)
     IN  /\ m.type = "key" /\ Wanted(m) /\ Receive(m)
         /\ QueueKeyboardEvents(m.key, m.action)
         /\ unheard' = unheard \ {m.key}
  /\ UNCHANGED <<focus_window, touch_id>>

\* The new state of the buttons is compared with what has been processed,
\* whatever is still in the queue.
pointer_handle_button(state) ==
  /\ queue' = queue \o Enqueued(Press(state \ down))
                    \o Enqueued(Release((Buttons \cap down) \ state))
  /\ unheard' = (unheard \ Buttons) \cup (Buttons \cap Queued)

HandlePointer ==
  /\ Draining
  /\ LET m == Head(pipe)
     IN  /\ m.type = "pointer" /\ Wanted(m) /\ Receive(m)
         /\ pointer_ensure_focus(m.win)
         /\ IF m.button THEN pointer_handle_button(m.state)
                        ELSE UNCHANGED <<queue, unheard>>
  /\ UNCHANGED touch_id

\* The finger that is followed, if it is among the points.  With none followed it
\* is point 0 whatever it does, which may be any, for Mir orders the points; or
\* else, with another followed, the first that comes down.
Followed(points) ==
  CASE touch_id \in DOMAIN points -> {touch_id}
    [] touch_id = NoFinger -> DOMAIN points
    [] OTHER -> {f \in DOMAIN points : points[f] = "down"}

\* No points: the finger is followed no more, but nothing is released.
touch_none ==
  /\ touch_id' = NoFinger
  /\ unheard' = IF touch_id = NoFinger THEN unheard ELSE unheard \cup {Touch}
  /\ UNCHANGED <<focus_window, queue>>

\* Mutant: a finger that goes up is only moved.
touch_point_Moved(w, f, action) ==
  CASE action = "up" -> touch_id' = NoFinger /\ UNCHANGED <<focus_window, queue>>
    [] action = "down" ->
         /\ touch_id' = f
         /\ pointer_ensure_focus(w)
         /\ queue' = queue \o Enqueued(Press({Touch}))
    [] action = "change" -> UNCHANGED <<touch_id, focus_window, queue>>

touch_point(w, f, action) ==
  CASE action = "up" ->
         /\ queue' = queue \o Enqueued(Release({Touch}))
         /\ touch_id' = NoFinger
         /\ UNCHANGED focus_window
    [] action = "down" ->
         /\ touch_id' = f
         /\ pointer_ensure_focus(w)
         /\ queue' = queue \o Enqueued(Press({Touch}))
    [] action = "change" -> UNCHANGED <<touch_id, focus_window, queue>>

HandleTouch ==
  /\ Draining
  /\ LET m == Head(pipe)
     IN  /\ m.type = "touch" /\ Wanted(m) /\ Receive(m)
         /\ \/ DOMAIN m.points = {} /\ touch_none
            \/ /\ DOMAIN m.points # {} /\ Followed(m.points) = {}
               /\ UNCHANGED <<focus_window, touch_id, queue, unheard>>
            \/ \E f \in Followed(m.points) :
                 /\ touch_point(m.win, f, m.points[f])
                 /\ unheard' = IF m.points[f] = "change" THEN unheard
                                                         ELSE unheard \ {Touch}

-----------------------------------------------------------------------------
(* The main thread *)

Goto(from, to) ==
  /\ pc = from
  /\ pc' = to
  /\ UNCHANGED <<shown, focus_window, touch_id, queue, down, mir, unheard>>

WakeupPipe == pipe # <<>> /\ Goto("select", "drain") /\ UNCHANGED unmapping
WakeupClient == pipe = <<>> /\ Goto("select", "dispatch") /\ UNCHANGED unmapping
Yield == Goto("dispatch", "select") /\ UNCHANGED unmapping

\* Back to the main loop, or to the request that unmaps: it may unmap more.
DrainDone ==
  /\ pipe = <<>>
  /\ Goto("drain", IF unmapping = NoWindow THEN "process" ELSE "request")
  /\ unmapping' = NoWindow

RequestDone == Goto("request", "process") /\ UNCHANGED unmapping

\* UpdateDeviceState refuses a press of what is down, or a release of what is not.
UpdateDeviceState(e) == down' = IF e.press THEN down \cup e.of ELSE down \ e.of

ProcessInputEvent ==
  /\ pc = "process" /\ queue # <<>>
  /\ UpdateDeviceState(Head(queue))
  /\ queue' = Tail(queue)
  /\ UNCHANGED <<shown, focus_window, touch_id, pc, unmapping, mir, unheard>>

ProcessDone == queue = <<>> /\ Goto("process", "dispatch") /\ UNCHANGED unmapping

Map(w) ==
  /\ pc = "dispatch" /\ w \notin shown
  /\ shown' = shown \cup {w}
  /\ UNCHANGED <<focus_window, touch_id, queue, down, pc, unmapping, mir, unheard>>

xmir_unmap_input(w) ==
  focus_window' = IF focus_window = w THEN NoWindow ELSE focus_window

\* xmir_unrealize_window, up to the drain.  The surface goes with the fingers
\* on it, of which nothing is heard any more.
Unmap(w) ==
  /\ pc \in {"dispatch", "request"} /\ w \in shown
  /\ xmir_unmap_input(w)
  /\ shown' = shown \ {w}
  /\ IF touched = w
       THEN /\ fingers' = {} /\ touched' = NoWindow
            /\ unheard' = unheard \cup {Touch}
       ELSE UNCHANGED <<fingers, touched, unheard>>
  /\ pc' = "drain" /\ unmapping' = w
  /\ UNCHANGED <<touch_id, queue, down, told, pipe>>

MirThread ==
  \E w \in Windows :
    \/ \E k \in Keys, action \in {"up", "down", "repeat"} : MirKey(w, k, action)
    \/ \E state \in SUBSET Buttons : MirButton(w, state)
    \/ MirMotion(w) \/ MirNoTouch(w)
    \/ \E f \in Fingers, action \in TouchActions : MirTouch(w, f, action)

Next ==
  \/ MirThread
  \/ DropMessage \/ HandleKey \/ HandlePointer \/ HandleTouch
  \/ WakeupPipe \/ WakeupClient \/ Yield \/ DrainDone \/ RequestDone
  \/ ProcessInputEvent \/ ProcessDone
  \/ \E w \in Windows : Map(w) \/ Unmap(w)

Spec == Init /\ [][Next]_vars

-----------------------------------------------------------------------------
(* Properties *)

\* Every variable has its type and the pipe its size.
TypeOK ==
  /\ shown \subseteq Windows
  /\ focus_window \in Windows \cup {NoWindow}
  /\ touch_id \in Fingers \cup {NoFinger}
  /\ queue \in Seq(Event) /\ down \subseteq Inputs
  /\ pc \in {"select", "drain", "process", "dispatch", "request"}
  /\ unmapping \in Windows \cup {NoWindow}
  /\ told \subseteq Buttons \cup Keys
  /\ fingers \subseteq Fingers /\ touched \in Windows \cup {NoWindow}
  /\ pipe \in Seq(Message) /\ Len(pipe) <= PipeCapacity
  /\ unheard \subseteq Inputs

\* xmir_xy_to_window and xmir_input_set_cursor follow focus_window to its X
\* window and its surface: it is never a window that has been unmapped, though
\* unmapping itself handles messages that set it.
FocusShown == focus_window # NoWindow => focus_window \in shown

\* Nothing is on its way to the server.
AtRest == pc = "select" /\ pipe = <<>>

\* At rest the server holds down what Mir has told it, button by button and
\* key by key.  Excepted are inputs on which Mir's last word was not heard,
\* which are wrong until the next: the message was dropped by an unmap, or was
\* a button's and compared with a state that its own queued press had not
\* reached yet.
FollowsMir ==
  AtRest => \A i \in (Buttons \cup Keys) \ unheard : i \in down <=> i \in told

\* At rest the fake touch pointer is pressed only while a finger is on a
\* surface.  Excepted are the surface that was unmapped under the finger and the
\* event without points, which forget it and leave the pointer pressed, until
\* the next finger comes down or goes up.
TouchReleased == AtRest /\ fingers = {} /\ Touch \notin unheard => Touch \notin down
=============================================================================
