--------------------------- MODULE XmirDpmsProofs ---------------------------
(***************************************************************************)
(* Proofs about XmirDpms, for any outputs and any times.                   *)
(*                                                                         *)
(* Each function of the code has a lemma that says what the state it       *)
(* leaves has to do with the one it found, and the lemma of a function     *)
(* uses those of the functions it calls.                                   *)
(***************************************************************************)
EXTENDS XmirDpms, TLAPS

\* Mir differs from the configuration xmir holds only where it has turned an
\* output on since.
Held(s) == \A o \in Outputs : s.mir[o] = On \/ s.mir[o] = s.display[o]

\* It does not differ.
Synced(s) == \A o \in Outputs : s.mir[o] = s.display[o]

Showing(s) == \A o \in Outputs : s.display[o] = On

\* NeverLeftDark, but for the level.
Shown(s) == NoOutputs(s) \/ (s.saved /\ s.blanked /\ ~s.hasWindow) \/ Showing(s)

\* What no function but the requests themselves changes.
Same(s, t) ==
  /\ t.enabled = s.enabled /\ t.dpms = s.dpms /\ t.saver = s.saver
  /\ t.suspended = s.suspended /\ t.rootless = s.rootless /\ t.windowed = s.windowed

\* What a change of the outputs leaves alone.
Kept(s, t) ==
  /\ Same(s, t)
  /\ t.level = s.level /\ t.saved = s.saved /\ t.blanked = s.blanked
  /\ t.hasWindow = s.hasWindow /\ t.attr = s.attr /\ t.preferBlank = s.preferBlank
  /\ t.timer = s.timer /\ t.idle = s.idle

\* The provers keep a predicate apart from terms, but not a Boolean field.
Saved(s) == s.saved

Running(s) == Configured(s) /\ ~s.suspended => s.timer # NoTimer

\* t's outputs are on only where s's are.
Darker(s, t) == \A o \in Outputs : t.mir[o] = On => s.mir[o] = On

-----------------------------------------------------------------------------
(* What the functions do *)

\* No time is the number that stands for no timer.
LEMMA NoTimerIsNoTime == NoTimer \in Int /\ NoTimer \notin Times
BY TimesAssumption DEF NoTimer, Times

\* xmir_output_dpms sets all outputs or, without outputs, none; it sends
\* nothing to Mir if the configuration it holds needs no change.
LEMMA OutputDpms ==
  ASSUME NEW s \in State, NEW l \in Levels,
         NEW t, t = xmir_output_dpms(s, l)
  PROVE  /\ t \in State
         /\ Kept(s, t)
         /\ NoOutputs(s) => t = s
         /\ ~NoOutputs(s) => \A o \in Outputs : t.display[o] = l
         /\ Held(s) => Held(t)
         /\ Synced(s) => Synced(t)
         /\ l # On => Darker(s, t)
<1>1. CASE NoOutputs(s) \/ \A o \in Outputs : s.display[o] = l
  <2>1. t = s  BY <1>1 DEF xmir_output_dpms
  <2>. QED  BY <1>1, <2>1 DEF Darker, Kept, Same
<1>2. CASE ~(NoOutputs(s) \/ \A o \in Outputs : s.display[o] = l)
  <2>. DEFINE all == [o \in Outputs |-> l]
  <2>1. t = [s EXCEPT !.display = all, !.mir = all]
    BY <1>2 DEF xmir_output_dpms
  <2>2. all \in [Outputs -> Levels]  OBVIOUS
  <2>3. t \in State /\ t.display = all /\ t.mir = all /\ Kept(s, t)
    BY <2>1, <2>2 DEF State, Kept, Same
  <2>4. \A o \in Outputs : t.display[o] = l /\ t.mir[o] = l
    BY <2>3
  <2>. QED  BY <1>2, <2>3, <2>4 DEF Held, Synced, Darker
<1>. QED  BY <1>1, <1>2

\* The saver lights the outputs to unblank, and turns them off otherwise.
LEMMA SaveScreen ==
  ASSUME NEW s \in State, NEW mode \in {"off", "on", "forcer", "cycle"},
         NEW t, t = xmir_save_screen(s, mode)
  PROVE  /\ t \in State /\ Kept(s, t)
         /\ mode \in {"off", "forcer"} => NoOutputs(s) \/ Showing(t)
         /\ mode \in {"on", "cycle"} => Darker(s, t)
         /\ NoOutputs(s) => t = s
         /\ Held(s) => Held(t)
         /\ Synced(s) => Synced(t)
<1>. DEFINE l == IF xmir_is_unblank(mode) THEN On ELSE Off
<1>1. l \in Levels  BY DEF Levels
<1>2. t = xmir_output_dpms(s, l)  BY DEF xmir_save_screen
<1>3. (mode \in {"off", "forcer"} => l = On) /\ (mode \in {"on", "cycle"} => l # On)
  BY DEF xmir_is_unblank, On, Off
<1>. HIDE DEF l
<1>. QED  BY <1>1, <1>2, <1>3, OutputDpms DEF Showing

\* SetScreenSaverTimer sets the timer unless the times are zero or suspended.
LEMMA TimerSet ==
  ASSUME NEW s \in State, NEW t, t = SetScreenSaverTimer(s)
  PROVE  /\ t \in State /\ Running(t)
         /\ t = [s EXCEPT !.timer = t.timer]
<1>. DEFINE first == FirstDPMSTimeout(s)
            timeout == Earlier(first, s.saver.time)
            timer == IF timeout # 0 /\ ~s.suspended THEN timeout ELSE NoTimer
<1>1. /\ s.saver.time \in Times /\ s.dpms.standby \in Times
      /\ s.dpms.suspend \in Times /\ s.dpms.off \in Times
  BY DEF State, DpmsTime, SaverTime
<1>2. Times \subseteq Nat /\ 0 \in Times  BY TimesAssumption DEF Times
<1>3. first \in Times  BY <1>1, <1>2 DEF FirstDPMSTimeout
<1>4. timeout \in Times  BY <1>1, <1>2, <1>3 DEF Earlier
<1>5. Configured(s) => timeout # 0
  <2>1. s.saver.time > 0 => timeout # 0
    BY <1>1, <1>2, <1>3 DEF Earlier
  <2>2. first # 0 => timeout # 0
    BY <1>1, <1>2, <1>3 DEF Earlier
  <2>3. Configured(s) => s.saver.time > 0 \/ first # 0
    BY <1>1, <1>2 DEF Configured, FirstDPMSTimeout
  <2>. QED  BY <2>1, <2>2, <2>3
<1>6. t = [s EXCEPT !.timer = timer]  BY DEF SetScreenSaverTimer
<1>7. timer \in Times \cup {NoTimer}  BY <1>4
<1>8. Configured(s) /\ ~s.suspended => timer # NoTimer
  BY <1>4, <1>5, NoTimerIsNoTime
<1>. HIDE DEF timer
<1>9. t \in State /\ t.timer = timer  BY <1>6, <1>7 DEF State
<1>10. t = [s EXCEPT !.timer = t.timer]  BY <1>6, <1>9
<1>11. Configured(t) = Configured(s) /\ t.suspended = s.suspended
  BY <1>6 DEF State, Configured
<1>. QED  BY <1>8, <1>9, <1>10, <1>11 DEF Running

\* What dix's own saver changes: outputs and the way they are blanked.
LEMMA DixBlanks ==
  ASSUME NEW s \in State, NEW type \in {"off", "on", "cycle"},
         NEW t, t = Blanked(s, type)
  PROVE  /\ t \in State /\ Same(s, t)
         /\ t.level = s.level /\ t.hasWindow = s.hasWindow /\ t.timer = s.timer
         /\ NoOutputs(s) => t.display = s.display /\ t.mir = s.mir
         /\ Held(s) => Held(t)
         /\ Synced(s) => Synced(t)
         /\ type # "off" => Darker(s, t)
         /\ type = "off" =>
              NoOutputs(s) \/ Showing(t) \/ (~s.blanked /\ t.display = s.display)
         /\ type = "on" => NoOutputs(s) \/ t.blanked \/ t.display = s.display
         /\ type = "cycle" =>
              t.blanked = s.blanked /\ (s.blanked \/ t.display = s.display)
<1>1. CASE type # "on" /\ s.blanked
  <2>1. t = xmir_save_screen(s, type)  BY <1>1 DEF Blanked
  <2>2. /\ t \in State /\ Kept(s, t)
        /\ type = "off" => NoOutputs(s) \/ Showing(t)
        /\ type # "off" => Darker(s, t)
        /\ NoOutputs(s) => t = s
        /\ Held(s) => Held(t)
        /\ Synced(s) => Synced(t)
    BY <2>1, SaveScreen
  <2>3. /\ Same(s, t) /\ t.level = s.level /\ t.hasWindow = s.hasWindow
        /\ t.timer = s.timer /\ t.blanked = s.blanked
    BY <2>2 DEF Kept
  <2>4. NoOutputs(s) => t.display = s.display /\ t.mir = s.mir
    BY <2>2
  <2>5. type = "cycle" => s.blanked
    BY <1>1
  <2>. QED  BY <1>1, <2>2, <2>3, <2>4, <2>5
<1>2. CASE type # "on" /\ ~s.blanked
  <2>1. t = s  BY <1>2 DEF Blanked
  <2>. QED  BY <1>2, <2>1 DEF Same, Darker
<1>3. CASE type = "on" /\ s.preferBlank /\ ~NoOutputs(s)
  <2>. DEFINE dark == xmir_save_screen(s, type)
  <2>1. t = [dark EXCEPT !.blanked = TRUE]  BY <1>3 DEF Blanked
  <2>2. /\ dark \in State /\ Kept(s, dark) /\ Darker(s, dark)
        /\ Held(s) => Held(dark)
        /\ Synced(s) => Synced(dark)
    BY <1>3, SaveScreen
  <2>. HIDE DEF dark
  <2>3. t \in State /\ t.blanked /\ Same(s, t) /\ t.display = dark.display /\ t.mir = dark.mir
        /\ t.level = s.level /\ t.hasWindow = s.hasWindow /\ t.timer = s.timer
    BY <2>1, <2>2 DEF State, Same, Kept
  <2>. QED  BY <1>3, <2>2, <2>3 DEF Darker, Held, Synced
<1>4. CASE type = "on" /\ ~(s.preferBlank /\ ~NoOutputs(s))
  <2>1. t = [s EXCEPT !.blanked = FALSE]  BY <1>4 DEF Blanked
  <2>2. t \in State /\ Same(s, t) /\ t.display = s.display /\ t.mir = s.mir
        /\ t.level = s.level /\ t.hasWindow = s.hasWindow /\ t.timer = s.timer
    BY <2>1 DEF State, Same
  <2>. QED  BY <1>4, <2>2 DEF Darker, Held, Synced
<1>. QED  BY <1>1, <1>2, <1>3, <1>4

\* ScreenSaverHandle changes whether there is a saver window, and no more.
LEMMA HandleWindow ==
  ASSUME NEW s \in State, NEW type \in {"off", "on", "cycle"}, NEW win \in BOOLEAN,
         NEW t, t = ScreenSaverHandle(s, type, win)
  PROVE  /\ t \in State /\ Same(s, t)
         /\ t.level = s.level /\ t.timer = s.timer /\ t.blanked = s.blanked
         /\ t.display = s.display /\ t.mir = s.mir
         /\ type = "off" => ~t.hasWindow
         /\ type # "off" => (t.hasWindow <=> Handled(s, type, win))
<1>. DEFINE hasWindow == IF type = "off" THEN FALSE ELSE Handled(s, type, win)
<1>1. hasWindow \in BOOLEAN  BY DEF Handled, State
<1>2. t = [s EXCEPT !.hasWindow = hasWindow]
  BY DEF ScreenSaverHandle, Handled
<1>. HIDE DEF hasWindow
<1>3. t \in State /\ t.hasWindow = hasWindow /\ t.level = s.level /\ t.timer = s.timer
      /\ t.blanked = s.blanked /\ t.display = s.display /\ t.mir = s.mir /\ Same(s, t)
  BY <1>1, <1>2 DEF State, Same
<1>. QED  BY <1>3 DEF hasWindow

\* NoticeReset sets the timer and may start to count the time again.
LEMMA ResetRuns ==
  ASSUME NEW s \in State, NEW on, NEW t, t = NoticeReset(s, on)
  PROVE  /\ t \in State /\ Same(s, t) /\ Running(t)
         /\ t.level = s.level /\ t.saved = s.saved /\ t.blanked = s.blanked
         /\ t.hasWindow = s.hasWindow /\ t.display = s.display /\ t.mir = s.mir
<1>. DEFINE idle == IF on = "forcer" THEN 0 ELSE s.idle
            noticed == [s EXCEPT !.idle = idle]
<1>1. idle \in Times  BY TimesAssumption DEF State, Times
<1>2. t = SetScreenSaverTimer(noticed)  BY DEF NoticeReset
<1>. HIDE DEF idle
<1>3. noticed \in State /\ Same(s, noticed) /\ noticed.level = s.level
      /\ noticed.saved = s.saved /\ noticed.blanked = s.blanked
      /\ noticed.hasWindow = s.hasWindow /\ noticed.display = s.display
      /\ noticed.mir = s.mir
  BY <1>1 DEF State, Same
<1>. HIDE DEF noticed
<1>4. t \in State /\ Running(t) /\ t = [noticed EXCEPT !.timer = t.timer]
  BY <1>2, <1>3, TimerSet
<1>5. Same(noticed, t) /\ t.level = noticed.level
      /\ t.saved = noticed.saved /\ t.blanked = noticed.blanked
      /\ t.hasWindow = noticed.hasWindow /\ t.display = noticed.display
      /\ t.mir = noticed.mir
  BY <1>3, <1>4 DEF State, Same
<1>. QED  BY <1>3, <1>4, <1>5 DEF Same

\* What dixSaveScreens makes of s: it saves or unsaves the screen, whichever
\* way it takes, and leaves every output on unless dix has blanked the screen.
Saves(s, on, mode, t) ==
  /\ t \in State /\ Same(s, t) /\ t.level = s.level
  /\ Saved(t) <=> on = "on" \/ (on = "forcer" /\ mode = "active")
  /\ NoOutputs(s) => t.display = s.display /\ t.mir = s.mir
  /\ Held(s) => Held(t)
  /\ on = "forcer" \/ Shown(s) => Shown(t)
  /\ on = "on" => Darker(s, t)
  /\ on = "forcer" /\ Held(s) => NoOutputs(s) \/ Synced(t)
  /\ mode = "reset" => Running(t)
  /\ mode # "reset" => t.timer = s.timer

LEMMA SaveScreens ==
  ASSUME NEW s \in State, NEW on \in {"off", "on", "forcer"},
         NEW mode \in {"reset", "active"}, NEW win \in BOOLEAN,
         on = "off" => Saved(s)
  PROVE  Saves(s, on, mode, dixSaveScreens(s, on, mode, win))
<1>. DEFINE t == dixSaveScreens(s, on, mode, win)
<1>. DEFINE what == IF on = "forcer" THEN OnOff(mode # "reset") ELSE on
            type == IF on # "forcer" /\ on = OnOff(s.saved) THEN "cycle" ELSE what
            lit == IF on = "forcer" THEN xmir_save_screen(s, on) ELSE s
            handled == ScreenSaverHandle(lit, type, win)
            done == IF Handled(lit, type, win) \/ type = OnOff(s.saved)
                      THEN handled ELSE Blanked(handled, type)
            after == [done EXCEPT !.saved = (what = "on")]
<1>1. t = IF mode = "reset" THEN NoticeReset(after, on) ELSE after
  BY DEF dixSaveScreens
<1>. HIDE DEF t
<1>2. /\ what \in {"off", "on"} /\ type \in {"off", "on", "cycle"}
      /\ (what = "on") = (on = "on" \/ (on = "forcer" /\ mode = "active"))
      /\ type = "cycle" => on = "on" /\ s.saved
      /\ type # "cycle" => type = what
      /\ on = "on" => type # "off"
  BY DEF OnOff, State, Saved
<1>3. /\ lit \in State /\ Kept(s, lit)
      /\ on = "forcer" => NoOutputs(s) \/ Showing(lit)
      /\ on # "forcer" => lit = s
      /\ NoOutputs(s) => lit = s
      /\ Held(s) => Held(lit)
  <2>1. CASE on = "forcer"  BY <2>1, SaveScreen
  <2>2. CASE on # "forcer"  BY <2>2 DEF Kept, Same
  <2>. QED  BY <2>1, <2>2
<1>. HIDE DEF lit, what, type
<1>4. on = "forcer" /\ Held(s) => NoOutputs(s) \/ Synced(lit)
  BY <1>3 DEF Held, Synced, Showing
<1>5. handled = ScreenSaverHandle(lit, type, win)
  OBVIOUS
<1>. HIDE DEF handled
<1>6. /\ handled \in State /\ Same(lit, handled)
      /\ handled.level = lit.level /\ handled.timer = lit.timer
      /\ handled.blanked = lit.blanked
      /\ handled.display = lit.display /\ handled.mir = lit.mir
      /\ type = "off" => ~handled.hasWindow
      /\ type # "off" => (handled.hasWindow <=> Handled(lit, type, win))
  BY <1>2, <1>3, <1>5, HandleWindow, Z3
<1>7. /\ Same(s, handled) /\ handled.level = s.level /\ handled.timer = s.timer
      /\ handled.blanked = s.blanked /\ (NoOutputs(handled) <=> NoOutputs(s))
  BY <1>3, <1>6 DEF NoOutputs, Same, Kept
<1>8. /\ Held(s) => Held(handled)
      /\ on = "forcer" /\ Held(s) => NoOutputs(s) \/ Synced(handled)
      /\ on = "forcer" => NoOutputs(s) \/ Showing(handled)
      /\ on # "forcer" => Darker(s, handled) /\ handled.display = s.display
      /\ NoOutputs(s) => handled.display = s.display /\ handled.mir = s.mir
  BY <1>3, <1>4, <1>6 DEF Held, Synced, Showing, Darker
<1>. DEFINE taken == Handled(lit, type, win) \/ type = OnOff(s.saved)
<1>9. /\ done \in State /\ Same(s, done) /\ done.level = s.level /\ done.timer = s.timer
      /\ done.hasWindow = handled.hasWindow
      /\ Held(s) => Held(done)
      /\ on = "forcer" /\ Held(s) => NoOutputs(s) \/ Synced(done)
      /\ on = "on" => Darker(s, done)
      /\ NoOutputs(s) => done.display = s.display /\ done.mir = s.mir
  <2>1. CASE taken
    <3>1. done = handled  BY <2>1
    <3>. HIDE DEF done, taken
    <3>. QED  BY <1>6, <1>7, <1>8, <3>1
  <2>2. CASE ~taken
    <3>1. done = Blanked(handled, type)  BY <2>2
    <3>. HIDE DEF done, taken
    <3>2. /\ done \in State /\ Same(handled, done) /\ done.level = handled.level
          /\ done.timer = handled.timer /\ done.hasWindow = handled.hasWindow
          /\ Held(handled) => Held(done)
          /\ Synced(handled) => Synced(done)
          /\ type # "off" => Darker(handled, done)
          /\ NoOutputs(handled) => done.display = handled.display /\ done.mir = handled.mir
      BY <1>2, <1>6, <3>1, DixBlanks
    <3>3. Same(s, done)  BY <1>7, <3>2 DEF Same
    <3>4. on = "on" => Darker(s, done)  BY <1>2, <1>8, <3>2 DEF Darker
    <3>. QED  BY <1>7, <1>8, <3>2, <3>3, <3>4
  <2>. QED  BY <2>1, <2>2
<1>10. on # "forcer" =>
         /\ type # OnOff(s.saved)
         /\ type = "on" => ~s.saved
         /\ type # "on" => s.saved
  BY DEF OnOff, what, type, State, Saved
<1>11. ASSUME on = "forcer" \/ Shown(s), ~NoOutputs(s)
       PROVE  Showing(done) \/ (what = "on" /\ done.blanked /\ ~done.hasWindow)
  <2>1. CASE taken
    <3>1. done = handled  BY <2>1
    <3>2. CASE on = "forcer"
      BY <1>8, <1>11, <3>1, <3>2
    <3>3. CASE on # "forcer"
      <4>1. IF type = "on" THEN ~s.saved ELSE s.hasWindow
        BY <1>3, <1>10, <2>1, <3>3 DEF Handled
      <4>2. Showing(s)  BY <1>10, <1>11, <3>3, <4>1 DEF Shown
      <4>. QED  BY <1>8, <3>1, <3>3, <4>2 DEF Showing
    <3>. QED  BY <3>2, <3>3
  <2>2. CASE ~taken
    <3>1. done = Blanked(handled, type)  BY <2>2
    <3>. HIDE DEF done
    <3>2. /\ done.hasWindow = handled.hasWindow
          /\ type = "off" =>
               Showing(done) \/ (~handled.blanked /\ done.display = handled.display)
          /\ type = "on" => done.blanked \/ done.display = handled.display
          /\ type = "cycle" => /\ done.blanked = handled.blanked
                               /\ handled.blanked \/ done.display = handled.display
      BY <1>2, <1>6, <1>7, <1>11, <3>1, DixBlanks
    <3>3. ~Handled(lit, type, win)  BY <2>2
    <3>4. type # "off" => ~done.hasWindow  BY <1>6, <3>2, <3>3
    <3>5. CASE on = "forcer"
      <4>1. Showing(handled)  BY <1>8, <1>11, <3>5
      <4>2. type = what  BY <1>2, <3>5
      <4>. QED  BY <1>2, <3>2, <3>4, <4>1, <4>2 DEF Showing
    <3>6. CASE on # "forcer"
      <4>1. /\ handled.display = s.display /\ handled.blanked = s.blanked /\ lit = s
        BY <1>3, <1>7, <1>8, <3>6
      <4>2. (s.saved /\ s.blanked /\ ~s.hasWindow) \/ Showing(s)
        BY <1>11, <3>6 DEF Shown
      <4>3. CASE type = "on"
        <5>1. Showing(s)  BY <1>10, <3>6, <4>2, <4>3
        <5>2. what = "on"  BY <1>2, <4>3
        <5>. QED  BY <3>2, <3>4, <4>1, <4>3, <5>1, <5>2 DEF Showing
      <4>4. CASE type = "off"
        BY <3>2, <4>1, <4>2, <4>4 DEF Showing
      <4>5. CASE type = "cycle"
        <5>1. what = "on"  BY <1>2, <4>5 DEF what
        <5>. QED  BY <3>2, <3>4, <4>1, <4>2, <4>5, <5>1 DEF Showing
      <4>. QED  BY <1>2, <4>3, <4>4, <4>5
    <3>. QED  BY <3>5, <3>6
  <2>. QED  BY <2>1, <2>2
<1>. HIDE DEF done
<1>12. /\ after \in State /\ Same(s, after) /\ after.level = s.level /\ after.timer = s.timer
       /\ after.saved = (what = "on") /\ after.blanked = done.blanked
       /\ after.hasWindow = done.hasWindow
       /\ after.display = done.display /\ after.mir = done.mir
  BY <1>9 DEF State, Same
<1>. HIDE DEF after
<1>13. /\ Held(s) => Held(after)
       /\ on = "forcer" /\ Held(s) => NoOutputs(s) \/ Synced(after)
       /\ on = "on" => Darker(s, after)
       /\ NoOutputs(s) => after.display = s.display /\ after.mir = s.mir
       /\ on = "forcer" \/ Shown(s) => Shown(after)
  <2>1. NoOutputs(after) <=> NoOutputs(s)  BY <1>12 DEF Same, NoOutputs
  <2>2. on = "forcer" \/ Shown(s) => Shown(after)
    BY <1>11, <1>12, <2>1 DEF Shown, Showing
  <2>. QED  BY <1>9, <1>12, <2>2 DEF Held, Synced, Darker
<1>14. ASSUME mode = "reset"  PROVE Saves(s, on, mode, t)
  <2>1. t = NoticeReset(after, on)  BY <1>1, <1>14
  <2>2. /\ t \in State /\ Same(after, t) /\ Running(t)
        /\ t.level = after.level /\ t.saved = after.saved /\ t.blanked = after.blanked
        /\ t.hasWindow = after.hasWindow /\ t.display = after.display /\ t.mir = after.mir
    BY <1>12, <2>1, ResetRuns
  <2>3. /\ Held(after) => Held(t)
        /\ Synced(after) => Synced(t)
        /\ Darker(s, after) => Darker(s, t)
        /\ Shown(after) => Shown(t)
        /\ Same(s, t)
    BY <1>12, <2>2 DEF Held, Synced, Darker, Shown, Showing, NoOutputs, Same
  <2>4. Saved(t) <=> what = "on"  BY <1>12, <2>2 DEF Saved
  <2>. QED  BY <1>2, <1>12, <1>13, <1>14, <2>2, <2>3, <2>4 DEF Saves
<1>15. ASSUME mode = "active"  PROVE Saves(s, on, mode, t)
  <2>1. t = after  BY <1>1, <1>15
  <2>2. Saved(t) <=> what = "on"  BY <1>12, <2>1 DEF Saved
  <2>. QED  BY <1>2, <1>12, <1>13, <1>15, <2>1, <2>2 DEF Saves
<1>16. Saves(s, on, mode, t)  BY <1>14, <1>15
<1>. QED  BY <1>16 DEF t

\* DPMSSet sets the level and leaves the screen saved below On and only then.
LEMMA SetsLevel ==
  ASSUME NEW s \in State, NEW l \in Levels, NEW win \in BOOLEAN,
         NEW t, t = DPMSSet(s, l, win)
  PROVE  /\ t \in State /\ Same(s, t) /\ t.level = l
         /\ Saved(t) <=> l # On
         /\ NoOutputs(s) \/ \A o \in Outputs : t.display[o] = l
         /\ Held(s) => Held(t)
         /\ l # On /\ Held(s) => Darker(s, t)
         /\ l = On /\ Saved(s) => Running(t)
         /\ ~(l = On /\ Saved(s)) => t.timer = s.timer
<1>. DEFINE leveled == [s EXCEPT !.level = l]
            saved == IF l # On /\ ~s.saved
                       THEN dixSaveScreens(leveled, "forcer", "active", win)
                     ELSE IF l = On /\ s.saved
                       THEN dixSaveScreens(leveled, "off", "reset", win)
                     ELSE leveled
<1>1. t = xmir_output_dpms(saved, l)  BY DEF DPMSSet
<1>2. /\ leveled \in State /\ Same(s, leveled) /\ leveled.level = l
      /\ Saved(leveled) <=> Saved(s)
      /\ leveled.timer = s.timer
      /\ leveled.display = s.display /\ leveled.mir = s.mir
  BY DEF State, Same, Saved
<1>3. saved = IF l # On /\ ~Saved(s)
                THEN dixSaveScreens(leveled, "forcer", "active", win)
              ELSE IF l = On /\ Saved(s)
                THEN dixSaveScreens(leveled, "off", "reset", win)
              ELSE leveled
  BY DEF Saved
<1>. HIDE DEF leveled, saved
<1>4. Held(s) => Held(leveled)  BY <1>2 DEF Held
<1>5. /\ saved \in State /\ Same(leveled, saved) /\ saved.level = l
      /\ Saved(saved) <=> l # On
      /\ NoOutputs(leveled) => saved.display = leveled.display /\ saved.mir = leveled.mir
      /\ Held(leveled) => Held(saved)
      /\ l = On /\ Saved(s) => Running(saved)
      /\ ~(l = On /\ Saved(s)) => saved.timer = leveled.timer
      /\ l # On /\ Held(leveled) => NoOutputs(leveled) \/ Synced(saved) \/ saved = leveled
  <2>. DEFINE on == IF l = On THEN "off" ELSE "forcer"
              mode == IF l = On THEN "reset" ELSE "active"
  <2>1. /\ on \in {"off", "on", "forcer"} /\ mode \in {"reset", "active"}
        /\ l # On => on = "forcer" /\ mode = "active"
        /\ l = On => on = "off" /\ mode = "reset"
    OBVIOUS
  <2>. HIDE DEF on, mode
  <2>2. CASE IF l = On THEN Saved(s) ELSE ~Saved(s)
    <3>1. saved = dixSaveScreens(leveled, on, mode, win)  BY <1>3, <2>1, <2>2
    <3>2. on = "off" => Saved(leveled)  BY <1>2, <2>1, <2>2
    <3>3. on # "on" /\ (mode = "reset" <=> l = On)  BY <2>1
    <3>. leveled \in State /\ on \in {"off", "on", "forcer"} /\ mode \in {"reset", "active"}
      BY <1>2, <2>1
    <3>4. Saves(leveled, on, mode, saved)  BY <3>1, <3>2, SaveScreens
    <3>5. /\ Saved(saved) <=> l # On
          /\ l # On /\ Held(leveled) => NoOutputs(leveled) \/ Synced(saved)
          /\ l = On => Running(saved)
          /\ l # On => saved.timer = leveled.timer
      BY <2>1, <3>3, <3>4 DEF Saves
    <3>. QED  BY <1>2, <2>2, <3>4, <3>5 DEF Saves
  <2>3. CASE IF l = On THEN ~Saved(s) ELSE Saved(s)
    <3>1. saved = leveled  BY <1>3, <2>3
    <3>. QED  BY <1>2, <2>3, <3>1 DEF Same
  <2>. QED  BY <2>2, <2>3
<1>6. /\ t \in State /\ Kept(saved, t)
      /\ NoOutputs(saved) => t = saved
      /\ NoOutputs(saved) \/ \A o \in Outputs : t.display[o] = l
      /\ Held(saved) => Held(t)
      /\ Synced(saved) => Synced(t)
      /\ l # On => Darker(saved, t)
  BY <1>1, <1>5, OutputDpms
<1>7. /\ Same(s, t) /\ t.level = l /\ (Saved(t) <=> l # On)
      /\ t.timer = saved.timer
      /\ NoOutputs(saved) <=> NoOutputs(s)
      /\ NoOutputs(leveled) <=> NoOutputs(s)
  BY <1>2, <1>5, <1>6 DEF Same, Kept, NoOutputs, Saved
<1>8. Running(saved) => Running(t)
  BY <1>6 DEF Running, Configured, Kept, Same
<1>9. ASSUME l # On, Held(s)  PROVE Darker(s, t)
  <2>1. CASE NoOutputs(s)
    BY <1>2, <1>5, <1>6, <1>7, <2>1 DEF Darker
  <2>2. CASE ~NoOutputs(s) /\ Synced(saved)
    BY <1>6, <1>7, <1>9, <2>2 DEF Darker, Synced
  <2>3. CASE saved = leveled
    BY <1>2, <1>6, <1>9, <2>3 DEF Darker
  <2>. QED  BY <1>4, <1>5, <1>7, <1>9, <2>1, <2>2, <2>3
<1>. QED  BY <1>2, <1>4, <1>5, <1>6, <1>7, <1>8, <1>9

\* The timer only lowers the level, and leaves it alone while no time has come.
LEMMA ChecksLevel ==
  ASSUME NEW s \in State, NEW win \in BOOLEAN, NEW t, t = CheckLevel(s, win)
  PROVE  /\ t \in State /\ Same(s, t)
         /\ Held(s) => Held(t) /\ Darker(s, t)
         /\ \/ t.level # On /\ Saved(t)
            \/ /\ t = s
               /\ s.enabled /\ s.level = On =>
                    /\ s.dpms.standby = 0 \/ s.dpms.standby > s.idle
                    /\ s.dpms.suspend = 0 \/ s.dpms.suspend > s.idle
                    /\ s.dpms.off = 0 \/ s.dpms.off > s.idle
<1>. DEFINE due == DueLevel(s)
<1>1. /\ s.dpms.standby \in Nat /\ s.dpms.suspend \in Nat /\ s.dpms.off \in Nat
      /\ s.idle \in Nat /\ s.level \in Levels
  BY TimesAssumption DEF State, DpmsTime, Times
<1>2. due \in Levels /\ (due # s.level => due # On)
  BY <1>1 DEF DueLevel, Levels, On, Standby, Suspend, Off
<1>3. due = s.level /\ s.level = On =>
        /\ s.dpms.standby = 0 \/ s.dpms.standby > s.idle
        /\ s.dpms.suspend = 0 \/ s.dpms.suspend > s.idle
        /\ s.dpms.off = 0 \/ s.dpms.off > s.idle
  BY <1>1 DEF DueLevel, Levels, On, Standby, Suspend, Off
<1>4. t = IF s.enabled /\ due # s.level THEN DPMSSet(s, due, win) ELSE s
  BY DEF CheckLevel
<1>. HIDE DEF due
<1>5. CASE s.enabled /\ due # s.level
  <2>1. t = DPMSSet(s, due, win)  BY <1>4, <1>5
  <2>. QED  BY <1>2, <1>5, <2>1, SetsLevel
<1>6. CASE ~(s.enabled /\ due # s.level)
  BY <1>3, <1>4, <1>6 DEF Same, Darker
<1>. QED  BY <1>5, <1>6

\* A callback that returns a time that is not 0 leaves a timer that runs.
LEMMA AgainRuns ==
  ASSUME NEW s \in State, NEW timeout \in Times, NEW t, t = Again(s, timeout)
  PROVE  /\ t \in State /\ Same(s, t) /\ t.level = s.level /\ (Saved(t) <=> Saved(s))
         /\ Held(s) => Held(t)
         /\ Shown(s) => Shown(t)
         /\ t.mir = s.mir
         /\ timeout # 0 => Running(t)
<1>1. (IF timeout # 0 THEN timeout ELSE NoTimer) \in Times \cup {NoTimer}
  OBVIOUS
<1>2. /\ t \in State /\ Same(s, t) /\ t.level = s.level
      /\ t.saved = s.saved /\ t.blanked = s.blanked /\ t.hasWindow = s.hasWindow
      /\ t.display = s.display /\ t.mir = s.mir
      /\ timeout # 0 => t.timer = timeout
  BY <1>1 DEF Again, State, Same
<1>3. NoOutputs(t) <=> NoOutputs(s)  BY <1>2 DEF Same, NoOutputs
<1>4. timeout # 0 => Running(t)  BY <1>2, NoTimerIsNoTime DEF Running
<1>. QED  BY <1>2, <1>3, <1>4 DEF Saved, Held, Shown, Showing

\* The time until the next level is a time, and not 0 as long as a time is
\* set and none has come.
LEMMA NextTime ==
  ASSUME NEW s \in State
  PROVE  /\ NextDPMSTimeout(s) \in Times
         /\ /\ s.enabled /\ s.level = On
            /\ s.dpms.standby > s.idle \/ s.dpms.suspend > s.idle \/ s.dpms.off > s.idle
            => NextDPMSTimeout(s) # 0
<1>1. /\ s.dpms.standby \in Times /\ s.dpms.suspend \in Times /\ s.dpms.off \in Times
      /\ s.idle \in Times /\ s.level \in Levels
  BY DEF State, DpmsTime
<1>2. \A time \in Times :
         /\ DPMS_CHECK_TIMEOUT(time, s.idle) \in Times
         /\ time > s.idle => DPMS_CHECK_TIMEOUT(time, s.idle) # 0
  BY <1>1, TimesAssumption DEF DPMS_CHECK_TIMEOUT, Times
<1>. DEFINE standby == DPMS_CHECK_TIMEOUT(s.dpms.standby, s.idle)
            suspend == DPMS_CHECK_TIMEOUT(s.dpms.suspend, s.idle)
            off == DPMS_CHECK_TIMEOUT(s.dpms.off, s.idle)
<1>3. /\ standby \in Times /\ suspend \in Times /\ off \in Times
      /\ s.dpms.standby > s.idle => standby # 0
      /\ s.dpms.suspend > s.idle => suspend # 0
      /\ s.dpms.off > s.idle => off # 0
  BY <1>1, <1>2
<1>4. NextDPMSTimeout(s) = IF ~s.enabled \/ s.level = Off THEN 0
                           ELSE IF s.level = On /\ standby # 0 THEN standby
                           ELSE IF s.level # Suspend /\ suspend # 0 THEN suspend
                           ELSE off
  BY DEF NextDPMSTimeout
<1>5. 0 \in Times  BY TimesAssumption DEF Times
<1>. HIDE DEF standby, suspend, off
<1>. QED  BY <1>3, <1>4, <1>5 DEF On, Off, Suspend

LEMMA EarlierTime ==
  ASSUME NEW a \in Times, NEW b \in Times
  PROVE  Earlier(a, b) \in Times /\ (a # 0 \/ b # 0 => Earlier(a, b) # 0)
BY TimesAssumption DEF Earlier, Times

\* The saver is turned on or waits, and the timer runs as long as it may be
\* needed.
LEMMA SaverTimesOut ==
  ASSUME NEW s \in State, NEW win \in BOOLEAN, NEW t, t = SaverTimeout(s, win)
  PROVE  /\ t \in State /\ Same(s, t) /\ t.level = s.level
         /\ Saved(s) => Saved(t)
         /\ Held(s) => Held(t)
         /\ Darker(s, t)
         /\ Shown(s) => Shown(t)
         /\ ~Saved(t) /\ s.level = On /\ (NextDPMSTimeout(s) # 0 \/ s.saver.time > 0)
              => Running(t)
<1>. DEFINE next == NextDPMSTimeout(s)
            rest == Earlier(s.saver.time - s.idle, next)
            cycle == Earlier(s.saver.interval, next)
            saved == dixSaveScreens(s, "on", "active", win)
<1>1. /\ next \in Times /\ s.saver.time \in Times /\ s.saver.interval \in Times
      /\ s.idle \in Times
  BY NextTime DEF State, SaverTime
<1>2. t = IF s.level # On \/ s.saver.time = 0 THEN Again(s, next)
          ELSE IF s.idle < s.saver.time THEN Again(s, rest)
          ELSE Again(saved, cycle)
  BY DEF SaverTimeout
<1>. HIDE DEF next
<1>3. s.idle < s.saver.time => s.saver.time - s.idle \in Times \ {0}
  BY <1>1, TimesAssumption DEF Times
<1>4. s.idle < s.saver.time => rest \in Times \ {0}
  BY <1>1, <1>3, EarlierTime
<1>5. cycle \in Times  BY <1>1, EarlierTime
<1>6. CASE s.level # On \/ s.saver.time = 0
  <2>1. t = Again(s, next)  BY <1>2, <1>6
  <2>2. ~(s.saver.time > 0) \/ s.level # On  BY <1>1, <1>6 DEF Times
  <2>. QED  BY <1>1, <2>1, <2>2, AgainRuns DEF next, Darker
<1>7. CASE ~(s.level # On \/ s.saver.time = 0) /\ s.idle < s.saver.time
  <2>1. t = Again(s, rest)  BY <1>2, <1>7
  <2>. HIDE DEF rest
  <2>. QED  BY <1>4, <1>7, <2>1, AgainRuns DEF Darker
<1>8. CASE ~(s.level # On \/ s.saver.time = 0) /\ ~(s.idle < s.saver.time)
  <2>1. t = Again(saved, cycle)  BY <1>2, <1>8
  <2>2. Saves(s, "on", "active", saved)  BY SaveScreens
  <2>. HIDE DEF saved, cycle
  <2>3. /\ saved \in State /\ Same(s, saved) /\ saved.level = s.level
        /\ Saved(saved)
        /\ Held(s) => Held(saved)
        /\ Shown(s) => Shown(saved)
        /\ Darker(s, saved)
    BY <2>2 DEF Saves
  <2>4. /\ t \in State /\ Same(saved, t) /\ t.level = saved.level /\ (Saved(t) <=> Saved(saved))
        /\ Held(saved) => Held(t)
        /\ Shown(saved) => Shown(t)
        /\ t.mir = saved.mir
    BY <1>5, <2>1, <2>3, AgainRuns
  <2>5. Same(s, t)  BY <2>3, <2>4 DEF Same
  <2>6. Darker(s, t)  BY <2>2, <2>3, <2>4 DEF Darker
  <2>. QED  BY <2>2, <2>3, <2>4, <2>5, <2>6
<1>. QED  BY <1>6, <1>7, <1>8

\* All that one expiry of the timer does.
LEMMA Expires ==
  ASSUME NEW s \in State, NEW win \in BOOLEAN, NEW t, t = ScreenSaverTimeoutExpire(s, win)
  PROVE  /\ t \in State
         /\ Held(s) => Held(t) /\ Darker(s, t)
         /\ s.level # On \/ Shown(s) => t.level # On \/ Shown(t)
         /\ t.level # On /\ ~Saved(t) => s.level # On /\ ~Saved(s)
         /\ t.level = On /\ ~Saved(t) => Running(t)
<1>. DEFINE checked == CheckLevel(s, win)
            times == s.enabled /\ s.level = On =>
                       /\ s.dpms.standby = 0 \/ s.dpms.standby > s.idle
                       /\ s.dpms.suspend = 0 \/ s.dpms.suspend > s.idle
                       /\ s.dpms.off = 0 \/ s.dpms.off > s.idle
<1>1. t = SaverTimeout(checked, win)  BY DEF ScreenSaverTimeoutExpire
<1>2. /\ checked \in State /\ Same(s, checked)
      /\ Held(s) => Held(checked) /\ Darker(s, checked)
      /\ (checked.level # On /\ Saved(checked)) \/ (checked = s /\ times)
  BY ChecksLevel
<1>. HIDE DEF checked, times
<1>3. /\ t \in State /\ Same(checked, t) /\ t.level = checked.level
      /\ Saved(checked) => Saved(t)
      /\ Held(checked) => Held(t)
      /\ Darker(checked, t)
      /\ Shown(checked) => Shown(t)
      /\ ~Saved(t) /\ checked.level = On
            /\ (NextDPMSTimeout(checked) # 0 \/ checked.saver.time > 0)
              => Running(t)
  BY <1>1, <1>2, SaverTimesOut
<1>4. Held(s) => Darker(s, t)  BY <1>2, <1>3 DEF Darker
<1>5. ASSUME t.level = On, ~Saved(t)  PROVE Running(t)
  <2>1. checked = s /\ times  BY <1>2, <1>3, <1>5
  <2>2. CASE s.saver.time > 0
    BY <1>3, <1>5, <2>1, <2>2
  <2>3. CASE /\ s.enabled
             /\ s.dpms.standby > 0 \/ s.dpms.suspend > 0 \/ s.dpms.off > 0
    <3>1. s.level = On  BY <1>3, <1>5, <2>1
    <3>2. s.dpms.standby > s.idle \/ s.dpms.suspend > s.idle \/ s.dpms.off > s.idle
      <4>1. s.dpms.standby \in Nat /\ s.dpms.suspend \in Nat /\ s.dpms.off \in Nat
        BY TimesAssumption DEF State, DpmsTime, Times
      <4>. QED  BY <2>1, <2>3, <3>1, <4>1 DEF times
    <3>3. NextDPMSTimeout(s) # 0  BY <2>3, <3>1, <3>2, NextTime
    <3>. QED  BY <1>3, <1>5, <2>1, <3>1, <3>3
  <2>4. CASE ~Configured(s)
    BY <1>3, <2>1, <2>4 DEF Running, Configured, Same
  <2>. QED  BY <2>2, <2>3, <2>4 DEF Configured
<1>. QED  BY <1>2, <1>3, <1>4, <1>5

\* All that an input event does.
LEMMA InputWakes ==
  ASSUME NEW s \in State, NEW win \in BOOLEAN, NEW t, t = mieqProcessInputEvents(s, win)
  PROVE  /\ t \in State /\ Same(s, t) /\ t.level = On /\ ~Saved(t)
         /\ Held(s) => Held(t)
         /\ s.level # On \/ Shown(s) => NoOutputs(t) \/ Showing(t)
         /\ Running(t) \/ (s.level = On /\ ~Saved(s) /\ t.timer = s.timer)
<1>. DEFINE unsaved == IF s.saved THEN dixSaveScreens(s, "off", "reset", win)
                       ELSE IF s.level # On THEN SetScreenSaverTimer(s) ELSE s
            leveled == IF s.level # On THEN DPMSSet(unsaved, On, win) ELSE unsaved
<1>1. t = [leveled EXCEPT !.idle = 0]  BY DEF mieqProcessInputEvents
<1>2. unsaved = IF Saved(s) THEN dixSaveScreens(s, "off", "reset", win)
                ELSE IF s.level # On THEN SetScreenSaverTimer(s) ELSE s
  BY DEF Saved
<1>. HIDE DEF unsaved
<1>3. /\ unsaved \in State /\ Same(s, unsaved) /\ unsaved.level = s.level /\ ~Saved(unsaved)
      /\ Held(s) => Held(unsaved)
      /\ Shown(s) => Shown(unsaved)
      /\ Running(unsaved) \/ (s.level = On /\ ~Saved(s) /\ unsaved.timer = s.timer)
  <2>1. CASE Saved(s)
    <3>1. unsaved = dixSaveScreens(s, "off", "reset", win)  BY <1>2, <2>1
    <3>2. Saves(s, "off", "reset", unsaved)  BY <2>1, <3>1, SaveScreens
    <3>. QED  BY <3>2 DEF Saves
  <2>2. CASE ~Saved(s) /\ s.level # On
    <3>1. unsaved = SetScreenSaverTimer(s)  BY <1>2, <2>2
    <3>2. /\ unsaved \in State /\ Running(unsaved)
          /\ unsaved = [s EXCEPT !.timer = unsaved.timer]
      BY <3>1, TimerSet
    <3>3. /\ Same(s, unsaved) /\ unsaved.level = s.level /\ unsaved.saved = s.saved
          /\ unsaved.blanked = s.blanked /\ unsaved.hasWindow = s.hasWindow
          /\ unsaved.display = s.display /\ unsaved.mir = s.mir
      BY <3>2 DEF State, Same
    <3>4. NoOutputs(unsaved) <=> NoOutputs(s)  BY <3>3 DEF Same, NoOutputs
    <3>. QED  BY <2>2, <3>2, <3>3, <3>4 DEF Saved, Held, Shown, Showing
  <2>3. CASE ~Saved(s) /\ s.level = On
    <3>1. unsaved = s  BY <1>2, <2>3
    <3>. QED  BY <2>3, <3>1 DEF Same
  <2>. QED  BY <2>1, <2>2, <2>3
<1>4. /\ leveled \in State /\ Same(unsaved, leveled) /\ leveled.level = On /\ ~Saved(leveled)
      /\ Held(unsaved) => Held(leveled)
      /\ s.level # On \/ Shown(unsaved) => NoOutputs(unsaved) \/ Showing(leveled)
      /\ leveled.timer = unsaved.timer
  <2>1. CASE s.level # On
    <3>1. leveled = DPMSSet(unsaved, On, win)  BY <2>1
    <3>. HIDE DEF leveled
    <3>2. On \in Levels  BY DEF Levels
    <3>. QED  BY <1>3, <2>1, <3>1, <3>2, SetsLevel DEF Showing
  <2>2. CASE s.level = On
    <3>1. leveled = unsaved  BY <2>2
    <3>. QED  BY <1>3, <2>2, <3>1 DEF Same, Shown, Saved
  <2>. QED  BY <2>1, <2>2
<1>. HIDE DEF leveled
<1>5. /\ t \in State /\ Same(leveled, t) /\ t.level = leveled.level /\ t.saved = leveled.saved
      /\ t.display = leveled.display /\ t.mir = leveled.mir /\ t.timer = leveled.timer
  BY <1>1, <1>4, TimesAssumption DEF State, Same, Times
<1>6. /\ Same(s, t) /\ (NoOutputs(unsaved) <=> NoOutputs(t))
      /\ Running(unsaved) => Running(t)
  BY <1>3, <1>4, <1>5 DEF Same, NoOutputs, Running, Configured
<1>. QED  BY <1>3, <1>4, <1>5, <1>6 DEF Saved, Held, Showing

-----------------------------------------------------------------------------
(* The inductive invariant *)

\* What is always true of the state of the server, f being the ghost: the
\* three invariants, and that Mir differs from xmir's configuration only by
\* outputs that are on.
Sound(s, f) ==
  /\ s \in State
  /\ Held(s)
  /\ s.level # On \/ Shown(s)
  /\ s.level # On => Saved(s) \/ f
  /\ s.level = On /\ ~Saved(s) /\ ~f => Running(s)

IInv == Sound(server, forced) /\ attended \in BOOLEAN /\ forced \in BOOLEAN

\* Whatever has changed before, the timer is set to suit it.
LEMMA SetSound ==
  ASSUME NEW s \in State, NEW f \in BOOLEAN, Held(s), s.level # On \/ Shown(s),
         s.level # On => Saved(s) \/ f,
         NEW t, t = SetScreenSaverTimer(s)
  PROVE  Sound(t, f)
<1>1. /\ t \in State /\ Running(t)
      /\ t = [s EXCEPT !.timer = t.timer]
  BY TimerSet
<1>2. /\ Same(s, t) /\ t.level = s.level /\ t.saved = s.saved
      /\ t.blanked = s.blanked /\ t.hasWindow = s.hasWindow
      /\ t.display = s.display /\ t.mir = s.mir
  BY <1>1 DEF State, Same
<1>3. NoOutputs(t) <=> NoOutputs(s)  BY <1>2 DEF Same, NoOutputs
<1>. QED  BY <1>1, <1>2, <1>3 DEF Sound, Saved, Held, Shown, Showing

\* DPMSSet repairs what it finds.
LEMMA LevelSound ==
  ASSUME NEW s, NEW f \in BOOLEAN, Sound(s, f), NEW l \in Levels, NEW win \in BOOLEAN,
         NEW t, t = DPMSSet(s, l, win)
  PROVE  Sound(t, f)
<1>1. s \in State /\ Held(s)  BY DEF Sound
<1>2. /\ t \in State /\ Same(s, t) /\ t.level = l
      /\ Saved(t) <=> l # On
      /\ NoOutputs(s) \/ \A o \in Outputs : t.display[o] = l
      /\ Held(s) => Held(t)
      /\ l = On /\ Saved(s) => Running(t)
      /\ ~(l = On /\ Saved(s)) => t.timer = s.timer
  BY <1>1, SetsLevel, Z3
<1>3. NoOutputs(s) <=> NoOutputs(t)  BY <1>2 DEF Same, NoOutputs
<1>4. l # On \/ Shown(t)  BY <1>2, <1>3 DEF Shown, Showing
<1>5. ASSUME l = On, ~f  PROVE Running(t)
  <2>1. CASE Saved(s)  BY <1>2, <1>5, <2>1
  <2>2. CASE ~Saved(s)
    <3>1. Running(s)  BY <1>5, <2>2 DEF Sound
    <3>. QED  BY <1>2, <2>2, <3>1 DEF Running, Configured, Same
  <2>. QED  BY <2>1, <2>2
<1>. QED  BY <1>1, <1>2, <1>4, <1>5 DEF Sound

\* A forced change of the saver.
LEMMA ForceSound ==
  ASSUME NEW s \in State, NEW f \in BOOLEAN, Held(s),
         NEW mode \in {"reset", "active"}, NEW win \in BOOLEAN
  PROVE  (mode = "reset" => s.level = On \/ f)
           => Sound(dixSaveScreens(s, "forcer", mode, win), f)
<1>. DEFINE t == dixSaveScreens(s, "forcer", mode, win)
<1>1. Saves(s, "forcer", mode, t)  BY SaveScreens
<1>. HIDE DEF t
<1>2. /\ t \in State /\ t.level = s.level
      /\ Saved(t) <=> mode = "active"
      /\ Held(t) /\ Shown(t)
      /\ mode = "reset" => Running(t)
  BY <1>1 DEF Saves
<1>3. (mode = "reset" => s.level = On \/ f) => Sound(t, f)  BY <1>2 DEF Sound
<1>. QED  BY <1>3 DEF t

\* What the predicates look at.
Alike(s, t) ==
  /\ t.level = s.level /\ t.saved = s.saved /\ t.blanked = s.blanked
  /\ t.hasWindow = s.hasWindow /\ t.display = s.display /\ t.mir = s.mir
  /\ t.rootless = s.rootless /\ t.windowed = s.windowed

LEMMA AlikeShown ==
  ASSUME NEW s, NEW t, Alike(s, t)
  PROVE  /\ Held(s) => Held(t)
         /\ Shown(s) => Shown(t)
         /\ Saved(t) <=> Saved(s)
         /\ t.level = s.level
BY DEF Alike, Held, Shown, Showing, NoOutputs, Saved

\* The server starts with every output on and the timer set.
LEMMA InitSound == Init => IInv
<1>. SUFFICES ASSUME Init  PROVE IInv
  OBVIOUS
<1>1. PICK rootless \in RootlessModes, saver \in SaverTimes :
        server = dixSaveScreens(Started(rootless, saver), "forcer", "reset", FALSE)
  BY DEF Init
<1>. DEFINE s == Started(rootless, saver)
<1>2. s \in State /\ s.level = On /\ Held(s)
  <2>1. /\ saver \in SaverTime /\ rootless \in BOOLEAN /\ 0 \in Times
        /\ On \in Levels
    BY TimesAssumption, ModesAssumption DEF Levels, Times
  <2>2. saver.time \in Times /\ saver.interval \in Times
    BY <2>1 DEF SaverTime
  <2>3. (IF rootless THEN [saver EXCEPT !.time = 0] ELSE saver) \in SaverTime
    BY <2>1 DEF SaverTime
  <2>4. [standby |-> saver.time, suspend |-> saver.time, off |-> saver.time] \in DpmsTime
    BY <2>2 DEF DpmsTime
  <2>5. [o \in Outputs |-> On] \in [Outputs -> Levels]  BY <2>1
  <2>. QED  BY <2>1, <2>3, <2>4, <2>5 DEF Started, State, Held
<1>. HIDE DEF s
<1>3. Sound(dixSaveScreens(s, "forcer", "reset", FALSE), FALSE)
  BY <1>2, ForceSound
<1>4. Sound(server, FALSE)  BY <1>1, <1>3 DEF s
<1>5. attended \in BOOLEAN /\ forced = FALSE  BY DEF Init
<1>. QED  BY <1>4, <1>5 DEF IInv

\* A window that gives way does so in two forced changes of the saver.
LEMMA UncoveredSound ==
  ASSUME NEW s, NEW f \in BOOLEAN, Sound(s, f)
  PROVE  Sound(Uncovered(s), f)
<1>. DEFINE t == dixSaveScreens(s, "forcer", "reset", FALSE)
            u == dixSaveScreens(t, "forcer", "active", FALSE)
<1>1. s \in State /\ Held(s)  BY DEF Sound
<1>2. Saves(s, "forcer", "reset", t)  BY <1>1, SaveScreens
<1>. HIDE DEF t
<1>3. t \in State /\ Held(t)  BY <1>1, <1>2 DEF Saves
<1>4. Sound(u, f)  BY <1>3, ForceSound
<1>. HIDE DEF u
<1>5. Uncovered(s) = IF s.hasWindow THEN u ELSE s  BY DEF Uncovered, u, t
<1>. QED  BY <1>4, <1>5

\* Every step keeps the invariant.
LEMMA StepSound == IInv /\ [Next]_vars => IInv'
<1>. SUFFICES ASSUME IInv, [Next]_vars  PROVE IInv'
  OBVIOUS
<1>. USE DEF IInv
<1>1. /\ Sound(server, forced) /\ server \in State /\ Held(server)
      /\ forced \in BOOLEAN /\ attended \in BOOLEAN
      /\ Wins \subseteq BOOLEAN
  BY DEF Sound, State, Wins
<1>2. CASE Input
  <2>1. PICK win \in Wins : server' = mieqProcessInputEvents(server, win)
    BY <1>2 DEF Input
  <2>2. /\ server' \in State /\ Same(server, server') /\ server'.level = On /\ ~Saved(server')
        /\ Held(server) => Held(server')
        /\ server.level # On \/ Shown(server) => NoOutputs(server') \/ Showing(server')
        /\ \/ Running(server')
           \/ server.level = On /\ ~Saved(server) /\ server'.timer = server.timer
    BY <1>1, <2>1, InputWakes
  <2>3. Shown(server')  BY <1>1, <2>2 DEF Sound, Shown
  <2>4. ~forced => Running(server')
    BY <1>1, <2>2 DEF Sound, Running, Configured, Same
  <2>5. Sound(server', forced)  BY <1>1, <2>2, <2>3, <2>4 DEF Sound
  <2>. QED  BY <1>1, <1>2, <2>5 DEF Input
<1>3. CASE ProcDPMSSetTimeouts
  <2>1. PICK t \in DpmsTimes : server' = SetScreenSaverTimer([server EXCEPT !.dpms = t])
    BY <1>3 DEF ProcDPMSSetTimeouts
  <2>. DEFINE s == [server EXCEPT !.dpms = t]
  <2>2. s \in State /\ Alike(server, s)
    BY <1>1, <2>1, TimesAssumption DEF State, Alike
  <2>. HIDE DEF s
  <2>3. Sound(server', forced)
    BY <1>1, <2>1, <2>2, AlikeShown, SetSound DEF Sound, s
  <2>. QED  BY <1>1, <1>3, <2>3 DEF ProcDPMSSetTimeouts
<1>4. CASE ProcDPMSEnable
  <2>. DEFINE s == [server EXCEPT !.enabled = TRUE]
  <2>1. s \in State /\ Alike(server, s)  BY <1>1 DEF State, Alike
  <2>2. server' = SetScreenSaverTimer(s)  BY <1>4 DEF ProcDPMSEnable
  <2>. HIDE DEF s
  <2>3. Sound(server', forced)
    BY <1>1, <2>1, <2>2, AlikeShown, SetSound DEF Sound
  <2>. QED  BY <1>1, <1>4, <2>3 DEF ProcDPMSEnable
<1>5. CASE ProcDPMSDisable
  <2>1. PICK win \in Wins : server' = [DPMSSet(server, On, win) EXCEPT !.enabled = FALSE]
    BY <1>5 DEF ProcDPMSDisable
  <2>. DEFINE s == DPMSSet(server, On, win)
  <2>2. Sound(s, forced)  BY <1>1, <2>1, LevelSound DEF Levels
  <2>3. server' = [s EXCEPT !.enabled = FALSE]  BY <2>1
  <2>. HIDE DEF s
  <2>4. server' \in State /\ Alike(s, server')
    BY <2>2, <2>3 DEF Sound, State, Alike
  <2>5. s.level # On \/ Saved(s) \/ forced \/ Running(s)
    BY <2>2 DEF Sound
  <2>6. Running(s) => Running(server')
    BY <2>2, <2>3 DEF Sound, State, Running, Configured
  <2>7. Sound(server', forced)
    BY <1>1, <2>2, <2>4, <2>5, <2>6, AlikeShown DEF Sound
  <2>. QED  BY <1>1, <1>5, <2>7 DEF ProcDPMSDisable
<1>6. CASE ProcDPMSForceLevel
  <2>1. PICK level \in Levels, win \in Wins : server' = DPMSSet(server, level, win)
    BY <1>6 DEF ProcDPMSForceLevel
  <2>2. Sound(server', forced)  BY <1>1, <2>1, LevelSound
  <2>. QED  BY <1>1, <1>6, <2>2 DEF ProcDPMSForceLevel
<1>7. CASE ProcForceScreenSaver
  <2>1. PICK mode \in {"reset", "active"}, win \in Wins :
          /\ server' = dixSaveScreens(server, "forcer", mode, win)
          /\ forced' = (forced \/ (mode = "reset" /\ server.level # On))
    BY <1>7 DEF ProcForceScreenSaver
  <2>2. forced' \in BOOLEAN /\ (mode = "reset" => server.level = On \/ forced')
    BY <1>1, <2>1
  <2>3. Sound(server', forced')  BY <1>1, <2>1, <2>2, ForceSound
  <2>. QED  BY <1>1, <1>7, <2>2, <2>3 DEF ProcForceScreenSaver
<1>8. CASE ProcSetScreenSaver
  <2>1. PICK t \in SaverTimes, blank \in BOOLEAN :
          server' = SetScreenSaverTimer([server EXCEPT !.saver = t, !.preferBlank = blank])
    BY <1>8 DEF ProcSetScreenSaver
  <2>. DEFINE s == [server EXCEPT !.saver = t, !.preferBlank = blank]
  <2>2. s \in State /\ Alike(server, s)
    BY <1>1, <2>1, TimesAssumption DEF State, Alike
  <2>. HIDE DEF s
  <2>3. Sound(server', forced)
    BY <1>1, <2>1, <2>2, AlikeShown, SetSound DEF Sound, s
  <2>. QED  BY <1>1, <1>8, <2>3 DEF ProcSetScreenSaver
<1>9. CASE ScreenSaverSetAttributes \/ ScreenSaverUnsetAttributes
  <2>1. PICK attr \in BOOLEAN : server' = [server EXCEPT !.attr = attr]
    BY <1>9 DEF ScreenSaverSetAttributes, ScreenSaverUnsetAttributes
  <2>2. server' \in State /\ Alike(server, server') /\ (Running(server) => Running(server'))
    BY <1>1, <2>1 DEF State, Alike, Running, Configured
  <2>3. Sound(server', forced)
    BY <1>1, <2>2, AlikeShown DEF Sound
  <2>. QED  BY <1>1, <1>9, <2>3 DEF ScreenSaverSetAttributes, ScreenSaverUnsetAttributes
<1>10. CASE ScreenSaverFreeAttr
  <2>. DEFINE s == [server EXCEPT !.attr = FALSE]
  <2>1. s \in State /\ Alike(server, s) /\ (Running(server) => Running(s))
    BY <1>1 DEF State, Alike, Running, Configured
  <2>2. server' = Uncovered(s)  BY <1>10 DEF ScreenSaverFreeAttr
  <2>. HIDE DEF s
  <2>3. Sound(s, forced)  BY <1>1, <2>1, AlikeShown DEF Sound
  <2>4. Sound(server', forced)  BY <1>1, <2>2, <2>3, UncoveredSound
  <2>. QED  BY <1>1, <1>10, <2>4 DEF ScreenSaverFreeAttr
<1>11. CASE ProcScreenSaverSuspend
  <2>1. server' = [server EXCEPT !.suspended = TRUE, !.timer = NoTimer]
    BY <1>11 DEF ProcScreenSaverSuspend
  <2>2. server' \in State /\ Alike(server, server') /\ Running(server')
    BY <1>1, <2>1 DEF State, Alike, Running
  <2>3. Sound(server', forced)  BY <1>1, <2>2, AlikeShown DEF Sound
  <2>. QED  BY <1>1, <1>11, <2>3 DEF ProcScreenSaverSuspend
<1>12. CASE ScreenSaverFreeSuspend
  <2>. DEFINE resumed == [server EXCEPT !.suspended = FALSE]
              s == [resumed EXCEPT !.idle = 0]
  <2>1. 0 \in Times  BY TimesAssumption DEF Times
  <2>2. /\ resumed \in State /\ Alike(server, resumed)
        /\ s \in State /\ Alike(server, s)
    BY <1>1, <2>1 DEF State, Alike
  <2>3. server' = IF ~Saved(server) /\ server.level = On
                    THEN SetScreenSaverTimer(s) ELSE resumed
    BY <1>12 DEF ScreenSaverFreeSuspend, Resumed, Saved
  <2>. HIDE DEF s, resumed
  <2>4. CASE ~Saved(server) /\ server.level = On
    <3>1. server' = SetScreenSaverTimer(s)  BY <2>3, <2>4
    <3>2. Sound(server', forced)
      BY <1>1, <2>2, <3>1, AlikeShown, SetSound DEF Sound
    <3>. QED  BY <1>1, <1>12, <3>2 DEF ScreenSaverFreeSuspend
  <2>5. CASE ~(~Saved(server) /\ server.level = On)
    <3>1. server' = resumed  BY <2>3, <2>5
    <3>2. Sound(server', forced)
      BY <1>1, <2>2, <2>5, <3>1, AlikeShown DEF Sound
    <3>. QED  BY <1>1, <1>12, <3>2 DEF ScreenSaverFreeSuspend
  <2>. QED  BY <2>4, <2>5
<1>13. CASE xmir_output_handle_resize
  <2>. DEFINE saver == [server.saver EXCEPT !.time = 0]
  <2>1. server' = [server EXCEPT !.windowed = TRUE, !.saver = saver]
    BY <1>13 DEF xmir_output_handle_resize
  <2>2. saver \in SaverTime /\ saver.time = 0
    BY <1>1, TimesAssumption DEF State, SaverTime, Times
  <2>. HIDE DEF saver
  <2>3. /\ server' \in State /\ NoOutputs(server')
        /\ server'.level = server.level /\ server'.saved = server.saved
        /\ server'.display = server.display /\ server'.mir = server.mir
        /\ server'.enabled = server.enabled /\ server'.dpms = server.dpms
        /\ server'.saver.time = 0
        /\ server'.suspended = server.suspended /\ server'.timer = server.timer
    BY <1>1, <2>1, <2>2 DEF State, NoOutputs
  <2>4. Configured(server') => Configured(server)
    BY <2>3 DEF Configured
  <2>5. Held(server')  BY <1>1, <2>3 DEF Held
  <2>6. Sound(server', forced)
    BY <1>1, <2>3, <2>4, <2>5 DEF Sound, Shown, Saved, Running
  <2>. QED  BY <1>1, <1>13, <2>6 DEF xmir_output_handle_resize
<1>14. CASE MirPowersOn
  <2>1. PICK o \in Outputs : server' = [server EXCEPT !.mir[o] = On]
    BY <1>14 DEF MirPowersOn
  <2>. DEFINE mir == [server.mir EXCEPT ![o] = On]
  <2>2. mir \in [Outputs -> Levels] /\ server' = [server EXCEPT !.mir = mir]
    BY <1>1, <2>1 DEF State, Levels
  <2>3. \A p \in Outputs : mir[p] = On \/ mir[p] = server.mir[p]
    BY <1>1 DEF State
  <2>. HIDE DEF mir
  <2>4. /\ server' \in State /\ server'.mir = mir /\ server'.display = server.display
        /\ server'.level = server.level /\ server'.saved = server.saved
        /\ Running(server) => Running(server')
        /\ Shown(server) => Shown(server')
    BY <1>1, <2>2 DEF State, Running, Configured, Shown, Showing, NoOutputs
  <2>5. Held(server')  BY <1>1, <2>3, <2>4 DEF Held
  <2>6. Sound(server', forced)  BY <1>1, <2>4, <2>5 DEF Sound, Saved
  <2>. QED  BY <1>1, <1>14, <2>6 DEF MirPowersOn
<1>15. CASE xmir_update_config
  <2>1. server' = [server EXCEPT !.display = server.mir]
    BY <1>15 DEF xmir_update_config
  <2>2. /\ server' \in State /\ server'.mir = server.mir /\ server'.display = server.mir
        /\ server'.level = server.level /\ server'.saved = server.saved
        /\ server'.blanked = server.blanked /\ server'.hasWindow = server.hasWindow
        /\ Running(server) => Running(server')
        /\ NoOutputs(server) <=> NoOutputs(server')
    BY <1>1, <2>1 DEF State, Running, Configured, NoOutputs
  <2>3. Held(server')  BY <2>2 DEF Held
  <2>4. Showing(server) => Showing(server')  BY <1>1, <2>2 DEF Held, Showing
  <2>5. Sound(server', forced)  BY <1>1, <2>2, <2>3, <2>4 DEF Sound, Saved, Shown
  <2>. QED  BY <1>1, <1>15, <2>5 DEF xmir_update_config
<1>16. CASE Expire
  <2>1. PICK win \in Wins : server' = ScreenSaverTimeoutExpire(server, win)
    BY <1>16 DEF Expire
  <2>2. /\ server' \in State
        /\ Held(server) => Held(server')
        /\ server.level # On \/ Shown(server) => server'.level # On \/ Shown(server')
        /\ server'.level # On /\ ~Saved(server') => server.level # On /\ ~Saved(server)
        /\ server'.level = On /\ ~Saved(server') => Running(server')
    BY <1>1, <2>1, Expires
  <2>3. Sound(server', forced)  BY <1>1, <2>2 DEF Sound
  <2>. QED  BY <1>1, <1>16, <2>3 DEF Expire
<1>17. CASE Tick
  <2>. DEFINE idle == IF server.idle < MaxTime THEN server.idle + 1 ELSE MaxTime
              timer == IF server.timer > 0 THEN server.timer - 1 ELSE server.timer
  <2>1. server' = [server EXCEPT !.idle = idle, !.timer = timer]
    BY <1>17 DEF Tick
  <2>2. idle \in Times  BY <1>1, TimesAssumption DEF State, Times
  <2>3. server.timer \in Times \cup {NoTimer}  BY <1>1 DEF State
  <2>4. timer \in Times \cup {NoTimer} /\ (server.timer # NoTimer => timer # NoTimer)
    BY <2>3, TimesAssumption DEF Times, NoTimer
  <2>. HIDE DEF idle, timer
  <2>5. /\ server' \in State /\ Alike(server, server')
        /\ Running(server) => Running(server')
    BY <1>1, <2>1, <2>2, <2>4 DEF State, Alike, Running, Configured
  <2>6. Sound(server', forced)  BY <1>1, <2>5, AlikeShown DEF Sound
  <2>. QED  BY <1>1, <1>17, <2>6 DEF Tick
<1>18. CASE Leave
  BY <1>1, <1>18 DEF Leave
<1>19. CASE UNCHANGED vars
  BY <1>1, <1>19 DEF vars
<1>. QED
  BY <1>2, <1>3, <1>4, <1>5, <1>6, <1>7, <1>8, <1>9, <1>10, <1>11, <1>12, <1>13,
     <1>14, <1>15, <1>16, <1>17, <1>18, <1>19 DEF Next

-----------------------------------------------------------------------------
(* Theorems *)

\* Sound is an invariant of the server, whatever the requests, the input, the
\* shell and the timer do, and in whichever order.
THEOREM Invariance == Spec => []IInv
BY InitSound, StepSound, PTL DEF Spec

\* The state and its times keep their types, so that the timer never runs
\* for less than no time.
THEOREM TypeCorrect == Spec => []TypeOK
<1>1. IInv => TypeOK  BY DEF IInv, Sound, TypeOK
<1>. QED  BY <1>1, Invariance, PTL

\* With DPMS on and no saver that blanks, every output is on, in xmir's
\* configuration and in Mir.
THEOREM NoneLeftDark == Spec => []NeverLeftDark
<1>1. IInv => NeverLeftDark
  BY DEF IInv, Sound, NeverLeftDark, Shown, Showing, Held, Lit
<1>. QED  BY <1>1, Invariance, PTL

\* The timer runs whenever a time is set, nothing suspends it and the screen
\* is on, unless ForceScreenSaver has come while DPMS had power off.
THEOREM TimerRuns == Spec => []TimerArmed
<1>1. IInv => TimerArmed
  BY DEF IInv, Sound, TimerArmed, Running, Saved
<1>. QED  BY <1>1, Invariance, PTL

\* While DPMS has power off the screen is saved, with the same exception.
THEOREM OffIsSaved == Spec => []SavedWhileOff
<1>1. IInv => SavedWhileOff
  BY DEF IInv, Sound, SavedWhileOff, Saved
<1>. QED  BY <1>1, Invariance, PTL

\* One input event is enough to bring the outputs back.
THEOREM InputIsEnough == Spec => InputLights
<1>1. ASSUME IInv, Input
      PROVE  /\ server'.level = On /\ ~server'.saved
             /\ NoOutputs(server') \/ Lit(server')
  <2>1. Sound(server, forced) /\ server \in State /\ Wins \subseteq BOOLEAN
    BY <1>1 DEF IInv, Sound, State, Wins
  <2>2. PICK win \in Wins : server' = mieqProcessInputEvents(server, win)
    BY <1>1 DEF Input
  <2>3. /\ server'.level = On /\ ~Saved(server')
        /\ Held(server) => Held(server')
        /\ server.level # On \/ Shown(server) => NoOutputs(server') \/ Showing(server')
    BY <2>1, <2>2, InputWakes
  <2>4. Held(server') /\ (NoOutputs(server') \/ Showing(server'))
    BY <2>1, <2>3 DEF Sound
  <2>. QED  BY <2>3, <2>4 DEF Saved, Held, Showing, Lit
<1>2. IInv => [Input => /\ server'.level = On /\ ~server'.saved
                        /\ NoOutputs(server') \/ Lit(server')]_vars
  BY <1>1
<1>. QED  BY <1>2, Invariance, PTL DEF InputLights

\* No expiry of the timer turns an output on.
THEOREM TimerOnlyDarkens == Spec => TimerNeverLights
<1>1. ASSUME IInv, Expire
      PROVE  \A o \in Outputs : server'.mir[o] = On => server.mir[o] = On
  <2>1. server \in State /\ Held(server) /\ Wins \subseteq BOOLEAN
    BY <1>1 DEF IInv, Sound, State, Wins
  <2>2. PICK win \in Wins : server' = ScreenSaverTimeoutExpire(server, win)
    BY <1>1 DEF Expire
  <2>. QED  BY <2>1, <2>2, Expires DEF Darker
<1>2. IInv => [Expire => \A o \in Outputs : server'.mir[o] = On => server.mir[o] = On]_vars
  BY <1>1
<1>. QED  BY <1>2, Invariance, PTL DEF TimerNeverLights
=============================================================================
