------------------------------ MODULE XmirDpms ------------------------------
(***************************************************************************)
(* Power of the outputs: the DPMS level, the screen saver of dix, the one  *)
(* of the MIT-SCREEN-SAVER extension and the timer of os/WaitFor.c, all of *)
(* which end in xmir_output_dpms.                                          *)
(*                                                                         *)
(* The functions of the code call each other several deep and each changes *)
(* a part of the same global state, so that state is one record and each   *)
(* function an operator from a state to the state it leaves.  Time is      *)
(* counted in ticks.  Whether the window of an external saver can be made  *)
(* (it cannot while another client grabs the server) is the parameter win. *)
(***************************************************************************)
EXTENDS Integers

CONSTANTS
  Outputs,        \* of Mir; their number never changes
  RootlessModes,  \* whether the server may run with -rootless
  MaxTime,        \* bound of every time
  DpmsTimes,      \* what SetTimeouts asks for: [standby, suspend, off]
  SaverTimes      \* what SetScreenSaver asks for: [time, interval]

Times == 0 .. MaxTime

\* DPMSMode..., which are also the power modes of Mir.
On == 0
Standby == 1
Suspend == 2
Off == 3
Levels == {On, Standby, Suspend, Off}

\* A number that no time is.
NoTimer == -(MaxTime + 1)

DpmsTime == [standby : Times, suspend : Times, off : Times]
SaverTime == [time : Times, interval : Times]

ASSUME TimesAssumption ==
         /\ MaxTime \in Nat
         /\ DpmsTimes \subseteq DpmsTime /\ SaverTimes \subseteq SaverTime
ASSUME ModesAssumption == RootlessModes \subseteq BOOLEAN

\* level, enabled, dpms: DPMSPowerLevel, DPMSEnabled, the three DPMS times.
\* saved, blanked: screenIsSaved, and whether it is so by SCREEN_IS_BLANKED.
\* saver, preferBlank: ScreenSaverTime and -Interval, ScreenSaverBlanking.
\* attr, hasWindow: of the external saver; suspended: screenSaverSuspended.
\* timer: ticks left of ScreenSaverTimer; idle: ticks since the last event.
\* display, mir: power modes in the configuration xmir holds, and in Mir.
State ==
  [level : Levels, enabled : BOOLEAN, dpms : DpmsTime,
   saved : BOOLEAN, blanked : BOOLEAN, saver : SaverTime, preferBlank : BOOLEAN,
   attr : BOOLEAN, hasWindow : BOOLEAN, suspended : BOOLEAN,
   timer : Times \cup {NoTimer}, idle : Times,
   rootless : BOOLEAN, windowed : BOOLEAN,
   display : [Outputs -> Levels], mir : [Outputs -> Levels]]

VARIABLES
  server,    \* the state above
  attended,  \* someone still uses the input devices or sends requests
  forced     \* ghost: ForceScreenSaver(Reset) came while DPMS had power off

vars == <<server, attended, forced>>

-----------------------------------------------------------------------------
(* The outputs *)

\* Mutant: a cycle of the saver unblanks.
xmir_is_unblank_Cycle(mode) == mode # "on"

xmir_is_unblank(mode) == mode \in {"off", "forcer"}

\* xmir_output_dpms and xmir_save_screen return TRUE unless this holds.
NoOutputs(s) == s.rootless \/ s.windowed

xmir_output_dpms(s, level) ==
  IF NoOutputs(s) \/ \A o \in Outputs : s.display[o] = level
    THEN s
    ELSE [s EXCEPT !.display = [o \in Outputs |-> level],
                   !.mir = [o \in Outputs |-> level]]

xmir_save_screen(s, mode) ==
  xmir_output_dpms(s, IF xmir_is_unblank(mode) THEN On ELSE Off)

-----------------------------------------------------------------------------
(* The timer *)

FirstDPMSTimeout(s) ==
  IF ~s.enabled THEN 0
  ELSE IF s.dpms.standby > 0 THEN s.dpms.standby
  ELSE IF s.dpms.suspend > 0 THEN s.dpms.suspend
  ELSE s.dpms.off

\* min, where 0 is no timeout at all.
Earlier(a, b) == IF a = 0 \/ (b > 0 /\ b < a) THEN b ELSE a

SetScreenSaverTimer(s) ==
  LET timeout == Earlier(FirstDPMSTimeout(s), s.saver.time)
  IN  [s EXCEPT !.timer = IF timeout # 0 /\ ~s.suspended THEN timeout
                                                         ELSE NoTimer]

DPMS_CHECK_TIMEOUT(time, idle) ==
  IF time > 0 /\ time > idle THEN time - idle ELSE 0

\* The cases fall through to the next higher mode.
NextDPMSTimeout(s) ==
  LET standby == DPMS_CHECK_TIMEOUT(s.dpms.standby, s.idle)
      suspend == DPMS_CHECK_TIMEOUT(s.dpms.suspend, s.idle)
      off == DPMS_CHECK_TIMEOUT(s.dpms.off, s.idle)
  IN  IF ~s.enabled \/ s.level = Off THEN 0
      ELSE IF s.level = On /\ standby # 0 THEN standby
      ELSE IF s.level # Suspend /\ suspend # 0 THEN suspend
      ELSE off

-----------------------------------------------------------------------------
(* The screen saver *)

\* Mutant: the external saver ends even when it was not on.
Handled_Always(s, type, win) == IF type = "on" THEN s.attr /\ win ELSE TRUE

\* ScreenSaverHandle: the external saver takes over if it returns TRUE.
Handled(s, type, win) == IF type = "on" THEN s.attr /\ win ELSE s.hasWindow

ScreenSaverHandle(s, type, win) ==
  [s EXCEPT !.hasWindow = CASE type = "on"  -> s.attr /\ win
                            [] type = "off" -> FALSE
                            [] OTHER        -> s.hasWindow]

\* What dix does itself, when the saver is to be of type and was not before.
Blanked(s, type) ==
  IF type # "on" THEN IF s.blanked THEN xmir_save_screen(s, type) ELSE s
  ELSE IF s.preferBlank /\ ~NoOutputs(s)
    THEN [xmir_save_screen(s, type) EXCEPT !.blanked = TRUE]
  ELSE [s EXCEPT !.blanked = FALSE]

OnOff(saved) == IF saved THEN "on" ELSE "off"

\* NoticeTime of every device, and the timer.
NoticeReset(s, on) ==
  SetScreenSaverTimer([s EXCEPT !.idle = IF on = "forcer" THEN 0 ELSE @])

dixSaveScreens(s, on, mode, win) ==
  LET what == IF on = "forcer" THEN OnOff(mode # "reset") ELSE on
      type == IF on # "forcer" /\ on = OnOff(s.saved) THEN "cycle" ELSE what
      lit == IF on = "forcer" THEN xmir_save_screen(s, on) ELSE s
      handled == ScreenSaverHandle(lit, type, win)
      done == IF Handled(lit, type, win) \/ type = OnOff(s.saved)
                THEN handled ELSE Blanked(handled, type)
      after == [done EXCEPT !.saved = (what = "on")]
  IN  IF mode = "reset" THEN NoticeReset(after, on) ELSE after

DPMSSet(s, level, win) ==
  LET leveled == [s EXCEPT !.level = level]
      saved == IF level # On /\ ~s.saved
                 THEN dixSaveScreens(leveled, "forcer", "active", win)
               ELSE IF level = On /\ s.saved
                 THEN dixSaveScreens(leveled, "off", "reset", win)
               ELSE leveled
  IN  xmir_output_dpms(saved, level)

-----------------------------------------------------------------------------
(* The timer expires *)

\* The highest mode whose time has come, or the level there is.
DueLevel(s) ==
  LET due == {l \in Levels : /\ l > s.level
                             /\ \/ l = Off /\ s.dpms.off \in 1 .. s.idle
                                \/ l = Suspend /\ s.dpms.suspend \in 1 .. s.idle
                                \/ l = Standby /\ s.dpms.standby \in 1 .. s.idle}
  IN  IF Off \in due THEN Off ELSE IF Suspend \in due THEN Suspend
      ELSE IF Standby \in due THEN Standby ELSE s.level

CheckLevel(s, win) ==
  IF s.enabled /\ DueLevel(s) # s.level THEN DPMSSet(s, DueLevel(s), win) ELSE s

\* The state the callback leaves, with the time it returns as the timer: the
\* timer is not set again if that is 0.
Again(s, timeout) == [s EXCEPT !.timer = IF timeout # 0 THEN timeout ELSE NoTimer]

\* Mutant: the comparison the wrong way round.
SaverTimeout_Swapped(s, win) ==
  LET next == NextDPMSTimeout(s)
  IN  IF s.level # On \/ s.saver.time = 0 THEN Again(s, next)
      ELSE IF s.idle > s.saver.time
        THEN Again(s, Earlier(s.saver.time - s.idle, next))
      ELSE Again(dixSaveScreens(s, "on", "active", win),
                 Earlier(s.saver.interval, next))

\* Mutant: <= for <.
SaverTimeout_Late(s, win) ==
  LET next == NextDPMSTimeout(s)
  IN  IF s.level # On \/ s.saver.time = 0 THEN Again(s, next)
      ELSE IF s.idle <= s.saver.time
        THEN Again(s, Earlier(s.saver.time - s.idle, next))
      ELSE Again(dixSaveScreens(s, "on", "active", win),
                 Earlier(s.saver.interval, next))

SaverTimeout(s, win) ==
  LET next == NextDPMSTimeout(s)
  IN  IF s.level # On \/ s.saver.time = 0 THEN Again(s, next)
      ELSE IF s.idle < s.saver.time
        THEN Again(s, Earlier(s.saver.time - s.idle, next))
      ELSE Again(dixSaveScreens(s, "on", "active", win),
                 Earlier(s.saver.interval, next))

ScreenSaverTimeoutExpire(s, win) == SaverTimeout(CheckLevel(s, win), win)

-----------------------------------------------------------------------------
(* Events and requests *)

\* An external saver's window is only made of attributes, and may fail to be.
Wins == {FALSE, server.attr}

\* Mutant: only a saved screen is woken.
mieqProcessInputEvents_Saved(s, win) ==
  [(IF s.saved THEN dixSaveScreens(s, "off", "reset", win) ELSE s)
     EXCEPT !.idle = 0]

mieqProcessInputEvents(s, win) ==
  LET unsaved == IF s.saved THEN dixSaveScreens(s, "off", "reset", win)
                 ELSE IF s.level # On THEN SetScreenSaverTimer(s) ELSE s
      leveled == IF s.level # On THEN DPMSSet(unsaved, On, win) ELSE unsaved
  IN  [leveled EXCEPT !.idle = 0]

Input ==
  /\ attended
  /\ \E win \in Wins : server' = mieqProcessInputEvents(server, win)
  /\ UNCHANGED <<attended, forced>>

ProcDPMSSetTimeouts ==
  /\ attended
  /\ \E t \in DpmsTimes :
       /\ t.off # 0 => t.off >= t.suspend
       /\ t.suspend # 0 => t.suspend >= t.standby
       /\ server' = SetScreenSaverTimer([server EXCEPT !.dpms = t])
  /\ UNCHANGED <<attended, forced>>

\* DPMSCapableFlag is what DPMSSupported said when the server started.
ProcDPMSEnable ==
  /\ attended
  /\ ~server.rootless /\ ~server.enabled
  /\ server' = SetScreenSaverTimer([server EXCEPT !.enabled = TRUE])
  /\ UNCHANGED <<attended, forced>>

ProcDPMSDisable ==
  /\ attended
  /\ \E win \in Wins :
       server' = [DPMSSet(server, On, win) EXCEPT !.enabled = FALSE]
  /\ UNCHANGED <<attended, forced>>

ProcDPMSForceLevel ==
  /\ attended
  /\ server.enabled
  /\ \E level \in Levels, win \in Wins : server' = DPMSSet(server, level, win)
  /\ UNCHANGED <<attended, forced>>

ProcForceScreenSaver ==
  /\ attended
  /\ \E mode \in {"reset", "active"}, win \in Wins :
       /\ server' = dixSaveScreens(server, "forcer", mode, win)
       /\ forced' = (forced \/ (mode = "reset" /\ server.level # On))
  /\ UNCHANGED attended

ProcSetScreenSaver ==
  /\ attended
  /\ \E t \in SaverTimes, blank \in BOOLEAN :
       server' = SetScreenSaverTimer([server EXCEPT !.saver = t, !.preferBlank = blank])
  /\ UNCHANGED <<attended, forced>>

ScreenSaverSetAttributes ==
  /\ attended
  /\ server' = [server EXCEPT !.attr = TRUE]
  /\ UNCHANGED <<attended, forced>>

\* FreeResource is told to skip ScreenSaverFreeAttr: a window stays.
ScreenSaverUnsetAttributes ==
  /\ attended
  /\ server' = [server EXCEPT !.attr = FALSE]
  /\ UNCHANGED <<attended, forced>>

\* Mutant: the saver is stopped and not started again.
Uncovered_Stopped(s) == IF s.hasWindow THEN dixSaveScreens(s, "forcer", "reset", FALSE) ELSE s

\* A window that is shown gives way to the saver of dix.
Uncovered(s) ==
  IF s.hasWindow
    THEN dixSaveScreens(dixSaveScreens(s, "forcer", "reset", FALSE), "forcer", "active", FALSE)
    ELSE s

\* The client that set the attributes goes.
ScreenSaverFreeAttr ==
  /\ attended /\ server.attr
  /\ server' = Uncovered([server EXCEPT !.attr = FALSE])
  /\ UNCHANGED <<attended, forced>>

\* The first client suspends the saver, and the last one stops to do so.
ProcScreenSaverSuspend ==
  /\ attended
  /\ ~server.suspended
  /\ server' = [server EXCEPT !.suspended = TRUE, !.timer = NoTimer]
  /\ UNCHANGED <<attended, forced>>

\* Mutant: the timer is left alone.
Resumed_Not(s) == [s EXCEPT !.suspended = FALSE]

Resumed(s) ==
  LET resumed == [s EXCEPT !.suspended = FALSE]
  IN  IF ~s.saved /\ s.level = On
        THEN SetScreenSaverTimer([resumed EXCEPT !.idle = 0]) ELSE resumed

ScreenSaverFreeSuspend ==
  /\ attended
  /\ server.suspended
  /\ server' = Resumed(server)
  /\ UNCHANGED <<attended, forced>>

-----------------------------------------------------------------------------
(* The shell, Mir and time *)

\* The shell resizes the root window: from now on xmir has no outputs.
xmir_output_handle_resize ==
  /\ ~server.rootless
  /\ server' = [server EXCEPT !.windowed = TRUE, !.saver.time = 0]
  /\ UNCHANGED <<attended, forced>>

\* A new connector is on.
MirPowersOn ==
  /\ \E o \in Outputs : server' = [server EXCEPT !.mir[o] = On]
  /\ UNCHANGED <<attended, forced>>

xmir_update_config ==
  /\ ~server.windowed
  /\ server' = [server EXCEPT !.display = server.mir]
  /\ UNCHANGED <<attended, forced>>

Expire ==
  /\ server.timer = 0
  /\ \E win \in Wins : server' = ScreenSaverTimeoutExpire(server, win)
  /\ UNCHANGED <<attended, forced>>

\* A timer that has run out may wait for the main thread.
Tick ==
  /\ server.idle < MaxTime \/ server.timer > 0
  /\ server' = [server EXCEPT
                  !.idle = IF server.idle < MaxTime THEN server.idle + 1 ELSE MaxTime,
                  !.timer = IF server.timer > 0 THEN server.timer - 1 ELSE server.timer]
  /\ UNCHANGED <<attended, forced>>

Leave ==
  /\ attended
  /\ attended' = FALSE
  /\ UNCHANGED <<server, forced>>

\* From main, after xmir_screen_init: the times are those of -s and -p, and
\* -rootless stops the saver.
Started(rootless, saver) ==
  [level |-> On, enabled |-> ~rootless,
   dpms |-> [standby |-> saver.time, suspend |-> saver.time, off |-> saver.time],
   saved |-> FALSE, blanked |-> TRUE,
   saver |-> IF rootless THEN [saver EXCEPT !.time = 0] ELSE saver,
   preferBlank |-> TRUE, attr |-> FALSE, hasWindow |-> FALSE, suspended |-> FALSE,
   timer |-> NoTimer, idle |-> 0, rootless |-> rootless, windowed |-> FALSE,
   display |-> [o \in Outputs |-> On], mir |-> [o \in Outputs |-> On]]

Init ==
  /\ \E rootless \in RootlessModes, saver \in SaverTimes :
       server = dixSaveScreens(Started(rootless, saver), "forcer", "reset", FALSE)
  /\ attended = TRUE
  /\ forced = FALSE

Next ==
  \/ Input
  \/ ProcDPMSSetTimeouts \/ ProcDPMSEnable \/ ProcDPMSDisable \/ ProcDPMSForceLevel
  \/ ProcForceScreenSaver \/ ProcSetScreenSaver
  \/ ScreenSaverSetAttributes \/ ScreenSaverUnsetAttributes \/ ScreenSaverFreeAttr
  \/ ProcScreenSaverSuspend \/ ScreenSaverFreeSuspend
  \/ xmir_output_handle_resize \/ MirPowersOn \/ xmir_update_config
  \/ Expire \/ Tick \/ Leave

\* Time passes, and the main thread looks at its timers in every round: Tick
\* ends in a timer that has run out, and then there is Expire alone.
Spec == Init /\ [][Next]_vars /\ WF_vars(Tick \/ Expire)

-----------------------------------------------------------------------------
(* Properties *)

\* The state and every time in it keep their types; the timer never runs
\* for less than no time.
TypeOK == server \in State /\ attended \in BOOLEAN /\ forced \in BOOLEAN

Lit(s) == \A o \in Outputs : s.display[o] = On /\ s.mir[o] = On

\* While DPMS is on and no saver has blanked the screen, every output is on,
\* both in the configuration that xmir_output_dpms compares with and in Mir:
\* none is left dark because the two have come apart.
NeverLeftDark ==
  \/ NoOutputs(server) \/ server.level # On
  \/ server.saved /\ server.blanked /\ ~server.hasWindow
  \/ Lit(server)

Configured(s) ==
  \/ s.saver.time > 0
  \/ s.enabled /\ (s.dpms.standby > 0 \/ s.dpms.suspend > 0 \/ s.dpms.off > 0)

\* SetScreenSaverTimer is called wherever it has to be: as long as the
\* screen is not saved, a saver or DPMS time is set, and none suspends them,
\* the timer runs.  It may be lost only through the ghost "forced".
TimerArmed ==
  Configured(server) /\ ~server.suspended /\ ~server.saved /\ server.level = On /\ ~forced
    => server.timer # NoTimer

\* DPMS never has the power off while the saver is off, which is what makes
\* mieq and DPMSSet turn the outputs on and set the timer, again but for
\* "forced".
SavedWhileOff == server.level # On => server.saved \/ forced

\* Any input event brings the outputs back, in one go, whatever saver or
\* DPMS level was on and however either got there.
InputLights ==
  [][Input => /\ server'.level = On /\ ~server'.saved
              /\ NoOutputs(server') \/ Lit(server')]_vars

\* The timer turns outputs off, or to a lower level, and never on: neither
\* the cycling of the saver nor the change from one DPMS level to the next
\* lights a screen nobody looks at.
TimerNeverLights ==
  [][Expire => \A o \in Outputs : server'.mir[o] = On => server.mir[o] = On]_vars

Idle == server.saved \/ server.level # On

\* Once nobody is there any more, the screen is saved or DPMS lowers the
\* power, if a time for either is set and stays set.
IdleBlanks ==
  (~attended /\ Configured(server) /\ ~server.suspended /\ ~forced)
    ~> (Idle \/ ~Configured(server))
=============================================================================
