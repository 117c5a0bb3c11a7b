\* One output, a server with and without -rootless; times of one and two ticks.
SPECIFICATION Spec
CONSTANTS
  Outputs = {o1}
  RootlessModes = {TRUE, FALSE}
  MaxTime = 2
  DpmsTimes <- MCDpmsTimes
  SaverTimes <- MCSaverTimes
INVARIANTS TypeOK NeverLeftDark TimerArmed SavedWhileOff
PROPERTIES InputLights TimerNeverLights IdleBlanks
\* With nobody there and nothing set, the server really stops.
CHECK_DEADLOCK FALSE
