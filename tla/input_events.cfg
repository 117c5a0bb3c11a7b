\* Two windows, one button, one key, two fingers, in every order.
SPECIFICATION Spec
CONSTANTS
  Windows = {w1, w2}
  NoWindow = NoWindow
  Buttons = {b1}
  Keys = {k1}
  Touch = Touch
  Fingers = {f1, f2}
  NoFinger = NoFinger
  PipeCapacity = 2
  MaxQueue = 2
  MaxTraffic = 3
CONSTRAINT TrafficBound
SYMMETRY Symmetry
INVARIANTS TypeOK FocusShown FollowsMir TouchReleased
