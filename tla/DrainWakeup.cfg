SPECIFICATION Spec
CONSTANTS
  Conns = {c1, c2}
  Connected = {c1}
  Messages = {m1}
  Logged = {g1}
CHECK_DEADLOCK FALSE
INVARIANT WakesWhenDrained
