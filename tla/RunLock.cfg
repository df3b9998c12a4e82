SPECIFICATION Spec
CONSTANTS
  p1 = p1
  p2 = p2
  b1 = b1
  b2 = b2
  Procs = {p1, p2}
  Beats = {b1, b2}
  TTL = 1
  MaxClock = 4
  MaxToken = 2
  AwaitsRenew = TRUE
SYMMETRY Symmetry
INVARIANTS LeaseExclusive HolderInv
PROPERTIES TakeoverOnlyOfExpired LateRenewals
\* the clock and the tokens come to an end
CHECK_DEADLOCK FALSE
