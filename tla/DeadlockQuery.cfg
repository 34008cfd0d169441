SPECIFICATION ContendSpec
CONSTANTS
  a = a  b = b  u = u
  hi = hi  mid = mid  lo = lo  m1 = m1  m2 = m2
  c1 = c1  c2 = c2  Idle = Idle  None = None
INVARIANT DeadlockIsReal
