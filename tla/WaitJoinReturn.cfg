SPECIFICATION Spec
CONSTANTS
  t1 = t1  t2 = t2  t3 = t3  i1 = i1  
  c1 = c1  c2 = c2  c3 = c3  s1 = s1
  Sem = Sem  Idle = Idle  None = None
  Threads = {t1, t2, t3}
  Isrs = {i1}
  Cores = {c1, c2, c3}
  Signals = {s1}
  core <- OneEach
  prio <- Prio123
  Roles <- JoinRoles
  MaxCount = 1
  IdlePriority = 3
CHECK_DEADLOCK FALSE
PROPERTY JoinReturnsAfterRaise
