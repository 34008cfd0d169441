SPECIFICATION Spec
CONSTANTS
  t1 = t1  t2 = t2  t3 = t3  i1 = i1  
  c1 = c1  c2 = c2  c3 = c3  s1 = s1
  Sem = Sem  Idle = Idle  None = None
  Threads = {t1, t2, t3}
  Isrs = {i1}
  Cores = {c1, c2}
  Signals = {s1}
  core <- Shared
  prio <- Prio123
  Roles <- EveryRole
  MaxCount = 1
  IdlePriority = 3
CHECK_DEADLOCK FALSE
INVARIANTS TypeOK ParkedIsWakeable ResumeReaches RaisedLeavesNoneParked NodesAreLive JoinerOutlastsRaise WakeOwed
