SPECIFICATION Spec
CONSTANTS
  t1 = t1  t2 = t2  i1 = i1  m1 = m1  c1 = c1  c2 = c2  c3 = c3  Sem = Sem  Idle = Idle  None = None
PROPERTIES WaiterGetsMutex EqualsShare  EveryCoreLeaves
