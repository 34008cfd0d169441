SPECIFICATION Spec
CONSTANTS
  t1 = t1  t2 = t2  t3 = t3  c1 = c1  c2 = c2  p1 = p1  p2 = p2
  Irq = Irq  Idle = Idle  Null = Null  None = None
SYMMETRY Symmetry
INVARIANTS RequestIsHeld  OwnRegisters CoresStayForWork  UpdatesAreAtomic
           ServedInOrder ResumeIsNotLost DoorbellCovers
PROPERTY KeepsContract
