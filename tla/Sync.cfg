SPECIFICATION Spec
CONSTANTS
  t1 = t1  t2 = t2  i1 = i1  i2 = i2  None = None
INVARIANTS TokensConserved TakenOnce WokenAreNotified NoLostWakeup
PROPERTIES ReleasedArmed RefinesFifo KeepsPlace
