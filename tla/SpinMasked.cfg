INIT Init
NEXT Next
CONSTANTS
  SpinCores = {c1, c2}
  Locks = {1, 2}
INVARIANT HolderIsMasked
