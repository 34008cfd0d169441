SPECIFICATION Spec
CONSTANT None = None
INVARIANTS NowIsTrue DeadlineIsCovered
 
