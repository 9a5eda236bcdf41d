CONSTANTS
  MaxRx = 2
SPECIFICATION ProbedSpec
INVARIANTS ProbedTypeOK FoundHasAnswer HandedOnClean 
PROPERTIES ProbeEnds ServedResetEnds
CHECK_DEADLOCK FALSE
