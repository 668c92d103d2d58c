\* Every corner case; words of a few digits, all small graphs.
CONSTANT Words <- MCWords
SPECIFICATION Spec
INVARIANTS
  TypeOK
  AsDescribed
  OutputFits
  LoopInv
PROPERTY Returns
CHECK_DEADLOCK FALSE
