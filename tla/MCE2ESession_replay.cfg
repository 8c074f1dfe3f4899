CONSTANTS
  t1 = t1
  t2 = t2
  Texts <- AllTexts
  None = None
  MaxHellos = 1
  MaxAnswers = 1
  MaxCounter = 2
SPECIFICATION Spec
CHECK_DEADLOCK FALSE
INVARIANT NewerIsNoReplay
