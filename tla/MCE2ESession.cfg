CONSTANTS
  t1 = t1
  t2 = t2
  Texts <- AllTexts
  None = None
  MaxHellos = 2
  MaxAnswers = 2
  MaxCounter = 2
SPECIFICATION Spec
CHECK_DEADLOCK FALSE
INVARIANTS
  KeyIsAgreed
  NonceUsedOnce
  SessionsInOrder
PROPERTIES
  KeyIsStable
  StreamToSink
  StreamToNode
SYMMETRY Symmetry
