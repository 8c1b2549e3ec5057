CONSTANTS
  MaxConn <- MCLiveMaxConn
  NumThread <- MCLiveNumThread
SPECIFICATION LivelySpec
INVARIANTS
  NoWorkBeforeConnection
  AtMostTwice
  ExactlyOnceUntilOverrun
PROPERTIES
  TakenInOrder
  ReceivedUnlessRaced
\* The main loop stops after MaxConn connections.
CHECK_DEADLOCK FALSE
