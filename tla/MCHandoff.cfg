CONSTANT MaxConn <- MCMaxConn
SPECIFICATION FairSpec
PROPERTIES
  TakenOrOverrun
\* The main loop stops after MaxConn connections.
CHECK_DEADLOCK FALSE
