CONSTANTS
  MaxConn <- MCLiveMaxConn
  NumThread <- MCLiveNumThread
SPECIFICATION LivelySpec
PROPERTY FullWaitEnds
\* The main loop stops after MaxConn connections.
CHECK_DEADLOCK FALSE
