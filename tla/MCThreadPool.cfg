CONSTANTS
  MaxConn <- MCMaxConn
  NumThread <- MCNumThread
SPECIFICATION Spec
CONSTRAINT Clean
INVARIANTS
  SlotNotLost
  OneThreadPerConnection
  DescriptorsCounted
PROPERTIES
  DescriptorStable
\* The main loop stops after MaxConn connections.
CHECK_DEADLOCK FALSE
