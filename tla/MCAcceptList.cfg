CONSTANTS
  t1 = t1
  t2 = t2
  Worker <- MCWorker
  Line <- MCLine
  Null = Null
  preallocation <- MCPreallocation
SPECIFICATION FairSpec
INVARIANTS
  ListRight
  FirstFormatHeld
  AcceptFaults
PROPERTIES
  ParseEnds
\* Each thread parses one line, and the module ends where the process does.
CHECK_DEADLOCK FALSE
