CONSTANTS
  t1 = t1
  t2 = t2
  a = a
  jp = jp
  g = g
  webp = webp
  Worker <- MCWorker
  Request <- MCRequest
  NoRequest = NoRequest
  Character <- MCCharacter
  NoOne = NoOne
  NUL = NUL
  Unit <- MCUnit
  Size <- MCSize
  MaxList <- MCMaxList
SPECIFICATION FairSpec
INVARIANTS
  ListIsLog
  HitIsRight
  KnownIsFound
  SameDisplay
PROPERTIES
  SearchEnds
\* Nobody asks once MaxList paths are entered, and the process may end.
CHECK_DEADLOCK FALSE
