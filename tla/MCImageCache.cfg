CONSTANTS
  t1 = t1
  t2 = t2
  a = a
  b = b
  c = c
  m = m
  n = n
  Worker <- MCWorker
  Image <- MCImage
  Missing <- MCMissing
  Jpg <- MCJpg
  Length <- MCLength
  Longer <- MCLonger
  NoFile = NoFile
  Junk = Junk
  NoOne = NoOne
  Size <- MCSize
  Ring <- MCRing
  MaxList <- MCMaxList
  MaxBoots <- MCMaxBoots
SPECIFICATION FairSpec
INVARIANTS
  RingBesideList
  RightImage
  CopiesBounded
PROPERTIES
  SendEnds
\* Nobody asks once the list has MaxList paths, and restarts are bounded.
CHECK_DEADLOCK FALSE
