CONSTANTS
  a = a
  b = b
  q1 = q1
  q2 = q2
  q3 = q3
  Worker <- MCWorker
  Query <- MCQuery
  Known <- MCKnown
  Size <- MCSize
  NoRow = NoRow
  NoQuery = NoQuery
  NoOne = NoOne
SPECIFICATION Spec
SYMMETRY MCSymmetry
INVARIANTS
  RightUnlessOverwritten
  OneCopyPerWorker
