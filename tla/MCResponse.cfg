CONSTANTS
  MaxSize <- MCMaxSize
  HeadLen <- MCHeadLen
  ErrorCode <- MCErrorCode
  ClosedCode <- MCClosedCode
  MaxTrunc <- MCMaxTrunc
  MaxPage <- MCMaxPage
  PageHeadLen <- MCPageHeadLen
  MemLen <- MCMemLen
  Word <- MCWord
SPECIFICATION ResponseSpec
INVARIANTS
  AllSent
  PageRight
PROPERTIES
  BytesOnce
  ImageEnds
  PageEnds
\* One response, which ends.
CHECK_DEADLOCK FALSE
