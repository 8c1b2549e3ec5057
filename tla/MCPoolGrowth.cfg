CONSTANTS
  t1 = t1
  t2 = t2
  num_thread_pool <- MCThreads
  StartPools <- MCStartPools
  PoolLimit <- MCPoolLimit
  Timer <- MCTimer
  NoOne = NoOne
  Growth = Growth
  MaxDesc <- MCMaxDesc
SPECIFICATION FairSpec
INVARIANTS
  PoolsReady
PROPERTIES
  MainGoesOn
  EveryPoolUsed
