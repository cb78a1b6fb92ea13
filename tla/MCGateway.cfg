CONSTANTS
  a1 = a1
  a2 = a2
  k1 = k1
  openai = openai
  google = google
  Attempt <- MCAttempt
  Key <- MCKey
  Provider <- MCProvider
  ProviderOf <- MCProviderOf
  MaxConns = 2
  MaxEdits = 3
  MaxCrashes = 1
SPECIFICATION FairSpec
CHECK_DEADLOCK FALSE
INVARIANTS
  TypeOK
  RepeatsExplained
  DispatchedKey
PROPERTY AnsweredUnlessStarved
