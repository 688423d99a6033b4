SPECIFICATION FairSpec
CONSTANTS
  NumWorkers = 2
  App = {a}
  main = main
  Nobody = Nobody
  RetryCount = 2
  SizeBits = 8
  MaxFailures = 0
  MaxFirst = 1
  MaxBinds = 3
  MaxArrivals = 2
  MaxConnects = 1
  MaxErrors = 1
INVARIANTS BindsAreServed ReferencesAccounted
PROPERTY BacklogServed
