SPECIFICATION FairSpec
CONSTANTS
  Client = {c1, c2}
  FirstId = 5
  MaxGroups = 2
  Parallel = TRUE
INVARIANTS MembersReady TableRight
 
