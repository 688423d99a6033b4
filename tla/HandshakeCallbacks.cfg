SPECIFICATION FairSpec
CONSTANTS
  MaxSends = 2
  Failures <- LostPeer
  AppThread = FALSE
INVARIANTS NoSpuriousFault PostedInOrder
PROPERTIES HandshakeResolves 
CHECK_DEADLOCK FALSE
