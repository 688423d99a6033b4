SPECIFICATION Spec
CONSTANTS
  MaxSends = 2
  Failures <- LivePeer
  AppThread = TRUE
INVARIANTS HealthyPostsReach HandshakeOrder NoLostEdge  ToldIsConnected
PROPERTY ImplementsRendezvous
CHECK_DEADLOCK FALSE
