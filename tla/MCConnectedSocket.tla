------------------------- MODULE MCConnectedSocket -------------------------
(* Instances of ConnectedSocket for TLC. *)
EXTENDS ConnectedSocket

LivePeer == {"call", "link", "close"}
LostPeer == {"link", "crash"}

============================================================================
