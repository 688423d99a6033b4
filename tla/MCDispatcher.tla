---------------------------- MODULE MCDispatcher ----------------------------
(* Instances of Dispatcher for TLC: two queue pairs, interchangeable. *)
EXTENDS Dispatcher, TLC

CONSTANTS q1, q2

TwoQPs == {q1, q2}
Symmetric == Permutations(TwoQPs)
=============================================================================
