--------------------------- MODULE MCFileEvents ---------------------------
(* Instances of FileEvents for TLC *)
EXTENDS FileEvents, TLC

CONSTANTS c1, c2

TwoCallbacks == {c1, c2}
CallbackSymmetry == Permutations(TwoCallbacks)
============================================================================
