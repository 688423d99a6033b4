--------------------------- MODULE MCEventCenter ---------------------------
(* Instance of EventCenter for TLC *)
EXTENDS EventCenter

CONSTANTS t1, t2, h1, a1

TwoThreads == {t1, t2}
OneHandler == {h1}
============================================================================
