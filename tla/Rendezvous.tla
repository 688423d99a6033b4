---------------------------- MODULE Rendezvous -----------------------------
(***************************************************************************)
(* What the handshake of an RDMA connection promises, without its threads, *)
(* messages and handlers: two queue pairs open, the connecting one second; *)
(* a side comes up only when both are open; and what a side in good health *)
(* puts on the wire was handed to it by its application and finds the      *)
(* queue pair of the other side open.                                      *)
(***************************************************************************)
EXTENDS Naturals

CONSTANT MaxSends

VARIABLES
  open,     \* is the queue pair of a side open: "no", "yes", or "gone"
  verdict,  \* what the side knows: "pending", "up" or "failed"
  sent,     \* number of buffers the application has handed over
  posted    \* the buffers on the wire

vars == <<open, verdict, sent, posted>>

Sides == {"client", "server"}
Other(s) == IF s = "client" THEN "server" ELSE "client"

Init ==
  /\ open = [s \in Sides |-> "no"]
  /\ verdict = [s \in Sides |-> "pending"]
  /\ sent = [s \in Sides |-> 0]
  /\ posted = [s \in Sides |-> {}]

\* The queue pair opens; the connecting side is up at once, the accepting
\* side waits or has failed to answer.
Open(s) ==
  /\ open[s] = "no"
  /\ verdict[s] = "pending"
  /\ s = "client" => open["server"] # "no"
  /\ open' = [open EXCEPT ![s] = "yes"]
  /\ \/ verdict' = [verdict EXCEPT ![s] = IF s = "client" THEN "up" ELSE @]
     \/ verdict' = [verdict EXCEPT ![s] = "failed"]
  /\ UNCHANGED <<sent, posted>>

ComeUp(s) ==
  /\ verdict[s] = "pending"
  /\ open[s] = "yes"
  /\ open[Other(s)] # "no"
  /\ verdict' = [verdict EXCEPT ![s] = "up"]
  /\ UNCHANGED <<open, sent, posted>>

Fail(s) ==
  /\ verdict' = [verdict EXCEPT ![s] = "failed"]
  /\ UNCHANGED <<open, sent, posted>>

Retire(s) ==
  /\ open' = [open EXCEPT ![s] = "gone"]
  /\ verdict' = [verdict EXCEPT ![s] = "failed"]
  /\ UNCHANGED <<sent, posted>>

HandOver(s) ==
  /\ sent[s] < MaxSends
  /\ sent' = [sent EXCEPT ![s] = @ + 1]
  /\ UNCHANGED <<open, verdict, posted>>

\* Buffers go on the wire, possibly in the call that hands one over.
Post(s) ==
  /\ open[s] = "yes"
  /\ verdict[s] # "pending"
  /\ verdict[s] = "up" => open[Other(s)] # "no"
  /\ \/ sent[s] < MaxSends /\ sent' = [sent EXCEPT ![s] = @ + 1]
     \/ UNCHANGED sent
  /\ \E more \in SUBSET (1 .. sent'[s]) :
       posted' = [posted EXCEPT ![s] = @ \cup more]
  /\ UNCHANGED <<open, verdict>>

Next ==
  \E s \in Sides :
    Open(s) \/ ComeUp(s) \/ Fail(s) \/ Retire(s) \/ HandOver(s) \/ Post(s)

Spec == Init /\ [][Next]_vars

============================================================================
