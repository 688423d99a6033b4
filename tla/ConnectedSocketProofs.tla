------------------------ MODULE ConnectedSocketProofs -----------------------
(***************************************************************************)
(* Type correctness of ConnectedSocket, the order of the handshake, the    *)
(* fate of its messages and buffers, and that it implements Rendezvous,    *)
(* for every bound, every set of failures and every use of threads; and,   *)
(* when the application has no thread of its own, the reasons of faults    *)
(* and the order of posts.                                                 *)
(***************************************************************************)
EXTENDS ConnectedSocket, SequenceTheorems, TLAPS

-----------------------------------------------------------------------------
(* Types *)

\* A number between two naturals is one: what read() has consumed.
LEMMA BetweenIsNat ==
  ASSUME NEW a \in Nat, NEW b \in Nat, NEW n \in a .. b
  PROVE  n \in Nat
OBVIOUS

LEMMA SideType ==
  /\ client \in Side /\ server \in Side
  /\ \A s \in Side : Peer(s) \in Side
BY Zenon DEF Side, client, server, Peer

\* A message written to the TCP connection keeps the types of inbox and edge.
LEMMA DeliveredType ==
  ASSUME TypeOK, NEW box \in [Side -> Seq(CmMeta)], NEW ev \in [Side -> BOOLEAN],
         NEW s \in Side, NEW m \in CmMeta
  PROVE  /\ Delivered(box, s, m) \in [Side -> Seq(CmMeta)]
         /\ Raised(ev, s) \in [Side -> BOOLEAN]
<1>1. Peer(s) \in Side
  BY SideType, Zenon
<1>2. QED
  BY <1>1 DEF Delivered, Raised

LEMMA MessagesType ==
  /\ [local_qpn |-> client, peer_qpn |-> NoQpn] \in CmMeta
  /\ [local_qpn |-> client, peer_qpn |-> server] \in CmMeta
  /\ [local_qpn |-> server, peer_qpn |-> client] \in CmMeta
BY Zenon DEF CmMeta, Side, client, server, NoQpn

LEMMA BreakTcpType ==
  ASSUME TypeOK, BreakTcp
  PROVE  /\ tcp' \in {"none", "connecting", "up", "refused", "broken"}
         /\ edge' \in [Side -> BOOLEAN]
         /\ inbox' \in [Side -> Seq(CmMeta)]
<1>1. [s \in Side |-> <<>>] \in [Side -> Seq(CmMeta)]
  OBVIOUS
<1>2. CASE tcp \in {"connecting", "up", "broken"}
  BY <1>1, <1>2, ZenonT(90) DEF TypeOK, BreakTcp
<1>3. CASE tcp \notin {"connecting", "up", "broken"}
  BY <1>3, ZenonT(90) DEF TypeOK, BreakTcp
<1>4. QED
  BY <1>2, <1>3, Zenon

LEMMA FaultType ==
  ASSUME TypeOK, NEW s \in Side, fault(s)
  PROVE  /\ error' \in [Side -> BOOLEAN]
         /\ connected' \in [Side -> BOOLEAN]
         /\ notified' \in [Side -> BOOLEAN]
BY Zenon DEF TypeOK, fault

LEMMA PostType ==
  ASSUME TypeOK, NEW s \in Side, NEW bl \in Seq(Buffers), post_work_request(s, bl)
  PROVE  /\ wire' \in [Side -> Seq(Buffers \cup {Fin})]
         /\ empty_post' \in [Side -> BOOLEAN]
<1>1. bl \in Seq(Buffers \cup {Fin})
  OBVIOUS
<1>2. ASSUME NEW w \in Seq(Buffers \cup {Fin}), w # <<>>
      PROVE  Append(w, w[Len(w)]) \in Seq(Buffers \cup {Fin})
  BY <1>2
<1>3. wire[s] \in Seq(Buffers \cup {Fin})
  BY Zenon DEF TypeOK
<1>4. CASE bl # <<>>
  <2>1. wire[s] \o bl \in Seq(Buffers \cup {Fin})
    BY <1>1, <1>3
  <2>2. wire' = [wire EXCEPT ![s] = IF qp[s] = "RTS" THEN wire[s] \o bl ELSE wire[s]]
        /\ empty_post' = empty_post
    BY <1>4, Zenon DEF post_work_request
  <2>3. QED
    BY <1>3, <2>1, <2>2, Zenon DEF TypeOK
<1>5. CASE bl = <<>>
  <2>1. empty_post' \in [Side -> BOOLEAN]
    BY <1>5, ZenonT(90) DEF TypeOK, post_work_request
  <2>2. CASE wire' = wire
    BY <2>1, <2>2, Zenon DEF TypeOK
  <2>3. CASE wire[s] # <<>> /\ wire' = [wire EXCEPT ![s] = Append(wire[s], wire[s][Len(wire[s])])]
    <3>1. Append(wire[s], wire[s][Len(wire[s])]) \in Seq(Buffers \cup {Fin})
      BY <1>2, <1>3, <2>3, Zenon
    <3>2. QED
      BY <2>1, <2>3, <3>1, Zenon DEF TypeOK
  <2>4. QED
    BY <1>5, <2>2, <2>3, Zenon DEF post_work_request
<1>6. QED
  BY <1>4, <1>5, Zenon

LEMMA SubmitType ==
  ASSUME TypeOK, NEW s \in Side, submit(s)
  PROVE  /\ wire' \in [Side -> Seq(Buffers \cup {Fin})]
         /\ empty_post' \in [Side -> BOOLEAN]
         /\ pending_bl' \in [Side -> Seq(Buffers)]
         /\ pending_len' \in [Side -> Nat]
         /\ next' \in [Side -> 0 .. MaxSends]
<1>1. pending_bl[s] \in Seq(Buffers)
  BY Zenon DEF TypeOK
<1>2. CASE error[s] \/ pending_len[s] = 0
  BY <1>2, SMTT(60) DEF TypeOK, submit
<1>3. CASE ~(error[s] \/ pending_len[s] = 0)
  <2>1. post_work_request(s, pending_bl[s])
    BY <1>3, Zenon DEF submit
  <2>2. wire' \in [Side -> Seq(Buffers \cup {Fin})] /\ empty_post' \in [Side -> BOOLEAN]
    BY <1>1, <2>1, PostType, Zenon
  <2>3. pending_bl' = [pending_bl EXCEPT ![s] = <<>>] /\ UNCHANGED <<pending_len, next>>
    BY <1>3, Zenon DEF submit
  <2>4. <<>> \in Seq(Buffers)
    OBVIOUS
  <2>5. QED
    BY <2>2, <2>3, <2>4, Zenon DEF TypeOK
<1>4. QED
  BY <1>2, <1>3, Zenon

\* Every action keeps the types.
LEMMA TypeStep ==
  ASSUME TypeOK, [Next]_vars
  PROVE  TypeOK'
<1> USE ConstantsAssumption, SideType, MessagesType
<1>1. ASSUME NEW s \in Side, RecvFailed(s)
      PROVE  TypeOK'
  <2>1. fault(s)
    BY <1>1, Zenon DEF RecvFailed
  <2>2. inbox' \in [Side -> Seq(CmMeta)]
    <3>1. inbox' = inbox \/ (inbox[s] # <<>> /\ inbox' = [inbox EXCEPT ![s] = Tail(inbox[s])])
      BY <1>1, Zenon DEF RecvFailed
    <3>2. inbox \in [Side -> Seq(CmMeta)] /\ inbox[s] \in Seq(CmMeta)
      BY Zenon DEF TypeOK
    <3>3. inbox[s] # <<>> => Tail(inbox[s]) \in Seq(CmMeta)
      BY <3>2, SMTT(30)
    <3>4. QED
      BY <3>1, <3>2, <3>3, Zenon
  <2>3. edge' \in [Side -> BOOLEAN]
    BY <1>1, Zenon DEF TypeOK, RecvFailed
  <2>4. QED
    BY <1>1, <2>1, <2>2, <2>3, FaultType, Zenon DEF TypeOK, RecvFailed, ReadHandlerKeeps, sendVars
<1>2. ASSUME NEW s \in Side, LateMessage(s)
      PROVE  TypeOK'
  <2>1. fault(s) /\ inbox[s] # <<>>
    BY <1>2, Zenon DEF LateMessage, Received
  <2>2. inbox' \in [Side -> Seq(CmMeta)]
    BY <1>2, <2>1 DEF TypeOK, LateMessage
  <2>3. edge' \in [Side -> BOOLEAN]
    BY <1>2, Zenon DEF TypeOK, LateMessage
  <2>4. QED
    BY <1>2, <2>1, <2>2, <2>3, FaultType, Zenon DEF TypeOK, LateMessage, ReadHandlerKeeps, sendVars
<1>3. ASSUME ClientActivate
      PROVE  TypeOK'
  <2>1. inbox[client] # <<>>
    BY <1>3, Zenon DEF ClientActivate, Received
  <2>2. inbox' \in [Side -> Seq(CmMeta)]
    BY <1>3, <2>1 DEF TypeOK, ClientActivate
  <2>3. QED
    BY <1>3, <2>2, Zenon DEF TypeOK, ClientActivate, ReadHandlerKeeps, sendVars
<1>4. ASSUME ServerActivate
      PROVE  TypeOK'
  <2> DEFINE box == [inbox EXCEPT ![server] = Tail(@)]
             ev  == [edge EXCEPT ![server] = FALSE]
  <2>1. inbox[server] # <<>>
    BY <1>4, Zenon DEF ServerActivate, Received
  <2>2. box \in [Side -> Seq(CmMeta)] /\ ev \in [Side -> BOOLEAN]
    BY <2>1, SMTT(60) DEF TypeOK
  <2>3. /\ Delivered(box, server, [local_qpn |-> server, peer_qpn |-> client]) \in [Side -> Seq(CmMeta)]
        /\ Raised(ev, server) \in [Side -> BOOLEAN]
    BY <2>2, DeliveredType, Zenon
  <2>4. inbox' \in [Side -> Seq(CmMeta)] /\ edge' \in [Side -> BOOLEAN]
    BY <1>4, <2>2, <2>3, Zenon DEF ServerActivate
  <2>5. \/ UNCHANGED <<error, connected, notified>>
        \/ fault(server)
    BY <1>4, Zenon DEF ServerActivate
  <2>6. error' \in [Side -> BOOLEAN] /\ connected' \in [Side -> BOOLEAN] /\ notified' \in [Side -> BOOLEAN]
    BY <2>5, FaultType, ZenonT(90) DEF TypeOK
  <2>7. QED
    BY <1>4, <2>4, <2>6, Zenon DEF TypeOK, ServerActivate, ReadHandlerKeeps, sendVars
<1>5. ASSUME ServerConnected
      PROVE  TypeOK'
  <2>1. inbox[server] # <<>>
    BY <1>5, Zenon DEF ServerConnected, Received
  <2>2. inbox' \in [Side -> Seq(CmMeta)]
    BY <1>5, <2>1 DEF TypeOK, ServerConnected
  <2>3. QED
    BY <1>5, <2>2, Zenon DEF TypeOK, ServerConnected, ReadHandlerKeeps, sendVars
<1>6. ASSUME NEW s \in Side, handle_connection(s)
      PROVE  TypeOK'
  BY <1>1, <1>2, <1>3, <1>4, <1>5, <1>6, Zenon DEF handle_connection
<1>7. ASSUME NEW s \in Side, WorkerSubmit(s)
      PROVE  TypeOK'
  <2>1. submit(s)
    BY <1>7, Zenon DEF WorkerSubmit
  <2>2. wpc' \in [Side -> {"loop", "submit", "ack"}] /\ notified' \in [Side -> BOOLEAN]
    BY <1>7, Zenon DEF TypeOK, WorkerSubmit
  <2>3. QED
    BY <1>7, <2>1, <2>2, SubmitType, Zenon DEF TypeOK, WorkerSubmit, sockVars, tcpVars
<1>8. ASSUME NEW s \in Side, ClosedHandler(s)
      PROVE  TypeOK'
  BY <1>8, Zenon DEF TypeOK, ClosedHandler, sockVars, sendVars, connVars
<1>9. ASSUME NEW s \in Side, NotifyEvent(s)
      PROVE  TypeOK'
  <2>1. told' \in [Side -> SUBSET {"read", "write"}]
    BY <1>9, Zenon DEF TypeOK, NotifyEvent
  <2>2. state' \in [Side -> {"NONE", "CONNECTING", "CONNECTING_RE", "ACCEPTING",
                             "ESTABLISHED", "CLOSED"}]
    <3>1. state' = state \/ state' = [state EXCEPT ![s] = "ESTABLISHED"]
      BY <1>9, Zenon DEF NotifyEvent
    <3>2. QED
      BY <3>1, Zenon DEF TypeOK
  <2>3. external' \in [Side -> Seq({"register", "process", "write_callback"})]
    <3>1. external' = external \/ external' = [external EXCEPT ![s] = Append(external[s], "write_callback")]
      BY <1>9, Zenon DEF NotifyEvent
    <3>2. Append(external[s], "write_callback") \in Seq({"register", "process", "write_callback"})
      BY DEF TypeOK
    <3>3. external \in [Side -> Seq({"register", "process", "write_callback"})]
      BY Zenon DEF TypeOK
    <3>4. QED
      BY <3>1, <3>2, <3>3, Zenon
  <2>4. notified' \in [Side -> BOOLEAN]
    BY <1>9, Zenon DEF TypeOK, NotifyEvent
  <2>5. QED
    BY <1>9, <2>1, <2>2, <2>3, <2>4, Zenon DEF TypeOK, NotifyEvent, sockVars, sendVars, tcpVars
<1>10. ASSUME NEW s \in Side, NEW e, NEW more \in Seq({"register", "process", "write_callback"}),
              External(s, e, more)
       PROVE  external' \in [Side -> Seq({"register", "process", "write_callback"})]
  <2>1. Tail(external[s]) \in Seq({"register", "process", "write_callback"})
    BY <1>10, SMTT(30) DEF TypeOK, External
  <2>2. Tail(external[s]) \o more \in Seq({"register", "process", "write_callback"})
    BY <2>1
  <2>3. QED
    BY <1>10, <2>2, Zenon DEF TypeOK, External
<1>11. <<>> \in Seq({"register", "process", "write_callback"})
       /\ <<"write_callback">> \in Seq({"register", "process", "write_callback"})
       /\ <<"register", "process">> \in Seq({"register", "process", "write_callback"})
  OBVIOUS
<1>12. ASSUME NEW s \in Side, WriteCallback(s)
       PROVE  TypeOK'
  <2>1. external' \in [Side -> Seq({"register", "process", "write_callback"})]
    BY <1>10, <1>11, <1>12, Zenon DEF WriteCallback
  <2>2. told' \in [Side -> SUBSET {"read", "write"}]
    BY <1>12, Zenon DEF TypeOK, WriteCallback
  <2>3. QED
    BY <1>12, <2>1, <2>2, Zenon DEF TypeOK, WriteCallback, sockVars, sendVars, tcpVars
<1>13. ASSUME Register(server)
       PROVE  TypeOK'
  <2>1. external' \in [Side -> Seq({"register", "process", "write_callback"})]
    BY <1>10, <1>11, <1>13, Zenon DEF Register
  <2>2. edge' \in [Side -> BOOLEAN]
    BY <1>13, Zenon DEF TypeOK, Register, Readable
  <2>3. QED
    BY <1>13, <2>1, <2>2, Zenon DEF TypeOK, Register, sockVars, sendVars
<1>14. ASSUME ProcessConnecting
       PROVE  TypeOK'
  <2>1. external' \in [Side -> Seq({"register", "process", "write_callback"})]
    BY <1>10, <1>11, <1>14, Zenon DEF ProcessConnecting
  <2>2. tcp' = tcp \/ tcp' = "connecting"
    BY <1>14, Zenon DEF ProcessConnecting
  <2>3. handler' = handler \/ handler' = [handler EXCEPT ![client] = "established"]
    BY <1>14, Zenon DEF ProcessConnecting
  <2>4. state' = state \/ state' = [state EXCEPT ![client] = "CONNECTING_RE"]
    BY <1>14, Zenon DEF ProcessConnecting
  <2>5. tcp' \in {"none", "connecting", "up", "refused", "broken"}
    BY <2>2, Zenon DEF TypeOK
  <2>6. handler' \in [Side -> {"none", "established", "read", "closed"}]
    BY <2>3, ZenonT(90) DEF TypeOK
  <2>7. state' \in [Side -> {"NONE", "CONNECTING", "CONNECTING_RE", "ACCEPTING",
                             "ESTABLISHED", "CLOSED"}]
    BY <2>4, ZenonT(90) DEF TypeOK
  <2>8. QED
    BY <1>14, <2>1, <2>5, <2>6, <2>7, Zenon DEF TypeOK, ProcessConnecting, sockVars, sendVars
<1>15. ASSUME ProcessAccepting
       PROVE  TypeOK'
  <2>1. external' \in [Side -> Seq({"register", "process", "write_callback"})]
    BY <1>10, <1>11, <1>15, Zenon DEF ProcessAccepting
  <2>2. QED
    BY <1>15, <2>1, Zenon DEF TypeOK, ProcessAccepting, sockVars, sendVars, tcpVars
<1>16. ASSUME Accept
       PROVE  TypeOK'
  BY <1>11, <1>16, Zenon DEF TypeOK, Accept, sockVars, sendVars, tcpVars
<1>17. ASSUME handle_connection_established
       PROVE  TypeOK'
  <2>1. [edge EXCEPT ![client] = Readable(client)] \in [Side -> BOOLEAN]
    BY Zenon DEF TypeOK, Readable
  <2>2. /\ Delivered(inbox, client, [local_qpn |-> client, peer_qpn |-> NoQpn]) \in [Side -> Seq(CmMeta)]
        /\ Raised([edge EXCEPT ![client] = Readable(client)], client) \in [Side -> BOOLEAN]
    BY <2>1, DeliveredType, Zenon DEF TypeOK
  <2>3. inbox' \in [Side -> Seq(CmMeta)] /\ edge' \in [Side -> BOOLEAN]
    <3>1. \/ /\ inbox' = Delivered(inbox, client, [local_qpn |-> client, peer_qpn |-> NoQpn])
             /\ edge' = Raised([edge EXCEPT ![client] = Readable(client)], client)
          \/ inbox' = inbox /\ edge' = [edge EXCEPT ![client] = FALSE]
      BY <1>17, Zenon DEF handle_connection_established
    <3>2. QED
      BY <2>2, <3>1, ZenonT(90) DEF TypeOK
  <2>4. UNCHANGED <<error, connected, notified>> \/ fault(client)
    BY <1>17, Zenon DEF handle_connection_established
  <2>5. error' \in [Side -> BOOLEAN] /\ connected' \in [Side -> BOOLEAN] /\ notified' \in [Side -> BOOLEAN]
    BY <2>4, FaultType, ZenonT(90) DEF TypeOK
  <2>6. handler' \in [Side -> {"none", "established", "read", "closed"}]
    BY <1>17, ZenonT(90) DEF TypeOK, handle_connection_established
  <2>7. QED
    BY <1>17, <2>3, <2>5, <2>6, Zenon DEF TypeOK, handle_connection_established, sendVars
<1>18. ASSUME ClientAck
       PROVE  TypeOK'
  <2>1. /\ Delivered(inbox, client, [local_qpn |-> client, peer_qpn |-> server]) \in [Side -> Seq(CmMeta)]
        /\ Raised(edge, client) \in [Side -> BOOLEAN]
    BY DeliveredType, Zenon DEF TypeOK
  <2>2. inbox' \in [Side -> Seq(CmMeta)] /\ edge' \in [Side -> BOOLEAN]
    BY <1>18, <2>1, ZenonT(90) DEF TypeOK, ClientAck
  <2>3. UNCHANGED <<error, connected>> \/ fault(client)
    BY <1>18, Zenon DEF ClientAck
  <2>4. error' \in [Side -> BOOLEAN] /\ connected' \in [Side -> BOOLEAN]
    BY <2>3, FaultType, ZenonT(90) DEF TypeOK
  <2>5. QED
    BY <1>18, <2>2, <2>4, Zenon DEF TypeOK, ClientAck, ReadHandlerKeeps, sendVars
<1>19. ASSUME CloseSocket
       PROVE  TypeOK'
  <2>1. BreakTcp
    BY <1>19, Zenon DEF CloseSocket
  <2>2. wire' \in [Side -> Seq(Buffers \cup {Fin})]
    <3>1. wire' = wire \/ wire' = [wire EXCEPT ![client] = Append(wire[client], Fin)]
      <4>1. wire \in [Side -> Seq(Buffers \cup {Fin})]
        BY Zenon DEF TypeOK
      <4>2. QED
        BY <1>19, <4>1, Zenon DEF CloseSocket
    <3>2. Append(wire[client], Fin) \in Seq(Buffers \cup {Fin})
      BY SMTT(60) DEF TypeOK
    <3>3. wire \in [Side -> Seq(Buffers \cup {Fin})]
      BY Zenon DEF TypeOK
    <3>4. QED
      BY <3>1, <3>2, <3>3, Zenon
  <2>3. QED
    BY <1>19, <2>1, <2>2, BreakTcpType, Zenon DEF TypeOK, CloseSocket
<1>20. ASSUME TcpConnect
       PROVE  TypeOK'
  BY <1>20, Zenon DEF TypeOK, TcpConnect, sockVars, sendVars, connVars
<1>21. ASSUME TcpBreak
       PROVE  TypeOK'
  <2>1. BreakTcp
    BY <1>21, Zenon DEF TcpBreak
  <2>2. QED
    BY <1>21, <2>1, BreakTcpType, Zenon DEF TypeOK, TcpBreak, sockVars, sendVars, connVars
<1>22. ASSUME NEW s \in Side, Crash(s)
       PROVE  TypeOK'
  <2>1. BreakTcp
    BY <1>22, Zenon DEF Crash
  <2>2. QED
    BY <1>22, <2>1, BreakTcpType, Zenon DEF TypeOK, Crash, sockVars, sendVars, connVars
<1>23. ASSUME NEW s \in Side, Send(s)
       PROVE  TypeOK'
  <2>1. next[s] + 1 \in Buffers /\ next' \in [Side -> 0 .. MaxSends]
    <3>1. /\ next \in [Side -> 0 .. MaxSends]
          /\ next[client] \in 0 .. MaxSends /\ next[server] \in 0 .. MaxSends
      BY SideType, Zenon DEF TypeOK, Side
    <3>2. /\ next[client] + next[server] < MaxSends
          /\ next' = [next EXCEPT ![s] = next[s] + 1]
      BY <1>23, Zenon DEF Send
    <3>3. next[s] + 1 \in 0 .. MaxSends /\ next[s] + 1 \in 1 .. MaxSends
      BY <3>1, <3>2, ConstantsAssumption DEF Side
    <3>4. QED
      BY <3>1, <3>2, <3>3, Zenon DEF Buffers
  <2>2. pending_bl' \in [Side -> Seq(Buffers)]
    <3>1. /\ pending_bl \in [Side -> Seq(Buffers)]
          /\ pending_bl' = [pending_bl EXCEPT ![s] = Append(pending_bl[s], next[s] + 1)]
      BY <1>23, Zenon DEF TypeOK, Send
    <3>2. pending_bl[s] \in Seq(Buffers)
      BY <3>1, Zenon
    <3>3. Append(pending_bl[s], next[s] + 1) \in Seq(Buffers)
      BY <2>1, <3>2
    <3>4. QED
      BY <3>1, <3>3, Zenon
  <2>3. pending_len' \in [Side -> Nat]
    <3>1. pending_len \in [Side -> Nat] /\ pending_len' = [pending_len EXCEPT ![s] = pending_len[s] + 1]
      BY <1>23, Zenon DEF TypeOK, Send
    <3>2. pending_len[s] + 1 \in Nat
      BY <3>1
    <3>3. QED
      BY <3>1, <3>2, Zenon
  <2>4. QED
    BY <1>23, <2>1, <2>2, <2>3, Zenon DEF TypeOK, Send, sockVars, tcpVars, connVars
<1>24. ASSUME NEW s \in Side, SendSubmit(s) \/ ReadSubmit(s)
       PROVE  TypeOK'
  <2>1. submit(s)
    BY <1>24, Zenon DEF SendSubmit, ReadSubmit
  <2>2. apc' = [apc EXCEPT ![s] = "idle"]
    BY <1>24, Zenon DEF SendSubmit, ReadSubmit
  <2>3. UNCHANGED <<sockVars, tcpVars, connVars, wpc, received, took_over, up>>
    BY <1>24, Zenon DEF SendSubmit, ReadSubmit
  <2>4. QED
    BY <2>1, <2>2, <2>3, SubmitType, Zenon DEF TypeOK, sockVars, tcpVars, connVars
<1>25. ASSUME NEW s \in Side, SendChunks(s)
       PROVE  TypeOK'
  <2>1. next[s] + 1 \in Buffers /\ next' \in [Side -> 0 .. MaxSends]
    <3>1. /\ next \in [Side -> 0 .. MaxSends]
          /\ next[client] \in 0 .. MaxSends /\ next[server] \in 0 .. MaxSends
      BY SideType DEF TypeOK, Side
    <3>2. /\ next[client] + next[server] < MaxSends
          /\ next' = [next EXCEPT ![s] = next[s] + 1]
      BY <1>25, Zenon DEF SendChunks
    <3>3. next[s] + 1 \in 0 .. MaxSends /\ next[s] + 1 \in 1 .. MaxSends
      BY <3>1, <3>2, ConstantsAssumption DEF Side
    <3>4. QED
      BY <3>1, <3>2, <3>3, SMTT(60) DEF Buffers
  <2>2. <<next[s] + 1>> \in Seq(Buffers)
    BY <2>1
  <2>3. post_work_request(s, <<next[s] + 1>>)
    BY <1>25, Zenon DEF SendChunks
  <2>4. wire' \in [Side -> Seq(Buffers \cup {Fin})] /\ empty_post' \in [Side -> BOOLEAN]
    BY <2>2, <2>3, PostType, Zenon
  <2>5. QED
    BY <1>25, <2>1, <2>4, Zenon DEF TypeOK, SendChunks, sockVars, tcpVars, connVars
<1>26. ASSUME NEW s \in Side, Read(s)
       PROVE  TypeOK'
  <2>1. received' \in [Side -> Nat] /\ notified' \in [Side -> BOOLEAN] /\ error' \in [Side -> BOOLEAN]
    <3>1. PICK n \in received[s] .. Len(wire[Peer(s)]), more \in BOOLEAN :
            /\ received' = [received EXCEPT ![s] = n]
            /\ notified' = [notified EXCEPT ![s] = @ \/ more]
            /\ error' = [error EXCEPT ![s] =
                 @ \/ /\ connected[s]
                      /\ \E i \in received[s] + 1 .. n : wire[Peer(s)][i] = Fin]
      BY <1>26, Zenon DEF Read
    <3>2. received[s] \in Nat
      BY Zenon DEF TypeOK
    <3>3. n \in Nat
      <4>1. Peer(s) \in Side
        BY SideType, Zenon
      <4>2. Len(wire[Peer(s)]) \in Nat
        BY <4>1, LenProperties, Zenon DEF TypeOK
      <4>3. QED
        BY <3>2, <4>2, BetweenIsNat, Zenon
    <3>4. QED
      BY <3>1, <3>3, ZenonT(40) DEF TypeOK
  <2>2. connected' \in [Side -> BOOLEAN] /\ apc' \in [Side -> {"idle", "submit", "close", "delete", "resubmit"}]
    <3>1. \/ connected' = connected /\ apc' = apc
          \/ /\ connected' = [connected EXCEPT ![s] = TRUE]
             /\ apc' = [apc EXCEPT ![s] = "close"]
      BY <1>26, Zenon DEF Read
    <3>2. CASE connected' = connected /\ apc' = apc
      BY <3>2, Zenon DEF TypeOK
    <3>3. CASE /\ connected' = [connected EXCEPT ![s] = TRUE]
               /\ apc' = [apc EXCEPT ![s] = "close"]
      BY <3>3, Zenon DEF TypeOK
    <3>4. QED
      BY <3>1, <3>2, <3>3, Zenon
  <2>3. QED
    BY <1>26, <2>1, <2>2, Zenon DEF TypeOK, Read, sendVars, tcpVars
<1>27. ASSUME NEW s \in Side, CleanupClose(s) \/ CleanupDelete(s)
       PROVE  TypeOK'
  <2>1. CASE CleanupClose(s)
    <3>1. handler' = handler \/ handler' = [handler EXCEPT ![s] = "closed"]
      <4>1. handler \in [Side -> {"none", "established", "read", "closed"}]
        BY Zenon DEF TypeOK
      <4>2. QED
        BY <2>1, <4>1, Zenon DEF CleanupClose
    <3>2. handler' \in [Side -> {"none", "established", "read", "closed"}]
      BY <3>1, ZenonT(90) DEF TypeOK
    <3>3. QED
      BY <2>1, <3>2, Zenon DEF TypeOK, CleanupClose, sockVars, sendVars, connVars
  <2>2. CASE CleanupDelete(s)
    BY <2>2, Zenon DEF TypeOK, CleanupDelete, sockVars, sendVars, connVars
  <2>3. QED
    BY <1>27, <2>1, <2>2, Zenon
<1>28. ASSUME UNCHANGED vars
       PROVE  TypeOK'
  BY <1>28, Zenon DEF TypeOK, vars, sockVars, sendVars, tcpVars, connVars
<1>29. QED
  BY <1>6, <1>7, <1>8, <1>9, <1>12, <1>13, <1>14, <1>15, <1>16, <1>17, <1>18, <1>19, <1>20,
     <1>21, <1>22, <1>23, <1>24, <1>25, <1>26, <1>27, <1>28, Zenon
  DEF Next, Handlers, Calls, ClientSteps, ServerSteps, Environment

LEMMA TypeInit == Init => TypeOK
<1> SUFFICES ASSUME Init
             PROVE  TypeOK
  BY Zenon
<1> USE DEF Init
<1>1. /\ external \in [Side -> Seq({"register", "process", "write_callback"})]
      /\ state \in [Side -> {"NONE", "CONNECTING", "CONNECTING_RE", "ACCEPTING",
                             "ESTABLISHED", "CLOSED"}]
  <2>1. <<>> \in Seq({"register", "process", "write_callback"})
        /\ <<"process">> \in Seq({"register", "process", "write_callback"})
    OBVIOUS
  <2>2. QED
    BY <2>1, Zenon
<1>2. /\ pending_bl \in [Side -> Seq(Buffers)]
      /\ inbox \in [Side -> Seq(CmMeta)]
      /\ wire \in [Side -> Seq(Buffers \cup {Fin})]
  OBVIOUS
<1>3. /\ pending_len \in [Side -> Nat]
      /\ next \in [Side -> 0 .. MaxSends]
      /\ received \in [Side -> Nat]
  BY ConstantsAssumption
<1>4. QED
  BY <1>1, <1>2, <1>3, Zenon DEF TypeOK

\* The state of the two sockets, of their Connections and of the threads that
\* run in them stays within its types, for any number of sends, any failures
\* and with or without a thread of the application's own.
THEOREM TypeCorrect == Spec => []TypeOK
<1>1. Init => TypeOK
  BY TypeInit, Zenon
<1>2. TypeOK /\ [Next]_vars => TypeOK'
  BY TypeStep, Zenon
<1>3. QED
  BY <1>1, <1>2, PTL DEF Spec

-----------------------------------------------------------------------------
(* The order of the handshake *)

\* What has been posted, stronger than HealthyPostsReach: for the client it
\* does not depend on `error`, since send(chunks) does not either.
PostsReach ==
  /\ wire[client] # <<>> => qp[server] # "INIT"
  /\ wire[server] # <<>> /\ ~error[server] /\ ~took_over => qp[client] # "INIT"

\* HandshakeOrder and PostsReach relate the sides; ThreadsConnected and
\* ToldIsConnected tie the threads of a side to its `connected`.
Order == HandshakeOrder /\ ThreadsConnected /\ ToldIsConnected /\ PostsReach

\* The variables Order is about
orderVars == <<qp, connected, error, inbox, notified, told, wpc, apc, wire, took_over>>

LEMMA OrderUnchanged ==
  ASSUME Order, UNCHANGED orderVars
  PROVE  Order'
BY Zenon DEF Order, orderVars, HandshakeOrder, ThreadsConnected, ToldIsConnected, PostsReach

\* fault() makes the socket connected and erroneous at once.
LEMMA FaultOrder ==
  ASSUME TypeOK, Order, NEW s \in Side, fault(s),
         UNCHANGED <<qp, told, wpc, apc, wire, took_over>>,
         \A t \in Side : inbox'[t] = inbox[t] \/ (inbox[t] # <<>> /\ inbox'[t] = Tail(inbox[t]))
  PROVE  Order'
<1>1. \A t \in Side : /\ connected'[t] <=> (connected[t] \/ t = s)
                      /\ error'[t] <=> (error[t] \/ t = s)
                      /\ notified'[t] <=> (notified[t] \/ t = s)
  BY ZenonT(90) DEF TypeOK, fault
<1>2. HandshakeOrder'
  <2>1. ASSUME NEW i \in 1 .. Len(inbox'[server])
        PROVE  \E j \in 1 .. Len(inbox[server]) : inbox'[server][i] = inbox[server][j]
    <3>1. inbox[server] \in Seq(CmMeta)
      BY SideType, Zenon DEF TypeOK
    <3>2. CASE inbox'[server] = inbox[server]
      BY <3>2, Zenon
    <3>3. CASE inbox[server] # <<>> /\ inbox'[server] = Tail(inbox[server])
      <4>1. i + 1 \in 1 .. Len(inbox[server]) /\ inbox'[server][i] = inbox[server][i + 1]
        BY <3>1, <3>3
      <4>2. QED
        BY <4>1, Zenon
    <3>4. QED
      BY <3>2, <3>3, SideType, Zenon
  <2>2. inbox'[client] # <<>> => inbox[client] # <<>>
    BY SideType, Zenon DEF TypeOK
  <2>3. \A i \in 1 .. Len(inbox'[server]) :
          inbox'[server][i].peer_qpn # NoQpn => qp'[client] # "INIT"
    BY <2>1, Zenon DEF Order, HandshakeOrder
  <2>4. (inbox[client] # <<>>)' \/ qp'[client] = "RTS" => qp'[server] # "INIT"
    BY <2>2, Zenon DEF Order, HandshakeOrder
  <2>5. connected'[server] /\ ~error'[server] /\ ~took_over' => qp'[client] # "INIT"
    BY <1>1, SideType, Zenon DEF Order, HandshakeOrder
  <2>6. QED
    BY <2>3, <2>4, <2>5, Zenon DEF Order, HandshakeOrder
<1>3. ThreadsConnected' /\ ToldIsConnected'
  BY <1>1, Zenon DEF Order, ThreadsConnected, ToldIsConnected
<1>4. PostsReach'
  BY <1>1, SideType, Zenon DEF Order, PostsReach
<1>5. QED
  BY <1>2, <1>3, <1>4, Zenon DEF Order

\* A post appends only what leaves a queue pair in RTS, or repeats.
LEMMA PostOrder ==
  ASSUME TypeOK, Order, NEW s \in Side, NEW bl, post_work_request(s, bl),
         connected[s],
         UNCHANGED <<qp, error, took_over>>
  PROVE  PostsReach'
<1>1. \A t \in Side : wire'[t] # <<>> => wire[t] # <<>> \/ (t = s /\ qp[s] = "RTS")
  BY SMTT(60) DEF TypeOK, post_work_request
<1>2. QED
  BY <1>1, SideType, Zenon DEF Order, HandshakeOrder, PostsReach

LEMMA SubmitOrder ==
  ASSUME TypeOK, Order, NEW s \in Side, submit(s), connected[s], UNCHANGED <<qp, error, took_over>>
  PROVE  PostsReach'
<1>1. CASE error[s] \/ pending_len[s] = 0
  BY <1>1, SideType, Zenon DEF Order, PostsReach, submit
<1>2. CASE ~(error[s] \/ pending_len[s] = 0)
  BY <1>2, PostOrder, Zenon DEF submit
<1>3. QED
  BY <1>1, <1>2, Zenon

\* The acknowledgements in a queue that lost its head, or gained a message.
Acks(q) == {i \in 1 .. Len(q) : q[i].peer_qpn # NoQpn}

LEMMA AcksTail ==
  ASSUME NEW q \in Seq(CmMeta), q # <<>>, Acks(Tail(q)) # {}
  PROVE  Acks(q) # {}
<1>1. PICK i \in 1 .. Len(Tail(q)) : Tail(q)[i].peer_qpn # NoQpn
  BY Zenon DEF Acks
<1>2. i + 1 \in 1 .. Len(q) /\ Tail(q)[i] = q[i + 1]
  OBVIOUS
<1>3. QED
  BY <1>1, <1>2, Zenon DEF Acks

LEMMA AcksAppend ==
  ASSUME NEW q \in Seq(CmMeta), NEW m \in CmMeta, Acks(Append(q, m)) # {}
  PROVE  Acks(q) # {} \/ m.peer_qpn # NoQpn
<1>1. PICK i \in 1 .. Len(Append(q, m)) : Append(q, m)[i].peer_qpn # NoQpn
  BY Zenon DEF Acks
<1>2. CASE i = Len(q) + 1
  BY <1>1, <1>2
<1>3. CASE i # Len(q) + 1
  <2>1. i \in 1 .. Len(q) /\ Append(q, m)[i] = q[i]
    BY <1>3
  <2>2. QED
    BY <1>1, <2>1, Zenon DEF Acks
<1>4. QED
  BY <1>2, <1>3, Zenon

LEMMA AcksHead ==
  ASSUME NEW q \in Seq(CmMeta), q # <<>>, Head(q).peer_qpn # NoQpn
  PROVE  Acks(q) # {}
<1>1. 1 \in 1 .. Len(q) /\ Head(q) = q[1]
  OBVIOUS
<1>2. QED
  BY <1>1, Zenon DEF Acks

\* HandshakeOrder, with the messages of the server's inbox as Acks.
LEMMA OrderOfAcks ==
  HandshakeOrder <=>
    /\ inbox[client] # <<>> \/ qp[client] = "RTS" => qp[server] # "INIT"
    /\ Acks(inbox[server]) # {} => qp[client] # "INIT"
    /\ wpc[client] # "loop" => qp[client] # "INIT"
    /\ connected[server] /\ ~error[server] /\ ~took_over => qp[client] # "INIT"
BY Zenon DEF HandshakeOrder, Acks

\* The same of the next state.
LEMMA OrderOfAcksNext ==
  HandshakeOrder' <=>
    /\ inbox'[client] # <<>> \/ qp'[client] = "RTS" => qp'[server] # "INIT"
    /\ Acks(inbox'[server]) # {} => qp'[client] # "INIT"
    /\ wpc'[client] # "loop" => qp'[client] # "INIT"
    /\ connected'[server] /\ ~error'[server] /\ ~took_over' => qp'[client] # "INIT"
BY Zenon DEF HandshakeOrder, Acks

\* The handlers of tcp_fd keep Order.
LEMMA HandlerOrder ==
  ASSUME TypeOK, Order, NEW s \in Side, handle_connection(s)
  PROVE  Order'
<1> USE SideType
<1>1. client # server
  BY Zenon DEF client, server
<1>2. inbox[client] \in Seq(CmMeta) /\ inbox[server] \in Seq(CmMeta)
  BY Zenon DEF TypeOK
<1>3. CASE RecvFailed(s)
  <2>1. fault(s) /\ UNCHANGED <<qp, told, wpc, apc, wire, took_over>>
    BY <1>3, Zenon DEF RecvFailed, ReadHandlerKeeps, sendVars
  <2>2. \A t \in Side : inbox'[t] = inbox[t] \/ (inbox[t] # <<>> /\ inbox'[t] = Tail(inbox[t]))
    <3>1. inbox' = inbox \/ (inbox[s] # <<>> /\ inbox' = [inbox EXCEPT ![s] = Tail(inbox[s])])
      BY <1>3, Zenon DEF RecvFailed
    <3>2. inbox \in [Side -> Seq(CmMeta)]
      BY Zenon DEF TypeOK
    <3>3. QED
      BY <3>1, <3>2, Zenon
  <2>3. QED
    BY <2>1, <2>2, FaultOrder, Zenon
<1>4. CASE LateMessage(s)
  <2>1. fault(s) /\ UNCHANGED <<qp, told, wpc, apc, wire, took_over>>
    BY <1>4, Zenon DEF LateMessage, ReadHandlerKeeps, sendVars
  <2>2. \A t \in Side : inbox'[t] = inbox[t] \/ (inbox[t] # <<>> /\ inbox'[t] = Tail(inbox[t]))
    <3>1. inbox[s] # <<>> /\ inbox' = [inbox EXCEPT ![s] = Tail(inbox[s])]
      BY <1>4, Zenon DEF LateMessage, Received
    <3>2. inbox \in [Side -> Seq(CmMeta)]
      BY DEF TypeOK
    <3>3. QED
      BY <3>1, <3>2, Zenon
  <2>3. QED
    BY <2>1, <2>2, FaultOrder
<1>5. CASE ClientActivate
  <2>1. inbox[client] # <<>> /\ ~connected[client]
    BY <1>5, Zenon DEF ClientActivate, Received
  <2>2. qp[server] # "INIT"
    BY <2>1, Zenon DEF Order, HandshakeOrder
  <2>3. /\ qp'[client] = "RTS" /\ qp'[server] = qp[server]
        /\ inbox'[server] = inbox[server]
        /\ connected'[client] /\ (connected'[server] <=> connected[server])
        /\ wpc'[client] = "submit" /\ wpc'[server] = wpc[server]
        /\ UNCHANGED <<error, notified, told, apc, wire, took_over>>
    BY <1>1, <1>5, SMTT(30) DEF TypeOK, ClientActivate, ReadHandlerKeeps, sendVars
  <2>4. HandshakeOrder'
    BY <2>2, <2>3, OrderOfAcksNext, Zenon
  <2>5. \A t \in Side : connected[t] => connected'[t]
    BY <2>3, Zenon DEF Side
  <2>6. ThreadsConnected' /\ ToldIsConnected'
    BY <2>3, <2>5, Zenon DEF Order, ThreadsConnected, ToldIsConnected, Side
  <2>7. PostsReach'
    BY <2>2, <2>3, Zenon DEF Order, PostsReach
  <2>8. QED
    BY <2>4, <2>6, <2>7, Zenon DEF Order
<1>6. CASE ServerActivate
  <2> DEFINE box == [inbox EXCEPT ![server] = Tail(@)]
             ev  == [edge EXCEPT ![server] = FALSE]
             m   == [local_qpn |-> server, peer_qpn |-> client]
  <2>1. inbox[server] # <<>> /\ ~connected[server]
    BY <1>6, Zenon DEF ServerActivate, Received
  <2>2. /\ qp'[client] = qp[client] /\ qp'[server] = "RTS"
        /\ UNCHANGED <<told, wpc, apc, wire, took_over>>
    BY <1>1, <1>6, SMTT(30) DEF TypeOK, ServerActivate, ReadHandlerKeeps, sendVars
  <2>3. inbox'[server] = Tail(inbox[server])
    <3>1. box[server] = Tail(inbox[server])
      BY ZenonT(90) DEF TypeOK
    <3>2. inbox' = Delivered(box, server, m) \/ inbox' = box
      BY <1>6, Zenon DEF ServerActivate
    <3>3. box \in [Side -> Seq(CmMeta)]
      BY <2>1 DEF TypeOK
    <3>4. Delivered(box, server, m)[server] = box[server]
      BY <1>1, <3>3, Zenon DEF Delivered, Peer
    <3>5. QED
      BY <3>1, <3>2, <3>4, Zenon
  <2>4. Acks(inbox'[server]) # {} => Acks(inbox[server]) # {}
    BY <1>2, <2>1, <2>3, AcksTail, Zenon
  <2>5. UNCHANGED <<error, connected, notified>> \/ fault(server)
    BY <1>6, Zenon DEF ServerActivate
  <2>6. \A t \in Side : /\ connected[t] => connected'[t]
                        /\ connected'[t] => connected[t] \/ error'[t]
                        /\ error[t] => error'[t]
                        /\ notified'[t] => notified[t] \/ connected'[t]
    <3>1. CASE UNCHANGED <<error, connected, notified>>
      BY <3>1, Zenon
    <3>2. CASE fault(server)
      BY <3>2 DEF TypeOK, fault
    <3>3. QED
      BY <2>5, <3>1, <3>2, Zenon
  <2>7. HandshakeOrder'
    BY <2>2, <2>4, <2>6, OrderOfAcksNext, OrderOfAcks, Zenon DEF Order
  <2>8. ThreadsConnected' /\ ToldIsConnected'
    BY <2>2, <2>6, Zenon DEF Order, ThreadsConnected, ToldIsConnected
  <2>9. PostsReach'
    BY <2>2, <2>6, Zenon DEF Order, PostsReach
  <2>10. QED
    BY <2>7, <2>8, <2>9 DEF Order
<1>7. CASE ServerConnected
  <2>1. inbox[server] # <<>> /\ Head(inbox[server]).peer_qpn # NoQpn
    BY <1>7, Zenon DEF ServerConnected, Received
  <2>2. qp[client] # "INIT"
    BY <1>2, <2>1, AcksHead, OrderOfAcks, Zenon DEF Order
  <2>3. /\ inbox'[client] = inbox[client]
        /\ \A t \in Side : connected[t] \/ t = server => connected'[t]
        /\ \A t \in Side : t # server => wpc'[t] = wpc[t]
        /\ UNCHANGED <<qp, error, notified, told, apc, wire, took_over>>
    BY <1>1, <1>7 DEF TypeOK, ServerConnected, ReadHandlerKeeps, sendVars
  <2>4. HandshakeOrder'
    BY <1>1, <2>2, <2>3, OrderOfAcksNext, OrderOfAcks, Zenon DEF Order
  <2>5. ThreadsConnected' /\ ToldIsConnected'
    BY <2>3, Zenon DEF Order, ThreadsConnected, ToldIsConnected
  <2>6. PostsReach'
    BY <2>3, Zenon DEF Order, PostsReach
  <2>7. QED
    BY <2>4, <2>5, <2>6 DEF Order
<1>8. QED
  BY <1>3, <1>4, <1>5, <1>6, <1>7, Zenon DEF handle_connection

\* Calls of the application keep Order.
LEMMA CallOrder ==
  ASSUME TypeOK, Order, NEW s \in Side, Calls(s)
  PROVE  Order'
<1> USE SideType
<1>1. CASE Send(s)
  <2>1. \A t \in Side : apc'[t] = apc[t] \/ (connected[t] /\ apc'[t] = "submit")
                        \/ (apc[t] = "idle" /\ apc'[t] = "idle")
    BY <1>1 DEF TypeOK, Send, AppAt
  <2>2. UNCHANGED <<qp, connected, error, inbox, notified, told, wpc, wire, took_over>>
    BY <1>1, Zenon DEF Send, sockVars, tcpVars, connVars
  <2>3. ThreadsConnected'
    BY <2>1, <2>2, Zenon DEF Order, ThreadsConnected
  <2>4. QED
    BY <2>2, <2>3, Zenon DEF Order, HandshakeOrder, ToldIsConnected, PostsReach
<1>2. CASE SendSubmit(s) \/ ReadSubmit(s)
  <2>1. submit(s) /\ apc[s] \in {"submit", "resubmit"}
    BY <1>2, Zenon DEF SendSubmit, ReadSubmit, AppAt
  <2>2. apc' = [apc EXCEPT ![s] = "idle"]
    BY <1>2, Zenon DEF SendSubmit, ReadSubmit
  <2>3. UNCHANGED <<qp, connected, error, inbox, notified, told, wpc, took_over>>
    BY <1>2, Zenon DEF SendSubmit, ReadSubmit, sockVars, tcpVars, connVars
  <2>4. ThreadsConnected'
    <3>1. \A t \in Side : apc'[t] = apc[t] \/ apc'[t] = "idle"
      BY <2>2, Zenon DEF TypeOK
    <3>2. QED
      BY <2>3, <3>1, Zenon DEF Order, ThreadsConnected
  <2>5. PostsReach'
    <3>1. CASE connected[s]
      BY <2>1, <2>3, <3>1, SubmitOrder, Zenon
    <3>2. CASE ~connected[s]
      <4>1. took_over
        BY <2>1, <3>2, Zenon DEF Order, ThreadsConnected
      <4>2. wire'[client] # <<>> => wire[client] # <<>> \/ qp[client] = "RTS"
        <5>1. wire \in [Side -> Seq(Buffers \cup {Fin})]
          BY Zenon DEF TypeOK
        <5>2. wire' = wire \/ post_work_request(s, pending_bl[s])
          BY <2>1, Zenon DEF submit
        <5>3. \/ wire' = wire
              \/ wire' = [wire EXCEPT ![s] = IF qp[s] = "RTS" THEN wire[s] \o pending_bl[s] ELSE wire[s]]
              \/ (wire[s] # <<>> /\ wire' = [wire EXCEPT ![s] = Append(wire[s], wire[s][Len(wire[s])])])
          BY <5>2, Zenon DEF post_work_request
        <5>4. QED
          BY <5>1, <5>3, Zenon
      <4>3. QED
        BY <2>3, <4>1, <4>2, Zenon DEF Order, HandshakeOrder, PostsReach
    <3>3. QED
      BY <3>1, <3>2, Zenon
  <2>6. QED
    BY <2>3, <2>4, <2>5, Zenon DEF Order, HandshakeOrder, ToldIsConnected
<1>3. CASE SendChunks(s)
  <2>1. post_work_request(s, <<next[s] + 1>>) /\ connected[s]
    BY <1>3, Zenon DEF SendChunks
  <2>2. UNCHANGED <<qp, connected, error, inbox, notified, told, wpc, apc, took_over>>
    BY <1>3, Zenon DEF SendChunks, sockVars, tcpVars, connVars
  <2>3. PostsReach'
    BY <2>1, <2>2, PostOrder, Zenon
  <2>4. QED
    BY <2>2, <2>3, Zenon DEF Order, HandshakeOrder, ThreadsConnected, ToldIsConnected
<1>4. CASE Read(s)
  <2>1. UNCHANGED <<qp, wire, inbox, told, wpc>>
    BY <1>4, Zenon DEF Read, sendVars, tcpVars
  <2>2. \A t \in Side : error[t] => error'[t]
    <3>1. PICK e \in BOOLEAN : error' = [error EXCEPT ![s] = error[s] \/ e]
      BY <1>4, Zenon DEF Read
    <3>2. QED
      BY <3>1 DEF TypeOK
  <2>3. \A t \in Side : (connected[t] => connected'[t]) /\ (notified'[t] => notified[t] \/ t = s)
    <3>1. PICK more \in BOOLEAN : notified' = [notified EXCEPT ![s] = notified[s] \/ more]
      BY <1>4, Zenon DEF Read
    <3>2. connected' = connected \/ connected' = [connected EXCEPT ![s] = TRUE]
      BY <1>4, Zenon DEF Read
    <3>3. connected \in [Side -> BOOLEAN] /\ notified \in [Side -> BOOLEAN]
      BY Zenon DEF TypeOK
    <3>4. \A t \in Side : connected[t] => connected'[t]
      BY <3>2, <3>3, Zenon
    <3>5. \A t \in Side : notified'[t] => notified[t] \/ t = s
      BY <3>1, <3>3, Zenon
    <3>6. QED
      BY <3>4, <3>5, Zenon
  <2>4. connected'[s]
    <3>1. (connected[s] /\ connected' = connected) \/ connected' = [connected EXCEPT ![s] = TRUE]
      BY <1>4, Zenon DEF Read
    <3>2. connected \in [Side -> BOOLEAN]
      BY Zenon DEF TypeOK
    <3>3. QED
      BY <3>1, <3>2, Zenon
  <2>5. UNCHANGED <<connected, apc, took_over>> \/ (s = server /\ took_over')
    BY <1>4, Zenon DEF Read, Side
  <2>6. \A t \in Side : apc'[t] = apc[t] \/ (t = s /\ apc'[t] = "close")
    <3>1. apc' = apc \/ apc' = [apc EXCEPT ![s] = "close"]
      BY <1>4, Zenon DEF Read
    <3>2. apc \in [Side -> {"idle", "submit", "close", "delete", "resubmit"}]
      BY Zenon DEF TypeOK
    <3>3. QED
      BY <3>1, <3>2, Zenon
  <2>7. HandshakeOrder'
    BY <2>1, <2>2, <2>3, <2>5, Zenon DEF Order, HandshakeOrder
  <2>8. ThreadsConnected'
    BY <2>1, <2>3, <2>5, <2>6 DEF Order, ThreadsConnected
  <2>9. ToldIsConnected'
    BY <2>1, <2>3, <2>4, Zenon DEF Order, ToldIsConnected
  <2>10. PostsReach'
    BY <2>1, <2>2, <2>5, Zenon DEF Order, PostsReach
  <2>11. QED
    BY <2>7, <2>8, <2>9, <2>10, Zenon DEF Order
<1>5. CASE CleanupClose(s) \/ CleanupDelete(s)
  <2>1. UNCHANGED <<qp, connected, error, inbox, notified, told, wpc, wire, took_over>>
    BY <1>5, Zenon DEF CleanupClose, CleanupDelete, sockVars, sendVars, connVars
  <2>2. /\ apc[s] \in {"close", "delete"}
        /\ \A t \in Side : apc'[t] = apc[t] \/ (t = s /\ apc'[t] \in {"delete", "resubmit"})
    <3>1. apc' = [apc EXCEPT ![s] = "delete"] \/ apc' = [apc EXCEPT ![s] = "resubmit"]
      BY <1>5, Zenon DEF CleanupClose, CleanupDelete
    <3>2. apc[s] \in {"close", "delete"}
      BY <1>5, Zenon DEF CleanupClose, CleanupDelete, AppAt
    <3>3. apc \in [Side -> {"idle", "submit", "close", "delete", "resubmit"}]
      BY DEF TypeOK
    <3>4. QED
      BY <3>1, <3>2, <3>3, Zenon
  <2>3. s = server /\ took_over
    BY <2>2, Zenon DEF Order, ThreadsConnected
  <2>4. ThreadsConnected'
    BY <2>1, <2>2, <2>3, Zenon DEF Order, ThreadsConnected
  <2>5. QED
    BY <2>1, <2>4 DEF Order, HandshakeOrder, ToldIsConnected, PostsReach
<1>6. QED
  BY <1>1, <1>2, <1>3, <1>4, <1>5, Zenon DEF Calls

\* A reset may empty the inboxes and changes nothing else Order is about.
LEMMA BreakOrder ==
  ASSUME TypeOK, Order, BreakTcp, UNCHANGED <<connected, notified, told, wpc, apc, took_over>>,
         \A t \in Side : error[t] => error'[t],
         \A t \in Side : qp'[t] = qp[t] \/ qp'[t] = "ERR",
         \A t \in Side : wire'[t] # <<>> => wire[t] # <<>> \/ (t = client /\ qp[client] = "RTS")
  PROVE  Order'
<1> USE SideType
<1>1. inbox' = inbox \/ inbox' = [t \in Side |-> <<>>]
  BY Zenon DEF BreakTcp
<1>2. (inbox'[client] # <<>> => inbox[client] # <<>>)
      /\ (Acks(inbox'[server]) # {} => Acks(inbox[server]) # {})
  <2>1. Acks(<<>>) = {}
    BY DEF Acks
  <2>2. QED
    BY <1>1, <2>1, Zenon
<1>3. HandshakeOrder'
  BY <1>2, OrderOfAcks, OrderOfAcksNext, Zenon DEF Order
<1>4. ThreadsConnected' /\ ToldIsConnected'
  BY Zenon DEF Order, ThreadsConnected, ToldIsConnected
<1>5. client # server
  BY Zenon DEF client, server
<1>6. PostsReach'
  BY <1>5, Zenon DEF Order, HandshakeOrder, PostsReach
<1>7. QED
  BY <1>3, <1>4, <1>6, Zenon DEF Order

\* Every action keeps Order.
LEMMA OrderStep ==
  ASSUME TypeOK, Order, [Next]_vars
  PROVE  Order'
<1> USE SideType
<1>1. client # server
  BY Zenon DEF client, server
<1>2. ASSUME NEW s \in Side, WorkerSubmit(s)
      PROVE  Order'
  <2>1. submit(s) /\ wpc[s] = "submit"
    BY <1>2, Zenon DEF WorkerSubmit, WorkerIn
  <2>2. connected[s]
    BY <2>1, Zenon DEF Order, ThreadsConnected
  <2>3. UNCHANGED <<qp, connected, error, inbox, told, apc, took_over>>
    BY <1>2, Zenon DEF WorkerSubmit, sockVars, tcpVars
  <2>4. \A t \in Side : wpc'[t] # "loop" => wpc[t] # "loop"
    <3>1. \E x \in {"ack", "loop"} : wpc' = [wpc EXCEPT ![s] = x]
      BY <1>2, Zenon DEF WorkerSubmit
    <3>2. wpc \in [Side -> {"loop", "submit", "ack"}]
      BY Zenon DEF TypeOK
    <3>3. QED
      BY <2>1, <3>1, <3>2, Zenon
  <2>5. \A t \in Side : notified'[t] => notified[t] \/ t = s
    <3>1. notified' = [notified EXCEPT ![s] = notified[s] \/ s = server]
      BY <1>2, Zenon DEF WorkerSubmit
    <3>2. QED
      BY <3>1 DEF TypeOK
  <2>6. PostsReach'
    BY <2>1, <2>2, <2>3, SubmitOrder, Zenon
  <2>7. HandshakeOrder'
    BY <2>3, <2>4, Zenon DEF Order, HandshakeOrder
  <2>8. ThreadsConnected' /\ ToldIsConnected'
    BY <2>2, <2>3, <2>4, <2>5, Zenon DEF Order, ThreadsConnected, ToldIsConnected
  <2>9. QED
    BY <2>6, <2>7, <2>8, Zenon DEF Order
<1>3. ASSUME NEW s \in Side, NotifyEvent(s)
      PROVE  Order'
  <2>1. UNCHANGED <<qp, connected, error, inbox, wpc, apc, wire, took_over>>
    BY <1>3, Zenon DEF NotifyEvent, sockVars, sendVars, tcpVars
  <2>2. \A t \in Side : /\ notified'[t] => notified[t]
                        /\ "read" \in told'[t] => "read" \in told[t] \/ notified[t]
    <3>1. /\ notified[s]
          /\ notified' = [notified EXCEPT ![s] = FALSE]
          /\ told' = [told EXCEPT ![s] = told[s] \cup {"read"}]
      BY <1>3, Zenon DEF NotifyEvent
    <3>2. QED
      BY <3>1, SMTT(30) DEF TypeOK
  <2>3. QED
    BY <2>1, <2>2, Zenon DEF Order, HandshakeOrder, ThreadsConnected, ToldIsConnected, PostsReach
<1>4. ASSUME NEW s \in Side, WriteCallback(s)
      PROVE  Order'
  <2>1. UNCHANGED <<qp, connected, error, inbox, notified, wpc, apc, wire, took_over>>
    BY <1>4, Zenon DEF WriteCallback, sockVars, sendVars, tcpVars
  <2>2. \A t \in Side : "read" \in told'[t] => "read" \in told[t]
    <3>1. told' = [told EXCEPT ![s] = told[s] \cup {"write"}]
      BY <1>4, Zenon DEF WriteCallback
    <3>2. QED
      BY <3>1 DEF TypeOK
  <2>3. QED
    BY <2>1, <2>2, Zenon DEF Order, HandshakeOrder, ThreadsConnected, ToldIsConnected, PostsReach
<1>5. ASSUME handle_connection_established
      PROVE  Order'
  <2>1. UNCHANGED <<qp, told, wpc, apc, wire, took_over>>
    BY <1>5, Zenon DEF handle_connection_established, sendVars
  <2>2. CASE fault(client) /\ UNCHANGED inbox
    BY <2>1, <2>2, FaultOrder, Zenon
  <2>3. CASE /\ inbox' = Delivered(inbox, client, [local_qpn |-> client, peer_qpn |-> NoQpn])
             /\ UNCHANGED <<error, connected, notified>>
    <3> DEFINE m == [local_qpn |-> client, peer_qpn |-> NoQpn]
    <3>1. inbox'[client] = inbox[client]
          /\ (inbox'[server] = inbox[server] \/ inbox'[server] = Append(inbox[server], m))
      BY <1>1, <2>3, Zenon DEF TypeOK, Delivered, Peer
    <3>2. inbox[server] \in Seq(CmMeta) /\ m \in CmMeta /\ m.peer_qpn = NoQpn
      BY MessagesType, Zenon DEF TypeOK
    <3>3. Acks(inbox'[server]) # {} => Acks(inbox[server]) # {}
      BY <3>1, <3>2, AcksAppend, Zenon
    <3>4. HandshakeOrder'
      BY <2>1, <2>3, <3>1, <3>3, OrderOfAcks, OrderOfAcksNext, Zenon DEF Order
    <3>5. QED
      BY <2>1, <2>3, <3>4, Zenon DEF Order, ThreadsConnected, ToldIsConnected, PostsReach
  <2>4. QED
    BY <1>5, <2>2, <2>3, Zenon DEF handle_connection_established
<1>6. ASSUME ClientAck
      PROVE  Order'
  <2> DEFINE m == [local_qpn |-> client, peer_qpn |-> server]
  <2>1. wpc[client] = "ack"
    BY <1>6, Zenon DEF ClientAck, WorkerIn
  <2>2. qp[client] # "INIT" /\ connected[client]
    BY <2>1, Zenon DEF Order, HandshakeOrder, ThreadsConnected
  <2>3. UNCHANGED <<qp, told, apc, wire, took_over>>
    BY <1>6, Zenon DEF ClientAck, ReadHandlerKeeps, sendVars
  <2>4. inbox'[client] = inbox[client]
    <3>1. inbox' = inbox \/ inbox' = Delivered(inbox, client, m)
      BY <1>6, Zenon DEF ClientAck
    <3>2. QED
      BY <1>1, <3>1, SMTT(60) DEF TypeOK, Delivered, Peer
  <2>5. \A t \in Side : /\ error[t] => error'[t]
                        /\ connected'[t] <=> connected[t]
                        /\ notified'[t] => notified[t] \/ t = client
                        /\ wpc'[t] # "loop" => wpc[t] # "loop"
    <3>1. (error' = error /\ connected' = connected)
          \/ (error' = [error EXCEPT ![client] = TRUE] /\ connected' = [connected EXCEPT ![client] = TRUE])
      BY <1>6, Zenon DEF ClientAck, fault
    <3>2. \A t \in Side : (error[t] => error'[t]) /\ (connected'[t] <=> connected[t])
      <4>1. error \in [Side -> BOOLEAN] /\ connected \in [Side -> BOOLEAN]
        BY Zenon DEF TypeOK
      <4>2. CASE error' = error /\ connected' = connected
        BY <4>2, Zenon
      <4>3. CASE error' = [error EXCEPT ![client] = TRUE] /\ connected' = [connected EXCEPT ![client] = TRUE]
        BY <2>2, <4>1, <4>3, Zenon
      <4>4. QED
        BY <3>1, <4>2, <4>3, Zenon
    <3>3. notified' = [notified EXCEPT ![client] = TRUE] /\ wpc' = [wpc EXCEPT ![client] = "loop"]
      BY <1>6, Zenon DEF ClientAck
    <3>4. \A t \in Side : (notified'[t] => notified[t] \/ t = client) /\ (wpc'[t] # "loop" => wpc[t] # "loop")
      BY <3>3 DEF TypeOK
    <3>5. QED
      BY <3>2, <3>4, Zenon
  <2>6. HandshakeOrder'
    BY <2>2, <2>3, <2>4, <2>5, OrderOfAcks, OrderOfAcksNext, Zenon DEF Order
  <2>7. ThreadsConnected' /\ ToldIsConnected'
    BY <2>2, <2>3, <2>5, Zenon DEF Order, ThreadsConnected, ToldIsConnected
  <2>8. PostsReach'
    BY <2>3, <2>5, Zenon DEF Order, PostsReach
  <2>9. QED
    BY <2>6, <2>7, <2>8, Zenon DEF Order
<1>7. ASSUME CloseSocket
      PROVE  Order'
  <2>1. BreakTcp /\ UNCHANGED <<connected, notified, told, wpc, apc, took_over>>
    BY <1>7, Zenon DEF CloseSocket
  <2>2. \A t \in Side : (error[t] => error'[t]) /\ (qp'[t] = qp[t] \/ qp'[t] = "ERR")
    <3>1. error' = [error EXCEPT ![client] = TRUE] /\ qp' = [qp EXCEPT ![client] = "ERR"]
      BY <1>7, Zenon DEF CloseSocket
    <3>2. QED
      BY <3>1, ZenonT(90) DEF TypeOK
  <2>3. \A t \in Side : wire'[t] # <<>> => wire[t] # <<>> \/ (t = client /\ qp[client] = "RTS")
    <3>1. wire' = [wire EXCEPT ![client] = IF ~error[client] /\ qp[client] = "RTS"
                                           THEN Append(wire[client], Fin) ELSE wire[client]]
      BY <1>7, Zenon DEF CloseSocket
    <3>2. wire \in [Side -> Seq(Buffers \cup {Fin})]
      BY Zenon DEF TypeOK
    <3>3. QED
      BY <3>1, <3>2, Zenon
  <2>4. QED
    BY <2>1, <2>2, <2>3, BreakOrder, Zenon
<1>8. ASSUME TcpBreak \/ \E s \in Side : Crash(s)
      PROVE  Order'
  <2>1. BreakTcp /\ UNCHANGED <<connected, notified, told, wpc, apc, error, qp, wire, took_over>>
    BY <1>8, Zenon DEF TcpBreak, Crash, sockVars, sendVars, connVars
  <2>2. QED
    BY <2>1, BreakOrder, Zenon
<1>9. ASSUME \/ \E s \in Side : ClosedHandler(s)
             \/ ProcessConnecting \/ ProcessAccepting \/ Accept \/ Register(server) \/ TcpConnect
             \/ UNCHANGED vars
      PROVE  Order'
  <2>1. UNCHANGED orderVars
    BY <1>9, Zenon DEF orderVars, ClosedHandler, ProcessConnecting, ProcessAccepting, Accept, Register,
                TcpConnect, vars, sockVars, sendVars, tcpVars, connVars
  <2>2. QED
    BY <2>1, OrderUnchanged, Zenon
<1>10. QED
  BY <1>2, <1>3, <1>4, <1>5, <1>6, <1>7, <1>8, <1>9, HandlerOrder, CallOrder, Zenon
  DEF Next, Handlers, ClientSteps, ServerSteps, Environment

LEMMA OrderInit == Init => Order
<1> SUFFICES ASSUME Init
             PROVE  Order
  BY Zenon
<1>1. HandshakeOrder /\ PostsReach
  BY SideType, SMTT(30) DEF Init, HandshakeOrder, PostsReach
<1>2. ThreadsConnected /\ ToldIsConnected
  BY Zenon DEF Init, ThreadsConnected, ToldIsConnected
<1>3. QED
  BY <1>1, <1>2, Zenon DEF Order

\* The inductive invariant of the handshake.
IInv == TypeOK /\ Order

\* Wherever the handshake stands, in any interleaving of the workers with the
\* threads of the applications and with crashes, resets and closes, the types
\* and the order of the handshake are kept.
THEOREM HandshakeInvariant == Spec => []IInv
<1>1. Init => IInv
  BY TypeInit, OrderInit, Zenon DEF IInv
<1>2. IInv /\ [Next]_vars => IInv'
  BY TypeStep, OrderStep, Zenon DEF IInv
<1>3. QED
  BY <1>1, <1>2, PTL DEF Spec

\* activate() and the three messages keep the two sides in step: what one has
\* reached tells that the other's queue pair is open.
THEOREM HandshakeOrdered == Spec => []HandshakeOrder
<1>1. IInv => HandshakeOrder
  BY Zenon DEF IInv, Order
<1>2. QED
  BY <1>1, HandshakeInvariant, PTL

\* An application that waits for its read callback never reads from a socket
\* that is not connected, so read() never takes the handshake over.
THEOREM CallbackMeansConnected == Spec => []ToldIsConnected
<1>1. IInv => ToldIsConnected
  BY Zenon DEF IInv, Order
<1>2. QED
  BY <1>1, HandshakeInvariant, PTL

\* A socket without an error posts only to a peer whose queue pair has left
\* INIT, unless read() has ended the handshake of a server that was not told
\* to read.
THEOREM PostsReachPeer == Spec => []HealthyPostsReach
<1>1. IInv => HealthyPostsReach
  BY Zenon DEF IInv, Order, PostsReach, HealthyPostsReach, Healthy, Side, Peer, client, server
<1>2. QED
  BY <1>1, HandshakeInvariant, PTL

-----------------------------------------------------------------------------
(* The life of the two sockets, their messages and their buffers *)

\* How far the socket of each side has come.  A connected socket without an
\* error has an open queue pair; only the client's is ever destroyed, and then
\* its descriptor has no callback; the client's acknowledgement leaves, and
\* its worker is inside activate(), only when the server's queue pair is open.
Life ==
  /\ qp[server] # "ERR"
  /\ active[server] <=> qp[server] = "RTS"
  /\ error[server] \/ took_over => connected[server]
  /\ qp[client] = "RTS" => connected[client]
  /\ error[client] => connected[client] \/ qp[client] = "ERR"
  /\ qp[client] = "ERR" => /\ state[client] = "CLOSED" /\ handler[client] = "none"
                           /\ error[client] /\ wpc[client] = "loop"
  /\ \A s \in Side : connected[s] /\ ~error[s] => qp[s] = "RTS"
  /\ wpc[client] # "loop" \/ Acks(inbox[server]) # {} => qp[server] # "INIT"

\* No more than one message is under way to a side: the server answers once,
\* and what it gets after that is the acknowledgement, sent by a client that
\* is connected and past activate().  So an event for each message is enough.
Messages ==
  /\ \A s \in Side : Len(inbox[s]) <= 1
  /\ state[client] = "CONNECTING" => handler[client] = "none"
  /\ state[client] = "CONNECTING" \/ handler[client] = "established" =>
       inbox[server] = <<>> /\ qp[server] = "INIT"
  /\ qp[server] # "INIT" /\ inbox[server] # <<>> => connected[client] /\ wpc[client] = "loop"
  /\ NoLostEdge

Items(q) == {q[i] : i \in 1 .. Len(q)}

\* Where the buffers are that the application has handed over.  A buffer that
\* waits in a connected socket has a thread that is about to post it.
SendsOf(s) ==
  /\ Items(pending_bl[s]) \subseteq 1 .. next[s]
  /\ Items(wire[s]) \subseteq 0 .. next[s]
  /\ ~error[s] => 1 .. next[s] \subseteq Items(pending_bl[s]) \cup Items(wire[s])
  /\ pending_bl[s] # <<>> => pending_len[s] # 0
  /\ connected[s] /\ ~error[s] /\ pending_bl[s] # <<>> => wpc[s] = "submit" \/ apc[s] # "idle"
Sends == \A s \in Side : SendsOf(s)

\* Sequences of no more than one message
LEMMA OneMessage ==
  ASSUME NEW q \in Seq(CmMeta), Len(q) <= 1, NEW m \in CmMeta
  PROVE  /\ q # <<>> => Tail(q) = <<>>
         /\ Append(<<>>, m) \in Seq(CmMeta) /\ Len(Append(<<>>, m)) <= 1 /\ Append(<<>>, m) # <<>>
         /\ Len(<<>>) <= 1
OBVIOUS

LEMMA NoAcks == Acks(<<>>) = {}
<1>1. ~ \E i \in 1 .. Len(<<>>) : TRUE
  OBVIOUS
<1>2. QED
  BY <1>1, Zenon DEF Acks

LEMMA TwoSides == client # server /\ \A s \in Side : s = client \/ s = server
BY Zenon DEF Side, client, server

\* What the paths of handle_connection do when one message at most is there
LEMMA FaultEffect ==
  ASSUME TypeOK, Messages, NEW s \in Side, RecvFailed(s) \/ LateMessage(s)
  PROVE  /\ fault(s) /\ inbox'[s] = <<>>
         /\ \A t \in Side \ {s} : inbox'[t] = inbox[t] /\ edge'[t] = edge[t]
         /\ UNCHANGED <<qp, active, sendVars, handler, state, wpc, apc, took_over>>
<1>1. /\ fault(s) /\ edge' = [edge EXCEPT ![s] = FALSE]
      /\ UNCHANGED <<qp, active, sendVars, handler, state, wpc, apc, took_over>>
  BY Zenon DEF RecvFailed, LateMessage, ReadHandlerKeeps
<1>2. \/ inbox[s] = <<>> /\ inbox' = inbox
      \/ inbox[s] # <<>> /\ inbox' = [inbox EXCEPT ![s] = Tail(inbox[s])]
  BY Zenon DEF RecvFailed, LateMessage, Received
<1>3. inbox[s] \in Seq(CmMeta) /\ Len(inbox[s]) <= 1 /\ inbox \in [Side -> Seq(CmMeta)]
      /\ edge \in [Side -> BOOLEAN]
  BY Zenon DEF TypeOK, Messages
<1>4. inbox[s] # <<>> => Tail(inbox[s]) = <<>>
  BY <1>3, MessagesType, OneMessage, Zenon
<1>5. inbox'[s] = <<>> /\ \A t \in Side \ {s} : inbox'[t] = inbox[t] /\ edge'[t] = edge[t]
  BY <1>1, <1>2, <1>3, <1>4, Zenon
<1>6. QED
  BY <1>1, <1>5, Zenon

LEMMA ClientActivateEffect ==
  ASSUME TypeOK, Messages, ClientActivate
  PROVE  /\ inbox[client] # <<>> /\ handler[client] = "read" /\ ~connected[client]
         /\ qp' = [qp EXCEPT ![client] = "RTS"]
         /\ connected' = [connected EXCEPT ![client] = TRUE]
         /\ wpc' = [wpc EXCEPT ![client] = "submit"]
         /\ inbox'[client] = <<>> /\ inbox'[server] = inbox[server] /\ edge'[server] = edge[server]
         /\ UNCHANGED <<active, error, sendVars, handler, state, apc, took_over>>
<1> USE SideType, TwoSides
<1>1. /\ inbox[client] # <<>> /\ handler[client] = "read" /\ ~connected[client]
      /\ qp' = [qp EXCEPT ![client] = "RTS"]
      /\ connected' = [connected EXCEPT ![client] = TRUE]
      /\ wpc' = [wpc EXCEPT ![client] = "submit"]
      /\ inbox' = [inbox EXCEPT ![client] = Tail(inbox[client])]
      /\ edge' = [edge EXCEPT ![client] = FALSE]
      /\ UNCHANGED <<active, error, sendVars, handler, state, apc, took_over>>
  BY Zenon DEF ClientActivate, Received, TcpEvent, ReadHandlerKeeps
<1>2. /\ inbox[client] \in Seq(CmMeta) /\ Len(inbox[client]) <= 1 /\ inbox \in [Side -> Seq(CmMeta)]
      /\ edge \in [Side -> BOOLEAN]
  BY Zenon DEF TypeOK, Messages
<1>3. Tail(inbox[client]) = <<>>
  BY <1>1, <1>2, MessagesType, OneMessage, Zenon
<1>4. inbox'[client] = <<>> /\ inbox'[server] = inbox[server] /\ edge'[server] = edge[server]
  BY <1>1, <1>2, <1>3, Zenon
<1>5. QED
  BY <1>1, <1>4, Zenon

LEMMA ServerActivateEffect ==
  ASSUME TypeOK, Messages, ServerActivate
  PROVE  /\ inbox[server] # <<>> /\ ~connected[server]
         /\ qp' = [qp EXCEPT ![server] = "RTS"]
         /\ active' = [active EXCEPT ![server] = TRUE]
         /\ inbox'[server] = <<>>
         /\ \/ /\ ~active[server] /\ UNCHANGED <<connected, error>>
               /\ \/ inbox'[client] = inbox[client] /\ edge'[client] = edge[client]
                  \/ /\ inbox'[client] = Append(inbox[client], [local_qpn |-> server, peer_qpn |-> client])
                     /\ edge'[client]
            \/ /\ inbox'[client] = inbox[client] /\ edge'[client] = edge[client]
               /\ \/ active[server] /\ UNCHANGED <<connected, error>>
                  \/ ~active[server] /\ fault(server)
         /\ UNCHANGED <<sendVars, handler, state, wpc, apc, took_over>>
<1> USE SideType, TwoSides
<1> DEFINE box == [inbox EXCEPT ![server] = Tail(inbox[server])]
           ev  == [edge EXCEPT ![server] = FALSE]
           m   == [local_qpn |-> server, peer_qpn |-> client]
<1>1. /\ inbox[server] # <<>> /\ ~connected[server]
      /\ qp' = [qp EXCEPT ![server] = "RTS"]
      /\ active' = [active EXCEPT ![server] = TRUE]
      /\ UNCHANGED <<sendVars, handler, state, wpc, apc, took_over>>
  BY Zenon DEF ServerActivate, Received, ReadHandlerKeeps
<1>2. \/ /\ ~active[server] /\ UNCHANGED <<connected, error>>
         /\ inbox' = Delivered(box, server, m) /\ edge' = Raised(ev, server)
      \/ /\ inbox' = box /\ edge' = ev
         /\ \/ active[server] /\ UNCHANGED <<connected, error>>
            \/ ~active[server] /\ fault(server)
  BY Zenon DEF ServerActivate
<1>3. /\ inbox[server] \in Seq(CmMeta) /\ Len(inbox[server]) <= 1 /\ inbox \in [Side -> Seq(CmMeta)]
      /\ edge \in [Side -> BOOLEAN]
  BY Zenon DEF TypeOK, Messages
<1>4. Tail(inbox[server]) = <<>>
  BY <1>1, <1>3, MessagesType, OneMessage, Zenon
<1>5. /\ box \in [Side -> Seq(CmMeta)] /\ box[server] = <<>> /\ box[client] = inbox[client]
      /\ ev \in [Side -> BOOLEAN] /\ ev[client] = edge[client]
  <2>1. <<>> \in Seq(CmMeta)
    OBVIOUS
  <2>2. QED
    BY <1>3, <1>4, <2>1, Zenon
<1> HIDE DEF box, ev, m
<1>6. \/ Delivered(box, server, m) = box /\ Raised(ev, server) = [ev EXCEPT ![server] = TRUE]
      \/ /\ Delivered(box, server, m) = [box EXCEPT ![client] = Append(box[client], m)]
         /\ Raised(ev, server) = [ev EXCEPT ![client] = TRUE]
  BY Zenon DEF Delivered, Raised, Peer
<1>7. \/ Delivered(box, server, m)[client] = inbox[client] /\ Raised(ev, server)[client] = edge[client]
      \/ Delivered(box, server, m)[client] = Append(inbox[client], m) /\ Raised(ev, server)[client]
  BY <1>5, <1>6, ZenonT(90)
<1>8. Delivered(box, server, m)[server] = <<>>
  BY <1>5, <1>6, Zenon
<1>9. QED
  BY <1>1, <1>2, <1>5, <1>7, <1>8, Zenon DEF m

LEMMA ServerConnectedEffect ==
  ASSUME TypeOK, Messages, ServerConnected
  PROVE  /\ Acks(inbox[server]) # {} /\ ~connected[server]
         /\ connected' = [connected EXCEPT ![server] = TRUE]
         /\ wpc' = [wpc EXCEPT ![server] = "submit"]
         /\ inbox'[server] = <<>> /\ inbox'[client] = inbox[client] /\ edge'[client] = edge[client]
         /\ UNCHANGED <<qp, active, error, sendVars, handler, state, apc, took_over>>
<1> USE SideType, TwoSides
<1>1. /\ inbox[server] # <<>> /\ Head(inbox[server]).peer_qpn # NoQpn /\ ~connected[server]
      /\ connected' = [connected EXCEPT ![server] = TRUE]
      /\ wpc' = [wpc EXCEPT ![server] = "submit"]
      /\ inbox' = [inbox EXCEPT ![server] = Tail(inbox[server])]
      /\ edge' = [edge EXCEPT ![server] = FALSE]
      /\ UNCHANGED <<qp, active, error, sendVars, handler, state, apc, took_over>>
  BY Zenon DEF ServerConnected, Received, ReadHandlerKeeps
<1>2. /\ inbox[server] \in Seq(CmMeta) /\ Len(inbox[server]) <= 1 /\ inbox \in [Side -> Seq(CmMeta)]
      /\ edge \in [Side -> BOOLEAN]
  BY Zenon DEF TypeOK, Messages
<1>3. Tail(inbox[server]) = <<>>
  BY <1>1, <1>2, MessagesType, OneMessage, Zenon
<1>4. inbox'[server] = <<>> /\ inbox'[client] = inbox[client] /\ edge'[client] = edge[client]
  BY <1>1, <1>2, <1>3, Zenon
<1>5. Acks(inbox[server]) # {}
  BY <1>1, <1>2, AcksHead, Zenon
<1>6. QED
  BY <1>1, <1>4, <1>5, Zenon

\* Steps that leave the sockets alone: no acknowledgement is new, and a
\* destroyed socket keeps its descriptor without a callback.
LEMMA LifeFrame ==
  ASSUME Life, UNCHANGED <<qp, active, connected, error, took_over>>,
         qp[client] = "ERR" => state'[client] = "CLOSED" /\ handler'[client] = "none",
         wpc'[client] # "loop" => wpc[client] # "loop",
         Acks(inbox'[server]) # {} => Acks(inbox[server]) # {}
  PROVE  Life'
BY Zenon DEF Life, Acks

\* fault() keeps Life: `error` comes with `connected`.
LEMMA LifeFault ==
  ASSUME TypeOK, Life, NEW s \in Side, fault(s), UNCHANGED <<qp, took_over, state>>,
         active'[server] = active[server], handler'[client] \in {handler[client], "none"},
         wpc'[client] # "loop" => wpc[client] # "loop",
         Acks(inbox'[server]) # {} => Acks(inbox[server]) # {}
  PROVE  Life'
<1>1. \A t \in Side : /\ connected'[t] <=> (connected[t] \/ t = s)
                      /\ error'[t] <=> (error[t] \/ t = s)
  BY ZenonT(90) DEF TypeOK, fault
<1>2. /\ error'[server] \/ took_over' => connected'[server]
      /\ qp'[client] = "RTS" => connected'[client]
      /\ error'[client] => connected'[client] \/ qp'[client] = "ERR"
      /\ \A t \in Side : connected'[t] /\ ~error'[t] => qp'[t] = "RTS"
  BY <1>1, SideType, Zenon DEF Life
<1>3. /\ qp'[server] # "ERR" /\ (active'[server] <=> qp'[server] = "RTS")
      /\ qp'[client] = "ERR" => /\ state'[client] = "CLOSED" /\ handler'[client] = "none"
                                /\ error'[client] /\ wpc'[client] = "loop"
  BY <1>1, SideType, Zenon DEF Life
<1>4. wpc'[client] # "loop" \/ Acks(inbox'[server]) # {} => qp'[server] # "INIT"
  BY Zenon DEF Life
<1>5. QED
  BY <1>2, <1>3, <1>4, Zenon DEF Life, Acks

\* Reset or not, no acknowledgement is new.
LEMMA BreakAcks ==
  ASSUME BreakTcp
  PROVE  /\ \A t \in Side : inbox'[t] = inbox[t] \/ inbox'[t] = <<>>
         /\ Acks(inbox'[server]) # {} => Acks(inbox[server]) # {}
<1>1. inbox' = inbox \/ inbox' = [t \in Side |-> <<>>]
  BY Zenon DEF BreakTcp
<1>2. \A t \in Side : inbox'[t] = inbox[t] \/ inbox'[t] = <<>>
  BY <1>1, Zenon
<1>3. QED
  BY <1>2, NoAcks, SideType, Zenon

\* The handlers of tcp_fd keep Life.
LEMMA HandlerLife ==
  ASSUME TypeOK, Order, Life, Messages, NEW s \in Side, handle_connection(s)
  PROVE  Life'
<1> USE SideType, TwoSides, NoAcks
<1>1. CASE RecvFailed(s) \/ LateMessage(s)
  <2>1. /\ fault(s) /\ inbox'[s] = <<>> /\ (s # server => inbox'[server] = inbox[server])
        /\ UNCHANGED <<qp, active, handler, state, wpc, took_over>>
    BY <1>1, FaultEffect, Zenon
  <2>2. QED
    BY <2>1, LifeFault, Zenon
<1>2. CASE ClientActivate
  <2>1. /\ inbox[client] # <<>> /\ handler[client] = "read"
        /\ qp' = [qp EXCEPT ![client] = "RTS"] /\ connected' = [connected EXCEPT ![client] = TRUE]
        /\ wpc' = [wpc EXCEPT ![client] = "submit"] /\ inbox'[server] = inbox[server]
        /\ UNCHANGED <<active, error, handler, state, took_over>>
    BY <1>2, ClientActivateEffect, Zenon
  <2>2. qp[server] # "INIT"
    BY <2>1, Zenon DEF Order, HandshakeOrder
  <2>3. /\ qp'[client] = "RTS" /\ qp'[server] = qp[server] /\ wpc'[client] = "submit"
        /\ connected'[client] /\ connected'[server] = connected[server]
    BY <2>1, ZenonT(90) DEF TypeOK
  <2>4. QED
    BY <2>1, <2>2, <2>3, Zenon DEF Life, Acks
<1>3. CASE ServerActivate
  <2>1. /\ ~connected[server] /\ qp' = [qp EXCEPT ![server] = "RTS"]
        /\ active' = [active EXCEPT ![server] = TRUE] /\ inbox'[server] = <<>>
        /\ (UNCHANGED <<connected, error>> \/ fault(server))
        /\ UNCHANGED <<handler, state, wpc, took_over>>
    BY <1>3, ServerActivateEffect, Zenon
  <2>2. qp'[server] = "RTS" /\ qp'[client] = qp[client] /\ active'[server]
    BY <2>1, ZenonT(90) DEF TypeOK
  <2>3. /\ connected'[client] = connected[client] /\ error'[client] = error[client]
        /\ (error'[server] => connected'[server]) /\ ~took_over
    <3>1. ~error[server] /\ ~took_over
      BY <2>1, Zenon DEF Life
    <3>2. CASE fault(server)
      <4>1. connected'[client] = connected[client] /\ error'[client] = error[client] /\ connected'[server]
        BY <3>2, ZenonT(90) DEF TypeOK, fault
      <4>2. QED
        BY <3>1, <4>1, Zenon
    <3>3. QED
      BY <2>1, <3>1, <3>2, Zenon
  <2>4. QED
    BY <2>1, <2>2, <2>3, Zenon DEF Life, Acks
<1>4. CASE ServerConnected
  <2>1. /\ Acks(inbox[server]) # {} /\ connected' = [connected EXCEPT ![server] = TRUE]
        /\ wpc' = [wpc EXCEPT ![server] = "submit"] /\ inbox'[server] = <<>>
        /\ UNCHANGED <<qp, active, error, handler, state, took_over>>
    BY <1>4, ServerConnectedEffect, Zenon
  <2>2. qp[server] = "RTS"
    <3>1. qp[server] \in {"INIT", "RTS", "ERR"}
      BY Zenon DEF TypeOK
    <3>2. QED
      BY <2>1, <3>1, Zenon DEF Life
  <2>3. wpc'[client] = wpc[client] /\ connected'[client] = connected[client] /\ connected'[server]
    BY <2>1, ZenonT(90) DEF TypeOK
  <2>4. QED
    BY <2>1, <2>2, <2>3, Zenon DEF Life, Acks
<1>5. QED
  BY <1>1, <1>2, <1>3, <1>4, Zenon DEF handle_connection

\* What the other steps do that change a socket or send a message
LEMMA EstablishedEffect ==
  ASSUME TypeOK, Messages, handle_connection_established
  PROVE  /\ handler[client] = "established" /\ inbox'[client] = inbox[client]
         /\ handler'[server] = handler[server]
         /\ UNCHANGED <<qp, active, sendVars, state, wpc, apc, took_over>>
         /\ \/ /\ UNCHANGED <<error, connected>>
               /\ handler'[client] = "read" /\ (inbox[client] # <<>> => edge'[client])
               /\ \/ inbox'[server] = inbox[server] /\ edge'[server] = edge[server]
                  \/ /\ inbox'[server] = Append(<<>>, [local_qpn |-> client, peer_qpn |-> NoQpn])
                     /\ edge'[server]
            \/ /\ fault(client) /\ handler'[client] = "none"
               /\ inbox'[server] = inbox[server] /\ edge'[server] = edge[server]
<1> USE SideType, TwoSides
<1> DEFINE m == [local_qpn |-> client, peer_qpn |-> NoQpn]
           ev == [edge EXCEPT ![client] = Readable(client)]
<1>1. /\ handler[client] = "established"
      /\ UNCHANGED <<qp, active, sendVars, state, wpc, apc, took_over>>
      /\ \/ /\ inbox' = Delivered(inbox, client, m) /\ edge' = Raised(ev, client)
            /\ handler' = [handler EXCEPT ![client] = "read"] /\ UNCHANGED <<error, connected>>
         \/ /\ fault(client) /\ handler' = [handler EXCEPT ![client] = "none"]
            /\ edge' = [edge EXCEPT ![client] = FALSE] /\ inbox' = inbox
  BY Zenon DEF handle_connection_established, TcpEvent
<1>2. /\ inbox \in [Side -> Seq(CmMeta)] /\ edge \in [Side -> BOOLEAN] /\ inbox[server] = <<>>
      /\ handler \in [Side -> {"none", "established", "read", "closed"}]
  BY <1>1, Zenon DEF TypeOK, Messages
<1>3. /\ ev \in [Side -> BOOLEAN] /\ ev[server] = edge[server]
      /\ inbox[client] # <<>> => ev[client]
  BY <1>2, Zenon DEF Readable
<1> HIDE DEF m, ev
<1>4. \/ Delivered(inbox, client, m) = inbox /\ Raised(ev, client) = [ev EXCEPT ![client] = TRUE]
      \/ /\ Delivered(inbox, client, m) = [inbox EXCEPT ![server] = Append(inbox[server], m)]
         /\ Raised(ev, client) = [ev EXCEPT ![server] = TRUE]
  BY Zenon DEF Delivered, Raised, Peer
<1>5. /\ Delivered(inbox, client, m)[client] = inbox[client]
      /\ inbox[client] # <<>> => Raised(ev, client)[client]
      /\ \/ /\ Delivered(inbox, client, m)[server] = inbox[server]
            /\ Raised(ev, client)[server] = edge[server]
         \/ Delivered(inbox, client, m)[server] = Append(<<>>, m) /\ Raised(ev, client)[server]
  <2>1. Delivered(inbox, client, m)[client] = inbox[client]
    BY <1>2, <1>4, Zenon
  <2>2. inbox[client] # <<>> => Raised(ev, client)[client]
    BY <1>3, <1>4, Zenon
  <2>3. \/ /\ Delivered(inbox, client, m)[server] = inbox[server]
           /\ Raised(ev, client)[server] = edge[server]
        \/ Delivered(inbox, client, m)[server] = Append(<<>>, m) /\ Raised(ev, client)[server]
    BY <1>2, <1>3, <1>4, ZenonT(90)
  <2>4. QED
    BY <2>1, <2>2, <2>3, Zenon
<1>6. QED
  BY <1>1, <1>2, <1>5, Zenon DEF m

LEMMA AckEffect ==
  ASSUME TypeOK, Life, Messages, ClientAck
  PROVE  /\ wpc[client] = "ack" /\ wpc' = [wpc EXCEPT ![client] = "loop"]
         /\ inbox[server] = <<>> /\ inbox'[client] = inbox[client]
         /\ edge[client] => edge'[client]
         /\ active'[server] = active[server]
         /\ UNCHANGED <<qp, sendVars, handler, state, apc, took_over>>
         /\ \/ /\ UNCHANGED <<error, connected>>
               /\ \/ inbox'[server] = inbox[server] /\ edge'[server] = edge[server]
                  \/ /\ inbox'[server] = Append(<<>>, [local_qpn |-> client, peer_qpn |-> server])
                     /\ edge'[server]
            \/ /\ fault(client)
               /\ inbox'[server] = inbox[server] /\ edge'[server] = edge[server]
<1> USE SideType, TwoSides
<1> DEFINE m == [local_qpn |-> client, peer_qpn |-> server]
<1>1. /\ wpc[client] = "ack" /\ wpc' = [wpc EXCEPT ![client] = "loop"]
      /\ active' = [active EXCEPT ![client] = TRUE]
      /\ UNCHANGED <<qp, sendVars, handler, state, apc, took_over>>
      /\ \/ /\ inbox' = Delivered(inbox, client, m) /\ edge' = Raised(edge, client)
            /\ UNCHANGED <<error, connected>>
         \/ fault(client) /\ UNCHANGED <<inbox, edge>>
  BY Zenon DEF ClientAck, WorkerIn, ReadHandlerKeeps
<1>2. inbox \in [Side -> Seq(CmMeta)] /\ edge \in [Side -> BOOLEAN] /\ active \in [Side -> BOOLEAN]
  BY Zenon DEF TypeOK
<1>3. inbox[server] = <<>>
  BY <1>1, Zenon DEF Life, Messages
<1> HIDE DEF m
<1>4. \/ Delivered(inbox, client, m) = inbox /\ Raised(edge, client) = [edge EXCEPT ![client] = TRUE]
      \/ /\ Delivered(inbox, client, m) = [inbox EXCEPT ![server] = Append(inbox[server], m)]
         /\ Raised(edge, client) = [edge EXCEPT ![server] = TRUE]
  BY Zenon DEF Delivered, Raised, Peer
<1>5. /\ Delivered(inbox, client, m)[client] = inbox[client]
      /\ edge[client] => Raised(edge, client)[client]
      /\ \/ /\ Delivered(inbox, client, m)[server] = inbox[server]
            /\ Raised(edge, client)[server] = edge[server]
         \/ Delivered(inbox, client, m)[server] = Append(<<>>, m) /\ Raised(edge, client)[server]
  BY <1>2, <1>3, <1>4, ZenonT(90)
<1>6. active'[server] = active[server]
  BY <1>1, <1>2, Zenon
<1>7. QED
  BY <1>1, <1>3, <1>5, <1>6, Zenon DEF m

LEMMA ReadEffect ==
  ASSUME TypeOK, NEW s \in Side, Read(s)
  PROVE  /\ active[s] /\ (s = client => connected[s])
         /\ UNCHANGED <<qp, active, sendVars, tcpVars, state, wpc>>
         /\ error[s] => error'[s]
         /\ \A t \in Side \ {s} : error'[t] = error[t]
         /\ \/ connected[s] /\ UNCHANGED <<connected, apc, took_over>>
            \/ /\ ~connected[s] /\ s = server /\ error'[s] = error[s]
               /\ connected' = [connected EXCEPT ![s] = TRUE]
               /\ apc' = [apc EXCEPT ![s] = "close"]
               /\ took_over' = TRUE
<1>1. /\ active[s] /\ (s = client => connected[s])
      /\ UNCHANGED <<qp, active, sendVars, tcpVars, state, wpc>>
      /\ \/ connected[s] /\ UNCHANGED <<connected, apc, took_over>>
         \/ /\ ~connected[s]
            /\ connected' = [connected EXCEPT ![s] = TRUE]
            /\ apc' = [apc EXCEPT ![s] = "close"]
            /\ took_over' = TRUE
  BY Zenon DEF Read
<1>2. PICK n \in received[s] .. Len(wire[Peer(s)]) :
        error' = [error EXCEPT ![s] =
            error[s] \/ /\ connected[s]
                        /\ \E i \in received[s] + 1 .. n : wire[Peer(s)][i] = Fin]
  BY Zenon DEF Read
<1>3. error \in [Side -> BOOLEAN] /\ connected[s] \in BOOLEAN
  BY Zenon DEF TypeOK
<1>4. /\ error'[s] <=> (error[s] \/ (connected[s] /\ \E i \in received[s] + 1 .. n : wire[Peer(s)][i] = Fin))
      /\ \A t \in Side \ {s} : error'[t] = error[t]
      /\ error'[s] \in BOOLEAN
  BY <1>2, <1>3, Zenon
<1>5. ~connected[s] => s = server /\ error'[s] = error[s]
  BY <1>1, <1>3, <1>4, TwoSides, Zenon
<1>6. QED
  BY <1>1, <1>4, <1>5, Zenon

LEMMA CloseEffect ==
  ASSUME TypeOK, CloseSocket
  PROVE  /\ wpc[client] = "loop" /\ qp'[client] = "ERR" /\ qp'[server] = qp[server]
         /\ error'[client] /\ error'[server] = error[server]
         /\ active'[server] = active[server]
         /\ handler'[client] = "none" /\ handler'[server] = handler[server]
         /\ state'[client] = "CLOSED"
         /\ wire'[server] = wire[server] /\ wire'[client] \in {wire[client], Append(wire[client], Fin)}
         /\ BreakTcp
         /\ UNCHANGED <<connected, pending_bl, pending_len, next, wpc, apc, took_over>>
<1> USE SideType, TwoSides
<1>1. /\ wpc[client] = "loop" /\ BreakTcp
      /\ wire' = [wire EXCEPT ![client] =
                    IF ~error[client] /\ qp[client] = "RTS" THEN Append(@, Fin) ELSE @]
      /\ error' = [error EXCEPT ![client] = TRUE]
      /\ active' = [active EXCEPT ![client] = FALSE]
      /\ handler' = [handler EXCEPT ![client] = "none"]
      /\ qp' = [qp EXCEPT ![client] = "ERR"]
      /\ state' = [state EXCEPT ![client] = "CLOSED"]
      /\ UNCHANGED <<connected, pending_bl, pending_len, next, wpc, apc, took_over>>
  BY Zenon DEF CloseSocket, WorkerFree
<1>2. wire'[server] = wire[server] /\ wire'[client] \in {wire[client], Append(wire[client], Fin)}
  BY <1>1, ZenonT(90) DEF TypeOK
<1>3. QED
  BY <1>1, <1>2, ZenonT(90) DEF TypeOK

\* Every step keeps Life.
LEMMA LifeStep ==
  ASSUME TypeOK, Order, Life, Messages, [Next]_vars
  PROVE  Life'
<1> USE SideType, TwoSides, NoAcks
<1>1. ASSUME \/ \E s \in Side : ClosedHandler(s) \/ WriteCallback(s) \/ Send(s) \/ SendSubmit(s)
                                \/ SendChunks(s) \/ ReadSubmit(s)
             \/ TcpConnect \/ UNCHANGED vars
      PROVE  Life'
  <2>1. UNCHANGED <<qp, active, connected, error, took_over, state, handler, wpc, inbox>>
    BY <1>1, Zenon DEF ClosedHandler, WriteCallback, Send, SendSubmit, SendChunks, ReadSubmit, TcpConnect,
                       vars, sockVars, tcpVars, connVars
  <2>2. QED
    BY <2>1, Zenon DEF Life, Acks
<1>2. ASSUME \/ \E s \in Side : NotifyEvent(s) \/ CleanupClose(s) \/ CleanupDelete(s)
             \/ Accept \/ Register(server) \/ ProcessConnecting \/ ProcessAccepting
      PROVE  Life'
  <2>1. UNCHANGED <<qp, active, connected, error, took_over, wpc, inbox>>
    BY <1>2, Zenon DEF NotifyEvent, CleanupClose, CleanupDelete, Accept, Register, ProcessConnecting,
                       ProcessAccepting, sockVars, tcpVars
  <2>2. ASSUME state[client] = "CLOSED", handler[client] = "none"
        PROVE  state'[client] = "CLOSED" /\ handler'[client] = "none"
    <3>1. /\ state \in [Side -> {"NONE", "CONNECTING", "CONNECTING_RE", "ACCEPTING", "ESTABLISHED", "CLOSED"}]
          /\ handler \in [Side -> {"none", "established", "read", "closed"}]
      BY Zenon DEF TypeOK
    <3>2. CASE \E s \in Side : NotifyEvent(s)
      BY <2>2, <3>1, <3>2, Zenon DEF NotifyEvent, tcpVars
    <3>3. CASE \E s \in Side : CleanupClose(s) \/ CleanupDelete(s)
      <4>1. PICK s \in Side : \/ handler' = [handler EXCEPT ![s] = "none"]
                              \/ handler' = [handler EXCEPT ![s] = IF handler[s] = "read" THEN "closed" ELSE handler[s]]
        BY <3>3, Zenon DEF CleanupClose, CleanupDelete
      <4>2. state' = state
        BY <3>3, Zenon DEF CleanupClose, CleanupDelete, connVars
      <4>3. handler'[client] = "none"
        BY <2>2, <3>1, <4>1, Zenon
      <4>4. QED
        BY <2>2, <4>2, <4>3, Zenon
    <3>4. CASE Accept \/ Register(server) \/ ProcessAccepting
      BY <2>2, <3>1, <3>4, Zenon DEF Accept, Register, ProcessAccepting, tcpVars
    <3>5. CASE ProcessConnecting
      BY <2>2, <3>5, Zenon DEF ProcessConnecting
    <3>6. QED
      BY <1>2, <3>2, <3>3, <3>4, <3>5, Zenon
  <2>3. QED
    BY <2>1, <2>2, LifeFrame, Zenon DEF Life
<1>3. ASSUME NEW s \in Side, WorkerSubmit(s)
      PROVE  Life'
  <2>1. /\ wpc[s] = "submit" /\ wpc' = [wpc EXCEPT ![s] = IF s = client THEN "ack" ELSE "loop"]
        /\ UNCHANGED <<qp, active, connected, error, took_over, state, handler, inbox>>
    BY <1>3, Zenon DEF WorkerSubmit, WorkerIn, sockVars, tcpVars
  <2>2. wpc'[client] # "loop" => wpc[client] # "loop"
    BY <2>1, Zenon DEF TypeOK
  <2>3. QED
    BY <2>1, <2>2, LifeFrame, Zenon DEF Life
<1>4. ASSUME TcpBreak \/ \E s \in Side : Crash(s)
      PROVE  Life'
  <2>1. BreakTcp /\ UNCHANGED <<qp, active, connected, error, took_over, state, handler, wpc>>
    BY <1>4, Zenon DEF TcpBreak, Crash, sockVars, connVars
  <2>2. QED
    BY <2>1, BreakAcks, LifeFrame, Zenon DEF Life
<1>5. ASSUME handle_connection_established
      PROVE  Life'
  <2> DEFINE m == [local_qpn |-> client, peer_qpn |-> NoQpn]
  <2>1. /\ handler[client] = "established" /\ UNCHANGED <<qp, active, state, wpc, took_over>>
        /\ inbox'[server] = inbox[server] \/ inbox'[server] = Append(<<>>, m)
        /\ UNCHANGED <<error, connected>> \/ (fault(client) /\ handler'[client] = "none")
    BY <1>5, EstablishedEffect, Zenon
  <2>2. Acks(inbox'[server]) # {} => Acks(inbox[server]) # {}
    <3>1. m \in CmMeta /\ m.peer_qpn = NoQpn /\ <<>> \in Seq(CmMeta)
      BY MessagesType, Zenon, EmptySeq
    <3> HIDE DEF m
    <3>2. QED
      BY <2>1, <3>1, AcksAppend, Zenon
  <2>3. QED
    BY <2>1, <2>2, LifeFrame, LifeFault, Zenon DEF Life
<1>6. ASSUME ClientAck
      PROVE  Life'
  <2>1. /\ wpc[client] = "ack" /\ wpc' = [wpc EXCEPT ![client] = "loop"]
        /\ inbox[server] = <<>> /\ active'[server] = active[server]
        /\ UNCHANGED <<qp, handler, state, took_over>>
        /\ \/ UNCHANGED <<error, connected>>
           \/ fault(client) /\ inbox'[server] = inbox[server]
    BY <1>6, AckEffect, Zenon
  <2>2. wpc'[client] = "loop" /\ qp[server] # "INIT" /\ qp[client] # "ERR"
    BY <2>1, ZenonT(90) DEF TypeOK, Life
  <2>3. CASE UNCHANGED <<error, connected>>
    BY <2>1, <2>2, <2>3, Zenon DEF Life
  <2>4. CASE fault(client) /\ inbox'[server] = inbox[server]
    BY <2>1, <2>2, <2>4, LifeFault, Zenon
  <2>5. QED
    BY <2>1, <2>3, <2>4, Zenon
<1>7. ASSUME NEW s \in Side, Read(s)
      PROVE  Life'
  <2>1. /\ active[s] /\ (s = client => connected[s])
        /\ UNCHANGED <<qp, active, handler, inbox, state, wpc>>
        /\ error[s] => error'[s]
        /\ \A t \in Side \ {s} : error'[t] = error[t]
        /\ \/ connected[s] /\ UNCHANGED <<connected, took_over>>
           \/ /\ ~connected[s] /\ s = server /\ error'[s] = error[s]
              /\ connected' = [connected EXCEPT ![s] = TRUE]
              /\ took_over' = TRUE
    BY <1>7, ReadEffect, Zenon DEF tcpVars
  <2>2. CASE connected[s] /\ UNCHANGED <<connected, took_over>>
    <3>1. \A t \in Side : /\ error[t] => error'[t]
                          /\ error'[t] => error[t] \/ connected[t]
      BY <2>1, <2>2, Zenon
    <3>2. QED
      BY <2>1, <2>2, <3>1, Zenon DEF Life, Acks
  <2>3. CASE s = server /\ error'[s] = error[s] /\ connected' = [connected EXCEPT ![s] = TRUE]
    <3>1. /\ connected'[server] /\ connected'[client] = connected[client]
          /\ \A t \in Side : error'[t] = error[t]
      BY <2>1, <2>3, Zenon DEF TypeOK
    <3>2. qp[server] = "RTS"
      BY <2>1, <2>3, Zenon DEF Life
    <3>3. QED
      BY <2>1, <3>1, <3>2, Zenon DEF Life, Acks
  <2>4. QED
    BY <2>1, <2>2, <2>3, Zenon
<1>8. ASSUME CloseSocket
      PROVE  Life'
  <2>1. /\ wpc[client] = "loop" /\ qp'[client] = "ERR" /\ qp'[server] = qp[server]
        /\ error'[client] /\ error'[server] = error[server] /\ active'[server] = active[server]
        /\ handler'[client] = "none" /\ state'[client] = "CLOSED"
        /\ BreakTcp /\ UNCHANGED <<connected, wpc, took_over>>
    BY <1>8, CloseEffect, Zenon
  <2>2. Acks(inbox'[server]) # {} => Acks(inbox[server]) # {}
    BY <2>1, BreakAcks, Zenon
  <2>3. QED
    BY <2>1, <2>2, Zenon DEF Life, Acks
<1>9. QED
  BY <1>1, <1>2, <1>3, <1>4, <1>5, <1>6, <1>7, <1>8, HandlerLife, Zenon
  DEF Next, Handlers, Calls, ClientSteps, ServerSteps, Environment

\* Steps that send no message: an event is lost only with its callback.
LEMMA MessagesFrame ==
  ASSUME Messages, qp'[server] = qp[server], connected[client] => connected'[client],
         wpc'[client] # "loop" => wpc[client] # "loop",
         state'[client] \in {state[client], "ESTABLISHED", "CLOSED"},
         handler'[client] \in {handler[client], "none", "closed"},
         \A s \in Side : inbox'[s] = inbox[s] \/ inbox'[s] = <<>>,
         \A s \in Side : handler'[s] = "read" /\ inbox'[s] # <<>> =>
                           edge'[s] \/ (handler[s] = "read" /\ edge'[s] = edge[s]),
         state[client] = "CONNECTING" => handler'[client] = handler[client]
  PROVE  Messages'
<1> USE SideType, TwoSides
<1>1. Len(<<>>) <= 1
  OBVIOUS
<1>2. \A s \in Side : Len(inbox'[s]) <= 1
  BY <1>1, Zenon DEF Messages
<1>3. NoLostEdge'
  <2>1. ASSUME NEW s \in Side, handler'[s] = "read", inbox'[s] # <<>> PROVE edge'[s]
    BY <2>1, ZenonT(90) DEF Messages, NoLostEdge
  <2>2. QED
    BY <2>1, Zenon DEF NoLostEdge
<1>4. QED
  BY <1>2, <1>3, Zenon DEF Messages

LEMMA HandlerMessages ==
  ASSUME TypeOK, Order, Life, Messages, NEW s \in Side, handle_connection(s)
  PROVE  Messages'
<1> USE SideType, TwoSides
<1>1. Len(<<>>) <= 1
  OBVIOUS
<1>2. CASE RecvFailed(s) \/ LateMessage(s)
  <2>1. /\ fault(s) /\ inbox'[s] = <<>>
        /\ \A t \in Side \ {s} : inbox'[t] = inbox[t] /\ edge'[t] = edge[t]
        /\ UNCHANGED <<qp, handler, state, wpc>>
    BY <1>2, FaultEffect, Zenon
  <2>2. connected[client] => connected'[client]
    BY <2>1, ZenonT(90) DEF TypeOK, fault
  <2>3. \A t \in Side : Len(inbox'[t]) <= 1
    BY <1>1, <2>1, Zenon DEF Messages
  <2>4. NoLostEdge'
    BY <2>1, Zenon DEF Messages, NoLostEdge
  <2>5. inbox'[server] # <<>> => inbox[server] # <<>>
    BY <2>1, Zenon
  <2>6. QED
    BY <2>1, <2>2, <2>3, <2>4, <2>5, Zenon DEF Messages
<1>3. CASE ClientActivate
  <2>1. /\ inbox[client] # <<>> /\ handler[client] = "read" /\ ~connected[client]
        /\ qp' = [qp EXCEPT ![client] = "RTS"]
        /\ inbox'[client] = <<>> /\ inbox'[server] = inbox[server] /\ edge'[server] = edge[server]
        /\ UNCHANGED <<handler, state>>
    BY <1>3, ClientActivateEffect, Zenon
  <2>2. qp'[server] = qp[server] /\ qp[server] # "INIT"
    BY <2>1, Zenon DEF TypeOK, Order, HandshakeOrder
  <2>3. inbox[server] = <<>>
    BY <2>1, <2>2, Zenon DEF Messages
  <2>4. \A t \in Side : inbox'[t] = <<>>
    BY <2>1, <2>3, Zenon
  <2>5. QED
    BY <1>1, <2>1, <2>2, <2>4, Zenon DEF Messages, NoLostEdge
<1>4. CASE ServerActivate
  <2> DEFINE m == [local_qpn |-> server, peer_qpn |-> client]
  <2>1. /\ inbox[server] # <<>> /\ inbox'[server] = <<>>
        /\ \/ inbox'[client] = inbox[client] /\ edge'[client] = edge[client]
           \/ ~active[server] /\ inbox'[client] = Append(inbox[client], m) /\ edge'[client]
        /\ UNCHANGED <<handler, state, wpc>>
    BY <1>4, ServerActivateEffect, Zenon
  <2>2. ~active[server] => inbox[client] = <<>>
    <3>1. qp[server] \in {"INIT", "RTS", "ERR"}
      BY Zenon DEF TypeOK
    <3>2. ~active[server] => qp[server] = "INIT"
      BY <3>1, Zenon DEF Life
    <3>3. QED
      BY <3>2, Zenon DEF Order, HandshakeOrder
  <2>3. m \in CmMeta
    BY MessagesType, Zenon
  <2>4. Len(inbox'[client]) <= 1
    <3>1. <<>> \in Seq(CmMeta)
      OBVIOUS
    <3> HIDE DEF m
    <3>2. QED
      BY <1>1, <2>1, <2>2, <2>3, <3>1, OneMessage, Zenon DEF Messages
  <2>5. NoLostEdge'
    BY <2>1, Zenon DEF Messages, NoLostEdge
  <2>6. QED
    BY <1>1, <2>1, <2>4, <2>5, Zenon DEF Messages
<1>5. CASE ServerConnected
  <2>1. /\ inbox'[server] = <<>> /\ inbox'[client] = inbox[client] /\ edge'[client] = edge[client]
        /\ inbox[server] # <<>> /\ UNCHANGED <<qp, handler, state>>
    BY <1>5, ServerConnectedEffect, NoAcks, Zenon
  <2>2. NoLostEdge'
    BY <2>1, Zenon DEF Messages, NoLostEdge
  <2>3. QED
    BY <1>1, <2>1, <2>2, Zenon DEF Messages
<1>6. QED
  BY <1>2, <1>3, <1>4, <1>5, Zenon DEF handle_connection

\* Every step keeps Messages.
LEMMA MessagesStep ==
  ASSUME TypeOK, Order, Life, Messages, [Next]_vars
  PROVE  Messages'
<1> USE SideType, TwoSides
<1>0. /\ state \in [Side -> {"NONE", "CONNECTING", "CONNECTING_RE", "ACCEPTING", "ESTABLISHED", "CLOSED"}]
      /\ handler \in [Side -> {"none", "established", "read", "closed"}]
  BY Zenon DEF TypeOK
<1>1. Len(<<>>) <= 1
  OBVIOUS
<1>2. ASSUME \/ \E s \in Side : WriteCallback(s) \/ Send(s) \/ SendSubmit(s) \/ SendChunks(s) \/ ReadSubmit(s)
             \/ UNCHANGED vars
      PROVE  Messages'
  <2>1. UNCHANGED <<qp, connected, state, handler, wpc, inbox, edge>>
    BY <1>2, Zenon DEF WriteCallback, Send, SendSubmit, SendChunks, ReadSubmit, vars, sockVars, tcpVars, connVars
  <2>2. QED
    BY <2>1, MessagesFrame, Zenon DEF Messages, NoLostEdge
<1>3. ASSUME NEW s \in Side, Read(s) \/ WorkerSubmit(s) \/ NotifyEvent(s)
      PROVE  Messages'
  <2>1. qp' = qp /\ inbox' = inbox /\ handler' = handler /\ edge' = edge
    BY <1>3, Zenon DEF Read, WorkerSubmit, NotifyEvent, sockVars, tcpVars
  <2>2. connected' = connected \/ connected' = [connected EXCEPT ![s] = TRUE]
    BY <1>3, Zenon DEF Read, WorkerSubmit, NotifyEvent, sockVars
  <2>3. wpc' = wpc \/ (wpc[s] = "submit" /\ \E x \in {"ack", "loop"} : wpc' = [wpc EXCEPT ![s] = x])
    BY <1>3, Zenon DEF Read, WorkerSubmit, WorkerIn, NotifyEvent
  <2>4. state' = state \/ state' = [state EXCEPT ![s] = "ESTABLISHED"]
    BY <1>3, Zenon DEF Read, WorkerSubmit, NotifyEvent
  <2>5. connected[client] => connected'[client]
    BY <2>2, ZenonT(90) DEF TypeOK
  <2>6. wpc'[client] # "loop" => wpc[client] # "loop"
    BY <2>3, ZenonT(90) DEF TypeOK
  <2>7. state'[client] \in {state[client], "ESTABLISHED"}
    BY <1>0, <2>4, Zenon
  <2>8. QED
    BY <2>1, <2>5, <2>6, <2>7, MessagesFrame, Zenon
<1>4. ASSUME NEW s \in Side, CleanupClose(s) \/ CleanupDelete(s)
      PROVE  Messages'
  <2>1. apc[s] \in {"close", "delete"} /\ UNCHANGED <<qp, connected, state, wpc, inbox, edge>>
    BY <1>4, Zenon DEF CleanupClose, CleanupDelete, AppAt, sockVars, connVars
  <2>2. s = server
    BY <2>1, Zenon DEF Order, ThreadsConnected
  <2>3. \E h \in {"none", "closed", handler[s]} : handler' = [handler EXCEPT ![s] = h]
    BY <1>4, Zenon DEF CleanupClose, CleanupDelete
  <2>4. handler'[client] = handler[client] /\ handler'[server] \in {"none", "closed", handler[server]}
    BY <2>2, <2>3, ZenonT(90) DEF TypeOK
  <2>5. QED
    BY <2>1, <2>4, MessagesFrame, Zenon
<1>5. ASSUME \/ \E s \in Side : ClosedHandler(s)
             \/ Accept \/ Register(server) \/ ProcessAccepting \/ TcpConnect
      PROVE  Messages'
  <2>1. UNCHANGED <<qp, connected, wpc, inbox>> /\ state'[client] = state[client]
        /\ handler'[client] = handler[client]
    <3>1. /\ UNCHANGED <<qp, connected, wpc, inbox>>
          /\ state' = state \/ \E x \in {"ACCEPTING", "ESTABLISHED"} : state' = [state EXCEPT ![server] = x]
      BY <1>5, Zenon DEF ClosedHandler, Accept, Register, ProcessAccepting, TcpConnect, sockVars,
                         tcpVars, connVars
    <3>2. handler' = handler \/ handler' = [handler EXCEPT ![server] = "read"]
      BY <1>5, Zenon DEF ClosedHandler, Accept, Register, ProcessAccepting, TcpConnect, tcpVars
    <3>3. QED
      BY <1>0, <3>1, <3>2, Zenon
  <2>2. ASSUME NEW t \in Side, handler'[t] = "read", inbox'[t] # <<>>
        PROVE  edge'[t] \/ (handler[t] = "read" /\ edge'[t] = edge[t])
    <3>1. CASE \E s \in Side : ClosedHandler(s)
      BY <2>2, <3>1, ZenonT(90) DEF TypeOK, ClosedHandler, TcpEvent
    <3>2. CASE Accept \/ ProcessAccepting
      BY <2>2, <3>2, Zenon DEF Accept, ProcessAccepting, tcpVars
    <3>3. CASE Register(server)
      BY <2>2, <3>3, Zenon DEF TypeOK, Register, Readable
    <3>4. CASE TcpConnect
      BY <2>2, <3>4, Zenon DEF TypeOK, TcpConnect
    <3>5. QED
      BY <1>5, <3>1, <3>2, <3>3, <3>4, Zenon
  <2>3. QED
    BY <2>1, <2>2, MessagesFrame, Zenon
<1>6. ASSUME ProcessConnecting
      PROVE  Messages'
  <2>1. /\ state[client] = "CONNECTING" /\ UNCHANGED <<qp, connected, wpc, inbox, edge>>
        /\ \/ /\ handler' = [handler EXCEPT ![client] = "established"]
              /\ state' = [state EXCEPT ![client] = "CONNECTING_RE"]
           \/ UNCHANGED <<handler, state>>
    BY <1>6, Zenon DEF ProcessConnecting, sockVars
  <2>2. /\ handler'[server] = handler[server] /\ handler'[client] # "read"
        /\ state'[client] = "CONNECTING" => handler'[client] = "none"
    BY <2>1, ZenonT(90) DEF TypeOK, Messages
  <2>3. NoLostEdge'
    BY <2>1, <2>2, Zenon DEF Messages, NoLostEdge
  <2>4. QED
    BY <2>1, <2>2, <2>3, Zenon DEF Messages
<1>7. ASSUME handle_connection_established
      PROVE  Messages'
  <2> DEFINE m == [local_qpn |-> client, peer_qpn |-> NoQpn]
  <2>1. /\ handler[client] = "established" /\ inbox'[client] = inbox[client]
        /\ handler'[server] = handler[server] /\ UNCHANGED <<qp, state>>
        /\ \/ handler'[client] = "read" /\ (inbox[client] # <<>> => edge'[client])
           \/ handler'[client] = "none"
        /\ \/ inbox'[server] = inbox[server] /\ edge'[server] = edge[server]
           \/ inbox'[server] = Append(<<>>, m) /\ edge'[server]
    BY <1>7, EstablishedEffect, Zenon
  <2>2. Len(Append(<<>>, m)) <= 1
    OBVIOUS
  <2> HIDE DEF m
  <2>3. \A t \in Side : Len(inbox'[t]) <= 1
    BY <2>1, <2>2, Zenon DEF Messages
  <2>4. NoLostEdge'
    BY <2>1, Zenon DEF Messages, NoLostEdge
  <2>5. state[client] # "CONNECTING" /\ qp[server] = "INIT"
    BY <2>1, Zenon DEF Messages
  <2>6. QED
    BY <2>1, <2>3, <2>4, <2>5, Zenon DEF Messages
<1>8. ASSUME ClientAck
      PROVE  Messages'
  <2> DEFINE m == [local_qpn |-> client, peer_qpn |-> server]
  <2>1. /\ wpc[client] = "ack" /\ wpc' = [wpc EXCEPT ![client] = "loop"]
        /\ inbox'[client] = inbox[client] /\ (edge[client] => edge'[client])
        /\ UNCHANGED <<qp, handler, state>>
        /\ connected' = connected \/ fault(client)
        /\ \/ inbox'[server] = inbox[server] /\ edge'[server] = edge[server]
           \/ inbox'[server] = Append(<<>>, m) /\ edge'[server]
    BY <1>8, AckEffect, Zenon
  <2>2. Len(Append(<<>>, m)) <= 1
    OBVIOUS
  <2> HIDE DEF m
  <2>3. \A t \in Side : Len(inbox'[t]) <= 1
    BY <2>1, <2>2, Zenon DEF Messages
  <2>4. NoLostEdge'
    BY <2>1, Zenon DEF Messages, NoLostEdge
  <2>5. wpc'[client] = "loop" /\ connected'[client] /\ qp[server] # "INIT"
    <3>1. connected[client] /\ qp[server] # "INIT"
      BY <2>1, Zenon DEF Order, ThreadsConnected, Life
    <3>2. wpc'[client] = "loop"
      BY <2>1, ZenonT(90) DEF TypeOK
    <3>3. fault(client) => connected'[client]
      BY ZenonT(90) DEF TypeOK, fault
    <3>4. QED
      BY <2>1, <3>1, <3>2, <3>3, Zenon
  <2>6. QED
    BY <2>1, <2>3, <2>4, <2>5, Zenon DEF Messages
<1>9. ASSUME CloseSocket \/ TcpBreak \/ \E s \in Side : Crash(s)
      PROVE  Messages'
  <2>1. /\ BreakTcp /\ UNCHANGED <<connected, wpc>> /\ qp'[server] = qp[server]
        /\ \/ handler' = handler /\ state' = state
           \/ /\ handler'[client] = "none" /\ handler'[server] = handler[server]
              /\ state'[client] = "CLOSED"
    BY <1>9, CloseEffect, Zenon DEF TcpBreak, Crash, sockVars, connVars
  <2>2. \/ \A t \in Side : edge'[t]
        \/ edge' = edge
    BY <2>1, Zenon DEF BreakTcp
  <2>3. \A t \in Side : inbox'[t] = inbox[t] \/ inbox'[t] = <<>>
    BY <2>1, BreakAcks, Zenon
  <2>4. state[client] = "CONNECTING" => handler'[client] = handler[client]
    BY <2>1, Zenon DEF Messages
  <2>5. QED
    BY <2>1, <2>2, <2>3, <2>4, MessagesFrame, Zenon
<1>10. QED
  BY <1>2, <1>3, <1>4, <1>5, <1>6, <1>7, <1>8, <1>9, HandlerMessages, ZenonT(90)
  DEF Next, Handlers, Calls, ClientSteps, ServerSteps, Environment

\* The items of a sequence
LEMMA ItemsEmpty == Items(<<>>) = {}
<1>1. ~ \E i \in 1 .. Len(<<>>) : TRUE
  OBVIOUS
<1>2. QED
  BY <1>1, Zenon DEF Items

LEMMA ItemsAppend ==
  ASSUME NEW S, NEW q \in Seq(S), NEW x \in S
  PROVE  Items(Append(q, x)) = Items(q) \cup {x}
<1>1. /\ \A i \in 1 .. Len(q) : i \in 1 .. Len(Append(q, x)) /\ Append(q, x)[i] = q[i]
      /\ Len(q) + 1 \in 1 .. Len(Append(q, x)) /\ Append(q, x)[Len(q) + 1] = x
      /\ \A i \in 1 .. Len(Append(q, x)) : i \in 1 .. Len(q) \/ i = Len(q) + 1
  OBVIOUS
<1>2. QED
  BY <1>1, Zenon DEF Items

LEMMA ItemsConcat ==
  ASSUME NEW S, NEW p \in Seq(S), NEW q \in Seq(S)
  PROVE  Items(p \o q) = Items(p) \cup Items(q)
<1>1. /\ \A i \in 1 .. Len(p) : i \in 1 .. Len(p \o q) /\ (p \o q)[i] = p[i]
      /\ \A i \in 1 .. Len(q) : Len(p) + i \in 1 .. Len(p \o q) /\ (p \o q)[Len(p) + i] = q[i]
  OBVIOUS
<1>2. \A i \in 1 .. Len(p \o q) : i \in 1 .. Len(p) \/ \E j \in 1 .. Len(q) : i = Len(p) + j
  <2> SUFFICES ASSUME NEW i \in 1 .. Len(p \o q), i \notin 1 .. Len(p)
               PROVE  \E j \in 1 .. Len(q) : i = Len(p) + j
    BY Zenon
  <2>1. i - Len(p) \in 1 .. Len(q) /\ i = Len(p) + (i - Len(p))
    OBVIOUS
  <2>2. QED
    BY <2>1, Zenon
<1> DEFINE r == p \o q
<1> HIDE DEF r
<1>3. /\ \A i \in 1 .. Len(p) : i \in 1 .. Len(r) /\ r[i] = p[i]
      /\ \A i \in 1 .. Len(q) : Len(p) + i \in 1 .. Len(r) /\ r[Len(p) + i] = q[i]
      /\ \A i \in 1 .. Len(r) : i \in 1 .. Len(p) \/ \E j \in 1 .. Len(q) : i = Len(p) + j
  BY <1>1, <1>2, Zenon DEF r
<1>4. Items(p) \subseteq Items(r) /\ Items(q) \subseteq Items(r)
  BY <1>3, ZenonT(90) DEF Items
<1>5. Items(r) \subseteq Items(p) \cup Items(q)
  <2> SUFFICES ASSUME NEW i \in 1 .. Len(r) PROVE r[i] \in Items(p) \cup Items(q)
    BY Zenon DEF Items
  <2>1. CASE i \in 1 .. Len(p)
    BY <1>3, <2>1, Zenon DEF Items
  <2>2. ASSUME NEW j \in 1 .. Len(q), i = Len(p) + j PROVE r[i] \in Items(q)
    BY <1>3, <2>2, Zenon DEF Items
  <2>3. QED
    BY <1>3, <2>1, <2>2, Zenon
<1>6. QED
  BY <1>4, <1>5, Zenon DEF r

\* The last item of a wire, sent once more, is nothing new.
LEMMA ItemsRepeat ==
  ASSUME NEW S, NEW q \in Seq(S), q # <<>>
  PROVE  Items(Append(q, q[Len(q)])) = Items(q)
<1>1. Len(q) \in 1 .. Len(q) /\ q[Len(q)] \in S
  OBVIOUS
<1>2. q[Len(q)] \in Items(q)
  BY <1>1, Zenon DEF Items
<1> DEFINE x == q[Len(q)]
<1>3. x \in S /\ x \in Items(q)
  BY <1>1, <1>2, Zenon
<1> HIDE DEF x
<1>4. Items(Append(q, x)) = Items(q) \cup {x}
  BY <1>3, ItemsAppend
<1>5. QED
  BY <1>3, <1>4, Zenon DEF x

\* A post puts its items on the wire of a queue pair that is ready, and
\* nothing anywhere else.
LEMMA PostEffect ==
  ASSUME TypeOK, NEW s \in Side, NEW bl \in Seq(Buffers), post_work_request(s, bl)
  PROVE  /\ \A t \in Side \ {s} : wire'[t] = wire[t]
         /\ Items(wire'[s]) = Items(wire[s]) \cup (IF qp[s] = "RTS" THEN Items(bl) ELSE {})
<1> DEFINE W == Buffers \cup {Fin}
<1>1. wire \in [Side -> Seq(W)] /\ wire[s] \in Seq(W)
  BY Zenon DEF TypeOK
<1>2. bl \in Seq(W)
  OBVIOUS
<1> HIDE DEF W
<1>3. CASE bl # <<>> /\ qp[s] = "RTS"
  <2>1. wire' = [wire EXCEPT ![s] = wire[s] \o bl]
    BY <1>3, Zenon DEF post_work_request
  <2>2. wire'[s] = wire[s] \o bl /\ \A t \in Side \ {s} : wire'[t] = wire[t]
    BY <1>1, <2>1, Zenon
  <2>3. QED
    <3>1. Items(wire[s] \o bl) = Items(wire[s]) \cup Items(bl)
      BY <1>1, <1>2, ItemsConcat
    <3>2. QED
      BY <1>3, <2>2, <3>1, Zenon
<1>4. CASE bl # <<>> /\ qp[s] # "RTS"
  <2>1. wire' = [wire EXCEPT ![s] = wire[s]]
    BY <1>4, Zenon DEF post_work_request
  <2>2. QED
    BY <1>1, <1>4, <2>1, Zenon
<1>5. CASE bl = <<>>
  <2>1. Items(bl) = {}
    BY <1>5, ItemsEmpty, Zenon
  <2>2. CASE wire' = wire
    BY <2>1, <2>2, Zenon
  <2>3. CASE wire[s] # <<>> /\ wire' = [wire EXCEPT ![s] = Append(wire[s], wire[s][Len(wire[s])])]
    <3>1. wire'[s] = Append(wire[s], wire[s][Len(wire[s])]) /\ \A t \in Side \ {s} : wire'[t] = wire[t]
      BY <1>1, <2>3, Zenon
    <3>2. Items(wire'[s]) = Items(wire[s])
      BY <1>1, <2>3, <3>1, ItemsRepeat, Zenon
    <3>3. QED
      BY <2>1, <3>1, <3>2, Zenon
  <2>4. QED
    BY <1>5, <2>2, <2>3, Zenon DEF post_work_request
<1>6. QED
  BY <1>3, <1>4, <1>5, Zenon

\* submit() of a socket without an error empties the list; what was in it is
\* on the wire when the queue pair is ready.
LEMMA SubmitEffect ==
  ASSUME TypeOK, Sends, NEW s \in Side, submit(s)
  PROVE  /\ UNCHANGED <<pending_len, next>>
         /\ \A t \in Side \ {s} : wire'[t] = wire[t] /\ pending_bl'[t] = pending_bl[t]
         /\ \/ error[s] /\ UNCHANGED <<pending_bl, wire>>
            \/ /\ ~error[s] /\ pending_bl'[s] = <<>>
               /\ Items(wire'[s])
                  = Items(wire[s]) \cup (IF qp[s] = "RTS" THEN Items(pending_bl[s]) ELSE {})
<1>1. UNCHANGED <<pending_len, next>>
  BY Zenon DEF submit
<1>2. pending_bl \in [Side -> Seq(Buffers)] /\ pending_bl[s] \in Seq(Buffers)
  BY Zenon DEF TypeOK
<1>3. CASE error[s]
  <2>1. UNCHANGED <<pending_bl, wire>>
    BY <1>3, Zenon DEF submit
  <2>2. QED
    BY <1>1, <1>3, <2>1, Zenon
<1>4. CASE ~error[s] /\ pending_len[s] = 0
  <2>1. UNCHANGED <<pending_bl, wire>> /\ pending_bl[s] = <<>>
    BY <1>4, Zenon DEF submit, Sends, SendsOf
  <2>2. Items(pending_bl[s]) = {}
    BY <2>1, ItemsEmpty, Zenon
  <2>3. QED
    BY <1>1, <1>4, <2>1, <2>2, Zenon
<1>5. CASE ~error[s] /\ pending_len[s] # 0
  <2>1. post_work_request(s, pending_bl[s]) /\ pending_bl' = [pending_bl EXCEPT ![s] = <<>>]
    BY <1>5, Zenon DEF submit
  <2>2. pending_bl'[s] = <<>> /\ \A t \in Side \ {s} : pending_bl'[t] = pending_bl[t]
    BY <1>2, <2>1, Zenon
  <2>3. QED
    BY <1>1, <1>2, <1>5, <2>1, <2>2, PostEffect, Zenon
<1>6. QED
  BY <1>3, <1>4, <1>5, Zenon

\* A side whose buffers stay where they are
LEMMA SendsFrame ==
  ASSUME NEW t \in Side, SendsOf(t), error[t] => error'[t],
         next'[t] = next[t], pending_bl'[t] = pending_bl[t], pending_len'[t] = pending_len[t],
         wire'[t] = wire[t],
         connected'[t] /\ ~error'[t] /\ pending_bl[t] # <<>> =>
           \/ wpc'[t] = "submit" \/ apc'[t] # "idle"
           \/ connected[t] /\ wpc'[t] = wpc[t] /\ apc'[t] = apc[t]
  PROVE  SendsOf(t)'
BY ZenonT(90) DEF SendsOf, Items

\* A side that submits, in a socket that is connected
LEMMA SubmitSends ==
  ASSUME TypeOK, Life, Sends, NEW s \in Side, submit(s), connected[s], UNCHANGED <<qp, connected, error>>,
         \A t \in Side \ {s} : wpc'[t] = wpc[t] /\ apc'[t] = apc[t]
  PROVE  Sends'
<1>1. /\ UNCHANGED <<pending_len, next>>
      /\ \A t \in Side \ {s} : wire'[t] = wire[t] /\ pending_bl'[t] = pending_bl[t]
      /\ \/ error[s] /\ UNCHANGED <<pending_bl, wire>>
         \/ /\ ~error[s] /\ pending_bl'[s] = <<>>
            /\ Items(wire'[s])
               = Items(wire[s]) \cup (IF qp[s] = "RTS" THEN Items(pending_bl[s]) ELSE {})
  BY SubmitEffect, Zenon
<1>2. ASSUME NEW t \in Side \ {s} PROVE SendsOf(t)'
  BY <1>1, SendsFrame, Zenon DEF Sends, SendsOf
<1>3. CASE error[s]
  BY <1>1, <1>3, SendsFrame, Zenon DEF Sends
<1>4. CASE ~error[s]
  <2>1. qp[s] = "RTS"
    BY <1>4, Zenon DEF Life
  <2>2. Items(wire'[s]) = Items(wire[s]) \cup Items(pending_bl[s]) /\ Items(pending_bl'[s]) = {}
    BY <1>1, <1>4, <2>1, ItemsEmpty, Zenon
  <2>3. SendsOf(s)
    BY Zenon DEF Sends
  <2>4. 1 .. next[s] \subseteq 0 .. next[s]
    BY DEF TypeOK
  <2>5. /\ Items(pending_bl'[s]) \subseteq 1 .. next'[s]
        /\ Items(wire'[s]) \subseteq 0 .. next'[s]
        /\ 1 .. next'[s] \subseteq Items(pending_bl'[s]) \cup Items(wire'[s])
    BY <1>1, <1>4, <2>2, <2>3, <2>4, Zenon DEF SendsOf
  <2>6. SendsOf(s)'
    BY <1>1, <1>4, <2>5, Zenon DEF SendsOf, Items
  <2>7. QED
    BY <1>2, <2>6, Zenon DEF Sends
<1>5. QED
  BY <1>2, <1>3, <1>4, Zenon DEF Sends

LEMMA BuffersAppend ==
  /\ \A q \in Seq(Buffers), x \in Buffers : Items(Append(q, x)) = Items(q) \cup {x}
  /\ \A q \in Seq(Buffers \cup {Fin}) : Items(Append(q, Fin)) = Items(q) \cup {Fin}
<1>1. ASSUME NEW q \in Seq(Buffers), NEW x \in Buffers PROVE Items(Append(q, x)) = Items(q) \cup {x}
  BY ItemsAppend
<1>2. ASSUME NEW q \in Seq(Buffers \cup {Fin}) PROVE Items(Append(q, Fin)) = Items(q) \cup {Fin}
  BY ItemsAppend
<1>3. QED
  BY <1>1, <1>2, Zenon

\* A buffer is handed over: to the list, or to the send queue at once.
LEMMA HandOverSends ==
  ASSUME TypeOK, Life, Sends, NEW s \in Side, Send(s) \/ SendChunks(s)
  PROVE  Sends'
<1>1. /\ next' = [next EXCEPT ![s] = next[s] + 1] /\ next[client] + next[server] < MaxSends
      /\ UNCHANGED <<qp, connected, error, wpc>>
  BY Zenon DEF Send, SendChunks, sockVars
<1>2. /\ next \in [Side -> 0 .. MaxSends] /\ next[s] \in Nat /\ next[s] + 1 \in Buffers
      /\ pending_bl \in [Side -> Seq(Buffers)] /\ pending_bl[s] \in Seq(Buffers)
      /\ pending_len \in [Side -> Nat] /\ pending_len[s] + 1 # 0
  <2>1. next \in [Side -> 0 .. MaxSends] /\ next[client] \in 0 .. MaxSends /\ next[server] \in 0 .. MaxSends
    BY SideType, Zenon DEF TypeOK
  <2>2. pending_bl \in [Side -> Seq(Buffers)] /\ pending_len \in [Side -> Nat]
    BY Zenon DEF TypeOK
  <2>3. \A a, b \in 0 .. MaxSends : a + b < MaxSends =>
          a \in Nat /\ a + 1 \in Buffers /\ b \in Nat /\ b + 1 \in Buffers
    BY ConstantsAssumption DEF Buffers
  <2>4. next[s] \in Nat /\ next[s] + 1 \in Buffers
    BY <1>1, <2>1, <2>3, TwoSides, Zenon
  <2>5. \A n \in Nat : n + 1 # 0
    OBVIOUS
  <2>6. QED
    BY <2>1, <2>2, <2>4, <2>5, Zenon
<1>3. /\ next'[s] = next[s] + 1 /\ 1 .. next'[s] = (1 .. next[s]) \cup {next[s] + 1}
      /\ 0 .. next[s] \subseteq 0 .. next'[s] /\ next[s] + 1 \in 0 .. next'[s]
  <2>1. next'[s] = next[s] + 1
    BY <1>1, <1>2, Zenon
  <2>2. \A n \in Nat : /\ 1 .. n + 1 = (1 .. n) \cup {n + 1}
                       /\ 0 .. n \subseteq 0 .. n + 1 /\ n + 1 \in 0 .. n + 1
    OBVIOUS
  <2>3. QED
    BY <1>2, <2>1, <2>2, Zenon
<1>4. SendsOf(s)
  BY Zenon DEF Sends
<1>5. CASE Send(s)
  <2>1. /\ ~error[s] /\ pending_bl' = [pending_bl EXCEPT ![s] = Append(pending_bl[s], next[s] + 1)]
        /\ pending_len' = [pending_len EXCEPT ![s] = pending_len[s] + 1]
        /\ apc' = [apc EXCEPT ![s] = IF connected[s] THEN "submit" ELSE "idle"] /\ wire' = wire
    BY <1>5, Zenon DEF Send
  <2>2. /\ pending_bl'[s] = Append(pending_bl[s], next[s] + 1) /\ pending_len'[s] # 0
        /\ \A t \in Side \ {s} : /\ next'[t] = next[t] /\ pending_bl'[t] = pending_bl[t]
                                  /\ pending_len'[t] = pending_len[t]
    BY <1>1, <1>2, <2>1, Zenon
  <2>3. apc'[s] = (IF connected[s] THEN "submit" ELSE "idle") /\ \A t \in Side \ {s} : apc'[t] = apc[t]
    BY <2>1, ZenonT(90) DEF TypeOK
  <2>4. Items(pending_bl'[s]) = Items(pending_bl[s]) \cup {next[s] + 1}
    BY <1>2, <2>2, BuffersAppend, Zenon
  <2>5. /\ Items(pending_bl'[s]) \subseteq 1 .. next'[s] /\ Items(wire'[s]) \subseteq 0 .. next'[s]
        /\ 1 .. next'[s] \subseteq Items(pending_bl'[s]) \cup Items(wire'[s])
    BY <1>3, <1>4, <2>1, <2>4, Zenon DEF SendsOf
  <2>6. SendsOf(s)'
    BY <1>1, <2>2, <2>3, <2>5, Zenon DEF SendsOf, Items
  <2>7. ASSUME NEW t \in Side \ {s} PROVE SendsOf(t)'
    BY <1>1, <2>1, <2>2, <2>3, SendsFrame, Zenon DEF Sends, SendsOf
  <2>8. QED
    BY <2>6, <2>7, Zenon DEF Sends
<1>6. CASE SendChunks(s)
  <2>1. /\ connected[s] /\ post_work_request(s, <<next[s] + 1>>) /\ UNCHANGED <<pending_bl, pending_len, apc>>
    BY <1>6, Zenon DEF SendChunks
  <2>2. <<next[s] + 1>> \in Seq(Buffers) /\ Items(<<next[s] + 1>>) = {next[s] + 1}
    <3> DEFINE x == next[s] + 1
    <3>1. x \in Buffers
      BY <1>2, Zenon
    <3> HIDE DEF x
    <3>2. <<x>> = Append(<<>>, x) /\ <<>> \in Seq(Buffers) /\ <<x>> \in Seq(Buffers)
      BY <3>1
    <3>3. Items(Append(<<>>, x)) = Items(<<>>) \cup {x}
      BY <3>1, <3>2, BuffersAppend, Zenon
    <3>4. <<x>> \in Seq(Buffers) /\ Items(<<x>>) = {x}
      BY <3>2, <3>3, ItemsEmpty
    <3>5. QED
      BY <3>4, Zenon DEF x
  <2>3. /\ \A t \in Side \ {s} : wire'[t] = wire[t] /\ next'[t] = next[t]
        /\ Items(wire'[s]) = Items(wire[s]) \cup (IF qp[s] = "RTS" THEN {next[s] + 1} ELSE {})
    BY <1>1, <1>2, <2>1, <2>2, PostEffect, Zenon
  <2>4. ~error[s] => qp[s] = "RTS"
    BY <2>1, Zenon DEF Life
  <2>5. Items(pending_bl[s]) \subseteq 1 .. next'[s] /\ Items(wire'[s]) \subseteq 0 .. next'[s]
    BY <1>3, <1>4, <2>3, Zenon DEF SendsOf
  <2>6. ~error[s] => 1 .. next'[s] \subseteq Items(pending_bl[s]) \cup Items(wire'[s])
    BY <1>3, <1>4, <2>3, <2>4, Zenon DEF SendsOf
  <2>7. SendsOf(s)'
    BY <1>1, <1>4, <2>1, <2>5, <2>6, Zenon DEF SendsOf, Items
  <2>8. ASSUME NEW t \in Side \ {s} PROVE SendsOf(t)'
    BY <1>1, <2>1, <2>3, SendsFrame, Zenon DEF Sends, SendsOf
  <2>9. QED
    BY <2>7, <2>8, Zenon DEF Sends
<1>7. QED
  BY <1>5, <1>6, Zenon

\* A step that leaves the buffers where they are
LEMMA SendsKept ==
  ASSUME Sends, UNCHANGED <<next, pending_bl, pending_len, wire>>,
         \A t \in Side :
           /\ error[t] => error'[t]
           /\ connected'[t] /\ ~error'[t] =>
                \/ wpc'[t] = "submit" \/ apc'[t] # "idle"
                \/ connected[t] /\ wpc'[t] = wpc[t] /\ apc'[t] = apc[t]
  PROVE  Sends'
BY SendsFrame, Zenon DEF Sends

\* Every step keeps Sends.
LEMMA SendsStep ==
  ASSUME TypeOK, Order, Life, Messages, Sends, [Next]_vars
  PROVE  Sends'
<1> USE SideType, TwoSides
<1>0. /\ wpc \in [Side -> {"loop", "submit", "ack"}] /\ connected \in [Side -> BOOLEAN]
      /\ apc \in [Side -> {"idle", "submit", "close", "delete", "resubmit"}]
  BY Zenon DEF TypeOK
<1>1. ASSUME NEW s \in Side, fault(s), UNCHANGED <<sendVars, wpc, apc>>
      PROVE  Sends'
  <2>1. error'[s] /\ \A t \in Side \ {s} : error'[t] = error[t] /\ connected'[t] = connected[t]
    BY <1>1, ZenonT(90) DEF TypeOK, fault
  <2>2. QED
    BY <1>1, <2>1, SendsKept, Zenon DEF sendVars
<1>2. ASSUME \/ \E s \in Side : ClosedHandler(s) \/ WriteCallback(s) \/ NotifyEvent(s) \/ Crash(s)
             \/ TcpConnect \/ TcpBreak \/ Accept \/ Register(server) \/ ProcessConnecting \/ ProcessAccepting
             \/ UNCHANGED vars
      PROVE  Sends'
  <2>1. UNCHANGED <<connected, error, wpc, apc, next, pending_bl, pending_len, wire>>
    BY <1>2, Zenon DEF ClosedHandler, WriteCallback, NotifyEvent, Crash, TcpConnect, TcpBreak, Accept, Register,
                       ProcessConnecting, ProcessAccepting, vars, sockVars, sendVars
  <2>2. QED
    BY <2>1, SendsKept, Zenon
<1>3. ASSUME NEW s \in Side, CleanupClose(s) \/ CleanupDelete(s)
      PROVE  Sends'
  <2>1. /\ UNCHANGED <<connected, error, wpc, next, pending_bl, pending_len, wire>>
        /\ \E x \in {"delete", "resubmit"} : apc' = [apc EXCEPT ![s] = x]
    BY <1>3, Zenon DEF CleanupClose, CleanupDelete, sockVars, sendVars
  <2>2. apc'[s] # "idle" /\ \A t \in Side \ {s} : apc'[t] = apc[t]
    BY <2>1, ZenonT(90) DEF TypeOK
  <2>3. QED
    BY <2>1, <2>2, SendsKept, Zenon
<1>4. ASSUME NEW s \in Side, WorkerSubmit(s) \/ SendSubmit(s) \/ ReadSubmit(s)
      PROVE  Sends'
  <2>1. /\ submit(s) /\ UNCHANGED <<qp, connected, error>>
        /\ wpc[s] = "submit" \/ apc[s] \in {"submit", "resubmit"}
        /\ wpc' = wpc \/ wpc' = [wpc EXCEPT ![s] = IF s = client THEN "ack" ELSE "loop"]
        /\ apc' = apc \/ apc' = [apc EXCEPT ![s] = "idle"]
    BY <1>4, Zenon DEF WorkerSubmit, WorkerIn, SendSubmit, ReadSubmit, AppAt, sockVars
  <2>2. connected[s]
    <3>1. CASE wpc[s] = "submit" \/ apc[s] = "submit"
      BY <3>1, Zenon DEF Order, ThreadsConnected
    <3>2. CASE apc[s] = "resubmit"
      BY <3>2, Zenon DEF Order, ThreadsConnected, Life
    <3>3. QED
      BY <2>1, <3>1, <3>2, Zenon
  <2>3. \A t \in Side \ {s} : wpc'[t] = wpc[t] /\ apc'[t] = apc[t]
    BY <1>0, <2>1, Zenon
  <2>4. QED
    BY <2>1, <2>2, <2>3, SubmitSends, Zenon
<1>5. ASSUME NEW s \in Side, RecvFailed(s) \/ LateMessage(s)
      PROVE  Sends'
  BY <1>1, <1>5, FaultEffect, Zenon
<1>6. ASSUME ClientActivate
      PROVE  Sends'
  <2>1. /\ connected' = [connected EXCEPT ![client] = TRUE] /\ wpc' = [wpc EXCEPT ![client] = "submit"]
        /\ UNCHANGED <<error, sendVars, apc>>
    BY <1>6, ClientActivateEffect, Zenon
  <2>2. wpc'[client] = "submit" /\ connected'[server] = connected[server] /\ wpc'[server] = wpc[server]
    BY <2>1, ZenonT(90) DEF TypeOK
  <2>3. QED
    BY <2>1, <2>2, SendsKept, Zenon DEF sendVars
<1>7. ASSUME ServerConnected
      PROVE  Sends'
  <2>1. /\ connected' = [connected EXCEPT ![server] = TRUE] /\ wpc' = [wpc EXCEPT ![server] = "submit"]
        /\ UNCHANGED <<error, sendVars, apc>>
    BY <1>7, ServerConnectedEffect, Zenon
  <2>2. wpc'[server] = "submit" /\ connected'[client] = connected[client] /\ wpc'[client] = wpc[client]
    BY <2>1, ZenonT(90) DEF TypeOK
  <2>3. QED
    BY <2>1, <2>2, SendsKept, Zenon DEF sendVars
<1>8. ASSUME ServerActivate
      PROVE  Sends'
  <2>1. UNCHANGED <<sendVars, wpc, apc>> /\ (UNCHANGED <<connected, error>> \/ fault(server))
    BY <1>8, ServerActivateEffect, Zenon
  <2>2. QED
    BY <1>1, <2>1, SendsKept, Zenon DEF sendVars
<1>9. ASSUME handle_connection_established
      PROVE  Sends'
  <2>1. UNCHANGED <<sendVars, wpc, apc>> /\ (UNCHANGED <<connected, error>> \/ fault(client))
    BY <1>9, EstablishedEffect, Zenon
  <2>2. QED
    BY <1>1, <2>1, SendsKept, Zenon DEF sendVars
<1>10. ASSUME ClientAck
       PROVE  Sends'
  <2>1. /\ wpc[client] = "ack" /\ wpc' = [wpc EXCEPT ![client] = "loop"] /\ UNCHANGED <<sendVars, apc>>
        /\ UNCHANGED <<connected, error>> \/ fault(client)
    BY <1>10, AckEffect, Zenon
  <2>2. wpc'[server] = wpc[server]
    BY <2>1, ZenonT(90) DEF TypeOK
  <2>3. \A t \in Side : error[t] => error'[t]
    BY <2>1, ZenonT(90) DEF TypeOK, fault
  <2>4. connected'[server] = connected[server] /\ error'[server] = error[server]
    BY <2>1, ZenonT(90) DEF TypeOK, fault
  <2>5. error'[client] \/ (error' = error /\ connected' = connected)
    BY <2>1, ZenonT(90) DEF TypeOK, fault
  <2>6. SendsOf(server)'
    BY <2>1, <2>2, <2>4, SendsFrame, Zenon DEF Sends, sendVars
  <2>7. SendsOf(client) /\ (connected[client] /\ ~error[client] /\ pending_bl[client] # <<>> => apc[client] # "idle")
    BY <2>1, Zenon DEF Sends, SendsOf
  <2>8. SendsOf(client)'
    BY <2>1, <2>3, <2>5, <2>7, SendsFrame, Zenon DEF sendVars
  <2>9. QED
    BY <2>6, <2>8, Zenon DEF Sends
<1>11. ASSUME NEW s \in Side, Read(s)
       PROVE  Sends'
  <2>1. /\ UNCHANGED <<sendVars, wpc>> /\ (error[s] => error'[s])
        /\ \A t \in Side \ {s} : error'[t] = error[t]
        /\ \/ connected[s] /\ UNCHANGED <<connected, apc>>
           \/ connected' = [connected EXCEPT ![s] = TRUE] /\ apc' = [apc EXCEPT ![s] = "close"]
    BY <1>11, ReadEffect, Zenon
  <2>2. \/ connected[s] /\ UNCHANGED <<connected, apc>>
        \/ /\ apc'[s] = "close"
           /\ \A t \in Side \ {s} : connected'[t] = connected[t] /\ apc'[t] = apc[t]
    BY <1>0, <2>1, Zenon
  <2>3. \A t \in Side : error[t] => error'[t]
    BY <2>1, Zenon
  <2>4. \A t \in Side : apc'[t] # "idle" \/ (connected'[t] = connected[t] /\ apc'[t] = apc[t])
    BY <2>2, Zenon
  <2>5. QED
    BY <2>1, <2>3, <2>4, SendsKept, Zenon DEF sendVars
<1>12. ASSUME CloseSocket
       PROVE  Sends'
  <2>1. /\ error'[client] /\ error'[server] = error[server] /\ wire'[server] = wire[server]
        /\ wire'[client] \in {wire[client], Append(wire[client], Fin)}
        /\ UNCHANGED <<connected, pending_bl, pending_len, next, wpc, apc>>
    BY <1>12, CloseEffect, Zenon
  <2>2. SendsOf(server)'
    BY <2>1, SendsFrame, Zenon DEF Sends
  <2>3. wire[client] \in Seq(Buffers \cup {Fin}) /\ Fin \in 0 .. next[client]
    BY SMTT(60) DEF TypeOK, Fin
  <2>4. Items(wire'[client]) \subseteq Items(wire[client]) \cup {Fin}
    BY <2>1, <2>3, BuffersAppend, Zenon
  <2>5. SendsOf(client)'
    BY <2>1, <2>3, <2>4, ZenonT(90) DEF Sends, SendsOf, Items
  <2>6. QED
    BY <2>2, <2>5, Zenon DEF Sends
<1>13. QED
  BY <1>2, <1>3, <1>4, <1>5, <1>6, <1>7, <1>8, <1>9, <1>10, <1>11, <1>12, HandOverSends, ZenonT(90)
  DEF Next, Handlers, handle_connection, Calls, ClientSteps, ServerSteps, Environment

\* The inductive invariant of the two sockets
SocketInv == IInv /\ Life /\ Messages /\ Sends

LEMMA SocketInit == Init => SocketInv
<1> SUFFICES ASSUME Init PROVE SocketInv
  BY Zenon
<1> USE SideType, TwoSides
<1>1. \A s \in Side : /\ qp[s] = "INIT" /\ ~connected[s] /\ ~active[s] /\ ~error[s]
                      /\ pending_bl[s] = <<>> /\ wire[s] = <<>> /\ inbox[s] = <<>> /\ handler[s] = "none"
                      /\ wpc[s] = "loop" /\ next[s] = 0
  BY Zenon DEF Init
<1>2. ~took_over
  BY Zenon DEF Init
<1>3. Life
  BY <1>1, <1>2, NoAcks, Zenon DEF Life
<1>4. Len(<<>>) <= 1 /\ 1 .. 0 = {}
  OBVIOUS
<1>5. Messages
  BY <1>1, <1>4, Zenon DEF Messages, NoLostEdge
<1>6. Sends
  BY <1>1, <1>4, ItemsEmpty, ZenonT(90) DEF Sends, SendsOf
<1>7. QED
  BY <1>3, <1>5, <1>6, TypeInit, OrderInit, ZenonT(90) DEF SocketInv, IInv

\* The life of the two sockets, the messages between them and the whereabouts
\* of every buffer, in any interleaving with crashes, resets and closes.
THEOREM SocketInvariant == Spec => []SocketInv
<1>1. SocketInv /\ [Next]_vars => SocketInv'
  BY TypeStep, OrderStep, LifeStep, MessagesStep, SendsStep, ZenonT(90) DEF SocketInv, IInv
<1>2. QED
  BY SocketInit, <1>1, PTL DEF Spec

\* handle_connection reads one message for each event of an edge-triggered
\* descriptor, and still no message waits without an event to come.
THEOREM EdgeForEveryMessage == Spec => []NoLostEdge
<1>1. SocketInv => NoLostEdge
  BY Zenon DEF SocketInv, Messages
<1>2. QED
  BY <1>1, SocketInvariant, PTL

\* A buffer that a "fake send" has queued is posted once the socket is
\* connected and its threads have left it, whichever thread sent it and when.
THEOREM EverySendPosted == Spec => []NothingStranded
<1>1. SocketInv => NothingStranded
  <2> SUFFICES ASSUME SocketInv, NEW s \in Side, connected[s], ~error[s], wpc[s] = "loop", apc[s] = "idle"
               PROVE  Posted(s) \ {Fin} = 1 .. next[s]
    BY Zenon DEF NothingStranded
  <2>1. SendsOf(s) /\ pending_bl[s] = <<>>
    BY Zenon DEF SocketInv, Sends, SendsOf
  <2>2. 1 .. next[s] \subseteq Items(wire[s]) /\ Items(wire[s]) \subseteq 0 .. next[s]
    BY <2>1, ItemsEmpty, Zenon DEF SendsOf
  <2>3. next[s] \in Nat
    BY DEF SocketInv, IInv, TypeOK
  <2>4. \A n \in Nat : 1 .. n = (0 .. n) \ {Fin}
    BY DEF Fin
  <2>5. QED
    BY <2>2, <2>3, <2>4, Zenon DEF Posted, Items
<1>2. QED
  BY <1>1, SocketInvariant, PTL

-----------------------------------------------------------------------------
(* The handshake implements Rendezvous *)

\* What Rendezvous sees of a side
OpenOf(s) == CASE qp[s] = "INIT" -> "no" [] qp[s] = "RTS" -> "yes" [] qp[s] = "ERR" -> "gone"
VerdictOf(s) == IF ~Healthy(s) THEN "failed" ELSE IF connected[s] THEN "up" ELSE "pending"
OnWire(s) == Posted(s) \ {Fin}

LEMMA OpenValues ==
  ASSUME TypeOK, NEW s \in Side
  PROVE  /\ OpenOf(s) = "no" <=> qp[s] = "INIT"
         /\ OpenOf(s) = "yes" <=> qp[s] = "RTS"
         /\ OpenOf(s) = "gone" <=> qp[s] = "ERR"
<1>1. qp[s] \in {"INIT", "RTS", "ERR"}
  BY Zenon DEF TypeOK
<1>2. QED
  BY <1>1 DEF OpenOf

OpenMap == [s \in Side |-> OpenOf(s)]
VerdictMap == [s \in Side |-> VerdictOf(s)]
WireMap == [s \in Side |-> OnWire(s)]

\* A step of Rendezvous, told side by side
LEMMA MapsSame ==
  /\ (\A t \in Side : OpenOf(t)' = OpenOf(t)) => OpenMap' = OpenMap
  /\ (\A t \in Side : VerdictOf(t)' = VerdictOf(t)) => VerdictMap' = VerdictMap
  /\ (\A t \in Side : OnWire(t)' = OnWire(t)) => WireMap' = WireMap
BY Zenon DEF OpenMap, VerdictMap, WireMap

LEMMA MapsMove ==
  ASSUME NEW s \in Side
  PROVE  /\ (\A t \in Side \ {s} : OpenOf(t)' = OpenOf(t)) => OpenMap' = [OpenMap EXCEPT ![s] = OpenOf(s)']
         /\ (\A t \in Side \ {s} : VerdictOf(t)' = VerdictOf(t)) =>
              VerdictMap' = [VerdictMap EXCEPT ![s] = VerdictOf(s)']
         /\ (\A t \in Side \ {s} : OnWire(t)' = OnWire(t)) => WireMap' = [WireMap EXCEPT ![s] = OnWire(s)']
BY Zenon DEF OpenMap, VerdictMap, WireMap

LEMMA MapsAt ==
  ASSUME NEW s \in Side
  PROVE  OpenMap[s] = OpenOf(s) /\ VerdictMap[s] = VerdictOf(s) /\ WireMap[s] = OnWire(s)
BY Zenon DEF OpenMap, VerdictMap, WireMap

LEMMA AbstractSame ==
  ASSUME next' = next,
         \A t \in Side : OpenOf(t)' = OpenOf(t) /\ VerdictOf(t)' = VerdictOf(t) /\ OnWire(t)' = OnWire(t)
  PROVE  UNCHANGED Abstract!vars
<1>1. OpenMap' = OpenMap /\ VerdictMap' = VerdictMap /\ WireMap' = WireMap
  BY MapsSame, Zenon
<1>2. QED
  BY <1>1, Zenon DEF Abstract!vars, OpenMap, VerdictMap, WireMap, OpenOf, VerdictOf, OnWire

LEMMA AbstractOpen ==
  ASSUME NEW s \in Side, next' = next, \A t \in Side : OnWire(t)' = OnWire(t),
         OpenOf(s) = "no", VerdictOf(s) = "pending", s = client => OpenOf(server) # "no",
         OpenOf(s)' = "yes", \A t \in Side \ {s} : OpenOf(t)' = OpenOf(t) /\ VerdictOf(t)' = VerdictOf(t),
         VerdictOf(s)' = "failed" \/ VerdictOf(s)' = IF s = client THEN "up" ELSE "pending"
  PROVE  Abstract!Next
<1>1. /\ OpenMap' = [OpenMap EXCEPT ![s] = OpenOf(s)'] /\ WireMap' = WireMap
      /\ VerdictMap' = [VerdictMap EXCEPT ![s] = VerdictOf(s)']
  BY MapsSame, MapsMove, Zenon
<1>2. /\ OpenMap[s] = "no" /\ VerdictMap[s] = "pending" /\ (s = "client" => OpenMap["server"] # "no")
      /\ OpenMap' = [OpenMap EXCEPT ![s] = "yes"]
      /\ \/ VerdictMap' = [VerdictMap EXCEPT ![s] = IF s = "client" THEN "up" ELSE VerdictMap[s]]
         \/ VerdictMap' = [VerdictMap EXCEPT ![s] = "failed"]
  BY <1>1, MapsAt, SideType, Zenon DEF client, server
<1>3. Abstract!Open(s)
  BY <1>1, <1>2, Zenon DEF Abstract!Open, OpenMap, VerdictMap, WireMap, OpenOf, VerdictOf, OnWire
<1>4. QED
  BY <1>3, Zenon DEF Abstract!Next, Abstract!Sides, Side, client, server

LEMMA AbstractComeUp ==
  ASSUME NEW s \in Side, next' = next, \A t \in Side : OpenOf(t)' = OpenOf(t) /\ OnWire(t)' = OnWire(t),
         VerdictOf(s) = "pending", OpenOf(s) = "yes", OpenOf(Peer(s)) # "no",
         VerdictOf(s)' = "up", \A t \in Side \ {s} : VerdictOf(t)' = VerdictOf(t)
  PROVE  Abstract!Next
<1>1. OpenMap' = OpenMap /\ WireMap' = WireMap /\ VerdictMap' = [VerdictMap EXCEPT ![s] = "up"]
  BY MapsSame, MapsMove, Zenon
<1>2. Abstract!Other(s) = Peer(s)
  BY Zenon DEF Abstract!Other, Peer, client, server
<1>3. VerdictMap[s] = "pending" /\ OpenMap[s] = "yes" /\ OpenMap[Abstract!Other(s)] # "no"
  BY <1>2, MapsAt, SideType, Zenon
<1>4. Abstract!ComeUp(s)
  BY <1>1, <1>3, Zenon DEF Abstract!ComeUp, OpenMap, VerdictMap, WireMap, OpenOf, VerdictOf, OnWire
<1>5. QED
  BY <1>4, Zenon DEF Abstract!Next, Abstract!Sides, Side, client, server

LEMMA AbstractFail ==
  ASSUME NEW s \in Side, next' = next, \A t \in Side : OpenOf(t)' = OpenOf(t) /\ OnWire(t)' = OnWire(t),
         VerdictOf(s)' = "failed", \A t \in Side \ {s} : VerdictOf(t)' = VerdictOf(t)
  PROVE  Abstract!Next
<1>1. OpenMap' = OpenMap /\ WireMap' = WireMap /\ VerdictMap' = [VerdictMap EXCEPT ![s] = "failed"]
  BY MapsSame, MapsMove, Zenon
<1>2. Abstract!Fail(s)
  BY <1>1, Zenon DEF Abstract!Fail, OpenMap, VerdictMap, WireMap, OpenOf, VerdictOf, OnWire
<1>3. QED
  BY <1>2, Zenon DEF Abstract!Next, Abstract!Sides, Side, client, server

LEMMA AbstractRetire ==
  ASSUME NEW s \in Side, next' = next, \A t \in Side : OnWire(t)' = OnWire(t),
         OpenOf(s)' = "gone", VerdictOf(s)' = "failed",
         \A t \in Side \ {s} : OpenOf(t)' = OpenOf(t) /\ VerdictOf(t)' = VerdictOf(t)
  PROVE  Abstract!Next
<1>1. /\ OpenMap' = [OpenMap EXCEPT ![s] = "gone"] /\ WireMap' = WireMap
      /\ VerdictMap' = [VerdictMap EXCEPT ![s] = "failed"]
  BY MapsSame, MapsMove, Zenon
<1>2. Abstract!Retire(s)
  BY <1>1, Zenon DEF Abstract!Retire, OpenMap, VerdictMap, WireMap, OpenOf, VerdictOf, OnWire
<1>3. QED
  BY <1>2, Zenon DEF Abstract!Next, Abstract!Sides, Side, client, server

LEMMA AbstractHandOver ==
  ASSUME NEW s \in Side, next[s] < MaxSends, next' = [next EXCEPT ![s] = next[s] + 1],
         \A t \in Side : OpenOf(t)' = OpenOf(t) /\ VerdictOf(t)' = VerdictOf(t) /\ OnWire(t)' = OnWire(t)
  PROVE  Abstract!Next
<1>1. OpenMap' = OpenMap /\ VerdictMap' = VerdictMap /\ WireMap' = WireMap
  BY MapsSame, Zenon
<1>2. Abstract!HandOver(s)
  BY <1>1, Zenon DEF Abstract!HandOver, OpenMap, VerdictMap, WireMap, OpenOf, VerdictOf, OnWire
<1>3. QED
  BY <1>2, Zenon DEF Abstract!Next, Abstract!Sides, Side, client, server

LEMMA AbstractPost ==
  ASSUME NEW s \in Side, OpenOf(s) = "yes", VerdictOf(s) # "pending",
         VerdictOf(s) = "up" => OpenOf(Peer(s)) # "no",
         \/ next[s] < MaxSends /\ next' = [next EXCEPT ![s] = next[s] + 1]
         \/ next' = next,
         NEW more \in SUBSET (1 .. next'[s]), OnWire(s)' = OnWire(s) \cup more,
         \A t \in Side \ {s} : OnWire(t)' = OnWire(t),
         \A t \in Side : OpenOf(t)' = OpenOf(t) /\ VerdictOf(t)' = VerdictOf(t)
  PROVE  Abstract!Next
<1>1. /\ OpenMap' = OpenMap /\ VerdictMap' = VerdictMap
      /\ WireMap' = [WireMap EXCEPT ![s] = WireMap[s] \cup more]
  BY MapsSame, MapsMove, MapsAt, Zenon
<1>2. Abstract!Other(s) = Peer(s)
  BY Zenon DEF Abstract!Other, Peer, client, server
<1>3. /\ OpenMap[s] = "yes" /\ VerdictMap[s] # "pending"
      /\ VerdictMap[s] = "up" => OpenMap[Abstract!Other(s)] # "no"
  BY <1>2, MapsAt, SideType, Zenon
<1>4. Abstract!Post(s)
  BY <1>1, <1>3, Zenon DEF Abstract!Post, OpenMap, VerdictMap, WireMap, OpenOf, VerdictOf, OnWire
<1>5. QED
  BY <1>4, Zenon DEF Abstract!Next, Abstract!Sides, Side, client, server

LEMMA SeenSame ==
  ASSUME NEW t \in Side
  PROVE  /\ qp'[t] = qp[t] => OpenOf(t)' = OpenOf(t)
         /\ (error'[t] <=> error[t]) /\ (connected'[t] <=> connected[t]) /\ (t = server => took_over' = took_over) =>
              VerdictOf(t)' = VerdictOf(t)
         /\ error'[t] => VerdictOf(t)' = "failed"
         /\ wire'[t] = wire[t] => OnWire(t)' = OnWire(t)
<1>1. qp'[t] = qp[t] => OpenOf(t)' = OpenOf(t)
  BY Zenon DEF OpenOf
<1>2. ASSUME error'[t] <=> error[t], connected'[t] <=> connected[t], t = server => took_over' = took_over
      PROVE  VerdictOf(t)' = VerdictOf(t)
  <2>1. Healthy(t)' <=> Healthy(t)
    BY <1>2 DEF Healthy
  <2>2. QED
    BY <1>2, <2>1, Zenon DEF VerdictOf
<1>3. error'[t] => VerdictOf(t)' = "failed"
  BY Zenon DEF VerdictOf, Healthy
<1>4. wire'[t] = wire[t] => OnWire(t)' = OnWire(t)
  BY Zenon DEF OnWire, Posted
<1>5. QED
  BY <1>1, <1>2, <1>3, <1>4, Zenon

\* Every step of the handshake is one of Rendezvous, or none.
LEMMA RendezvousStep ==
  ASSUME SocketInv, [Next]_vars
  PROVE  Abstract!Next \/ UNCHANGED Abstract!vars
<1> USE SideType, TwoSides
<1>0. TypeOK /\ Order /\ Life /\ Messages /\ Sends
  BY Zenon DEF SocketInv, IInv
<1>t. /\ qp \in [Side -> {"INIT", "RTS", "ERR"}] /\ connected \in [Side -> BOOLEAN]
      /\ error \in [Side -> BOOLEAN] /\ took_over \in BOOLEAN
  BY <1>0, Zenon DEF TypeOK
<1>1. ASSUME NEW s \in Side, fault(s), UNCHANGED <<qp, sendVars, took_over>>
      PROVE  Abstract!Next
  <2>1. error'[s] /\ \A t \in Side \ {s} : error'[t] = error[t] /\ connected'[t] = connected[t]
    BY <1>t, <1>1, Zenon DEF fault
  <2>2. QED
    BY <1>1, <2>1, SeenSame, AbstractFail, Zenon DEF sendVars
<1>2. ASSUME \/ \E s \in Side : ClosedHandler(s) \/ WriteCallback(s) \/ NotifyEvent(s) \/ Crash(s)
                                \/ CleanupClose(s) \/ CleanupDelete(s)
             \/ TcpConnect \/ TcpBreak \/ Accept \/ Register(server) \/ ProcessConnecting \/ ProcessAccepting
             \/ UNCHANGED vars
      PROVE  UNCHANGED Abstract!vars
  <2>1. UNCHANGED <<qp, connected, error, took_over, next, wire>>
    BY <1>2, Zenon DEF ClosedHandler, WriteCallback, NotifyEvent, Crash, CleanupClose, CleanupDelete, TcpConnect,
                       TcpBreak, Accept, Register, ProcessConnecting, ProcessAccepting, vars, sockVars, sendVars
  <2>2. QED
    BY <2>1, SeenSame, AbstractSame, Zenon
<1>3. ASSUME NEW s \in Side, connected[s]
      PROVE  /\ VerdictOf(s) # "pending" /\ (~error[s] => OpenOf(s) = "yes")
             /\ VerdictOf(s) = "up" => OpenOf(Peer(s)) # "no"
  <2>1. VerdictOf(s) # "pending" /\ (VerdictOf(s) = "up" => Healthy(s))
    BY <1>3, Zenon DEF VerdictOf
  <2>2. ~error[s] => OpenOf(s) = "yes"
    BY <1>0, <1>3, OpenValues, Zenon DEF Life
  <2>3. CASE s = client /\ Healthy(s)
    <3>1. qp[server] # "INIT" /\ Peer(s) = server
      BY <1>0, <1>3, <2>3, Zenon DEF Life, Order, HandshakeOrder, Healthy, Peer
    <3>2. QED
      BY <1>0, <2>1, <2>2, <3>1, OpenValues, ZenonT(90)
  <2>4. CASE s = server /\ Healthy(s)
    <3>1. qp[client] # "INIT" /\ Peer(s) = client
      BY <1>0, <1>3, <2>4, Zenon DEF Order, HandshakeOrder, Healthy, Peer
    <3>2. QED
      BY <1>0, <2>1, <2>2, <3>1, OpenValues, ZenonT(90)
  <2>5. QED
    BY <2>1, <2>2, <2>3, <2>4, Zenon
<1>4. ASSUME NEW s \in Side, WorkerSubmit(s) \/ SendSubmit(s) \/ ReadSubmit(s)
      PROVE  Abstract!Next \/ UNCHANGED Abstract!vars
  <2>1. /\ submit(s) /\ UNCHANGED <<qp, connected, error, took_over>>
        /\ wpc[s] = "submit" \/ apc[s] \in {"submit", "resubmit"}
    BY <1>4, Zenon DEF WorkerSubmit, WorkerIn, SendSubmit, ReadSubmit, AppAt, sockVars
  <2>2. connected[s]
    <3>1. CASE wpc[s] = "submit" \/ apc[s] = "submit"
      BY <1>0, <3>1, Zenon DEF Order, ThreadsConnected
    <3>2. CASE apc[s] = "resubmit"
      BY <1>0, <3>2, Zenon DEF Order, ThreadsConnected, Life
    <3>3. QED
      BY <2>1, <3>1, <3>2, Zenon
  <2>3. /\ next' = next /\ \A t \in Side \ {s} : wire'[t] = wire[t]
        /\ \/ error[s] /\ wire' = wire
           \/ /\ ~error[s]
              /\ Items(wire'[s])
                 = Items(wire[s]) \cup (IF qp[s] = "RTS" THEN Items(pending_bl[s]) ELSE {})
    BY <1>0, <2>1, SubmitEffect, Zenon
  <2>4. CASE error[s]
    BY <2>1, <2>3, <2>4, SeenSame, AbstractSame, ZenonT(90)
  <2>5. CASE ~error[s]
    <3>1. qp[s] = "RTS" /\ OpenOf(s) = "yes"
      BY <1>0, <1>3, <2>2, <2>5, OpenValues, ZenonT(90)
    <3>2. Items(pending_bl[s]) \in SUBSET (1 .. next'[s]) /\ Fin \notin 1 .. next'[s]
      <4>1. Items(pending_bl[s]) \in SUBSET (1 .. next'[s])
        BY <1>0, <2>3, Zenon DEF Sends, SendsOf
      <4>2. Fin \notin 1 .. next'[s]
        BY DEF Fin
      <4>3. QED
        BY <4>1, <4>2, Zenon
    <3>3. OnWire(s)' = OnWire(s) \cup Items(pending_bl[s])
      <4>1. Items(wire'[s]) = Items(wire[s]) \cup Items(pending_bl[s])
        BY <2>3, <2>5, <3>1, Zenon
      <4>2. OnWire(s) = Items(wire[s]) \ {Fin} /\ OnWire(s)' = Items(wire'[s]) \ {Fin}
        BY Zenon DEF OnWire, Posted, Items
      <4>3. QED
        BY <3>2, <4>1, <4>2, Zenon
    <3>4. VerdictOf(s) # "pending" /\ (VerdictOf(s) = "up" => OpenOf(Peer(s)) # "no")
      BY <1>3, <2>2, Zenon
    <3>5. /\ \A t \in Side \ {s} : OnWire(t)' = OnWire(t)
          /\ \A t \in Side : OpenOf(t)' = OpenOf(t) /\ VerdictOf(t)' = VerdictOf(t)
      BY <2>1, <2>3, SeenSame, Zenon
    <3>6. QED
      BY <2>3, <3>1, <3>2, <3>3, <3>4, <3>5, AbstractPost, ZenonT(90)
  <2>6. QED
    BY <2>4, <2>5, Zenon
<1>5. ASSUME NEW s \in Side, Send(s) \/ SendChunks(s)
      PROVE  Abstract!Next
  <2>1. /\ next' = [next EXCEPT ![s] = next[s] + 1] /\ next[client] + next[server] < MaxSends
        /\ UNCHANGED <<qp, connected, error, took_over>>
    BY <1>5, Zenon DEF Send, SendChunks, sockVars
  <2>2. /\ next \in [Side -> 0 .. MaxSends] /\ next[client] \in 0 .. MaxSends /\ next[server] \in 0 .. MaxSends
    BY <1>0, ZenonT(90) DEF TypeOK
  <2>3. \A a, b \in 0 .. MaxSends : a + b < MaxSends =>
          /\ a < MaxSends /\ a + 1 \in Buffers /\ a + 1 \in 1 .. a + 1
          /\ b < MaxSends /\ b + 1 \in Buffers /\ b + 1 \in 1 .. b + 1
    BY ConstantsAssumption DEF Buffers
  <2>4. next[s] < MaxSends /\ next[s] + 1 \in Buffers /\ next[s] + 1 \in 1 .. next'[s]
    <3>1. next[s] < MaxSends /\ next[s] + 1 \in Buffers /\ next[s] + 1 \in 1 .. next[s] + 1
      BY <2>1, <2>2, <2>3, Zenon
    <3>2. next'[s] = next[s] + 1
      BY <2>1, <2>2, Zenon
    <3>3. QED
      BY <3>1, <3>2, Zenon
  <2>5. \A t \in Side : OpenOf(t)' = OpenOf(t) /\ VerdictOf(t)' = VerdictOf(t)
    BY <2>1, SeenSame, Zenon
  <2>6. ASSUME \A t \in Side : OnWire(t)' = OnWire(t) PROVE Abstract!Next
    BY <2>1, <2>4, <2>5, <2>6, AbstractHandOver, ZenonT(90)
  <2>7. CASE Send(s)
    <3>1. wire' = wire
      BY <2>7, Zenon DEF Send
    <3>2. QED
      BY <2>6, <3>1, SeenSame, Zenon
  <2>8. CASE SendChunks(s)
    <3> DEFINE x == next[s] + 1
    <3>1. connected[s] /\ post_work_request(s, <<x>>)
      BY <2>8, Zenon DEF SendChunks
    <3>2. x \in Buffers /\ x \in 1 .. next'[s]
      BY <2>4, Zenon
    <3> HIDE DEF x
    <3>3. /\ <<x>> \in Seq(Buffers) /\ Items(<<x>>) = {x} /\ x # Fin
      <4>1. <<x>> = Append(<<>>, x) /\ <<>> \in Seq(Buffers) /\ <<x>> \in Seq(Buffers)
        BY <3>2
      <4>2. Items(Append(<<>>, x)) = Items(<<>>) \cup {x}
        BY <3>2, <4>1, BuffersAppend, Zenon
      <4>3. x # Fin
        BY <3>2 DEF Fin, Buffers
      <4>4. QED
        BY <4>1, <4>2, <4>3, ItemsEmpty, SMTT(60)
    <3>4. /\ \A t \in Side \ {s} : wire'[t] = wire[t]
          /\ Items(wire'[s]) = Items(wire[s]) \cup (IF qp[s] = "RTS" THEN {x} ELSE {})
      BY <1>0, <3>1, <3>3, PostEffect, ZenonT(90)
    <3>5. OnWire(s) = Items(wire[s]) \ {Fin} /\ OnWire(s)' = Items(wire'[s]) \ {Fin}
      BY Zenon DEF OnWire, Posted, Items
    <3>6. \A t \in Side \ {s} : OnWire(t)' = OnWire(t)
      BY <3>4, SeenSame, Zenon
    <3>7. CASE qp[s] = "RTS"
      <4>1. OnWire(s)' = OnWire(s) \cup {x} /\ {x} \in SUBSET (1 .. next'[s])
        BY <3>2, <3>3, <3>4, <3>5, <3>7, ZenonT(90)
      <4>2. OpenOf(s) = "yes"
        BY <1>0, <3>7, OpenValues, Zenon
      <4>3. QED
        BY <1>3, <2>1, <2>4, <2>5, <3>1, <3>6, <4>1, <4>2, AbstractPost, ZenonT(90)
    <3>8. CASE qp[s] # "RTS"
      BY <2>6, <3>4, <3>5, <3>6, <3>8, ZenonT(90)
    <3>9. QED
      BY <3>7, <3>8, Zenon
  <2>9. QED
    BY <1>5, <2>7, <2>8, Zenon
<1>6. ASSUME NEW s \in Side, RecvFailed(s) \/ LateMessage(s)
      PROVE  Abstract!Next
  BY <1>0, <1>1, <1>6, FaultEffect, Zenon
<1>7. ASSUME ClientActivate
      PROVE  Abstract!Next
  <2>1. /\ inbox[client] # <<>> /\ handler[client] = "read" /\ ~connected[client]
        /\ qp' = [qp EXCEPT ![client] = "RTS"] /\ connected' = [connected EXCEPT ![client] = TRUE]
        /\ UNCHANGED <<error, sendVars, took_over>>
    BY <1>0, <1>7, ClientActivateEffect, Zenon
  <2>2. qp[client] \notin {"RTS", "ERR"} /\ ~error[client] /\ qp[server] # "INIT"
    <3>1. qp[client] # "ERR" /\ qp[client] # "RTS"
      BY <1>0, <2>1, Zenon DEF Life
    <3>2. ~error[client]
      BY <1>0, <2>1, <3>1, Zenon DEF Life
    <3>3. qp[server] # "INIT"
      BY <1>0, <2>1, Zenon DEF Order, HandshakeOrder
    <3>4. QED
      BY <3>1, <3>2, <3>3, Zenon
  <2>3. /\ qp'[client] = "RTS" /\ qp'[server] = qp[server] /\ connected'[client]
        /\ connected'[server] = connected[server]
    BY <1>t, <2>1, Zenon
  <2>4. OpenOf(client) = "no" /\ OpenOf(server) # "no" /\ OpenOf(client)' = "yes"
    <3>1. OpenOf(client) = "no" /\ OpenOf(server) # "no"
      BY <1>0, <1>t, <2>2, OpenValues, Zenon
    <3>2. OpenOf(client)' = "yes"
      BY <2>3, Zenon DEF OpenOf
    <3>3. QED
      BY <3>1, <3>2, Zenon
  <2>5. VerdictOf(client) = "pending" /\ VerdictOf(client)' = "up"
    BY <2>1, <2>2, <2>3, Zenon DEF VerdictOf, Healthy
  <2>6. OpenOf(server)' = OpenOf(server) /\ VerdictOf(server)' = VerdictOf(server)
        /\ \A t \in Side : OnWire(t)' = OnWire(t)
    BY <2>1, <2>3, SeenSame, Zenon DEF sendVars
  <2>7. QED
    BY <2>1, <2>4, <2>5, <2>6, AbstractOpen, Zenon DEF sendVars
<1>8. ASSUME ServerActivate
      PROVE  Abstract!Next \/ UNCHANGED Abstract!vars
  <2>1. /\ ~connected[server] /\ qp' = [qp EXCEPT ![server] = "RTS"] /\ UNCHANGED <<sendVars, took_over>>
        /\ \/ UNCHANGED <<connected, error>>
           \/ ~active[server] /\ fault(server)
    BY <1>0, <1>8, ServerActivateEffect, Zenon
  <2>2. qp'[server] = "RTS" /\ qp'[client] = qp[client] /\ \A t \in Side : OnWire(t)' = OnWire(t)
    BY <1>t, <2>1, SeenSame, Zenon DEF sendVars
  <2>3. CASE active[server]
    <3>1. \A t \in Side : qp'[t] = qp[t]
      BY <1>0, <2>2, <2>3, Zenon DEF Life
    <3>2. QED
      BY <2>1, <2>2, <2>3, <3>1, SeenSame, AbstractSame, ZenonT(90) DEF sendVars
  <2>4. CASE ~active[server]
    <3>1. qp[server] = "INIT" /\ ~error[server] /\ ~took_over
      BY <1>0, <1>t, <2>1, <2>4, Zenon DEF Life
    <3>2. OpenOf(server) = "no" /\ OpenOf(server)' = "yes"
      BY <2>2, <3>1, Zenon DEF OpenOf
    <3>3. VerdictOf(server) = "pending"
      BY <2>1, <3>1, Zenon DEF VerdictOf, Healthy
    <3>4. OpenOf(client)' = OpenOf(client)
      BY <2>2, SeenSame, Zenon
    <3>5. CASE UNCHANGED <<connected, error>>
      <4>1. VerdictOf(server)' = "pending" /\ VerdictOf(client)' = VerdictOf(client)
        BY <2>1, <3>3, <3>5, SeenSame, Zenon
      <4>2. QED
        BY <2>1, <2>2, <3>2, <3>3, <3>4, <4>1, AbstractOpen, ZenonT(90) DEF sendVars
    <3>6. CASE fault(server)
      <4>1. error'[server] /\ error'[client] = error[client] /\ connected'[client] = connected[client]
        BY <1>t, <3>6, Zenon DEF fault
      <4>2. VerdictOf(server)' = "failed" /\ VerdictOf(client)' = VerdictOf(client)
        BY <2>1, <4>1, SeenSame, Zenon
      <4>3. QED
        BY <2>1, <2>2, <3>2, <3>3, <3>4, <4>2, AbstractOpen, ZenonT(90) DEF sendVars
    <3>7. QED
      BY <2>1, <3>5, <3>6, Zenon
  <2>5. QED
    BY <2>3, <2>4, Zenon
<1>9. ASSUME ServerConnected
      PROVE  Abstract!Next
  <2>1. /\ Acks(inbox[server]) # {} /\ ~connected[server]
        /\ connected' = [connected EXCEPT ![server] = TRUE]
        /\ UNCHANGED <<qp, error, sendVars, took_over>>
    BY <1>0, <1>9, ServerConnectedEffect, Zenon
  <2>2. qp[server] # "INIT" /\ qp[server] # "ERR" /\ ~error[server] /\ ~took_over
    BY <1>0, <2>1, Zenon DEF Life
  <2>3. qp[client] # "INIT"
    BY <1>0, <2>1, OrderOfAcks, Zenon DEF Order
  <2>4. OpenOf(server) = "yes" /\ OpenOf(client) # "no" /\ Peer(server) = client
    BY <1>0, <1>t, <2>2, <2>3, OpenValues, ZenonT(90) DEF Peer
  <2>5. connected'[server] /\ connected'[client] = connected[client]
    BY <1>t, <2>1, Zenon
  <2>6. VerdictOf(server) = "pending" /\ VerdictOf(server)' = "up"
    BY <2>1, <2>2, <2>5, Zenon DEF VerdictOf, Healthy
  <2>7. VerdictOf(client)' = VerdictOf(client) /\ \A t \in Side : OpenOf(t)' = OpenOf(t) /\ OnWire(t)' = OnWire(t)
    BY <2>1, <2>5, SeenSame, Zenon DEF sendVars
  <2>8. QED
    BY <2>1, <2>4, <2>6, <2>7, AbstractComeUp, ZenonT(90) DEF sendVars
<1>10. ASSUME handle_connection_established \/ ClientAck
       PROVE  Abstract!Next \/ UNCHANGED Abstract!vars
  <2>1. UNCHANGED <<qp, sendVars, took_over>> /\ (UNCHANGED <<connected, error>> \/ fault(client))
    BY <1>0, <1>10, EstablishedEffect, AckEffect, Zenon
  <2>2. QED
    BY <1>1, <2>1, SeenSame, AbstractSame, Zenon DEF sendVars
<1>11. ASSUME NEW s \in Side, Read(s)
       PROVE  Abstract!Next \/ UNCHANGED Abstract!vars
  <2>1. /\ UNCHANGED <<qp, sendVars>> /\ (error[s] => error'[s])
        /\ \A t \in Side \ {s} : error'[t] = error[t]
        /\ \/ UNCHANGED <<connected, took_over>>
           \/ s = server /\ connected' = [connected EXCEPT ![s] = TRUE] /\ took_over' = TRUE
    BY <1>0, <1>11, ReadEffect, Zenon
  <2>2. \A t \in Side : OpenOf(t)' = OpenOf(t) /\ OnWire(t)' = OnWire(t)
    BY <2>1, SeenSame, Zenon DEF sendVars
  <2>3. CASE UNCHANGED <<connected, took_over>>
    <3>1. \A t \in Side \ {s} : VerdictOf(t)' = VerdictOf(t)
      BY <2>1, <2>3, SeenSame, Zenon
    <3>2. error'[s] => VerdictOf(s)' = "failed"
      BY SeenSame, Zenon
    <3>3. ~error'[s] => VerdictOf(s)' = VerdictOf(s)
      BY <2>1, <2>3, SeenSame, Zenon
    <3>4. QED
      BY <2>1, <2>2, <3>1, <3>2, <3>3, AbstractFail, AbstractSame, ZenonT(90) DEF sendVars
  <2>4. CASE s = server /\ connected' = [connected EXCEPT ![s] = TRUE] /\ took_over' = TRUE
    <3>1. connected'[client] = connected[client] /\ error'[client] = error[client]
      BY <1>t, <2>1, <2>4, Zenon
    <3>2. VerdictOf(client)' = VerdictOf(client)
      BY <3>1, SeenSame, Zenon
    <3>3. VerdictOf(server)' = "failed"
      BY <2>4, Zenon DEF VerdictOf, Healthy
    <3>4. QED
      BY <2>1, <2>2, <3>2, <3>3, AbstractFail, ZenonT(90) DEF sendVars
  <2>5. QED
    BY <2>1, <2>3, <2>4, Zenon
<1>12. ASSUME CloseSocket
       PROVE  Abstract!Next
  <2>1. /\ qp'[client] = "ERR" /\ qp'[server] = qp[server]
        /\ error'[client] /\ error'[server] = error[server] /\ wire'[server] = wire[server]
        /\ wire'[client] \in {wire[client], Append(wire[client], Fin)}
        /\ UNCHANGED <<connected, next, took_over>>
    BY <1>0, <1>12, CloseEffect, Zenon
  <2>2. OpenOf(client)' = "gone"
    BY <2>1, Zenon DEF OpenOf
  <2>3. VerdictOf(client)' = "failed" /\ VerdictOf(server)' = VerdictOf(server) /\ OpenOf(server)' = OpenOf(server)
        /\ OnWire(server)' = OnWire(server)
    BY <2>1, SeenSame, Zenon
  <2>4. OnWire(client)' = OnWire(client)
    <3>1. wire[client] \in Seq(Buffers \cup {Fin})
      BY <1>0, Zenon DEF TypeOK
    <3>2. Items(wire'[client]) = Items(wire[client]) \/ Items(wire'[client]) = Items(wire[client]) \cup {Fin}
      BY <2>1, <3>1, BuffersAppend, Zenon
    <3>3. OnWire(client) = Items(wire[client]) \ {Fin} /\ OnWire(client)' = Items(wire'[client]) \ {Fin}
      BY Zenon DEF OnWire, Posted, Items
    <3>4. QED
      BY <3>2, <3>3, Zenon
  <2>5. QED
    BY <2>1, <2>2, <2>3, <2>4, AbstractRetire, ZenonT(90)
<1>13. QED
  BY <1>2, <1>4, <1>5, <1>6, <1>7, <1>8, <1>9, <1>10, <1>11, <1>12, ZenonT(90)
  DEF Next, Handlers, handle_connection, Calls, ClientSteps, ServerSteps, Environment

LEMMA RendezvousInit == Init => Abstract!Init
<1> SUFFICES ASSUME Init PROVE Abstract!Init
  BY Zenon
<1>1. ~took_over /\ next = [s \in Side |-> 0]
      /\ \A s \in Side : qp[s] = "INIT" /\ ~connected[s] /\ ~error[s] /\ wire[s] = <<>>
  BY Zenon DEF Init
<1>2. \A s \in Side : OpenOf(s) = "no" /\ VerdictOf(s) = "pending"
  BY <1>1, Zenon DEF OpenOf, VerdictOf, Healthy
<1>3. \A s \in Side : OnWire(s) = {}
  BY <1>1, ItemsEmpty, Zenon DEF OnWire, Posted, Items
<1>4. /\ OpenMap = [s \in Side |-> "no"] /\ VerdictMap = [s \in Side |-> "pending"]
      /\ WireMap = [s \in Side |-> {}]
  BY <1>2, <1>3, Zenon DEF OpenMap, VerdictMap, WireMap
<1>5. Side = Abstract!Sides
  BY Zenon DEF Side, client, server, Abstract!Sides
<1>6. QED
  BY <1>1, <1>4, <1>5, Zenon DEF Abstract!Init, OpenMap, VerdictMap, WireMap, OpenOf, VerdictOf, OnWire

\* The threads, messages and handlers of the two sockets implement Rendezvous:
\* a socket comes up only when both queue pairs are open, and what a healthy
\* one posts was handed to it and finds the peer's queue pair open.
THEOREM HandshakeRefinesRendezvous == Spec => ImplementsRendezvous
<1>1. SocketInv /\ [Next]_vars => [Abstract!Next]_Abstract!vars
  BY RendezvousStep, Zenon
<1>2. QED
  BY <1>1, RendezvousInit, SocketInvariant, PTL DEF Spec, ImplementsRendezvous, Abstract!Spec

-----------------------------------------------------------------------------
(* Faults and their reasons *)

\* Who may still get a message.  A connected client that has one left to read
\* has failed; the acknowledgement reaches a server that waits for it, unless
\* read() has ended the handshake, and then the callback is closed.
Late ==
  /\ connected[client] /\ inbox[client] # <<>> => error[client]
  /\ connected[server] /\ ~error[server] /\ ~took_over =>
       connected[client] /\ wpc[client] = "loop" /\ inbox[server] = <<>>
  /\ took_over => qp[server] = "RTS" /\ (handler[server] = "read" => apc[server] = "close")

\* The server's descriptor is registered once, before anything else happens
\* to its socket.
Registration ==
  /\ state[server] \in {"NONE", "ACCEPTING", "ESTABLISHED"}
  /\ state[server] = "NONE" => handler[server] = "none" /\ qp[server] = "INIT" /\ external[server] = <<>>
  /\ "register" \in Items(external[server]) =>
       /\ external[server] = <<"register", "process">>
       /\ handler[server] = "none" /\ qp[server] = "INIT"

\* Only close() sends a Fin, and only process() starts the TCP connection.
Fins == \A s \in Side : Fin \in Items(wire[s]) => state[client] = "CLOSED"
Unconnected == state[client] = "CONNECTING" => tcp = "none"

FaultInv == Late /\ Registration /\ Fins /\ Unconnected

\* What justifies a fault()
Reason == tcp \in {"refused", "broken"} \/ state[client] = "CLOSED"

\* A step that connects nobody without a fault, and sends nothing
LEMMA LateFrame ==
  ASSUME Late, qp'[server] = qp[server], took_over' => took_over, took_over => took_over',
         \A t \in Side : /\ connected'[t] => connected[t] \/ error'[t]
                         /\ connected[t] => connected'[t]
                         /\ error[t] => error'[t]
                         /\ inbox'[t] = inbox[t] \/ inbox'[t] = <<>>,
         wpc[client] = "loop" => wpc'[client] = "loop",
         handler'[server] = "read" => /\ handler[server] = "read"
                                      /\ apc[server] = "close" => apc'[server] = "close"
  PROVE  Late'
<1>1. connected'[client] /\ inbox'[client] # <<>> => error'[client]
  BY SideType, Zenon DEF Late
<1>2. connected'[server] /\ ~error'[server] /\ ~took_over' =>
        connected'[client] /\ wpc'[client] = "loop" /\ inbox'[server] = <<>>
  BY SideType, Zenon DEF Late
<1>3. took_over' => qp'[server] = "RTS" /\ (handler'[server] = "read" => apc'[server] = "close")
  BY Zenon DEF Late
<1>4. QED
  BY <1>1, <1>2, <1>3, Zenon DEF Late

LEMMA ItemsTail ==
  ASSUME NEW S, NEW q \in Seq(S), q # <<>>
  PROVE  Items(Tail(q)) \subseteq Items(q)
<1>1. \A i \in 1 .. Len(Tail(q)) : i + 1 \in 1 .. Len(q) /\ Tail(q)[i] = q[i + 1]
  OBVIOUS
<1>2. QED
  BY <1>1, Zenon DEF Items

LEMMA HeadItem ==
  \A q \in Seq({"register", "process", "write_callback"}) : q # <<>> => Head(q) \in Items(q)
<1>1. \A q \in Seq({"register", "process", "write_callback"}) : q # <<>> => 1 \in 1 .. Len(q) /\ Head(q) = q[1]
  OBVIOUS
<1>2. QED
  BY <1>1, Zenon DEF Items

\* An event that is taken from the queue never puts a registration into it.
LEMMA QueueTake ==
  ASSUME TypeOK, Registration, NEW s \in Side, NEW e,
         NEW more \in Seq({"process", "write_callback"}), External(s, e, more)
  PROVE  /\ "register" \in Items(external'[server]) => external'[server] = external[server]
         /\ external[server] = <<>> => external'[server] = <<>>
<1> DEFINE K == {"register", "process", "write_callback"}
           q == external[server]
<1>1. external \in [Side -> Seq(K)] /\ q \in Seq(K)
  BY SideType, Zenon DEF TypeOK
<1>2. external' = [external EXCEPT ![s] = Tail(external[s]) \o more] /\ external[s] # <<>>
  BY Zenon DEF External
<1>3. CASE s # server
  BY <1>1, <1>2, <1>3, SideType, Zenon
<1>4. CASE s = server
  <2>1. external'[server] = Tail(q) \o more /\ q # <<>>
    BY <1>1, <1>2, <1>4, SideType, Zenon
  <2>2. "register" \notin Items(more)
    <3>1. \A i \in 1 .. Len(more) : more[i] # "register"
      OBVIOUS
    <3>2. QED
      BY <3>1, Zenon DEF Items
  <2>3. "register" \notin Items(Tail(q))
    <3>1. CASE "register" \in Items(q)
      <4>1. q = <<"register", "process">>
        BY <3>1, Zenon DEF Registration
      <4>2. Tail(<<"register", "process">>) = <<"process">>
        OBVIOUS
      <4>3. \A i \in 1 .. Len(<<"process">>) : <<"process">>[i] # "register"
        OBVIOUS
      <4>4. QED
        BY <4>1, <4>2, <4>3, Zenon DEF Items
    <3>2. CASE "register" \notin Items(q)
      <4> HIDE DEF q, K
      <4>1. Items(Tail(q)) \subseteq Items(q)
        BY <1>1, <2>1, ItemsTail, SMTT(60)
      <4>2. QED
        BY <3>2, <4>1, Zenon
    <3>3. QED
      BY <3>1, <3>2, Zenon
  <2> DEFINE r == Tail(q)
  <2>4. r \in Seq(K) /\ more \in Seq(K)
    BY <1>1, <2>1, SMTT(60)
  <2> HIDE DEF r, K
  <2>5. Items(r \o more) = Items(r) \cup Items(more)
    BY <2>4, ItemsConcat
  <2>6. QED
    BY <2>1, <2>2, <2>3, <2>5, ZenonT(90) DEF r
<1>5. QED
  BY <1>3, <1>4, Zenon

LEMMA RegistrationFrame ==
  ASSUME Registration, state'[server] \in {state[server], "ESTABLISHED"},
         "register" \in Items(external'[server]) => external'[server] = external[server],
         external[server] = <<>> => external'[server] = <<>>,
         handler[server] = "none" => handler'[server] = "none" /\ qp'[server] = qp[server]
  PROVE  Registration'
<1>1. state'[server] = state[server] \/ state'[server] = "ESTABLISHED"
  BY Zenon
<1>2. "register" \in Items(external'[server]) => "register" \in Items(external[server])
  BY Zenon
<1>3. state'[server] = "NONE" => handler'[server] = "none" /\ qp'[server] = "INIT" /\ external'[server] = <<>>
  BY <1>1, Zenon DEF Registration
<1>4. "register" \in Items(external'[server]) =>
        /\ external'[server] = <<"register", "process">>
        /\ handler'[server] = "none" /\ qp'[server] = "INIT"
  BY <1>2, Zenon DEF Registration
<1>5. QED
  BY <1>1, <1>3, <1>4, Zenon DEF Registration, Items

LEMMA RegistrationStep ==
  ASSUME TypeOK, Registration, [Next]_vars
  PROVE  Registration'
<1> USE SideType, TwoSides
<1>t. /\ qp \in [Side -> {"INIT", "RTS", "ERR"}]
      /\ state \in [Side -> {"NONE", "CONNECTING", "CONNECTING_RE", "ACCEPTING", "ESTABLISHED", "CLOSED"}]
      /\ handler \in [Side -> {"none", "established", "read", "closed"}]
      /\ external \in [Side -> Seq({"register", "process", "write_callback"})]
  BY Zenon DEF TypeOK
<1>1. ASSUME \/ \E s \in Side : RecvFailed(s) \/ LateMessage(s) \/ WorkerSubmit(s) \/ ClosedHandler(s) \/ Crash(s)
                                \/ Send(s) \/ SendSubmit(s) \/ SendChunks(s) \/ Read(s) \/ ReadSubmit(s)
             \/ ServerConnected \/ ClientAck \/ TcpConnect \/ TcpBreak \/ UNCHANGED vars
      PROVE  Registration'
  <2>1. UNCHANGED <<qp, state, handler, external>>
    BY <1>1, ZenonT(90) DEF RecvFailed, LateMessage, WorkerSubmit, ClosedHandler, Crash, Send, SendSubmit, SendChunks, Read,
       ReadSubmit, ServerConnected, ClientAck, TcpConnect, TcpBreak, ReadHandlerKeeps, vars, sockVars, tcpVars, connVars
  <2>2. QED
    BY <2>1, Zenon DEF Registration, Items
<1>2. ASSUME ClientActivate \/ CloseSocket \/ handle_connection_established
      PROVE  Registration'
  <2>1. /\ external' = external
        /\ state' = state \/ state' = [state EXCEPT ![client] = "CLOSED"]
        /\ qp' = qp \/ qp' = [qp EXCEPT ![client] = "RTS"] \/ qp' = [qp EXCEPT ![client] = "ERR"]
        /\ handler' = handler \/ \E h \in {"none", "read"} : handler' = [handler EXCEPT ![client] = h]
    BY <1>2, Zenon DEF ClientActivate, CloseSocket, handle_connection_established, ReadHandlerKeeps
  <2>2. state'[server] = state[server] /\ qp'[server] = qp[server]
    BY <1>t, <2>1, Zenon
  <2>3. handler'[server] = handler[server]
    BY <1>t, <2>1, Zenon
  <2>4. QED
    BY <2>1, <2>2, <2>3, RegistrationFrame, ZenonT(90)
<1>3. ASSUME ServerActivate
      PROVE  Registration'
  <2>1. handler[server] = "read" /\ UNCHANGED <<handler, state, external>>
    BY <1>3, Zenon DEF ServerActivate, Received, TcpEvent, ReadHandlerKeeps
  <2>2. QED
    BY <2>1, RegistrationFrame, Zenon
<1>4. ASSUME NEW s \in Side, CleanupClose(s) \/ CleanupDelete(s)
      PROVE  Registration'
  <2>1. /\ UNCHANGED <<qp, state, external>>
        /\ \/ handler' = [handler EXCEPT ![s] = IF handler[s] = "read" THEN "closed" ELSE handler[s]]
           \/ handler' = [handler EXCEPT ![s] = "none"]
    BY <1>4, Zenon DEF CleanupClose, CleanupDelete, sockVars, connVars
  <2>2. handler[server] = "none" => handler'[server] = "none"
    BY <1>t, <2>1, ZenonT(90)
  <2>3. QED
    BY <2>1, <2>2, RegistrationFrame, Zenon
<1>5. ASSUME NEW s \in Side, NotifyEvent(s)
      PROVE  Registration'
  <2>1. /\ UNCHANGED <<qp, handler>>
        /\ \/ UNCHANGED <<state, external>>
           \/ /\ state[s] = "CONNECTING_RE" /\ state' = [state EXCEPT ![s] = "ESTABLISHED"]
              /\ external' = [external EXCEPT ![s] = Append(external[s], "write_callback")]
    BY <1>5, Zenon DEF NotifyEvent, sockVars, tcpVars
  <2>2. state[server] # "CONNECTING_RE"
    BY Zenon DEF Registration
  <2>3. state'[server] = state[server] /\ external'[server] = external[server]
    BY <1>t, <2>1, <2>2, Zenon
  <2>4. QED
    BY <2>1, <2>3, RegistrationFrame, Zenon
<1>6. ASSUME NEW s \in Side, WriteCallback(s) \/ (s = client /\ ProcessConnecting) \/ (s = server /\ ProcessAccepting)
      PROVE  Registration'
  <2>1. /\ <<>> \in Seq({"process", "write_callback"}) /\ <<"write_callback">> \in Seq({"process", "write_callback"})
    OBVIOUS
  <2>2. \E e \in {"write_callback", "process"}, more \in Seq({"process", "write_callback"}) : External(s, e, more)
    BY <1>6, <2>1, ZenonT(90) DEF WriteCallback, ProcessConnecting, ProcessAccepting
  <2>3. /\ "register" \in Items(external'[server]) => external'[server] = external[server]
        /\ external[server] = <<>> => external'[server] = <<>>
    BY <2>2, QueueTake, Zenon
  <2>4. /\ qp' = qp
        /\ handler' = handler \/ handler' = [handler EXCEPT ![client] = "established"]
        /\ \/ state' = state \/ state' = [state EXCEPT ![client] = "CONNECTING_RE"]
           \/ state' = [state EXCEPT ![server] = "ESTABLISHED"]
    BY <1>6, Zenon DEF WriteCallback, ProcessConnecting, ProcessAccepting, sockVars, tcpVars
  <2>5. handler'[server] = handler[server] /\ state'[server] \in {state[server], "ESTABLISHED"}
    BY <1>t, <2>4, ZenonT(90)
  <2>6. QED
    BY <2>3, <2>4, <2>5, RegistrationFrame, ZenonT(90)
<1>7. ASSUME Register(server)
      PROVE  Registration'
  <2>1. /\ External(server, "register", <<>>) /\ UNCHANGED <<qp, state>>
        /\ handler' = [handler EXCEPT ![server] = "read"]
    BY <1>7, Zenon DEF Register, sockVars
  <2>2. /\ external[server] # <<>> /\ Head(external[server]) = "register"
        /\ external' = [external EXCEPT ![server] = Tail(external[server]) \o <<>>]
    BY <2>1, Zenon DEF External
  <2>3. "register" \in Items(external[server])
    BY <1>t, <2>2, HeadItem, Zenon
  <2>4. external[server] = <<"register", "process">>
    BY <2>3, Zenon DEF Registration
  <2>5. Tail(<<"register", "process">>) \o <<>> = <<"process">>
    OBVIOUS
  <2>6. external'[server] = <<"process">>
    BY <1>t, <2>2, <2>4, <2>5, ZenonT(90)
  <2>7. \A i \in 1 .. Len(<<"process">>) : <<"process">>[i] # "register"
    OBVIOUS
  <2>8. "register" \notin Items(external'[server])
    BY <2>6, <2>7, Zenon DEF Items
  <2>9. state[server] # "NONE"
    BY <2>2, Zenon DEF Registration
  <2>10. QED
    BY <2>1, <2>8, <2>9, Zenon DEF Registration, Items
<1>8. ASSUME Accept
      PROVE  Registration'
  <2>1. /\ state[server] = "NONE" /\ state' = [state EXCEPT ![server] = "ACCEPTING"]
        /\ external' = [external EXCEPT ![server] = <<"register", "process">>]
        /\ UNCHANGED <<qp, handler>>
    BY <1>8, Zenon DEF Accept, sockVars, tcpVars
  <2>2. state'[server] = "ACCEPTING" /\ external'[server] = <<"register", "process">>
    BY <1>t, <2>1, Zenon
  <2>3. QED
    BY <2>1, <2>2, Zenon DEF Registration, Items
<1>9. QED
  BY <1>1, <1>2, <1>3, <1>4, <1>5, <1>6, <1>7, <1>8, ZenonT(90)
  DEF Next, Handlers, handle_connection, Calls, ClientSteps, ServerSteps, Environment

\* The reasons for a fault stay.
LEMMA ReasonStep ==
  ASSUME TypeOK, Unconnected, [Next]_vars
  PROVE  /\ state[client] = "CLOSED" => state'[client] = "CLOSED"
         /\ Reason => Reason'
         /\ Unconnected'
<1> USE SideType, TwoSides
<1>t. state \in [Side -> {"NONE", "CONNECTING", "CONNECTING_RE", "ACCEPTING", "ESTABLISHED", "CLOSED"}]
  BY Zenon DEF TypeOK
<1> DEFINE Goal == /\ state[client] = "CLOSED" => state'[client] = "CLOSED"
                   /\ Reason => Reason'
                   /\ Unconnected'
<1>1. ASSUME tcp' = tcp, state'[client] = state[client] PROVE Goal
  BY <1>1, Zenon DEF Reason, Unconnected
<1>2. ASSUME \/ \E s \in Side : RecvFailed(s) \/ LateMessage(s) \/ WorkerSubmit(s) \/ ClosedHandler(s) \/ WriteCallback(s)
                                \/ Send(s) \/ SendSubmit(s) \/ SendChunks(s) \/ Read(s) \/ ReadSubmit(s)
                                \/ CleanupClose(s) \/ CleanupDelete(s)
             \/ ServerConnected \/ ServerActivate \/ ClientActivate \/ ClientAck \/ handle_connection_established
             \/ Register(server) \/ UNCHANGED vars
      PROVE  Goal
  <2>1. UNCHANGED <<tcp, state>>
    BY <1>2, ZenonT(90) DEF RecvFailed, LateMessage, WorkerSubmit, ClosedHandler, WriteCallback, Send, SendSubmit, SendChunks,
       Read, ReadSubmit, CleanupClose, CleanupDelete, ServerConnected, ServerActivate, ClientActivate, ClientAck,
       handle_connection_established, Register, ReadHandlerKeeps, vars, tcpVars, connVars
  <2>2. QED
    BY <1>1, <2>1, Zenon
<1>3. ASSUME Accept \/ ProcessAccepting PROVE Goal
  <2>1. tcp' = tcp /\ \E x \in {"ACCEPTING", "ESTABLISHED"} : state' = [state EXCEPT ![server] = x]
    BY <1>3, Zenon DEF Accept, ProcessAccepting, tcpVars
  <2>2. QED
    BY <1>1, <1>t, <2>1, Zenon
<1>4. ASSUME NEW s \in Side, NotifyEvent(s) PROVE Goal
  <2>1. /\ tcp' = tcp
        /\ \/ state' = state
           \/ state[s] = "CONNECTING_RE" /\ state' = [state EXCEPT ![s] = "ESTABLISHED"]
    BY <1>4, Zenon DEF NotifyEvent, tcpVars
  <2>2. \/ state'[client] = state[client]
        \/ state[client] = "CONNECTING_RE" /\ state'[client] = "ESTABLISHED"
    BY <1>t, <2>1, Zenon
  <2>3. QED
    BY <1>1, <2>1, <2>2, Zenon DEF Reason, Unconnected
<1>5. ASSUME ProcessConnecting PROVE Goal
  <2>1. /\ state[client] = "CONNECTING" /\ tcp = "none"
        /\ \/ state' = [state EXCEPT ![client] = "CONNECTING_RE"]
           \/ tcp' = tcp /\ state' = state
    BY <1>5, Zenon DEF ProcessConnecting, Unconnected
  <2>2. state'[client] = "CONNECTING_RE" \/ (tcp' = tcp /\ state'[client] = state[client])
    BY <1>t, <2>1, Zenon
  <2>3. QED
    BY <1>1, <2>1, <2>2, Zenon DEF Reason, Unconnected
<1>6. ASSUME TcpConnect PROVE Goal
  <2>1. tcp = "connecting" /\ state' = state
    BY <1>6, Zenon DEF TcpConnect, connVars
  <2>2. QED
    BY <2>1, Zenon DEF Reason, Unconnected
<1>7. ASSUME CloseSocket \/ TcpBreak \/ \E s \in Side : Crash(s) PROVE Goal
  <2>1. BreakTcp /\ (state' = state \/ state' = [state EXCEPT ![client] = "CLOSED"])
    BY <1>7, Zenon DEF CloseSocket, TcpBreak, Crash, connVars
  <2>2. state'[client] = state[client] \/ state'[client] = "CLOSED"
    BY <1>t, <2>1, Zenon
  <2>3. tcp' = tcp \/ (tcp # "none" /\ tcp' = "broken")
    BY <2>1, Zenon DEF BreakTcp
  <2>4. QED
    BY <2>2, <2>3, Zenon DEF Reason, Unconnected
<1>8. QED
  BY <1>2, <1>3, <1>4, <1>5, <1>6, <1>7, ZenonT(90)
  DEF Next, Handlers, handle_connection, Calls, ClientSteps, ServerSteps, Environment

\* A Fin comes from close() alone.
LEMMA FinsStep ==
  ASSUME SocketInv, Fins, Unconnected, [Next]_vars
  PROVE  Fins'
<1> USE SideType, TwoSides
<1>0. TypeOK /\ Sends
  BY Zenon DEF SocketInv, IInv
<1>1. state[client] = "CLOSED" => state'[client] = "CLOSED"
  BY <1>0, ReasonStep, Zenon
<1>2. ASSUME \A t \in Side : Fin \in Items(wire'[t]) => Fin \in Items(wire[t])
      PROVE  Fins'
  BY <1>1, <1>2, Zenon DEF Fins, Items
<1>3. ASSUME wire' = wire PROVE Fins'
  BY <1>2, <1>3, Zenon
<1>4. \A bl \in Seq(Buffers) : Fin \notin Items(bl)
  <2>1. \A bl \in Seq(Buffers) : \A i \in 1 .. Len(bl) : bl[i] \in Buffers
    OBVIOUS
  <2>2. Fin \notin Buffers
    BY DEF Buffers, Fin
  <2>3. QED
    BY <2>1, <2>2, Zenon DEF Items
<1>5. ASSUME NEW s \in Side, WorkerSubmit(s) \/ SendSubmit(s) \/ ReadSubmit(s)
      PROVE  Fins'
  <2>1. submit(s)
    BY <1>5, Zenon DEF WorkerSubmit, SendSubmit, ReadSubmit
  <2>2. /\ \A t \in Side \ {s} : wire'[t] = wire[t]
        /\ \/ wire' = wire
           \/ Items(wire'[s]) = Items(wire[s]) \cup (IF qp[s] = "RTS" THEN Items(pending_bl[s]) ELSE {})
    BY <1>0, <2>1, SubmitEffect, ZenonT(90)
  <2>3. Fin \notin Items(pending_bl[s])
    BY <1>0, <1>4, ZenonT(90) DEF TypeOK
  <2>4. QED
    BY <1>2, <2>2, <2>3, Zenon
<1>6. ASSUME NEW s \in Side, SendChunks(s)
      PROVE  Fins'
  <2> DEFINE x == next[s] + 1
  <2>1. post_work_request(s, <<x>>) /\ next[client] + next[server] < MaxSends
    BY <1>6, Zenon DEF SendChunks
  <2>2. next[client] \in 0 .. MaxSends /\ next[server] \in 0 .. MaxSends
    BY <1>0, ZenonT(90) DEF TypeOK
  <2>3. \A a, b \in 0 .. MaxSends : a + b < MaxSends => a + 1 \in Buffers /\ b + 1 \in Buffers
    BY ConstantsAssumption DEF Buffers
  <2>4. x \in Buffers
    BY <2>1, <2>2, <2>3, ZenonT(90)
  <2> HIDE DEF x
  <2>5. <<x>> \in Seq(Buffers)
    BY <2>4
  <2>6. /\ \A t \in Side \ {s} : wire'[t] = wire[t]
        /\ Items(wire'[s]) = Items(wire[s]) \cup (IF qp[s] = "RTS" THEN Items(<<x>>) ELSE {})
    BY <1>0, <2>1, <2>5, PostEffect, ZenonT(90)
  <2>7. Fin \notin Items(<<x>>)
    BY <1>4, <2>5, Zenon
  <2>8. QED
    BY <1>2, <2>6, <2>7, ZenonT(90)
<1>7. ASSUME CloseSocket
      PROVE  Fins'
  BY <1>0, <1>7, CloseEffect, ZenonT(90) DEF Fins
<1>8. ASSUME \/ \E s \in Side : RecvFailed(s) \/ LateMessage(s) \/ ClosedHandler(s) \/ WriteCallback(s) \/ NotifyEvent(s)
                                \/ Send(s) \/ Read(s) \/ CleanupClose(s) \/ CleanupDelete(s) \/ Crash(s)
             \/ ServerConnected \/ ServerActivate \/ ClientActivate \/ ClientAck \/ handle_connection_established
             \/ Accept \/ ProcessAccepting \/ ProcessConnecting \/ TcpConnect \/ TcpBreak
             \/ Register(server) \/ UNCHANGED vars
      PROVE  wire' = wire
  BY <1>8, ZenonT(90) DEF RecvFailed, LateMessage, ClosedHandler, WriteCallback, NotifyEvent, Send, Read, CleanupClose,
     CleanupDelete, Crash, ServerConnected, ServerActivate, ClientActivate, ClientAck, handle_connection_established,
     Accept, ProcessAccepting, ProcessConnecting, TcpConnect, TcpBreak, Register, ReadHandlerKeeps, vars, sendVars
<1>9. QED
  BY <1>3, <1>5, <1>6, <1>7, <1>8, ZenonT(90)
  DEF Next, Handlers, handle_connection, Calls, ClientSteps, ServerSteps, Environment

LEMMA LateStep ==
  ASSUME SocketInv, Late, Registration, [Next]_vars
  PROVE  Late'
<1> USE SideType, TwoSides
<1>0. TypeOK /\ Order /\ Life /\ Messages
  BY Zenon DEF SocketInv, IInv
<1>t. /\ qp \in [Side -> {"INIT", "RTS", "ERR"}] /\ connected \in [Side -> BOOLEAN]
      /\ error \in [Side -> BOOLEAN] /\ wpc \in [Side -> {"loop", "submit", "ack"}]
      /\ handler \in [Side -> {"none", "established", "read", "closed"}]
      /\ apc \in [Side -> {"idle", "submit", "close", "delete", "resubmit"}]
  BY <1>0, Zenon DEF TypeOK
<1>f. ASSUME NEW s \in Side, fault(s)
      PROVE  \A t \in Side : /\ connected'[t] => connected[t] \/ error'[t]
                             /\ connected[t] => connected'[t]
                             /\ error[t] => error'[t]
  BY <1>t, <1>f, Zenon DEF fault
<1>k. took_over' = took_over => (took_over' => took_over) /\ (took_over => took_over')
  OBVIOUS
<1>1. ASSUME \/ \E s \in Side : ClosedHandler(s) \/ WriteCallback(s) \/ NotifyEvent(s) \/ SendChunks(s)
             \/ TcpConnect \/ Accept \/ ProcessAccepting \/ UNCHANGED vars
      PROVE  Late'
  <2>1. UNCHANGED <<qp, connected, error, inbox, wpc, handler, apc, took_over>>
    BY <1>1, Zenon DEF ClosedHandler, WriteCallback, NotifyEvent, SendChunks, TcpConnect, Accept, ProcessAccepting,
                       vars, sockVars, tcpVars
  <2>2. QED
    BY <1>k, <2>1, LateFrame, Zenon
<1>2. ASSUME NEW s \in Side, WorkerSubmit(s) \/ Send(s) \/ SendSubmit(s) \/ ReadSubmit(s) \/ CleanupClose(s)
                             \/ CleanupDelete(s)
      PROVE  Late'
  <2>1. /\ UNCHANGED <<qp, connected, error, inbox, took_over>>
        /\ \/ wpc' = wpc
           \/ wpc[s] = "submit" /\ wpc' = [wpc EXCEPT ![s] = IF s = client THEN "ack" ELSE "loop"]
    BY <1>2, Zenon DEF WorkerSubmit, WorkerIn, Send, SendSubmit, ReadSubmit, CleanupClose, CleanupDelete, sockVars,
                       tcpVars
  <2>2. wpc[client] = "loop" => wpc'[client] = "loop"
    BY <1>t, <2>1, Zenon
  <2>3. \/ handler' = handler /\ apc' = apc
        \/ /\ handler' = handler /\ apc[s] \in {"idle", "submit", "resubmit"}
           /\ \E a \in {"idle", "submit"} : apc' = [apc EXCEPT ![s] = a]
        \/ /\ \/ handler' = [handler EXCEPT ![s] = IF handler[s] = "read" THEN "closed" ELSE handler[s]]
              \/ handler' = [handler EXCEPT ![s] = "none"]
           /\ \E a \in {"delete", "resubmit"} : apc' = [apc EXCEPT ![s] = a]
    BY <1>2, Zenon DEF WorkerSubmit, Send, SendSubmit, ReadSubmit, CleanupClose, CleanupDelete, AppAt, tcpVars
  <2>4. handler'[server] = "read" => handler[server] = "read" /\ (apc[server] = "close" => apc'[server] = "close")
    <3>1. CASE s = server
      BY <1>t, <2>3, <3>1, ZenonT(90)
    <3>2. CASE s = client
      <4>1. handler'[server] = handler[server] /\ apc'[server] = apc[server]
        BY <1>t, <2>3, <3>2, ZenonT(90)
      <4>2. QED
        BY <4>1, Zenon
    <3>3. QED
      BY <3>1, <3>2, Zenon
  <2>5. QED
    BY <1>k, <2>1, <2>2, <2>4, LateFrame, ZenonT(90)
<1>3. ASSUME NEW s \in Side, RecvFailed(s) \/ LateMessage(s)
      PROVE  Late'
  <2>1. /\ fault(s) /\ inbox'[s] = <<>> /\ \A t \in Side \ {s} : inbox'[t] = inbox[t]
        /\ UNCHANGED <<qp, handler, wpc, apc, took_over>>
    BY <1>0, <1>3, FaultEffect, Zenon
  <2>2. \A t \in Side : inbox'[t] = inbox[t] \/ inbox'[t] = <<>>
    BY <2>1, Zenon
  <2>3. QED
    BY <1>f, <1>k, <2>1, <2>2, LateFrame, ZenonT(90)
<1>4. ASSUME ClientActivate
      PROVE  Late'
  <2>1. /\ ~connected[client] /\ qp' = [qp EXCEPT ![client] = "RTS"]
        /\ connected' = [connected EXCEPT ![client] = TRUE] /\ inbox'[client] = <<>>
        /\ UNCHANGED <<error, handler, apc, took_over>>
    BY <1>0, <1>4, ClientActivateEffect, Zenon
  <2>2. connected'[server] = connected[server] /\ qp'[server] = qp[server]
    BY <1>t, <2>1, Zenon
  <2>3. ~(connected'[server] /\ ~error'[server] /\ ~took_over')
    <3>1. ~(connected[server] /\ ~error[server] /\ ~took_over)
      BY <2>1, Zenon DEF Late
    <3>2. QED
      BY <1>k, <2>1, <2>2, <3>1, Zenon
  <2>4. took_over' => qp'[server] = "RTS" /\ (handler'[server] = "read" => apc'[server] = "close")
    BY <1>k, <2>1, <2>2, Zenon DEF Late
  <2>5. QED
    BY <2>1, <2>3, <2>4, Zenon DEF Late
<1>5. ASSUME ServerActivate
      PROVE  Late'
  <2>1. /\ ~connected[server] /\ qp' = [qp EXCEPT ![server] = "RTS"]
        /\ UNCHANGED <<handler, apc, took_over>>
        /\ \/ /\ UNCHANGED <<connected, error>>
              /\ inbox'[client] = inbox[client] \/ ~active[server]
           \/ fault(server) /\ inbox'[client] = inbox[client]
    BY <1>0, <1>5, ServerActivateEffect, Zenon
  <2>2. qp'[server] = "RTS" /\ ~(connected'[server] /\ ~error'[server])
    BY <1>t, <2>1, Zenon DEF fault
  <2>3. connected'[client] = connected[client] /\ error'[client] = error[client]
    BY <1>t, <2>1, Zenon DEF fault
  <2>4. connected'[client] /\ inbox'[client] # <<>> => error'[client]
    <3>1. CASE inbox'[client] = inbox[client]
      BY <2>3, <3>1, Zenon DEF Late
    <3>2. CASE ~active[server]
      <4>1. qp[server] = "INIT"
        BY <1>0, <1>t, <3>2, ZenonT(90) DEF Life
      <4>2. qp[client] # "RTS"
        BY <1>0, <4>1, Zenon DEF Order, HandshakeOrder
      <4>3. connected[client] => error[client]
        BY <1>0, <4>2, Zenon DEF Life
      <4>4. QED
        BY <2>3, <4>3, Zenon
    <3>3. QED
      BY <2>1, <3>1, <3>2, Zenon
  <2>5. took_over' => qp'[server] = "RTS" /\ (handler'[server] = "read" => apc'[server] = "close")
    BY <1>k, <2>1, <2>2, Zenon DEF Late
  <2>6. QED
    BY <2>2, <2>4, <2>5, Zenon DEF Late
<1>6. ASSUME ServerConnected
      PROVE  Late'
  <2>1. /\ Acks(inbox[server]) # {} /\ connected' = [connected EXCEPT ![server] = TRUE]
        /\ wpc' = [wpc EXCEPT ![server] = "submit"] /\ inbox'[server] = <<>> /\ inbox'[client] = inbox[client]
        /\ UNCHANGED <<qp, error, handler, apc, took_over>>
    BY <1>0, <1>6, ServerConnectedEffect, Zenon
  <2>2. connected'[client] = connected[client] /\ wpc'[client] = wpc[client]
    BY <1>t, <2>1, Zenon
  <2>3. qp[server] # "INIT" /\ inbox[server] # <<>>
    BY <1>0, <2>1, NoAcks, Zenon DEF Life
  <2>4. connected[client] /\ wpc[client] = "loop"
    BY <1>0, <2>3, Zenon DEF Messages
  <2>5. connected'[client] /\ inbox'[client] # <<>> => error'[client]
    BY <2>1, <2>2, Zenon DEF Late
  <2>6. took_over' => qp'[server] = "RTS" /\ (handler'[server] = "read" => apc'[server] = "close")
    BY <1>k, <2>1, Zenon DEF Late
  <2>7. QED
    BY <2>1, <2>2, <2>4, <2>5, <2>6, ZenonT(90) DEF Late
<1>7. ASSUME handle_connection_established
      PROVE  Late'
  <2>1. /\ handler[client] = "established" /\ inbox'[client] = inbox[client] /\ handler'[server] = handler[server]
        /\ UNCHANGED <<qp, wpc, apc, took_over>>
        /\ \/ UNCHANGED <<error, connected>>
           \/ fault(client) /\ inbox'[server] = inbox[server]
    BY <1>0, <1>7, EstablishedEffect, Zenon
  <2>2. ~(connected[server] /\ ~error[server])
    <3>1. qp[server] = "INIT"
      BY <1>0, <2>1, Zenon DEF Messages
    <3>2. QED
      BY <1>0, <3>1, Zenon DEF Life
  <2>3. connected'[server] = connected[server] /\ error'[server] = error[server]
    BY <1>t, <2>1, Zenon DEF fault
  <2>4. connected'[client] /\ inbox'[client] # <<>> => error'[client]
    BY <1>t, <2>1, Zenon DEF Late, fault
  <2>5. took_over' => qp'[server] = "RTS" /\ (handler'[server] = "read" => apc'[server] = "close")
    BY <1>k, <2>1, Zenon DEF Late
  <2>6. QED
    BY <2>2, <2>3, <2>4, <2>5, Zenon DEF Late
<1>8. ASSUME ClientAck
      PROVE  Late'
  <2>1. /\ wpc[client] = "ack" /\ inbox'[client] = inbox[client]
        /\ UNCHANGED <<qp, handler, apc, took_over>>
        /\ UNCHANGED <<error, connected>> \/ fault(client)
    BY <1>0, <1>8, AckEffect, Zenon
  <2>2. connected'[server] = connected[server] /\ error'[server] = error[server]
    BY <1>t, <2>1, Zenon DEF fault
  <2>3. ~(connected'[server] /\ ~error'[server] /\ ~took_over')
    <3>1. ~(connected[server] /\ ~error[server] /\ ~took_over)
      BY <2>1, Zenon DEF Late
    <3>2. QED
      BY <1>k, <2>1, <2>2, <3>1, Zenon
  <2>4. connected'[client] /\ inbox'[client] # <<>> => error'[client]
    BY <1>t, <2>1, Zenon DEF Late, fault
  <2>5. took_over' => qp'[server] = "RTS" /\ (handler'[server] = "read" => apc'[server] = "close")
    BY <1>k, <2>1, Zenon DEF Late
  <2>6. QED
    BY <2>3, <2>4, <2>5, Zenon DEF Late
<1>9. ASSUME NEW s \in Side, Read(s)
      PROVE  Late'
  <2>1. /\ active[s] /\ UNCHANGED <<qp, tcpVars, wpc>> /\ (error[s] => error'[s])
        /\ \A t \in Side \ {s} : error'[t] = error[t]
        /\ \/ UNCHANGED <<connected, apc, took_over>>
           \/ /\ s = server /\ connected' = [connected EXCEPT ![s] = TRUE]
              /\ apc' = [apc EXCEPT ![s] = "close"] /\ took_over' = TRUE
    BY <1>0, <1>9, ReadEffect, Zenon
  <2>2. \A t \in Side : error[t] => error'[t]
    BY <2>1, Zenon
  <2>3. CASE UNCHANGED <<connected, apc, took_over>>
    BY <1>k, <2>1, <2>2, <2>3, LateFrame, ZenonT(90) DEF tcpVars
  <2>4. CASE /\ s = server /\ connected' = [connected EXCEPT ![s] = TRUE]
             /\ apc' = [apc EXCEPT ![s] = "close"] /\ took_over' = TRUE
    <3>1. connected'[client] = connected[client] /\ apc'[server] = "close" /\ took_over'
      BY <1>t, <2>4, Zenon
    <3>2. qp'[server] = "RTS"
      BY <1>0, <2>1, <2>4, Zenon DEF Life
    <3>3. connected'[client] /\ inbox'[client] # <<>> => error'[client]
      BY <2>1, <2>2, <3>1, Zenon DEF Late, tcpVars
    <3>4. QED
      BY <3>1, <3>2, <3>3, Zenon DEF Late
  <2>5. QED
    BY <2>1, <2>3, <2>4, Zenon
<1>10. ASSUME CloseSocket \/ TcpBreak \/ \E s \in Side : Crash(s)
       PROVE  Late'
  <2>1. /\ BreakTcp /\ UNCHANGED <<connected, wpc, apc, took_over>> /\ qp'[server] = qp[server]
        /\ handler'[server] = handler[server] /\ error'[server] = error[server]
        /\ error[client] => error'[client]
    BY <1>0, <1>10, CloseEffect, Zenon DEF TcpBreak, Crash, sockVars
  <2>2. \A t \in Side : (inbox'[t] = inbox[t] \/ inbox'[t] = <<>>) /\ (error[t] => error'[t])
    BY <2>1, BreakAcks, Zenon
  <2>3. QED
    BY <1>k, <2>1, <2>2, LateFrame, Zenon
<1>11. ASSUME Register(server)
       PROVE  Late'
  <2>1. /\ external[server] # <<>> /\ Head(external[server]) = "register"
        /\ UNCHANGED <<qp, connected, error, inbox, wpc, took_over>>
    BY <1>11, Zenon DEF Register, External, sockVars
  <2>2. external[server] \in Seq({"register", "process", "write_callback"})
    BY <1>0, Zenon DEF TypeOK
  <2>3. "register" \in Items(external[server])
    BY <2>1, <2>2, HeadItem, Zenon
  <2>4. ~took_over
    BY <2>3, Zenon DEF Registration, Late
  <2>5. QED
    BY <1>k, <2>1, <2>4, Zenon DEF Late
<1>12. ASSUME ProcessConnecting
       PROVE  Late'
  <2>1. /\ UNCHANGED <<qp, connected, error, inbox, wpc, apc, took_over>>
        /\ handler' = handler \/ handler' = [handler EXCEPT ![client] = "established"]
    BY <1>12, Zenon DEF ProcessConnecting, sockVars
  <2>2. handler'[server] = handler[server]
    BY <1>t, <2>1, ZenonT(90)
  <2>3. QED
    BY <1>k, <2>1, <2>2, LateFrame, Zenon
<1>13. QED
  BY <1>1, <1>2, <1>3, <1>4, <1>5, <1>6, <1>7, <1>8, <1>9, <1>10, <1>11, <1>12, ZenonT(90)
  DEF Next, Handlers, handle_connection, Calls, ClientSteps, ServerSteps, Environment

\* Who fails for the first time has a reason, unless a call failed on a healthy
\* connection.  Only the worker calls the socket: the acknowledgement cannot
\* arrive between the two halves of the short cut of read().
LEMMA FaultReason ==
  ASSUME SocketInv, FaultInv, ~AppThread, "call" \notin Failures, [Next]_vars,
         NEW s \in Side, error'[s], ~error[s]
  PROVE  Reason'
<1> USE SideType, TwoSides
<1>0. TypeOK /\ Late /\ Fins
  BY Zenon DEF SocketInv, IInv, FaultInv
<1>t. error \in [Side -> BOOLEAN]
  BY <1>0, Zenon DEF TypeOK
<1>f. ASSUME NEW t \in Side, fault(t) PROVE t = s
  BY <1>t, <1>f, Zenon DEF fault
<1>1. ASSUME UNCHANGED error PROVE FALSE
  BY <1>1, Zenon
<1>2. ASSUME NEW t \in Side, RecvFailed(t) PROVE Reason'
  BY <1>2, Zenon DEF RecvFailed, ReadHandlerKeeps, Reason
<1>3. ASSUME NEW t \in Side, LateMessage(t) PROVE FALSE
  <2>1. /\ fault(t) /\ connected[t] /\ inbox[t] # <<>> /\ handler[t] = "read"
        /\ AppThread \/ apc[t] = "idle"
    BY <1>3, Zenon DEF LateMessage, Received, TcpEvent, WorkerFree
  <2>2. t = s /\ apc[s] = "idle"
    BY <1>f, <2>1, Zenon
  <2>3. QED
    BY <1>0, <2>1, <2>2, Zenon DEF Late
<1>4. ASSUME handle_connection_established \/ ClientAck \/ ServerActivate PROVE Reason'
  <2>1. tcp' = tcp /\ (UNCHANGED error \/ CallMayFail)
    BY <1>4, Zenon DEF handle_connection_established, ClientAck, ServerActivate, ReadHandlerKeeps
  <2>2. QED
    BY <1>1, <2>1, Zenon DEF CallMayFail, Reason
<1>5. ASSUME NEW t \in Side, Read(t) PROVE Reason'
  <2>1. /\ state' = state
        /\ \E n \in received[t] .. Len(wire[Peer(t)]) :
             error' = [error EXCEPT ![t] = error[t] \/ /\ connected[t]
                                                       /\ \E i \in received[t] + 1 .. n : wire[Peer(t)][i] = Fin]
    BY <1>5, Zenon DEF Read
  <2>2. PICK n \in received[t] .. Len(wire[Peer(t)]) :
             error' = [error EXCEPT ![t] = error[t] \/ /\ connected[t]
                                                       /\ \E i \in received[t] + 1 .. n : wire[Peer(t)][i] = Fin]
    BY <2>1, Zenon
  <2>3. t = s /\ \E i \in received[t] + 1 .. n : wire[Peer(t)][i] = Fin
    BY <1>t, <2>2, Zenon
  <2>4. received[t] \in Nat /\ wire[Peer(t)] \in Seq(Buffers \cup {Fin})
    BY <1>0, ZenonT(90) DEF TypeOK
  <2>5. received[t] + 1 .. n \subseteq 1 .. Len(wire[Peer(t)])
    BY <2>2, <2>4, SMTT(60)
  <2>6. Fin \in Items(wire[Peer(t)])
    BY <2>3, <2>5, Zenon DEF Items
  <2>7. state'[client] = "CLOSED"
    BY <1>0, <2>1, <2>6, Zenon DEF Fins
  <2>8. QED
    BY <2>7, Zenon DEF Reason
<1>6. ASSUME CloseSocket PROVE Reason'
  BY <1>0, <1>6, CloseEffect, Zenon DEF Reason
<1>7. ASSUME \/ \E t \in Side : WorkerSubmit(t) \/ ClosedHandler(t) \/ WriteCallback(t) \/ NotifyEvent(t) \/ Send(t)
                                \/ SendSubmit(t) \/ SendChunks(t) \/ ReadSubmit(t) \/ CleanupClose(t)
                                \/ CleanupDelete(t) \/ Crash(t)
             \/ ServerConnected \/ ClientActivate \/ Accept \/ ProcessAccepting \/ ProcessConnecting
             \/ TcpConnect \/ TcpBreak \/ Register(server) \/ UNCHANGED vars
      PROVE  UNCHANGED error
  BY <1>7, ZenonT(90) DEF WorkerSubmit, ClosedHandler, WriteCallback, NotifyEvent, Send, SendSubmit, SendChunks, ReadSubmit,
     CleanupClose, CleanupDelete, Crash, ServerConnected, ClientActivate, Accept, ProcessAccepting, ProcessConnecting,
     TcpConnect, TcpBreak, Register, vars, sockVars
<1>8. QED
  BY <1>1, <1>2, <1>3, <1>4, <1>5, <1>6, <1>7, ZenonT(90)
  DEF Next, Handlers, handle_connection, Calls, ClientSteps, ServerSteps, Environment

LEMMA FaultInit == Init => FaultInv /\ NoSpuriousFault
<1> SUFFICES ASSUME Init PROVE FaultInv /\ NoSpuriousFault
  BY Zenon
<1>1. /\ \A s \in Side : /\ ~connected[s] /\ ~error[s] /\ qp[s] = "INIT" /\ wire[s] = <<>> /\ handler[s] = "none"
      /\ ~took_over /\ tcp = "none"
  BY Zenon DEF Init
<1>2. state[server] = "NONE" /\ external[server] = <<>>
  BY SideType, TwoSides, Zenon DEF Init
<1>3. QED
  BY <1>1, <1>2, SideType, ItemsEmpty, Zenon
  DEF FaultInv, Late, Registration, Fins, Unconnected, NoSpuriousFault

\* While the application calls the socket from callbacks only, and no call on a
\* healthy socket fails, fault() is never the answer to a message that comes
\* when it is no longer expected: the connection is gone, or was closed.
THEOREM FaultsHaveReasons == ~AppThread => (Spec => []NoSpuriousFault)
<1> SUFFICES ASSUME ~AppThread
             PROVE  Spec => []NoSpuriousFault
  BY Zenon
<1>1. FaultInv /\ SocketInv /\ [Next]_vars => FaultInv'
  <2> SUFFICES ASSUME FaultInv, SocketInv, [Next]_vars PROVE FaultInv'
    BY Zenon
  <2>1. TypeOK /\ Late /\ Registration /\ Fins /\ Unconnected
    BY Zenon DEF FaultInv, SocketInv, IInv
  <2>2. QED
    BY <2>1, LateStep, RegistrationStep, FinsStep, ReasonStep, ZenonT(90) DEF FaultInv
<1>2. NoSpuriousFault /\ FaultInv /\ SocketInv /\ [Next]_vars => NoSpuriousFault'
  <2> SUFFICES ASSUME NoSpuriousFault, FaultInv, SocketInv, [Next]_vars, "call" \notin Failures,
                      NEW s \in Side, error'[s]
               PROVE  Reason'
    BY Zenon DEF NoSpuriousFault, Reason
  <2>1. CASE error[s]
    <3>1. Reason
      BY <2>1, Zenon DEF NoSpuriousFault, Reason
    <3>2. QED
      BY <3>1, ReasonStep, Zenon DEF FaultInv, SocketInv, IInv
  <2>2. CASE ~error[s]
    BY <2>2, FaultReason, Zenon
  <2>3. QED
    BY <2>1, <2>2, Zenon
<1>3. QED
  BY <1>1, <1>2, FaultInit, SocketInvariant, PTL DEF Spec

-----------------------------------------------------------------------------
(* The order of what is posted *)

Rising(q) == \A i, j \in 1 .. Len(q) : i < j /\ q[j] # Fin => q[i] < q[j]

\* A thread that is about to submit, or will be when the socket connects
Submits(s) == ~connected[s] \/ wpc[s] = "submit" \/ apc[s] # "idle"

\* The list holds what comes after the wire, and the length that Clear() leaves
\* behind is never seen by another submit().
InOrderOf(s) ==
  /\ Rising(wire[s]) /\ Rising(pending_bl[s]) /\ ~empty_post[s]
  /\ ~error[s] => \A x \in Items(wire[s]), y \in Items(pending_bl[s]) : x < y
  /\ ~error[s] /\ Submits(s) /\ pending_bl[s] = <<>> => pending_len[s] = 0
  /\ wpc[s] = "loop" \/ apc[s] = "idle"
InOrder == \A s \in Side : InOrderOf(s)

LEMMA RisingConcat ==
  ASSUME NEW w \in Seq(Buffers \cup {Fin}), NEW q \in Seq(Buffers), Rising(w), Rising(q),
         \A x \in Items(w), y \in Items(q) : x < y
  PROVE  Rising(w \o q)
<1>1. Len(w) \in Nat /\ Len(q) \in Nat /\ Len(w \o q) = Len(w) + Len(q)
  OBVIOUS
<1>2. SUFFICES ASSUME NEW i \in 1 .. Len(w \o q), NEW j \in 1 .. Len(w \o q), i < j, (w \o q)[j] # Fin
               PROVE  (w \o q)[i] < (w \o q)[j]
  BY Zenon DEF Rising
<1>3. CASE j <= Len(w)
  <2>1. i \in 1 .. Len(w) /\ j \in 1 .. Len(w) /\ (w \o q)[i] = w[i] /\ (w \o q)[j] = w[j]
    BY <1>1, <1>2, <1>3, SMTT(60)
  <2>2. QED
    BY <1>2, <2>1, Zenon DEF Rising
<1>4. CASE i > Len(w)
  <2> DEFINE k == i - Len(w)
             l == j - Len(w)
  <2>1. k \in 1 .. Len(q) /\ l \in 1 .. Len(q) /\ k < l /\ (w \o q)[i] = q[k] /\ (w \o q)[j] = q[l]
    BY <1>1, <1>2, <1>4, SMTT(60)
  <2> HIDE DEF k, l
  <2>2. QED
    BY <1>2, <2>1, Zenon DEF Rising
<1>5. CASE i <= Len(w) /\ j > Len(w)
  <2> DEFINE l == j - Len(w)
  <2>1. i \in 1 .. Len(w) /\ l \in 1 .. Len(q) /\ (w \o q)[i] = w[i] /\ (w \o q)[j] = q[l]
    BY <1>1, <1>2, <1>5, SMTT(60)
  <2> HIDE DEF l
  <2>2. w[i] \in Items(w) /\ q[l] \in Items(q)
    BY <2>1, Zenon DEF Items
  <2>3. QED
    BY <2>1, <2>2, Zenon
<1>6. QED
  BY <1>1, <1>2, <1>3, <1>4, <1>5, SMTT(60)

\* A buffer behind everything before it
LEMMA RisingAppend ==
  /\ Rising(<<>>)
  /\ \A w \in Seq(Buffers \cup {Fin}) : Rising(w) => Rising(Append(w, Fin))
  /\ \A x \in Buffers : <<x>> \in Seq(Buffers) /\ Rising(<<x>>) /\ Items(<<x>>) = {x} /\ x # Fin
<1>1. Rising(<<>>)
  BY DEF Rising
<1>2. ASSUME NEW w \in Seq(Buffers \cup {Fin}), Rising(w) PROVE Rising(Append(w, Fin))
  <2>1. SUFFICES ASSUME NEW i \in 1 .. Len(Append(w, Fin)), NEW j \in 1 .. Len(Append(w, Fin)), i < j,
                        Append(w, Fin)[j] # Fin
                 PROVE  Append(w, Fin)[i] < Append(w, Fin)[j]
    BY Zenon DEF Rising
  <2>2. j \in 1 .. Len(w)
    BY <2>1
  <2>3. i \in 1 .. Len(w) /\ Append(w, Fin)[i] = w[i] /\ Append(w, Fin)[j] = w[j]
    BY <2>1, <2>2
  <2>4. QED
    BY <1>2, <2>1, <2>2, <2>3, ZenonT(90) DEF Rising
<1>3. ASSUME NEW x \in Buffers
      PROVE  <<x>> \in Seq(Buffers) /\ Rising(<<x>>) /\ Items(<<x>>) = {x} /\ x # Fin
  <2>1. <<x>> \in Seq(Buffers) /\ Len(<<x>>) = 1 /\ <<x>>[1] = x /\ 1 .. 1 = {1} /\ ~(1 < 1)
    OBVIOUS
  <2>2. x # Fin
    BY DEF Buffers, Fin
  <2>3. Items(<<x>>) = {x}
    BY <2>1, Zenon DEF Items
  <2>4. Rising(<<x>>)
    BY <2>1, Zenon DEF Rising
  <2>5. QED
    BY <2>1, <2>2, <2>3, <2>4, ZenonT(90)
<1>4. QED
  BY <1>1, <1>2, <1>3, ZenonT(90)

\* The items of what is posted and of what waits are in reach of `next`.
LEMMA BelowNext ==
  ASSUME TypeOK, Sends, NEW s \in Side, next[client] + next[server] < MaxSends
  PROVE  /\ next[s] + 1 \in Buffers
         /\ \A x \in Items(wire[s]) \cup Items(pending_bl[s]) : x < next[s] + 1
<1>1. next[client] \in 0 .. MaxSends /\ next[server] \in 0 .. MaxSends
  BY SideType, Zenon DEF TypeOK
<1>2. \A a, b \in 0 .. MaxSends : a + b < MaxSends => a + 1 \in Buffers /\ b + 1 \in Buffers
  BY ConstantsAssumption DEF Buffers
<1>3. \A n \in 0 .. MaxSends : \A x \in 0 .. n : x < n + 1
  BY ConstantsAssumption
<1>4. 1 .. next[s] \subseteq 0 .. next[s]
  OBVIOUS
<1>5. Items(wire[s]) \cup Items(pending_bl[s]) \subseteq 0 .. next[s]
  BY <1>4, Zenon DEF Sends, SendsOf
<1>6. QED
  BY <1>1, <1>2, <1>3, <1>5, TwoSides, ZenonT(90)

LEMMA InOrderFrame ==
  ASSUME NEW t \in Side, InOrderOf(t),
         wire'[t] = wire[t], pending_bl'[t] = pending_bl[t], pending_len'[t] = pending_len[t],
         empty_post'[t] => empty_post[t], error[t] => error'[t],
         Submits(t)' => Submits(t), wpc'[t] = "loop" \/ apc'[t] = "idle"
  PROVE  InOrderOf(t)'
BY Zenon DEF InOrderOf, Rising, Items

\* submit(), by a thread of a connected socket that then leaves it
LEMMA SubmitInOrder ==
  ASSUME TypeOK, Life, Sends, InOrder, NEW s \in Side, submit(s), connected[s], wpc[s] = "submit" \/ apc[s] # "idle",
         UNCHANGED <<connected, error>>, ~Submits(s)', \A t \in Side \ {s} : wpc'[t] = wpc[t] /\ apc'[t] = apc[t]
  PROVE  InOrder'
<1>t. /\ wire \in [Side -> Seq(Buffers \cup {Fin})] /\ pending_bl \in [Side -> Seq(Buffers)]
      /\ wire[s] \in Seq(Buffers \cup {Fin}) /\ pending_bl[s] \in Seq(Buffers)
  BY Zenon DEF TypeOK
<1>1. wpc'[s] = "loop" \/ apc'[s] = "idle"
  BY Zenon DEF Submits
<1>2. \A t \in Side : InOrderOf(t)
  BY Zenon DEF InOrder
<1>3. CASE error[s] \/ pending_len[s] = 0
  <2>1. UNCHANGED <<pending_bl, wire, empty_post, pending_len>>
    BY <1>3, Zenon DEF submit
  <2>2. ASSUME NEW t \in Side PROVE InOrderOf(t)'
    <3>1. Submits(t)' => Submits(t)
      BY Zenon DEF Submits
    <3>2. wpc'[t] = "loop" \/ apc'[t] = "idle"
      BY <1>1, <1>2, Zenon DEF InOrderOf
    <3>3. QED
      BY <1>2, <2>1, <3>1, <3>2, InOrderFrame, ZenonT(90)
  <2>3. QED
    BY <2>2, Zenon DEF InOrder
<1>4. CASE ~error[s] /\ pending_len[s] # 0
  <2>1. /\ post_work_request(s, pending_bl[s]) /\ pending_bl' = [pending_bl EXCEPT ![s] = <<>>]
        /\ pending_len' = pending_len
    BY <1>4, Zenon DEF submit
  <2>2. pending_bl[s] # <<>>
    BY <1>2, <1>4, Zenon DEF InOrderOf, Submits
  <2>3. qp[s] = "RTS"
    BY <1>4, Zenon DEF Life
  <2>4. wire' = [wire EXCEPT ![s] = wire[s] \o pending_bl[s]] /\ empty_post' = empty_post
    BY <2>1, <2>2, <2>3, ZenonT(90) DEF post_work_request
  <2>5. /\ wire'[s] = wire[s] \o pending_bl[s] /\ pending_bl'[s] = <<>>
        /\ \A t \in Side \ {s} : wire'[t] = wire[t] /\ pending_bl'[t] = pending_bl[t]
    BY <1>t, <2>1, <2>4, ZenonT(90)
  <2>6. Rising(wire[s] \o pending_bl[s])
    BY <1>2, <1>4, <1>t, RisingConcat, ZenonT(90) DEF InOrderOf
  <2>7. InOrderOf(s)'
    <3>1. /\ Rising(wire'[s]) /\ Rising(pending_bl'[s]) /\ ~empty_post'[s]
          /\ \A x \in Items(wire'[s]), y \in Items(pending_bl'[s]) : x < y
      BY <1>2, <2>4, <2>5, <2>6, RisingAppend, ItemsEmpty, ZenonT(90) DEF InOrderOf
    <3>2. QED
      BY <1>1, <3>1, Zenon DEF InOrderOf, Rising, Items
  <2>8. ASSUME NEW t \in Side \ {s} PROVE InOrderOf(t)'
    <3>1. Submits(t)' => Submits(t)
      BY Zenon DEF Submits
    <3>2. wpc'[t] = "loop" \/ apc'[t] = "idle"
      BY <1>2, Zenon DEF InOrderOf
    <3>3. QED
      BY <1>2, <2>1, <2>4, <2>5, <3>1, <3>2, InOrderFrame, ZenonT(90)
  <2>9. QED
    BY <2>7, <2>8, Zenon DEF InOrder
<1>5. QED
  BY <1>3, <1>4, Zenon

LEMMA InOrderStep ==
  ASSUME SocketInv, InOrder, ~AppThread, [Next]_vars
  PROVE  InOrder'
<1> USE SideType, TwoSides
<1>0. TypeOK /\ Order /\ Life /\ Messages /\ Sends
  BY Zenon DEF SocketInv, IInv
<1>t. /\ connected \in [Side -> BOOLEAN] /\ error \in [Side -> BOOLEAN] /\ wpc \in [Side -> {"loop", "submit", "ack"}]
      /\ apc \in [Side -> {"idle", "submit", "close", "delete", "resubmit"}]
  BY <1>0, ZenonT(90) DEF TypeOK
<1>o. \A t \in Side : InOrderOf(t)
  BY Zenon DEF InOrder
<1>1. ASSUME UNCHANGED <<wire, pending_bl, pending_len, empty_post>>,
             \A t \in Side : /\ error[t] => error'[t]
                             /\ Submits(t)' => Submits(t)
                             /\ wpc'[t] = "loop" \/ apc'[t] = "idle"
      PROVE  InOrder'
  BY <1>o, <1>1, InOrderFrame, ZenonT(90) DEF InOrder
<1>2. ASSUME \/ \E s \in Side : ClosedHandler(s) \/ WriteCallback(s) \/ NotifyEvent(s) \/ Crash(s)
             \/ TcpConnect \/ TcpBreak \/ Accept \/ Register(server) \/ ProcessConnecting \/ ProcessAccepting
             \/ UNCHANGED vars
      PROVE  InOrder'
  <2>1. UNCHANGED <<sendVars, connected, error, wpc, apc>>
    BY <1>2, Zenon DEF ClosedHandler, WriteCallback, NotifyEvent, Crash, TcpConnect, TcpBreak, Accept, Register,
                       ProcessConnecting, ProcessAccepting, vars, sockVars
  <2>2. \A t \in Side : Submits(t)' => Submits(t)
    BY <2>1, Zenon DEF Submits
  <2>3. QED
    BY <1>1, <1>o, <2>1, <2>2, ZenonT(90) DEF sendVars, InOrderOf
<1>3. ASSUME \/ \E s \in Side : RecvFailed(s) \/ LateMessage(s)
             \/ ServerActivate \/ handle_connection_established \/ ClientAck
      PROVE  InOrder'
  <2>1. /\ UNCHANGED <<sendVars, apc>>
        /\ UNCHANGED <<connected, error>> \/ \E s \in Side : fault(s)
        /\ wpc' = wpc \/ wpc' = [wpc EXCEPT ![client] = "loop"]
    BY <1>3, Zenon DEF RecvFailed, LateMessage, ServerActivate, handle_connection_established, ClientAck, ReadHandlerKeeps
  <2>2. \A t \in Side : (error[t] => error'[t]) /\ (connected[t] => connected'[t])
    BY <1>t, <2>1, Zenon DEF fault
  <2>3. \A t \in Side : wpc'[t] = wpc[t] \/ wpc'[t] = "loop"
    BY <1>t, <2>1, Zenon
  <2>4. \A t \in Side : Submits(t)' => Submits(t)
    BY <2>1, <2>2, <2>3, ZenonT(90) DEF Submits
  <2>5. \A t \in Side : wpc'[t] = "loop" \/ apc'[t] = "idle"
    BY <1>o, <2>1, <2>3, ZenonT(90) DEF InOrderOf
  <2>6. QED
    BY <1>1, <2>1, <2>2, <2>4, <2>5, ZenonT(90) DEF sendVars
<1>4. ASSUME NEW s \in Side, (s = client /\ ClientActivate) \/ (s = server /\ ServerConnected)
      PROVE  InOrder'
  <2>1. /\ UNCHANGED <<sendVars, apc, error>> /\ apc[s] = "idle" /\ ~connected[s]
        /\ connected' = [connected EXCEPT ![s] = TRUE] /\ wpc' = [wpc EXCEPT ![s] = "submit"]
    BY <1>4, Zenon DEF ClientActivate, ServerConnected, Received, TcpEvent, WorkerFree, ReadHandlerKeeps
  <2>2. \A t \in Side \ {s} : connected'[t] = connected[t] /\ wpc'[t] = wpc[t]
    BY <1>t, <2>1, Zenon
  <2>3. \A t \in Side : Submits(t)' => Submits(t)
    BY <2>1, <2>2, Zenon DEF Submits
  <2>4. \A t \in Side : wpc'[t] = "loop" \/ apc'[t] = "idle"
    BY <1>o, <2>1, <2>2, ZenonT(90) DEF InOrderOf
  <2>5. QED
    BY <1>1, <2>1, <2>3, <2>4, ZenonT(90) DEF sendVars
<1>5. ASSUME NEW s \in Side, Read(s)
      PROVE  InOrder'
  <2>1. /\ UNCHANGED <<sendVars, wpc>> /\ (error[s] => error'[s])
        /\ \A t \in Side \ {s} : error'[t] = error[t]
        /\ \/ UNCHANGED <<connected, apc>>
           \/ /\ ~connected[s] /\ connected' = [connected EXCEPT ![s] = TRUE]
              /\ apc' = [apc EXCEPT ![s] = "close"]
    BY <1>0, <1>5, ReadEffect, ZenonT(90)
  <2>2. wpc[s] = "loop"
    BY <1>5, Zenon DEF Read, AppAt
  <2>3. \/ UNCHANGED <<connected, apc>>
        \/ ~connected[s] /\ \A t \in Side \ {s} : connected'[t] = connected[t] /\ apc'[t] = apc[t]
    BY <1>t, <2>1, Zenon
  <2>4. \A t \in Side : Submits(t)' => Submits(t)
    BY <2>1, <2>3, Zenon DEF Submits
  <2>5. \A t \in Side : (error[t] => error'[t]) /\ (wpc'[t] = "loop" \/ apc'[t] = "idle")
    BY <1>o, <2>1, <2>2, <2>3, ZenonT(90) DEF InOrderOf
  <2>6. QED
    BY <1>1, <2>1, <2>4, <2>5, ZenonT(90) DEF sendVars
<1>6. ASSUME NEW s \in Side, CleanupClose(s) \/ CleanupDelete(s)
      PROVE  InOrder'
  <2>1. /\ UNCHANGED <<sendVars, connected, error, wpc>> /\ apc[s] # "idle" /\ wpc[s] = "loop"
        /\ \E a \in {"delete", "resubmit"} : apc' = [apc EXCEPT ![s] = a]
    BY <1>6, ZenonT(90) DEF CleanupClose, CleanupDelete, AppAt, sockVars
  <2>2. \A t \in Side \ {s} : apc'[t] = apc[t]
    BY <1>t, <2>1, Zenon
  <2>3. \A t \in Side : Submits(t)' => Submits(t)
    BY <2>1, <2>2, Zenon DEF Submits
  <2>4. \A t \in Side : wpc'[t] = "loop" \/ apc'[t] = "idle"
    BY <1>o, <2>1, <2>2, ZenonT(90) DEF InOrderOf
  <2>5. QED
    BY <1>1, <2>1, <2>3, <2>4, ZenonT(90) DEF sendVars
<1>7. ASSUME NEW s \in Side, WorkerSubmit(s) \/ SendSubmit(s) \/ ReadSubmit(s)
      PROVE  InOrder'
  <2>1. /\ submit(s) /\ UNCHANGED <<connected, error>>
        /\ \/ /\ wpc[s] = "submit" /\ apc' = apc
              /\ \E x \in {"ack", "loop"} : wpc' = [wpc EXCEPT ![s] = x]
           \/ /\ apc[s] \in {"submit", "resubmit"} /\ wpc[s] = "loop" /\ wpc' = wpc
              /\ apc' = [apc EXCEPT ![s] = "idle"]
    BY <1>7, Zenon DEF WorkerSubmit, WorkerIn, SendSubmit, ReadSubmit, AppAt, sockVars
  <2>2. connected[s]
    <3>1. CASE wpc[s] = "submit" \/ apc[s] = "submit"
      BY <1>0, <3>1, Zenon DEF Order, ThreadsConnected
    <3>2. CASE apc[s] = "resubmit"
      BY <1>0, <3>2, Zenon DEF Order, ThreadsConnected, Life
    <3>3. QED
      BY <2>1, <3>1, <3>2, ZenonT(90)
  <2>3. wpc'[s] # "submit" /\ apc'[s] = "idle" /\ \A t \in Side \ {s} : wpc'[t] = wpc[t] /\ apc'[t] = apc[t]
    <3>1. CASE wpc[s] = "submit"
      <4>1. apc[s] = "idle"
        BY <1>o, <3>1, Zenon DEF InOrderOf
      <4>2. QED
        BY <1>t, <2>1, <3>1, <4>1, ZenonT(90)
    <3>2. CASE wpc[s] = "loop"
      BY <1>t, <2>1, <3>2, ZenonT(90)
    <3>3. QED
      BY <2>1, <3>1, <3>2, ZenonT(90)
  <2>4. ~Submits(s)'
    BY <2>1, <2>2, <2>3, ZenonT(90) DEF Submits
  <2>5. wpc[s] = "submit" \/ apc[s] # "idle"
    BY <2>1, Zenon
  <2>6. QED
    BY <1>0, <2>1, <2>2, <2>3, <2>4, <2>5, SubmitInOrder, ZenonT(90)
<1>8. ASSUME NEW s \in Side, Send(s)
      PROVE  InOrder'
  <2> DEFINE x == next[s] + 1
  <2>1. /\ next[client] + next[server] < MaxSends /\ wpc[s] = "loop"
        /\ pending_bl' = [pending_bl EXCEPT ![s] = Append(pending_bl[s], x)]
        /\ pending_len' = [pending_len EXCEPT ![s] = pending_len[s] + 1]
        /\ \E a \in {"idle", "submit"} : apc' = [apc EXCEPT ![s] = a]
        /\ UNCHANGED <<connected, error, wire, empty_post, wpc>>
    BY <1>8, Zenon DEF Send, AppAt, sockVars
  <2>2. x \in Buffers /\ \A y \in Items(wire[s]) \cup Items(pending_bl[s]) : y < x
    BY <1>0, <2>1, BelowNext, ZenonT(90)
  <2> HIDE DEF x
  <2>3. /\ pending_bl \in [Side -> Seq(Buffers)] /\ pending_bl[s] \in Seq(Buffers)
        /\ pending_len \in [Side -> Nat]
    BY <1>0, ZenonT(90) DEF TypeOK
  <2>4. /\ pending_bl'[s] = Append(pending_bl[s], x)
        /\ \A t \in Side \ {s} : /\ pending_bl'[t] = pending_bl[t] /\ pending_len'[t] = pending_len[t]
                                 /\ apc'[t] = apc[t]
    BY <1>t, <2>1, <2>3, ZenonT(90)
  <2>5. /\ Append(pending_bl[s], x) = pending_bl[s] \o <<x>> /\ Append(pending_bl[s], x) # <<>>
        /\ pending_bl[s] \in Seq(Buffers \cup {Fin})
    <3>1. Append(pending_bl[s], x) = pending_bl[s] \o <<x>>
      BY <2>2, <2>3, SMTT(60)
    <3>2. Len(Append(pending_bl[s], x)) # 0 /\ Len(<<>>) = 0
      BY <2>2, <2>3, SMTT(60)
    <3>3. pending_bl[s] \in Seq(Buffers \cup {Fin})
      BY <2>3
    <3>4. QED
      BY <3>1, <3>2, <3>3, ZenonT(90)
  <2>6. Rising(pending_bl[s] \o <<x>>)
    <3>1. /\ <<x>> \in Seq(Buffers) /\ Rising(<<x>>)
          /\ \A y \in Items(pending_bl[s]), z \in Items(<<x>>) : y < z
      BY <2>2, RisingAppend, Zenon
    <3>2. QED
      BY <1>o, <2>5, <3>1, RisingConcat, ZenonT(90) DEF InOrderOf
  <2>7. Items(pending_bl'[s]) = Items(pending_bl[s]) \cup {x}
    BY <2>2, <2>3, <2>4, BuffersAppend, ZenonT(90)
  <2>8. InOrderOf(s)'
    <3>1. ~error[s] => \A y \in Items(wire[s]), z \in Items(pending_bl'[s]) : y < z
      BY <1>o, <2>2, <2>7, ZenonT(90) DEF InOrderOf
    <3>2. Rising(pending_bl'[s]) /\ pending_bl'[s] # <<>>
      BY <2>4, <2>5, <2>6, ZenonT(90)
    <3>3. Rising(wire[s]) /\ ~empty_post[s]
      BY <1>o, Zenon DEF InOrderOf
    <3>4. QED
      BY <2>1, <3>1, <3>2, <3>3, ZenonT(90) DEF InOrderOf, Rising, Items
  <2>9. ASSUME NEW t \in Side \ {s} PROVE InOrderOf(t)'
    <3>1. Submits(t)' => Submits(t)
      BY <2>1, <2>4, Zenon DEF Submits
    <3>2. wpc'[t] = "loop" \/ apc'[t] = "idle"
      BY <1>o, <2>1, <2>4, ZenonT(90) DEF InOrderOf
    <3>3. QED
      BY <1>o, <2>1, <2>4, <3>1, <3>2, InOrderFrame, ZenonT(90)
  <2>10. QED
    BY <2>8, <2>9, Zenon DEF InOrder
<1>9. ASSUME NEW s \in Side, SendChunks(s)
      PROVE  InOrder'
  <2> DEFINE x == next[s] + 1
  <2>1. /\ next[client] + next[server] < MaxSends /\ wpc[s] = "loop" /\ apc[s] = "idle" /\ connected[s]
        /\ post_work_request(s, <<x>>)
        /\ UNCHANGED <<connected, error, pending_bl, pending_len, wpc, apc>>
    BY <1>9, Zenon DEF SendChunks, AppAt, sockVars
  <2>2. x \in Buffers /\ \A y \in Items(wire[s]) \cup Items(pending_bl[s]) : y < x
    BY <1>0, <2>1, BelowNext, ZenonT(90)
  <2> HIDE DEF x
  <2>3. <<x>> # <<>>
    OBVIOUS
  <2>4. empty_post' = empty_post /\ wire' = [wire EXCEPT ![s] = IF qp[s] = "RTS" THEN wire[s] \o <<x>> ELSE wire[s]]
    BY <2>1, <2>3, ZenonT(90) DEF post_work_request
  <2>5. wire \in [Side -> Seq(Buffers \cup {Fin})] /\ wire[s] \in Seq(Buffers \cup {Fin})
    BY <1>0, ZenonT(90) DEF TypeOK
  <2>6. (wire'[s] = wire[s] \/ wire'[s] = wire[s] \o <<x>>) /\ \A t \in Side \ {s} : wire'[t] = wire[t]
    BY <2>4, <2>5, Zenon
  <2>7. Rising(wire'[s])
    <3>1. /\ <<x>> \in Seq(Buffers) /\ Rising(<<x>>)
          /\ \A y \in Items(wire[s]), z \in Items(<<x>>) : y < z
      BY <2>2, RisingAppend, Zenon
    <3>2. Rising(wire[s]) /\ Rising(wire[s] \o <<x>>)
      BY <1>o, <2>5, <3>1, RisingConcat, ZenonT(90) DEF InOrderOf
    <3>3. QED
      BY <2>6, <3>2, Zenon
  <2>8. ~error[s] => pending_bl[s] = <<>>
    BY <1>0, <2>1, Zenon DEF Sends, SendsOf
  <2>9. InOrderOf(s)'
    <3>1. ~error'[s] => \A y \in Items(wire'[s]), z \in Items(pending_bl'[s]) : y < z
      BY <2>1, <2>8, ItemsEmpty, Zenon
    <3>2. ~Submits(s)'
      BY <2>1, Zenon DEF Submits
    <3>3. Rising(pending_bl'[s]) /\ ~empty_post'[s] /\ wpc'[s] = "loop"
      BY <1>o, <2>1, <2>4, Zenon DEF InOrderOf
    <3>4. QED
      BY <2>7, <3>1, <3>2, <3>3, ZenonT(90) DEF InOrderOf, Rising, Items
  <2>10. ASSUME NEW t \in Side \ {s} PROVE InOrderOf(t)'
    <3>1. (Submits(t)' => Submits(t)) /\ (wpc'[t] = "loop" \/ apc'[t] = "idle")
      BY <1>o, <2>1, Zenon DEF Submits, InOrderOf
    <3>2. QED
      BY <1>o, <2>1, <2>4, <2>6, <3>1, InOrderFrame, ZenonT(90)
  <2>11. QED
    BY <2>9, <2>10, Zenon DEF InOrder
<1>10. ASSUME CloseSocket
       PROVE  InOrder'
  <2>1. /\ error'[client] /\ error'[server] = error[server] /\ wire'[server] = wire[server]
        /\ wire'[client] \in {wire[client], Append(wire[client], Fin)}
        /\ UNCHANGED <<connected, pending_bl, pending_len, wpc, apc>>
    BY <1>0, <1>10, CloseEffect, Zenon
  <2>2. empty_post' = empty_post
    BY <1>10, Zenon DEF CloseSocket
  <2>3. \A t \in Side : (Submits(t)' => Submits(t)) /\ (wpc'[t] = "loop" \/ apc'[t] = "idle")
    BY <1>o, <2>1, Zenon DEF Submits, InOrderOf
  <2>4. InOrderOf(server)'
    BY <1>o, <2>1, <2>2, <2>3, InOrderFrame, ZenonT(90)
  <2>5. InOrderOf(client)'
    <3>1. wire[client] \in Seq(Buffers \cup {Fin}) /\ Rising(wire[client])
      BY <1>0, <1>o, ZenonT(90) DEF TypeOK, InOrderOf
    <3>2. Rising(wire'[client])
      BY <2>1, <3>1, RisingAppend, ZenonT(90)
    <3>3. Rising(pending_bl[client]) /\ ~empty_post[client]
      BY <1>o, Zenon DEF InOrderOf
    <3>4. QED
      BY <2>1, <2>2, <2>3, <3>2, <3>3, ZenonT(90) DEF InOrderOf, Rising
  <2>6. QED
    BY <2>4, <2>5, Zenon DEF InOrder
<1>11. QED
  BY <1>2, <1>3, <1>4, <1>5, <1>6, <1>7, <1>8, <1>9, <1>10, ZenonT(90)
  DEF Next, Handlers, handle_connection, Calls, ClientSteps, ServerSteps, Environment

\* While the application calls the socket from callbacks only, buffers are
\* posted in the order of the calls and none twice, and submit() never posts an
\* empty chain, although Clear() leaves a length behind.
THEOREM PostsInOrder == ~AppThread => (Spec => []PostedInOrder)
<1> SUFFICES ASSUME ~AppThread
             PROVE  Spec => []PostedInOrder
  BY Zenon
<1>1. Init => InOrder
  <2> SUFFICES ASSUME Init, NEW s \in Side PROVE InOrderOf(s)
    BY Zenon DEF InOrder
  <2>1. wire[s] = <<>> /\ pending_bl[s] = <<>> /\ ~empty_post[s] /\ pending_len[s] = 0 /\ wpc[s] = "loop"
    BY Zenon DEF Init
  <2>2. QED
    BY <2>1, RisingAppend, ItemsEmpty, Zenon DEF InOrderOf
<1>2. InOrder /\ SocketInv /\ [Next]_vars => InOrder'
  BY InOrderStep, Zenon
<1>3. InOrder => PostedInOrder
  BY Zenon DEF InOrder, InOrderOf, PostedInOrder, Rising
<1>4. QED
  BY <1>1, <1>2, <1>3, SocketInvariant, PTL DEF Spec

=============================================================================
