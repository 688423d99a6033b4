--------------------------- MODULE MulticastProofs ---------------------------
(***************************************************************************)
(* The daemon answers a client when the members of its group are ready,    *)
(* and the switch holds the right members, for any clients, any number of  *)
(* groups and any interleaving of the workers, unless the first id is 0    *)
(* (which the daemon also takes for "no id": a client may then be given    *)
(* two groups).                                                            *)
(*                                                                         *)
(* The inductive invariant follows each handshake: what is in the two      *)
(* boxes of a connection, given how far its handlers are.                  *)
(***************************************************************************)
EXTENDS Multicast, SequenceTheorems, TLAPS

Hello(c) == [qpn |-> c, peer |-> NoQpn]

Types ==
  /\ m_mc_id \in Nat
  /\ mc_id \in [Client -> Id \cup {0}]
  /\ client_state \in [Id -> {"INIT", "HANDSHAKE_RECEIVED", "HANDSHAKE_SENT", "ACK_RECEIVED"}]
  /\ server_state \in [Member -> {"INIT", "CONNECTED", "HANDSHAKE_SENT", "HANDSHAKE_ACK_SENT"}]
  /\ sender \in [Id -> Message]
  /\ receiver \in [Member -> Qpn]
  /\ pc \in [Conn -> {"idle", "assign", "connect", "name", "register", "writeable", "sent",
                      "readable", "tell"} \X (Index \cup {0})]
  /\ msg \in [Conn -> Message]
  /\ tcp \in [Member -> {"none", "connecting", "up", "open"}]
  /\ inbox \in [Conn -> Seq(Message)] /\ outbox \in [Conn -> Seq(Message)]
  /\ status \in [Conn -> {"new", "active", "connected"}]
  /\ groups = {g \in Id : g < m_mc_id}

\* Every member of a group has been sent the last message of its handshake.
Acknowledged(g) == \A i \in Index : server_state[<<g, i>>] = "HANDSHAKE_ACK_SENT"

\* A client without a group: its first message is on its way, or read.
NewClient(c) ==
  /\ outbox[c] = <<>>
  /\ \/ status[c] = "new" /\ inbox[c] = <<>> /\ pc[c] = Idle
     \/ status[c] = "active" /\ inbox[c] = <<Hello(c)>> /\ pc[c] = Idle
     \/ status[c] = "active" /\ inbox[c] = <<>> /\ pc[c][1] = "assign" /\ msg[c].qpn = c

\* A client with a group: the group is its own, it is answered when the members
\* are ready, and the loop over the members goes forward.
GroupClient(c) ==
  LET g == mc_id[c]
  IN  /\ g \in groups /\ sender[g].qpn = c /\ status[c] # "new"
      /\ inbox[c] \in Seq({[qpn |-> c, peer |-> IdQpn(g)]})
      /\ outbox[c] \in Seq({m \in Message : m.qpn = IdQpn(g)})
      /\ outbox[c] # <<>> \/ status[c] = "connected" => Acknowledged(g)
      /\ \/ pc[c] = Idle
         \/ pc[c][1] \in {"connect", "name", "register"} /\ pc[c][2] \in Index
      /\ \A i \in Index :
           (\/ pc[c][1] = "connect" /\ i >= pc[c][2]
            \/ pc[c][1] \in {"name", "register"} /\ i > pc[c][2]) => tcp[<<g, i>>] = "none"

ClientSound(c) == IF mc_id[c] = 0 THEN NewClient(c) ELSE GroupClient(c)
Clients == \A c \in Client : ClientSound(c)

\* A group has its client, and is at its first stage until its members are ready.
GroupSound(g) ==
  IF g \in groups
  THEN /\ \E c \in Client : mc_id[c] = g
       /\ client_state[g] = "HANDSHAKE_RECEIVED" \/ Acknowledged(g)
  ELSE \A i \in Index : tcp[<<g, i>>] = "none"

Groups == \A g \in Id : GroupSound(g)

\* The first message to a member is on its way, or its answer is.
Asked(s) ==
  /\ receiver[s] = NoQpn
  /\ \/ /\ status[s] = "new" /\ inbox[s] = <<>>
        /\ \E m \in Message : outbox[s] = <<m>> /\ m.peer = NoQpn
     \/ /\ status[s] = "active" /\ outbox[s] = <<>>
        /\ \E m \in Message : inbox[s] = <<m>> /\ m.qpn = s

Fresh(s) ==
  /\ server_state[s] = "INIT" /\ receiver[s] = NoQpn /\ status[s] = "new"
  /\ inbox[s] = <<>> /\ outbox[s] = <<>>

\* The handshake with a member, by the place of its handlers
Handshake(s) ==
  \/ tcp[s] # "open" /\ pc[s] = Idle /\ Fresh(s)
  \/ tcp[s] = "open" /\ pc[s][1] = "writeable" /\ Fresh(s)
  \/ tcp[s] = "open" /\ pc[s][1] = "sent" /\ server_state[s] = "CONNECTED" /\ Asked(s)
  \/ tcp[s] = "open" /\ pc[s] = Idle /\ server_state[s] = "HANDSHAKE_SENT" /\ Asked(s)
  \/ /\ tcp[s] = "open" /\ pc[s][1] = "readable" /\ server_state[s] = "HANDSHAKE_SENT"
     /\ receiver[s] = NoQpn /\ msg[s].qpn = s
     /\ status[s] # "new" /\ inbox[s] = <<>> /\ outbox[s] = <<>>
  \/ /\ tcp[s] = "open" /\ (pc[s] = Idle \/ pc[s][1] = "tell") /\ server_state[s] = "HANDSHAKE_ACK_SENT"
     /\ receiver[s] = s /\ status[s] # "new" /\ inbox[s] = <<>>
     /\ outbox[s] \in Seq({m \in Message : m.peer = s})
     /\ pc[s][1] = "tell" /\ pc[s][2] = 1 => Acknowledged(s[1])

Members == \A s \in Member : Handshake(s)

Table ==
  \A g \in DOMAIN table :
    /\ g \in groups
    /\ table[g].src \in Client /\ mc_id[table[g].src] = g
    /\ table[g].dst = [i \in Index |-> <<g, i>>]

IInv == Types /\ Clients /\ Groups /\ Members /\ Table /\ failed \notin {"member", "peer"}

-----------------------------------------------------------------------------
(* Names, boxes and what a step leaves alone *)

\* A member's connection is the pair of its group's id and its index.
LEMMA MemberPairs ==
  /\ \A g \in Id, i \in Index : <<g, i>> \in Member
  /\ \A s \in Member : s[1] \in Id /\ s[2] \in Index /\ s = <<s[1], s[2]>>
  /\ \A s \in Member : s # NoQpn
  BY DEF Member, Index, kNumMulticasts, NoQpn, IdQpn

\* Clients and members are different connections, and all have numbers.
LEMMA Names ==
  /\ Client \subseteq Conn /\ Member \subseteq Conn
  /\ \A c \in Client, s \in Member : c # s
  /\ Conn \subseteq Qpn /\ NoQpn \in Qpn
  /\ \A g \in Id : IdQpn(g) \in Qpn
  BY ConnAssumption, Zenon DEF Conn, Qpn, NoQpn

\* With FirstId # 0 no group has the id that stands for none.
LEMMA IdNotZero ==
  ASSUME FirstId # 0
  PROVE  \A g \in Id : g \in Nat /\ g # 0
  BY MulticastAssumption DEF Id

\* A box with one message in it
LEMMA OneMessage ==
  ASSUME NEW T, NEW m \in T
  PROVE  /\ <<m>> \in Seq(T) /\ <<m>> # <<>>
         /\ Append(<<>>, m) = <<m>>
         /\ Head(<<m>>) = m /\ Tail(<<m>>) = <<>>
  OBVIOUS

\* Sending to a box and taking from it
LEMMA Box ==
  ASSUME NEW T, NEW box \in Seq(T)
  PROVE  /\ \A m \in T : Append(box, m) \in Seq(T) /\ Append(box, m) # <<>>
         /\ box # <<>> => Head(box) \in T /\ Tail(box) \in Seq(T)
         /\ <<>> \in Seq(T)
  <1>1. \A m \in T : Append(box, m) \in Seq(T) /\ Append(box, m) # <<>>
    BY AppendProperties
  <1>2. box # <<>> => Head(box) \in T /\ Tail(box) \in Seq(T)
    BY HeadTailProperties, Zenon
  <1> QED
    BY <1>1, <1>2

\* The handshake with a member does not depend on the other connections.
LEMMA HandshakeFrame ==
  ASSUME NEW s \in Member, Handshake(s),
         tcp'[s] = tcp[s], pc'[s] = pc[s], server_state'[s] = server_state[s],
         receiver'[s] = receiver[s], status'[s] = status[s], msg'[s] = msg[s],
         inbox'[s] = inbox[s], outbox'[s] = outbox[s],
         Acknowledged(s[1]) => Acknowledged(s[1])'
  PROVE  Handshake(s)'
  BY ZenonT(90) DEF Handshake, Fresh, Asked

\* Nor does that with a client, except through its group.
LEMMA ClientFrame ==
  ASSUME NEW c \in Client, ClientSound(c),
         mc_id'[c] = mc_id[c], pc'[c] = pc[c], status'[c] = status[c],
         msg'[c].qpn = msg[c].qpn, inbox'[c] = inbox[c], outbox'[c] = outbox[c],
         groups \subseteq groups',
         \A g \in groups : sender'[g].qpn = sender[g].qpn,
         \A g \in groups : Acknowledged(g) => Acknowledged(g)',
         \A i \in Index : tcp[<<mc_id[c], i>>] = "none" => tcp'[<<mc_id[c], i>>] = "none"
                          \/ (mc_id[c] # 0 /\ pc[c] = Idle)
  PROVE  ClientSound(c)'
  <1>1. CASE mc_id[c] = 0
    BY <1>1, Zenon DEF ClientSound, NewClient
  <1>2. CASE mc_id[c] # 0
    <2> DEFINE g == mc_id[c]
    <2>1. GroupClient(c)
      BY <1>2, Zenon DEF ClientSound
    <2>2. /\ g \in groups' /\ sender'[g].qpn = c /\ status'[c] # "new"
          /\ outbox'[c] # <<>> \/ status'[c] = "connected" => Acknowledged(g)'
      BY <2>1, Zenon DEF GroupClient
    <2>3. \A i \in Index :
            (\/ pc'[c][1] = "connect" /\ i >= pc'[c][2]
             \/ pc'[c][1] \in {"name", "register"} /\ i > pc'[c][2]) => tcp'[<<g, i>>] = "none"
      BY <2>1, <1>2 DEF GroupClient, Idle
    <2> QED
      BY <1>2, <2>1, <2>2, <2>3, Zenon DEF ClientSound, GroupClient
  <1> QED
    BY <1>1, <1>2, Zenon

-----------------------------------------------------------------------------
(* The peers' steps *)

LEMMA ClientHelloStep ==
  ASSUME IInv, NEW c \in Client, ClientHello(c)
  PROVE  IInv'
  <1> USE Names
  <1>1. /\ mc_id[c] = 0 /\ inbox[c] = <<>> /\ pc[c] = Idle /\ outbox[c] = <<>>
        /\ inbox' = [inbox EXCEPT ![c] = <<Hello(c)>>]
        /\ status' = [status EXCEPT ![c] = "active"]
    BY OneMessage, ZenonT(90)
       DEF IInv, Clients, ClientSound, NewClient, GroupClient, ClientHello, Send, Hello
  <1>2. UNCHANGED <<maps, meta, pc, msg, tcp, outbox, table, failed>>
    BY Zenon DEF ClientHello
  <1>3. Types'
    <2>1. <<Hello(c)>> \in Seq(Message)
      BY OneMessage, Zenon DEF Message, Hello
    <2> QED
      BY <1>1, <1>2, <2>1, Zenon DEF IInv, Types, maps, meta
  <1>4. Clients'
    <2> SUFFICES ASSUME NEW d \in Client PROVE ClientSound(d)'
      BY Zenon DEF Clients
    <2>1. CASE d = c
      BY <1>1, <1>2, <2>1, Zenon DEF IInv, Types, maps, ClientSound, NewClient
    <2>2. CASE d # c
      BY <1>1, <1>2, <2>2, ClientFrame, Zenon DEF IInv, Types, Clients, maps, meta, Acknowledged
    <2> QED
      BY <2>1, <2>2, Zenon
  <1>5. Groups'
    BY <1>2, Zenon DEF IInv, Groups, GroupSound, Acknowledged, maps, meta
  <1>6. Members'
    BY <1>1, <1>2, HandshakeFrame, ZenonT(90) DEF IInv, Types, Members, maps, meta, Acknowledged
  <1>7. Table' /\ failed' \notin {"member", "peer"}
    BY <1>2, Zenon DEF IInv, Table, maps
  <1> QED
    BY <1>3, <1>4, <1>5, <1>6, <1>7, Zenon DEF IInv

LEMMA ClientAnswerStep ==
  ASSUME IInv, NEW c \in Client, ClientAnswer(c)
  PROVE  IInv'
  <1> USE Names
  <1> DEFINE g == mc_id[c]
             own == [qpn |-> c, peer |-> IdQpn(g)]
             told == {m \in Message : m.qpn = IdQpn(g)}
  <1>1. mc_id[c] # 0 /\ GroupClient(c) /\ g \in Id
    BY ZenonT(90) DEF IInv, Types, Clients, ClientSound, NewClient, ClientAnswer
  <1>2. outbox[c] \in Seq(told) /\ inbox[c] \in Seq({own}) /\ outbox[c] # <<>>
    BY <1>1, Zenon DEF GroupClient, ClientAnswer
  <1>3. Head(outbox[c]) \in told /\ Tail(outbox[c]) \in Seq(told) /\ Tail(outbox[c]) \in Seq(Message)
    BY <1>2, Box, Zenon DEF IInv, Types
  <1>4. /\ inbox' = [inbox EXCEPT ![c] = Append(inbox[c], own)]
        /\ status' = [status EXCEPT ![c] = "connected"]
        /\ outbox' = [outbox EXCEPT ![c] = Tail(outbox[c])]
    BY <1>3, Zenon DEF ClientAnswer, Send
  <1>5. Append(inbox[c], own) \in Seq({own})
    BY <1>2, Box, Zenon
  <1>6. Append(inbox[c], own) \in Seq(Message)
    <2>1. own \in Message
      BY <1>1, Zenon DEF Message
    <2> QED
      BY <2>1, Box, Zenon DEF IInv, Types
  <1>7. UNCHANGED <<maps, meta, pc, msg, tcp, table, failed>>
    BY Zenon DEF ClientAnswer
  <1>8. Types'
    BY <1>3, <1>4, <1>6, <1>7, Zenon DEF IInv, Types, maps, meta
  <1>9. Clients'
    <2> SUFFICES ASSUME NEW d \in Client PROVE ClientSound(d)'
      BY DEF Clients
    <2>1. CASE d = c
      <3>1. /\ inbox'[c] = Append(inbox[c], own) /\ outbox'[c] = Tail(outbox[c])
            /\ status'[c] = "connected" /\ mc_id' = mc_id /\ pc' = pc /\ tcp' = tcp
            /\ groups' = groups /\ sender' = sender /\ server_state' = server_state
        BY <1>4, <1>7, Zenon DEF IInv, Types, maps, meta
      <3>2. Acknowledged(g)'
        BY <1>1, <1>2, <3>1, Zenon DEF GroupClient, Acknowledged
      <3> QED
        BY <1>1, <1>3, <1>5, <2>1, <3>1, <3>2, Zenon DEF ClientSound, GroupClient
    <2>2. CASE d # c
      BY <1>4, <1>7, <2>2, ClientFrame, Zenon DEF IInv, Types, Clients, maps, meta, Acknowledged
    <2> QED
      BY <2>1, <2>2
  <1>10. Groups'
    BY <1>7, Zenon DEF IInv, Groups, GroupSound, Acknowledged, maps, meta
  <1>11. Members'
    BY <1>4, <1>7, HandshakeFrame, Zenon DEF IInv, Types, Members, maps, meta, Acknowledged
  <1>12. Table' /\ failed' \notin {"member", "peer"}
    BY <1>7, Zenon DEF IInv, Table, maps
  <1> QED
    BY <1>8, <1>9, <1>10, <1>11, <1>12 DEF IInv

LEMMA MemberAnswerStep ==
  ASSUME IInv, NEW s \in Member, MemberAnswer(s)
  PROVE  IInv'
  <1> USE Names
  <1>1. UNCHANGED <<maps, meta, pc, msg, tcp, table, failed>> /\ outbox[s] # <<>> /\ Handshake(s)
    BY Zenon DEF MemberAnswer, IInv, Members
  <1>2. Types' /\ Handshake(s)' /\ \A d \in Conn \ {s} : /\ inbox'[d] = inbox[d]
                                                        /\ outbox'[d] = outbox[d]
                                                        /\ status'[d] = status[d]
    <2>1. CASE Asked(s)
      <3>1. PICK m \in Message : outbox[s] = <<m>> /\ m.peer = NoQpn
        BY <1>1, <2>1, Zenon DEF Asked
      <3>2. status[s] = "new" /\ inbox[s] = <<>> /\ receiver[s] = NoQpn
        BY <1>1, <2>1, Zenon DEF Asked
      <3>3. Head(outbox[s]) = m /\ Tail(outbox[s]) = <<>>
        BY <3>1, OneMessage, Zenon
      <3> DEFINE a == [qpn |-> s, peer |-> m.qpn]
      <3>4. a \in Message
        BY Zenon DEF Message
      <3>5. /\ outbox' = [outbox EXCEPT ![s] = <<>>]
            /\ status' = [status EXCEPT ![s] = "active"]
            /\ inbox' = [inbox EXCEPT ![s] = <<a>>]
        BY <3>1, <3>2, <3>3, <3>4, OneMessage, Zenon DEF MemberAnswer, Send
      <3>6. <<a>> \in Seq(Message)
        BY <3>4, OneMessage, Zenon
      <3>7. Types'
        BY <1>1, <3>5, <3>6, SMTT(60) DEF IInv, Types, maps, meta
      <3>8. /\ outbox'[s] = <<>> /\ status'[s] = "active" /\ inbox'[s] = <<a>>
            /\ \A d \in Conn \ {s} : /\ inbox'[d] = inbox[d] /\ outbox'[d] = outbox[d]
                                     /\ status'[d] = status[d]
        BY <3>5 DEF IInv, Types
      <3>9. Asked(s)'
        <4> HIDE DEF a
        <4>1. a.qpn = s
          BY Zenon DEF a
        <4> QED
        BY <1>1, <3>2, <3>4, <3>8, <4>1, Zenon DEF Asked, meta
      <3>10. ~Fresh(s) /\ server_state[s] \in {"CONNECTED", "HANDSHAKE_SENT"}
        BY <1>1, <2>1, <3>2, MemberPairs, Zenon DEF Handshake, Asked, Fresh
      <3>11. Handshake(s)'
        BY <1>1, <3>9, <3>10, <2>1, Zenon DEF Handshake, meta
      <3> QED
        BY <3>7, <3>8, <3>11, Zenon
    <2>2. CASE ~Asked(s)
      <3> DEFINE sec == {m \in Message : m.peer = s}
      <3>1. /\ tcp[s] = "open" /\ (pc[s] = Idle \/ pc[s][1] = "tell")
            /\ server_state[s] = "HANDSHAKE_ACK_SENT"
            /\ receiver[s] = s /\ status[s] # "new" /\ inbox[s] = <<>>
            /\ outbox[s] \in Seq(sec)
            /\ pc[s][1] = "tell" /\ pc[s][2] = 1 => Acknowledged(s[1])
        BY <1>1, <2>2, Zenon DEF Handshake, Fresh
      <3>2. Head(outbox[s]) \in sec /\ Tail(outbox[s]) \in Seq(sec) /\ Tail(outbox[s]) \in Seq(Message)
        BY <1>1, <3>1, Box, Zenon DEF IInv, Types
      <3>3. /\ outbox' = [outbox EXCEPT ![s] = Tail(outbox[s])]
            /\ status' = [status EXCEPT ![s] = "connected"] /\ inbox' = inbox
        BY <3>2, MemberPairs, Zenon DEF MemberAnswer
      <3>4. Types'
        BY <1>1, <3>2, <3>3, Zenon DEF IInv, Types, maps, meta
      <3>5. /\ outbox'[s] = Tail(outbox[s]) /\ status'[s] = "connected"
            /\ \A d \in Conn \ {s} : /\ inbox'[d] = inbox[d] /\ outbox'[d] = outbox[d]
                                     /\ status'[d] = status[d]
        BY <3>3, ZenonT(90) DEF IInv, Types
      <3>6. Handshake(s)'
        BY <1>1, <3>1, <3>2, <3>3, <3>5, Zenon DEF Handshake, Acknowledged, meta
      <3> QED
        BY <3>4, <3>5, <3>6, Zenon
    <2> QED
      BY <2>1, <2>2, Zenon
  <1>3. Clients'
    BY <1>1, <1>2, ClientFrame, Zenon DEF IInv, Clients, maps, meta, Acknowledged
  <1>4. Groups'
    BY <1>1, Zenon DEF IInv, Groups, GroupSound, Acknowledged, maps, meta
  <1>5. Members'
    BY <1>1, <1>2, HandshakeFrame, Zenon DEF IInv, Members, maps, meta, Acknowledged
  <1>6. Table' /\ failed' \notin {"member", "peer"}
    BY <1>1, Zenon DEF IInv, Table, maps
  <1> QED
    BY <1>2, <1>3, <1>4, <1>5, <1>6, Zenon DEF IInv

-----------------------------------------------------------------------------
(* The client's handler *)

LEMMA ClientReadableStep ==
  ASSUME IInv, NEW c \in Client, ClientReadable(c)
  PROVE  IInv'
  <1> USE Names
  <1> DEFINE g == mc_id[c]
             m == Head(inbox[c])
  <1>1. /\ UNCHANGED <<maps, server_state, receiver, tcp, outbox, table, status>>
        /\ inbox[c] # <<>> /\ pc[c] = Idle /\ failed = "no"
        /\ inbox' = [inbox EXCEPT ![c] = Tail(inbox[c])]
    BY Zenon DEF ClientReadable, MayStart
  <1>2. m \in Message /\ Tail(inbox[c]) \in Seq(Message)
    BY <1>1, Box, Zenon DEF IInv, Types
  <1>3. CASE g = 0
    <2>1. inbox[c] = <<Hello(c)>> /\ status[c] = "active" /\ outbox[c] = <<>>
      BY <1>1, <1>3, Zenon DEF IInv, Clients, ClientSound, NewClient, Idle
    <2>2. m = Hello(c) /\ Tail(inbox[c]) = <<>>
      BY <2>1, OneMessage, Zenon
    <2>3. /\ msg' = [msg EXCEPT ![c] = m] /\ pc' = [pc EXCEPT ![c] = <<"assign", 0>>]
          /\ UNCHANGED <<sender, client_state, failed>>
      BY <1>3, Zenon DEF ClientReadable, Goto
    <2>4. Types'
      BY <1>1, <1>2, <2>3, Zenon DEF IInv, Types, maps
    <2>5. Clients'
      <3> SUFFICES ASSUME NEW d \in Client PROVE ClientSound(d)'
        BY DEF Clients
      <3>1. CASE d = c
        <4>1. /\ inbox'[c] = <<>> /\ pc'[c] = <<"assign", 0>> /\ msg'[c] = m /\ m.qpn = c
              /\ mc_id'[c] = 0 /\ status'[c] = "active" /\ outbox'[c] = <<>>
          BY <1>1, <1>3, <2>1, <2>2, <2>3 DEF IInv, Types, maps, Hello
        <4> QED
          BY <3>1, <4>1, SMTT(60) DEF ClientSound, NewClient
      <3>2. CASE d # c
        BY <1>1, <2>3, <3>2, ClientFrame, Zenon DEF IInv, Types, Clients, maps, Acknowledged
      <3> QED
        BY <3>1, <3>2
    <2>6. Groups'
      BY <1>1, <2>3, Zenon DEF IInv, Groups, GroupSound, Acknowledged, maps
    <2>7. Members'
      BY <1>1, <2>3, HandshakeFrame, Zenon DEF IInv, Types, Members, maps, Acknowledged
    <2>8. Table' /\ failed' \notin {"member", "peer"}
      BY <1>1, <2>3, Zenon DEF IInv, Table, maps
    <2> QED
      BY <2>4, <2>5, <2>6, <2>7, <2>8 DEF IInv
  <1>4. CASE g # 0
    <2> DEFINE own == [qpn |-> c, peer |-> IdQpn(g)]
    <2>1. GroupClient(c) /\ g \in Id
      BY <1>4, ZenonT(90) DEF IInv, Types, Clients, ClientSound
    <2>2. m = own /\ Tail(inbox[c]) \in Seq({own}) /\ m.qpn = c /\ m.peer = IdQpn(g)
      <3>1. inbox[c] \in Seq({own})
        BY <2>1, Zenon DEF GroupClient
      <3>2. m \in {own} /\ Tail(inbox[c]) \in Seq({own})
        BY <1>1, <3>1, Box, Zenon
      <3> QED
        BY <3>2
    <2>3. /\ sender' = [sender EXCEPT ![g] = m] /\ UNCHANGED <<msg, pc>>
          /\ \/ failed' = "client" /\ client_state' = client_state
             \/ /\ failed' = "no" /\ client_state[g] = "HANDSHAKE_SENT"
                /\ client_state' = [client_state EXCEPT ![g] = "ACK_RECEIVED"]
      BY <1>4, <2>2, Zenon DEF ClientReadable
    <2>4. Types'
      BY <1>1, <1>2, <2>1, <2>3, ZenonT(90) DEF IInv, Types, maps
    <2>5. \A h \in Id : sender'[h].qpn = sender[h].qpn
      BY <2>1, <2>2, <2>3, Zenon DEF IInv, Types, GroupClient
    <2>6. Clients'
      <3> SUFFICES ASSUME NEW d \in Client PROVE ClientSound(d)'
        BY DEF Clients
      <3>1. CASE d = c
        <4>1. inbox'[c] = Tail(inbox[c])
          BY <1>1, Zenon DEF IInv, Types
        <4>2. /\ mc_id' = mc_id /\ groups' = groups /\ status' = status /\ outbox' = outbox
              /\ pc' = pc /\ tcp' = tcp /\ server_state' = server_state /\ sender'[g].qpn = c
          BY <1>1, <2>1, <2>3, <2>5, Zenon DEF maps, GroupClient
        <4> QED
          BY <1>4, <2>1, <2>2, <3>1, <4>1, <4>2, Zenon DEF ClientSound, GroupClient, Acknowledged
      <3>2. CASE d # c
        <4>1. groups \subseteq Id
          BY Zenon DEF IInv, Types
        <4> QED
        BY <1>1, <2>3, <2>5, <3>2, <4>1, ClientFrame, Zenon DEF IInv, Types, Clients, maps, Acknowledged
      <3> QED
        BY <3>1, <3>2
    <2>7. Groups'
      BY <1>1, <2>1, <2>3 DEF IInv, Types, Groups, GroupSound, Acknowledged, maps
    <2>8. Members'
      BY <1>1, <2>3, HandshakeFrame, Zenon DEF IInv, Types, Members, maps, Acknowledged
    <2>9. Table' /\ failed' \notin {"member", "peer"}
      BY <1>1, <2>3, Zenon DEF IInv, Table, maps
    <2> QED
      BY <2>4, <2>6, <2>7, <2>8, <2>9 DEF IInv
  <1> QED
    BY <1>3, <1>4, Zenon

\* A group enters the table with the client and the members it was built from.
LEMMA TableAdd ==
  ASSUME Table, NEW g \in groups, NEW c \in Client, mc_id[c] = g, UNCHANGED <<groups, mc_id>>,
         table' = [h \in DOMAIN table \cup {g} |->
                     IF h = g THEN [src |-> c, dst |-> [i \in Index |-> <<g, i>>]] ELSE table[h]]
  PROVE  Table'
  <1> DEFINE G == [src |-> c, dst |-> [i \in Index |-> <<g, i>>]]
  <1>1. G.src = c /\ G.dst = [i \in Index |-> <<g, i>>]
    BY Zenon
  <1> HIDE DEF G
  <1> SUFFICES ASSUME NEW h \in DOMAIN table'
               PROVE  /\ h \in groups
                      /\ table'[h].src \in Client /\ mc_id[table'[h].src] = h
                      /\ table'[h].dst = [i \in Index |-> <<h, i>>]
    BY Zenon DEF Table
  <1>2. CASE h = g
    <2>1. table'[h] = G
      BY <1>2, Zenon DEF G
    <2> QED
      BY <1>1, <1>2, <2>1, Zenon
  <1>3. CASE h # g
    <2>1. h \in DOMAIN table /\ table'[h] = table[h]
      BY <1>3, Zenon
    <2> QED
      BY <2>1, Zenon DEF Table
  <1> QED
    BY <1>2, <1>3, Zenon

LEMMA AssignGroupStep ==
  ASSUME FirstId # 0, IInv, NEW c \in Client, AssignGroup(c)
  PROVE  IInv'
  <1> USE Names
  <1> DEFINE g == m_mc_id
  <1>1. /\ g \in Id /\ g # 0 /\ g \in Nat /\ g \notin groups /\ m_mc_id' = g + 1
        /\ groups' = groups \cup {g}
    BY IdNotZero DEF AssignGroup, IInv, Types
  <1>2. /\ pc[c][1] = "assign"
        /\ mc_id' = [mc_id EXCEPT ![c] = g]
        /\ sender' = [sender EXCEPT ![g] = msg[c]]
        /\ msg' = [msg EXCEPT ![c] = NoMessage]
        /\ client_state' = [client_state EXCEPT ![g] = "HANDSHAKE_RECEIVED"]
        /\ pc' = [pc EXCEPT ![c] = <<"connect", 1>>]
        /\ UNCHANGED <<server_state, receiver, net, table, status, failed>>
    BY Zenon DEF AssignGroup, At, Goto
  <1>3. /\ mc_id[c] = 0 /\ msg[c].qpn = c /\ status[c] = "active" /\ inbox[c] = <<>>
        /\ outbox[c] = <<>>
    <2>1. pc[c] # Idle /\ pc[c][1] \notin {"connect", "name", "register"} /\ ClientSound(c)
      BY <1>2 DEF IInv, Clients, Idle
    <2>2. ~GroupClient(c)
      BY <2>1, Zenon DEF GroupClient
    <2> QED
      BY <2>1, <2>2, Zenon DEF ClientSound, NewClient
  <1>4. Types'
    <2>1. groups' = {h \in Id : h < m_mc_id'}
      BY <1>1, MulticastAssumption DEF IInv, Types, Id
    <2>2. 1 \in Index /\ NoMessage \in Message
      BY DEF Index, kNumMulticasts, NoMessage, Message
    <2> QED
      BY <1>1, <1>2, <2>1, <2>2, SMTT(60) DEF IInv, Types, net
  <1>5. \A i \in Index : tcp[<<g, i>>] = "none"
    BY <1>1, Zenon DEF IInv, Groups, GroupSound
  <1>6. Clients'
    <2> SUFFICES ASSUME NEW d \in Client PROVE ClientSound(d)'
      BY Zenon DEF Clients
    <2>1. CASE d = c
      <3>1. /\ mc_id'[c] = g /\ sender'[g] = msg[c] /\ pc'[c] = <<"connect", 1>>
            /\ status'[c] = "active" /\ inbox'[c] = <<>> /\ outbox'[c] = <<>> /\ tcp' = tcp
        BY <1>1, <1>2, <1>3, SMTT(60) DEF IInv, Types, net
      <3> QED
        BY <1>1, <1>3, <1>5, <2>1, <3>1, SMTT(60) DEF ClientSound, GroupClient, Index, kNumMulticasts
    <2>2. CASE d # c
      BY <1>1, <1>2, <2>2, ClientFrame DEF IInv, Types, Clients, net, Acknowledged
    <2> QED
      BY <2>1, <2>2, Zenon
  <1>7. Groups'
    <2> SUFFICES ASSUME NEW h \in Id PROVE GroupSound(h)'
      BY Zenon DEF Groups
    <2>1. CASE h = g
      BY <1>1, <1>2, <2>1 DEF IInv, Types, GroupSound
    <2>2. CASE h # g
      <3>1. \A d \in Client : mc_id[d] = h => mc_id'[d] = h
        BY <1>2, <1>3, IdNotZero, ZenonT(90) DEF IInv, Types
      <3> QED
        BY <1>1, <1>2, <2>2, <3>1, Zenon DEF IInv, Types, Groups, GroupSound, Acknowledged, net
    <2> QED
      BY <2>1, <2>2, Zenon
  <1>8. Members'
    BY <1>2, HandshakeFrame, ZenonT(90) DEF IInv, Types, Members, net, Acknowledged
  <1>9. Table' /\ failed' \notin {"member", "peer"}
    <2>1. \A h \in groups : h # 0
      BY IdNotZero, Zenon DEF IInv, Types
    <2>2. ASSUME NEW h \in DOMAIN table PROVE mc_id'[table[h].src] = h
      <3>1. h \in groups /\ table[h].src \in Client /\ mc_id[table[h].src] = h
        BY Zenon DEF IInv, Table
      <3>2. table[h].src # c
        BY <1>3, <2>1, <3>1, Zenon
      <3> QED
        BY <1>2, <3>1, <3>2, Zenon DEF IInv, Types
    <2> QED
      BY <1>1, <1>2, <2>2, Zenon DEF IInv, Table
  <1> QED
    BY <1>4, <1>6, <1>7, <1>8, <1>9, Zenon DEF IInv

\* A client in the loop over the members is in its group, which no other client has.
LEMMA InLoop ==
  ASSUME IInv, NEW c \in Client, pc[c][1] \in {"connect", "name", "register"}
  PROVE  /\ mc_id[c] # 0 /\ mc_id[c] \in Id /\ mc_id[c] \in groups /\ GroupClient(c)
         /\ pc[c][2] \in Index /\ Current(c) \in Member
         /\ \A d \in Client : mc_id[d] = mc_id[c] => d = c
  <1>1. pc[c] # Idle /\ pc[c][1] # "assign"
    BY DEF Idle
  <1>2. mc_id[c] # 0 /\ GroupClient(c) /\ mc_id[c] \in Id
    <2>1. ClientSound(c) /\ mc_id[c] \in Id \cup {0}
      BY ZenonT(90) DEF IInv, Types, Clients
    <2>2. ~NewClient(c)
      BY <1>1, Zenon DEF NewClient
    <2> QED
      BY <2>1, <2>2, Zenon DEF ClientSound
  <1>3. pc[c][2] \in Index /\ mc_id[c] \in groups /\ sender[mc_id[c]].qpn = c
    BY <1>1, <1>2, Zenon DEF GroupClient
  <1>4. \A d \in Client : mc_id[d] = mc_id[c] => d = c
    <2>1. \A d \in Client : mc_id[d] # 0 => sender[mc_id[d]].qpn = d
      BY Zenon DEF IInv, Clients, ClientSound, GroupClient
    <2> QED
      BY <1>2, <1>3, <2>1, Zenon
  <1> QED
    BY <1>2, <1>3, <1>4, MemberPairs, Zenon DEF Current

LEMMA ConnectMemberStep ==
  ASSUME IInv, NEW c \in Client, ConnectMember(c)
  PROVE  IInv'
  <1> USE Names
  <1> DEFINE g == mc_id[c]
             j == pc[c][2]
             s == Current(c)
  <1>1. /\ pc[c][1] = "connect"
        /\ tcp' = [tcp EXCEPT ![s] = "connecting"]
        /\ pc' = [pc EXCEPT ![c] = <<"name", j>>]
        /\ UNCHANGED <<maps, meta, msg, inbox, outbox, table, status, failed>>
    BY Zenon DEF ConnectMember, At, Goto
  <1>2. /\ g # 0 /\ g \in Id /\ g \in groups /\ GroupClient(c) /\ j \in Index /\ s \in Member
        /\ s = <<g, j>> /\ \A d \in Client : mc_id[d] = g => d = c
    BY <1>1, InLoop, Zenon DEF Current
  <1>3. tcp[s] = "none"
    BY <1>1, <1>2 DEF GroupClient, Index
  <1>4. Types'
    BY <1>1, <1>2, Zenon DEF IInv, Types, maps, meta
  <1>5. Clients'
    <2> SUFFICES ASSUME NEW d \in Client PROVE ClientSound(d)'
      BY DEF Clients
    <2>1. CASE d = c
      <3>1. /\ pc'[c] = <<"name", j>> /\ mc_id' = mc_id /\ groups' = groups /\ sender' = sender
            /\ status' = status /\ inbox' = inbox /\ outbox' = outbox
            /\ server_state' = server_state
        BY <1>1, ZenonT(90) DEF IInv, Types, maps, meta
      <3>2. \A i \in Index : i > j => tcp'[<<g, i>>] = "none"
        <4> SUFFICES ASSUME NEW i \in Index, i > j PROVE tcp'[<<g, i>>] = "none"
          BY Zenon
        <4>1. tcp[<<g, i>>] = "none"
          BY <1>1, <1>2, SMTT(60) DEF GroupClient, Index
        <4>2. <<g, i>> # s /\ <<g, i>> \in Member
          BY <1>2, MemberPairs, SMTT(60) DEF Index
        <4> QED
          BY <1>1, <4>1, <4>2, Zenon DEF IInv, Types
      <3>3. GroupClient(c)'
        BY <1>2, <3>1, <3>2 DEF GroupClient, Acknowledged
      <3> QED
        BY <1>2, <2>1, <3>1, <3>3, Zenon DEF ClientSound
    <2>2. CASE d # c
      <3>1. \A i \in Index : tcp'[<<mc_id[d], i>>] = tcp[<<mc_id[d], i>>]
        BY <1>1, <1>2, <2>2, SMTT(60) DEF IInv, Types
      <3> QED
        BY <1>1, <2>2, <3>1, ClientFrame, Zenon DEF IInv, Types, Clients, maps, meta, Acknowledged
    <2> QED
      BY <2>1, <2>2
  <1>6. Groups'
    BY <1>1, <1>2 DEF IInv, Types, Groups, GroupSound, Acknowledged, maps, meta
  <1>7. Members'
    <2> SUFFICES ASSUME NEW r \in Member PROVE Handshake(r)'
      BY Zenon DEF Members
    <2>1. CASE r = s
      <3>1. pc[r] = Idle /\ Fresh(r)
        BY <1>3, <2>1, Zenon DEF IInv, Members, Handshake
      <3>2. /\ tcp'[r] = "connecting" /\ pc'[r] = pc[r] /\ server_state' = server_state
            /\ receiver' = receiver /\ status' = status /\ inbox' = inbox /\ outbox' = outbox
        BY <1>1, <1>2, <2>1, ZenonT(90) DEF IInv, Types, meta
      <3>3. Fresh(r)'
        BY <3>1, <3>2, Zenon DEF Fresh
      <3> QED
        BY <3>1, <3>2, <3>3, Zenon DEF Handshake
    <2>2. CASE r # s
      BY <1>1, <2>2, HandshakeFrame, ZenonT(90) DEF IInv, Types, Members, maps, meta, Acknowledged
    <2> QED
      BY <2>1, <2>2, Zenon
  <1>8. Table' /\ failed' \notin {"member", "peer"}
    BY <1>1, Zenon DEF IInv, Table, maps
  <1> QED
    BY <1>4, <1>5, <1>6, <1>7, <1>8 DEF IInv

\* NameMember and RegisterMember: the loop goes forward.
LEMMA LoopStep ==
  ASSUME IInv, NEW c \in Client, NEW i, NEW l, pc' = [pc EXCEPT ![c] = <<l, i>>],
         \/ pc[c][1] = "name" /\ l = "register" /\ i = pc[c][2]
         \/ pc[c][1] = "register" /\ l = "connect" /\ i = pc[c][2] + 1 /\ i \in Index
         \/ pc[c][1] = "register" /\ l = "idle" /\ i = 0,
         UNCHANGED <<m_mc_id, mc_id, groups, meta, msg, net, table, status, failed>>
  PROVE  IInv'
  <1> USE Names
  <1> DEFINE g == mc_id[c]
  <1>1. /\ g # 0 /\ g \in Id /\ g \in groups /\ GroupClient(c) /\ pc[c][2] \in Index
        /\ i \in Index \cup {0} /\ l \in {"idle", "connect", "register"}
    BY InLoop, Zenon
  <1>2. Types'
    BY <1>1, Zenon DEF IInv, Types, meta, net
  <1>3. Clients'
    <2> SUFFICES ASSUME NEW d \in Client PROVE ClientSound(d)'
      BY Zenon DEF Clients
    <2>1. CASE d = c
      <3>1. /\ pc'[c] = <<l, i>> /\ mc_id' = mc_id /\ groups' = groups /\ sender' = sender
            /\ status' = status /\ inbox' = inbox /\ outbox' = outbox /\ tcp' = tcp
            /\ server_state' = server_state
        BY ZenonT(90) DEF IInv, Types, meta, net
      <3>2. \A k \in Index :
              (\/ l = "connect" /\ k >= i
               \/ l \in {"name", "register"} /\ k > i) => tcp[<<g, k>>] = "none"
        BY <1>1, SMTT(60) DEF GroupClient, Index
      <3>3. <<l, i>> = Idle \/ (l \in {"connect", "name", "register"} /\ i \in Index)
        BY <1>1, ZenonT(90) DEF Idle
      <3>4. GroupClient(c)'
        BY <1>1, <3>1, <3>2, <3>3 DEF GroupClient, Acknowledged
      <3> QED
        BY <1>1, <2>1, <3>1, <3>4, Zenon DEF ClientSound
    <2>2. CASE d # c
      BY <2>2, ClientFrame, ZenonT(90) DEF IInv, Types, Clients, meta, net, Acknowledged
    <2> QED
      BY <2>1, <2>2, Zenon
  <1>4. Groups'
    BY Zenon DEF IInv, Groups, GroupSound, Acknowledged, meta, net
  <1>5. Members'
    BY HandshakeFrame, ZenonT(90) DEF IInv, Types, Members, meta, net, Acknowledged
  <1>6. Table' /\ failed' \notin {"member", "peer"}
    BY Zenon DEF IInv, Table
  <1> QED
    BY <1>2, <1>3, <1>4, <1>5, <1>6, Zenon DEF IInv

LEMMA NameRegisterStep ==
  ASSUME IInv, NEW c \in Client, NameMember(c) \/ RegisterMember(c)
  PROVE  IInv'
  <1>1. CASE NameMember(c)
    <2>1. /\ pc[c][1] = "name" /\ pc' = [pc EXCEPT ![c] = <<"register", pc[c][2]>>]
          /\ UNCHANGED <<m_mc_id, mc_id, groups, meta, msg, net, table, status, failed>>
      BY <1>1, Zenon DEF NameMember, At, Goto
    <2> QED
      BY <2>1, LoopStep, Zenon
  <1>2. CASE RegisterMember(c)
    <2>1. /\ pc[c][1] = "register"
          /\ UNCHANGED <<m_mc_id, mc_id, groups, meta, msg, net, table, status, failed>>
      BY <1>2, Zenon DEF RegisterMember, At
    <2>2. pc[c][2] \in Index
      BY <2>1, InLoop, Zenon
    <2>3. CASE More(pc[c][2])
      <3>1. pc' = [pc EXCEPT ![c] = <<"connect", pc[c][2] + 1>>] /\ pc[c][2] + 1 \in Index
        BY <1>2, <2>2, <2>3 DEF RegisterMember, Goto, More, Index, kNumMulticasts
      <3> QED
        BY <2>1, <3>1, LoopStep, Zenon
    <2>4. CASE ~More(pc[c][2])
      <3>1. pc' = [pc EXCEPT ![c] = <<"idle", 0>>]
        BY <1>2, <2>4, Zenon DEF RegisterMember, Goto, Idle
      <3> QED
        BY <2>1, <3>1, LoopStep, Zenon
    <2> QED
      BY <2>3, <2>4, Zenon
  <1> QED
    BY <1>1, <1>2, Zenon

-----------------------------------------------------------------------------
(* The handlers of the members' connections *)

\* What a step of the handlers of s may change
Local(s) ==
  /\ UNCHANGED <<m_mc_id, mc_id, groups, sender, status>>
  /\ \A d \in Conn \ {s} : pc'[d] = pc[d] /\ msg'[d] = msg[d] /\ inbox'[d] = inbox[d]
  /\ \A r \in Member \ {s} :
       /\ tcp'[r] = tcp[r] /\ server_state'[r] = server_state[r] /\ receiver'[r] = receiver[r]
       /\ outbox'[r] = outbox[r]
  /\ server_state[s] = "HANDSHAKE_ACK_SENT" => server_state'[s] = "HANDSHAKE_ACK_SENT"
  /\ tcp[s] # "none"
  /\ \A g \in groups : client_state'[g] = client_state[g] \/ Acknowledged(g)

\* An acknowledged group stays acknowledged.
LEMMA AcknowledgedStays ==
  ASSUME NEW s \in Member, Local(s), NEW g \in Id, Acknowledged(g)
  PROVE  Acknowledged(g)'
  <1> SUFFICES ASSUME NEW i \in Index PROVE server_state'[<<g, i>>] = "HANDSHAKE_ACK_SENT"
    BY Zenon DEF Acknowledged
  <1>1. server_state[<<g, i>>] = "HANDSHAKE_ACK_SENT" /\ <<g, i>> \in Member
    BY MemberPairs, Zenon DEF Acknowledged
  <1> QED
    BY <1>1, Zenon DEF Local

\* The other members and the groups are kept by such a step.
LEMMA LocalMembers ==
  ASSUME IInv, NEW s \in Member, Local(s), Handshake(s)'
  PROVE  Members' /\ Groups'
  <1> USE Names
  <1>1. Members'
    <2> SUFFICES ASSUME NEW r \in Member, r # s PROVE Handshake(r)'
      BY Zenon DEF Members
    <2>1. Handshake(r) /\ r[1] \in Id
      BY MemberPairs, Zenon DEF IInv, Members
    <2>2. Acknowledged(r[1]) => Acknowledged(r[1])'
      BY <2>1, AcknowledgedStays, Zenon
    <2> QED
      BY <2>1, <2>2, HandshakeFrame, Zenon DEF Local
  <1>2. Groups'
    <2> SUFFICES ASSUME NEW g \in Id PROVE GroupSound(g)'
      BY Zenon DEF Groups
    <2>1. GroupSound(g) /\ groups' = groups /\ mc_id' = mc_id
      BY Zenon DEF IInv, Groups, Local
    <2>2. CASE g \in groups
      <3>1. client_state'[g] = "HANDSHAKE_RECEIVED" \/ Acknowledged(g)
        BY <2>1, <2>2, Zenon DEF GroupSound, Local
      <3> QED
        BY <2>1, <2>2, <3>1, AcknowledgedStays, Zenon DEF GroupSound
    <2>3. CASE g \notin groups
      <3>1. \A i \in Index : tcp[<<g, i>>] = "none" /\ <<g, i>> # s /\ <<g, i>> \in Member
        BY <2>1, <2>3, MemberPairs, Zenon DEF GroupSound, Local
      <3>2. \A i \in Index : tcp'[<<g, i>>] = "none"
        BY <3>1, Zenon DEF Local
      <3> QED
        BY <2>1, <2>3, <3>2, Zenon DEF GroupSound
    <2> QED
      BY <2>2, <2>3, Zenon
  <1> QED
    BY <1>1, <1>2, Zenon

\* So is a client that is sent nothing.
LEMMA LocalClient ==
  ASSUME IInv, NEW s \in Member, Local(s), NEW c \in Client, outbox'[c] = outbox[c]
  PROVE  ClientSound(c)'
  <1>1. /\ ClientSound(c) /\ mc_id'[c] = mc_id[c] /\ pc'[c] = pc[c] /\ status'[c] = status[c]
        /\ msg'[c] = msg[c] /\ inbox'[c] = inbox[c] /\ groups' = groups /\ groups \subseteq Id
        /\ sender' = sender
    BY Names, Zenon DEF IInv, Types, Clients, Local
  <1>2. \A g \in groups : Acknowledged(g) => Acknowledged(g)'
    BY <1>1, AcknowledgedStays, Zenon
  <1>3. CASE mc_id[c] = 0
    BY <1>1, <1>3, Zenon DEF ClientSound, NewClient
  <1>4. CASE mc_id[c] # 0
    <2>1. mc_id[c] \in Id
      BY <1>4 DEF IInv, Types
    <2>2. \A i \in Index : tcp[<<mc_id[c], i>>] = "none" => tcp'[<<mc_id[c], i>>] = "none"
      BY <2>1, MemberPairs, Zenon DEF Local
    <2> QED
      BY <1>1, <1>2, <2>2, ClientFrame, Zenon
  <1> QED
    BY <1>3, <1>4, Zenon

LEMMA LocalStep ==
  ASSUME IInv, NEW s \in Member, Local(s), Types', Handshake(s)',
         \A c \in Client : outbox'[c] = outbox[c], table' = table,
         failed' \notin {"member", "peer"}
  PROVE  IInv'
  <1>1. Clients'
    BY LocalClient, Zenon DEF Clients
  <1>2. Table'
    BY Zenon DEF IInv, Table, Local
  <1> QED
    BY <1>1, <1>2, LocalMembers, Zenon DEF IInv

LEMMA ServerStart ==
  ASSUME IInv, NEW s \in Member, Established(s) \/ ServerWriteable(s)
  PROVE  IInv'
  <1> USE Names
  <1>1. /\ tcp[s] \in {"connecting", "up"} /\ pc[s] = Idle
        /\ UNCHANGED <<maps, meta, msg, inbox, outbox, table, status>>
        /\ failed' \notin {"member", "peer"}
    BY Zenon DEF Established, ServerWriteable, MayStart
  <1>2. \/ tcp' = [tcp EXCEPT ![s] = "up"] /\ pc' = pc
        \/ tcp' = [tcp EXCEPT ![s] = "open"] /\ pc' = [pc EXCEPT ![s] = <<"writeable", 0>>]
    BY Zenon DEF Established, ServerWriteable, Goto
  <1>3. Types'
    <2>1. CASE tcp' = [tcp EXCEPT ![s] = "up"] /\ pc' = pc
      BY <1>1, <2>1, Zenon DEF IInv, Types, maps, meta
    <2>2. CASE tcp' = [tcp EXCEPT ![s] = "open"] /\ pc' = [pc EXCEPT ![s] = <<"writeable", 0>>]
      BY <1>1, <2>2, Zenon DEF IInv, Types, maps, meta
    <2> QED
      BY <1>2, <2>1, <2>2, Zenon
  <1>4. Fresh(s)'
    <2>1. Fresh(s)
      BY <1>1, Zenon DEF IInv, Members, Handshake
    <2> QED
      BY <1>1, <2>1, Zenon DEF Fresh, meta
  <1>5. Handshake(s)'
    <2>1. \/ tcp'[s] = "up" /\ pc'[s] = Idle
          \/ tcp'[s] = "open" /\ pc'[s][1] = "writeable"
      BY <1>1, <1>2, SMTT(60) DEF IInv, Types
    <2> QED
      BY <1>4, <2>1, Zenon DEF Handshake
  <1>6. Local(s)
    BY <1>1, <1>2 DEF IInv, Types, Local, maps, meta
  <1> QED
    BY <1>1, <1>3, <1>5, <1>6, LocalStep, Zenon

\* A group whose members' connections exist is at its first stage until they are ready.
LEMMA FirstStage ==
  ASSUME IInv, NEW s \in Member, tcp[s] # "none", server_state[s] # "HANDSHAKE_ACK_SENT"
  PROVE  client_state[s[1]] = "HANDSHAKE_RECEIVED" /\ s[1] \in groups
  <1>1. s[1] \in Id /\ s[2] \in Index /\ s = <<s[1], s[2]>>
    BY MemberPairs, Zenon
  <1>2. ~Acknowledged(s[1])
    BY <1>1, Zenon DEF Acknowledged
  <1>3. GroupSound(s[1])
    BY <1>1, Zenon DEF IInv, Groups
  <1> QED
    BY <1>1, <1>2, <1>3, Zenon DEF GroupSound

LEMMA ServerWriteableLockedStep ==
  ASSUME IInv, NEW s \in Member, ServerWriteableLocked(s)
  PROVE  IInv'
  <1> USE Names
  <1> DEFINE m == [qpn |-> sender[s[1]].qpn, peer |-> receiver[s]]
  <1>1. /\ pc[s][1] = "writeable" /\ receiver' = receiver
        /\ server_state' = [server_state EXCEPT ![s] = "CONNECTED"]
        /\ pc' = [pc EXCEPT ![s] = <<"sent", 0>>]
        /\ UNCHANGED <<maps, client_state, sender, msg, tcp, inbox, table, status, failed>>
    BY Zenon DEF ServerWriteableLocked, At, Goto
  <1>2. tcp[s] = "open" /\ Fresh(s)
    <2>1. pc[s] # Idle /\ pc[s][1] \notin {"sent", "readable", "tell"}
      BY <1>1 DEF Idle
    <2> QED
      BY <2>1, Zenon DEF IInv, Members, Handshake
  <1>3. client_state[s[1]] = "HANDSHAKE_RECEIVED"
    BY <1>2, FirstStage, Zenon DEF Fresh
  <1>4. m \in Message /\ m.peer = NoQpn
    BY <1>2, MemberPairs, Zenon DEF IInv, Types, Message, Fresh
  <1>5. outbox' = [outbox EXCEPT ![s] = <<m>>]
    <2>1. outbox' = [outbox EXCEPT ![s] = Append(outbox[s], m)]
      BY <1>1, <1>3, Zenon DEF ServerWriteableLocked, ToMember, Send
    <2>2. outbox[s] = <<>>
      BY <1>2, Zenon DEF Fresh
    <2>3. Append(<<>>, m) = <<m>>
      BY <1>4, OneMessage, Zenon
    <2> QED
      BY <2>1, <2>2, <2>3, Zenon
  <1>6. <<m>> \in Seq(Message)
    BY <1>4, OneMessage, Zenon
  <1> HIDE DEF m
  <1>7. Types'
    BY <1>1, <1>5, <1>6 DEF IInv, Types, maps
  <1>8. Handshake(s)'
    <2>1. /\ pc'[s][1] = "sent" /\ server_state'[s] = "CONNECTED" /\ outbox'[s] = <<m>>
          /\ tcp'[s] = "open" /\ receiver'[s] = NoQpn /\ status'[s] = "new" /\ inbox'[s] = <<>>
      BY <1>1, <1>2, <1>5, Zenon DEF IInv, Types, Fresh
    <2>2. Asked(s)'
      BY <1>4, <2>1, Zenon DEF Asked
    <2> QED
      BY <2>1, <2>2, Zenon DEF Handshake
  <1>9. Local(s)
    BY <1>1, <1>2, <1>5, Zenon DEF IInv, Types, Local, maps, Fresh
  <1>10. \A c \in Client : outbox'[c] = outbox[c]
    BY <1>5, Zenon DEF IInv, Types
  <1> QED
    BY <1>1, <1>7, <1>8, <1>9, <1>10, LocalStep, Zenon DEF IInv

LEMMA ServerWriteableSentStep ==
  ASSUME IInv, NEW s \in Member, ServerWriteableSent(s)
  PROVE  IInv'
  <1> USE Names
  <1>1. /\ pc[s][1] = "sent"
        /\ server_state' = IF client_state[s[1]] = "HANDSHAKE_RECEIVED"
                           THEN [server_state EXCEPT ![s] = "HANDSHAKE_SENT"] ELSE server_state
        /\ pc' = [pc EXCEPT ![s] = Idle]
        /\ UNCHANGED <<maps, client_state, sender, receiver, msg, net, table, status, failed>>
    BY Zenon DEF ServerWriteableSent, At, Goto
  <1>2. tcp[s] = "open" /\ server_state[s] = "CONNECTED" /\ Asked(s)
    <2>1. pc[s] # Idle /\ pc[s][1] \notin {"writeable", "readable", "tell"}
      BY <1>1 DEF Idle
    <2> QED
      BY <2>1, Zenon DEF IInv, Members, Handshake
  <1>3. server_state' = [server_state EXCEPT ![s] = "HANDSHAKE_SENT"]
    BY <1>1, <1>2, FirstStage, Zenon
  <1>4. Types'
    BY <1>1, <1>3 DEF IInv, Types, maps, net, Idle
  <1>5. Handshake(s)'
    <2>1. /\ pc'[s] = Idle /\ server_state'[s] = "HANDSHAKE_SENT" /\ tcp'[s] = "open"
          /\ receiver' = receiver /\ status' = status /\ inbox' = inbox /\ outbox' = outbox
      BY <1>1, <1>2, <1>3, Zenon DEF IInv, Types, net
    <2>2. Asked(s)'
      BY <1>2, <2>1, Zenon DEF Asked
    <2> QED
      BY <2>1, <2>2, Zenon DEF Handshake
  <1>6. Local(s)
    BY <1>1, <1>2, <1>3, ZenonT(90) DEF IInv, Types, Local, maps, net
  <1> QED
    BY <1>1, <1>4, <1>5, <1>6, LocalStep, Zenon DEF IInv, net

LEMMA ServerReadableStep ==
  ASSUME IInv, NEW s \in Member, ServerReadable(s)
  PROVE  IInv'
  <1> USE Names
  <1>1. /\ pc[s] = Idle /\ inbox[s] # <<>>
        /\ msg' = [msg EXCEPT ![s] = Head(inbox[s])]
        /\ inbox' = [inbox EXCEPT ![s] = Tail(inbox[s])]
        /\ pc' = [pc EXCEPT ![s] = <<"readable", 0>>]
        /\ UNCHANGED <<maps, meta, tcp, outbox, table, status, failed>>
    BY Zenon DEF ServerReadable, MayStart, Goto
  <1>2. tcp[s] = "open" /\ server_state[s] = "HANDSHAKE_SENT" /\ Asked(s)
    <2>1. pc[s][1] \notin {"writeable", "sent", "readable", "tell"}
      BY <1>1 DEF Idle
    <2> QED
      BY <1>1, <2>1, Zenon DEF IInv, Members, Handshake, Fresh
  <1>3. PICK m \in Message : inbox[s] = <<m>> /\ m.qpn = s
    BY <1>1, <1>2, Zenon DEF Asked
  <1>4. status[s] = "active" /\ outbox[s] = <<>> /\ receiver[s] = NoQpn
    BY <1>1, <1>2, Zenon DEF Asked
  <1>5. Head(inbox[s]) = m /\ Tail(inbox[s]) = <<>>
    BY <1>3, OneMessage, Zenon
  <1>6. Types'
    <2>1. <<>> \in Seq(Message)
      BY EmptySeq, Zenon
    <2> QED
      BY <1>1, <1>5, <2>1, Zenon DEF IInv, Types, maps, meta
  <1>7. Handshake(s)'
    <2>1. /\ pc'[s][1] = "readable" /\ msg'[s] = m /\ inbox'[s] = <<>>
          /\ UNCHANGED <<tcp, outbox, status, receiver, server_state>>
      BY <1>1, <1>5, Zenon DEF IInv, Types, meta
    <2> QED
      BY <1>2, <1>3, <1>4, <2>1, Zenon DEF Handshake
  <1>8. Local(s)
    BY <1>1, <1>2, ZenonT(90) DEF IInv, Types, Local, maps, meta
  <1> QED
    BY <1>1, <1>6, <1>7, <1>8, LocalStep, Zenon DEF IInv

LEMMA ServerReadableToldStep ==
  ASSUME IInv, NEW s \in Member, ServerReadableTold(s)
  PROVE  IInv'
  <1> USE Names
  <1>1. /\ pc[s][1] = "tell"
        /\ client_state' = IF pc[s][2] = 1 THEN [client_state EXCEPT ![s[1]] = "HANDSHAKE_SENT"]
                           ELSE client_state
        /\ pc' = [pc EXCEPT ![s] = Idle]
        /\ UNCHANGED <<maps, server_state, sender, receiver, msg, net, table, status, failed>>
    BY Zenon DEF ServerReadableTold, At, Goto
  <1>2. /\ tcp[s] = "open" /\ server_state[s] = "HANDSHAKE_ACK_SENT"
        /\ receiver[s] = s /\ status[s] # "new" /\ inbox[s] = <<>>
        /\ outbox[s] \in Seq({m \in Message : m.peer = s})
        /\ pc[s][2] = 1 => Acknowledged(s[1])
    <2>1. pc[s] # Idle /\ pc[s][1] \notin {"writeable", "sent", "readable"}
      BY <1>1 DEF Idle
    <2> QED
      BY <1>1, <2>1, ZenonT(90) DEF IInv, Members, Handshake
  <1>3. Types'
    <2>1. s[1] \in Id
      BY MemberPairs, Zenon
    <2>2. client_state' \in [Id -> {"INIT", "HANDSHAKE_RECEIVED", "HANDSHAKE_SENT", "ACK_RECEIVED"}]
      BY <1>1, <2>1, Zenon DEF IInv, Types
    <2> QED
      BY <1>1, <2>2, Zenon DEF IInv, Types, maps, net, Idle
  <1>4. Handshake(s)'
    <2>1. /\ pc'[s] = Idle /\ pc'[s][1] # "tell"
          /\ UNCHANGED <<tcp, outbox, inbox, status, receiver, server_state>>
      BY <1>1 DEF IInv, Types, net, Idle
    <2> QED
      BY <1>2, <2>1, Zenon DEF Handshake
  <1>5. Local(s)
    <2>1. \A g \in groups : client_state'[g] = client_state[g] \/ Acknowledged(g)
      BY <1>1, <1>2, Zenon DEF IInv, Types
    <2> QED
      BY <1>1, <1>2, <2>1, Zenon DEF IInv, Types, Local, maps, net
  <1> QED
    BY <1>1, <1>3, <1>4, <1>5, LocalStep, Zenon DEF IInv, net

LEMMA ServerReadableLockedStep ==
  ASSUME FirstId # 0, IInv, NEW s \in Member, ServerReadableLocked(s)
  PROVE  IInv'
  <1> USE Names
  <1> DEFINE g == s[1]
             states == [server_state EXCEPT ![s] = "HANDSHAKE_ACK_SENT"]
             m == [qpn |-> sender[g].qpn, peer |-> s]
             a == [qpn |-> IdQpn(g), peer |-> sender[g].qpn]
             sec == {n \in Message : n.peer = s}
  <1>1. /\ pc[s][1] = "readable"
        /\ receiver' = [receiver EXCEPT ![s] = msg[s].qpn]
        /\ msg' = [msg EXCEPT ![s] = NoMessage]
        /\ UNCHANGED <<maps, client_state, sender, tcp, inbox, status>>
    BY Zenon DEF ServerReadableLocked, At
  <1>2. /\ tcp[s] = "open" /\ server_state[s] = "HANDSHAKE_SENT" /\ msg[s].qpn = s
        /\ status[s] # "new" /\ inbox[s] = <<>> /\ outbox[s] = <<>>
    <2>1. pc[s] # Idle /\ pc[s][1] \notin {"writeable", "sent", "tell"}
      BY <1>1 DEF Idle
    <2> QED
      BY <1>1, <2>1, Zenon DEF IInv, Members, Handshake
  <1>3. /\ g \in Id /\ g \in groups /\ s = <<g, s[2]>> /\ s[2] \in Index
        /\ client_state[g] = "HANDSHAKE_RECEIVED"
    BY <1>2, FirstStage, MemberPairs, Zenon
  <1>4. PICK c \in Client : mc_id[c] = g
    BY <1>3, Zenon DEF IInv, Groups, GroupSound
  <1>5. GroupClient(c) /\ sender[g].qpn = c /\ c # s
    BY <1>3, <1>4, IdNotZero, ZenonT(90) DEF IInv, Clients, ClientSound, GroupClient
  <1>6. m \in Message /\ m \in sec /\ a \in Message /\ a.qpn = IdQpn(g)
    BY <1>3, <1>5, Zenon DEF Message
  <1>7. receiver'[s] = s /\ receiver' = [receiver EXCEPT ![s] = s]
    BY <1>1, <1>2, Zenon DEF IInv, Types
  <1>8. ToMember(s) = [outbox EXCEPT ![s] = <<m>>]
    <2>1. ToMember(s) = [outbox EXCEPT ![s] = Append(outbox[s], m)]
      BY <1>7, Zenon DEF ToMember, Send
    <2>2. Append(<<>>, m) = <<m>>
      BY <1>6, OneMessage, Zenon
    <2> QED
      BY <1>2, <2>1, <2>2, Zenon
  <1>9. server_state' = states /\ failed' = failed
    BY <1>2, Zenon DEF ServerReadableLocked
  <1>10. Complete(g, states) <=> Acknowledged(g)'
    BY <1>3, <1>9, Zenon DEF Complete, Acknowledged
  <1>11. pc' = [pc EXCEPT ![s] = <<"tell", IF Complete(g, states) THEN 1 ELSE 0>>]
    BY <1>2, Zenon DEF ServerReadableLocked, Goto
  <1>12. <<m>> \in Seq(sec) /\ <<m>> \in Seq(Message)
    BY <1>6, OneMessage, Zenon
  <1>13. /\ Append(outbox[c], a) \in Seq({n \in Message : n.qpn = IdQpn(g)})
         /\ Append(outbox[c], a) \in Seq(Message)
    <2> DEFINE fst == {n \in Message : n.qpn = IdQpn(g)}
    <2>1. outbox[c] \in Seq(fst) /\ outbox[c] \in Seq(Message)
      BY <1>4, <1>5 DEF IInv, Types, GroupClient
    <2>2. a \in fst /\ a \in Message
      BY <1>6, Zenon
    <2> HIDE DEF fst, a
    <2>3. Append(outbox[c], a) \in Seq(fst) /\ Append(outbox[c], a) \in Seq(Message)
      BY <2>1, <2>2, Box, Zenon
    <2> QED
      BY <2>3, Zenon DEF fst
  <1>14. \/ /\ ~Complete(g, states) /\ table' = table
            /\ outbox' = [outbox EXCEPT ![s] = <<m>>]
         \/ /\ Complete(g, states) /\ table' = GroupAdd(g, Group(g, receiver'))
            /\ outbox' = [outbox EXCEPT ![s] = <<m>>, ![c] = Append(outbox[c], a)]
    <2>1. CASE ~Complete(g, states)
      BY <1>2, <1>8, <2>1, Zenon DEF ServerReadableLocked
    <2>2. CASE Complete(g, states)
      <3>1. /\ table' = GroupAdd(g, Group(g, receiver'))
            /\ outbox' = [ToMember(s) EXCEPT ![c] = Append(@, a)]
        BY <1>2, <1>5, <2>2, Zenon DEF ServerReadableLocked
      <3> QED
        BY <1>5, <1>8, <2>2, <3>1, Zenon DEF IInv, Types
    <2> QED
      BY <2>1, <2>2, Zenon
  <1> HIDE DEF m, a, states
  <1>15. Types'
    <2>1. outbox' \in [Conn -> Seq(Message)]
      <3>1. <<m>> \in Seq(Message) /\ Append(outbox[c], a) \in Seq(Message)
        BY <1>12, <1>13, Zenon
      <3>2. outbox \in [Conn -> Seq(Message)]
        BY Zenon DEF IInv, Types
      <3>3. \/ outbox' = [outbox EXCEPT ![s] = <<m>>]
            \/ outbox' = [outbox EXCEPT ![s] = <<m>>, ![c] = Append(outbox[c], a)]
        BY <1>14, Zenon
      <3>4. CASE outbox' = [outbox EXCEPT ![s] = <<m>>]
        BY <3>1, <3>2, <3>4, Zenon
      <3>5. CASE outbox' = [outbox EXCEPT ![s] = <<m>>, ![c] = Append(outbox[c], a)]
        BY <3>1, <3>2, <3>5, ZenonT(90)
      <3> QED
        BY <3>3, <3>4, <3>5, Zenon
    <2>2. receiver' \in [Member -> Qpn] /\ msg' \in [Conn -> Message]
      BY <1>1, <1>7 DEF IInv, Types, Message, NoMessage
    <2>3. server_state' \in [Member -> {"INIT", "CONNECTED", "HANDSHAKE_SENT", "HANDSHAKE_ACK_SENT"}]
      BY <1>9, Zenon DEF IInv, Types, states
    <2>4. pc' \in [Conn -> {"idle", "assign", "connect", "name", "register", "writeable", "sent",
                            "readable", "tell"} \X (Index \cup {0})]
      BY <1>11, SMTT(60) DEF IInv, Types, Index, kNumMulticasts
    <2> QED
      BY <1>1, <2>1, <2>2, <2>3, <2>4, Zenon DEF IInv, Types, maps
  <1>16. outbox'[s] = <<m>> /\ \A d \in Conn \ {s, c} : outbox'[d] = outbox[d]
    BY <1>5, <1>14 DEF IInv, Types
  <1>17. Handshake(s)'
    <2>1. /\ pc'[s] = <<"tell", IF Complete(g, states) THEN 1 ELSE 0>>
          /\ server_state'[s] = "HANDSHAKE_ACK_SENT"
          /\ UNCHANGED <<tcp, inbox, status>>
      BY <1>1, <1>9, <1>11, SMTT(60) DEF IInv, Types, states
    <2>2. pc'[s][1] = "tell" /\ (pc'[s][2] = 1 => Acknowledged(g)')
      BY <1>10, <2>1, SMTT(60)
    <2> QED
      BY <1>2, <1>7, <1>12, <1>16, <2>1, <2>2, Zenon DEF Handshake
  <1>18. Local(s)
    BY <1>1, <1>2, <1>7, <1>9, <1>11, <1>16, SMTT(60) DEF IInv, Types, Local, maps, states
  <1>19. Clients'
    <2> SUFFICES ASSUME NEW d \in Client PROVE ClientSound(d)'
      BY Zenon DEF Clients
    <2>1. CASE outbox'[d] = outbox[d]
      BY <1>18, <2>1, LocalClient, Zenon
    <2>2. CASE outbox'[d] # outbox[d]
      <3>1. d = c /\ Complete(g, states) /\ outbox'[c] = Append(outbox[c], a)
        BY <1>5, <1>14, <1>16, <2>2 DEF IInv, Types
      <3>2. Acknowledged(g)'
        BY <1>10, <3>1, Zenon
      <3>3. /\ mc_id' = mc_id /\ groups' = groups /\ sender' = sender /\ tcp' = tcp
            /\ status' = status /\ inbox' = inbox /\ pc'[c] = pc[c]
        BY <1>1, <1>5, <1>11, Zenon DEF IInv, Types, maps
      <3>4. GroupClient(c)'
        BY <1>4, <1>5, <1>13, <3>1, <3>2, <3>3, ZenonT(90) DEF GroupClient
      <3> QED
        BY <1>3, <1>4, <3>1, <3>3, <3>4, IdNotZero, ZenonT(90) DEF ClientSound
    <2> QED
      BY <2>1, <2>2, Zenon
  <1>20. Table'
    <2>1. CASE table' = table
      BY <1>1, <2>1, Zenon DEF IInv, Table, maps
    <2>2. CASE Complete(g, states) /\ table' # table
      <3>1. table' = [h \in DOMAIN table \cup {g} |-> IF h = g THEN Group(g, receiver') ELSE table[h]]
        BY <1>14, <2>2, Zenon DEF GroupAdd
      <3>2. \A i \in Index : receiver'[<<g, i>>] = <<g, i>>
        <4> SUFFICES ASSUME NEW i \in Index PROVE receiver'[<<g, i>>] = <<g, i>>
          BY Zenon
        <4> DEFINE r == <<g, i>>
        <4>1. r \in Member /\ Handshake(r)'
          BY <1>3, <1>17, <1>18, LocalMembers, MemberPairs, Zenon DEF Members
        <4>2. server_state'[r] = "HANDSHAKE_ACK_SENT"
          BY <1>10, <2>2, Zenon DEF Acknowledged
        <4> HIDE DEF r
        <4>3. receiver'[r] = r
          BY <4>1, <4>2, Zenon DEF Handshake, Fresh
        <4> QED
          BY <4>3, Zenon DEF r
      <3>3. Group(g, receiver') = [src |-> c, dst |-> [i \in Index |-> <<g, i>>]]
        BY <1>5, <3>2, Zenon DEF Group
      <3>4. groups' = groups /\ mc_id' = mc_id
        BY <1>1, Zenon DEF maps
      <3>5. g \in groups /\ c \in Client /\ mc_id[c] = g /\ Table
        BY <1>3, <1>4, Zenon DEF IInv
      <3>6. table' = [h \in DOMAIN table \cup {g} |->
                        IF h = g THEN [src |-> c, dst |-> [i \in Index |-> <<g, i>>]] ELSE table[h]]
        BY <3>1, <3>3, Zenon
      <3> HIDE DEF g
      <3> QED
        BY <3>4, <3>5, <3>6, TableAdd, Zenon
    <2> QED
      BY <1>14, <2>1, <2>2, Zenon
  <1> QED
    BY <1>9, <1>15, <1>17, <1>18, <1>19, <1>20, LocalMembers, Zenon DEF IInv

-----------------------------------------------------------------------------
(* The theorems *)

LEMMA InvInit ==
  ASSUME Init
  PROVE  IInv
  <1> USE Names
  <1>1. Types
    <2>1. <<>> \in Seq(Message) /\ NoMessage \in Message
      BY EmptySeq, Zenon DEF NoMessage, Message
    <2>2. {} = {g \in Id : g < FirstId} /\ FirstId \in Nat
      BY MulticastAssumption DEF Id
    <2> QED
      BY <2>1, <2>2, Zenon DEF Init, Types, Idle
  <1>2. Clients
    BY Zenon DEF Init, Clients, ClientSound, NewClient
  <1>3. Groups
    BY MemberPairs, Zenon DEF Init, Groups, GroupSound
  <1>4. Members
    BY Zenon DEF Init, Members, Handshake, Fresh
  <1>5. Table /\ failed \notin {"member", "peer"}
    BY DEF Init, Table
  <1> QED
    BY <1>1, <1>2, <1>3, <1>4, <1>5, Zenon DEF IInv

LEMMA Stutter ==
  ASSUME IInv, UNCHANGED vars
  PROVE  IInv'
  <1>1. Types'
    BY Zenon DEF IInv, Types, vars, maps, meta, net
  <1>2. Clients'
    BY ClientFrame, Zenon DEF IInv, Clients, Acknowledged, vars, maps, meta, net
  <1>3. Groups' /\ Table' /\ failed' \notin {"member", "peer"}
    BY ZenonT(90) DEF IInv, Groups, GroupSound, Acknowledged, Table, vars, maps, meta, net
  <1>4. Members'
    BY HandshakeFrame, Zenon DEF IInv, Members, Acknowledged, vars, maps, meta, net
  <1> QED
    BY <1>1, <1>2, <1>3, <1>4, Zenon DEF IInv

LEMMA InvNext ==
  ASSUME FirstId # 0, IInv, [Next]_vars
  PROVE  IInv'
  <1>1. ASSUME NEW c \in Client, ClientHello(c) \/ ClientAnswer(c) \/ ClientStep(c)
        PROVE  IInv'
    BY <1>1, ClientHelloStep, ClientAnswerStep, ClientReadableStep, AssignGroupStep,
       ConnectMemberStep, NameRegisterStep, Zenon DEF ClientStep
  <1>2. ASSUME NEW s \in Member, MemberAnswer(s) \/ MemberStep(s)
        PROVE  IInv'
    BY <1>2, MemberAnswerStep, ServerStart, ServerWriteableLockedStep, ServerWriteableSentStep,
       ServerReadableStep, ServerReadableLockedStep, ServerReadableToldStep, Zenon DEF MemberStep
  <1> QED
    BY <1>1, <1>2, Stutter, Zenon DEF Next, Dead, Done

\* Wherever the workers interleave: what is in the boxes of each connection
\* is what the place of its handlers allows, and a group has one client.
THEOREM MulticastInvariant == FirstId # 0 => (Spec => []IInv)
  <1> SUFFICES ASSUME FirstId # 0 PROVE Spec => []IInv
    BY Zenon
  <1>1. Init => IInv
    BY InvInit, Zenon
  <1>2. IInv /\ [Next]_vars => IInv'
    BY InvNext, Zenon
  <1> QED
    BY <1>1, <1>2, PTL DEF Spec

\* A client is connected only when the members of its group are, the assertions of
\* process_server_readable hold, and a client's answer names its group.
THEOREM MembersAreReady == FirstId # 0 => (Spec => []MembersReady)
  <1> SUFFICES ASSUME FirstId # 0 PROVE Spec => []MembersReady
    OBVIOUS
  <1>1. IInv => MembersReady
    <2> SUFFICES ASSUME IInv, NEW c \in Client, status[c] = "connected", NEW i \in Index
                 PROVE  status[<<mc_id[c], i>>] # "new"
                        /\ receiver[<<mc_id[c], i>>] = <<mc_id[c], i>>
      BY Zenon DEF IInv, MembersReady
    <2>1. mc_id[c] \in Id /\ Acknowledged(mc_id[c])
      BY Zenon DEF IInv, Types, Clients, ClientSound, NewClient, GroupClient
    <2> DEFINE s == <<mc_id[c], i>>
    <2>2. s \in Member /\ Handshake(s) /\ server_state[s] = "HANDSHAKE_ACK_SENT"
      BY <2>1, MemberPairs, Zenon DEF IInv, Members, Acknowledged
    <2> HIDE DEF s
    <2>3. status[s] # "new" /\ receiver[s] = s
      BY <2>2, Zenon DEF Handshake, Fresh
    <2> QED
      BY <2>3, Zenon DEF s
  <1> QED
    BY <1>1, MulticastInvariant, PTL

\* Every group in the switch has a client of its own and its own members' numbers.
THEOREM TableIsRight == FirstId # 0 => (Spec => []TableRight)
  <1> SUFFICES ASSUME FirstId # 0 PROVE Spec => []TableRight
    OBVIOUS
  <1>1. IInv => TableRight
    BY Zenon DEF IInv, Table, TableRight
  <1> QED
    BY <1>1, MulticastInvariant, PTL

\* A client gets one group: only the id 0 makes the daemon take a client with a
\* group for a new one.
THEOREM OneGroupEach == FirstId # 0 => (Spec => []OneGroupPerClient)
  <1> SUFFICES ASSUME FirstId # 0 PROVE Spec => []OneGroupPerClient
    OBVIOUS
  <1>1. IInv => OneGroupPerClient
    <2> SUFFICES ASSUME IInv, NEW g \in groups PROVE mc_id[sender[g].qpn] = g
      BY Zenon DEF OneGroupPerClient
    <2>1. PICK c \in Client : mc_id[c] = g
      BY Zenon DEF IInv, Types, Groups, GroupSound
    <2>2. sender[g].qpn = c
      BY <2>1, IdNotZero, Zenon DEF IInv, Types, Clients, ClientSound, GroupClient
    <2> QED
      BY <2>1, <2>2, Zenon
  <1> QED
    BY <1>1, MulticastInvariant, PTL
==============================================================================
