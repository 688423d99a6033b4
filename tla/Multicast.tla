------------------------------ MODULE Multicast ------------------------------
(***************************************************************************)
(* The multicast daemon.  A client's socket runs its handshake with the    *)
(* daemon as if it were the peer; the daemon connects to the members of    *)
(* the group, runs the client's half of the handshake with each of them,   *)
(* writes the group to the switch and only then answers the client.        *)
(*                                                                         *)
(*   client         daemon              members (one socket per group)     *)
(*     | -- c, 0 ---> | connect                                            *)
(*     |              | -- c, 0 ------------> |                            *)
(*     |              | <-- s, c ----------- |                            *)
(*     |              | -- c, s ------------> |                            *)
(*     |              | group_add                                          *)
(*     | <-- id, c -- |                                                    *)
(*     | -- c, id --> |                                                    *)
(*                                                                         *)
(* A message carries the sender's queue pair number and the one it takes   *)
(* its peer to have.  Handlers run on the worker of their connection.      *)
(***************************************************************************)
EXTENDS Naturals, Sequences, FiniteSets

CONSTANTS
  Client,    \* clients that open a multicast connection, one group each
  FirstId,   \* m_mc_id after the constructor, any of 0 .. 9999
  MaxGroups, \* bound: groups the daemon creates
  Parallel   \* several workers (m_op_threads_num_ > 1), or one

ASSUME MulticastAssumption ==
  /\ FirstId \in Nat /\ MaxGroups \in Nat
  /\ Parallel \in BOOLEAN

kNumMulticasts == 2
Index == 1 .. kNumMulticasts
Id == FirstId .. FirstId + MaxGroups - 1
Member == Id \X Index          \* the daemon's connection to a member, and its peer
Conn == Client \cup Member

\* Queue pair numbers of different sockets differ
ASSUME ConnAssumption == Client \cap Member = {}

\* Queue pair numbers: a client, a member, or the id of a group, which the daemon
\* gives as its own number; the id 0 is the number 0
IdQpn(g) == <<g, 0>>
NoQpn == IdQpn(0)
NoLock == NoQpn
Rejected == 2                  \* the group id multicast_group_add refuses

VARIABLES
  m_mc_id,
  mc_id,         \* Connection::mc_id of the clients' connections
  named,         \* members' connections whose mc_id is set
  groups,        \* keys of multicast_connections, _state and _cm_meta
  registered,    \* members entered into multicast_connections
  client_state, server_state,
  sender,        \* multicast_cm_meta_t: the last message of the client
  receiver,      \* receiver_local_qpn
  data_lock,
  pc, msg,       \* per connection: its handler's place and the message read
  tcp,           \* connections to the members: none, connecting, up, open
  inbox,         \* messages to the daemon, by connection
  outbox,        \* messages from the daemon, by connection
  table,         \* groups in the switch
  status,        \* what the peer at the other end has reached
  failed         \* the assertion or access that ended the daemon

meta == <<client_state, server_state, sender, receiver>>
maps == <<m_mc_id, mc_id, named, groups, registered>>
net == <<tcp, inbox, outbox>>
vars == <<maps, meta, data_lock, pc, msg, net, table, status, failed>>

Qpn == Conn \cup {IdQpn(g) : g \in Id \cup {0}}
Message == [qpn : Qpn, peer : Qpn]
NoMessage == [qpn |-> NoQpn, peer |-> NoQpn]

TypeOK ==
  /\ m_mc_id \in FirstId .. FirstId + MaxGroups
  /\ mc_id \in [Client -> Id \cup {0}]
  /\ named \subseteq Member /\ registered \subseteq named /\ groups \subseteq Id
  /\ client_state \in [Id -> {"INIT", "HANDSHAKE_RECEIVED", "HANDSHAKE_SENT", "ACK_RECEIVED"}]
  /\ server_state \in [Member -> {"INIT", "CONNECTED", "HANDSHAKE_SENT", "HANDSHAKE_ACK_SENT"}]
  /\ sender \in [Id -> Message]
  /\ receiver \in [Member -> Qpn]
  /\ data_lock \in Conn \cup {NoLock}
  /\ pc \in [Conn -> {"idle", "assign", "connect", "name", "register", "writeable", "sent",
                      "readable", "tell"} \X (Index \cup {0})]
  /\ msg \in [Conn -> Message]
  /\ tcp \in [Member -> {"none", "connecting", "up", "open"}]
  /\ \A c \in Conn : inbox[c] \in Seq(Message) /\ outbox[c] \in Seq(Message)
  /\ DOMAIN table \subseteq Id
  /\ status \in [Conn -> {"new", "active", "connected"}]
  /\ failed \in {"no", "index", "bounds", "member", "client", "peer"}

Idle == <<"idle", 0>>

Init ==
  /\ m_mc_id = FirstId
  /\ mc_id = [c \in Client |-> 0]
  /\ named = {} /\ groups = {} /\ registered = {}
  /\ client_state = [g \in Id |-> "INIT"]
  /\ server_state = [s \in Member |-> "INIT"]
  /\ sender = [g \in Id |-> NoMessage]
  /\ receiver = [s \in Member |-> NoQpn]
  /\ data_lock = NoLock
  /\ pc = [c \in Conn |-> Idle]
  /\ msg = [c \in Conn |-> NoMessage]
  /\ tcp = [s \in Member |-> "none"]
  /\ inbox = [c \in Conn |-> <<>>] /\ outbox = [c \in Conn |-> <<>>]
  /\ table = <<>>
  /\ status = [c \in Conn |-> "new"]
  /\ failed = "no"

\* A worker runs one handler at a time
MayStart(c) ==
  /\ failed = "no" /\ pc[c] = Idle
  /\ Parallel \/ \A d \in Conn : pc[d] = Idle

At(c, label) == failed = "no" /\ pc[c][1] = label
Goto(c, label) == pc' = [pc EXCEPT ![c] = label]
Send(box, c, qpn, peer) == [box EXCEPT ![c] = Append(@, [qpn |-> qpn, peer |-> peer])]
Lock(c) == data_lock = NoLock /\ data_lock' = c
Unlock == data_lock' = NoLock

----------------------------------------------------------------------------
(* The peers: RDMAConnectedSocketImpl of the clients and of the members, see  *)
(* ConnectedSocket                                                          *)

ClientHello(c) ==
  /\ status[c] = "new"
  /\ status' = [status EXCEPT ![c] = "active"]
  /\ inbox' = Send(inbox, c, c, NoQpn)
  /\ UNCHANGED <<maps, meta, data_lock, pc, msg, tcp, outbox, table, failed>>

ClientAnswer(c) ==
  /\ outbox[c] # <<>>
  /\ status' = [status EXCEPT ![c] = "connected"]
  /\ inbox' = Send(inbox, c, c, Head(outbox[c]).qpn)
  /\ outbox' = [outbox EXCEPT ![c] = Tail(@)]
  /\ UNCHANGED <<maps, meta, data_lock, pc, msg, tcp, table, failed>>

MemberAnswer(s) ==
  /\ outbox[s] # <<>>
  /\ outbox' = [outbox EXCEPT ![s] = Tail(@)]
  /\ IF Head(outbox[s]).peer = NoQpn
     THEN /\ status' = [status EXCEPT ![s] = "active"]
          /\ inbox' = Send(inbox, s, s, Head(outbox[s]).qpn)
     ELSE /\ status' = [status EXCEPT ![s] = "connected"]
          /\ UNCHANGED inbox
  /\ UNCHANGED <<maps, meta, data_lock, pc, msg, tcp, table, failed>>

----------------------------------------------------------------------------
(* MulticastDaemon::process_client_readable *)

\* (mutant: without the assertion, so that the state may be overwritten later)
ClientReadable_no_assert(c) ==
  /\ MayStart(c) /\ inbox[c] # <<>>
  /\ inbox' = [inbox EXCEPT ![c] = Tail(@)]
  /\ LET m == Head(inbox[c])
         g == mc_id[c]
     IN  IF g = 0
         THEN /\ msg' = [msg EXCEPT ![c] = m]
              /\ Goto(c, <<"assign", 0>>)
              /\ UNCHANGED <<sender, client_state, failed>>
         ELSE /\ sender' = [sender EXCEPT ![g] = m]
              /\ failed' = IF m.peer # IdQpn(g) THEN "peer" ELSE "no"
              /\ client_state' = IF failed' = "no"
                                 THEN [client_state EXCEPT ![g] = "ACK_RECEIVED"]
                                 ELSE client_state
              /\ UNCHANGED <<msg, pc>>
  /\ UNCHANGED <<maps, server_state, receiver, data_lock, tcp, outbox, table, status>>

\* The message is read.  mc_id = 0: a new client.  Otherwise the message is
\* handled, without data_lock.
ClientReadable(c) ==
  /\ MayStart(c) /\ inbox[c] # <<>>
  /\ inbox' = [inbox EXCEPT ![c] = Tail(@)]
  /\ LET m == Head(inbox[c])
         g == mc_id[c]
     IN  IF g = 0
         THEN /\ msg' = [msg EXCEPT ![c] = m]
              /\ Goto(c, <<"assign", 0>>)
              /\ UNCHANGED <<sender, client_state, failed>>
         ELSE /\ sender' = [sender EXCEPT ![g] = m]
              /\ failed' = CASE client_state[g] # "HANDSHAKE_SENT" -> "client"
                             [] m.peer # IdQpn(g) -> "peer"
                             [] OTHER -> "no"
              /\ client_state' = IF failed' = "no"
                                 THEN [client_state EXCEPT ![g] = "ACK_RECEIVED"]
                                 ELSE client_state
              /\ UNCHANGED <<msg, pc>>
  /\ UNCHANGED <<maps, server_state, receiver, data_lock, tcp, outbox, table, status>>

AssignGroup(c) ==
  /\ At(c, "assign") /\ Lock(c)
  /\ m_mc_id \in Id
  /\ m_mc_id' = m_mc_id + 1
  /\ mc_id' = [mc_id EXCEPT ![c] = m_mc_id]
  /\ groups' = groups \cup {m_mc_id}
  /\ sender' = [sender EXCEPT ![m_mc_id] = msg[c]]
  /\ msg' = [msg EXCEPT ![c] = NoMessage]
  /\ client_state' = [client_state EXCEPT ![m_mc_id] = "HANDSHAKE_RECEIVED"]
  /\ Goto(c, <<"connect", 1>>)
  /\ UNCHANGED <<named, registered, server_state, receiver, net, table, status, failed>>

\* The member's connection that the loop is at
Current(c) == <<mc_id[c], pc[c][2]>>

\* new Connection and connect(), which hands it over to its worker
ConnectMember(c) ==
  /\ At(c, "connect")
  /\ tcp' = [tcp EXCEPT ![Current(c)] = "connecting"]
  /\ Goto(c, <<"name", pc[c][2]>>)
  /\ UNCHANGED <<maps, meta, data_lock, msg, inbox, outbox, table, status, failed>>

\* new_conn->set_mc_id(mc_id)
NameMember(c) ==
  /\ At(c, "name")
  /\ named' = named \cup {Current(c)}
  /\ Goto(c, <<"register", pc[c][2]>>)
  /\ UNCHANGED <<m_mc_id, mc_id, groups, registered, meta, data_lock, msg, net, table, status,
                 failed>>

\* The loop over the members goes on after the i-th
More(i) == i < kNumMulticasts

\* multicast_connections[mc_id][i + 1] = new_conn
RegisterMember(c) ==
  /\ At(c, "register")
  /\ registered' = registered \cup {Current(c)}
  /\ IF More(pc[c][2])
     THEN Goto(c, <<"connect", pc[c][2] + 1>>) /\ UNCHANGED data_lock
     ELSE Goto(c, Idle) /\ Unlock
  /\ UNCHANGED <<m_mc_id, mc_id, named, groups, meta, msg, net, table, status, failed>>

----------------------------------------------------------------------------
(* The connections to the members *)

\* Connection::process on the member's worker, up to STATE_CONNECTION_ESTABLISHED
Established(s) ==
  /\ MayStart(s) /\ tcp[s] = "connecting"
  /\ tcp' = [tcp EXCEPT ![s] = "up"]
  /\ UNCHANGED <<maps, meta, data_lock, pc, msg, inbox, outbox, table, status, failed>>

\* process_server_writeable before data_lock: mc_id, which is 0 until it is set,
\* and get_mc_index, which is kNumMulticasts for a connection not registered
ServerWriteable(s) ==
  /\ MayStart(s) /\ tcp[s] = "up"
  /\ tcp' = [tcp EXCEPT ![s] = "open"]
  /\ LET g == IF s \in named THEN s[1] ELSE 0
     IN  failed' = CASE g \notin groups -> "index"
                     [] g \in groups /\ s \notin registered -> "bounds"
                     [] OTHER -> "no"
  /\ Goto(s, <<"writeable", 0>>)
  /\ UNCHANGED <<maps, meta, data_lock, msg, inbox, outbox, table, status>>

\* send_handshake_to_server
ToMember(s) == Send(outbox, s, sender[s[1]].qpn, receiver'[s])

ServerWriteableLocked(s) ==
  /\ At(s, "writeable") /\ Lock(s)
  /\ server_state' = [server_state EXCEPT ![s] = "CONNECTED"]
  /\ receiver' = receiver
  /\ outbox' = IF client_state[s[1]] = "HANDSHAKE_RECEIVED" THEN ToMember(s) ELSE outbox
  /\ Goto(s, <<"sent", 0>>)
  /\ UNCHANGED <<maps, client_state, sender, msg, tcp, inbox, table, status, failed>>

ServerWriteableSent(s) ==
  /\ At(s, "sent")
  /\ server_state' = IF client_state[s[1]] = "HANDSHAKE_RECEIVED"
                     THEN [server_state EXCEPT ![s] = "HANDSHAKE_SENT"] ELSE server_state
  /\ Unlock
  /\ Goto(s, Idle)
  /\ UNCHANGED <<maps, client_state, sender, receiver, msg, net, table, status, failed>>

ServerReadable(s) ==
  /\ MayStart(s) /\ inbox[s] # <<>>
  /\ msg' = [msg EXCEPT ![s] = Head(inbox[s])]
  /\ inbox' = [inbox EXCEPT ![s] = Tail(@)]
  /\ Goto(s, <<"readable", 0>>)
  /\ UNCHANGED <<maps, meta, data_lock, tcp, outbox, table, status, failed>>

\* (mutant: the group is complete when one member is)
Complete_any(g, states) == \E i \in Index : states[<<g, i>>] = "HANDSHAKE_ACK_SENT"

\* check_and_send_handshake_to_client: both members have been answered, the client has not
Complete(g, states) ==
  /\ client_state[g] = "HANDSHAKE_RECEIVED"
  /\ \A i \in Index : states[<<g, i>>] = "HANDSHAKE_ACK_SENT"

\* (mutant: the receivers' numbers are taken from the first member)
Group_first(g, qpns) == [src |-> sender[g].qpn, dst |-> [i \in Index |-> qpns[<<g, 1>>]]]

\* The arguments of multicast_group_add
Group(g, qpns) == [src |-> sender[g].qpn, dst |-> [i \in Index |-> qpns[<<g, i>>]]]

\* multicast_group_add: an id that is refused is not reported to the caller's caller
GroupAdd(g, group) ==
  IF g = Rejected THEN table
  ELSE [h \in DOMAIN table \cup {g} |-> IF h = g THEN group ELSE table[h]]

\* process_server_readable under data_lock, check_and_send_handshake_to_client
\* included up to its write
ServerReadableLocked(s) ==
  /\ At(s, "readable") /\ Lock(s)
  /\ receiver' = [receiver EXCEPT ![s] = msg[s].qpn]
  /\ msg' = [msg EXCEPT ![s] = NoMessage]
  /\ LET g == s[1]
         states == [server_state EXCEPT ![s] = "HANDSHAKE_ACK_SENT"]
     IN  IF server_state[s] # "HANDSHAKE_SENT"
         THEN /\ failed' = IF server_state[s] = "INIT" THEN failed ELSE "member"
              /\ Goto(s, <<"tell", 0>>)
              /\ UNCHANGED <<server_state, outbox, table>>
         ELSE /\ server_state' = states
              /\ Goto(s, <<"tell", IF Complete(g, states) THEN 1 ELSE 0>>)
              /\ table' = IF Complete(g, states) THEN GroupAdd(g, Group(g, receiver')) ELSE table
              /\ outbox' = IF Complete(g, states)
                           THEN [ToMember(s) EXCEPT ![sender[g].qpn] =
                                   Append(@, [qpn |-> IdQpn(g), peer |-> sender[g].qpn])]
                           ELSE ToMember(s)
              /\ UNCHANGED failed
  /\ UNCHANGED <<maps, client_state, sender, tcp, inbox, status>>

\* client_state after the write, and the end of the handler
ServerReadableTold(s) ==
  /\ At(s, "tell")
  /\ client_state' = IF pc[s][2] = 1 THEN [client_state EXCEPT ![s[1]] = "HANDSHAKE_SENT"]
                     ELSE client_state
  /\ Unlock
  /\ Goto(s, Idle)
  /\ UNCHANGED <<maps, server_state, sender, receiver, msg, net, table, status, failed>>

----------------------------------------------------------------------------
Dead == failed # "no" /\ UNCHANGED vars

Done ==
  /\ \A c \in Client : status[c] = "connected"
  /\ \A c \in Conn : pc[c] = Idle /\ inbox[c] = <<>> /\ outbox[c] = <<>>
  /\ UNCHANGED vars

ClientStep(c) ==
  \/ ClientReadable(c) \/ AssignGroup(c)
  \/ ConnectMember(c) \/ NameMember(c) \/ RegisterMember(c)

MemberStep(s) ==
  \/ Established(s) \/ ServerWriteable(s) \/ ServerWriteableLocked(s) \/ ServerWriteableSent(s)
  \/ ServerReadable(s) \/ ServerReadableLocked(s) \/ ServerReadableTold(s)

Next ==
  \/ \E c \in Client : ClientHello(c) \/ ClientAnswer(c) \/ ClientStep(c)
  \/ \E s \in Member : MemberAnswer(s) \/ MemberStep(s)
  \/ Dead \/ Done

Spec == Init /\ [][Next]_vars

\* Workers run, the peers answer, and every client of the configuration connects
Fairness ==
  /\ \A c \in Client : WF_vars(ClientHello(c)) /\ WF_vars(ClientAnswer(c)) /\ SF_vars(ClientStep(c))
  /\ \A s \in Member : WF_vars(MemberAnswer(s)) /\ SF_vars(MemberStep(s))

FairSpec == Spec /\ Fairness

----------------------------------------------------------------------------
(* Properties *)

\* A client's socket is connected only when the queue pair of each member is: the
\* daemon answers it after both members have answered (check_and_send_handshake_to_client).
\* An answer of a member finds its server_state at HANDSHAKE_SENT, never in a
\* state process_server_readable asserts against, although it may arrive before
\* the state is set: both callbacks run on the connection's worker.  A client's
\* answer names its group, as process_client_readable asserts.
MembersReady ==
  /\ failed \notin {"member", "peer"}
  /\ \A c \in Client : status[c] = "connected" =>
       \A i \in Index : LET s == <<mc_id[c], i>> IN status[s] # "new" /\ receiver[s] = s

\* The switch forwards a client's packets to the members of its own group, each
\* with its own queue pair number, however the handshakes of several groups and
\* members interleave.
TableRight ==
  \A g \in DOMAIN table :
    /\ table[g].src \in Client
    /\ table[g].dst = [i \in Index |-> <<g, i>>]
    /\ \A h \in DOMAIN table \ {g} : table[h].src # table[g].src

\* multicast.h:188 kassert(multicast_connections.count(mc_id) == 1): the callback of
\* a member's connection finds the connection's group.
GroupFound == failed \notin {"index", "bounds"}

\* multicast.cc:113 kassert(client_state == STATE_HANDSHAKE_SENT): the client's second
\* message is handled after the state says that it was answered.
ClientAnswered == failed # "client"

\* mc_control_plane.cc:94 "mcg_id cannot be 2...": a group the switch does not have is not
\* handed to a client.
ConnectedIsInstalled ==
  \A c \in Client : status[c] = "connected" => \E g \in DOMAIN table : table[g].src = c

\* multicast.cc:48 "not aligned mc_id": a client gets one group.
OneGroupPerClient ==
  \A g, h \in groups : g # h => sender[g].qpn # sender[h].qpn

\* Every client connects, and the daemon sees its last message, unless an
\* assertion of the daemon fails first (with several workers one can).
AllConnect ==
  <>[](\/ failed # "no"
       \/ \A c \in Client : status[c] = "connected" /\ client_state[mc_id[c]] = "ACK_RECEIVED")
=============================================================================
