-------------------------- MODULE ConnectedSocket --------------------------
(***************************************************************************)
(* One RDMA connection: the Connection and RDMAConnectedSocketImpl objects *)
(* of a connecting process ("client") and of an accepting process          *)
(* ("server"), the worker thread and the application of each process, and  *)
(* the TCP connection over which the two queue pairs exchange cm_meta.     *)
(*                                                                         *)
(*    client                     server                                    *)
(*      | --- meta, peer_qpn = 0 --> |   activate: QP to RTS, active       *)
(*      | <-- meta, peer_qpn = c --- |                                     *)
(*   activate: QP to RTS,            |                                     *)
(*   connected, active               |                                     *)
(*      | --- meta, peer_qpn = s --> |   connected                         *)
(*                                                                         *)
(* A handler of the worker is one action, except that setting `connected`, *)
(* submitting the pending buffers and the rest of the handler are separate *)
(* steps: the application may call the socket from a thread of its own.    *)
(***************************************************************************)
EXTENDS Naturals, Sequences

CONSTANTS
  MaxSends,   \* bound: how many buffers the two applications send
  Failures,   \* what may go wrong, see FailureKinds
  AppThread   \* does the application call the socket from its own thread,
              \* or only from callbacks, which run on the worker thread?

\* a call on a healthy socket fails or reads a fragment; the connection is
\* refused or breaks; a process dies; the client closes its socket
FailureKinds == {"call", "link", "crash", "close"}

ASSUME ConstantsAssumption ==
  /\ MaxSends \in Nat
  /\ Failures \subseteq FailureKinds
  /\ AppThread \in BOOLEAN

client == "client"
server == "server"
Side == {client, server}
Peer(s) == IF s = client THEN server ELSE client

\* peer_qpn is 0 in the first message of the client
NoQpn == "0"
CmMeta == [local_qpn : Side, peer_qpn : Side \cup {NoQpn}]

VARIABLES
  qp,         \* state of the queue pair; ERR once the socket is destroyed
  connected,  \* RDMAConnectedSocketImpl::connected
  active,     \* RDMAConnectedSocketImpl::active
  error,      \* RDMAConnectedSocketImpl::error # 0
  pending_bl, \* buffers the socket has accepted and not posted
  pending_len,\* pending_bl.len; BufferList::Clear does not reset it
  handler,    \* callback registered for tcp_fd; "closed": its close() ran
  edge,       \* tcp_fd has an event that epoll (edge-triggered) will report
  inbox,      \* cm_meta messages that arrived on tcp_fd and were not read
  tcp,        \* the TCP connection
  notified,   \* notify_fd has an event that epoll will report
  state,      \* Connection::state
  external,   \* external events queued for the worker
  told,       \* callbacks of the application that have run
  wpc,        \* where the worker thread is in the handler it runs
  apc,        \* where the application is in the socket call it makes
  next,       \* number of buffers the application has handed over
  wire,       \* what was posted to the send queue, in order
  received,   \* how much of the peer's wire read() has consumed
  empty_post, \* ibv_post_send was called with an empty list
  took_over,  \* history: read() ended the server's handshake
  up          \* the process has not died

sockVars == <<qp, connected, active, error>>
sendVars == <<pending_bl, pending_len, next, wire, empty_post>>
tcpVars == <<handler, edge, inbox, tcp>>
connVars == <<notified, state, external, told>>
vars == <<sockVars, sendVars, tcpVars, connVars, wpc, apc, received,
          took_over, up>>

Fin == 0      \* the empty message of RDMAConnectedSocketImpl::fin
Buffers == 1 .. MaxSends

TypeOK ==
  /\ qp \in [Side -> {"INIT", "RTS", "ERR"}]
  /\ connected \in [Side -> BOOLEAN]
  /\ active \in [Side -> BOOLEAN]
  /\ error \in [Side -> BOOLEAN]
  /\ pending_bl \in [Side -> Seq(Buffers)]
  /\ pending_len \in [Side -> Nat]
  /\ handler \in [Side -> {"none", "established", "read", "closed"}]
  /\ edge \in [Side -> BOOLEAN]
  /\ inbox \in [Side -> Seq(CmMeta)]
  /\ tcp \in {"none", "connecting", "up", "refused", "broken"}
  /\ notified \in [Side -> BOOLEAN]
  /\ state \in [Side -> {"NONE", "CONNECTING", "CONNECTING_RE", "ACCEPTING",
                         "ESTABLISHED", "CLOSED"}]
  /\ external \in [Side -> Seq({"register", "process", "write_callback"})]
  /\ told \in [Side -> SUBSET {"read", "write"}]
  /\ wpc \in [Side -> {"loop", "submit", "ack"}]
  /\ apc \in [Side -> {"idle", "submit", "close", "delete", "resubmit"}]
  /\ next \in [Side -> 0 .. MaxSends]
  /\ wire \in [Side -> Seq(Buffers \cup {Fin})]
  /\ received \in [Side -> Nat]
  /\ empty_post \in [Side -> BOOLEAN]
  /\ took_over \in BOOLEAN
  /\ up \in [Side -> BOOLEAN]

\* The application has called Server::create_connect in the client and the
\* server listens.
Init ==
  /\ qp = [s \in Side |-> "INIT"]
  /\ connected = [s \in Side |-> FALSE]
  /\ active = [s \in Side |-> FALSE]
  /\ error = [s \in Side |-> FALSE]
  /\ pending_bl = [s \in Side |-> <<>>]
  /\ pending_len = [s \in Side |-> 0]
  /\ handler = [s \in Side |-> "none"]
  /\ edge = [s \in Side |-> FALSE]
  /\ inbox = [s \in Side |-> <<>>]
  /\ tcp = "none"
  /\ notified = [s \in Side |-> FALSE]
  /\ state = [s \in Side |-> IF s = client THEN "CONNECTING" ELSE "NONE"]
  /\ external = [s \in Side |-> IF s = client THEN <<"process">> ELSE <<>>]
  /\ told = [s \in Side |-> {}]
  /\ wpc = [s \in Side |-> "loop"]
  /\ apc = [s \in Side |-> "idle"]
  /\ next = [s \in Side |-> 0]
  /\ wire = [s \in Side |-> <<>>]
  /\ received = [s \in Side |-> 0]
  /\ empty_post = [s \in Side |-> FALSE]
  /\ took_over = FALSE
  /\ up = [s \in Side |-> TRUE]

----------------------------------------------------------------------------
(* Threads *)

\* The worker thread is free to run the next handler of its event loop.
\* Without a thread of its own the application runs on the worker, too.
WorkerFree(s) ==
  /\ up[s]
  /\ wpc[s] = "loop"
  /\ AppThread \/ apc[s] = "idle"

\* The worker thread is inside a handler.
WorkerIn(s, pc) ==
  /\ up[s]
  /\ wpc[s] = pc

\* The application can take its next step in (or into) a socket call.
AppAt(s, pc) ==
  /\ up[s]
  /\ apc[s] = pc
  /\ AppThread \/ wpc[s] = "loop"

\* The Connection holds a socket.
HasSocket(s) == state[s] \in {"CONNECTING_RE", "ACCEPTING", "ESTABLISHED"}

----------------------------------------------------------------------------
(* The TCP connection and epoll (external).  A message written to a        *)
(* connection that is up arrives; written to a broken one it is lost and   *)
(* the reset that answers it raises an event at the writer.                *)

Delivered(box, s, m) ==
  IF tcp = "up" THEN [box EXCEPT ![Peer(s)] = Append(@, m)] ELSE box

Raised(ev, s) ==
  [ev EXCEPT ![IF tcp = "up" THEN Peer(s) ELSE s] = TRUE]

\* EPOLL_CTL_ADD reports what is readable at once
Readable(s) == inbox[s] # <<>> \/ tcp \in {"refused", "broken"}

\* send_cm_meta may return an error
CallMayFail == "call" \in Failures \/ tcp \in {"refused", "broken"}

\* connect() completes, or the server's host refuses it
TcpConnect ==
  /\ tcp = "connecting"
  /\ \/ up[server] /\ tcp' = "up"
     \/ ("link" \in Failures \/ ~up[server]) /\ tcp' = "refused"
  /\ edge' = [edge EXCEPT ![client] = TRUE]
  /\ UNCHANGED <<sockVars, sendVars, handler, inbox, connVars, wpc, apc,
                 received, took_over, up>>

\* What both ends see when the connection goes away; a reset may also
\* discard what the receiver has not read.
BreakTcp ==
  IF tcp \in {"connecting", "up", "broken"}
  THEN /\ tcp' = "broken"
       /\ edge' = [s \in Side |-> TRUE]
       /\ \/ UNCHANGED inbox
          \/ inbox' = [s \in Side |-> <<>>]
  ELSE UNCHANGED <<tcp, edge, inbox>>

TcpBreak ==
  /\ "link" \in Failures
  /\ tcp = "up"
  /\ BreakTcp
  /\ UNCHANGED <<sockVars, sendVars, handler, connVars, wpc, apc, received,
                 took_over, up>>

\* The process dies; its kernel closes the TCP connection.
Crash(s) ==
  /\ "crash" \in Failures
  /\ up[s]
  /\ up' = [up EXCEPT ![s] = FALSE]
  /\ BreakTcp
  /\ UNCHANGED <<sockVars, sendVars, handler, connVars, wpc, apc, received,
                 took_over>>

----------------------------------------------------------------------------
(* Parts of the handlers *)

\* RDMAConnectedSocketImpl::fault, when nothing else of the socket changes
fault(s) ==
  /\ error' = [error EXCEPT ![s] = TRUE]
  /\ connected' = [connected EXCEPT ![s] = TRUE]
  /\ notified' = [notified EXCEPT ![s] = TRUE]

\* ibv_post_send of a chain of work requests.  It fails in a queue pair that
\* is not ready; with an empty chain it reads an uninitialized array, which
\* holds nothing the device accepts or still holds the request posted last.
post_work_request(s, bl) ==
  IF bl # <<>>
  THEN /\ wire' = [wire EXCEPT ![s] = IF qp[s] = "RTS" THEN @ \o bl ELSE @]
       /\ UNCHANGED empty_post
  ELSE /\ empty_post' = [empty_post EXCEPT ![s] = TRUE]
       /\ \/ UNCHANGED wire
          \/ /\ wire[s] # <<>>
             /\ wire' = [wire EXCEPT ![s] = Append(@, @[Len(@)])]

\* (mutant: pending_bl is not cleared after the post)
submit_keeps_list(s) ==
  /\ IF error[s] \/ pending_len[s] = 0
     THEN UNCHANGED <<wire, empty_post>>
     ELSE post_work_request(s, pending_bl[s])
  /\ UNCHANGED <<pending_bl, pending_len, next>>

\* pending_bl is cleared whatever became of the post; its length stays
submit(s) ==
  /\ IF error[s] \/ pending_len[s] = 0
     THEN UNCHANGED <<pending_bl, wire, empty_post>>
     ELSE /\ post_work_request(s, pending_bl[s])
          /\ pending_bl' = [pending_bl EXCEPT ![s] = <<>>]
  /\ UNCHANGED <<pending_len, next>>

----------------------------------------------------------------------------
(* Handlers of tcp_fd *)

\* An event of tcp_fd reaches the callback h
TcpEvent(s, h) ==
  /\ WorkerFree(s)
  /\ edge[s]
  /\ handler[s] = h

\* (mutant: the acknowledgement is sent without waiting for the answer)
handle_connection_established_acks ==
  /\ TcpEvent(client, "established")
  /\ inbox' = Delivered(Delivered(inbox, client,
                          [local_qpn |-> client, peer_qpn |-> NoQpn]),
                        client, [local_qpn |-> client, peer_qpn |-> server])
  /\ edge' = Raised([edge EXCEPT ![client] = Readable(client)], client)
  /\ handler' = [handler EXCEPT ![client] = "read"]
  /\ UNCHANGED <<sockVars, sendVars, tcp, connVars, wpc, apc, received,
                 took_over, up>>

\* handle_connection_established: send the first message, then wait for the
\* answer.  Re-registering reports whatever is readable by then.
handle_connection_established ==
  /\ TcpEvent(client, "established")
  /\ \/ /\ tcp # "refused"
        /\ inbox' = Delivered(inbox, client,
                              [local_qpn |-> client, peer_qpn |-> NoQpn])
        /\ edge' = Raised([edge EXCEPT ![client] = Readable(client)], client)
        /\ handler' = [handler EXCEPT ![client] = "read"]
        /\ UNCHANGED <<error, connected, notified>>
     \/ /\ CallMayFail
        /\ fault(client)
        /\ handler' = [handler EXCEPT ![client] = "none"]
        /\ edge' = [edge EXCEPT ![client] = FALSE]
        /\ UNCHANGED inbox
  /\ UNCHANGED <<qp, active, sendVars, tcp, state, external, told, wpc, apc,
                 received, took_over, up>>

\* What every path of handle_connection leaves alone
ReadHandlerKeeps ==
  UNCHANGED <<sendVars, handler, tcp, state, external, told, apc, received,
              took_over, up>>

\* (mutant: the handler returns without fault())
RecvFailed_silently(s) ==
  /\ TcpEvent(s, "read")
  /\ inbox[s] = <<>>
  /\ edge' = [edge EXCEPT ![s] = FALSE]
  /\ ReadHandlerKeeps /\ UNCHANGED <<sockVars, inbox, notified, wpc>>

\* recv_cm_meta returned 0 or an error other than -EAGAIN
RecvFailed(s) ==
  /\ TcpEvent(s, "read")
  /\ \/ inbox[s] = <<>> /\ tcp = "broken" /\ UNCHANGED inbox
     \/ /\ "call" \in Failures
        /\ inbox[s] # <<>>
        /\ inbox' = [inbox EXCEPT ![s] = Tail(@)]
  /\ fault(s)
  /\ edge' = [edge EXCEPT ![s] = FALSE]
  /\ ReadHandlerKeeps /\ UNCHANGED <<qp, active, wpc>>

\* recv_cm_meta filled peer_cm_meta with m: one message per event
Received(s, m) ==
  /\ TcpEvent(s, "read")
  /\ inbox[s] # <<>>
  /\ m = Head(inbox[s])

\* "logic failed": a message for a socket that is connected
LateMessage(s) ==
  /\ \E m \in CmMeta : Received(s, m)
  /\ connected[s]
  /\ fault(s)
  /\ inbox' = [inbox EXCEPT ![s] = Tail(@)]
  /\ edge' = [edge EXCEPT ![s] = FALSE]
  /\ ReadHandlerKeeps /\ UNCHANGED <<qp, active, wpc>>

\* The client has the server's answer: activate up to connected = 1
ClientActivate ==
  /\ \E m \in CmMeta : Received(client, m)
  /\ ~connected[client]
  /\ qp' = [qp EXCEPT ![client] = "RTS"]
  /\ connected' = [connected EXCEPT ![client] = TRUE]
  /\ wpc' = [wpc EXCEPT ![client] = "submit"]
  /\ inbox' = [inbox EXCEPT ![client] = Tail(@)]
  /\ edge' = [edge EXCEPT ![client] = FALSE]
  /\ ReadHandlerKeeps /\ UNCHANGED <<active, error, notified>>

\* ... notify and send the acknowledgement
ClientAck ==
  /\ WorkerIn(client, "ack")
  /\ active' = [active EXCEPT ![client] = TRUE]
  /\ wpc' = [wpc EXCEPT ![client] = "loop"]
  /\ notified' = [notified EXCEPT ![client] = TRUE]
  /\ \/ /\ inbox' = Delivered(inbox, client,
                              [local_qpn |-> client, peer_qpn |-> server])
        /\ edge' = Raised(edge, client)
        /\ UNCHANGED <<error, connected>>
     \/ /\ CallMayFail
        /\ fault(client)
        /\ UNCHANGED <<inbox, edge>>
  /\ ReadHandlerKeeps /\ UNCHANGED qp

\* (mutants: the server counts as connected once it has answered; it
\* notifies the application then)
ServerActivate_as(isConnected, notifies) ==
  /\ \E m \in CmMeta : Received(server, m) /\ m.peer_qpn = NoQpn
  /\ ~connected[server]
  /\ inbox' = Delivered([inbox EXCEPT ![server] = Tail(@)], server,
                        [local_qpn |-> server, peer_qpn |-> client])
  /\ edge' = Raised([edge EXCEPT ![server] = FALSE], server)
  /\ qp' = [qp EXCEPT ![server] = "RTS"]
  /\ active' = [active EXCEPT ![server] = TRUE]
  /\ connected' = [connected EXCEPT ![server] = isConnected]
  /\ notified' = [notified EXCEPT ![server] = notifies]
  /\ ReadHandlerKeeps /\ UNCHANGED <<error, wpc>>

ServerActivate_connects == ServerActivate_as(TRUE, FALSE)
ServerActivate_notifies == ServerActivate_as(FALSE, TRUE)

\* The server has the client's first message: activate and answer, unless
\* it is active already
ServerActivate ==
  /\ \E m \in CmMeta : Received(server, m) /\ m.peer_qpn = NoQpn
  /\ ~connected[server]
  /\ LET box == [inbox EXCEPT ![server] = Tail(@)]
         ev  == [edge EXCEPT ![server] = FALSE]
     IN \/ /\ ~active[server]
           /\ inbox' = Delivered(box, server,
                                 [local_qpn |-> server, peer_qpn |-> client])
           /\ edge' = Raised(ev, server)
           /\ UNCHANGED <<error, connected, notified>>
        \/ /\ IF active[server]
              THEN UNCHANGED <<error, connected, notified>>
              ELSE CallMayFail /\ fault(server)
           /\ inbox' = box
           /\ edge' = ev
  /\ qp' = [qp EXCEPT ![server] = "RTS"]
  /\ active' = [active EXCEPT ![server] = TRUE]
  /\ ReadHandlerKeeps /\ UNCHANGED wpc

\* The server has the client's acknowledgement
ServerConnected ==
  /\ \E m \in CmMeta : Received(server, m) /\ m.peer_qpn # NoQpn
  /\ ~connected[server]
  /\ connected' = [connected EXCEPT ![server] = TRUE]
  /\ wpc' = [wpc EXCEPT ![server] = "submit"]
  /\ inbox' = [inbox EXCEPT ![server] = Tail(@)]
  /\ edge' = [edge EXCEPT ![server] = FALSE]
  /\ ReadHandlerKeeps /\ UNCHANGED <<qp, active, error, notified>>

\* (mutant: submit(false) is left out)
WorkerSubmit_skips(s) ==
  /\ WorkerIn(s, "submit")
  /\ wpc' = [wpc EXCEPT ![s] = IF s = client THEN "ack" ELSE "loop"]
  /\ notified' = [notified EXCEPT ![s] = @ \/ s = server]
  /\ UNCHANGED <<sockVars, sendVars, tcpVars, state, external, told, apc,
                 received, took_over, up>>

\* Both sides post what the application sent too early ("fake send"); the
\* server's handler then ends with notify, the client's with its message
WorkerSubmit(s) ==
  /\ WorkerIn(s, "submit")
  /\ submit(s)
  /\ wpc' = [wpc EXCEPT ![s] = IF s = client THEN "ack" ELSE "loop"]
  /\ notified' = [notified EXCEPT ![s] = @ \/ s = server]
  /\ UNCHANGED <<sockVars, tcpVars, state, external, told, apc, received,
                 took_over, up>>

\* An event whose callback was closed in the meantime does nothing
ClosedHandler(s) ==
  /\ TcpEvent(s, "closed")
  /\ edge' = [edge EXCEPT ![s] = FALSE]
  /\ UNCHANGED <<sockVars, sendVars, handler, inbox, tcp, connVars, wpc, apc,
                 received, took_over, up>>

handle_connection(s) ==
  \/ RecvFailed(s)
  \/ LateMessage(s)
  \/ s = client /\ ClientActivate
  \/ s = server /\ (ServerActivate \/ ServerConnected)

----------------------------------------------------------------------------
(* Connection and the external events of the worker *)

\* RDMAServerSocketImpl::accept and Server::accept, in the thread of the
\* listening worker
Accept ==
  /\ up[server]
  /\ state[server] = "NONE"
  /\ tcp \in {"up", "broken"}
  /\ state' = [state EXCEPT ![server] = "ACCEPTING"]
  /\ external' = [external EXCEPT ![server] = <<"register", "process">>]
  /\ UNCHANGED <<sockVars, sendVars, tcpVars, notified, told, wpc, apc,
                 received, took_over, up>>

\* The worker takes the event e from its queue of external events; more is
\* what handling it dispatches
External(s, e, more) ==
  /\ WorkerFree(s)
  /\ external[s] # <<>>
  /\ Head(external[s]) = e
  /\ external' = [external EXCEPT ![s] = Tail(@) \o more]

\* (mutant: the descriptor is taken for registered, epoll does not look at it)
Register_not_armed(s) ==
  /\ External(s, "register", <<>>)
  /\ handler' = [handler EXCEPT ![s] = "read"]
  /\ edge' = [edge EXCEPT ![s] = FALSE]
  /\ UNCHANGED <<sockVars, sendVars, inbox, tcp, notified, state, told, wpc,
                 apc, received, took_over, up>>

\* the event that set_accept_fd submits: create_file_event(tcp_fd)
Register(s) ==
  /\ External(s, "register", <<>>)
  /\ handler' = [handler EXCEPT ![s] = "read"]
  /\ edge' = [edge EXCEPT ![s] = Readable(s)]
  /\ UNCHANGED <<sockVars, sendVars, inbox, tcp, notified, state, told, wpc,
                 apc, received, took_over, up>>

\* process() in STATE_CONNECTING: a new socket and try_connect; when that
\* fails the socket is deleted and the Connection stays as it is
ProcessConnecting ==
  /\ state[client] = "CONNECTING"
  /\ External(client, "process", <<>>)
  /\ \/ /\ tcp' = "connecting"
        /\ handler' = [handler EXCEPT ![client] = "established"]
        /\ state' = [state EXCEPT ![client] = "CONNECTING_RE"]
     \/ "call" \in Failures /\ UNCHANGED <<tcp, handler, state>>
  /\ UNCHANGED <<sockVars, sendVars, edge, inbox, notified, told, wpc, apc,
                 received, took_over, up>>

\* process() in STATE_ACCEPTING
ProcessAccepting ==
  /\ state[server] = "ACCEPTING"
  /\ External(server, "process", <<"write_callback">>)
  /\ state' = [state EXCEPT ![server] = "ESTABLISHED"]
  /\ UNCHANGED <<sockVars, sendVars, tcpVars, notified, told, wpc, apc,
                 received, took_over, up>>

\* An event of notify_fd: the read callback and, while the client waits to
\* be connected, process() in STATE_CONNECTING_RE
NotifyEvent(s) ==
  /\ WorkerFree(s)
  /\ notified[s]
  /\ state[s] \in {"CONNECTING_RE", "ESTABLISHED"}
  /\ notified' = [notified EXCEPT ![s] = FALSE]
  /\ told' = [told EXCEPT ![s] = @ \cup {"read"}]
  /\ IF state[s] = "CONNECTING_RE" /\ connected[s]
     THEN /\ state' = [state EXCEPT ![s] = "ESTABLISHED"]
          /\ external' = [external EXCEPT ![s] = Append(@, "write_callback")]
     ELSE UNCHANGED <<state, external>>
  /\ UNCHANGED <<sockVars, sendVars, tcpVars, wpc, apc, received, took_over,
                 up>>

WriteCallback(s) ==
  /\ External(s, "write_callback", <<>>)
  /\ told' = [told EXCEPT ![s] = @ \cup {"write"}]
  /\ UNCHANGED <<sockVars, sendVars, tcpVars, notified, state, wpc, apc,
                 received, took_over, up>>

\* The application connects again: process() closes and destroys the socket
\* before it creates another, which is not followed here.
CloseSocket ==
  /\ "close" \in Failures
  /\ WorkerFree(client)
  /\ apc[client] = "idle"
  /\ state[client] \in {"CONNECTING_RE", "ESTABLISHED"}
  /\ wire' = [wire EXCEPT ![client] =
                IF ~error[client] /\ qp[client] = "RTS" THEN Append(@, Fin) ELSE @]
  /\ error' = [error EXCEPT ![client] = TRUE]
  /\ active' = [active EXCEPT ![client] = FALSE]
  /\ handler' = [handler EXCEPT ![client] = "none"]
  /\ qp' = [qp EXCEPT ![client] = "ERR"]
  /\ state' = [state EXCEPT ![client] = "CLOSED"]
  /\ BreakTcp
  /\ UNCHANGED <<connected, pending_bl, pending_len, next, empty_post,
                 notified, external, told, wpc, apc, received, took_over, up>>

----------------------------------------------------------------------------
(* Calls of the application *)

\* send(BufferList): a "fake send", which only queues, until connected
Send(s) ==
  /\ AppAt(s, "idle") /\ HasSocket(s)
  /\ next[client] + next[server] < MaxSends
  /\ ~error[s]
  /\ next' = [next EXCEPT ![s] = @ + 1]
  /\ pending_bl' = [pending_bl EXCEPT ![s] = Append(@, next[s] + 1)]
  /\ pending_len' = [pending_len EXCEPT ![s] = @ + 1]
  /\ apc' = [apc EXCEPT ![s] = IF connected[s] THEN "submit" ELSE "idle"]
  /\ UNCHANGED <<sockVars, wire, empty_post, tcpVars, connVars, wpc, received,
                 took_over, up>>

SendSubmit(s) ==
  /\ AppAt(s, "submit")
  /\ submit(s)
  /\ apc' = [apc EXCEPT ![s] = "idle"]
  /\ UNCHANGED <<sockVars, tcpVars, connVars, wpc, received, took_over, up>>

\* send(chunks): post at once, or return -1 when not connected.  `error` is
\* not looked at and the result of the post is dropped.
SendChunks(s) ==
  /\ AppAt(s, "idle") /\ HasSocket(s)
  /\ next[client] + next[server] < MaxSends
  /\ connected[s]
  /\ next' = [next EXCEPT ![s] = @ + 1]
  /\ post_work_request(s, <<next[s] + 1>>)
  /\ UNCHANGED <<sockVars, pending_bl, pending_len, tcpVars, connVars, wpc, apc,
                 received, took_over, up>>

\* read(): consume up to n messages of the peer; a Fin among those fetched
\* is an error, but only if the socket is connected.  A server that was not
\* connected is from now on; `more`: a fetched chunk is left, so notify.
Read(s) ==
  /\ AppAt(s, "idle") /\ HasSocket(s)
  /\ active[s]
  /\ s = client => connected[s]
  /\ \E n \in received[s] .. Len(wire[Peer(s)]), more \in BOOLEAN :
       /\ more => n < Len(wire[Peer(s)])
       /\ received' = [received EXCEPT ![s] = n]
       /\ notified' = [notified EXCEPT ![s] = @ \/ more]
       /\ error' = [error EXCEPT ![s] =
            @ \/ /\ connected[s]
                 /\ \E i \in received[s] + 1 .. n : wire[Peer(s)][i] = Fin]
  /\ IF connected[s]
     THEN UNCHANGED <<connected, apc, took_over>>
     ELSE /\ connected' = [connected EXCEPT ![s] = TRUE]
          /\ apc' = [apc EXCEPT ![s] = "close"]
          /\ took_over' = TRUE
  /\ UNCHANGED <<qp, active, sendVars, tcpVars, state, external, told, wpc, up>>

\* cleanup(): close the read callback,
CleanupClose(s) ==
  /\ AppAt(s, "close")
  /\ handler' = [handler EXCEPT ![s] = IF @ = "read" THEN "closed" ELSE @]
  /\ apc' = [apc EXCEPT ![s] = "delete"]
  /\ UNCHANGED <<sockVars, sendVars, edge, inbox, tcp, connVars, wpc,
                 received, took_over, up>>

\* ... and have the worker delete the file event, waiting until it is done
CleanupDelete(s) ==
  /\ AppAt(s, "delete")
  /\ wpc[s] = "loop"
  /\ handler' = [handler EXCEPT ![s] = "none"]
  /\ apc' = [apc EXCEPT ![s] = "resubmit"]
  /\ UNCHANGED <<sockVars, sendVars, edge, inbox, tcp, connVars, wpc,
                 received, took_over, up>>

ReadSubmit(s) ==
  /\ AppAt(s, "resubmit")
  /\ submit(s)
  /\ apc' = [apc EXCEPT ![s] = "idle"]
  /\ UNCHANGED <<sockVars, tcpVars, connVars, wpc, received, took_over, up>>

----------------------------------------------------------------------------
(* Specification *)

Handlers(s) ==
  \/ handle_connection(s)
  \/ WorkerSubmit(s)
  \/ ClosedHandler(s)
  \/ NotifyEvent(s)
  \/ WriteCallback(s)

Calls(s) ==
  \/ Send(s) \/ SendSubmit(s)
  \/ SendChunks(s)
  \/ Read(s) \/ CleanupClose(s) \/ CleanupDelete(s) \/ ReadSubmit(s)

ClientSteps ==
  \/ ProcessConnecting \/ handle_connection_established \/ ClientAck
  \/ CloseSocket

ServerSteps == Accept \/ Register(server) \/ ProcessAccepting

Environment == TcpConnect \/ TcpBreak \/ \E s \in Side : Crash(s)

Next ==
  \/ \E s \in Side : Handlers(s) \/ Calls(s)
  \/ ClientSteps
  \/ ServerSteps
  \/ Environment

Spec == Init /\ [][Next]_vars

\* The thread of a worker never stops while it has something to do; TCP decides
\* every connect(); the application finishes a call it has begun, but need not
\* begin one.
Fairness ==
  /\ WF_vars(TcpConnect)
  /\ WF_vars(ProcessConnecting \/ handle_connection_established \/ ClientAck \/ Handlers(client))
  /\ WF_vars(ServerSteps \/ Handlers(server))
  /\ \A s \in Side :
       WF_vars(SendSubmit(s) \/ CleanupClose(s) \/ CleanupDelete(s) \/ ReadSubmit(s))

FairSpec == Spec /\ Fairness

----------------------------------------------------------------------------
(* Properties *)

Posted(s) == {wire[s][i] : i \in 1 .. Len(wire[s])}

\* A side that has neither failed nor left the handshake early
Healthy(s) == ~error[s] /\ (s = server => ~took_over)

(* A healthy socket has posted something only if the queue pair of its peer
   has left INIT: activate() and the order of the three messages keep data
   from reaching a queue pair that cannot receive it, unless read() has ended
   the server's handshake before its last message. *)
HealthyPostsReach ==
  \A s \in Side : wire[s] # <<>> /\ Healthy(s) => qp[Peer(s)] # "INIT"

(* "we do not need last handshake": not even a read() that ends it makes a
   server post to a queue pair that is not open. *)
LastMessageNotNeeded ==
  wire[server] # <<>> /\ ~error[server] => qp[client] # "INIT"

(* Why that is so: where the handshake stands on one side tells what has
   happened on the other.  A message for the client, and a client that can
   send, mean that the server's queue pair is open; an acknowledgement, a
   client inside activate() and a connected healthy server mean that the
   client's is. *)
HandshakeOrder ==
  /\ inbox[client] # <<>> \/ qp[client] = "RTS" => qp[server] # "INIT"
  /\ \A i \in 1 .. Len(inbox[server]) :
       inbox[server][i].peer_qpn # NoQpn => qp[client] # "INIT"
  /\ wpc[client] # "loop" => qp[client] # "INIT"
  /\ connected[server] /\ ~error[server] /\ ~took_over => qp[client] # "INIT"

(* A thread is inside a step that posts, or past one that notifies, only in a
   connected socket; only a server is ever inside the short cut of read(). *)
ThreadsConnected ==
  \A s \in Side :
    /\ wpc[s] # "loop" \/ apc[s] = "submit" => connected[s]
    /\ apc[s] \notin {"idle", "submit"} => s = server /\ took_over

(* While handle_connection is registered, an unread message has an event to
   come, although handle_connection reads one message for each: re-registering
   tcp_fd in handle_connection_established and the late registration by
   set_accept_fd lose none. *)
NoLostEdge ==
  \A s \in Side : handler[s] = "read" /\ inbox[s] # <<>> => edge[s]

(* Buffers are posted in the order in which the application sent them and
   none twice, whichever of activate(), handle_connection() and send() posts
   them; and submit() never hands an empty chain to ibv_post_send, although
   BufferList::Clear leaves a stale length behind. *)
PostedInOrder ==
  \A s \in Side :
    /\ ~empty_post[s]
    /\ \A i, j \in 1 .. Len(wire[s]) :
         i < j /\ wire[s][j] # Fin => wire[s][i] < wire[s][j]

(* Once a socket is connected without an error, and neither its worker nor
   the application is inside a call, every buffer that send() reported as
   sent has been posted: a "fake send" is never forgotten. *)
NothingStranded ==
  \A s \in Side :
    connected[s] /\ ~error[s] /\ wpc[s] = "loop" /\ apc[s] = "idle" =>
      Posted(s) \ {Fin} = 1 .. next[s]

(* While every call on a healthy socket succeeds, no handshake ends in fault()
   unless the TCP connection is gone or the client has closed its socket: no
   message comes when the socket no longer expects it. *)
NoSpuriousFault ==
  "call" \notin Failures =>
    \A s \in Side :
      error[s] => tcp \in {"refused", "broken"} \/ state[client] = "CLOSED"

(* The handshake implements Rendezvous: a socket comes up only when the queue
   pairs of both sides are open, and posts nothing before.  A server whose
   read() has ended the handshake makes none of these promises: it counts as
   one that has failed. *)
Abstract == INSTANCE Rendezvous WITH
  open <- [s \in Side |-> CASE qp[s] = "INIT" -> "no"
                            [] qp[s] = "RTS" -> "yes"
                            [] qp[s] = "ERR" -> "gone"],
  verdict <- [s \in Side |-> IF ~Healthy(s) THEN "failed"
                             ELSE IF connected[s] THEN "up" ELSE "pending"],
  sent <- next,
  posted <- [s \in Side |-> Posted(s) \ {Fin}]

ImplementsRendezvous == Abstract!Spec

(* The read() short cut for the last handshake message is not taken by an
   application that waits for its read callback: then the socket is
   connected already. *)
ToldIsConnected ==
  \A s \in Side : "read" \in told[s] \/ notified[s] => connected[s]

(* A Connection that reports "connect successfully, ready to send banner"
   has a queue pair that can send. *)
EstablishedCanSend ==
  state[client] = "ESTABLISHED" => qp[client] = "RTS"

(* A handshake that was started is decided although nothing times it out, when
   the connection breaks or the peer dies: the client's Connection learns that
   its socket is connected or has failed, an accepted socket does not wait for
   the acknowledgement forever.  (It is not when a call fails on a healthy
   connection: fault() leaves tcp_fd open, and the peer waits.) *)
HandshakeResolves ==
  /\ state[client] = "CONNECTING_RE" ~>
       state[client] \in {"ESTABLISHED", "CLOSED"} \/ ~up[client]
  /\ state[server] = "ACCEPTING" ~> connected[server] \/ ~up[server]

(* A buffer that send() reported as sent is posted, or the socket fails. *)
SendsPosted ==
  \A s \in Side :
    connected[s] ~> (1 .. next[s] \subseteq Posted(s)) \/ error[s] \/ ~up[s]

============================================================================
