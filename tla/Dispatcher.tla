----------------------------- MODULE Dispatcher -----------------------------
(***************************************************************************)
(* The life of the queue pairs of one process: RDMADispatcher, its polling *)
(* thread, and the threads that create, use and destroy sockets.           *)
(*                                                                         *)
(*   create -> registered -> to_dead (ERR, beacon posted) -> beacon polled *)
(*          -> dead_queue_pairs -> both queues idle -> deleted             *)
(*                                                                         *)
(* A method that holds RDMADispatcher::lock throughout is one step; the    *)
(* polling thread takes a step for every completion it handles and, since  *)
(* handle_tx_event looks the socket up without the lock, one between the   *)
(* lookup and the use of what it found.  abort(), a failed kassert and a   *)
(* bad pointer end the process.                                            *)
(***************************************************************************)
EXTENDS Integers, Sequences, FiniteSets

CONSTANTS
  QP,          \* the queue pairs that are ever created
  MaxSends,    \* bound: chunks sent on a queue pair
  MaxReceives, \* bound: messages that arrive on a queue pair
  RqDepth,     \* receive requests posted to a queue pair
  MaxCompletions, \* MAX_COMPLETIONS of polling()
  Word,        \* the counters have this many values (2^64 in the code)
  ToDeadFails, \* may ibv_modify_qp or the post of the beacon fail?
  NetFails     \* may a send fail on the network?

ASSUME DispatcherAssumption ==
  /\ MaxSends \in Nat
  /\ MaxReceives \in Nat
  /\ RqDepth \in Nat
  /\ MaxCompletions \in Nat \ {0}
  /\ Word \in Nat \ {0}
  /\ ToDeadFails \in BOOLEAN
  /\ NetFails \in BOOLEAN

VARIABLES
  sock,       \* the RDMAConnectedSocketImpl that owns the queue pair
  hw,         \* the queue pair as the device sees it
  dead,       \* QueuePair::dead
  sq,         \* send requests the device has not completed, in order
  rq,         \* number of receive requests the device has not completed
  tx_cq,      \* completions of sends: queue pair, request, success
  rx_cq,      \* completions of receives: queue pair, success
  qp_conns,   \* registered queue pairs: "conn", or "null" after to_dead
  num_qp_conn,
  dead_queue_pairs,
  done,       \* polling_stop was called
  pc,         \* where the polling thread is
  batch,      \* completions polled from tx_cq and not handled
  tx_chunks,  \* chunks handle_tx_event has collected, by their queue pair
  dead_qps,   \* polling()'s copy of dead_queue_pairs
  idle,       \* no completion was polled in this round
  sent,       \* chunks posted so far
  arrived,    \* messages received so far
  returned,   \* chunks given back to the pool so far
  inflight,   \* RDMADispatcher::inflight
  fate        \* how the process ended, or "running"

workVars == <<sock, hw, dead, sq, rq, sent, arrived>>
cqVars == <<tx_cq, rx_cq>>
mapVars == <<qp_conns, num_qp_conn, dead_queue_pairs>>
pollVars == <<pc, batch, tx_chunks, dead_qps, idle, returned, inflight>>
vars == <<workVars, cqVars, mapVars, pollVars, done, fate>>

Requests == {"chunk", "fin", "beacon"}
TxCompletion == [qp : QP, wr : Requests, ok : BOOLEAN]
RxCompletion == [qp : QP, ok : BOOLEAN]

TypeOK ==
  /\ sock \in [QP -> {"none", "alive", "closed", "gone"}]
  /\ hw \in [QP -> {"none", "RTS", "ERR", "destroyed"}]
  /\ dead \in [QP -> BOOLEAN]
  /\ sq \in [QP -> Seq(Requests)]
  /\ rq \in [QP -> 0 .. RqDepth]
  /\ tx_cq \in Seq(TxCompletion)
  /\ rx_cq \in Seq(RxCompletion)
  /\ qp_conns \in [QP -> {"absent", "conn", "null"}]
  /\ num_qp_conn \in Nat
  /\ dead_queue_pairs \in Seq(QP)
  /\ done \in BOOLEAN
  /\ pc \in {"tx", "tx_event", "tx_callback", "rx", "idle", "delete", "exited"}
  /\ batch \in Seq(TxCompletion)
  /\ tx_chunks \in Seq(QP)
  /\ dead_qps \in Seq(QP)
  /\ idle \in BOOLEAN
  /\ sent \in [QP -> 0 .. MaxSends]
  /\ arrived \in [QP -> 0 .. MaxReceives]
  /\ returned \in [QP -> Nat]
  /\ inflight \in 0 .. Word - 1
  /\ fate \in {"running", "aborted", "null_conn", "freed_conn"}

\* polling_start has run: the first listen() or connect() calls it
Init ==
  /\ sock = [q \in QP |-> "none"]
  /\ hw = [q \in QP |-> "none"]
  /\ dead = [q \in QP |-> FALSE]
  /\ sq = [q \in QP |-> <<>>]
  /\ rq = [q \in QP |-> 0]
  /\ tx_cq = <<>>
  /\ rx_cq = <<>>
  /\ qp_conns = [q \in QP |-> "absent"]
  /\ num_qp_conn = 0
  /\ dead_queue_pairs = <<>>
  /\ done = FALSE
  /\ pc = "tx"
  /\ batch = <<>>
  /\ tx_chunks = <<>>
  /\ dead_qps = <<>>
  /\ idle = TRUE
  /\ sent = [q \in QP |-> 0]
  /\ arrived = [q \in QP |-> 0]
  /\ returned = [q \in QP |-> 0]
  /\ inflight = 0
  /\ fate = "running"

Running == fate = "running"
Registered == {q \in QP : qp_conns[q] # "absent"}

----------------------------------------------------------------------------
(* The device (external): a queue pair completes its requests in order,     *)
(* with success while it is connected and with a flush error afterwards.    *)

Complete(q) ==
  /\ Running
  /\ sq[q] # <<>>
  /\ hw[q] \in {"RTS", "ERR"}
  /\ \E ok \in BOOLEAN :
       /\ IF ok THEN hw[q] = "RTS" ELSE hw[q] = "ERR" \/ NetFails
       /\ tx_cq' = Append(tx_cq, [qp |-> q, wr |-> Head(sq[q]), ok |-> ok])
       /\ hw' = IF ok THEN hw ELSE [hw EXCEPT ![q] = "ERR"]
  /\ sq' = [sq EXCEPT ![q] = Tail(@)]
  /\ UNCHANGED <<dead, sock, rq, sent, arrived, rx_cq, mapVars, pollVars, done, fate>>

\* a message takes a posted receive request
Arrive(q) ==
  /\ Running
  /\ hw[q] = "RTS"
  /\ rq[q] > 0
  /\ arrived[q] < MaxReceives
  /\ rx_cq' = Append(rx_cq, [qp |-> q, ok |-> TRUE])
  /\ rq' = [rq EXCEPT ![q] = @ - 1]
  /\ arrived' = [arrived EXCEPT ![q] = @ + 1]
  /\ UNCHANGED <<dead, sock, hw, sq, sent, tx_cq, mapVars, pollVars, done, fate>>

\* a posted receive request is flushed; nothing orders this and the flush of
\* the send queue, at whose end the beacon is
FlushReceive(q) ==
  /\ Running
  /\ hw[q] = "ERR"
  /\ rq[q] > 0
  /\ rx_cq' = Append(rx_cq, [qp |-> q, ok |-> FALSE])
  /\ rq' = [rq EXCEPT ![q] = @ - 1]
  /\ UNCHANGED <<dead, sock, hw, sq, sent, arrived, tx_cq, mapVars, pollVars, done, fate>>

----------------------------------------------------------------------------
(* Workers *)

\* The socket's constructor: create_queue_pair posts the receive requests,
\* register_qp enters it; the handshake that follows is ConnectedSocket's.
Create(q) ==
  /\ Running
  /\ sock[q] = "none"
  /\ ~done
  /\ sock' = [sock EXCEPT ![q] = "alive"]
  /\ hw' = [hw EXCEPT ![q] = "RTS"]
  /\ rq' = [rq EXCEPT ![q] = RqDepth]
  /\ qp_conns' = [qp_conns EXCEPT ![q] = "conn"]
  /\ num_qp_conn' = num_qp_conn + 1
  /\ UNCHANGED <<dead, sq, sent, arrived, cqVars, dead_queue_pairs, pollVars, done, fate>>

\* post_work_request; nothing counts the chunk as in flight
PostSend(q) ==
  /\ Running
  /\ sock[q] = "alive"
  /\ sent[q] < MaxSends
  /\ sq' = [sq EXCEPT ![q] = Append(@, "chunk")]
  /\ sent' = [sent EXCEPT ![q] = @ + 1]
  /\ UNCHANGED <<dead, sock, hw, rq, arrived, cqVars, mapVars, pollVars, done, fate>>

\* close(): a fin unless the socket has failed before
Close(q) ==
  /\ Running
  /\ sock[q] = "alive"
  /\ sock' = [sock EXCEPT ![q] = "closed"]
  /\ \/ sq' = [sq EXCEPT ![q] = Append(@, "fin")]
     \/ UNCHANGED sq
  /\ UNCHANGED <<dead, hw, rq, sent, arrived, cqVars, mapVars, pollVars, done, fate>>

\* mutant: an entry without a socket counts as not registered
EnqueueDead_only_conn(q) ==
  IF qp_conns[q] = "conn"
  THEN /\ dead_queue_pairs' = Append(dead_queue_pairs, q)
       /\ qp_conns' = [qp_conns EXCEPT ![q] = "absent"]
       /\ num_qp_conn' = num_qp_conn - 1
  ELSE UNCHANGED mapVars

\* mutant: num_qp_conn is not decremented
EnqueueDead_keeps_count(q) ==
  IF q \in Registered
  THEN /\ dead_queue_pairs' = Append(dead_queue_pairs, q)
       /\ qp_conns' = [qp_conns EXCEPT ![q] = "absent"]
       /\ UNCHANGED num_qp_conn
  ELSE UNCHANGED mapVars

\* enqueue_dead_qp_lockless, and schedule_qp_destroy when to_dead has failed
EnqueueDead(q) ==
  IF q \in Registered
  THEN /\ dead_queue_pairs' = Append(dead_queue_pairs, q)
       /\ qp_conns' = [qp_conns EXCEPT ![q] = "absent"]
       /\ num_qp_conn' = num_qp_conn - 1
  ELSE UNCHANGED mapVars

\* QueuePair::to_dead: the device drops the connection, the beacon is posted
to_dead(q) ==
  /\ hw' = [hw EXCEPT ![q] = "ERR"]
  /\ sq' = [sq EXCEPT ![q] = Append(@, "beacon")]
  /\ dead' = [dead EXCEPT ![q] = TRUE]

\* QueuePair::to_dead when ibv_modify_qp fails, or the post of the beacon
to_dead_fails(q) ==
  /\ ToDeadFails
  /\ hw' = hw \/ hw' = [hw EXCEPT ![q] = "ERR"]
  /\ UNCHANGED <<sq, dead>>

\* mutant: the socket pointer stays in the map
Destroy_keeps_conn(q) ==
  /\ Running
  /\ sock[q] \in {"alive", "closed"}
  /\ sock' = [sock EXCEPT ![q] = "gone"]
  /\ to_dead(q)
  /\ UNCHANGED <<rq, sent, arrived, cqVars, mapVars, pollVars, done, fate>>

\* mutant: no beacon, the queue pair is queued for deletion at once
Destroy_no_beacon(q) ==
  /\ Running
  /\ sock[q] \in {"alive", "closed"}
  /\ sock' = [sock EXCEPT ![q] = "gone"]
  /\ hw' = [hw EXCEPT ![q] = "ERR"]
  /\ dead' = [dead EXCEPT ![q] = TRUE]
  /\ EnqueueDead(q)
  /\ UNCHANGED <<sq, rq, sent, arrived, cqVars, pollVars, done, fate>>

\* The socket's destructor: schedule_qp_destroy
Destroy(q) ==
  /\ Running
  /\ sock[q] \in {"alive", "closed"}
  /\ sock' = [sock EXCEPT ![q] = "gone"]
  /\ \/ /\ to_dead(q)
        /\ qp_conns' = [qp_conns EXCEPT ![q] = "null"]
        /\ UNCHANGED <<num_qp_conn, dead_queue_pairs>>
     \/ to_dead_fails(q) /\ EnqueueDead(q)
  /\ UNCHANGED <<rq, sent, arrived, cqVars, pollVars, done, fate>>

\* polling_stop in ~RDMADispatcher: every socket held a reference to it
Stop ==
  /\ Running
  /\ ~done
  /\ \A q \in QP : sock[q] \in {"none", "gone"}
  /\ done' = TRUE
  /\ UNCHANGED <<workVars, cqVars, mapVars, pollVars, fate>>

----------------------------------------------------------------------------
(* The polling thread *)

Die(how) == fate' = how /\ UNCHANGED <<workVars, cqVars, mapVars, pollVars, done>>

\* poll_cq on tx_cq; with no completion handle_tx_event is not called
PollTx ==
  /\ Running
  /\ pc = "tx"
  /\ LET n == IF Len(tx_cq) < MaxCompletions THEN Len(tx_cq) ELSE MaxCompletions
     IN /\ batch' = SubSeq(tx_cq, 1, n)
        /\ tx_cq' = SubSeq(tx_cq, n + 1, Len(tx_cq))
        /\ idle' = (n = 0)
        /\ pc' = IF n = 0 THEN "rx" ELSE "tx_event"
  /\ UNCHANGED <<workVars, rx_cq, mapVars, tx_chunks, dead_qps, returned, inflight, done, fate>>

\* handle_tx_event, a beacon: enqueue_dead_qp under the lock, whatever the status
TxBeacon ==
  /\ Running
  /\ pc = "tx_event"
  /\ batch # <<>>
  /\ Head(batch).wr = "beacon"
  /\ EnqueueDead(Head(batch).qp)
  /\ batch' = Tail(batch)
  /\ UNCHANGED <<workVars, cqVars, pc, tx_chunks, dead_qps, idle, returned, inflight, done, fate>>

\* handle_tx_event, any other failed request: it is logged, then abort()
TxFailure ==
  /\ Running
  /\ pc = "tx_event"
  /\ batch # <<>>
  /\ Head(batch).wr # "beacon" /\ ~Head(batch).ok
  /\ Die("aborted")

\* handle_tx_event: get_conn_lockless, which the lock does not protect here;
\* it finds no socket once schedule_qp_destroy has run
TxLookup ==
  /\ Running
  /\ pc = "tx_event"
  /\ batch # <<>>
  /\ Head(batch).wr # "beacon" /\ Head(batch).ok
  /\ IF qp_conns[Head(batch).qp] = "conn"
     THEN pc' = "tx_callback" /\ UNCHANGED fate
     ELSE fate' = "null_conn" /\ UNCHANGED pc
  /\ UNCHANGED <<workVars, cqVars, mapVars, batch, tx_chunks, dead_qps, idle, returned, inflight, done>>

\* handle_tx_event: txc_callback on the socket that was found; a chunk is
\* collected, a fin carries no buffer
TxCallback ==
  /\ Running
  /\ pc = "tx_callback"
  /\ LET wc == Head(batch)
     IN IF sock[wc.qp] = "gone"
        THEN Die("freed_conn")
        ELSE /\ tx_chunks' = IF wc.wr = "chunk" THEN Append(tx_chunks, wc.qp) ELSE tx_chunks
             /\ batch' = Tail(batch)
             /\ pc' = "tx_event"
             /\ UNCHANGED <<workVars, cqVars, mapVars, dead_qps, idle, returned, inflight, done, fate>>

Occurrences(q, s) == Cardinality({i \in 1 .. Len(s) : s[i] = q})

\* handle_tx_event, after its loop: post_tx_buffer
PostTxBuffer ==
  /\ Running
  /\ pc = "tx_event"
  /\ batch = <<>>
  /\ inflight' = (inflight - Len(tx_chunks)) % Word
  /\ returned' = [q \in QP |-> returned[q] + Occurrences(q, tx_chunks)]
  /\ tx_chunks' = <<>>
  /\ pc' = "rx"
  /\ UNCHANGED <<workVars, cqVars, mapVars, batch, dead_qps, idle, done, fate>>

\* poll_cq on rx_cq and handle_rx_event, which holds the lock throughout; a
\* flushed receive is logged, then abort().  post_chunks_to_rq replaces the
\* receive request that a connected queue pair has used.
PollRx ==
  /\ Running
  /\ pc = "rx"
  /\ LET n == IF Len(rx_cq) < MaxCompletions THEN Len(rx_cq) ELSE MaxCompletions
         wcs == SubSeq(rx_cq, 1, n)
     IN IF \E i \in 1 .. n : ~wcs[i].ok
        THEN Die("aborted")
        ELSE /\ rx_cq' = SubSeq(rx_cq, n + 1, Len(rx_cq))
             /\ rq' = [q \in QP |->
                         IF qp_conns[q] = "conn"
                         THEN rq[q] + Cardinality({i \in 1 .. n : wcs[i].qp = q})
                         ELSE rq[q]]
             /\ idle' = (idle /\ n = 0)
             /\ pc' = "idle"
             /\ UNCHANGED <<dead, sock, hw, sq, sent, arrived, tx_cq, mapVars, batch, tx_chunks, dead_qps,
                            returned, inflight, done, fate>>

\* mutant: the thread leaves though queue pairs are registered
NextRound_ignores_conns == IF done /\ dead_queue_pairs = <<>> THEN "exited" ELSE "tx"

\* The condition on which the thread leaves its loop after an idle round
NextRound == IF num_qp_conn = 0 /\ done /\ dead_queue_pairs = <<>> THEN "exited" ELSE "tx"

\* Only a round that polled nothing looks at dead_queue_pairs
Idle ==
  /\ Running
  /\ pc = "idle"
  /\ IF idle /\ dead_queue_pairs # <<>>
     THEN /\ dead_qps' = dead_queue_pairs
          /\ dead_queue_pairs' = <<>>
          /\ pc' = "delete"
     ELSE /\ pc' = IF idle THEN NextRound ELSE "tx"
          /\ UNCHANGED <<dead_queue_pairs, dead_qps>>
  /\ UNCHANGED <<workVars, cqVars, qp_conns, num_qp_conn, batch, tx_chunks, idle, returned,
                 inflight, done, fate>>

\* ~QueuePair, outside the lock
DeleteQP ==
  /\ Running
  /\ pc = "delete"
  /\ hw' = [hw EXCEPT ![Head(dead_qps)] = "destroyed"]
  /\ dead_qps' = Tail(dead_qps)
  /\ pc' = IF Tail(dead_qps) = <<>> THEN NextRound ELSE "delete"
  /\ UNCHANGED <<dead, sock, sq, rq, sent, arrived, cqVars, mapVars, batch, tx_chunks, idle, returned,
                 inflight, done, fate>>

\* The thread has left its loop, or the process has ended
Ended ==
  /\ pc = "exited" \/ ~Running
  /\ UNCHANGED vars

Device == \E q \in QP : Complete(q) \/ FlushReceive(q)

Poll ==
  \/ PollTx \/ TxBeacon \/ TxFailure \/ TxLookup \/ TxCallback \/ PostTxBuffer
  \/ PollRx \/ Idle \/ DeleteQP

Next ==
  \/ Device
  \/ \E q \in QP : Arrive(q) \/ Create(q) \/ PostSend(q) \/ Close(q) \/ Destroy(q)
  \/ Stop
  \/ Poll
  \/ Ended

Spec == Init /\ [][Next]_vars

\* The device completes what it was given, the polling thread never sleeps
Fairness ==
  /\ \A q \in QP : WF_vars(Complete(q))
  /\ WF_vars(Poll)

FairSpec == Spec /\ Fairness

----------------------------------------------------------------------------
(* Safety *)

\* A socket pointer in qp_conns, which handle_rx_event passes completions to
\* under the lock, is never one whose destructor has finished.
NoDanglingConn ==
  \A q \in QP : qp_conns[q] = "conn" => sock[q] \in {"alive", "closed"}

\* When a queue pair that to_dead has made dead is deleted, every chunk that was
\* sent on it is back in the pool, none twice: the beacon comes behind all of
\* them and the deletion behind the beacon.
BuffersReturned ==
  \A q \in QP : hw[q] = "destroyed" /\ dead[q] => returned[q] = sent[q]

Doomed == dead_queue_pairs \o dead_qps

\* A queue pair is deleted once: it is queued for deletion once, out of the
\* map by then, and not deleted yet.  And none is left behind: once the polling
\* thread is joined, what ~RDMADispatcher asserts holds.
DeletedOnce ==
  /\ \A i, j \in 1 .. Len(Doomed) : Doomed[i] = Doomed[j] => i = j
  /\ \A i \in 1 .. Len(Doomed) : hw[Doomed[i]] # "destroyed" /\ Doomed[i] \notin Registered
  /\ pc = "exited" =>
       /\ Registered = {} /\ num_qp_conn = 0 /\ dead_queue_pairs = <<>>
       /\ \A q \in QP : hw[q] \in {"none", "destroyed"}

\* An orderly teardown ends in the deletion of the queue pair: the completions
\* of requests flushed by to_dead are consumed.
FlushIsConsumed == fate # "aborted"

\* handle_tx_event copes with a completion whose socket is gone, as
\* get_conn_lockless reports it.
NullConnHandled == fate # "null_conn"

\* The socket whose txc_callback is called exists.
CallbackOnLiveSocket == fate # "freed_conn"

\* The receive queue's completions are consumed before the queue pair is deleted
ReceivesConsumed ==
  pc = "delete" =>
    \A i \in 1 .. Len(rx_cq), j \in 1 .. Len(dead_qps) : rx_cq[i].qp # dead_qps[j]

PostedNotReturned ==
  LET Unreturned[S \in SUBSET QP] ==
        IF S = {} THEN 0
        ELSE LET q == CHOOSE x \in S : TRUE IN sent[q] - returned[q] + Unreturned[S \ {q}]
  IN Unreturned[QP]

\* inflight is the number of chunks sent and not returned
InflightCounts == inflight = PostedNotReturned

----------------------------------------------------------------------------
(* Liveness: with traffic that ends, so that rounds without completions come *)

\* A queue pair whose socket is gone is deleted, unless the process ends.
DeadDestroyed == \A q \in QP : sock[q] = "gone" ~> hw[q] = "destroyed" \/ ~Running

\* polling_stop's join returns, unless the process ends.
StopReturns == done ~> pc = "exited" \/ ~Running

=============================================================================
