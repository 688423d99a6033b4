------------------------------ MODULE RxBuffers ------------------------------
(***************************************************************************)
(* Receive buffers of an established socket.  A chunk goes from the        *)
(* receive pool to the queue pair's receive queue, through the completion  *)
(* queue to the polling thread, which posts another chunk in its place and *)
(* passes the completion to the socket, and from there to the application, *)
(* whose read() or drain() returns it to the pool and posts what could not *)
(* be posted before, the post_backlog.                                     *)
(*                                                                         *)
(* The dispatcher's lock is held from Poll to PassWc and around each call  *)
(* the reading thread makes to the dispatcher.  post_backlog is not under  *)
(* it in the reading thread, so loads and stores are separate steps.       *)
(***************************************************************************)
EXTENDS Integers, Sequences, SequencesExt, FiniteSetsExt

CONSTANTS
  Chunk,     \* the chunks the pool can allocate
  RqLen,     \* rx_queue_len: max_recv_wr and the size of temp_ibv_recv_wr
  Srq,       \* m_rdma_support_srq_
  MaxBytes,  \* bound: bytes of a message
  MaxMsgs    \* bound: messages the peer sends

ASSUME RxBuffersAssumption ==
  /\ RqLen \in Nat \ {0} /\ Cardinality(Chunk) >= RqLen
  /\ Srq \in BOOLEAN
  /\ MaxBytes \in Nat \ {0} /\ MaxMsgs \in Nat

VARIABLES
  started,       \* Infiniband::init and QueuePair::init have run
  failed,        \* how the process has died: an assertion, a null dereference
  pool,          \* free chunks
  recv_queue,    \* QueuePair::recv_queue
  posted,        \* chunks with an outstanding receive request, in order
  cq,            \* completions not polled yet
  cqe_in,        \* the polling thread's batch, still to handle
  polled,        \* and handled
  ppc, pload,    \* where it is, and the sum it is about to store
  wc,            \* RDMAConnectedSocketImpl::wc
  buffers,       \* RDMAConnectedSocketImpl::buffers
  cqe,           \* the reading thread's batch (buffer_prefetch, drain)
  apc, want,     \* where it is, and the bytes read() has still to deliver
  num, aload,    \* its argument, then result, of post_chunks_to_rq
  post_backlog,
  sent, fin,     \* messages received so far, and whether the last was empty
  unread         \* bytes received and neither read nor drained

rq == <<pool, recv_queue, posted, failed>>
polling == <<cqe_in, polled, ppc, pload>>
reading == <<buffers, cqe, apc, want, num, aload>>
peer == <<sent, fin>>
vars == <<started, rq, cq, polling, wc, reading, post_backlog, peer, unread>>

Completion == [chunk : Chunk, msg : 1 .. MaxMsgs, left : 0 .. MaxBytes]

TypeOK ==
  /\ started \in BOOLEAN /\ fin \in BOOLEAN
  /\ failed \in {"no", "assert", "null"}
  /\ pool \subseteq Chunk /\ recv_queue \subseteq Chunk
  /\ posted \in Seq(Chunk) /\ Len(posted) <= RqLen
  /\ \A s \in {cq, cqe_in, polled, wc, buffers, cqe} : s \in Seq(Completion)
  /\ ppc \in {"poll", "repost", "store", "pass"}
  /\ apc \in {"idle", "prefetch", "reading", "drain", "update", "post", "load", "store"}
  /\ want \in 0 .. MaxBytes
  /\ {post_backlog, pload, num, aload} \subseteq Int
  /\ sent \in 0 .. MaxMsgs /\ unread \in Nat

Init ==
  /\ started = FALSE /\ failed = "no"
  /\ pool = Chunk /\ recv_queue = {} /\ posted = <<>>
  /\ cq = <<>>
  /\ cqe_in = <<>> /\ polled = <<>> /\ ppc = "poll" /\ pload = 0
  /\ wc = <<>>
  /\ buffers = <<>> /\ cqe = <<>> /\ apc = "idle" /\ want = 0 /\ num = 0 /\ aload = 0
  /\ post_backlog = 0
  /\ sent = 0 /\ fin = FALSE
  /\ unread = 0

Running == started /\ failed = "no"
Unlocked == ppc = "poll"     \* RDMADispatcher::lock is free

----------------------------------------------------------------------------
(* Infiniband::post_chunks_to_rq *)

\* ibv_post_recv takes the requests the queue has room for.  Of the rest, from
\* bad_wr, all but the last are taken back.
PostTaken(n, taken, fit) ==
  LET back == {taken[i] : i \in fit + 1 .. n - 1}
  IN  /\ pool' = (pool \ Range(taken)) \cup back
      /\ posted' = posted \o SubSeq(taken, 1, fit)
      /\ recv_queue' = recv_queue \cup (Range(taken) \ back)

\* The call for n buffers, which returns `result`.  Without any chunk it returns
\* 0; with fewer than n, and with a negative n, the assertion fails.
post_chunks_to_rq(n, result) ==
  \/ /\ n > 0 /\ pool = {}
     /\ result = 0
     /\ UNCHANGED rq
  \/ /\ n < 0 \/ Cardinality(pool) \in 1 .. n - 1
     /\ failed' = "assert"
     /\ result = 0
     /\ UNCHANGED <<pool, recv_queue, posted>>
  \/ /\ n > 0 /\ Cardinality(pool) >= n
     /\ LET fit == Min({n, RqLen - Len(posted)})
        IN  /\ result = IF fit < n THEN fit + 1 ELSE n
            /\ \E taken \in [1 .. n -> pool] : IsInjective(taken) /\ PostTaken(n, taken, fit)
     /\ UNCHANGED failed

\* Infiniband::init and QueuePair::init.  With a shared receive queue the call is
\* made without a queue pair, whose arrays it reads first.
Start ==
  /\ ~started
  /\ started' = TRUE
  /\ \/ /\ Srq
        /\ failed' = "null"
        /\ UNCHANGED <<pool, recv_queue, posted>>
     \/ ~Srq /\ post_chunks_to_rq(RqLen, RqLen)
  /\ UNCHANGED <<cq, polling, wc, reading, post_backlog, peer, unread>>

\* A message of the peer fills the first posted buffer; an empty one, fin(), is its last
Receive ==
  /\ Running /\ posted # <<>> /\ sent < MaxMsgs /\ ~fin
  /\ sent' = sent + 1
  /\ \E bytes \in 0 .. MaxBytes :
       /\ cq' = Append(cq, [chunk |-> Head(posted), msg |-> sent + 1, left |-> bytes])
       /\ fin' = (bytes = 0)
       /\ unread' = unread + bytes
  /\ posted' = Tail(posted)
  /\ UNCHANGED <<started, pool, recv_queue, failed, polling, wc, reading, post_backlog>>

----------------------------------------------------------------------------
(* The polling thread: handle_rx_event on a batch of completions *)

Poll ==
  /\ Running /\ ppc = "poll" /\ cq # <<>>
  /\ \E k \in 1 .. Len(cq) :
       /\ cqe_in' = SubSeq(cq, 1, k)
       /\ cq' = SubSeq(cq, k + 1, Len(cq))
  /\ ppc' = "repost"
  /\ UNCHANGED <<started, rq, polled, pload, wc, reading, post_backlog, peer, unread>>

\* conn->post_chunks_to_rq(1): post_backlog += 1 - posted, up to the load
Repost ==
  /\ Running /\ ppc = "repost"
  /\ \E result \in 0 .. 1 :
       /\ post_chunks_to_rq(1, result)
       /\ pload' = post_backlog + 1 - result
  /\ ppc' = "store"
  /\ UNCHANGED <<started, cq, cqe_in, polled, wc, reading, post_backlog, peer, unread>>

\* The store, polled[conn].push_back, remove_rq_wr with its assertion, clear_qp
Repost_store ==
  /\ Running /\ ppc = "store"
  /\ LET chunk == Head(cqe_in).chunk
     IN  /\ failed' = IF chunk \in recv_queue THEN failed ELSE "assert"
         /\ recv_queue' = recv_queue \ {chunk}
  /\ post_backlog' = pload
  /\ pload' = 0
  /\ polled' = Append(polled, Head(cqe_in))
  /\ cqe_in' = Tail(cqe_in)
  /\ ppc' = IF Len(cqe_in) = 1 THEN "pass" ELSE "repost"
  /\ UNCHANGED <<started, pool, posted, cq, wc, reading, peer, unread>>

\* (mutant: the completions the socket still holds are replaced)
Passed_replaces == polled

\* RDMAConnectedSocketImpl::wc after pass_wc
Passed == wc \o polled

PassWc ==
  /\ Running /\ ppc = "pass"
  /\ wc' = Passed
  /\ polled' = <<>>
  /\ ppc' = "poll"
  /\ UNCHANGED <<started, rq, cq, cqe_in, pload, reading, post_backlog, peer, unread>>

----------------------------------------------------------------------------
(* The reading thread: read(), drain() and update_post_backlog() *)

\* read(buf, len): get_wc in buffer_prefetch
Read ==
  /\ Running /\ apc = "idle"
  /\ want' \in 1 .. MaxBytes
  /\ cqe' = wc
  /\ wc' = <<>>
  /\ apc' = "prefetch"
  /\ UNCHANGED <<started, rq, cq, polling, buffers, num, aload, post_backlog, peer, unread>>

IsFin(c) == c.left = 0
IsData(c) == c.left # 0

\* buffer_prefetch: data goes to buffers, the chunk of an empty message to the pool
Prefetch ==
  /\ Running /\ apc = "prefetch"
  /\ LET empty == SelectSeq(cqe, IsFin)
     IN  /\ empty # <<>> => Unlocked
         /\ pool' = pool \cup {c.chunk : c \in Range(empty)}
  /\ buffers' = buffers \o SelectSeq(cqe, IsData)
  /\ cqe' = <<>>
  /\ apc' = IF buffers' = <<>> THEN "idle" ELSE "reading"
  /\ want' = IF buffers' = <<>> THEN 0 ELSE want
  /\ UNCHANGED <<started, recv_queue, posted, failed, cq, polling, wc, num, aload, post_backlog,
                 peer, unread>>

\* Chunk::zero_read
ReadLen(c, len) == Min({c.left, len})

\* (mutant: a chunk of which something is left is recalled as well)
Exhausted_always(c, n) == TRUE

\* get_size() == 0 after zero_read of n bytes
Exhausted(c, n) == n = c.left

\* zero_read of the first chunk; recall_chunk_to_pool when nothing is left of it
ReadChunk ==
  /\ Running /\ apc = "reading"
  /\ LET c == Head(buffers)
         n == ReadLen(c, want)
     IN  /\ unread' = unread - n
         /\ \/ /\ Exhausted(c, n) /\ Unlocked
               /\ pool' = pool \cup {c.chunk}
               /\ buffers' = Tail(buffers)
               /\ want' = want - n
               /\ apc' = "update"
            \/ /\ ~Exhausted(c, n)
               /\ buffers' = <<[c EXCEPT !.left = @ - n]>> \o Tail(buffers)
               /\ want' = 0
               /\ apc' = "idle"
               /\ UNCHANGED pool
  /\ UNCHANGED <<started, recv_queue, posted, failed, cq, polling, wc, cqe, num, aload,
                 post_backlog, peer>>

\* drain(): get_wc, then each completion is recalled and the backlog updated
Drain ==
  /\ Running /\ apc = "idle" /\ wc # <<>>
  /\ cqe' = wc
  /\ wc' = <<>>
  /\ apc' = "drain"
  /\ UNCHANGED <<started, rq, cq, polling, buffers, want, num, aload, post_backlog, peer, unread>>

DrainChunk ==
  /\ Running /\ apc = "drain" /\ Unlocked
  /\ pool' = pool \cup {Head(cqe).chunk}
  /\ unread' = unread - Head(cqe).left
  /\ cqe' = Tail(cqe)
  /\ apc' = "update"
  /\ UNCHANGED <<started, recv_queue, posted, failed, cq, polling, wc, buffers, want, num, aload,
                 post_backlog, peer>>

\* Where the loop that called update_post_backlog goes on
AfterUpdate ==
  /\ apc' = IF cqe # <<>> THEN "drain"
            ELSE IF want = 0 \/ buffers = <<>> THEN "idle" ELSE "reading"
  /\ want' = IF buffers = <<>> THEN 0 ELSE want

\* update_post_backlog: the test, and the load of the argument
UpdateBacklog ==
  /\ Running /\ apc = "update"
  /\ \/ /\ post_backlog = 0
        /\ AfterUpdate
        /\ UNCHANGED num
     \/ /\ post_backlog # 0
        /\ num' = post_backlog
        /\ apc' = "post"
        /\ UNCHANGED want
  /\ UNCHANGED <<started, rq, cq, polling, wc, buffers, cqe, aload, post_backlog, peer, unread>>

\* dispatcher->post_chunks_to_rq(post_backlog, qp)
UpdatePost ==
  /\ Running /\ apc = "post" /\ Unlocked
  /\ \E result \in 0 .. RqLen + 1 :
       /\ post_chunks_to_rq(num, result)
       /\ aload' = result
  /\ apc' = "load"
  /\ UNCHANGED <<started, cq, polling, wc, buffers, cqe, want, num, post_backlog, peer, unread>>

\* post_backlog -= post_backlog - posted: the left operand of the inner difference
\* may have been loaded before the call or after it
UpdateLoad ==
  /\ Running /\ apc = "load"
  /\ \E left \in {num, post_backlog} : aload' = post_backlog - (left - aload)
  /\ num' = 0
  /\ apc' = "store"
  /\ UNCHANGED <<started, rq, cq, polling, wc, buffers, cqe, want, post_backlog, peer, unread>>

UpdateStore ==
  /\ Running /\ apc = "store"
  /\ post_backlog' = aload
  /\ aload' = 0
  /\ AfterUpdate
  /\ UNCHANGED <<started, rq, cq, polling, wc, buffers, cqe, num, peer, unread>>

\* The process is dead
Dead == failed # "no" /\ UNCHANGED vars

Next ==
  \/ Start \/ Receive
  \/ Poll \/ Repost \/ Repost_store \/ PassWc
  \/ Read \/ Prefetch \/ ReadChunk \/ Drain \/ DrainChunk
  \/ UpdateBacklog \/ UpdatePost \/ UpdateLoad \/ UpdateStore
  \/ Dead

Spec == Init /\ [][Next]_vars

----------------------------------------------------------------------------
(* Properties *)

\* Completions between the network and the application, oldest first
Pipeline == buffers \o cqe \o wc \o polled \o cqe_in \o cq

Chunks(s) == {c.chunk : c \in Range(s)}

\* Every chunk has one owner at any time: the pool, the receive queue, or the
\* socket with its readers.  Nothing is recalled twice and nothing is lost, while
\* two threads take and return chunks (recall_chunk_to_pool, post_chunks_to_rq).
\* A buffer the card may write into, or has reported, is in recv_queue exactly
\* once: remove_rq_wr finds it, and ~QueuePair would release it.
RxOwnership ==
  LET held == buffers \o cqe \o wc \o polled
      out == posted \o [i \in DOMAIN (cqe_in \o cq) |-> (cqe_in \o cq)[i].chunk]
  IN  /\ pool \cup recv_queue \cup Chunks(held) = Chunk
      /\ pool \cap recv_queue = {}
      /\ (pool \cup recv_queue) \cap Chunks(held) = {}
      /\ Cardinality(Chunks(held)) = Len(held)
      /\ Range(out) \subseteq recv_queue /\ IsInjective(out)

\* What read() and drain() have not consumed is held, in the order of arrival, in
\* the batches of the two threads and the socket's two queues.
StreamInOrder ==
  /\ \A i, j \in DOMAIN Pipeline : i < j => Pipeline[i].msg < Pipeline[j].msg
  /\ unread = FoldSeq(LAMBDA c, sum : c.left + sum, 0, Pipeline)

\* Infiniband.h:562 "return number of buffers actually posted": with both threads
\* between calls, buffers posted and the backlog make up the whole receive queue.
BacklogExact ==
  (Running /\ ppc = "poll" /\ apc = "idle") => Len(posted) + Len(cq) + post_backlog = RqLen

\* Infiniband.cc:1124 "get some buffers, so we need post them to recevie queue":
\* a pool with fewer chunks than asked for does not end the process.
PartialPostContinues == failed # "assert"

\* Infiniband.cc:1050 "add to srq": the shared receive queue gets its buffers.
SrqFilled == failed # "null"
=============================================================================
