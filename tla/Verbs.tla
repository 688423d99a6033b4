-------------------------------- MODULE Verbs --------------------------------
(***************************************************************************)
(* The verbs objects of the process and the memory behind them: what       *)
(* Infiniband::init, RDMADispatcher::polling_start and create_queue_pair    *)
(* build, from any of several worker threads and with any call failing,    *)
(* and what ~RDMADispatcher and ~Infiniband release.                       *)
(*                                                                         *)
(* The objects of one kind are interchangeable, so the model counts them:  *)
(* count[k] is the number of live objects of kind k.  Receive buffers are  *)
(* counted too; what is read from them is the subject of RxBuffers.  The    *)
(* life of one queue pair between its creation and its death is the        *)
(* subject of Dispatcher, here it is one step (Close) and one more (Reap). *)
(***************************************************************************)
EXTENDS Integers, Sequences, FiniteSets, Functions

CONSTANTS
    Worker,       \* worker threads
    Sock,         \* sockets (RDMAConnectedSocketImpl) ever constructed
    NumDevices,   \* devices ibv_get_device_list returns
    RecvLen,      \* rx_queue_len, receive buffers of a queue pair
    Limits,       \* values of m_rdma_receive_buffers_bytes_, 0 is "unlimited"
    RetryAbove,   \* boost::pool retries at half the size above this size
    Hugepage,     \* m_rdma_enable_hugepage_
    TxNum,        \* 8 * tx_queue_len, chunks of the transmit pool
    BufSize,      \* m_rdma_buffer_size_bytes_
    Word,         \* 2^32, the width of the byte count in Cluster::fill
    MaxFails      \* bound: failing calls in a behaviour

ASSUME VerbsAssumption ==
    /\ IsFiniteSet(Worker) /\ IsFiniteSet(Sock)
    /\ {NumDevices, RecvLen, TxNum, BufSize} \subseteq Nat \ {0}
    /\ Limits \subseteq Nat /\ {RetryAbove, Word, MaxFails} \subseteq Nat
    /\ Hugepage \in BOOLEAN

VARIABLES
    pc,               \* where each worker thread is
    way,              \* how it came to construct a socket: connect or accept
    on,               \* the socket it constructs
    got,              \* i of its post_chunks_to_rq loop
    initialized,      \* Infiniband::initialized
    polling,          \* RDMADispatcher::t.joinable()
    count,            \* live objects of each kind
    sock,             \* state of each socket and of its queue pair
    refs,             \* stack and workers still holding the shared pointers
    down,             \* progress of ~RDMADispatcher and ~Infiniband
    limit,            \* m_rdma_receive_buffers_bytes_
    next_size,        \* boost::pool::next_size
    free,             \* buffers on the pool's free list
    n_bufs_allocated, \* MemPoolContext::n_bufs_allocated
    rx_bufs_total,    \* the perf counter, -1 before set_stat_logger
    blocks,           \* registered blocks of the receive pool, with mem_info
    heap,             \* live allocations of MemoryManager::malloc, by origin
    tx_header,        \* the origin noted in front of the transmit pool
    tx,               \* the chunks of the transmit pool
    fails,            \* failing calls so far
    fate              \* "running", or how the process ended

threads == <<pc, way, on, got>>
objects == <<initialized, polling, count, sock>>
teardown == <<refs, down>>
pool == <<next_size, free, n_bufs_allocated, rx_bufs_total, blocks>>
memory == <<heap, tx_header, tx>>
vars == <<threads, objects, teardown, pool, memory, limit, fails, fate>>

None == "none"
Kind == {"context", "pd", "tx_mr", "rx_mr", "channel", "cq", "qp"}
Origin == {"mmap", "malloc"}

\* What the verbs library requires to outlive an object of each kind.
Parents == [k \in Kind |->
    CASE k = "context" -> {}
      [] k \in {"pd", "channel"} -> {"context"}
      [] k \in {"tx_mr", "rx_mr"} -> {"pd"}
      [] k = "cq" -> {"channel"}
      [] k = "qp" -> {"pd", "cq"}]

\* Cluster::fill computes the bytes of the pool in 32 bits and cuts as many
\* chunks as those bytes hold, whatever number was asked for.
Filled == LET bytes == (BufSize * TxNum) % Word
          IN  (bytes + BufSize - 1) \div BufSize
TxChunk == 1 .. Filled
FreshChunk == [at |-> "free", offset |-> 0, written |-> 0]

\* The first block of the receive pool: twice the receive queue, or the limit.
FirstSize(l) == IF l > 0 /\ l < 2 * RecvLen THEN l ELSE 2 * RecvLen

Init ==
    /\ pc = [w \in Worker |-> "idle"]
    /\ way = [w \in Worker |-> None]
    /\ on = [w \in Worker |-> None]
    /\ got = [w \in Worker |-> 0]
    /\ initialized = FALSE
    /\ polling = FALSE
    /\ count = [k \in Kind |-> 0]
    /\ sock = [s \in Sock |-> None]
    /\ refs = Worker \cup {"stack"}
    /\ down = "no"
    /\ limit \in Limits
    /\ next_size = FirstSize(limit)
    /\ free = 0
    /\ n_bufs_allocated = 0
    /\ rx_bufs_total = -1
    /\ blocks = <<>>
    /\ heap = [o \in Origin |-> 0]
    /\ tx_header = None
    /\ tx = <<>>
    /\ fails = 0
    /\ fate = "running"

-----------------------------------------------------------------------------
\* A verbs call fails, within the bound.
Fail == fails < MaxFails /\ fails' = fails + 1

\* kassert and abort() end the process: nothing else changes.
End(how) ==
    /\ fate' = how
    /\ UNCHANGED <<threads, objects, teardown, pool, memory, limit>>

Create(c, k, n) == [c EXCEPT ![k] = @ + n]
Destroy(c, k, n) == [c EXCEPT ![k] = @ - n]

\* Mutant: the size is noted before the fallback.
Malloc_notes_early == IF Hugepage THEN {[from |-> "mmap", header |-> "mmap"],
                                        [from |-> "malloc", header |-> "mmap"]}
                                  ELSE {[from |-> "malloc", header |-> "malloc"]}

\* MemoryManager::malloc: huge pages fall back to the heap when mmap fails,
\* and the word in front of the memory tells free which of the two it was.
Malloc == IF Hugepage THEN {[from |-> "mmap", header |-> "mmap"],
                            [from |-> "malloc", header |-> "malloc"]}
                      ELSE {[from |-> "malloc", header |-> "malloc"]}

Allocated(h, from) == [h EXCEPT ![from] = @ + 1]

\* MemoryManager::free goes by the note: munmap or the heap's free.
Freed(h, header) == [h EXCEPT ![header] = @ - 1]

\* The thread's call returns, its locals are gone.
Return(w) ==
    /\ pc' = [pc EXCEPT ![w] = "idle"]
    /\ way' = [way EXCEPT ![w] = None]
    /\ on' = [on EXCEPT ![w] = None]
    /\ got' = [got EXCEPT ![w] = 0]

\* A worker's listen or connect, from the code that runs on its thread.
Call(w) ==
    /\ pc[w] = "idle" /\ "stack" \in refs
    /\ pc' = [pc EXCEPT ![w] = "init"]
    /\ UNCHANGED <<way, on, got, objects, teardown, pool, memory, limit, fails, fate>>

\* The queue length the buffers cannot cover is a misconfiguration.
Misconfigured == limit > 0 /\ RecvLen > limit

\* What init creates: the list of open devices, the domain, and the transmit
\* pool with its memory region.
DeviceList(c) == Create(c, "context", NumDevices)
ProtectionDomain(c) == Create(c, "pd", 1)
create_tx_pool(c) ==
    /\ \E m \in Malloc : heap' = Allocated(heap, m.from) /\ tx_header' = m.header
    /\ tx' = [i \in TxChunk |-> FreshChunk]
    /\ count' = Create(c, "tx_mr", 1)

\* A port that cannot be queried aborts the process, so does a device or
\* domain the library refuses; a number no active port has fails an assertion.
Port_fails == Fail /\ End("abort")
binding_port_fails == Fail /\ End("assert")

FirstInit(w) ==
    /\ create_tx_pool(ProtectionDomain(DeviceList(count)))
    /\ initialized' = TRUE
    /\ pc' = [pc EXCEPT ![w] = "polling"]
    /\ UNCHANGED <<way, on, got, polling, sock, teardown, pool, limit, fails, fate>>

\* Infiniband::init, under Infiniband::lock: only the first caller does it.
init(w) ==
    /\ pc[w] = "init"
    /\ \/ /\ initialized
          /\ pc' = [pc EXCEPT ![w] = "polling"]
          /\ UNCHANGED <<way, on, got, objects, teardown, pool, memory, limit, fails, fate>>
       \/ ~initialized /\ ~Misconfigured /\ FirstInit(w)
       \/ ~initialized /\ Misconfigured /\ End("abort") /\ UNCHANGED fails
       \/ ~initialized /\ (Port_fails \/ binding_port_fails)

\* The two completion channels and the two queues on them.
CompletionChannels(c) == Create(c, "channel", 2)
CompletionQueues(c) == Create(c, "cq", 2)

\* MemPoolContext::set_stat_logger publishes what is allocated so far.
set_stat_logger == rx_bufs_total' = n_bufs_allocated

\* RDMADispatcher::polling_start, under the dispatcher's lock, then either the
\* end of listen or the construction of the socket connect needs.
polling_start(w) ==
    /\ pc[w] = "polling"
    /\ \/ /\ \/ polling /\ UNCHANGED <<polling, count, rx_bufs_total>>
             \/ /\ ~polling
                /\ polling' = TRUE
                /\ count' = CompletionQueues(CompletionChannels(count))
                /\ set_stat_logger
          /\ \/ pc' = [pc EXCEPT ![w] = "idle"] /\ UNCHANGED way
             \/ /\ pc' = [pc EXCEPT ![w] = "create"]
                /\ way' = [way EXCEPT ![w] = "connect"]
          /\ UNCHANGED <<on, got, initialized, sock, teardown, next_size, free,
                         n_bufs_allocated, blocks, memory, limit, fails, fate>>
       \/ ~polling /\ Fail /\ End("assert")

\* A listening socket accepts a connection: it is set up already.
accept(w) ==
    /\ pc[w] = "idle" /\ polling /\ "stack" \in refs
    /\ pc' = [pc EXCEPT ![w] = "create"]
    /\ way' = [way EXCEPT ![w] = "accept"]
    /\ UNCHANGED <<on, got, objects, teardown, pool, memory, limit, fails, fate>>

\* create_queue_pair deletes the QueuePair whose init fails.  Without a queue
\* pair of the library the destructor reads qp->qp_num through NULL; one that
\* modify_qp_to_init refused is destroyed there and again in the destructor.
create_qp_fails == Fail /\ End("null")
modify_qp_to_init_fails == Fail /\ End("double")

\* QueuePair::init up to the receive buffers.
QueuePair_init(w) ==
    /\ pc[w] = "create"
    /\ \/ \E s \in Sock :
             /\ sock[s] = None
             /\ sock' = [sock EXCEPT ![s] = "making"]
             /\ on' = [on EXCEPT ![w] = s]
             /\ pc' = [pc EXCEPT ![w] = "post"]
             /\ count' = Create(count, "qp", 1)
             /\ UNCHANGED <<way, got, initialized, polling, teardown, pool, memory, limit, fails, fate>>
       \/ create_qp_fails \/ modify_qp_to_init_fails
       \/ /\ \A s \in Sock : sock[s] # None          \* bound reached
          /\ Return(w)
          /\ UNCHANGED <<objects, teardown, pool, memory, limit, fails, fate>>

-----------------------------------------------------------------------------
\* The receive pool.  MemPoolContext::can_alloc compares buffers with a limit.
can_alloc(n) == limit <= 0 \/ n_bufs_allocated + n <= limit

\* MemPoolContext::update_stats.
update_stats(n) ==
    /\ n_bufs_allocated' = n_bufs_allocated + n
    /\ rx_bufs_total' = IF rx_bufs_total = -1 THEN -1 ELSE rx_bufs_total + n

\* Mutant: the memory of a block that could not be registered is kept.
Unregistered_keeps(h) == {Allocated(h, m.from) : m \in Malloc}

\* PoolAllocator::malloc when the registration fails gives the memory back;
\* when the allocation fails there was none.
Unregistered(h) == {Freed(Allocated(h, m.from), m.header) : m \in Malloc}

\* Failing calls it takes to refuse a block of n buffers, and the heap after.
Refusal(n) == IF can_alloc(n) THEN 1 ELSE 0
Refused(h, n) == IF can_alloc(n) THEN Unregistered(h) ELSE {h}
Costs(k) == fails + k <= MaxFails /\ fails' = fails + k

\* PoolAllocator::malloc succeeds for a block of n buffers: one of them is
\* handed out at once, the rest goes to the free list (boost::pool).
Expand(h, n) ==
    /\ can_alloc(n)
    /\ \E m \in Malloc :
          /\ heap' = Allocated(h, m.from)
          /\ blocks' = Append(blocks, [nbufs |-> n, header |-> m.header])
    /\ update_stats(n)
    /\ count' = Create(count, "rx_mr", 1)
    /\ free' = n - 1
    /\ next_size' = 2 * n

\* boost::pool tries next_size and, above RetryAbove, once more half of it.
Half == next_size \div 2
Retries == next_size > RetryAbove

Grows ==
    \/ Costs(0) /\ Expand(heap, next_size)
    \/ /\ Retries /\ Costs(Refusal(next_size))
       /\ \E h \in Refused(heap, next_size) : Expand(h, Half)

Stays ==
    /\ Costs(Refusal(next_size) + IF Retries THEN Refusal(Half) ELSE 0)
    /\ \E h \in Refused(heap, next_size) :
          heap' \in IF Retries THEN Refused(h, Half) ELSE {h}
    /\ next_size' = IF Retries THEN Half ELSE next_size
    /\ UNCHANGED <<free, n_bufs_allocated, rx_bufs_total, blocks>>

Took(w) == got' = [got EXCEPT ![w] = @ + 1] /\ UNCHANGED <<pc, way, on>>

\* One round of post_chunks_to_rq for a new queue pair: a buffer from the free
\* list, from a new block, or none.  None in the first round makes
\* create_queue_pair delete the queue pair and return NULL; none later fails
\* the assertion that all buffers were found.
get_rx_buffer(w) ==
    /\ pc[w] = "post" /\ got[w] < RecvLen
    /\ \/ /\ free > 0
          /\ free' = free - 1
          /\ Took(w)
          /\ UNCHANGED <<sock, count, next_size, n_bufs_allocated, rx_bufs_total,
                         blocks, heap, fails, fate>>
       \/ /\ free = 0 /\ Grows
          /\ Took(w)
          /\ UNCHANGED <<sock, fate>>
       \/ /\ free = 0 /\ got[w] = 0 /\ Stays
          /\ count' = Destroy(count, "qp", 1)
          /\ sock' = [sock EXCEPT ![on[w]] = IF way[w] = "accept" THEN "leaked" ELSE "no_qp"]
          /\ Return(w)
          /\ UNCHANGED fate
       \/ /\ free = 0 /\ got[w] > 0 /\ Stays
          /\ fate' = "assert"
          /\ UNCHANGED <<threads, sock, count>>
    /\ UNCHANGED <<initialized, polling, teardown, tx_header, tx, limit>>

\* The buffers are posted and the socket registers its queue pair.
register_qp(w) ==
    /\ pc[w] = "post" /\ got[w] = RecvLen
    /\ sock' = [sock EXCEPT ![on[w]] = "live"]
    /\ Return(w)
    /\ UNCHANGED <<initialized, polling, count, teardown, pool, memory, limit, fails, fate>>

\* A socket that connect left without a queue pair: established, it sends
\* its handshake through NULL; refused, it is deleted.
NoQueuePair(s) ==
    /\ sock[s] = "no_qp"
    /\ \/ End("null")
       \/ /\ sock' = [sock EXCEPT ![s] = "gone"]
          /\ UNCHANGED <<threads, initialized, polling, count, teardown, pool, memory, limit, fate>>
    /\ UNCHANGED fails

\* The owner deletes the socket, which hands its queue pair to the dispatcher;
\* the polling thread deletes the queue pair and its buffers return.
Close(s) ==
    /\ sock[s] = "live"
    /\ sock' = [sock EXCEPT ![s] = "dead"]
    /\ UNCHANGED <<threads, initialized, polling, count, teardown, pool, memory, limit, fails, fate>>

Reap(s) ==
    /\ sock[s] = "dead"
    /\ sock' = [sock EXCEPT ![s] = "gone"]
    /\ count' = Destroy(count, "qp", 1)
    /\ free' = free + RecvLen
    /\ UNCHANGED <<threads, initialized, polling, teardown, next_size, n_bufs_allocated,
                   rx_bufs_total, blocks, memory, limit, fails, fate>>

-----------------------------------------------------------------------------
(***************************************************************************)
(* The transmit pool.  A chunk goes round: taken by the application,       *)
(* written, posted, and given back by the polling thread (post_tx_buffer). *)
(***************************************************************************)
Sending == \E s \in Sock : sock[s] = "live"
FreeChunks == {c \in DOMAIN tx : tx[c].at = "free"}

\* Cluster::get_chunks and get_buffers: all of them or the process aborts.
get_chunks(n) ==
    /\ Sending
    /\ \/ /\ n <= Cardinality(FreeChunks)
          /\ \E taken \in SUBSET FreeChunks :
                /\ Cardinality(taken) = n
                /\ tx' = [c \in DOMAIN tx |-> IF c \in taken
                             THEN [tx[c] EXCEPT !.at = "held", !.written = 0] ELSE tx[c]]
          /\ UNCHANGED <<threads, objects, teardown, pool, heap, tx_header, limit, fate>>
       \/ n > Cardinality(FreeChunks) /\ End("abort")
    /\ UNCHANGED fails

\* get_buffers rounds the bytes up to whole chunks.
ChunksFor(bytes) == (bytes + BufSize - 1) \div BufSize

\* Chunk::write and zero_fill: no more than the room left.
Least(a, b) == IF a <= b THEN a ELSE b
write(c, len) ==
    /\ tx[c].at = "held" /\ tx[c].offset < BufSize
    /\ LET write_len == Least(BufSize - tx[c].offset, len)
       IN  tx' = [tx EXCEPT ![c].offset = @ + write_len, ![c].written = @ + write_len]
    /\ UNCHANGED <<threads, objects, teardown, pool, heap, tx_header, limit, fails, fate>>

\* The chunk is posted: its offset is the length of the work request.
PostChunk(c) ==
    /\ tx[c].at = "held" /\ tx[c].offset > 0 /\ Sending
    /\ tx' = [tx EXCEPT ![c].at = "posted"]
    /\ UNCHANGED <<threads, objects, teardown, pool, heap, tx_header, limit, fails, fate>>

\* Mutant: reset_write_chunk is forgotten.
take_back_dirty(c) ==
    /\ tx[c].at = "posted" /\ count["qp"] > 0
    /\ tx' = [tx EXCEPT ![c].at = "free"]
    /\ UNCHANGED <<threads, objects, teardown, pool, heap, tx_header, limit, fails, fate>>

\* Its completion: Cluster::take_back resets the chunk.
take_back(c) ==
    /\ tx[c].at = "posted" /\ count["qp"] > 0
    /\ tx' = [tx EXCEPT ![c].at = "free", ![c].offset = 0]
    /\ UNCHANGED <<threads, objects, teardown, pool, heap, tx_header, limit, fails, fate>>

-----------------------------------------------------------------------------
(***************************************************************************)
(* The end.  The owner of the stack has deleted its sockets and stopped    *)
(* the worker threads; ~RDMAStack drops its pointers, ~NetworkStack        *)
(* deletes the workers, and the last of them ends dispatcher and device.   *)
(* A listening socket is deleted with the other sockets; one that accept   *)
(* left behind without a queue pair holds both pointers for ever.          *)
(***************************************************************************)
DropStack ==
    /\ "stack" \in refs
    /\ \A w \in Worker : pc[w] = "idle"
    /\ \A s \in Sock : sock[s] \in {None, "dead", "gone", "leaked"}
    /\ refs' = refs \ {"stack"}
    /\ UNCHANGED <<threads, objects, down, pool, memory, limit, fails, fate>>

Leaked == \E s \in Sock : sock[s] = "leaked"

DropWorker(w) ==
    /\ "stack" \notin refs /\ w \in refs
    /\ refs' = refs \ {w}
    /\ down' = IF refs' = {} /\ ~Leaked THEN "join" ELSE down
    /\ UNCHANGED <<threads, objects, pool, memory, limit, fails, fate>>

\* The step from one stage of the destructors to the next.
Stage(from, to, c) ==
    /\ down = from
    /\ down' = to
    /\ count' = c
    /\ UNCHANGED <<threads, initialized, sock, refs, limit, fails, fate>>

\* polling_stop: the thread ends once no queue pair is left.
polling_stop ==
    /\ polling => count["qp"] = 0
    /\ Stage("join", IF polling THEN "cq" ELSE "memory", count)
    /\ polling' = FALSE
    /\ UNCHANGED <<pool, memory>>

\* Mutant: the channels go before the queues that use them.
DeleteQueues_channels_first ==
    /\ Stage("cq", "channel", Destroy(count, "channel", 2))
    /\ UNCHANGED <<polling, pool, memory>>

DeleteQueues ==
    /\ Stage("cq", "channel", Destroy(count, "cq", 2))
    /\ UNCHANGED <<polling, pool, memory>>

DeleteChannels ==
    /\ Stage("channel", "memory", Destroy(count, "channel", 2))
    /\ UNCHANGED <<polling, pool, memory>>

\* The buffers of the registered blocks
Buffers == SumFunction([i \in DOMAIN blocks |-> blocks[i].nbufs])

\* ~MemoryManager: the transmit pool, then every block of the receive pool
\* (PoolAllocator::free).
FreeBlocks(h) ==
    [k \in DOMAIN h |-> h[k] - Cardinality({i \in DOMAIN blocks : blocks[i].header = k})]

DeleteMemory ==
    /\ initialized
    /\ Stage("memory", "pd", Destroy(Destroy(count, "tx_mr", 1), "rx_mr", Len(blocks)))
    /\ heap' = FreeBlocks(Freed(heap, tx_header))
    /\ tx' = <<>>
    /\ tx_header' = None
    /\ blocks' = <<>>
    /\ free' = 0
    /\ update_stats(-Buffers)
    /\ UNCHANGED <<polling, next_size>>

\* ~ProtectionDomain, then ~DeviceList: ~Device closes the device only when
\* a port was bound to it.
DeleteDomain ==
    /\ Stage("pd", "context", Destroy(count, "pd", 1))
    /\ UNCHANGED <<polling, pool, memory>>

DeleteDevices ==
    /\ Stage("context", "end", Destroy(count, "context", 1))
    /\ UNCHANGED <<polling, pool, memory>>

\* ~Infiniband of a process that never listened or connected.
NothingToDelete ==
    /\ ~initialized
    /\ Stage("memory", "end", count)
    /\ UNCHANGED <<polling, pool, memory>>

Destroying ==
    \/ polling_stop \/ DeleteQueues \/ DeleteChannels
    \/ DeleteMemory \/ DeleteDomain \/ DeleteDevices \/ NothingToDelete

\* Over: the process ended, or nobody is left to release anything.
Ended ==
    /\ fate # "running" \/ down = "end" \/ (refs = {} /\ Leaked)
    /\ UNCHANGED vars

Thread(w) ==
    \/ Call(w) \/ init(w) \/ polling_start(w) \/ accept(w)
    \/ QueuePair_init(w) \/ get_rx_buffer(w) \/ register_qp(w)

Chunks ==
    \/ \E n \in 1 .. Filled + 1 : get_chunks(n)
    \/ \E bytes \in 1 .. BufSize + 1 : get_chunks(ChunksFor(bytes))
    \/ \E c \in DOMAIN tx : \/ \E len \in 1 .. BufSize : write(c, len)
                          \/ PostChunk(c) \/ take_back(c)

Next ==
    \/ /\ fate = "running"
       /\ \/ \E w \in Worker : Thread(w) \/ DropWorker(w)
          \/ \E s \in Sock : NoQueuePair(s) \/ Close(s) \/ Reap(s)
          \/ Chunks \/ DropStack \/ Destroying
    \/ Ended

Spec == Init /\ [][Next]_vars

\* The destructors run to their end, and the polling thread keeps polling.
FairSpec ==
    /\ Spec
    /\ WF_vars(fate = "running" /\ Destroying)
    /\ \A w \in Worker : WF_vars(fate = "running" /\ DropWorker(w))
    /\ \A s \in Sock : WF_vars(fate = "running" /\ Reap(s))

-----------------------------------------------------------------------------
InUse == RecvLen * Cardinality({s \in Sock : sock[s] \in {"live", "dead"}})
Posting == SumFunctionOnSet(got, {w \in Worker : pc[w] = "post"})

\* Nothing is released under an object that still needs it, whichever thread
\* brings the destructors about, and workers that initialise at the same
\* time share one device, one domain, one pool and one pair of queues.
ObjectsSound ==
    /\ \A k \in Kind : count[k] > 0 => \A p \in Parents[k] : count[p] > 0
    /\ count["context"] <= NumDevices /\ count["pd"] <= 1 /\ count["tx_mr"] <= 1
    /\ count["channel"] <= 2 /\ count["cq"] <= 2

\* The receive pool loses no buffer and never outgrows its limit: what the
\* pool has allocated is on its free list, in the queue of a queue pair or in
\* the hands of a thread filling one; counter and statistics agree with the
\* registered blocks, and the memory held is theirs and the transmit pool's.
PoolAccounted ==
    fate = "running" =>
        /\ n_bufs_allocated = free + InUse + Posting
        /\ n_bufs_allocated = Buffers
        /\ limit > 0 => n_bufs_allocated <= limit
        /\ rx_bufs_total \in {-1, n_bufs_allocated}
        /\ heap["mmap"] + heap["malloc"] = Len(blocks) + count["tx_mr"]

\* A work request carries what its sender wrote into the chunk since taking
\* it, and nothing that an earlier send left there.
SendsWhatWasWritten ==
    \A c \in DOMAIN tx : tx[c].at \in {"held", "posted"} => tx[c].offset = tx[c].written

\* Once the stack is dropped everything is released, memory by the call that
\* matches its allocation, except the devices no port was bound to.
Released ==
    /\ down = "end"
    /\ \A k \in Kind \ {"context"} : count[k] = 0
    /\ count["context"] = IF initialized THEN NumDevices - 1 ELSE 0
    /\ \A o \in Origin : heap[o] = 0
AllReleased == ("stack" \notin refs /\ ~Leaked) ~> Released

-----------------------------------------------------------------------------
\* Refuted: "QueuePair on success or NULL if init fails" (Infiniband.cc:1091).
CreateReturns == fate \notin {"null", "double"}

\* Refuted: a queue pair the limit leaves no room for is refused; two threads
\* that share the last buffers both fail the assertion instead.
ShortageIsRefused == fails = 0 => fate # "assert"
=============================================================================
