----------------------------- MODULE VerbsProofs -----------------------------
(***************************************************************************)
(* The verbs objects are created once and released in the order the        *)
(* library requires, and a send carries what was written for it, for any   *)
(* workers, sockets, sizes and failing calls.                              *)
(*                                                                         *)
(* The inductive invariant says how many objects of each kind there are at *)
(* each stage of the destructors, and which stage a thread's place in      *)
(* init, polling_start or create_queue_pair excludes.                      *)
(***************************************************************************)
EXTENDS Verbs, SequenceTheorems, FiniteSetTheorems, TLAPS

Place == {"idle", "init", "polling", "create", "post"}
SockState == {None, "making", "live", "dead", "gone", "no_qp", "leaked"}
StageName == {"no", "join", "cq", "channel", "memory", "pd", "context", "end"}
Block == [nbufs : Nat, header : Origin]

Types ==
    /\ pc \in [Worker -> Place]
    /\ on \in [Worker -> Sock \cup {None}]
    /\ initialized \in BOOLEAN /\ polling \in BOOLEAN
    /\ count \in [Kind -> Int]
    /\ sock \in [Sock -> SockState]
    /\ refs \subseteq Worker \cup {"stack"}
    /\ down \in StageName
    /\ limit \in Nat /\ next_size \in Nat
    /\ blocks \in Seq(Block)

\* The sockets that own a queue pair, or have handed it over to be deleted
WithQp == {s \in Sock : sock[s] \in {"making", "live", "dead"}}

\* What the place of a thread says: init and polling_start have been, and
\* each thread constructs a socket of its own.
Places ==
    /\ \A w \in Worker :
          /\ pc[w] # "idle" => "stack" \in refs
          /\ pc[w] \in {"polling", "create", "post"} => initialized
          /\ pc[w] \in {"create", "post"} => polling
          /\ pc[w] = "post" => on[w] \in Sock /\ sock[on[w]] = "making"
    /\ \A v, w \in Worker : pc[v] = "post" /\ pc[w] = "post" /\ on[v] = on[w] => v = w

\* What is left to do at a stage of the destructors
Stages ==
    /\ "stack" \in refs => down = "no"
    /\ down # "no" => refs = {}
    /\ polling => initialized /\ down \in {"no", "join"}
    /\ WithQp # {} => polling
    /\ down \in {"cq", "channel", "pd", "context"} => initialized
    /\ blocks # <<>> => initialized /\ down \notin {"pd", "context", "end"}

\* The live objects of each kind
Counted ==
    /\ count["context"] = IF ~initialized THEN 0 ELSE IF down = "end" THEN NumDevices - 1 ELSE NumDevices
    /\ count["pd"] = IF initialized /\ down \notin {"context", "end"} THEN 1 ELSE 0
    /\ count["tx_mr"] = IF initialized /\ down \notin {"pd", "context", "end"} THEN 1 ELSE 0
    /\ count["rx_mr"] = Len(blocks)
    /\ count["channel"] = IF polling \/ down \in {"cq", "channel"} THEN 2 ELSE 0
    /\ count["cq"] = IF polling \/ down = "cq" THEN 2 ELSE 0
    /\ count["qp"] = Cardinality(WithQp)

\* A chunk of the transmit pool: free and clean, or with what its holder wrote
TxRecord == [at : {"free", "held", "posted"}, offset : Nat, written : Nat]
TxSound ==
    /\ tx \in [DOMAIN tx -> TxRecord]
    /\ \A c \in DOMAIN tx : tx[c].offset = IF tx[c].at = "free" THEN 0 ELSE tx[c].written

IInv == Types /\ Places /\ Stages /\ Counted /\ TxSound

-----------------------------------------------------------------------------
(* Sets of sockets, and what steps leave alone *)

\* Every set of sockets can be counted.
LEMMA SockCount ==
    ASSUME NEW S \in SUBSET Sock
    PROVE  /\ IsFiniteSet(S) /\ Cardinality(S) \in Nat /\ (Cardinality(S) = 0 <=> S = {})
           /\ \A s \in Sock \ S : Cardinality(S \cup {s}) = Cardinality(S) + 1
           /\ \A s \in S : Cardinality(S \ {s}) = Cardinality(S) - 1
    <1>1. IsFiniteSet(S)
        BY VerbsAssumption, FS_Subset, Zenon
    <1>2. Cardinality(S) \in Nat /\ (Cardinality(S) = 0 <=> S = {})
        BY <1>1, FS_CardinalityType, FS_EmptySet, Zenon
    <1>3. \A s \in Sock \ S : Cardinality(S \cup {s}) = Cardinality(S) + 1
        BY <1>1, FS_AddElement, Zenon
    <1>4. \A s \in S : Cardinality(S \ {s}) = Cardinality(S) - 1
        BY <1>1, FS_RemoveElement, Zenon
    <1> QED
        BY <1>1, <1>2, <1>3, <1>4, SMTT(60)

\* The receive pool has grown or not, nothing else of the objects has changed.
LEMMA SameObjects ==
    ASSUME Stages, Counted, UNCHANGED <<initialized, polling, count, sock, refs, down, blocks>>
    PROVE  Stages' /\ Counted'
    BY Zenon DEF Stages, Counted, WithQp

\* The chunks are left alone.
LEMMA SameChunks ==
    ASSUME TxSound, tx' = tx
    PROVE  TxSound'
    BY Zenon DEF TxSound

\* Nothing is: the process has ended.
LEMMA EndStep ==
    ASSUME IInv, NEW how, End(how)
    PROVE  IInv'
    <1>1. UNCHANGED <<pc, on, initialized, polling, count, sock, refs, down, limit, next_size, blocks, tx>>
        BY Zenon DEF End, threads, objects, teardown, pool, memory
    <1>2. Types' /\ Places'
        BY <1>1, Zenon DEF IInv, Types, Places
    <1> QED
        BY <1>1, <1>2, SameObjects, SameChunks, Zenon DEF IInv

-----------------------------------------------------------------------------
(* The worker threads *)

\* A step that moves one thread and touches no object
LEMMA MoveStep ==
    ASSUME IInv, NEW w \in Worker, NEW p \in Place \ {"post"}, pc' = [pc EXCEPT ![w] = p],
           p # "idle" => "stack" \in refs,
           p \in {"polling", "create"} => initialized,
           p = "create" => polling,
           on' = on \/ on' = [on EXCEPT ![w] = None],
           UNCHANGED <<initialized, polling, count, sock, refs, down, limit, next_size, blocks, tx>>
    PROVE  IInv'
    <1>1. Types'
        BY Zenon DEF IInv, Types
    <1>2. \A v \in Worker : pc'[v] # "idle" => "stack" \in refs'
        BY Zenon DEF IInv, Types, Places
    <1>3. \A v \in Worker : /\ pc'[v] \in {"polling", "create", "post"} => initialized'
                            /\ pc'[v] \in {"create", "post"} => polling'
        BY Zenon DEF IInv, Types, Places
    <1>4. \A v \in Worker : pc'[v] = "post" => pc[v] = "post" /\ on'[v] = on[v]
        BY Zenon DEF IInv, Types
    <1>5. Places'
        <2>1. \A v \in Worker : pc'[v] = "post" => on'[v] \in Sock /\ sock'[on'[v]] = "making"
            BY <1>4, Zenon DEF IInv, Places
        <2>2. \A u, v \in Worker : pc'[u] = "post" /\ pc'[v] = "post" /\ on'[u] = on'[v] => u = v
            BY <1>4 DEF IInv, Places
        <2> QED
            BY <1>2, <1>3, <2>1, <2>2, Zenon DEF Places
    <1> QED
        BY <1>1, <1>5, SameObjects, SameChunks, Zenon DEF IInv

LEMMA CallStep ==
    ASSUME IInv, NEW w \in Worker, Call(w) \/ accept(w)
    PROVE  IInv'
    <1>1. /\ "stack" \in refs
          /\ UNCHANGED <<on, initialized, polling, count, sock, refs, down, limit, next_size, blocks, tx>>
        BY Zenon DEF Call, accept, objects, teardown, pool, memory
    <1>2. CASE Call(w)
        <2>1. pc' = [pc EXCEPT ![w] = "init"] /\ "init" \in Place \ {"post"}
            BY <1>2, Zenon DEF Call, Place
        <2> QED
            BY <1>1, <2>1, MoveStep, Zenon
    <1>3. CASE accept(w)
        <2>1. /\ pc' = [pc EXCEPT ![w] = "create"] /\ "create" \in Place \ {"post"}
              /\ polling /\ initialized
            BY <1>3, Zenon DEF accept, Place, IInv, Stages
        <2> QED
            BY <1>1, <2>1, MoveStep, Zenon
    <1> QED
        BY <1>2, <1>3, Zenon

\* Infiniband::init: the first caller creates devices, domain and transmit pool.
LEMMA FirstInitStep ==
    ASSUME IInv, NEW w \in Worker, pc[w] = "init", ~initialized, FirstInit(w)
    PROVE  IInv'
    <1>1. /\ initialized' = TRUE /\ pc' = [pc EXCEPT ![w] = "polling"]
          /\ count' = Create(Create(Create(count, "context", NumDevices), "pd", 1), "tx_mr", 1)
          /\ tx' = [i \in TxChunk |-> FreshChunk]
          /\ UNCHANGED <<on, polling, sock, refs, down, limit, next_size, blocks>>
        BY Zenon DEF FirstInit, create_tx_pool, ProtectionDomain, DeviceList, teardown, pool
    <1>2. "stack" \in refs /\ down = "no" /\ ~polling /\ WithQp = {} /\ blocks = <<>>
        BY Zenon DEF IInv, Places, Stages
    <1>3. /\ count' \in [Kind -> Int]
          /\ count'["context"] = NumDevices /\ count'["pd"] = 1 /\ count'["tx_mr"] = 1
          /\ \A k \in {"rx_mr", "channel", "cq", "qp"} : count'[k] = count[k]
        <2>1. /\ count \in [Kind -> Int] /\ NumDevices \in Int
              /\ count["context"] = 0 /\ count["pd"] = 0 /\ count["tx_mr"] = 0
            BY VerbsAssumption DEF IInv, Types, Counted
        <2> DEFINE one == [count EXCEPT !["context"] = count["context"] + NumDevices]
                   two == [one EXCEPT !["pd"] = one["pd"] + 1]
        <2>2. /\ one \in [Kind -> Int] /\ one["context"] = NumDevices
              /\ \A k \in Kind \ {"context"} : one[k] = count[k]
            BY <2>1 DEF Kind
        <2> HIDE DEF one
        <2>3. /\ two \in [Kind -> Int] /\ two["pd"] = one["pd"] + 1
              /\ \A k \in Kind \ {"pd"} : two[k] = one[k]
            BY <2>2 DEF Kind
        <2>4. count' = [two EXCEPT !["tx_mr"] = two["tx_mr"] + 1]
            BY <1>1, Zenon DEF Create, one
        <2> HIDE DEF two
        <2> QED
            BY <2>1, <2>2, <2>3, <2>4, SMTT(60) DEF Kind
    <1>4. Types'
        BY <1>1, <1>3, Zenon DEF IInv, Types, Place
    <1>5. Places'
        <2>1. \A v \in Worker : /\ pc'[v] # "idle" => pc[v] # "idle"
                                /\ pc'[v] \in {"create", "post"} => pc'[v] = pc[v]
            BY <1>1, Zenon DEF IInv, Types
        <2> QED
            BY <1>1, <2>1, Zenon DEF IInv, Places
    <1>6. Stages'
        BY <1>1, <1>2, Zenon DEF IInv, Stages, WithQp
    <1>7. Counted'
        BY <1>1, <1>2, <1>3, Zenon DEF IInv, Counted, WithQp
    <1>8. TxSound'
        BY <1>1, Zenon DEF TxSound, TxRecord, FreshChunk
    <1> QED
        BY <1>4, <1>5, <1>6, <1>7, <1>8, Zenon DEF IInv

LEMMA InitStep ==
    ASSUME IInv, NEW w \in Worker, init(w)
    PROVE  IInv'
    <1>1. CASE initialized /\ pc' = [pc EXCEPT ![w] = "polling"]
               /\ UNCHANGED <<way, on, got, objects, teardown, pool, memory, limit, fails, fate>>
        <2>1. "stack" \in refs
            BY Zenon DEF init, IInv, Places
        <2>2. "polling" \in Place \ {"post"}
            BY Zenon DEF Place
        <2>3. UNCHANGED <<on, initialized, polling, count, sock, refs, down, limit, next_size, blocks, tx>>
            BY <1>1, Zenon DEF objects, teardown, pool, memory
        <2> QED
            BY <1>1, <2>1, <2>2, <2>3, MoveStep, Zenon
    <1> QED
        BY <1>1, FirstInitStep, EndStep, Zenon DEF init, Port_fails, binding_port_fails

\* RDMADispatcher::polling_start: the first caller creates channels and queues.
LEMMA PollingStartStep ==
    ASSUME IInv, NEW w \in Worker, polling_start(w)
    PROVE  IInv'
    <1>1. CASE ~polling /\ Fail /\ End("assert")
        BY <1>1, EndStep, Zenon
    <1>2. CASE ~(~polling /\ Fail /\ End("assert"))
        <2>1. PICK p \in {"idle", "create"} : pc' = [pc EXCEPT ![w] = p]
            BY <1>2, Zenon DEF polling_start
        <2>2. UNCHANGED <<on, initialized, sock, refs, down, limit, next_size, blocks, tx>>
            BY <1>2, Zenon DEF polling_start, teardown, memory
        <2>3. pc[w] = "polling" /\ initialized /\ "stack" \in refs /\ down = "no"
            BY Zenon DEF polling_start, IInv, Places, Stages
        <2>4. CASE polling /\ UNCHANGED <<polling, count>>
            <3>1. p \in Place \ {"post"}
                BY Zenon DEF Place
            <3> QED
                BY <2>1, <2>2, <2>3, <2>4, <3>1, MoveStep, Zenon
        <2>5. CASE ~polling /\ polling' = TRUE
                   /\ count' = CompletionQueues(CompletionChannels(count))
            <3>1. WithQp = {} /\ count["channel"] = 0 /\ count["cq"] = 0
                BY <2>3, <2>5, Zenon DEF IInv, Stages, Counted
            <3>2. /\ count' \in [Kind -> Int] /\ count'["channel"] = 2 /\ count'["cq"] = 2
                  /\ \A k \in {"context", "pd", "tx_mr", "rx_mr", "qp"} : count'[k] = count[k]
                BY <2>5, <3>1 DEF CompletionQueues, CompletionChannels, Create, IInv, Types, Kind
            <3>3. Types'
                BY <2>1, <2>2, <2>5, <3>2, Zenon DEF IInv, Types, Place
            <3>4. Places'
                <4>1. \A v \in Worker : /\ pc'[v] # "idle" => pc[v] # "idle"
                                        /\ pc'[v] = "post" => pc[v] = "post"
                    BY <2>1, <2>3, Zenon DEF IInv, Types
                <4> QED
                    BY <2>2, <2>3, <2>5, <4>1, Zenon DEF IInv, Places
            <3>5. Stages'
                BY <2>2, <2>3, <2>5, Zenon DEF IInv, Stages, WithQp
            <3>6. Counted'
                BY <2>2, <2>3, <2>5, <3>2, Zenon DEF IInv, Counted, WithQp
            <3> QED
                BY <2>2, <3>3, <3>4, <3>5, <3>6, SameChunks, SMTT(60) DEF IInv
        <2> QED
            BY <1>2, <2>4, <2>5, Zenon DEF polling_start
    <1> QED
        BY <1>1, <1>2, Zenon

\* Return: the thread's locals are gone.
LEMMA Returned ==
    ASSUME IInv, NEW w \in Worker, Return(w)
    PROVE  /\ pc' \in [Worker -> Place] /\ on' \in [Worker -> Sock \cup {None}]
           /\ pc'[w] = "idle" /\ \A v \in Worker \ {w} : pc'[v] = pc[v] /\ on'[v] = on[v]
    BY Zenon DEF Return, IInv, Types, Place

LEMMA QueuePairInitStep ==
    ASSUME IInv, NEW w \in Worker, QueuePair_init(w)
    PROVE  IInv'
    <1>1. ASSUME NEW s \in Sock, sock[s] = None, sock' = [sock EXCEPT ![s] = "making"],
                 on' = [on EXCEPT ![w] = s], pc' = [pc EXCEPT ![w] = "post"],
                 count' = Create(count, "qp", 1),
                 UNCHANGED <<way, got, initialized, polling, teardown, pool, memory, limit, fails, fate>>
          PROVE  IInv'
        <2>1. UNCHANGED <<initialized, polling, refs, down, limit, next_size, blocks, tx>>
            BY <1>1, Zenon DEF teardown, pool, memory
        <2>2. "stack" \in refs /\ initialized /\ polling /\ pc[w] = "create"
            BY Zenon DEF QueuePair_init, IInv, Places
        <2>3. s \notin WithQp /\ WithQp' = WithQp \cup {s} /\ WithQp \in SUBSET Sock
            BY <1>1, Zenon DEF WithQp, IInv, Types, None
        <2>4. /\ count' \in [Kind -> Int] /\ count'["qp"] = count["qp"] + 1
              /\ \A k \in Kind \ {"qp"} : count'[k] = count[k]
            BY <1>1 DEF Create, IInv, Types, Kind
        <2>5. Types'
            BY <1>1, <2>1, <2>4, ZenonT(90) DEF IInv, Types, Place, SockState
        <2>6. Places'
            <3>1. /\ pc'[w] = "post" /\ on'[w] = s /\ sock'[s] = "making"
                  /\ \A v \in Worker \ {w} : pc'[v] = pc[v] /\ on'[v] = on[v]
                  /\ \A t \in Sock \ {s} : sock'[t] = sock[t]
                BY <1>1, Zenon DEF IInv, Types
            <3>2. \A v \in Worker : pc[v] = "post" => on[v] # s
                BY <1>1, Zenon DEF IInv, Places, None
            <3> QED
                BY <2>1, <2>2, <3>1, <3>2, SMTT(60) DEF IInv, Places
        <2>7. Stages'
            BY <2>1, <2>2, Zenon DEF IInv, Stages
        <2>8. Counted'
            <3>1. count'["qp"] = Cardinality(WithQp')
                BY <2>3, <2>4, SockCount, SMTT(60) DEF IInv, Counted
            <3> QED
                BY <2>1, <2>4, <3>1, SMTT(60) DEF IInv, Counted, Kind
        <2> QED
            BY <2>1, <2>5, <2>6, <2>7, <2>8, SameChunks, SMTT(60) DEF IInv
    <1>2. ASSUME Return(w), UNCHANGED <<objects, teardown, pool, memory, limit, fails, fate>>
          PROVE  IInv'
        <2>1. UNCHANGED <<initialized, polling, count, sock, refs, down, limit, next_size, blocks, tx>>
            BY <1>2, Zenon DEF objects, teardown, pool, memory
        <2>2. pc' = [pc EXCEPT ![w] = "idle"] /\ on' = [on EXCEPT ![w] = None] /\ "idle" \in Place \ {"post"}
            BY <1>2, Zenon DEF Return, Place
        <2> QED
            BY <2>1, <2>2, MoveStep, Zenon
    <1> QED
        BY <1>1, <1>2, EndStep, Zenon DEF QueuePair_init, create_qp_fails, modify_qp_to_init_fails

\* A thread that is filling a queue pair: the objects it needs are there.
LEMMA Posting_w ==
    ASSUME IInv, NEW w \in Worker, pc[w] = "post"
    PROVE  /\ "stack" \in refs /\ initialized /\ polling /\ down = "no"
           /\ on[w] \in Sock /\ sock[on[w]] = "making" /\ on[w] \in WithQp
    BY Zenon DEF IInv, Places, Stages, WithQp

\* The socket a thread has constructed moves on, with or without its queue pair.
LEMMA SocketStep ==
    ASSUME IInv, NEW w \in Worker, pc[w] = "post", Return(w),
           NEW st \in {"live", "leaked", "no_qp"}, sock' = [sock EXCEPT ![on[w]] = st],
           count' = IF st = "live" THEN count ELSE Destroy(count, "qp", 1),
           next_size' \in Nat,
           UNCHANGED <<initialized, polling, refs, down, limit, blocks, tx>>
    PROVE  IInv'
    <1> DEFINE s == on[w]
    <1>1. /\ "stack" \in refs /\ initialized /\ polling /\ down = "no"
          /\ s \in Sock /\ sock[s] = "making" /\ s \in WithQp
        BY Posting_w, Zenon
    <1>2. /\ pc' \in [Worker -> Place] /\ on' \in [Worker -> Sock \cup {None}]
          /\ pc'[w] = "idle" /\ \A v \in Worker \ {w} : pc'[v] = pc[v] /\ on'[v] = on[v]
        BY Returned, Zenon
    <1> HIDE DEF s
    <1>3. sock' \in [Sock -> SockState] /\ sock'[s] = st /\ \A t \in Sock \ {s} : sock'[t] = sock[t]
        BY <1>1, Zenon DEF IInv, Types, SockState, s
    <1>4. /\ count' \in [Kind -> Int]
          /\ count'["qp"] = IF st = "live" THEN count["qp"] ELSE count["qp"] - 1
          /\ \A k \in Kind \ {"qp"} : count'[k] = count[k]
        BY SMTT(60) DEF Destroy, IInv, Types, Kind
    <1>5. Types'
        BY <1>2, <1>3, <1>4, Zenon DEF IInv, Types
    <1>6. Places'
        <2>1. \A v \in Worker \ {w} : pc[v] = "post" => on[v] # s
            BY Zenon DEF IInv, Places, s
        <2> QED
            BY <1>2, <1>3, <2>1, SMTT(60) DEF IInv, Places
    <1>7. Stages'
        BY <1>1, Zenon DEF IInv, Stages
    <1>8. count'["qp"] = Cardinality(WithQp')
        <2>1. WithQp' = IF st = "live" THEN WithQp ELSE WithQp \ {s}
            BY <1>1, <1>3, Zenon DEF WithQp
        <2>2. WithQp \in SUBSET Sock
            BY Zenon DEF WithQp
        <2> QED
            BY <1>1, <1>4, <2>1, <2>2, SockCount, SMTT(60) DEF IInv, Counted
    <1>9. Counted'
        BY <1>4, <1>8, Zenon DEF IInv, Counted, Kind
    <1> QED
        BY <1>5, <1>6, <1>7, <1>9, SameChunks, SMTT(60) DEF IInv

\* A new block of the receive pool
LEMMA ExpandStep ==
    ASSUME IInv, NEW w \in Worker, pc[w] = "post", NEW h, NEW n \in Nat, Expand(h, n),
           UNCHANGED <<pc, on, sock, initialized, polling, refs, down, limit, tx>>
    PROVE  IInv'
    <1>1. initialized /\ down = "no"
        BY Posting_w, Zenon
    <1>2. PICK m \in Malloc : blocks' = Append(blocks, [nbufs |-> n, header |-> m.header])
        BY Zenon DEF Expand
    <1>3. [nbufs |-> n, header |-> m.header] \in Block
        BY DEF Malloc, Block, Origin
    <1>4. blocks' \in Seq(Block) /\ Len(blocks') = Len(blocks) + 1
        BY <1>2, <1>3, AppendProperties, SMTT(60) DEF IInv, Types
    <1>5. /\ count' \in [Kind -> Int] /\ count'["rx_mr"] = count["rx_mr"] + 1
          /\ \A k \in Kind \ {"rx_mr"} : count'[k] = count[k]
        BY SMTT(60) DEF Expand, Create, IInv, Types, Kind
    <1>6. next_size' \in Nat
        BY DEF Expand
    <1>7. Types' /\ Places'
        BY <1>4, <1>5, <1>6, SMTT(60) DEF IInv, Types, Places
    <1>8. Stages'
        BY <1>1, Zenon DEF IInv, Stages, WithQp
    <1>9. Counted'
        BY <1>4, <1>5, ZenonT(90) DEF IInv, Counted, WithQp, Kind
    <1> QED
        BY <1>7, <1>8, <1>9, SameChunks, SMTT(60) DEF IInv

LEMMA GetRxBufferStep ==
    ASSUME IInv, NEW w \in Worker, get_rx_buffer(w)
    PROVE  IInv'
    <1>1. pc[w] = "post" /\ UNCHANGED <<initialized, polling, refs, down, limit, tx>>
        BY Zenon DEF get_rx_buffer, teardown
    <1>2. next_size \in Nat /\ Half \in Nat
        BY DEF IInv, Types, Half
    <1>3. CASE free > 0 /\ Took(w) /\ UNCHANGED <<sock, count, next_size, blocks>>
        <2>1. UNCHANGED <<pc, on>>
            BY <1>3, Zenon DEF Took
        <2>2. Types' /\ Places'
            BY <1>1, <1>3, <2>1, Zenon DEF IInv, Types, Places
        <2> QED
            BY <1>1, <1>3, <2>2, SameObjects, SameChunks, Zenon DEF IInv
    <1>4. CASE Grows /\ Took(w) /\ UNCHANGED sock
        <2>1. UNCHANGED <<pc, on>>
            BY <1>4, Zenon DEF Took
        <2>2. \/ \E h : Expand(h, next_size)
              \/ \E h : Expand(h, Half)
            BY <1>4, Zenon DEF Grows
        <2> QED
            BY <1>1, <1>2, <1>4, <2>1, <2>2, ExpandStep, SMTT(60)
    <1>5. ASSUME Stays PROVE next_size' \in Nat /\ blocks' = blocks
        BY <1>2, <1>5, Zenon DEF Stays
    <1>6. CASE Stays /\ count' = Destroy(count, "qp", 1) /\ Return(w)
               /\ sock' = [sock EXCEPT ![on[w]] = IF way[w] = "accept" THEN "leaked" ELSE "no_qp"]
        <2>1. PICK st \in {"leaked", "no_qp"} : sock' = [sock EXCEPT ![on[w]] = st]
            BY <1>6, Zenon
        <2>2. st \in {"live", "leaked", "no_qp"} /\ st # "live"
            BY <2>1, Zenon
        <2>3. count' = IF st = "live" THEN count ELSE Destroy(count, "qp", 1)
            BY <1>6, <2>2, Zenon
        <2> QED
            BY <1>1, <1>5, <1>6, <2>1, <2>2, <2>3, SocketStep, ZenonT(30)
    <1>7. CASE Stays /\ UNCHANGED <<threads, sock, count>>
        <2>1. Types' /\ Places'
            BY <1>1, <1>5, <1>7, Zenon DEF IInv, Types, Places, threads
        <2> QED
            BY <1>1, <1>5, <1>7, <2>1, SameObjects, SameChunks, SMTT(60) DEF IInv
    <1> QED
        BY <1>3, <1>4, <1>6, <1>7, SMTT(60) DEF get_rx_buffer

LEMMA RegisterQpStep ==
    ASSUME IInv, NEW w \in Worker, register_qp(w)
    PROVE  IInv'
    <1>1. /\ pc[w] = "post" /\ Return(w) /\ sock' = [sock EXCEPT ![on[w]] = "live"]
          /\ count' = count /\ next_size' \in Nat
          /\ UNCHANGED <<initialized, polling, refs, down, limit, blocks, tx>>
        BY Zenon DEF register_qp, teardown, pool, memory, IInv, Types
    <1>2. "live" \in {"live", "leaked", "no_qp"} /\ count' = IF "live" = "live" THEN count ELSE Destroy(count, "qp", 1)
        BY <1>1, Zenon
    <1> QED
        BY <1>1, <1>2, SocketStep, Zenon

-----------------------------------------------------------------------------
(* The sockets *)

\* A socket no thread is constructing moves on; only Reap deletes its queue pair.
LEMMA OwnerStep ==
    ASSUME IInv, NEW s \in Sock, NEW st \in {"dead", "gone"}, sock' = [sock EXCEPT ![s] = st],
           \/ sock[s] = "live" /\ st = "dead" /\ count' = count
           \/ sock[s] = "no_qp" /\ st = "gone" /\ count' = count
           \/ sock[s] = "dead" /\ st = "gone" /\ count' = Destroy(count, "qp", 1),
           UNCHANGED <<pc, on, initialized, polling, refs, down, limit, next_size, blocks, tx>>
    PROVE  IInv'
    <1>1. sock' \in [Sock -> SockState] /\ sock'[s] = st /\ \A t \in Sock \ {s} : sock'[t] = sock[t]
        BY Zenon DEF IInv, Types, SockState
    <1>2. /\ count' \in [Kind -> Int]
          /\ count'["qp"] = IF sock[s] = "dead" THEN count["qp"] - 1 ELSE count["qp"]
          /\ \A k \in Kind \ {"qp"} : count'[k] = count[k]
        BY SMTT(60) DEF Destroy, IInv, Types, Kind
    <1>3. Types'
        BY <1>1, <1>2, Zenon DEF IInv, Types
    <1>4. Places'
        BY <1>1 DEF IInv, Places
    <1>5. WithQp' = (IF sock[s] = "dead" THEN WithQp \ {s} ELSE WithQp) /\ WithQp \in SUBSET Sock
        BY <1>1, Zenon DEF WithQp
    <1>6. Stages'
        BY <1>5, Zenon DEF IInv, Stages
    <1>7. count'["qp"] = Cardinality(WithQp')
        <2>1. sock[s] = "dead" => s \in WithQp
            BY Zenon DEF WithQp
        <2> QED
            BY <1>2, <1>5, <2>1, SockCount, SMTT(60) DEF IInv, Counted
    <1>8. Counted'
        BY <1>2, <1>7, Zenon DEF IInv, Counted, Kind
    <1> QED
        BY <1>3, <1>4, <1>6, <1>8, SameChunks, SMTT(60) DEF IInv

LEMMA SockStep ==
    ASSUME IInv, NEW s \in Sock, NoQueuePair(s) \/ Close(s) \/ Reap(s)
    PROVE  IInv'
    <1>1. CASE End("null")
        BY <1>1, EndStep, Zenon
    <1>2. CASE ~End("null")
        <2>1. UNCHANGED <<pc, on, initialized, polling, refs, down, limit, next_size, blocks, tx>>
            BY <1>2, Zenon DEF NoQueuePair, Close, Reap, threads, teardown, pool, memory
        <2>2. CASE NoQueuePair(s)
            <3>1. sock[s] = "no_qp" /\ sock' = [sock EXCEPT ![s] = "gone"] /\ count' = count
                BY <1>2, <2>2, Zenon DEF NoQueuePair
            <3> QED
                BY <2>1, <3>1, OwnerStep, Zenon
        <2>3. CASE Close(s)
            <3>1. sock[s] = "live" /\ sock' = [sock EXCEPT ![s] = "dead"] /\ count' = count
                BY <2>3, Zenon DEF Close
            <3> QED
                BY <2>1, <3>1, OwnerStep, Zenon
        <2>4. CASE Reap(s)
            <3>1. /\ sock[s] = "dead" /\ sock' = [sock EXCEPT ![s] = "gone"]
                  /\ count' = Destroy(count, "qp", 1)
                BY <2>4, Zenon DEF Reap
            <3> QED
                BY <2>1, <3>1, OwnerStep, ZenonT(30)
        <2> QED
            BY <2>2, <2>3, <2>4, Zenon
    <1> QED
        BY <1>1, <1>2, Zenon

-----------------------------------------------------------------------------
(* The transmit pool *)

\* A chunk changes and stays sound.
LEMMA ChunkStep ==
    ASSUME TxSound, NEW c \in DOMAIN tx, NEW r \in TxRecord, tx' = [tx EXCEPT ![c] = r],
           r.offset = IF r.at = "free" THEN 0 ELSE r.written
    PROVE  TxSound'
    BY Zenon DEF TxSound

LEMMA ChunksStep ==
    ASSUME IInv, Chunks
    PROVE  IInv'
    <1>1. CASE \E how : End(how)
        BY <1>1, EndStep, Zenon
    <1>2. CASE ~\E how : End(how)
        <2>1. UNCHANGED <<pc, on, initialized, polling, count, sock, refs, down, limit, next_size, blocks>>
            BY <1>2, Zenon DEF Chunks, get_chunks, write, PostChunk, take_back, threads, objects, teardown, pool
        <2>2. ASSUME NEW n, get_chunks(n) PROVE TxSound'
            <3>1. PICK taken \in SUBSET FreeChunks :
                    tx' = [c \in DOMAIN tx |-> IF c \in taken
                             THEN [tx[c] EXCEPT !.at = "held", !.written = 0] ELSE tx[c]]
                BY <1>2, <2>2, Zenon DEF get_chunks
            <3>2. ASSUME NEW c \in DOMAIN tx
                  PROVE  tx'[c] \in TxRecord /\ tx'[c].offset = IF tx'[c].at = "free" THEN 0 ELSE tx'[c].written
                <4>1. /\ tx[c] \in TxRecord
                      /\ tx[c].offset = IF tx[c].at = "free" THEN 0 ELSE tx[c].written
                    BY Zenon DEF IInv, TxSound
                <4>2. CASE c \in taken
                    <5>1. tx'[c] = [tx[c] EXCEPT !.at = "held", !.written = 0]
                        BY <3>1, <4>2, Zenon
                    <5>2. tx[c].at = "free"
                        BY <4>2, Zenon DEF FreeChunks
                    <5> QED
                        BY <4>1, <5>1, <5>2, ZenonT(30) DEF TxRecord
                <4>3. CASE c \notin taken
                    BY <3>1, <4>1, <4>3, ZenonT(30)
                <4> QED
                    BY <4>2, <4>3, Zenon
            <3>3. DOMAIN tx' = DOMAIN tx /\ tx' \in [DOMAIN tx -> TxRecord]
                BY <3>1, <3>2, Zenon
            <3> QED
                BY <3>2, <3>3, Zenon DEF TxSound
        <2>3. ASSUME NEW c \in DOMAIN tx, NEW len \in 1 .. BufSize, write(c, len) PROVE TxSound'
            <3>1. /\ tx[c] \in TxRecord /\ tx[c].offset = tx[c].written
                  /\ tx[c].at = "held" /\ tx[c].offset < BufSize
                BY <2>3, Zenon DEF write, IInv, TxSound
            <3>2. Least(BufSize - tx[c].offset, len) \in Nat
                BY <3>1, VerbsAssumption DEF Least, TxRecord
            <3>3. PICK k \in Nat :
                    tx' = [tx EXCEPT ![c] = [tx[c] EXCEPT !.offset = @ + k, !.written = @ + k]]
                BY <2>3, <3>2, Zenon DEF write
            <3> DEFINE z == tx[c]
                       m == z.offset + k
                       n == z.written + k
                       r == [z EXCEPT !.offset = m, !.written = n]
            <3>4. tx' = [tx EXCEPT ![c] = r]
                BY <3>3, Zenon
            <3>5. m \in Nat /\ n \in Nat /\ m = n
                BY <3>1 DEF TxRecord
            <3>6. z \in TxRecord /\ z.at = "held" /\ r = [z EXCEPT !.offset = m, !.written = n]
                BY <3>1, Zenon
            <3> HIDE DEF z, m, n, r
            <3>7. r \in TxRecord /\ r.offset = m /\ r.written = n /\ r.at = "held"
                BY <3>5, <3>6, Zenon DEF TxRecord
            <3> QED
                BY <3>4, <3>5, <3>7, ChunkStep, Zenon DEF IInv
        <2>4. ASSUME NEW c \in DOMAIN tx, PostChunk(c) PROVE TxSound'
            <3> DEFINE r == [tx[c] EXCEPT !.at = "posted"]
            <3>1. tx[c] \in TxRecord /\ tx[c].offset = tx[c].written
                BY <2>4, Zenon DEF PostChunk, IInv, TxSound
            <3>2. r \in TxRecord /\ r.offset = r.written /\ r.at = "posted" /\ tx' = [tx EXCEPT ![c] = r]
                BY <2>4, <3>1, Zenon DEF PostChunk, TxRecord
            <3> HIDE DEF r
            <3> QED
                BY <3>2, ChunkStep, Zenon DEF IInv
        <2>5. ASSUME NEW c \in DOMAIN tx, take_back(c) PROVE TxSound'
            <3> DEFINE r == [tx[c] EXCEPT !.at = "free", !.offset = 0]
            <3>1. tx[c] \in TxRecord
                BY Zenon DEF IInv, TxSound
            <3>2. r \in TxRecord /\ r.offset = 0 /\ r.at = "free" /\ tx' = [tx EXCEPT ![c] = r]
                BY <2>5, <3>1, Zenon DEF take_back, TxRecord
            <3> HIDE DEF r
            <3> QED
                BY <3>2, ChunkStep, Zenon DEF IInv
        <2>6. TxSound'
            BY <2>2, <2>3, <2>4, <2>5, Zenon DEF Chunks
        <2>7. Types' /\ Places'
            BY <2>1, Zenon DEF IInv, Types, Places
        <2> QED
            BY <2>1, <2>6, <2>7, SameObjects, SMTT(60) DEF IInv
    <1> QED
        BY <1>1, <1>2, Zenon

-----------------------------------------------------------------------------
(* The end *)

\* A reference is dropped; the last one begins the destructors.
LEMMA DropStep ==
    ASSUME IInv, DropStack \/ \E w \in Worker : DropWorker(w)
    PROVE  IInv'
    <1> DEFINE Dropped ==
            /\ UNCHANGED <<pc, on, initialized, polling, count, sock, limit, next_size, blocks, tx>>
            /\ refs' \subseteq refs /\ down = "no" /\ down' \in {"no", "join"}
            /\ "stack" \notin refs' /\ (down' # "no" => refs' = {})
            /\ \A w \in Worker : pc[w] = "idle"
    <1>1. Dropped
        <2>1. CASE DropStack
            <3>1. down' = down /\ "stack" \in refs /\ refs' = refs \ {"stack"} /\ \A w \in Worker : pc[w] = "idle"
                BY <2>1, Zenon DEF DropStack
            <3>2. UNCHANGED <<pc, on, initialized, polling, count, sock, limit, next_size, blocks, tx>>
                BY <2>1, Zenon DEF DropStack, threads, objects, pool, memory
            <3> QED
                BY <3>1, <3>2, Zenon DEF IInv, Stages
        <2>2. ASSUME NEW w \in Worker, DropWorker(w)
              PROVE  Dropped
            <3>1. /\ "stack" \notin refs /\ w \in refs /\ refs' = refs \ {w}
                  /\ down' = IF refs' = {} /\ ~Leaked THEN "join" ELSE down
                BY <2>2, Zenon DEF DropWorker
            <3>2. UNCHANGED <<pc, on, initialized, polling, count, sock, limit, next_size, blocks, tx>>
                BY <2>2, Zenon DEF DropWorker, threads, objects, pool, memory
            <3>3. down = "no" /\ \A v \in Worker : pc[v] = "idle"
                BY <3>1, Zenon DEF IInv, Stages, Places
            <3> QED
                BY <3>1, <3>2, <3>3, Zenon
        <2> QED
            BY <2>1, <2>2, Zenon
    <1>2. Types'
        BY <1>1, Zenon DEF IInv, Types, StageName
    <1>3. Places'
        BY <1>1, Zenon DEF IInv, Places
    <1>4. Stages'
        BY <1>1, Zenon DEF IInv, Stages, WithQp
    <1>5. Counted'
        BY <1>1, Zenon DEF IInv, Counted, WithQp
    <1> QED
        BY <1>1, <1>2, <1>3, <1>4, <1>5, SameChunks, Zenon DEF IInv

\* While the destructors run no thread is left, and no queue pair once
\* polling_stop has joined the polling thread.
LEMMA Quiet ==
    ASSUME IInv, down # "no"
    PROVE  /\ refs = {} /\ (\A w \in Worker : pc[w] = "idle")
           /\ (~polling => WithQp = {})
    BY Zenon DEF IInv, Places, Stages

\* What a step of the destructors leaves alone, and what is then left to show.
LEMMA StageStep ==
    ASSUME IInv, NEW from \in StageName \ {"no"}, NEW to \in StageName \ {"no"}, NEW c,
           Stage(from, to, c), c \in [Kind -> Int],
           UNCHANGED next_size, blocks' \in Seq(Block), polling' \in BOOLEAN
    PROVE  /\ Types' /\ Places' /\ WithQp' = WithQp /\ refs' = {}
           /\ initialized' = initialized /\ initialized \in BOOLEAN
    <1>1. /\ down = from /\ down' = to /\ count' = c
          /\ UNCHANGED <<pc, on, initialized, sock, refs, limit>>
        BY Zenon DEF Stage, threads
    <1>2. refs = {} /\ \A w \in Worker : pc[w] = "idle"
        BY <1>1, Quiet, Zenon
    <1>3. Types'
        BY <1>1, Zenon DEF IInv, Types
    <1>4. Places'
        BY <1>1, <1>2, Zenon DEF IInv, Places
    <1> QED
        BY <1>1, <1>2, <1>3, <1>4, Zenon DEF WithQp, IInv, Types

LEMMA PollingStopStep ==
    ASSUME IInv, polling_stop
    PROVE  IInv'
    <1> DEFINE to == IF polling THEN "cq" ELSE "memory"
    <1>1. /\ down = "join" /\ down' = to /\ polling' = FALSE /\ count' = count
          /\ UNCHANGED <<next_size, blocks, tx>>
        BY Zenon DEF polling_stop, Stage, pool, memory
    <1>2. WithQp = {}
        <2>1. CASE polling
            <3>1. count["qp"] = 0 /\ WithQp \in SUBSET Sock
                BY <2>1, Zenon DEF polling_stop, WithQp
            <3> QED
                BY <3>1, SockCount, Zenon DEF IInv, Counted
        <2>2. CASE ~polling
            BY <2>2, Zenon DEF IInv, Stages
        <2> QED
            BY <2>1, <2>2, Zenon
    <1>3. /\ Types' /\ Places' /\ WithQp' = WithQp /\ refs' = {}
          /\ initialized' = initialized /\ initialized \in BOOLEAN
        <2>1. /\ "join" \in StageName \ {"no"} /\ to \in StageName \ {"no"} /\ count \in [Kind -> Int]
              /\ blocks' \in Seq(Block) /\ polling' \in BOOLEAN /\ next_size' = next_size
            BY <1>1, Zenon DEF StageName, IInv, Types
        <2>2. Stage("join", to, count)
            BY Zenon DEF polling_stop
        <2> QED
            BY <2>1, <2>2, StageStep, Zenon
    <1>4. Stages'
        BY <1>1, <1>2, <1>3, Zenon DEF IInv, Stages
    <1>5. Counted'
        BY <1>1, <1>2, <1>3, Zenon DEF IInv, Counted, Stages
    <1> QED
        BY <1>1, <1>3, <1>4, <1>5, SameChunks, Zenon DEF IInv

\* One kind of object is released at a stage that touches no memory.
LEMMA ReleaseStep ==
    ASSUME IInv,
           \/ DeleteQueues \/ DeleteChannels \/ DeleteDomain \/ DeleteDevices \/ NothingToDelete
    PROVE  IInv'
    <1>1. UNCHANGED <<polling, next_size, blocks, tx>>
        BY ZenonT(90) DEF DeleteQueues, DeleteChannels, DeleteDomain, DeleteDevices, NothingToDelete, pool, memory
    <1>3. PICK from, to \in StageName \ {"no"}, c \in [Kind -> Int] :
            /\ Stage(from, to, c)
            /\ \/ /\ from = "cq" /\ to = "channel" /\ c["cq"] = count["cq"] - 2
                  /\ \A j \in Kind \ {"cq"} : c[j] = count[j]
               \/ /\ from = "channel" /\ to = "memory" /\ c["channel"] = count["channel"] - 2
                  /\ \A j \in Kind \ {"channel"} : c[j] = count[j]
               \/ /\ from = "pd" /\ to = "context" /\ c["pd"] = count["pd"] - 1
                  /\ \A j \in Kind \ {"pd"} : c[j] = count[j]
               \/ /\ from = "context" /\ to = "end" /\ c["context"] = count["context"] - 1
                  /\ \A j \in Kind \ {"context"} : c[j] = count[j]
               \/ from = "memory" /\ to = "end" /\ c = count /\ ~initialized
        <2>1. count \in [Kind -> Int] /\ {"cq", "channel", "pd", "context"} \subseteq Kind
            BY Zenon DEF IInv, Types, Kind
        <2>2. {"cq", "channel", "memory", "pd", "context", "end"} \subseteq StageName \ {"no"}
            BY Zenon DEF StageName
        <2>3. CASE DeleteQueues
            <3> DEFINE d == Destroy(count, "cq", 2)
            <3>1. Stage("cq", "channel", d)
                BY <2>3, Zenon DEF DeleteQueues
            <3>2. d \in [Kind -> Int] /\ d["cq"] = count["cq"] - 2 /\ \A j \in Kind \ {"cq"} : d[j] = count[j]
                BY <2>1 DEF Destroy, Kind
            <3> HIDE DEF d
            <3> QED
                BY <2>2, <3>1, <3>2
        <2>4. CASE DeleteChannels
            <3> DEFINE d == Destroy(count, "channel", 2)
            <3>1. Stage("channel", "memory", d)
                BY <2>4, Zenon DEF DeleteChannels
            <3>2. d \in [Kind -> Int] /\ d["channel"] = count["channel"] - 2 /\ \A j \in Kind \ {"channel"} : d[j] = count[j]
                BY <2>1, SMTT(60) DEF Destroy, Kind
            <3> HIDE DEF d
            <3> QED
                BY <2>2, <3>1, <3>2
        <2>5. CASE DeleteDomain
            <3> DEFINE d == Destroy(count, "pd", 1)
            <3>1. Stage("pd", "context", d)
                BY <2>5, Zenon DEF DeleteDomain
            <3>2. d \in [Kind -> Int] /\ d["pd"] = count["pd"] - 1 /\ \A j \in Kind \ {"pd"} : d[j] = count[j]
                BY <2>1 DEF Destroy, Kind
            <3> HIDE DEF d
            <3> QED
                BY <2>2, <3>1, <3>2, SMTT(60)
        <2>6. CASE DeleteDevices
            <3> DEFINE d == Destroy(count, "context", 1)
            <3>1. Stage("context", "end", d)
                BY <2>6, Zenon DEF DeleteDevices
            <3>2. d \in [Kind -> Int] /\ d["context"] = count["context"] - 1 /\ \A j \in Kind \ {"context"} : d[j] = count[j]
                BY <2>1 DEF Destroy, Kind
            <3> HIDE DEF d
            <3> QED
                BY <2>2, <3>1, <3>2, SMTT(60)
        <2>7. CASE NothingToDelete
            BY <2>1, <2>2, <2>7, Zenon DEF NothingToDelete
        <2> QED
            BY <2>3, <2>4, <2>5, <2>6, <2>7, SMTT(60)
    <1>4. down = from /\ down' = to /\ count' = c
        BY <1>3, Zenon DEF Stage
    <1>5. /\ Types' /\ Places' /\ WithQp' = WithQp /\ refs' = {}
          /\ initialized' = initialized /\ initialized \in BOOLEAN
        <2>1. blocks' \in Seq(Block) /\ polling' \in BOOLEAN
            BY <1>1, Zenon DEF IInv, Types
        <2> QED
            BY <1>1, <1>3, <2>1, StageStep, Zenon
    <1>6. ~polling /\ ~polling' /\ WithQp = {}
        BY <1>1, <1>3, <1>4, Zenon DEF IInv, Stages
    <1>7. Stages'
        BY <1>1, <1>3, <1>4, <1>5, <1>6, SMTT(60) DEF IInv, Stages
    <1>8. Counted'
        <2>1. 2 - 2 = 0 /\ 1 - 1 = 0
            OBVIOUS
        <2>2. {"context", "pd", "tx_mr", "rx_mr", "channel", "cq", "qp"} \subseteq Kind
            BY Zenon DEF Kind
        <2>3. CASE from = "cq"
            BY <1>1, <1>3, <1>4, <1>5, <1>6, <2>1, <2>2, <2>3, ZenonT(90) DEF IInv, Counted, Stages
        <2>4. CASE from = "channel"
            BY <1>1, <1>3, <1>4, <1>5, <1>6, <2>1, <2>2, <2>4, ZenonT(90) DEF IInv, Counted, Stages
        <2>5. CASE from = "pd"
            BY <1>1, <1>3, <1>4, <1>5, <1>6, <2>1, <2>2, <2>5, ZenonT(90) DEF IInv, Counted, Stages
        <2>6. CASE from = "context"
            BY <1>1, <1>3, <1>4, <1>5, <1>6, <2>1, <2>2, <2>6, ZenonT(90) DEF IInv, Counted, Stages
        <2>7. CASE from = "memory"
            BY <1>1, <1>3, <1>4, <1>5, <1>6, <2>7, ZenonT(30) DEF IInv, Counted, Stages
        <2> QED
            BY <1>3, <2>3, <2>4, <2>5, <2>6, <2>7, ZenonT(90)
    <1> QED
        BY <1>1, <1>5, <1>7, <1>8, SameChunks, SMTT(60) DEF IInv

LEMMA DeleteMemoryStep ==
    ASSUME IInv, DeleteMemory
    PROVE  IInv'
    <1> DEFINE one == Destroy(count, "tx_mr", 1)
               two == Destroy(one, "rx_mr", Len(blocks))
    <1>1. /\ down = "memory" /\ down' = "pd" /\ count' = two /\ initialized
          /\ blocks' = <<>> /\ tx' = <<>> /\ UNCHANGED <<polling, next_size>>
        BY Zenon DEF DeleteMemory, Stage
    <1>2. Stage("memory", "pd", two)
        BY Zenon DEF DeleteMemory
    <1>3. /\ two \in [Kind -> Int] /\ two["tx_mr"] = count["tx_mr"] - 1
          /\ two["rx_mr"] = count["rx_mr"] - Len(blocks)
          /\ \A j \in Kind \ {"tx_mr", "rx_mr"} : two[j] = count[j]
        <2>1. count \in [Kind -> Int] /\ Len(blocks) \in Int
            BY LenProperties DEF IInv, Types
        <2>2. /\ one \in [Kind -> Int] /\ one["tx_mr"] = count["tx_mr"] - 1
              /\ \A j \in Kind \ {"tx_mr"} : one[j] = count[j]
            BY <2>1 DEF Destroy, Kind
        <2> HIDE DEF one
        <2>3. /\ two \in [Kind -> Int] /\ two["rx_mr"] = one["rx_mr"] - Len(blocks)
              /\ \A j \in Kind \ {"rx_mr"} : two[j] = one[j]
            BY <2>1, <2>2, SMTT(60) DEF Destroy, Kind
        <2> HIDE DEF two
        <2> QED
            BY <2>2, <2>3, Zenon DEF Kind
    <1> HIDE DEF two
    <1>4. /\ Types' /\ Places' /\ WithQp' = WithQp /\ refs' = {}
          /\ initialized' = initialized /\ initialized \in BOOLEAN
        <2>1. /\ blocks' \in Seq(Block) /\ polling' \in BOOLEAN
              /\ {"memory", "pd"} \subseteq StageName \ {"no"}
            BY <1>1, EmptySeq, Zenon DEF IInv, Types, StageName
        <2> QED
            BY <1>1, <1>2, <1>3, <2>1, StageStep, Zenon
    <1>5. ~polling /\ WithQp = {}
        BY <1>1, Zenon DEF IInv, Stages
    <1>6. Stages'
        BY <1>1, <1>4, <1>5, SMTT(60) DEF IInv, Stages
    <1>7. Len(blocks') = 0 /\ Len(blocks) \in Nat
        BY <1>1, EmptySeq, LenProperties, SMTT(60) DEF IInv, Types
    <1>8. Counted'
        BY <1>1, <1>3, <1>4, <1>5, <1>7, SMTT(60) DEF IInv, Counted, Kind
    <1>9. TxSound'
        BY <1>1 DEF TxSound
    <1> QED
        BY <1>4, <1>6, <1>8, <1>9, Zenon DEF IInv

-----------------------------------------------------------------------------
(* The theorems *)

LEMMA InvInit == Init => IInv
    <1> SUFFICES ASSUME Init PROVE IInv
        BY Zenon
    <1>1. limit \in Nat /\ next_size \in Nat
        BY VerbsAssumption, SMTT(60) DEF Init, FirstSize
    <1>2. blocks = <<>> /\ blocks \in Seq(Block) /\ Len(blocks) = 0
        BY EmptySeq, Zenon DEF Init
    <1>3. Types
        <2>1. pc \in [Worker -> Place] /\ on \in [Worker -> Sock \cup {None}] /\ sock \in [Sock -> SockState]
            BY Zenon DEF Init, Place, SockState
        <2>2. count \in [Kind -> Int]
            BY DEF Init
        <2>4. initialized \in BOOLEAN /\ polling \in BOOLEAN
            BY Zenon DEF Init
        <2>3. refs \subseteq Worker \cup {"stack"} /\ down \in StageName
            BY Zenon DEF Init, StageName
        <2> QED
            BY <1>1, <1>2, <2>1, <2>2, <2>3, <2>4, SMTT(60) DEF Types
    <1>4. WithQp = {}
        BY Zenon DEF Init, WithQp, None
    <1>5. Places
        BY Zenon DEF Init, Places
    <1>6. Stages
        BY <1>2, <1>4, Zenon DEF Init, Stages
    <1>7. Counted
        <2>1. Cardinality(WithQp) = 0
            BY <1>4, FS_EmptySet, Zenon
        <2> QED
            BY <1>2, <2>1, Zenon DEF Init, Counted, Kind
    <1>8. TxSound
        BY DEF Init, TxSound
    <1> QED
        BY <1>3, <1>5, <1>6, <1>7, <1>8, SMTT(60) DEF IInv

LEMMA InvNext == IInv /\ [Next]_vars => IInv'
    <1> SUFFICES ASSUME IInv, [Next]_vars PROVE IInv'
        BY Zenon
    <1>1. CASE UNCHANGED vars
        <2>1. UNCHANGED <<pc, on, initialized, polling, count, sock, refs, down, limit, next_size, blocks, tx>>
            BY <1>1, Zenon DEF vars, threads, objects, teardown, pool, memory
        <2>2. Types' /\ Places'
            BY <2>1, Zenon DEF IInv, Types, Places
        <2> QED
            BY <2>1, <2>2, SameObjects, SameChunks, Zenon DEF IInv
    <1>2. ASSUME NEW w \in Worker, Thread(w)
          PROVE  IInv'
        BY <1>2, CallStep, InitStep, PollingStartStep, QueuePairInitStep, GetRxBufferStep,
           RegisterQpStep, Zenon DEF Thread
    <1>3. ASSUME NEW s \in Sock, NoQueuePair(s) \/ Close(s) \/ Reap(s)
          PROVE  IInv'
        BY <1>3, SockStep, Zenon
    <1>4. CASE Chunks
        BY <1>4, ChunksStep, Zenon
    <1>5. CASE DropStack \/ \E w \in Worker : DropWorker(w)
        BY <1>5, DropStep, Zenon
    <1>6. CASE Destroying
        BY <1>6, PollingStopStep, ReleaseStep, DeleteMemoryStep, Zenon DEF Destroying
    <1> QED
        BY <1>1, <1>2, <1>3, <1>4, <1>5, <1>6, Zenon DEF Next, Ended

\* The invariant holds in every reachable state, whatever workers construct
\* sockets, calls fail and references are dropped.
THEOREM VerbsInvariant == Spec => []IInv
    BY InvInit, InvNext, PTL DEF Spec

\* ObjectsSound: no verbs object is released under one that still needs it
\* (~RDMADispatcher, ~Infiniband), and workers that enter Infiniband::init and
\* polling_start together share one device list, one domain, one transmit pool
\* and one pair of completion queues.
THEOREM ObjectsAreSound == Spec => []ObjectsSound
    <1>1. IInv => ObjectsSound
        <2> SUFFICES ASSUME IInv PROVE ObjectsSound
            BY Zenon
        <2>1. NumDevices \in Nat \ {0} /\ Len(blocks) \in Nat
            BY VerbsAssumption, LenProperties, Zenon DEF IInv, Types
        <2>2. (Cardinality(WithQp) > 0 => WithQp # {}) /\ WithQp \in SUBSET Sock
            BY FS_EmptySet DEF WithQp
        <2>3. Len(blocks) > 0 => blocks # <<>>
            BY EmptySeq
        <2>4. /\ count["context"] <= NumDevices /\ count["pd"] <= 1 /\ count["tx_mr"] <= 1
              /\ count["channel"] <= 2 /\ count["cq"] <= 2
            BY <2>1 DEF IInv, Counted
        <2>5. count["pd"] > 0 => count["context"] > 0
            BY <2>1 DEF IInv, Counted
        <2>6. count["channel"] > 0 => count["context"] > 0
            BY <2>1 DEF IInv, Counted, Stages
        <2>7. count["tx_mr"] > 0 => count["pd"] > 0
            BY DEF IInv, Counted
        <2>8. count["rx_mr"] > 0 => count["pd"] > 0
            BY <2>3 DEF IInv, Counted, Stages
        <2>9. count["cq"] > 0 => count["channel"] > 0
            BY DEF IInv, Counted
        <2>10. count["qp"] > 0 => count["pd"] > 0 /\ count["cq"] > 0
            BY <2>2 DEF IInv, Counted, Stages
        <2>11. /\ Parents["context"] = {} /\ Parents["pd"] = {"context"} /\ Parents["channel"] = {"context"}
               /\ Parents["tx_mr"] = {"pd"} /\ Parents["rx_mr"] = {"pd"} /\ Parents["cq"] = {"channel"}
               /\ Parents["qp"] = {"pd", "cq"}
            BY Zenon DEF Parents, Kind
        <2>12. \A k \in Kind : count[k] > 0 => \A p \in Parents[k] : count[p] > 0
            BY <2>5, <2>6, <2>7, <2>8, <2>9, <2>10, <2>11, SMTT(60) DEF Kind
        <2> QED
            BY <2>4, <2>12, Zenon DEF ObjectsSound
    <1> QED
        BY <1>1, VerbsInvariant, PTL

\* SendsWhatWasWritten: a work request carries what its sender wrote into the
\* chunk (Chunk::write), and nothing an earlier send left there, because
\* Cluster::take_back resets every chunk it takes.
THEOREM SendsAreClean == Spec => []SendsWhatWasWritten
    <1>1. IInv => SendsWhatWasWritten
        BY Zenon DEF IInv, TxSound, SendsWhatWasWritten
    <1> QED
        BY <1>1, VerbsInvariant, PTL
==============================================================================
