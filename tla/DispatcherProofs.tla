-------------------------- MODULE DispatcherProofs --------------------------
(***************************************************************************)
(* The life of a queue pair, for any queue pairs, any depth of the queues, *)
(* any number of sends and any failures: the map never holds a socket that *)
(* is gone, a queue pair is deleted once and none is left behind, and when *)
(* to_dead has made it dead every chunk is back in the pool by then.       *)
(*                                                                         *)
(* The inductive invariant has three layers.  Stages says which of the     *)
(* stages fresh, registered, doomed and destroyed a queue pair is in.      *)
(* Beacons is the argument for the beacon: on its way from the send queue  *)
(* through the completion queue and the batch it stays behind everything   *)
(* else of its queue pair.  Conserved follows the chunks on this way.      *)
(***************************************************************************)
EXTENDS Dispatcher, SequenceTheorems, FiniteSetTheorems, TLAPS

In(x, s) == \E i \in 1 .. Len(s) : s[i] = x
Once(s) == \A i, j \in 1 .. Len(s) : s[i] = s[j] => i = j
CountIn(S, s) == Cardinality({i \in 1 .. Len(s) : s[i] \in S})

\* What the argument needs of TypeOK
Types ==
  /\ sock \in [QP -> {"none", "alive", "closed", "gone"}]
  /\ hw \in [QP -> {"none", "RTS", "ERR", "destroyed"}]
  /\ dead \in [QP -> BOOLEAN]
  /\ sq \in [QP -> Seq(Requests)]
  /\ tx_cq \in Seq(TxCompletion)
  /\ qp_conns \in [QP -> {"absent", "conn", "null"}]
  /\ dead_queue_pairs \in Seq(QP)
  /\ done \in BOOLEAN
  /\ pc \in {"tx", "tx_event", "tx_callback", "rx", "idle", "delete", "exited"}
  /\ batch \in Seq(TxCompletion)
  /\ tx_chunks \in Seq(QP)
  /\ dead_qps \in Seq(QP)
  /\ sent \in [QP -> Nat]
  /\ returned \in [QP -> Nat]

\* Where the polling thread is and what it holds; how it may have ended
Phase ==
  /\ pc \notin {"tx_event", "tx_callback"} => batch = <<>> /\ tx_chunks = <<>>
  /\ pc = "tx_callback" => batch # <<>>
  /\ pc = "delete" <=> dead_qps # <<>>
  /\ done => \A q \in QP : sock[q] \in {"none", "gone"}
  /\ pc = "exited" => done /\ num_qp_conn = 0 /\ dead_queue_pairs = <<>>

Awaits(q) == In(q, dead_queue_pairs) \/ In(q, dead_qps)

\* A queue pair that exists is registered or awaits its deletion, not both.
Stage(q) ==
  /\ sock[q] = "none" <=> hw[q] = "none"
  /\ qp_conns[q] = "conn" <=> sock[q] \in {"alive", "closed"}
  /\ hw[q] \in {"RTS", "ERR"} <=> q \in Registered \/ Awaits(q)
  /\ ~(q \in Registered /\ Awaits(q))

Stages ==
  /\ \A q \in QP : Stage(q)
  /\ Once(dead_queue_pairs) /\ Once(dead_qps)
  /\ \A q \in QP : ~(In(q, dead_queue_pairs) /\ In(q, dead_qps))
  /\ IsFiniteSet(Registered) /\ num_qp_conn = Cardinality(Registered)

\* The completions of sends on their way to handle_tx_event
Pipe == batch \o tx_cq

\* A beacon is the last request of its queue pair, wherever it is; it is there
\* only when the socket is gone, and not after the queue pair left the map.
Beacon(q) ==
  /\ dead[q] => sock[q] = "gone"
  /\ \A i \in 1 .. Len(sq[q]) : sq[q][i] = "beacon" => sock[q] = "gone" /\ i = Len(sq[q])
  /\ \A i \in 1 .. Len(Pipe) : Pipe[i].qp = q /\ Pipe[i].wr = "beacon" =>
       sock[q] = "gone" /\ sq[q] = <<>>
  /\ dead[q] /\ q \notin Registered =>
       sq[q] = <<>> /\ \A i \in 1 .. Len(Pipe) : Pipe[i].qp # q
  /\ dead[q] /\ hw[q] = "destroyed" => ~In(q, tx_chunks)

Beacons ==
  /\ \A q \in QP : Beacon(q)
  /\ \A i, j \in 1 .. Len(Pipe) : i < j /\ Pipe[i].wr = "beacon" => Pipe[j].qp # Pipe[i].qp

ChunksOf(q) == {wc \in TxCompletion : wc.qp = q /\ wc.wr = "chunk"}

\* A chunk that was sent is in the send queue, on its way, collected or returned
Conserved ==
  \A q \in QP :
    sent[q] = CountIn({"chunk"}, sq[q]) + CountIn(ChunksOf(q), Pipe)
              + CountIn({q}, tx_chunks) + returned[q]

IInv == Types /\ Phase /\ Stages /\ Beacons /\ Conserved

----------------------------------------------------------------------------
(* Sequences *)

LEMMA LenZero ==
  ASSUME NEW S, NEW s \in Seq(S)
  PROVE  Len(s) \in Nat /\ (Len(s) = 0 <=> s = <<>>)
OBVIOUS

LEMMA AppendIn ==
  ASSUME NEW S, NEW s \in Seq(S), NEW x \in S
  PROVE  /\ Append(s, x) \in Seq(S) /\ Len(Append(s, x)) = Len(s) + 1 /\ Len(s) \in Nat
         /\ \A i \in 1 .. Len(s) : i \in 1 .. Len(Append(s, x)) /\ Append(s, x)[i] = s[i]
         /\ Append(s, x)[Len(s) + 1] = x /\ Len(s) + 1 \in 1 .. Len(Append(s, x))
         /\ \A i \in 1 .. Len(Append(s, x)) : i \in 1 .. Len(s) \/ i = Len(s) + 1
         /\ \A e : In(e, Append(s, x)) <=> In(e, s) \/ e = x
<1>1. /\ Append(s, x) \in Seq(S) /\ Len(Append(s, x)) = Len(s) + 1 /\ Len(s) \in Nat
      /\ \A i \in 1 .. Len(s) : Append(s, x)[i] = s[i]
      /\ Append(s, x)[Len(s) + 1] = x
  OBVIOUS
<1>2. /\ \A i \in 1 .. Len(Append(s, x)) : i \in 1 .. Len(s) \/ i = Len(s) + 1
      /\ \A i \in 1 .. Len(s) : i \in 1 .. Len(Append(s, x))
      /\ Len(s) + 1 \in 1 .. Len(Append(s, x))
  BY <1>1
<1>3. \A e : In(e, Append(s, x)) <=> In(e, s) \/ e = x
  BY <1>1, <1>2, Zenon DEF In
<1> QED
  BY <1>1, <1>2, <1>3, Zenon

LEMMA TailIn ==
  ASSUME NEW S, NEW s \in Seq(S), s # <<>>
  PROVE  /\ Tail(s) \in Seq(S) /\ Head(s) \in S /\ Len(s) \in Nat \ {0}
         /\ Len(Tail(s)) = Len(s) - 1
         /\ \A i \in 1 .. Len(Tail(s)) : i + 1 \in 1 .. Len(s) /\ Tail(s)[i] = s[i + 1]
         /\ Head(s) = s[1] /\ 1 \in 1 .. Len(s)
         /\ \A e : In(e, s) <=> e = Head(s) \/ In(e, Tail(s))
<1>1. /\ Tail(s) \in Seq(S) /\ Head(s) \in S /\ Len(s) \in Nat \ {0}
      /\ Len(Tail(s)) = Len(s) - 1
      /\ \A i \in 1 .. Len(Tail(s)) : i + 1 \in 1 .. Len(s) /\ Tail(s)[i] = s[i + 1]
      /\ Head(s) = s[1] /\ 1 \in 1 .. Len(s)
  OBVIOUS
<1>2. ASSUME NEW e, NEW i \in 1 .. Len(s), s[i] = e, i # 1
      PROVE  In(e, Tail(s))
  <2>1. i - 1 \in 1 .. Len(Tail(s)) /\ Tail(s)[i - 1] = e
    BY <1>1, <1>2
  <2> QED
    BY <2>1, Zenon DEF In
<1>3. \A e : In(e, s) <=> e = Head(s) \/ In(e, Tail(s))
  BY <1>1, <1>2, ZenonT(90) DEF In
<1> QED
  BY <1>1, <1>3, Zenon

LEMMA OnceAppend ==
  ASSUME NEW S, NEW s \in Seq(S), NEW x \in S, Once(s), ~In(x, s)
  PROVE  Once(Append(s, x))
<1>1. SUFFICES ASSUME NEW i \in 1 .. Len(Append(s, x)), NEW j \in 1 .. Len(Append(s, x)),
                      Append(s, x)[i] = Append(s, x)[j]
               PROVE  i = j
  BY Zenon DEF Once
<1>2. (i \in 1 .. Len(s) \/ i = Len(s) + 1) /\ (j \in 1 .. Len(s) \/ j = Len(s) + 1)
  BY AppendIn, Zenon
<1>3. CASE i \in 1 .. Len(s) /\ j \in 1 .. Len(s)
  BY <1>1, <1>3, AppendIn DEF Once
<1>4. CASE i = Len(s) + 1 /\ j \in 1 .. Len(s)
  BY <1>1, <1>4, AppendIn, SMTT(60) DEF In
<1>5. CASE i \in 1 .. Len(s) /\ j = Len(s) + 1
  BY <1>1, <1>5, AppendIn DEF In
<1> QED
  BY <1>2, <1>3, <1>4, <1>5, Zenon

LEMMA OnceTail ==
  ASSUME NEW S, NEW s \in Seq(S), s # <<>>, Once(s)
  PROVE  Once(Tail(s)) /\ ~In(Head(s), Tail(s))
<1>1. ASSUME NEW i \in 1 .. Len(Tail(s)), NEW j \in 1 .. Len(Tail(s)), Tail(s)[i] = Tail(s)[j]
      PROVE  i = j
  <2>1. i + 1 = j + 1
    BY <1>1, TailIn, SMTT(60) DEF Once
  <2> QED
    BY <2>1
<1>2. ASSUME NEW i \in 1 .. Len(Tail(s)), Tail(s)[i] = Head(s)
      PROVE  FALSE
  <2>1. i + 1 = 1
    BY <1>2, TailIn, SMTT(60) DEF Once
  <2> QED
    BY <2>1
<1> QED
  BY <1>1, <1>2, Zenon DEF Once, In

LEMMA ConcatAppend ==
  ASSUME NEW S, NEW r \in Seq(S), NEW s \in Seq(S), NEW x \in S
  PROVE  r \o Append(s, x) = Append(r \o s, x)
<1>1. <<x>> \in Seq(S) /\ r \o s \in Seq(S)
  BY ConcatProperties
<1>2. Append(s, x) = s \o <<x>> /\ Append(r \o s, x) = (r \o s) \o <<x>>
  BY <1>1, AppendIsConcat, Zenon
<1> QED
  BY <1>1, <1>2, ConcatAssociative, SMTT(60)

LEMMA ConcatTail ==
  ASSUME NEW S, NEW r \in Seq(S), NEW s \in Seq(S), r # <<>>
  PROVE  /\ r \o s # <<>> /\ Head(r \o s) = Head(r)
         /\ Tail(r) \o s = Tail(r \o s)
<1>1. r \o s \in Seq(S) /\ Tail(r) \in Seq(S) /\ r \o s # <<>>
  BY ConcatProperties, ConcatEqualIffEmpty, HeadTailProperties
<1>2. Tail(r) \o s \in Seq(S) /\ Tail(r \o s) \in Seq(S)
  BY <1>1, ConcatProperties, HeadTailProperties, Zenon
<1>3. Len(r) \in Nat \ {0} /\ Len(s) \in Nat
  OBVIOUS
<1>4. Len(Tail(r) \o s) = Len(Tail(r \o s))
  BY <1>1, <1>2, <1>3, ConcatProperties, HeadTailProperties, SMTT(60)
<1>5. ASSUME NEW i \in 1 .. Len(Tail(r) \o s)
      PROVE  (Tail(r) \o s)[i] = Tail(r \o s)[i]
  BY <1>1, <1>2, <1>3, <1>4, ConcatProperties, HeadTailProperties, SMTT(60)
<1>6. Head(r \o s) = Head(r)
  BY <1>1, <1>3, ConcatProperties, SMTT(60)
<1>7. Tail(r) \o s = Tail(r \o s)
  BY <1>2, <1>4, <1>5, SeqEqual, Zenon
<1> QED
  BY <1>1, <1>6, <1>7, Zenon

----------------------------------------------------------------------------
(* Counting the elements of a sequence that are in a set *)

LEMMA CountType ==
  ASSUME NEW S, NEW T, NEW s \in Seq(T)
  PROVE  /\ CountIn(S, s) \in Nat
         /\ IsFiniteSet({i \in 1 .. Len(s) : s[i] \in S})
         /\ (\A i \in 1 .. Len(s) : s[i] \notin S) => CountIn(S, s) = 0
<1>1. IsFiniteSet(1 .. Len(s))
  BY FS_Interval, LenProperties
<1>2. IsFiniteSet({i \in 1 .. Len(s) : s[i] \in S})
  BY <1>1, FS_Subset, Zenon
<1>3. ASSUME \A i \in 1 .. Len(s) : s[i] \notin S
      PROVE  {i \in 1 .. Len(s) : s[i] \in S} = {}
  BY <1>3, Zenon
<1> QED
  BY <1>2, <1>3, FS_CardinalityType, FS_EmptySet, Zenon DEF CountIn

LEMMA CountEmpty ==
  ASSUME NEW S
  PROVE  CountIn(S, <<>>) = 0
<1>1. {i \in 1 .. Len(<<>>) : <<>>[i] \in S} = {}
  BY EmptySeq
<1> QED
  BY <1>1, FS_EmptySet, Zenon DEF CountIn

LEMMA CountAppend ==
  ASSUME NEW S, NEW T, NEW s \in Seq(T), NEW x \in T
  PROVE  CountIn(S, Append(s, x)) = CountIn(S, s) + (IF x \in S THEN 1 ELSE 0)
<1> DEFINE A == {i \in 1 .. Len(s) : s[i] \in S}
           B == {i \in 1 .. Len(Append(s, x)) : Append(s, x)[i] \in S}
<1>1. IsFiniteSet(A) /\ Cardinality(A) \in Nat /\ CountIn(S, s) = Cardinality(A)
  BY CountType, FS_CardinalityType, Zenon DEF CountIn
<1>2. Len(s) + 1 \notin A
  BY AppendIn
<1>3. CASE x \in S
  <2>1. B = A \cup {Len(s) + 1}
    BY <1>3, AppendIn
  <2> HIDE DEF A, B
  <2>2. Cardinality(B) = Cardinality(A) + 1
    BY <1>1, <1>2, <2>1, FS_AddElement, Zenon
  <2> QED
    BY <1>1, <1>3, <2>2, Zenon DEF CountIn, B
<1>4. CASE x \notin S
  <2>1. B = A
    BY <1>4, AppendIn
  <2>2. CountIn(S, Append(s, x)) = Cardinality(B)
    BY Zenon DEF CountIn
  <2> HIDE DEF A, B
  <2> QED
    BY <1>1, <1>4, <2>1, <2>2, SMTT(60)
<1> QED
  BY <1>3, <1>4, Zenon

LEMMA CountTail ==
  ASSUME NEW S, NEW T, NEW s \in Seq(T), s # <<>>
  PROVE  CountIn(S, s) = CountIn(S, Tail(s)) + (IF Head(s) \in S THEN 1 ELSE 0)
<1> DEFINE A == {i \in 1 .. Len(Tail(s)) : Tail(s)[i] \in S}
           B == {i \in 1 .. Len(s) : s[i] \in S}
           C == B \ {1}
           f == [i \in A |-> i + 1]
<1>1. IsFiniteSet(A) /\ IsFiniteSet(B) /\ Cardinality(A) \in Nat
      /\ CountIn(S, Tail(s)) = Cardinality(A) /\ CountIn(S, s) = Cardinality(B)
  BY TailIn, CountType, FS_CardinalityType, ZenonT(90) DEF CountIn
<1>2. /\ \A i \in A : i + 1 \in C
      /\ \A i, j \in A : i + 1 = j + 1 => i = j
      /\ \A i \in C : i - 1 \in A /\ (i - 1) + 1 = i
  BY TailIn
<1>3. f \in Bijection(A, C)
  <2> HIDE DEF A, C
  <2> QED
    BY <1>2, Zenon DEF Bijection, Injection, Surjection, IsInjective
<1>4. Cardinality(C) = Cardinality(A)
  <2> HIDE DEF A, C, f
  <2>1. ExistsBijection(A, C)
    BY <1>3, Zenon DEF ExistsBijection
  <2> QED
    BY <1>1, <2>1, FS_Bijection, Zenon
<1>5. CASE Head(s) \in S
  <2>1. 1 \in B
    BY <1>5, TailIn, Zenon
  <2> HIDE DEF A, B
  <2>2. Cardinality(C) = Cardinality(B) - 1 /\ Cardinality(B) \in Nat
    BY <1>1, <2>1, FS_RemoveElement, FS_CardinalityType, Zenon
  <2> QED
    BY <1>1, <1>4, <1>5, <2>2
<1>6. CASE Head(s) \notin S
  <2>1. C = B
    BY <1>6, TailIn
  <2> HIDE DEF A, B, C
  <2> QED
    BY <1>1, <1>4, <1>6, <2>1
<1> QED
  BY <1>5, <1>6, Zenon

----------------------------------------------------------------------------
(* Types and phases *)

LEMMA OccurrencesCount ==
  ASSUME NEW q, NEW T, NEW s \in Seq(T)
  PROVE  Occurrences(q, s) = CountIn({q}, s) /\ Occurrences(q, s) \in Nat
<1>1. {i \in 1 .. Len(s) : s[i] = q} = {i \in 1 .. Len(s) : s[i] \in {q}}
  BY Zenon
<1>2. Occurrences(q, s) = CountIn({q}, s)
  BY <1>1, Zenon DEF Occurrences, CountIn
<1> QED
  BY <1>2, CountType, Zenon

\* The completions that poll_cq takes and leaves
LEMMA PollSplits ==
  ASSUME Types, PollTx
  PROVE  /\ batch' \in Seq(TxCompletion) /\ tx_cq' \in Seq(TxCompletion)
         /\ batch' \o tx_cq' = tx_cq
         /\ (pc' = "rx" /\ batch' = <<>>) \/ pc' = "tx_event"
<1> DEFINE n == IF Len(tx_cq) < MaxCompletions THEN Len(tx_cq) ELSE MaxCompletions
<1>1. tx_cq \in Seq(TxCompletion) /\ Len(tx_cq) \in Nat
  BY DEF Types
<1>2. n \in 0 .. Len(tx_cq) /\ n \in Nat
  BY <1>1, DispatcherAssumption
<1>3. /\ batch' = SubSeq(tx_cq, 1, n) /\ tx_cq' = SubSeq(tx_cq, n + 1, Len(tx_cq))
      /\ pc' = IF n = 0 THEN "rx" ELSE "tx_event"
  BY Zenon DEF PollTx
<1> HIDE DEF n
<1>4. SubSeq(tx_cq, 1, n) \in Seq(TxCompletion)
  BY <1>1, <1>2, SubSeqProperties, SMTT(60)
<1>5. SubSeq(tx_cq, n + 1, Len(tx_cq)) \in Seq(TxCompletion)
  BY <1>1, <1>2, SubSeqProperties
<1>6. SubSeq(tx_cq, 1, n) \o SubSeq(tx_cq, n + 1, Len(tx_cq)) = SubSeq(tx_cq, 1, Len(tx_cq))
  <2>1. 1 \in 1 .. Len(tx_cq) + 1 /\ n \in 1 - 1 .. Len(tx_cq) /\ Len(tx_cq) \in n .. Len(tx_cq)
    BY <1>1, <1>2
  <2> QED
    BY <1>1, <2>1, ConcatAdjacentSubSeq, Zenon
<1>7. SubSeq(tx_cq, 1, Len(tx_cq)) = tx_cq
  BY <1>1, SubSeqFull, Zenon
<1>8. n = 0 => SubSeq(tx_cq, 1, n) = <<>>
  BY SubSeqEmpty
<1> QED
  BY <1>3, <1>4, <1>5, <1>6, <1>7, <1>8, Zenon

LEMMA BatchHead ==
  ASSUME Types, batch # <<>>
  PROVE  /\ Tail(batch) \in Seq(TxCompletion) /\ Head(batch) \in TxCompletion
         /\ Head(batch).qp \in QP /\ Head(batch).wr \in Requests
<1>1. Tail(batch) \in Seq(TxCompletion) /\ Head(batch) \in TxCompletion
  BY TailIn, Zenon DEF Types
<1> QED
  BY <1>1, Zenon DEF TxCompletion

LEMMA EnqueueTypes ==
  ASSUME Types, NEW q \in QP, EnqueueDead(q)
  PROVE  /\ qp_conns' \in [QP -> {"absent", "conn", "null"}]
         /\ dead_queue_pairs' \in Seq(QP)
<1>1. Append(dead_queue_pairs, q) \in Seq(QP)
  BY AppendIn, Zenon DEF Types
<1> QED
  BY <1>1, Zenon DEF Types, EnqueueDead, mapVars

\* Every action keeps the types.
LEMMA TypeStep ==
  ASSUME Types, Phase, [Next]_vars
  PROVE  Types'
<1> USE DEF workVars, cqVars, mapVars, pollVars
<1>1. ASSUME NEW q \in QP, Complete(q)
      PROVE  Types'
  <2>1. sq[q] \in Seq(Requests) /\ sq[q] # <<>>
    BY <1>1, Zenon DEF Complete, Types
  <2>2. Tail(sq[q]) \in Seq(Requests) /\ Head(sq[q]) \in Requests
    BY <2>1, TailIn, Zenon
  <2>3. sq' \in [QP -> Seq(Requests)]
    BY <1>1, <2>2, Zenon DEF Complete, Types
  <2>4. hw' \in [QP -> {"none", "RTS", "ERR", "destroyed"}]
    BY <1>1, SMTT(60) DEF Complete, Types
  <2>5. tx_cq' \in Seq(TxCompletion)
    <3>1. PICK ok \in BOOLEAN : tx_cq' = Append(tx_cq, [qp |-> q, wr |-> Head(sq[q]), ok |-> ok])
      BY <1>1, Zenon DEF Complete
    <3>2. [qp |-> q, wr |-> Head(sq[q]), ok |-> ok] \in TxCompletion
      BY <2>2, Zenon DEF TxCompletion
    <3> QED
      BY <3>1, <3>2, AppendIn, SMTT(60) DEF Types
  <2> QED
    BY <1>1, <2>3, <2>4, <2>5, Zenon DEF Complete, Types
<1>2. ASSUME NEW q \in QP, FlushReceive(q) \/ Arrive(q)
      PROVE  Types'
  BY <1>2, ZenonT(90) DEF FlushReceive, Arrive, Types
<1>3. ASSUME NEW q \in QP, Create(q)
      PROVE  Types'
  BY <1>3, Zenon DEF Create, Types
<1>4. ASSUME NEW q \in QP, PostSend(q)
      PROVE  Types'
  <2>1. Append(sq[q], "chunk") \in Seq(Requests)
    BY AppendIn DEF Types, Requests
  <2> QED
    BY <1>4, <2>1, SMTT(60) DEF PostSend, Types
<1>5. ASSUME NEW q \in QP, Close(q)
      PROVE  Types'
  <2>1. Append(sq[q], "fin") \in Seq(Requests)
    BY AppendIn DEF Types, Requests
  <2> QED
    BY <1>5, <2>1, ZenonT(90) DEF Close, Types
<1>6. ASSUME NEW q \in QP, Destroy(q)
      PROVE  Types'
  <2>1. Append(sq[q], "beacon") \in Seq(Requests)
    BY AppendIn DEF Types, Requests
  <2>2. /\ hw' \in [QP -> {"none", "RTS", "ERR", "destroyed"}]
        /\ sq' \in [QP -> Seq(Requests)] /\ dead' \in [QP -> BOOLEAN]
    <3>1. CASE to_dead(q)
      BY <2>1, <3>1, Zenon DEF to_dead, Types
    <3>2. CASE to_dead_fails(q)
      BY <3>2, Zenon DEF to_dead_fails, Types
    <3> QED
      BY <1>6, <3>1, <3>2, Zenon DEF Destroy
  <2>3. /\ qp_conns' \in [QP -> {"absent", "conn", "null"}]
        /\ dead_queue_pairs' \in Seq(QP)
    BY <1>6, EnqueueTypes, Zenon DEF Destroy, Types
  <2> QED
    BY <1>6, <2>2, <2>3, Zenon DEF Destroy, Types
<1>7. CASE Stop
  BY <1>7, Zenon DEF Stop, Types
<1>8. CASE PollTx
  BY <1>8, PollSplits, Zenon DEF PollTx, Types
<1>9. CASE TxBeacon
  <2>1. Tail(batch) \in Seq(TxCompletion) /\ Head(batch).qp \in QP
    BY <1>9, BatchHead, Zenon DEF TxBeacon
  <2>2. /\ qp_conns' \in [QP -> {"absent", "conn", "null"}]
        /\ dead_queue_pairs' \in Seq(QP)
    BY <1>9, <2>1, EnqueueTypes, Zenon DEF TxBeacon
  <2> QED
    BY <1>9, <2>1, <2>2, Zenon DEF TxBeacon, Types
<1>10. CASE TxFailure \/ TxLookup
  BY <1>10, Zenon DEF TxFailure, TxLookup, Die, Types
<1>11. CASE TxCallback
  <2>1. Tail(batch) \in Seq(TxCompletion) /\ Head(batch).qp \in QP
    BY <1>11, BatchHead, Zenon DEF TxCallback, Phase
  <2>2. Append(tx_chunks, Head(batch).qp) \in Seq(QP)
    BY <2>1, AppendIn DEF Types
  <2> QED
    BY <1>11, <2>1, <2>2, Zenon DEF TxCallback, Die, Types
<1>12. CASE PostTxBuffer
  <2>1. <<>> \in Seq(QP) /\ \A q \in QP : Occurrences(q, tx_chunks) \in Nat
    BY EmptySeq, OccurrencesCount, Zenon DEF Types
  <2>2. returned' \in [QP -> Nat]
    BY <1>12, <2>1, SMTT(60) DEF PostTxBuffer, Types
  <2> QED
    BY <1>12, <2>1, <2>2, Zenon DEF PostTxBuffer, Types
<1>13. CASE PollRx
  BY <1>13, Zenon DEF PollRx, Die, Types
<1>14. CASE Idle
  <2>1. <<>> \in Seq(QP)
    BY EmptySeq, Zenon
  <2> QED
    BY <1>14, <2>1, Zenon DEF Idle, NextRound, Types
<1>15. CASE DeleteQP
  <2>1. Tail(dead_qps) \in Seq(QP) /\ Head(dead_qps) \in QP
    BY <1>15, TailIn, Zenon DEF DeleteQP, Types, Phase
  <2> QED
    BY <1>15, <2>1, Zenon DEF DeleteQP, NextRound, Types
<1>16. CASE UNCHANGED vars
  BY <1>16, Zenon DEF vars, Types
<1> QED
  BY <1>1, <1>2, <1>3, <1>4, <1>5, <1>6, <1>7, <1>8, <1>9, <1>10, <1>11, <1>12, <1>13, <1>14, <1>15,
     <1>16, ZenonT(90) DEF Next, Device, Poll, Ended

\* Every action keeps the phases of the polling thread.
LEMMA PhaseStep ==
  ASSUME Types, Phase, [Next]_vars
  PROVE  Phase'
<1> USE DEF workVars, cqVars, mapVars, pollVars
<1>1. ASSUME NEW q \in QP, Complete(q) \/ FlushReceive(q) \/ Arrive(q) \/ PostSend(q)
      PROVE  Phase'
  BY <1>1 DEF Complete, FlushReceive, Arrive, PostSend, Phase
<1>2. ASSUME NEW q \in QP, Create(q)
      PROVE  Phase'
  BY <1>2, Zenon DEF Create, Phase, Types
<1>3. ASSUME NEW q \in QP, Close(q) \/ Destroy(q)
      PROVE  Phase'
  <2>1. ~done
    BY <1>3, Zenon DEF Close, Destroy, Phase
  <2>2. pc # "exited" /\ UNCHANGED <<pc, batch, tx_chunks, dead_qps, done>>
    BY <1>3, <2>1, Zenon DEF Close, Destroy, Phase
  <2> QED
    BY <2>1, <2>2, Zenon DEF Phase
<1>4. CASE Stop
  BY <1>4, Zenon DEF Stop, Phase
<1>5. CASE PollTx
  BY <1>5, PollSplits, Zenon DEF PollTx, Phase
<1>6. CASE TxBeacon
  BY <1>6, Zenon DEF TxBeacon, Phase
<1>7. CASE TxFailure \/ TxLookup
  BY <1>7 DEF TxFailure, TxLookup, Die, Phase
<1>8. CASE TxCallback
  BY <1>8, Zenon DEF TxCallback, Die, Phase
<1>9. CASE PostTxBuffer
  BY <1>9, Zenon DEF PostTxBuffer, Phase
<1>10. CASE PollRx
  BY <1>10, Zenon DEF PollRx, Die, Phase
<1>11. CASE Idle
  BY <1>11, Zenon DEF Idle, NextRound, Phase
<1>12. CASE DeleteQP
  BY <1>12, Zenon DEF DeleteQP, NextRound, Phase
<1>13. CASE UNCHANGED vars
  BY <1>13, Zenon DEF vars, Phase
<1> QED
  BY <1>1, <1>2, <1>3, <1>4, <1>5, <1>6, <1>7, <1>8, <1>9, <1>10, <1>11, <1>12, <1>13, ZenonT(90)
     DEF Next, Device, Poll, Ended

----------------------------------------------------------------------------
(* The stages of a queue pair *)

\* A queue pair that leaves the map is queued for its deletion.
LEMMA EnqueueStages ==
  ASSUME Types, Stages, NEW q \in QP, EnqueueDead(q), UNCHANGED dead_qps,
         sock[q] # "none", sock'[q] = "gone",
         hw'[q] = hw[q] \/ (hw[q] \in {"RTS", "ERR"} /\ hw'[q] = "ERR"),
         \A p \in QP : p # q => sock'[p] = sock[p] /\ hw'[p] = hw[p]
  PROVE  Stages'
<1>1. CASE q \in Registered
  <2>1. /\ dead_queue_pairs' = Append(dead_queue_pairs, q)
        /\ qp_conns' = [qp_conns EXCEPT ![q] = "absent"]
        /\ num_qp_conn' = num_qp_conn - 1
    BY <1>1, Zenon DEF EnqueueDead
  <2>2. ~Awaits(q) /\ hw[q] \in {"RTS", "ERR"}
    BY <1>1, Zenon DEF Stages, Stage
  <2>3. Registered' = Registered \ {q} /\ qp_conns'[q] = "absent"
        /\ \A p \in QP : p # q => qp_conns'[p] = qp_conns[p]
    BY <2>1, Zenon DEF Registered, Types
  <2>4. \A p : In(p, dead_queue_pairs') <=> In(p, dead_queue_pairs) \/ p = q
    BY <2>1, AppendIn DEF Types
  <2>5. \A p : In(p, dead_qps)' <=> In(p, dead_qps)
    BY Zenon DEF In
  <2>6. Once(dead_queue_pairs)' /\ Once(dead_qps)'
    <3>1. Once(Append(dead_queue_pairs, q))
      BY <2>2, OnceAppend, Zenon DEF Types, Stages, Awaits
    <3> QED
      BY <2>1, <3>1, Zenon DEF Stages, Once
  <2>7. \A p \in QP : ~(In(p, dead_queue_pairs)' /\ In(p, dead_qps)')
    BY <2>2, <2>4, <2>5, Zenon DEF Stages, Awaits
  <2>8. \A p \in QP : Stage(p)'
    <3>1. \A p \in QP : Awaits(p)' <=> Awaits(p) \/ p = q
      BY <2>4, <2>5, Zenon DEF Awaits
    <3> QED
      BY <2>2, <2>3, <3>1 DEF Stages, Stage
  <2>9. IsFiniteSet(Registered)' /\ num_qp_conn' = Cardinality(Registered)'
    BY <1>1, <2>1, <2>3, FS_RemoveElement, Zenon DEF Stages
  <2> QED
    BY <2>6, <2>7, <2>8, <2>9, Zenon DEF Stages
<1>2. CASE q \notin Registered
  <2>1. UNCHANGED <<qp_conns, num_qp_conn, dead_queue_pairs>>
    BY <1>2, Zenon DEF EnqueueDead, mapVars
  <2>2. Registered' = Registered /\ \A p \in QP : Awaits(p)' <=> Awaits(p)
    BY <2>1, Zenon DEF Registered, Awaits, In
  <2>3. \A p \in QP : Stage(p)'
    BY <1>2, <2>1, <2>2, SMTT(60) DEF Stages, Stage, Registered
  <2> QED
    BY <2>1, <2>2, <2>3 DEF Stages, Once, In
<1> QED
  BY <1>1, <1>2, Zenon

LEMMA SameStages ==
  ASSUME Stages, UNCHANGED <<qp_conns, num_qp_conn, dead_queue_pairs, dead_qps>>,
         \A q \in QP : /\ sock'[q] = "none" <=> sock[q] = "none"
                       /\ sock'[q] \in {"alive", "closed"} <=> sock[q] \in {"alive", "closed"}
                       /\ hw'[q] = hw[q] \/ (hw[q] \in {"RTS", "ERR"} /\ hw'[q] = "ERR")
  PROVE  Stages'
<1>1. Registered' = Registered /\ \A p \in QP : Awaits(p)' <=> Awaits(p)
  BY Zenon DEF Registered, Awaits, In
<1>2. \A p \in QP : Stage(p)'
  BY <1>1, ZenonT(90) DEF Stages, Stage
<1> QED
  BY <1>1, <1>2 DEF Stages, Once, In

LEMMA PipeType ==
  ASSUME Types
  PROVE  Pipe \in Seq(TxCompletion)
  BY ConcatProperties, Zenon DEF Types, Pipe

\* handle_tx_event takes the first completion of the batch.
LEMMA PipeTail ==
  ASSUME Types, batch # <<>>
  PROVE  /\ Pipe # <<>> /\ Head(batch) = Head(Pipe) /\ Tail(batch) \o tx_cq = Tail(Pipe)
         /\ 1 \in 1 .. Len(Pipe) /\ Pipe[1] = Head(batch)
<1>1. Pipe # <<>> /\ Head(batch) = Head(Pipe) /\ Tail(batch) \o tx_cq = Tail(Pipe)
  BY ConcatTail, ZenonT(90) DEF Types, Pipe
<1> QED
  BY <1>1, PipeType, TailIn, Zenon

\* The device completes a request.
LEMMA CompletePipe ==
  ASSUME Types, NEW q \in QP, Complete(q)
  PROVE  \E wc \in TxCompletion : wc.qp = q /\ wc.wr = Head(sq[q]) /\ Pipe' = Append(Pipe, wc)
<1>1. PICK ok \in BOOLEAN : tx_cq' = Append(tx_cq, [qp |-> q, wr |-> Head(sq[q]), ok |-> ok])
  BY Zenon DEF Complete
<1> DEFINE wc == [qp |-> q, wr |-> Head(sq[q]), ok |-> ok]
<1>2. Head(sq[q]) \in Requests
  BY TailIn, Zenon DEF Complete, Types
<1>3. wc \in TxCompletion /\ wc.qp = q /\ wc.wr = Head(sq[q])
  BY <1>2, Zenon DEF TxCompletion
<1>4. tx_cq' = Append(tx_cq, wc) /\ batch' = batch
  BY <1>1, Zenon DEF Complete, pollVars
<1> HIDE DEF wc
<1>5. batch \in Seq(TxCompletion) /\ tx_cq \in Seq(TxCompletion)
  BY Zenon DEF Types
<1>6. batch \o Append(tx_cq, wc) = Append(batch \o tx_cq, wc)
  BY <1>3, <1>5, ConcatAppend
<1>7. Pipe' = Append(Pipe, wc)
  BY <1>4, <1>6, Zenon DEF Pipe
<1> QED
  BY <1>3, <1>7, Zenon

\* Every action keeps the stages.
LEMMA StagesStep ==
  ASSUME Types, Phase, Stages, Beacons, [Next]_vars
  PROVE  Stages'
<1> USE DEF workVars, cqVars, mapVars, pollVars
<1>1. ASSUME NEW q \in QP, Complete(q)
      PROVE  Stages'
  <2>1. \A p \in QP : hw'[p] = hw[p] \/ (hw[p] \in {"RTS", "ERR"} /\ hw'[p] = "ERR")
    BY <1>1, Zenon DEF Complete, Types
  <2> QED
    BY <1>1, <2>1, SameStages, Zenon DEF Complete
<1>2. ASSUME NEW q \in QP, FlushReceive(q) \/ Arrive(q) \/ PostSend(q)
      PROVE  Stages'
  BY <1>2, SameStages, Zenon DEF FlushReceive, Arrive, PostSend
<1>3. ASSUME NEW q \in QP, Close(q)
      PROVE  Stages'
  <2>1. \A p \in QP : /\ sock'[p] = "none" <=> sock[p] = "none"
                      /\ sock'[p] \in {"alive", "closed"} <=> sock[p] \in {"alive", "closed"}
    BY <1>3, Zenon DEF Close, Types
  <2> QED
    BY <1>3, <2>1, SameStages, Zenon DEF Close
<1>4. ASSUME NEW q \in QP, Create(q)
      PROVE  Stages'
  <2>1. /\ sock'[q] = "alive" /\ hw'[q] = "RTS" /\ qp_conns'[q] = "conn"
        /\ num_qp_conn' = num_qp_conn + 1
        /\ UNCHANGED <<dead_queue_pairs, dead_qps>>
        /\ \A p \in QP : p # q => /\ sock'[p] = sock[p] /\ hw'[p] = hw[p]
                                  /\ qp_conns'[p] = qp_conns[p]
    BY <1>4, Zenon DEF Create, Types
  <2>2. hw[q] = "none" /\ q \notin Registered /\ ~Awaits(q)
    BY <1>4, Zenon DEF Create, Stages, Stage
  <2>3. Registered' = Registered \cup {q}
    BY <2>1, Zenon DEF Registered
  <2>4. \A p \in QP : Awaits(p)' <=> Awaits(p)
    BY <2>1, Zenon DEF Awaits, In
  <2>5. \A p \in QP : Stage(p)'
    BY <2>1, <2>2, <2>3, <2>4, SMTT(60) DEF Stages, Stage
  <2>6. IsFiniteSet(Registered)' /\ num_qp_conn' = Cardinality(Registered)'
    BY <2>1, <2>2, <2>3, FS_AddElement, Zenon DEF Stages
  <2> QED
    BY <2>1, <2>5, <2>6, SMTT(60) DEF Stages, Once, In
<1>5. ASSUME NEW q \in QP, Destroy(q)
      PROVE  Stages'
  <2>1. /\ sock[q] \in {"alive", "closed"} /\ sock'[q] = "gone" /\ UNCHANGED dead_qps
        /\ \A p \in QP : p # q => sock'[p] = sock[p]
    BY <1>5, Zenon DEF Destroy, Types
  <2>2. qp_conns[q] = "conn" /\ q \in Registered /\ hw[q] \in {"RTS", "ERR"} /\ ~Awaits(q)
    BY <2>1, Zenon DEF Stages, Stage, Registered
  <2>3. CASE to_dead_fails(q) /\ EnqueueDead(q)
    <3>1. /\ hw'[q] = hw[q] \/ hw'[q] = "ERR"
          /\ \A p \in QP : p # q => hw'[p] = hw[p]
      BY <2>3, Zenon DEF to_dead_fails, Types
    <3> QED
      BY <2>1, <2>2, <2>3, <3>1, EnqueueStages, Zenon
  <2>4. CASE /\ to_dead(q) /\ qp_conns' = [qp_conns EXCEPT ![q] = "null"]
             /\ UNCHANGED <<num_qp_conn, dead_queue_pairs>>
    <3>1. /\ hw'[q] = "ERR" /\ qp_conns'[q] = "null"
          /\ \A p \in QP : p # q => hw'[p] = hw[p] /\ qp_conns'[p] = qp_conns[p]
      BY <2>4, Zenon DEF to_dead, Types
    <3>2. Registered' = Registered
      BY <2>2, <3>1, Zenon DEF Registered
    <3>3. \A p \in QP : Awaits(p)' <=> Awaits(p)
      BY <2>1, <2>4, ZenonT(90) DEF Awaits, In
    <3>4. \A p \in QP : Stage(p)'
      BY <2>1, <2>2, <3>1, <3>2, <3>3, SMTT(60) DEF Stages, Stage
    <3> QED
      BY <2>1, <2>4, <3>2, <3>4, SMTT(60) DEF Stages, Once, In
  <2> QED
    BY <1>5, <2>3, <2>4, Zenon DEF Destroy
<1>6. CASE TxBeacon
  <2>1. Head(batch).qp \in QP /\ batch # <<>> /\ Head(batch).wr = "beacon"
    BY <1>6, BatchHead, Zenon DEF TxBeacon
  <2>2. sock[Head(batch).qp] = "gone"
    BY <2>1, PipeTail, Zenon DEF Beacons, Beacon
  <2> QED
    BY <1>6, <2>1, <2>2, EnqueueStages, Zenon DEF TxBeacon
<1>7. CASE Idle
  <2>1. CASE idle /\ dead_queue_pairs # <<>>
    <3>1. /\ dead_qps' = dead_queue_pairs /\ dead_queue_pairs' = <<>> /\ dead_qps = <<>>
          /\ UNCHANGED <<sock, hw, qp_conns, num_qp_conn>>
      BY <1>7, <2>1, Zenon DEF Idle, Phase
    <3>2. \A p : ~In(p, <<>>)
      BY EmptySeq DEF In
    <3>3. /\ Registered' = Registered
          /\ \A p : In(p, dead_queue_pairs)' <=> In(p, <<>>)
          /\ \A p : In(p, dead_qps)' <=> In(p, dead_queue_pairs)
      BY <3>1, Zenon DEF Registered, In
    <3>4. \A p \in QP : Awaits(p)' <=> Awaits(p)
      BY <3>1, <3>2, <3>3, Zenon DEF Awaits
    <3>5. \A p \in QP : Stage(p)'
      BY <3>1, <3>3, <3>4, Zenon DEF Stages, Stage
    <3>6. Once(dead_queue_pairs)' /\ Once(dead_qps)'
      BY <3>1, EmptySeq DEF Stages, Once
    <3> QED
      BY <3>1, <3>2, <3>3, <3>5, <3>6, Zenon DEF Stages
  <2>2. CASE ~(idle /\ dead_queue_pairs # <<>>)
    BY <1>7, <2>2, SameStages, Zenon DEF Idle
  <2> QED
    BY <2>1, <2>2, Zenon
<1>8. CASE DeleteQP
  <2> DEFINE q == Head(dead_qps)
  <2>1. dead_qps # <<>> /\ q \in QP /\ In(q, dead_qps)
    BY <1>8, TailIn, Zenon DEF DeleteQP, Phase, Types
  <2>2. /\ hw'[q] = "destroyed" /\ dead_qps' = Tail(dead_qps)
        /\ UNCHANGED <<sock, qp_conns, num_qp_conn, dead_queue_pairs>>
        /\ \A p \in QP : p # q => hw'[p] = hw[p]
    BY <1>8, <2>1, Zenon DEF DeleteQP, Types
  <2>3. Once(Tail(dead_qps)) /\ ~In(q, Tail(dead_qps))
    BY <2>1, OnceTail, Zenon DEF Types, Stages
  <2>4. /\ Registered' = Registered
        /\ \A p : In(p, dead_queue_pairs)' <=> In(p, dead_queue_pairs)
        /\ \A p : In(p, dead_qps)' <=> In(p, dead_qps) /\ p # q
    <3>1. \A p : In(p, dead_qps) <=> p = q \/ In(p, Tail(dead_qps))
      BY <2>1, TailIn, Zenon DEF Types
    <3> QED
      BY <2>2, <2>3, <3>1, Zenon DEF Registered, In
  <2>5. hw[q] \in {"RTS", "ERR"} /\ q \notin Registered /\ ~In(q, dead_queue_pairs) /\ sock[q] # "none"
    BY <2>1, Zenon DEF Stages, Stage, Awaits
  <2>6. \A p \in QP : Awaits(p)' <=> Awaits(p) /\ p # q
    BY <2>4, <2>5, Zenon DEF Awaits
  <2> HIDE DEF q
  <2>7. \A p \in QP : Stage(p)'
    BY <2>1, <2>2, <2>4, <2>5, <2>6, Zenon DEF Stages, Stage
  <2>8. Once(dead_queue_pairs)' /\ Once(dead_qps)'
    BY <2>2, <2>3, ZenonT(90) DEF Stages, Once
  <2> QED
    BY <2>2, <2>4, <2>7, <2>8, Zenon DEF Stages
<1>9. CASE \/ Stop \/ PollTx \/ TxFailure \/ TxLookup \/ TxCallback \/ PostTxBuffer \/ PollRx
           \/ UNCHANGED vars
  <2>1. UNCHANGED <<sock, hw, qp_conns, num_qp_conn, dead_queue_pairs, dead_qps>>
    BY <1>9, Zenon DEF Stop, PollTx, TxFailure, TxLookup, TxCallback, PostTxBuffer, PollRx, Die, vars
  <2> QED
    BY <2>1, SameStages, Zenon
<1> QED
  BY <1>1, <1>2, <1>3, <1>4, <1>5, <1>6, <1>7, <1>8, <1>9, ZenonT(90) DEF Next, Device, Poll, Ended

----------------------------------------------------------------------------
(* The beacon stays behind the other requests of its queue pair *)

\* Steps that move no request and make none
LEMMA SameBeacons ==
  ASSUME Beacons, UNCHANGED <<dead, sq>>, Pipe' = Pipe, tx_chunks' \in {tx_chunks, <<>>},
         \A q \in QP : /\ sock[q] = "gone" => sock'[q] = "gone"
                       /\ dead[q] /\ q \notin Registered' => q \notin Registered
                       /\ hw'[q] = "destroyed" => hw[q] = "destroyed"
  PROVE  Beacons'
<1>1. \A q \in QP : In(q, tx_chunks') => In(q, tx_chunks)
  BY EmptySeq DEF In
<1>2. ASSUME NEW q \in QP
      PROVE  Beacon(q)'
  <2>1. Beacon(q)
    BY Zenon DEF Beacons
  <2>2. dead'[q] => sock'[q] = "gone"
    BY <2>1, Zenon DEF Beacon
  <2>3. \A i \in 1 .. Len(sq'[q]) : sq'[q][i] = "beacon" => sock'[q] = "gone" /\ i = Len(sq'[q])
    BY <2>1, Zenon DEF Beacon
  <2>4. \A i \in 1 .. Len(Pipe') : Pipe'[i].qp = q /\ Pipe'[i].wr = "beacon" =>
          sock'[q] = "gone" /\ sq'[q] = <<>>
    BY <2>1, Zenon DEF Beacon
  <2>5. dead'[q] /\ q \notin Registered' =>
          sq'[q] = <<>> /\ \A i \in 1 .. Len(Pipe') : Pipe'[i].qp # q
    BY <2>1, Zenon DEF Beacon
  <2>6. dead'[q] /\ hw'[q] = "destroyed" => ~In(q, tx_chunks')
    BY <1>1, <2>1, Zenon DEF Beacon
  <2> QED
    BY <2>2, <2>3, <2>4, <2>5, <2>6, Zenon DEF Beacon, In
<1> QED
  BY <1>2, Zenon DEF Beacons

\* A completion is handled; when it is a beacon, none of its queue pair follows.
LEMMA TailBeacons ==
  ASSUME Types, Beacons, batch # <<>>, Pipe' = Tail(Pipe), UNCHANGED <<dead, sq, sock, hw>>,
         \A q \in QP : dead[q] /\ q \notin Registered' =>
           q \notin Registered \/ (q = Head(batch).qp /\ Head(batch).wr = "beacon"),
         \A q \in QP : dead[q] /\ hw[q] = "destroyed" => ~In(q, tx_chunks')
  PROVE  Beacons'
<1>1. /\ Pipe \in Seq(TxCompletion) /\ Pipe # <<>> /\ Pipe[1] = Head(batch) /\ 1 \in 1 .. Len(Pipe)
  BY PipeType, PipeTail, Zenon
<1>2. \A i \in 1 .. Len(Pipe') : i + 1 \in 1 .. Len(Pipe) /\ 1 < i + 1 /\ Pipe'[i] = Pipe[i + 1]
  BY <1>1, TailIn
<1>3. \A i, j \in 1 .. Len(Pipe') : i < j /\ Pipe'[i].wr = "beacon" => Pipe'[j].qp # Pipe'[i].qp
  <2> SUFFICES ASSUME NEW i \in 1 .. Len(Pipe'), NEW j \in 1 .. Len(Pipe'), i < j,
                      Pipe'[i].wr = "beacon"
               PROVE  Pipe'[j].qp # Pipe'[i].qp
    BY Zenon
  <2>1. i + 1 < j + 1
    OBVIOUS
  <2>2. Pipe'[i] = Pipe[i + 1] /\ Pipe'[j] = Pipe[j + 1]
    BY <1>2, Zenon
  <2>3. i + 1 \in 1 .. Len(Pipe) /\ j + 1 \in 1 .. Len(Pipe)
    BY <1>2, Zenon
  <2> QED
    BY <2>1, <2>2, <2>3, Zenon DEF Beacons
<1>4. ASSUME NEW q \in QP
      PROVE  Beacon(q)'
  <2>1. Beacon(q)
    BY Zenon DEF Beacons
  <2>2. \A i \in 1 .. Len(Pipe') : Pipe'[i].qp = q /\ Pipe'[i].wr = "beacon" =>
          sock'[q] = "gone" /\ sq'[q] = <<>>
    BY <1>2, <2>1, ZenonT(90) DEF Beacon
  <2>3. ASSUME dead[q], q \notin Registered'
        PROVE  sq[q] = <<>> /\ \A i \in 1 .. Len(Pipe') : Pipe'[i].qp # q
    <3>1. CASE q \notin Registered
      BY <1>2, <2>1, <2>3, <3>1, SMTT(60) DEF Beacon
    <3>2. CASE q = Head(batch).qp /\ Head(batch).wr = "beacon"
      <4>1. sq[q] = <<>>
        BY <1>1, <2>1, <3>2, Zenon DEF Beacon
      <4> QED
        BY <1>1, <1>2, <3>2, <4>1, SMTT(60) DEF Beacons
    <3> QED
      BY <2>3, <3>1, <3>2, Zenon
  <2> QED
    BY <2>1, <2>2, <2>3, Zenon DEF Beacon, In
<1> QED
  BY <1>3, <1>4, Zenon DEF Beacons

\* A request is posted on a queue pair whose socket is not gone, a beacon only
\* by to_dead.
LEMMA PostBeacons ==
  ASSUME Types, Beacons, NEW q \in QP, NEW r \in Requests, sock[q] # "gone", Pipe' = Pipe,
         UNCHANGED tx_chunks, sq' = [sq EXCEPT ![q] = Append(@, r)],
         \A p \in QP : p # q => /\ sock'[p] = sock[p] /\ dead'[p] = dead[p] /\ hw'[p] = hw[p]
                                /\ p \in Registered' <=> p \in Registered,
         \/ r # "beacon" /\ dead' = dead
         \/ sock'[q] = "gone" /\ hw'[q] # "destroyed" /\ q \in Registered'
  PROVE  Beacons'
<1>1. Beacon(q) /\ sq[q] \in Seq(Requests)
  BY Zenon DEF Beacons, Types
<1>2. ~dead[q] /\ \A i \in 1 .. Len(sq[q]) : sq[q][i] # "beacon"
  BY <1>1, Zenon DEF Beacon
<1>3. \A i \in 1 .. Len(Pipe) : Pipe[i].qp = q => Pipe[i].wr # "beacon"
  BY <1>1, Zenon DEF Beacon
<1>4. sq'[q] = Append(sq[q], r) /\ \A p \in QP : p # q => sq'[p] = sq[p]
  BY Zenon DEF Types
<1>5. \A i \in 1 .. Len(sq'[q]) : sq'[q][i] = "beacon" => r = "beacon" /\ i = Len(sq'[q])
  BY <1>1, <1>2, <1>4, AppendIn, SMTT(60)
<1>6. Beacon(q)'
  BY <1>2, <1>3, <1>5, ZenonT(90) DEF Beacon
<1>7. ASSUME NEW p \in QP, p # q
      PROVE  Beacon(p)'
  BY <1>4, <1>7 DEF Beacons, Beacon, In
<1> QED
  BY <1>6, <1>7, Zenon DEF Beacons

\* The device completes the first request of a queue pair.
LEMMA CompleteBeacons ==
  ASSUME Types, Stages, Beacons, NEW q \in QP, Complete(q)
  PROVE  Beacons'
<1> USE DEF workVars, cqVars, mapVars, pollVars
<1>1. sq[q] \in Seq(Requests) /\ sq[q] # <<>> /\ Beacon(q) /\ Pipe \in Seq(TxCompletion)
  BY PipeType, Zenon DEF Complete, Types, Beacons
<1>2. PICK wc \in TxCompletion : wc.qp = q /\ wc.wr = Head(sq[q]) /\ Pipe' = Append(Pipe, wc)
  BY CompletePipe, Zenon
<1>3. wc.qp = q /\ wc.wr = Head(sq[q])
  BY <1>2, Zenon
<1>4. Pipe' = Append(Pipe, wc)
  BY <1>2, Zenon
<1>5. /\ \A i \in 1 .. Len(Pipe) : Pipe'[i] = Pipe[i]
      /\ \A i \in 1 .. Len(Pipe') : i \in 1 .. Len(Pipe) \/ Pipe'[i] = wc
      /\ \A i, j \in 1 .. Len(Pipe') : i < j => i \in 1 .. Len(Pipe)
  BY <1>1, <1>3, <1>4, AppendIn, SMTT(60)
<1>6. /\ sq'[q] = Tail(sq[q]) /\ \A p \in QP : p # q => sq'[p] = sq[p]
      /\ UNCHANGED <<dead, sock, qp_conns, tx_chunks>>
      /\ \A p \in QP : hw'[p] = "destroyed" => hw[p] = "destroyed"
  BY Zenon DEF Complete, Types
<1>7. Registered' = Registered /\ \A p : In(p, tx_chunks') <=> In(p, tx_chunks)
  BY <1>6, Zenon DEF Registered, In
<1>8. \A i \in 1 .. Len(Pipe) : ~(Pipe[i].qp = q /\ Pipe[i].wr = "beacon")
  BY <1>1, Zenon DEF Beacon
<1>9. \A i, j \in 1 .. Len(Pipe') : i < j /\ Pipe'[i].wr = "beacon" => Pipe'[j].qp # Pipe'[i].qp
  BY <1>3, <1>5, <1>8, Zenon DEF Beacons
<1>10. Head(sq[q]) = "beacon" => sock[q] = "gone" /\ Tail(sq[q]) = <<>>
  <2>1. Head(sq[q]) = "beacon" => sock[q] = "gone" /\ 1 = Len(sq[q])
    BY <1>1, TailIn, Zenon DEF Beacon
  <2>2. Len(Tail(sq[q])) = Len(sq[q]) - 1 /\ Tail(sq[q]) \in Seq(Requests)
    BY <1>1, TailIn, Zenon
  <2>3. Len(Tail(sq[q])) = 0 <=> Tail(sq[q]) = <<>>
    BY <2>2, LenZero, Zenon
  <2> QED
    BY <2>1, <2>2, <2>3, SMTT(60)
<1>11. \A i \in 1 .. Len(sq'[q]) : sq'[q][i] = "beacon" => sock[q] = "gone" /\ i = Len(sq'[q])
  <2>1. /\ \A i \in 1 .. Len(Tail(sq[q])) : i + 1 \in 1 .. Len(sq[q]) /\ Tail(sq[q])[i] = sq[q][i + 1]
        /\ Len(Tail(sq[q])) = Len(sq[q]) - 1 /\ Len(sq[q]) \in Nat
    BY <1>1, TailIn, Zenon
  <2>2. \A i \in 1 .. Len(Tail(sq[q])) : Tail(sq[q])[i] = "beacon" => sock[q] = "gone" /\ i + 1 = Len(sq[q])
    BY <1>1, <2>1, Zenon DEF Beacon
  <2>3. \A i \in 1 .. Len(Tail(sq[q])) : i + 1 = Len(sq[q]) => i = Len(Tail(sq[q]))
    BY <2>1
  <2> QED
    BY <1>6, <2>2, <2>3, Zenon
<1>12. Beacon(q)'
  <2>1. ~(dead[q] /\ q \notin Registered)
    BY <1>1, Zenon DEF Beacon
  <2>2. \A i \in 1 .. Len(Pipe') : Pipe'[i].qp = q /\ Pipe'[i].wr = "beacon" =>
          sock[q] = "gone" /\ sq'[q] = <<>>
    BY <1>3, <1>5, <1>6, <1>8, <1>10, Zenon
  <2> QED
    BY <1>1, <1>6, <1>7, <1>11, <2>1, <2>2, ZenonT(90) DEF Beacon
<1>13. ASSUME NEW p \in QP, p # q
       PROVE  Beacon(p)'
  <2>1. Beacon(p)
    BY Zenon DEF Beacons
  <2>2. \A i \in 1 .. Len(Pipe') : Pipe'[i].qp = p => i \in 1 .. Len(Pipe) /\ Pipe'[i] = Pipe[i]
    BY <1>3, <1>5, <1>13, Zenon
  <2> QED
    BY <1>6, <1>7, <1>13, <2>1, <2>2, ZenonT(90) DEF Beacon
<1> QED
  BY <1>9, <1>12, <1>13, Zenon DEF Beacons

\* Every action keeps the beacons in their place.
LEMMA BeaconsStep ==
  ASSUME Types, Phase, Stages, Beacons, [Next]_vars
  PROVE  Beacons'
<1> USE DEF workVars, cqVars, mapVars, pollVars
<1>1. ASSUME UNCHANGED <<dead, sq, sock, hw, qp_conns, tx_chunks, batch, tx_cq>>
      PROVE  Beacons'
  <2>1. Pipe' = Pipe /\ Registered' = Registered
    BY <1>1, Zenon DEF Pipe, Registered
  <2> QED
    BY <1>1, <2>1, SameBeacons, Zenon
<1>2. ASSUME NEW q \in QP, Complete(q)
      PROVE  Beacons'
  BY <1>2, CompleteBeacons, Zenon
<1>3. ASSUME NEW q \in QP, FlushReceive(q) \/ Arrive(q)
      PROVE  Beacons'
  BY <1>1, <1>3, Zenon DEF FlushReceive, Arrive
<1>4. ASSUME NEW q \in QP, Create(q)
      PROVE  Beacons'
  <2>1. Pipe' = Pipe /\ \A p \in Registered : p \in Registered'
    BY <1>4, Zenon DEF Create, Pipe, Registered, Types
  <2>2. \A p \in QP : /\ sock[p] = "gone" => sock'[p] = "gone"
                      /\ hw'[p] = "destroyed" => hw[p] = "destroyed"
    BY <1>4, Zenon DEF Create, Types
  <2> QED
    BY <1>4, <2>1, <2>2, SameBeacons, Zenon DEF Create
<1>5. ASSUME NEW q \in QP, PostSend(q)
      PROVE  Beacons'
  <2>1. Pipe' = Pipe /\ Registered' = Registered /\ sock[q] # "gone"
    BY <1>5, Zenon DEF PostSend, Pipe, Registered
  <2> QED
    BY <1>5, <2>1, PostBeacons, Zenon DEF PostSend, Requests
<1>6. ASSUME NEW q \in QP, Close(q)
      PROVE  Beacons'
  <2>1. /\ Pipe' = Pipe /\ Registered' = Registered /\ sock[q] # "gone"
        /\ \A p \in QP : /\ sock[p] = "gone" => sock'[p] = "gone"
                         /\ p # q => sock'[p] = sock[p]
    BY <1>6, Zenon DEF Close, Pipe, Registered, Types
  <2>2. CASE UNCHANGED sq
    BY <1>6, <2>1, <2>2, SameBeacons, Zenon DEF Close
  <2>3. CASE sq' = [sq EXCEPT ![q] = Append(@, "fin")]
    BY <1>6, <2>1, <2>3, PostBeacons, Zenon DEF Close, Requests
  <2> QED
    BY <1>6, <2>2, <2>3, Zenon DEF Close
<1>7. ASSUME NEW q \in QP, Destroy(q)
      PROVE  Beacons'
  <2>1. /\ Pipe' = Pipe /\ sock[q] # "gone" /\ sock'[q] = "gone" /\ UNCHANGED tx_chunks
        /\ \A p \in QP : p # q => sock'[p] = sock[p]
    BY <1>7, Zenon DEF Destroy, Pipe, Types
  <2>2. CASE to_dead(q) /\ qp_conns' = [qp_conns EXCEPT ![q] = "null"]
    <3>1. /\ hw'[q] = "ERR" /\ q \in Registered'
          /\ \A p \in QP : p # q => /\ dead'[p] = dead[p] /\ hw'[p] = hw[p]
                                    /\ p \in Registered' <=> p \in Registered
      BY <2>2, Zenon DEF to_dead, Registered, Types
    <3> QED
      BY <2>1, <2>2, <3>1, PostBeacons, Zenon DEF to_dead, Requests
  <2>3. CASE to_dead_fails(q) /\ EnqueueDead(q)
    <3>1. ~dead[q]
      BY <2>1, Zenon DEF Beacons, Beacon
    <3>2. \A p \in QP : p # q => (p \in Registered' <=> p \in Registered)
      BY <2>3, Zenon DEF EnqueueDead, Registered, Types, mapVars
    <3>3. \A p \in QP : hw'[p] = "destroyed" => hw[p] = "destroyed"
      BY <2>3, Zenon DEF to_dead_fails, Types
    <3> QED
      BY <2>1, <2>3, <3>1, <3>2, <3>3, SameBeacons, ZenonT(90) DEF to_dead_fails
  <2> QED
    BY <1>7, <2>2, <2>3, Zenon DEF Destroy
<1>8. CASE PollTx
  <2>1. Pipe' = Pipe
    <3>1. batch = <<>> /\ tx_cq \in Seq(TxCompletion)
      BY <1>8, Zenon DEF PollTx, Phase, Types
    <3>2. Pipe = tx_cq
      BY <3>1, ConcatEmptySeq, Zenon DEF Pipe
    <3> QED
      BY <1>8, <3>2, PollSplits, Zenon DEF Pipe
  <2> QED
    BY <1>8, <2>1, SameBeacons, Zenon DEF PollTx, Registered
<1>9. CASE TxBeacon
  <2>1. batch # <<>> /\ Head(batch).qp \in QP /\ Head(batch).wr = "beacon"
    BY <1>9, BatchHead, Zenon DEF TxBeacon
  <2>2. Pipe' = Tail(Pipe)
    BY <1>9, <2>1, PipeTail, Zenon DEF TxBeacon, Pipe
  <2>3. \A p \in QP : p # Head(batch).qp => (p \in Registered' <=> p \in Registered)
    BY <1>9, <2>1, Zenon DEF TxBeacon, EnqueueDead, Registered, Types
  <2>4. \A p \in QP : dead[p] /\ hw[p] = "destroyed" => ~In(p, tx_chunks')
    BY <1>9, Zenon DEF TxBeacon, Beacons, Beacon, In
  <2> QED
    BY <1>9, <2>1, <2>2, <2>3, <2>4, TailBeacons, Zenon DEF TxBeacon
<1>10. CASE TxCallback
  <2>1. CASE UNCHANGED <<workVars, cqVars, mapVars, pollVars>>
    BY <1>1, <2>1, Zenon
  <2>2. CASE /\ batch' = Tail(batch) /\ UNCHANGED <<workVars, cqVars, mapVars>>
             /\ tx_chunks' \in {tx_chunks, Append(tx_chunks, Head(batch).qp)}
    <3>1. batch # <<>> /\ Head(batch).qp \in QP
      BY <1>10, BatchHead, Zenon DEF TxCallback, Phase
    <3>2. Pipe' = Tail(Pipe) /\ Registered' = Registered
      BY <2>2, <3>1, PipeTail, ZenonT(90) DEF Pipe, Registered
    <3>3. \A p \in QP : dead[p] /\ hw[p] = "destroyed" => p # Head(batch).qp
      BY <3>1, PipeTail DEF Beacons, Beacon, Stages, Stage
    <3>4. \A p : In(p, tx_chunks') => In(p, tx_chunks) \/ p = Head(batch).qp
      <4>1. \A p : In(p, Append(tx_chunks, Head(batch).qp)) => In(p, tx_chunks) \/ p = Head(batch).qp
        BY <3>1, AppendIn DEF Types
      <4> QED
        BY <2>2, <4>1, Zenon
    <3>5. \A p \in QP : dead[p] /\ hw[p] = "destroyed" => ~In(p, tx_chunks')
      BY <3>3, <3>4, Zenon DEF Beacons, Beacon
    <3> QED
      BY <2>2, <3>1, <3>2, <3>5, TailBeacons, Zenon
  <2> QED
    BY <1>10, <2>1, <2>2, Zenon DEF TxCallback, Die
<1>11. CASE PostTxBuffer
  <2>1. Pipe' = Pipe /\ Registered' = Registered
    BY <1>11, Zenon DEF PostTxBuffer, Pipe, Registered
  <2> QED
    BY <1>11, <2>1, SameBeacons, Zenon DEF PostTxBuffer
<1>12. CASE DeleteQP
  <2>1. tx_chunks = <<>> /\ Pipe' = Pipe /\ Registered' = Registered
        /\ UNCHANGED <<dead, sq, sock, tx_chunks>>
    BY <1>12, Zenon DEF DeleteQP, Phase, Pipe, Registered
  <2>2. \A p : ~In(p, tx_chunks')
    BY <2>1, EmptySeq, SMTT(60) DEF In
  <2>3. ASSUME NEW p \in QP
        PROVE  Beacon(p)'
    BY <2>1, <2>2, Zenon DEF Beacons, Beacon
  <2> QED
    BY <2>1, <2>3, Zenon DEF Beacons
<1>13. CASE Stop \/ TxFailure \/ TxLookup \/ PollRx \/ Idle \/ UNCHANGED vars
  <2>1. UNCHANGED <<dead, sq, sock, hw, qp_conns, tx_chunks, batch, tx_cq>>
    BY <1>13, Zenon DEF Stop, TxFailure, TxLookup, PollRx, Idle, Die, vars
  <2> QED
    BY <1>1, <2>1, Zenon
<1> QED
  BY <1>2, <1>3, <1>4, <1>5, <1>6, <1>7, <1>8, <1>9, <1>10, <1>11, <1>12, <1>13, ZenonT(90)
     DEF Next, Device, Poll, Ended

----------------------------------------------------------------------------
(* No chunk is lost on its way *)

\* A chunk's completion is counted for its queue pair only.
LEMMA ChunkIn ==
  ASSUME NEW wc \in TxCompletion, NEW q \in QP
  PROVE  wc \in ChunksOf(q) <=> wc.qp = q /\ wc.wr = "chunk"
  BY Zenon DEF ChunksOf

\* Where a queue pair has nothing to add
LEMMA AddZero ==
  ASSUME NEW a \in Nat
  PROVE  a + 0 = a
  OBVIOUS

\* What one more completion, or one more chunk to return, adds to the counts
LEMMA CountMore ==
  ASSUME NEW p \in QP
  PROVE  /\ \A s \in Seq(TxCompletion), wc \in TxCompletion :
              CountIn(ChunksOf(p), Append(s, wc))
              = CountIn(ChunksOf(p), s) + (IF wc \in ChunksOf(p) THEN 1 ELSE 0)
         /\ \A s \in Seq(QP), q \in QP :
              CountIn({p}, Append(s, q)) = CountIn({p}, s) + (IF q \in {p} THEN 1 ELSE 0)
  BY CountAppend

LEMMA CountTypes ==
  ASSUME Types, NEW q \in QP
  PROVE  /\ CountIn({"chunk"}, sq[q]) \in Nat /\ CountIn(ChunksOf(q), Pipe) \in Nat
         /\ CountIn({q}, tx_chunks) \in Nat /\ sent[q] \in Nat /\ returned[q] \in Nat
<1>1. CountIn({"chunk"}, sq[q]) \in Nat
  BY CountType, Zenon DEF Types
<1>2. CountIn(ChunksOf(q), Pipe) \in Nat
  BY PipeType, CountType, Zenon
<1>3. CountIn({q}, tx_chunks) \in Nat
  BY CountType, Zenon DEF Types
<1> QED
  BY <1>1, <1>2, <1>3, Zenon DEF Types

\* A request is posted: it counts as sent when it is a chunk.
LEMMA PostConserved ==
  ASSUME Types, Conserved, NEW q \in QP, NEW r \in Requests, sq' = [sq EXCEPT ![q] = Append(@, r)],
         UNCHANGED <<batch, tx_cq, tx_chunks, returned>>,
         sent' = IF r = "chunk" THEN [sent EXCEPT ![q] = @ + 1] ELSE sent
  PROVE  Conserved'
<1>1. \A p \in QP : IF p = q THEN sq'[p] = Append(sq[q], r) ELSE sq'[p] = sq[p]
  BY Zenon DEF Types
<1>2. \A p \in QP : sent'[p] = sent[p] + (IF p = q /\ r = "chunk" THEN 1 ELSE 0)
  BY SMTT(60) DEF Types
<1>3. CountIn({"chunk"}, Append(sq[q], r)) = CountIn({"chunk"}, sq[q]) + (IF r = "chunk" THEN 1 ELSE 0)
  BY CountAppend DEF Types
<1>4. ASSUME NEW p \in QP
      PROVE  CountIn({"chunk"}, sq'[p])
             = CountIn({"chunk"}, sq[p]) + (IF p = q /\ r = "chunk" THEN 1 ELSE 0)
  <2>1. CASE p = q
    BY <1>1, <1>3, <2>1, Zenon
  <2>2. CASE p # q
    <3>1. CountIn({"chunk"}, sq[p]) \in Nat
      BY CountTypes, Zenon
    <3> QED
      BY <1>1, <2>2, <3>1, SMTT(60)
  <2> QED
    BY <2>1, <2>2, Zenon
<1>5. Pipe' = Pipe
  BY Zenon DEF Pipe
<1>6. ASSUME NEW p \in QP
      PROVE  sent'[p] = CountIn({"chunk"}, sq'[p]) + CountIn(ChunksOf(p), Pipe')
                        + CountIn({p}, tx_chunks') + returned'[p]
  <2>1. sent[p] = CountIn({"chunk"}, sq[p]) + CountIn(ChunksOf(p), Pipe)
                  + CountIn({p}, tx_chunks) + returned[p]
    BY Zenon DEF Conserved
  <2>2. /\ CountIn({"chunk"}, sq[p]) \in Nat /\ CountIn(ChunksOf(p), Pipe) \in Nat
        /\ CountIn({p}, tx_chunks) \in Nat /\ returned[p] \in Nat
    BY CountTypes, Zenon
  <2> QED
    BY <1>2, <1>4, <1>5, <2>1, <2>2, SMTT(60)
<1> QED
  BY <1>6, Zenon DEF Conserved, CountIn, ChunksOf

\* A chunk goes from the send queue to the completion queue.
LEMMA CompleteConserved ==
  ASSUME Types, Conserved, NEW q \in QP, Complete(q)
  PROVE  Conserved'
<1> USE DEF workVars, cqVars, mapVars, pollVars
<1>1. sq[q] \in Seq(Requests) /\ sq[q] # <<>>
  BY Zenon DEF Complete, Types
<1>2. PICK wc \in TxCompletion : wc.qp = q /\ wc.wr = Head(sq[q]) /\ Pipe' = Append(Pipe, wc)
  BY CompletePipe, Zenon
<1>3. wc.qp = q /\ wc.wr = Head(sq[q])
  BY <1>2, Zenon
<1>4. Pipe' = Append(Pipe, wc)
  BY <1>2, Zenon
<1>5. /\ \A p \in QP : IF p = q THEN sq'[p] = Tail(sq[q]) ELSE sq'[p] = sq[p]
      /\ UNCHANGED <<tx_chunks, sent, returned>>
  BY Zenon DEF Complete, Types
<1>6. /\ CountIn({"chunk"}, sq[q])
         = CountIn({"chunk"}, Tail(sq[q])) + (IF Head(sq[q]) = "chunk" THEN 1 ELSE 0)
      /\ CountIn({"chunk"}, Tail(sq[q])) \in Nat
  <2>1. Tail(sq[q]) \in Seq(Requests)
    BY <1>1, TailIn, Zenon
  <2>2. CountIn({"chunk"}, Tail(sq[q])) \in Nat
    BY <2>1, CountType, Zenon
  <2>3. CountIn({"chunk"}, sq[q])
        = CountIn({"chunk"}, Tail(sq[q])) + (IF Head(sq[q]) \in {"chunk"} THEN 1 ELSE 0)
    BY <1>1, CountTail, Zenon
  <2> QED
    BY <2>2, <2>3, Zenon
<1>7. ASSUME NEW p \in QP
      PROVE  CountIn(ChunksOf(p), Pipe')
             = CountIn(ChunksOf(p), Pipe) + (IF p = q /\ Head(sq[q]) = "chunk" THEN 1 ELSE 0)
  <2>1. wc \in TxCompletion /\ Pipe \in Seq(TxCompletion)
    BY <1>2, PipeType, Zenon
  <2>2. CountIn(ChunksOf(p), Append(Pipe, wc))
        = CountIn(ChunksOf(p), Pipe) + (IF wc \in ChunksOf(p) THEN 1 ELSE 0)
    BY <2>1, CountMore, ZenonT(90)
  <2>3. wc \in ChunksOf(p) <=> p = q /\ Head(sq[q]) = "chunk"
    BY <1>3, <2>1, ChunkIn, Zenon
  <2> QED
    BY <1>4, <2>2, <2>3, Zenon
<1>8. ASSUME NEW p \in QP
      PROVE  sent'[p] = CountIn({"chunk"}, sq'[p]) + CountIn(ChunksOf(p), Pipe')
                        + CountIn({p}, tx_chunks') + returned'[p]
  <2>1. sent[p] = CountIn({"chunk"}, sq[p]) + CountIn(ChunksOf(p), Pipe)
                  + CountIn({p}, tx_chunks) + returned[p]
    BY Zenon DEF Conserved
  <2>2. CASE p = q
    <3> DEFINE e == IF Head(sq[q]) = "chunk" THEN 1 ELSE 0
    <3>1. e \in Nat
      BY Zenon
    <3>2. /\ CountIn({"chunk"}, sq[q]) = CountIn({"chunk"}, sq'[q]) + e
          /\ CountIn({"chunk"}, sq'[q]) \in Nat
      BY <1>5, <1>6, Zenon
    <3>3. CountIn(ChunksOf(q), Pipe') = CountIn(ChunksOf(q), Pipe) + e
      BY <1>7, Zenon
    <3> HIDE DEF e
    <3>4. sent[q] = (CountIn({"chunk"}, sq'[q]) + e) + CountIn(ChunksOf(q), Pipe)
                    + CountIn({q}, tx_chunks) + returned[q]
      BY <2>1, <2>2, <3>2, Zenon
    <3>5. sent[q] = CountIn({"chunk"}, sq'[q]) + (CountIn(ChunksOf(q), Pipe) + e)
                    + CountIn({q}, tx_chunks) + returned[q]
      <4> DEFINE a == CountIn({"chunk"}, sq'[q])
                 b == CountIn(ChunksOf(q), Pipe)
                 c == CountIn({q}, tx_chunks)
                 d == returned[q]
      <4>1. a \in Nat /\ b \in Nat /\ c \in Nat /\ d \in Nat /\ sent[q] = (a + e) + b + c + d
        BY <3>2, <3>4, CountTypes, Zenon
      <4> HIDE DEF a, b, c, d
      <4>2. sent[q] = a + (b + e) + c + d
        BY <3>1, <4>1
      <4> QED
        BY <4>2, Zenon DEF a, b, c, d
    <3> QED
      BY <1>5, <2>2, <3>3, <3>5, Zenon
  <2>3. CASE p # q
    <3>1. CountIn(ChunksOf(p), Pipe') = CountIn(ChunksOf(p), Pipe)
      BY <1>7, <2>3, CountTypes, Zenon, AddZero
    <3> QED
      BY <1>5, <2>1, <2>3, <3>1, Zenon
  <2> QED
    BY <2>2, <2>3, Zenon
<1> QED
  BY <1>8, Zenon DEF Conserved, CountIn, ChunksOf

\* A completion is handled: when it is a chunk's, the chunk is collected.
LEMMA TailConserved ==
  ASSUME Types, Conserved, batch # <<>>, batch' = Tail(batch), UNCHANGED <<tx_cq, sq, sent, returned>>,
         tx_chunks' = IF Head(batch).wr = "chunk" THEN Append(tx_chunks, Head(batch).qp) ELSE tx_chunks
  PROVE  Conserved'
<1> DEFINE wc == Head(batch)
<1>1. Pipe' = Tail(Pipe) /\ Pipe # <<>> /\ Head(Pipe) = wc /\ wc \in TxCompletion /\ wc.qp \in QP
  BY PipeTail, BatchHead, Zenon DEF Pipe
<1> HIDE DEF wc
<1>2. ASSUME NEW p \in QP
      PROVE  /\ CountIn(ChunksOf(p), Pipe)
                = CountIn(ChunksOf(p), Pipe') + (IF p = wc.qp /\ wc.wr = "chunk" THEN 1 ELSE 0)
             /\ CountIn(ChunksOf(p), Pipe') \in Nat
  <2>1. Pipe \in Seq(TxCompletion) /\ Tail(Pipe) \in Seq(TxCompletion)
    BY <1>1, PipeType, TailIn, Zenon
  <2>2. CountIn(ChunksOf(p), Tail(Pipe)) \in Nat
    BY <2>1, CountType, Zenon
  <2>3. CountIn(ChunksOf(p), Pipe)
        = CountIn(ChunksOf(p), Tail(Pipe)) + (IF wc \in ChunksOf(p) THEN 1 ELSE 0)
    BY <1>1, <2>1, CountTail, Zenon
  <2> QED
    BY <1>1, <2>2, <2>3, ChunkIn, Zenon
<1>3. ASSUME NEW p \in QP
      PROVE  CountIn({p}, tx_chunks')
             = CountIn({p}, tx_chunks) + (IF p = wc.qp /\ wc.wr = "chunk" THEN 1 ELSE 0)
  <2>1. CountIn({p}, Append(tx_chunks, wc.qp)) = CountIn({p}, tx_chunks) + (IF wc.qp = p THEN 1 ELSE 0)
    <3>1. tx_chunks \in Seq(QP)
      BY Zenon DEF Types
    <3>2. CountIn({p}, Append(tx_chunks, wc.qp))
          = CountIn({p}, tx_chunks) + (IF wc.qp \in {p} THEN 1 ELSE 0)
      BY <1>1, <3>1, CountMore, ZenonT(90)
    <3> QED
      BY <3>2, Zenon
  <2>2. CASE wc.wr = "chunk"
    BY <2>1, <2>2, Zenon DEF wc
  <2>3. CASE wc.wr # "chunk"
    <3>1. CountIn({p}, tx_chunks) \in Nat /\ tx_chunks' = tx_chunks
      BY <2>3, CountTypes, Zenon DEF wc
    <3> QED
      BY <2>3, <3>1
  <2> QED
    BY <2>2, <2>3, Zenon
<1>4. ASSUME NEW p \in QP
      PROVE  sent'[p] = CountIn({"chunk"}, sq'[p]) + CountIn(ChunksOf(p), Pipe')
                        + CountIn({p}, tx_chunks') + returned'[p]
  <2>1. sent[p] = CountIn({"chunk"}, sq[p]) + CountIn(ChunksOf(p), Pipe)
                  + CountIn({p}, tx_chunks) + returned[p]
    BY Zenon DEF Conserved
  <2>2. CountIn({"chunk"}, sq[p]) \in Nat /\ CountIn({p}, tx_chunks) \in Nat /\ returned[p] \in Nat
    BY CountTypes, Zenon
  <2> QED
    BY <1>2, <1>3, <2>1, <2>2, SMTT(60)
<1> QED
  BY <1>4, Zenon DEF Conserved, CountIn, ChunksOf

\* Steps that move no chunk
LEMMA SameConserved ==
  ASSUME Conserved, Pipe' = Pipe, UNCHANGED <<sq, tx_chunks, sent, returned>>
  PROVE  Conserved'
<1>1. \A p \in QP : sent'[p] = CountIn({"chunk"}, sq'[p]) + CountIn(ChunksOf(p), Pipe')
                               + CountIn({p}, tx_chunks') + returned'[p]
  BY Zenon DEF Conserved
<1> QED
  BY <1>1, Zenon DEF Conserved, CountIn, ChunksOf

\* Every action keeps the account of the chunks.
LEMMA ConservedStep ==
  ASSUME Types, Phase, Conserved, [Next]_vars
  PROVE  Conserved'
<1> USE DEF workVars, cqVars, mapVars, pollVars
<1>1. ASSUME UNCHANGED <<batch, tx_cq, sq, tx_chunks, sent, returned>>
      PROVE  Conserved'
  BY <1>1, SameConserved, Zenon DEF Pipe
<1>2. ASSUME NEW q \in QP, Complete(q)
      PROVE  Conserved'
  BY <1>2, CompleteConserved, Zenon
<1>3. ASSUME NEW q \in QP, FlushReceive(q) \/ Arrive(q) \/ Create(q)
      PROVE  Conserved'
  BY <1>1, <1>3, Zenon DEF FlushReceive, Arrive, Create
<1>4. ASSUME NEW q \in QP, PostSend(q)
      PROVE  Conserved'
  BY <1>4, PostConserved, Zenon DEF PostSend, Requests
<1>5. ASSUME NEW q \in QP, Close(q)
      PROVE  Conserved'
  <2>1. CASE UNCHANGED sq
    BY <1>1, <1>5, <2>1, Zenon DEF Close
  <2>2. CASE sq' = [sq EXCEPT ![q] = Append(@, "fin")]
    BY <1>5, <2>2, PostConserved, Zenon DEF Close, Requests
  <2> QED
    BY <1>5, <2>1, <2>2, Zenon DEF Close
<1>6. ASSUME NEW q \in QP, Destroy(q)
      PROVE  Conserved'
  <2>1. CASE to_dead(q)
    BY <1>6, <2>1, PostConserved, Zenon DEF Destroy, to_dead, Requests
  <2>2. CASE to_dead_fails(q)
    BY <1>1, <1>6, <2>2, Zenon DEF Destroy, to_dead_fails
  <2> QED
    BY <1>6, <2>1, <2>2, Zenon DEF Destroy
<1>7. CASE PollTx
  <2>1. batch = <<>> /\ tx_cq \in Seq(TxCompletion)
    BY <1>7, Zenon DEF PollTx, Phase, Types
  <2>2. Pipe = tx_cq
    BY <2>1, ConcatEmptySeq, Zenon DEF Pipe
  <2>3. Pipe' = Pipe
    BY <1>7, <2>2, PollSplits, Zenon DEF Pipe
  <2> QED
    BY <1>7, <2>3, SameConserved, Zenon DEF PollTx
<1>8. CASE TxBeacon
  BY <1>8, TailConserved, Zenon DEF TxBeacon
<1>9. CASE TxCallback
  <2>1. CASE UNCHANGED <<workVars, cqVars, mapVars, pollVars>>
    BY <1>1, <2>1, Zenon
  <2>2. CASE /\ batch' = Tail(batch) /\ UNCHANGED <<workVars, cqVars, returned>>
             /\ tx_chunks' = IF Head(batch).wr = "chunk"
                             THEN Append(tx_chunks, Head(batch).qp) ELSE tx_chunks
    BY <1>9, <2>2, TailConserved, Zenon DEF TxCallback, Phase
  <2> QED
    BY <1>9, <2>1, <2>2, Zenon DEF TxCallback, Die
<1>10. CASE PostTxBuffer
  <2>1. /\ tx_chunks' = <<>> /\ UNCHANGED <<batch, tx_cq, sq, sent>>
        /\ returned' = [q \in QP |-> returned[q] + Occurrences(q, tx_chunks)]
    BY <1>10, Zenon DEF PostTxBuffer
  <2>2. Pipe' = Pipe
    BY <2>1, Zenon DEF Pipe
  <2>3. ASSUME NEW q \in QP
        PROVE  sent'[q] = CountIn({"chunk"}, sq'[q]) + CountIn(ChunksOf(q), Pipe')
                          + CountIn({q}, tx_chunks') + returned'[q]
    <3>1. returned'[q] = returned[q] + CountIn({q}, tx_chunks)
      BY <2>1, OccurrencesCount, Zenon DEF Types
    <3>2. CountIn({q}, tx_chunks') = 0
      BY <2>1, CountEmpty, Zenon
    <3>3. sent[q] = CountIn({"chunk"}, sq[q]) + CountIn(ChunksOf(q), Pipe)
                    + CountIn({q}, tx_chunks) + returned[q]
      BY Zenon DEF Conserved
    <3>4. /\ CountIn({"chunk"}, sq[q]) \in Nat /\ CountIn(ChunksOf(q), Pipe) \in Nat
          /\ CountIn({q}, tx_chunks) \in Nat /\ returned[q] \in Nat
      BY CountTypes, Zenon
    <3> QED
      BY <2>1, <2>2, <3>1, <3>2, <3>3, <3>4, SMTT(60)
  <2> QED
    BY <2>3, Zenon DEF Conserved, CountIn, ChunksOf
<1>11. CASE Stop \/ TxFailure \/ TxLookup \/ PollRx \/ Idle \/ DeleteQP \/ UNCHANGED vars
  <2>1. UNCHANGED <<batch, tx_cq, sq, tx_chunks, sent, returned>>
    BY <1>11, Zenon DEF Stop, TxFailure, TxLookup, PollRx, Idle, DeleteQP, Die, vars
  <2> QED
    BY <1>1, <2>1, Zenon
<1> QED
  BY <1>2, <1>3, <1>4, <1>5, <1>6, <1>7, <1>8, <1>9, <1>10, <1>11, ZenonT(90)
     DEF Next, Device, Poll, Ended

----------------------------------------------------------------------------

LEMMA InitIInv == Init => IInv
<1> SUFFICES ASSUME Init PROVE IInv
  BY Zenon
<1>1. <<>> \in Seq(QP) /\ <<>> \in Seq(TxCompletion) /\ <<>> \in Seq(Requests) /\ Len(<<>>) = 0
  BY EmptySeq, Zenon
<1>2. Types
  BY <1>1, Zenon DEF Init, Types
<1>3. Phase
  BY Zenon DEF Init, Phase
<1>4. Registered = {} /\ Pipe = <<>>
  BY ConcatEmptySeq DEF Init, Registered, Pipe
<1>5. \A q : ~In(q, <<>>)
  BY <1>1, SMTT(60) DEF In
<1>6. Stages
  <2>1. IsFiniteSet(Registered) /\ num_qp_conn = Cardinality(Registered)
    BY <1>4, FS_EmptySet, Zenon DEF Init
  <2>2. \A q \in QP : Stage(q)
    BY <1>4, <1>5, ZenonT(90) DEF Init, Stage, Awaits
  <2> QED
    BY <1>1, <1>5, <2>1, <2>2, SMTT(60) DEF Init, Stages, Once
<1>7. Beacons
  BY <1>1, <1>4, <1>5, SMTT(60) DEF Init, Beacons, Beacon
<1>8. Conserved
  <2>1. ASSUME NEW q \in QP
        PROVE  CountIn({"chunk"}, sq[q]) = 0 /\ CountIn(ChunksOf(q), Pipe) = 0 /\ CountIn({q}, tx_chunks) = 0
    BY <1>4, CountEmpty, Zenon DEF Init
  <2> QED
    BY <2>1 DEF Init, Conserved
<1> QED
  BY <1>2, <1>3, <1>6, <1>7, <1>8, ZenonT(90) DEF IInv

\* The invariant of the dispatcher: the stages of the queue pairs, the place of
\* the beacons and the account of the chunks.
THEOREM DispatcherInvariant == Spec => []IInv
<1>1. IInv /\ [Next]_vars => IInv'
  BY TypeStep, PhaseStep, StagesStep, BeaconsStep, ConservedStep, Zenon DEF IInv
<1> QED
  BY <1>1, InitIInv, PTL DEF Spec

\* A socket pointer in qp_conns is that of a socket whose destructor has not run.
THEOREM ConnsAlive == Spec => []NoDanglingConn
<1>1. IInv => NoDanglingConn
  BY Zenon DEF IInv, Stages, Stage, NoDanglingConn
<1> QED
  BY <1>1, DispatcherInvariant, PTL

\* A queue pair is queued for deletion at most once and deleted at most once,
\* and none is left when the polling thread has gone.
THEOREM DeletionOnce == Spec => []DeletedOnce
<1>1. ASSUME IInv
      PROVE  DeletedOnce
  <2>1. dead_queue_pairs \in Seq(QP) /\ dead_qps \in Seq(QP)
    BY <1>1, ZenonT(90) DEF IInv, Types
  <2> DEFINE n == Len(dead_queue_pairs)
  <2>2. /\ n \in Nat /\ Len(dead_qps) \in Nat /\ Len(Doomed) = n + Len(dead_qps)
        /\ \A i \in 1 .. Len(Doomed) :
             Doomed[i] = IF i <= n THEN dead_queue_pairs[i] ELSE dead_qps[i - n]
    BY <2>1, ConcatProperties, SMTT(60) DEF Doomed
  <2>3. ASSUME NEW i \in 1 .. Len(Doomed)
        PROVE  \/ i \in 1 .. n /\ Doomed[i] = dead_queue_pairs[i]
               \/ i > n /\ i - n \in 1 .. Len(dead_qps) /\ Doomed[i] = dead_qps[i - n]
    BY <2>2
  <2> HIDE DEF n
  <2>4. ASSUME NEW i \in 1 .. Len(Doomed)
        PROVE  Doomed[i] \in QP /\ Awaits(Doomed[i])
    <3>1. CASE i \in 1 .. n /\ Doomed[i] = dead_queue_pairs[i]
      BY <2>1, <3>1, ElementOfSeq, Zenon DEF Awaits, In, n
    <3>2. CASE i - n \in 1 .. Len(dead_qps) /\ Doomed[i] = dead_qps[i - n]
      BY <2>1, <3>2, ElementOfSeq, Zenon DEF Awaits, In
    <3> QED
      BY <2>3, <3>1, <3>2, Zenon
  <2>5. ASSUME NEW i \in 1 .. Len(Doomed), NEW j \in 1 .. Len(Doomed), Doomed[i] = Doomed[j]
        PROVE  i = j
    <3>1. Once(dead_queue_pairs) /\ Once(dead_qps)
          /\ ~(In(Doomed[i], dead_queue_pairs) /\ In(Doomed[i], dead_qps))
      BY <1>1, <2>4, Zenon DEF IInv, Stages
    <3>2. CASE i \in 1 .. n /\ Doomed[i] = dead_queue_pairs[i] /\ j \in 1 .. n /\ Doomed[j] = dead_queue_pairs[j]
      BY <2>5, <3>1, <3>2, ZenonT(90) DEF Once, n
    <3>3. CASE /\ i - n \in 1 .. Len(dead_qps) /\ Doomed[i] = dead_qps[i - n]
               /\ j - n \in 1 .. Len(dead_qps) /\ Doomed[j] = dead_qps[j - n]
      <4>1. i - n = j - n
        BY <2>5, <3>1, <3>3, Zenon DEF Once
      <4> QED
        BY <2>2, <4>1
    <3>4. CASE /\ i \in 1 .. n /\ Doomed[i] = dead_queue_pairs[i]
               /\ j - n \in 1 .. Len(dead_qps) /\ Doomed[j] = dead_qps[j - n]
      BY <2>5, <3>1, <3>4, Zenon DEF In, n
    <3>5. CASE /\ j \in 1 .. n /\ Doomed[j] = dead_queue_pairs[j]
               /\ i - n \in 1 .. Len(dead_qps) /\ Doomed[i] = dead_qps[i - n]
      BY <2>5, <3>1, <3>5, Zenon DEF In, n
    <3> QED
      BY <2>3, <3>2, <3>3, <3>4, <3>5, ZenonT(90)
  <2>6. ASSUME NEW i \in 1 .. Len(Doomed)
        PROVE  hw[Doomed[i]] # "destroyed" /\ Doomed[i] \notin Registered
    BY <1>1, <2>4, Zenon DEF IInv, Stages, Stage
  <2>7. ASSUME pc = "exited"
        PROVE  /\ Registered = {} /\ num_qp_conn = 0 /\ dead_queue_pairs = <<>>
               /\ \A q \in QP : hw[q] \in {"none", "destroyed"}
    <3>1. num_qp_conn = 0 /\ dead_queue_pairs = <<>> /\ dead_qps = <<>>
      BY <1>1, <2>7, Zenon DEF IInv, Phase
    <3>2. Registered = {}
      BY <1>1, <3>1, FS_EmptySet, Zenon DEF IInv, Stages
    <3>3. \A q \in QP : ~Awaits(q)
      BY <3>1, EmptySeq DEF Awaits, In
    <3>4. \A q \in QP : hw[q] \notin {"RTS", "ERR"}
      BY <1>1, <3>2, <3>3, ZenonT(90) DEF IInv, Stages, Stage
    <3> QED
      BY <1>1, <3>1, <3>2, <3>4, Zenon DEF IInv, Types
  <2> QED
    BY <2>5, <2>6, <2>7, Zenon DEF DeletedOnce
<1> QED
  BY <1>1, DispatcherInvariant, PTL

\* When a queue pair that to_dead made dead is deleted, every chunk sent on it
\* has been returned to the pool, and none twice.
THEOREM ChunksReturned == Spec => []BuffersReturned
<1>1. ASSUME IInv
      PROVE  BuffersReturned
  <2>1. SUFFICES ASSUME NEW q \in QP, hw[q] = "destroyed", dead[q]
                 PROVE  returned[q] = sent[q]
    BY Zenon DEF BuffersReturned
  <2>2. Types /\ Beacon(q) /\ q \notin Registered
    BY <1>1, <2>1, Zenon DEF IInv, Beacons, Stages, Stage
  <2>3. sq[q] = <<>> /\ (\A i \in 1 .. Len(Pipe) : Pipe[i].qp # q) /\ ~In(q, tx_chunks)
    BY <2>1, <2>2, Zenon DEF Beacon
  <2>4. CountIn({"chunk"}, sq[q]) = 0
    BY <2>3, CountEmpty, Zenon
  <2>5. CountIn(ChunksOf(q), Pipe) = 0
    BY <2>2, <2>3, CountType, PipeType, Zenon DEF ChunksOf
  <2>6. CountIn({q}, tx_chunks) = 0
    BY <2>2, <2>3, CountType, Zenon DEF Types, In
  <2>7. sent[q] \in Nat /\ returned[q] \in Nat
    BY <2>2, Zenon DEF Types
  <2> QED
    BY <1>1, <2>4, <2>5, <2>6, <2>7, SMTT(60) DEF IInv, Conserved
<1> QED
  BY <1>1, DispatcherInvariant, PTL
=============================================================================
