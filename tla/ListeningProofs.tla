-------------------------- MODULE ListeningProofs ---------------------------
(***************************************************************************)
(* The references of the workers and the binds of a Server, for any number *)
(* of workers, application threads, calls and errors: what get_worker      *)
(* counts is right although it is counted outside every lock, and a bind   *)
(* that succeeds never takes over a processor that serves another.         *)
(***************************************************************************)
EXTENDS Listening, FiniteSetTheorems, TLAPS

-----------------------------------------------------------------------------
(* References *)

\* The threads that have counted themselves and not yet made or refused their
\* connection
Users(w) == {t \in Thread : pc[t] = "use" /\ best[t] = w}
Using(t, w) == IF pc[t] = "use" /\ best[t] = w THEN 1 ELSE 0

Shape ==
  /\ pc \in [Thread -> {"idle", "spin", "scan", "increment", "use"}]
  /\ best \in [Thread -> Int] /\ scan \in [Thread -> Nat]
  /\ references \in [Worker -> Int] /\ connections \in [Worker -> Nat]

RefInv == Shape /\ ReferencesAccounted

LEMMA FiniteThreads == IsFiniteSet(Worker) /\ IsFiniteSet(Thread)
<1>1. IsFiniteSet(0 .. NumWorkers - 1)
  BY FS_Interval, ListeningAssumption
<1>2. IsFiniteSet(Worker)
  BY <1>1, Zenon DEF Worker
<1>3. QED
  BY <1>2, FS_Union, ListeningAssumption, Zenon DEF Thread

\* With or without one element
LEMMA CountWithout ==
  ASSUME NEW S, IsFiniteSet(S), NEW t
  PROVE  /\ Cardinality(S \ {t}) \in Nat
         /\ Cardinality(S) = Cardinality(S \ {t}) + (IF t \in S THEN 1 ELSE 0)
<1>1. Cardinality(S) \in Nat
  BY FS_CardinalityType, Zenon
<1>2. Cardinality(S \ {t}) = IF t \in S THEN Cardinality(S) - 1 ELSE Cardinality(S)
  BY FS_RemoveElement, Zenon
<1>3. IsFiniteSet(S \ {t})
  BY FS_RemoveElement, Zenon
<1>4. Cardinality(S \ {t}) \in Nat
  BY <1>3, FS_CardinalityType, Zenon
<1>5. QED
  BY <1>1, <1>2, <1>4

\* A step of one thread changes the users of a worker by that thread alone.
LEMMA UsersStep ==
  ASSUME NEW t \in Thread, \A u \in Thread \ {t} : pc'[u] = pc[u] /\ best'[u] = best[u],
         NEW w \in Worker
  PROVE  /\ Cardinality(Users(w)) \in Nat /\ Cardinality(Users(w))' \in Nat
         /\ Cardinality(Users(w))' = Cardinality(Users(w)) - Using(t, w) + Using(t, w)'
         /\ Using(t, w) \in {0, 1} /\ Using(t, w)' \in {0, 1}
<1> DEFINE U == Users(w)
           V == {u \in Thread : pc'[u] = "use" /\ best'[u] = w}
<1>1. Users(w)' = V
  BY Zenon DEF Users
<1>2. IsFiniteSet(U) /\ IsFiniteSet(V)
  <2>1. U \subseteq Thread /\ V \subseteq Thread
    BY Zenon DEF Users
  <2>2. QED
    BY <2>1, FS_Subset, FiniteThreads, Zenon
<1>3. U \ {t} = V \ {t}
  BY Zenon DEF Users
<1>4. /\ Using(t, w) = (IF t \in U THEN 1 ELSE 0) /\ Using(t, w)' = (IF t \in V THEN 1 ELSE 0)
  BY Zenon DEF Using, Users
<1> HIDE DEF U, V
<1>5. /\ Cardinality(U) \in Nat /\ Cardinality(V) \in Nat
      /\ Cardinality(V) = Cardinality(U) - (IF t \in U THEN 1 ELSE 0) + (IF t \in V THEN 1 ELSE 0)
  <2>1. Cardinality(U \ {t}) \in Nat /\ Cardinality(U) = Cardinality(U \ {t}) + (IF t \in U THEN 1 ELSE 0)
    BY <1>2, CountWithout, Zenon
  <2>2. Cardinality(V) = Cardinality(V \ {t}) + (IF t \in V THEN 1 ELSE 0)
    BY <1>2, CountWithout, Zenon
  <2>3. Cardinality(V \ {t}) = Cardinality(U \ {t})
    BY <1>3, Zenon
  <2>4. QED
    BY <2>1, <2>2, <2>3
<1>6. Cardinality(Users(w))' = Cardinality(V) /\ Cardinality(Users(w)) = Cardinality(U)
  BY <1>1, Zenon DEF U
<1>7. QED
  BY <1>4, <1>5, <1>6

\* A thread moves on outside the use of a worker.
LEMMA RefsQuiet ==
  ASSUME RefInv, NEW t \in Thread, pc[t] # "use", pc'[t] # "use",
         \A u \in Thread \ {t} : pc'[u] = pc[u] /\ best'[u] = best[u],
         UNCHANGED <<references, connections>>
  PROVE  ReferencesAccounted'
<1> SUFFICES ASSUME NEW w \in Worker
             PROVE  references'[w] = connections'[w] + Cardinality(Users(w))'
  BY Zenon DEF ReferencesAccounted, Users
<1>1. references[w] = connections[w] + Cardinality(Users(w))
  BY Zenon DEF RefInv, ReferencesAccounted, Users
<1>2. Using(t, w) = 0 /\ Using(t, w)' = 0
  BY Zenon DEF Using
<1>3. Cardinality(Users(w)) \in Nat
      /\ Cardinality(Users(w))' = Cardinality(Users(w)) - Using(t, w) + Using(t, w)'
  BY UsersStep, Zenon
<1>4. QED
  BY <1>1, <1>2, <1>3

\* A thread counts itself.
LEMMA RefsTaken ==
  ASSUME RefInv, NEW t \in Thread, pc[t] = "increment", pc'[t] = "use", best' = best,
         \A u \in Thread \ {t} : pc'[u] = pc[u],
         references' = [references EXCEPT ![best[t]] = @ + 1], connections' = connections
  PROVE  ReferencesAccounted'
<1> SUFFICES ASSUME NEW w \in Worker
             PROVE  references'[w] = connections'[w] + Cardinality(Users(w))'
  BY Zenon DEF ReferencesAccounted, Users
<1>1. references[w] = connections[w] + Cardinality(Users(w)) /\ connections[w] \in Nat
  BY Zenon DEF RefInv, Shape, ReferencesAccounted, Users
<1>2. Using(t, w) = 0 /\ Using(t, w)' = (IF best[t] = w THEN 1 ELSE 0)
  BY Zenon DEF Using
<1>3. references'[w] = references[w] + (IF best[t] = w THEN 1 ELSE 0)
  <2>1. references \in [Worker -> Int]
    BY Zenon DEF RefInv, Shape
  <2>2. QED
    BY <2>1
<1>4. Cardinality(Users(w)) \in Nat
      /\ Cardinality(Users(w))' = Cardinality(Users(w)) - Using(t, w) + Using(t, w)'
  BY UsersStep, Zenon
<1>5. QED
  BY <1>1, <1>2, <1>3, <1>4

\* A thread leaves the worker it has used, with a connection or without one.
LEMMA RefsGiven ==
  ASSUME RefInv, NEW t \in Thread, pc[t] = "use", pc'[t] # "use",
         \A u \in Thread \ {t} : pc'[u] = pc[u] /\ best'[u] = best[u],
         \/ /\ connections' = [connections EXCEPT ![best[t]] = @ + 1] /\ references' = references
         \/ /\ references' = [references EXCEPT ![best[t]] = @ - 1] /\ connections' = connections
  PROVE  ReferencesAccounted'
<1> SUFFICES ASSUME NEW w \in Worker
             PROVE  references'[w] = connections'[w] + Cardinality(Users(w))'
  BY Zenon DEF ReferencesAccounted, Users
<1>1. references[w] = connections[w] + Cardinality(Users(w)) /\ connections[w] \in Nat
  BY Zenon DEF RefInv, Shape, ReferencesAccounted, Users
<1>2. Using(t, w) = (IF best[t] = w THEN 1 ELSE 0) /\ Using(t, w)' = 0
  BY Zenon DEF Using
<1>3. \/ /\ connections'[w] = connections[w] + (IF best[t] = w THEN 1 ELSE 0)
         /\ references'[w] = references[w]
      \/ /\ references'[w] = references[w] - (IF best[t] = w THEN 1 ELSE 0)
         /\ connections'[w] = connections[w]
  <2>1. references \in [Worker -> Int] /\ connections \in [Worker -> Nat]
    BY Zenon DEF RefInv, Shape
  <2>2. QED
    BY <2>1
<1>4. Cardinality(Users(w)) \in Nat
      /\ Cardinality(Users(w))' = Cardinality(Users(w)) - Using(t, w) + Using(t, w)'
  BY UsersStep, Zenon
<1>5. QED
  BY <1>1, <1>2, <1>3, <1>4

\* Every step of a thread keeps the references accounted for.
LEMMA RefsThread ==
  ASSUME RefInv, NEW t \in Thread, Step(t)
  PROVE  RefInv'
<1>0. Shape
  BY Zenon DEF RefInv
<1>1. CASE LockPool(t) /\ UNCHANGED loadVars
  <2>1. /\ pc[t] = "spin" /\ pc' = [pc EXCEPT ![t] = "scan"]
        /\ UNCHANGED <<scan, best, references, connections>>
    BY <1>1, Zenon DEF LockPool, loadVars
  <2>2. Shape' /\ pc'[t] = "scan" /\ \A u \in Thread \ {t} : pc'[u] = pc[u]
    BY <1>0, <2>1, Zenon DEF Shape
  <2>3. QED
    BY <2>1, <2>2, RefsQuiet, Zenon DEF RefInv
<1>2. CASE ScanOne(t) /\ UNCHANGED loadVars
  <2>1. /\ pc[t] = "scan" /\ scan' = [scan EXCEPT ![t] = scan[t] + 1]
        /\ best' = best \/ best' = [best EXCEPT ![t] = scan[t]]
        /\ UNCHANGED <<pc, references, connections>>
    BY <1>2, Zenon DEF ScanOne, loadVars
  <2>2. scan[t] \in Int /\ scan[t] + 1 \in Nat
    BY <1>0 DEF Shape
  <2>3. Shape' /\ \A u \in Thread \ {t} : best'[u] = best[u]
    BY <1>0, <2>1, <2>2, Zenon DEF Shape
  <2>4. QED
    BY <2>1, <2>3, RefsQuiet, Zenon DEF RefInv
<1>3. CASE UnlockPool(t) /\ UNCHANGED loadVars
  <2>1. /\ pc[t] = "scan" /\ pc' = [pc EXCEPT ![t] = "increment"] /\ scan' = [scan EXCEPT ![t] = 0]
        /\ UNCHANGED <<best, references, connections>>
    BY <1>3, Zenon DEF UnlockPool, loadVars
  <2>2. Shape' /\ pc'[t] = "increment" /\ \A u \in Thread \ {t} : pc'[u] = pc[u]
    <3>1. 0 \in Nat
      OBVIOUS
    <3>2. QED
      BY <1>0, <2>1, <3>1, Zenon DEF Shape
  <2>3. QED
    BY <2>1, <2>2, RefsQuiet, Zenon DEF RefInv
<1>4. CASE Increment(t) /\ UNCHANGED connections
  <2>1. /\ pc[t] = "increment" /\ pc' = [pc EXCEPT ![t] = "use"]
        /\ references' = [references EXCEPT ![best[t]] = @ + 1]
        /\ UNCHANGED <<scan, best, connections>>
    BY <1>4, Zenon DEF Increment, scanVars
  <2>2. pc'[t] = "use" /\ \A u \in Thread \ {t} : pc'[u] = pc[u]
    BY <1>0, <2>1, Zenon DEF Shape
  <2>3. references' \in [Worker -> Int]
    <3>1. references \in [Worker -> Int] /\ best[t] \in Int
      BY <1>0, Zenon DEF Shape
    <3>2. references' = [references EXCEPT ![best[t]] = references[best[t]] + 1]
      BY <2>1, Zenon
    <3>3. CASE best[t] \in Worker
      <4>1. references[best[t]] + 1 \in Int
        BY <3>1, <3>3
      <4>2. QED
        BY <3>1, <3>2, <3>3, <4>1, Zenon
    <3>4. CASE best[t] \notin Worker
      BY <3>1, <3>2, <3>4, Zenon
    <3>5. QED
      BY <3>3, <3>4, Zenon
  <2>4. Shape'
    BY <1>0, <2>1, <2>3, Zenon DEF Shape
  <2>5. QED
    BY <2>1, <2>2, <2>4, RefsTaken, Zenon DEF RefInv
<1>5. ASSUME MakeConnection(t) \/ Accept(t)
      PROVE  RefInv'
  <2>1. /\ pc[t] = "use" /\ best' = [best EXCEPT ![t] = -1] /\ scan' = scan
        /\ pc' = [pc EXCEPT ![t] = "idle"] \/ pc' = [pc EXCEPT ![t] = "spin"]
        /\ \/ /\ connections' = [connections EXCEPT ![best[t]] = @ + 1] /\ references' = references
           \/ /\ references' = [references EXCEPT ![best[t]] = @ - 1] /\ connections' = connections
    BY <1>5, Zenon DEF MakeConnection, Accept, Accepted, NothingToAccept, Interrupted, Failed, Dereference
  <2>2. /\ pc'[t] # "use" /\ \A u \in Thread \ {t} : pc'[u] = pc[u] /\ best'[u] = best[u]
        /\ pc' \in [Thread -> {"idle", "spin", "scan", "increment", "use"}]
    BY <1>0, <2>1, Zenon DEF Shape
  <2>3. best' \in [Thread -> Int]
    BY <1>0, <2>1 DEF Shape
  <2>4. references' \in [Worker -> Int] /\ connections' \in [Worker -> Nat]
    BY <1>0, <2>1 DEF Shape
  <2>5. Shape'
    BY <1>0, <2>1, <2>2, <2>3, <2>4, Zenon DEF Shape
  <2>6. QED
    BY <2>1, <2>2, <2>5, RefsGiven, Zenon DEF RefInv
<1>6. CASE AcceptEvent(t)
  <2>1. /\ pc[t] = "idle" /\ pc' = [pc EXCEPT ![t] = "spin"]
        /\ UNCHANGED <<scan, best, references, connections>>
    BY <1>6, Zenon DEF AcceptEvent, loadVars, scanVars
  <2>2. Shape' /\ pc'[t] = "spin" /\ \A u \in Thread \ {t} : pc'[u] = pc[u]
    BY <1>0, <2>1, Zenon DEF Shape
  <2>3. QED
    BY <2>1, <2>2, RefsQuiet, Zenon DEF RefInv
<1>7. QED
  BY <1>1, <1>2, <1>3, <1>4, <1>5, <1>6, Zenon DEF Step, get_worker, loadVars

LEMMA RefsUnchanged ==
  ASSUME RefInv, UNCHANGED <<pc, best, scan, references, connections>>
  PROVE  RefInv'
BY Zenon DEF RefInv, Shape, ReferencesAccounted

LEMMA RefsStep ==
  ASSUME RefInv, [Next]_vars
  PROVE  RefInv'
<1>1. CASE \/ Start \/ BindEnter \/ BindStep \/ (\E l \in Worker : Arrive(l)) \/ Ended
           \/ UNCHANGED vars
  <2>1. UNCHANGED <<pc, best, scan, references, connections>>
    BY <1>1, Zenon DEF Start, BindEnter, BindStep, Choose, Attempt, GiveUp, StartProcessor, Arrive, Ended,
                       scanVars, loadVars, vars
  <2>2. QED
    BY <2>1, RefsUnchanged, Zenon
<1>2. ASSUME NEW a \in App, CallConnect(a)
      PROVE  RefInv'
  <2>1. /\ a \in Thread /\ pc[a] = "idle" /\ pc' = [pc EXCEPT ![a] = "spin"]
        /\ UNCHANGED <<scan, best, references, connections>>
    BY <1>2, Zenon DEF CallConnect, loadVars, scanVars, Thread
  <2>2. Shape' /\ pc'[a] = "spin" /\ \A u \in Thread \ {a} : pc'[u] = pc[u]
    BY <2>1, Zenon DEF RefInv, Shape
  <2>3. QED
    BY <2>1, <2>2, RefsQuiet, Zenon DEF RefInv
<1>3. QED
  BY <1>1, <1>2, RefsThread, Zenon DEF Next

LEMMA RefsInit == Init => RefInv
<1> SUFFICES ASSUME Init PROVE RefInv
  BY Zenon
<1>1. Shape
  BY DEF Init, Shape
<1>2. \A w \in Worker : Users(w) = {} /\ references[w] = 0 /\ connections[w] = 0
  BY Zenon DEF Init, Users
<1>3. 0 = 0 + Cardinality({})
  BY FS_EmptySet
<1>4. QED
  BY <1>1, <1>2, <1>3, Zenon DEF RefInv, ReferencesAccounted, Users

\* The references get_worker compares are the connections of a worker and the
\* threads about to give it one, whatever the interleaving of the accept loops
\* with create_connect: no error path of Processor::accept leaks a reference.
THEOREM NoReferenceLeaks == Spec => []ReferencesAccounted
<1>1. RefInv => ReferencesAccounted
  BY Zenon DEF RefInv
<1>2. QED
  BY <1>1, RefsInit, RefsStep, PTL DEF Spec

-----------------------------------------------------------------------------
(* Binds *)

\* conn_count % processors.size() names a processor, and it comes back to the
\* same one only after all of them, when it did not start below zero or their
\* number divides 2^SizeBits.
LEMMA RemainderType ==
  ASSUME NEW n \in Nat \ {0}, NEW a \in Nat
  PROVE  /\ a % n \in 0 .. n - 1 /\ a \div n \in Int
         /\ a = n * (a \div n) + (a % n)
OBVIOUS

LEMMA MultipleBound ==
  ASSUME NEW n \in Nat \ {0}, NEW m \in Int, n * m > 0
  PROVE  n * m >= n
OBVIOUS

LEMMA ChosenType ==
  ASSUME NEW c \in Int, c >= -MaxFirst
  PROVE  /\ (IF c >= 0 THEN c ELSE 2 ^ SizeBits + c) \in Nat
         /\ Chosen(c) \in Worker
<1> DEFINE a == IF c >= 0 THEN c ELSE 2 ^ SizeBits + c
<1>1. a \in Nat
  <2> DEFINE z == 2 ^ SizeBits
  <2>1. z \in Nat /\ MaxFirst \in 0 .. z - 1
    BY ListeningAssumption, Zenon
  <2> HIDE DEF z
  <2>2. (IF c >= 0 THEN c ELSE z + c) \in Nat
    BY <2>1
  <2>3. QED
    BY <2>2, Zenon DEF z
<1> HIDE DEF a
<1>2. NumWorkers \in Nat \ {0}
  BY ListeningAssumption, Zenon
<1>3. a % NumWorkers \in 0 .. NumWorkers - 1
  BY <1>1, <1>2, RemainderType, Zenon
<1>4. QED
  BY <1>1, <1>3, Zenon DEF a, Chosen, Worker

LEMMA ChosenApart ==
  ASSUME NEW c \in Int, NEW k \in Nat \ {0}, c - k >= -MaxFirst,
         c - k >= 0 \/ 2 ^ SizeBits % NumWorkers = 0,
         Chosen(c - k) = Chosen(c)
  PROVE  k >= NumWorkers
<1> DEFINE n == NumWorkers
           z == 2 ^ SizeBits
           d == c - k
           a == IF c >= 0 THEN c ELSE z + c
           b == IF d >= 0 THEN d ELSE z + d
           A == a \div n
           B == b \div n
           Z == z \div n
<1>1. n \in Nat \ {0} /\ z \in Nat /\ d \in Int /\ d = c - k
  BY ListeningAssumption
<1>2. a \in Nat /\ b \in Nat
  <2>1. c >= -MaxFirst
    BY ListeningAssumption
  <2>2. QED
    BY <1>1, <2>1, ChosenType, Zenon
<1>3. a % n = b % n
  BY Zenon DEF Chosen
<1>4. d >= 0 \/ z % n = 0
  BY Zenon
<1> HIDE DEF n, z, d
<1>5. (a = c \/ a = z + c) /\ (b = d \/ b = z + d) /\ (d >= 0 => a = c /\ b = d)
  BY <1>1
<1> HIDE DEF a, b
<1>6. /\ a = n * A + (a % n) /\ b = n * B + (b % n) /\ z = n * Z + (z % n)
      /\ A \in Int /\ B \in Int /\ Z \in Int /\ a % n \in Int
  <2>1. a % n \in 0 .. n - 1 /\ A \in Int /\ a = n * A + (a % n)
    BY <1>1, <1>2, RemainderType, Zenon
  <2>2. B \in Int /\ b = n * B + (b % n)
    BY <1>1, <1>2, RemainderType, Zenon
  <2>3. Z \in Int /\ z = n * Z + (z % n)
    BY <1>1, RemainderType, Zenon
  <2>4. a % n \in Int
    BY <1>1, <2>1
  <2>5. QED
    BY <2>1, <2>2, <2>3, <2>4, Zenon
<1> HIDE DEF A, B, Z
<1>7. a - b = n * (A - B)
  <2>1. n * (A - B) = n * A - n * B
    BY <1>1, <1>6
  <2>2. n * A \in Int /\ n * B \in Int
    BY <1>1, <1>6
  <2>3. QED
    BY <1>3, <1>6, <2>1, <2>2
<1>8. \E m \in Int : k = n * m
  <2>1. CASE d >= 0
    <3>1. k = n * (A - B) /\ A - B \in Int
      BY <1>1, <1>5, <1>6, <1>7, <2>1
    <3>2. QED
      BY <3>1, Zenon
  <2>2. CASE z % n = 0
    <3>1. z = n * Z
      <4>1. n * Z \in Int
        BY <1>1, <1>6
      <4>2. QED
        BY <1>6, <2>2, <4>1
    <3>2. /\ n * (A - B + Z) = n * (A - B) + n * Z /\ n * (A - B - Z) = n * (A - B) - n * Z
          /\ A - B \in Int /\ A - B + Z \in Int /\ A - B - Z \in Int
      BY <1>1, <1>6
    <3>3. k = a - b \/ k = a - b + z \/ k = a - b - z
      BY <1>1, <1>5
    <3>4. k = n * (A - B) \/ k = n * (A - B + Z) \/ k = n * (A - B - Z)
      BY <1>7, <3>1, <3>2, <3>3, Zenon
    <3>5. QED
      BY <3>2, <3>4, Zenon
  <2>3. QED
    BY <1>4, <2>1, <2>2, Zenon
<1>9. PICK m \in Int : k = n * m
  BY <1>8, Zenon
<1>10. n * m > 0
  BY <1>9
<1>11. n * m >= n
  BY <1>1, <1>10, MultipleBound, Zenon
<1>12. QED
  BY <1>9, <1>11, Zenon DEF n

\* The processors in use are the ones the last values of conn_count chose.
Wraps == conn_count - bound >= 0 \/ 2 ^ SizeBits % NumWorkers = 0
Taken == \A w \in is_started : \E k \in 1 .. bound : w = Chosen(conn_count - k)

BindInv ==
  /\ conn_count \in Int /\ bound \in Nat /\ conn_count - bound >= -MaxFirst
  /\ is_started \subseteq Worker /\ watched = is_started /\ Cardinality(watched) = bound
  /\ listening = IF bpc = "start" THEN watched \cup {p} ELSE watched
  /\ bpc \in {"listen", "start"} => p \in Worker \ is_started /\ p = Chosen(conn_count)
  /\ Taken
  /\ busy /\ Wraps => is_started = Worker

\* bind refuses: conn_count has come round to a processor in use.
LEMMA AllTaken ==
  ASSUME BindInv, Chosen(conn_count) \in is_started, Wraps
  PROVE  is_started = Worker
<1>1. PICK k \in 1 .. bound : Chosen(conn_count) = Chosen(conn_count - k)
  BY Zenon DEF BindInv, Taken
<1>2. conn_count \in Int /\ bound \in Nat /\ conn_count - bound >= -MaxFirst
  BY Zenon DEF BindInv
<1>3. k \in Nat \ {0} /\ conn_count - k >= -MaxFirst /\ (conn_count - bound >= 0 => conn_count - k >= 0)
  BY <1>2, ListeningAssumption
<1>4. k >= NumWorkers
  BY <1>1, <1>2, <1>3, ChosenApart, Zenon DEF Wraps
<1>5. bound >= NumWorkers
  BY <1>2, <1>4, ListeningAssumption
<1>6. Cardinality(Worker) = NumWorkers
  <2>1. Cardinality(0 .. NumWorkers - 1) = NumWorkers
    BY FS_Interval, ListeningAssumption
  <2>2. QED
    BY <2>1, Zenon DEF Worker
<1>7. IsFiniteSet(is_started) /\ IsFiniteSet(Worker) /\ is_started \subseteq Worker
  BY FiniteThreads, FS_Subset, Zenon DEF BindInv
<1>8. Cardinality(is_started) = bound
  BY Zenon DEF BindInv
<1>9. Cardinality(is_started) <= Cardinality(Worker)
  BY <1>7, FS_Subset, Zenon
<1>10. Cardinality(Worker) = Cardinality(is_started)
  BY <1>2, <1>5, <1>6, <1>8, <1>9, ListeningAssumption, SMTT(60)
<1>11. QED
  BY <1>7, <1>10, FS_Subset, Zenon

LEMMA BindUnchanged ==
  ASSUME BindInv, UNCHANGED <<conn_count, bpc, p, busy, socketVars>>
  PROVE  BindInv'
BY ZenonT(90) DEF BindInv, Wraps, Taken, Chosen, socketVars

LEMMA ChooseBind ==
  ASSUME BindInv, Choose
  PROVE  BindInv'
<1>1. /\ bpc = "choose" /\ p' = Chosen(conn_count)
      /\ bpc' = IF p' \in is_started THEN "idle" ELSE "listen"
      /\ busy' = (busy \/ p' \in is_started)
      /\ UNCHANGED <<conn_count, watched, listening, is_started, bound>>
  BY Zenon DEF Choose, socketVars
<1>2. conn_count \in Int /\ conn_count >= -MaxFirst
  BY ListeningAssumption DEF BindInv
<1>3. p' \in Worker
  BY <1>1, <1>2, ChosenType, Zenon
<1>4. /\ Taken' /\ (Wraps' <=> Wraps) /\ Chosen(conn_count)' = Chosen(conn_count)
  BY <1>1, ZenonT(90) DEF BindInv, Taken, Wraps, Chosen
<1>5. listening' = IF bpc' = "start" THEN watched' \cup {p'} ELSE watched'
  BY <1>1, Zenon DEF BindInv
<1>6. bpc' \in {"listen", "start"} => p' \in Worker \ is_started' /\ p' = Chosen(conn_count)'
  BY <1>1, <1>3, <1>4, Zenon
<1>7. busy' /\ Wraps' => is_started' = Worker
  BY <1>1, <1>4, AllTaken, Zenon DEF BindInv
<1>8. QED
  BY <1>1, <1>4, <1>5, <1>6, <1>7, Zenon DEF BindInv

LEMMA StartBind ==
  ASSUME BindInv, StartProcessor
  PROVE  BindInv'
<1>1. /\ bpc = "start" /\ is_started' = is_started \cup {p} /\ watched' = watched \cup {p}
      /\ conn_count' = conn_count + 1 /\ bound' = bound + 1 /\ bpc' = "idle"
      /\ UNCHANGED <<p, busy, listening>>
  BY Zenon DEF StartProcessor
<1>2. /\ conn_count \in Int /\ bound \in Nat /\ conn_count - bound >= -MaxFirst
      /\ p \in Worker \ is_started /\ p = Chosen(conn_count) /\ watched = is_started
      /\ is_started \subseteq Worker /\ Cardinality(watched) = bound /\ listening = watched \cup {p}
  BY <1>1, Zenon DEF BindInv
<1>3. /\ conn_count' \in Int /\ bound' \in Nat /\ conn_count' - bound' = conn_count - bound
      /\ conn_count' - 1 = conn_count /\ 1 \in 1 .. bound'
      /\ \A k \in 1 .. bound : k + 1 \in 1 .. bound' /\ conn_count' - (k + 1) = conn_count - k
  BY <1>1, <1>2
<1>4. Cardinality(watched') = bound'
  <2>1. IsFiniteSet(watched)
    BY <1>2, FiniteThreads, FS_Subset, Zenon
  <2>2. Cardinality(watched \cup {p}) = Cardinality(watched) + 1
    BY <1>2, <2>1, FS_AddElement, Zenon
  <2>3. QED
    BY <1>1, <1>2, <2>2, Zenon
<1>5. Taken'
  <2> SUFFICES ASSUME NEW w \in is_started'
               PROVE  \E k \in 1 .. bound' : w = Chosen(conn_count' - k)
    BY Zenon DEF Taken, Chosen
  <2>1. CASE w = p
    BY <1>2, <1>3, <2>1, Zenon
  <2>2. CASE w \in is_started
    <3>1. PICK k \in 1 .. bound : w = Chosen(conn_count - k)
      BY <2>2, Zenon DEF BindInv, Taken
    <3>2. QED
      BY <1>3, <3>1, Zenon
  <2>3. QED
    BY <1>1, <2>1, <2>2, Zenon
<1>6. busy' /\ Wraps' => is_started' = Worker
  BY <1>1, <1>2, <1>3, Zenon DEF BindInv, Wraps
<1>7. QED
  BY <1>1, <1>2, <1>3, <1>4, <1>5, <1>6, Zenon DEF BindInv

LEMMA BindStepInv ==
  ASSUME BindInv, [Next]_vars
  PROVE  BindInv'
<1>1. CASE \/ Start \/ GiveUp \/ Ended \/ UNCHANGED vars \/ (\E t \in Thread : Step(t))
           \/ (\E a \in App : CallConnect(a)) \/ (\E l \in Worker : Arrive(l))
  <2>1. UNCHANGED <<conn_count, bpc, p, busy, socketVars>>
    BY <1>1, Zenon DEF Start, GiveUp, Ended, Step, get_worker, MakeConnection, AcceptEvent, Accept, CallConnect,
                       Arrive, vars, chooseVars
  <2>2. QED
    BY <2>1, BindUnchanged, Zenon
<1>2. CASE BindEnter
  <2>1. /\ bpc = "idle" /\ bpc' \in {"choose", "idle"} /\ UNCHANGED <<conn_count, p, busy, socketVars>>
    BY <1>2, Zenon DEF BindEnter
  <2>2. QED
    BY <2>1, ZenonT(90) DEF BindInv, Wraps, Taken, Chosen, socketVars
<1>3. CASE Attempt
  <2>1. /\ bpc = "listen" /\ UNCHANGED <<conn_count, p, busy, watched, is_started, bound>>
        /\ \/ listening' = listening \cup {p} /\ bpc' = "start"
           \/ UNCHANGED <<listening, bpc>>
    BY <1>3, Zenon DEF Attempt
  <2>2. QED
    BY <2>1, ZenonT(90) DEF BindInv, Wraps, Taken, Chosen
<1>4. QED
  BY <1>1, <1>2, <1>3, ChooseBind, StartBind, Zenon DEF Next, BindStep

LEMMA BindInit == Init => BindInv
<1> SUFFICES ASSUME Init PROVE BindInv
  BY Zenon
<1>1. /\ conn_count \in -MaxFirst .. 0 /\ bound = 0 /\ is_started = {} /\ watched = {} /\ listening = {}
      /\ bpc = "idle" /\ ~busy
  BY Zenon DEF Init
<1>2. conn_count \in Int /\ bound \in Nat /\ conn_count - bound >= -MaxFirst /\ Cardinality({}) = 0
  BY <1>1, ListeningAssumption, FS_EmptySet, SMTT(60)
<1>3. QED
  BY <1>1, <1>2, Zenon DEF BindInv, Taken

\* Every bind that succeeded keeps a processor of its own, and bind refuses
\* only when all are in use, whatever value the uninitialised conn_count
\* starts from, unless its indices repeat when it passes zero.
THEOREM BindsKeepTheirProcessors == Spec => []BindsAreServed
<1>1. BindInv => BindsAreServed
  BY Zenon DEF BindInv, BindsAreServed, Wraps
<1>2. QED
  BY <1>1, BindInit, BindStepInv, PTL DEF Spec
=============================================================================
