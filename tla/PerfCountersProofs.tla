------------------------- MODULE PerfCountersProofs -------------------------
(***************************************************************************)
(* A pair that read_avg returns is one the counter had at an instant, for  *)
(* any finite number of threads, any loggers and counters and any number   *)
(* of calls, and the collection of loggers stays sound.  The inductive     *)
(* invariant has two layers, and a third for the collection.  Sound says   *)
(* where the threads are and which memory they may be in: a thread is only *)
(* ever inside a cell of a logger that is alive, so that the cells a new   *)
(* logger clears are in nobody's hands.  Counted says what the counts say, *)
(* the argument of read_avg: without a reset the two counts of a cell      *)
(* differ by the updates in progress, and what a reader has loaded is at   *)
(* most the second count.  Names says that registered loggers have         *)
(* different names: add finds a free one.                                  *)
(***************************************************************************)
EXTENDS PerfCounters, FiniteSetTheorems, WellFoundedInduction, TLAPS

-----------------------------------------------------------------------------
(* Where the threads are *)


UpdatePc == {"store", "bump"}
ReadPc == {"count", "sum", "check"}
ZeroPc == {"zero", "zero1", "zero2"}
WalkPc == {"visit", "clear"}
Inside == UpdatePc \cup ReadPc \cup ZeroPc
OpName == {"none", "visit", "clear", "add", "sub", "put"}

Types ==
    /\ live \subseteq Logger /\ m_loggers \subseteq live /\ kept \subseteq live
    /\ DOMAIN name = Logger
    /\ m_lock \in Thread \cup {Nobody}
    /\ pc \in [Thread -> Inside \cup WalkPc \cup {"idle", "add", "delete"}]
    /\ at \in [Thread -> Cell \cup {Nobody}]
    /\ op \in [Thread -> OpName \X Nat]
    /\ todo \in [Thread -> SUBSET Cell]
    /\ owned \in [Thread -> Logger \cup {Nobody}]

Numbers ==
    /\ DOMAIN u64 = Cell /\ DOMAIN sum = Thread
    /\ avgcount \in [Cell -> Nat] /\ avgcount2 \in [Cell -> Nat]
    /\ finished \in [Cell -> Nat] /\ cnt \in [Thread -> Nat]

\* The program counter of a thread, the cell it is in and the walk it makes.
Placed(t) ==
    /\ pc[t] \in Inside <=> at[t] # Nobody
    /\ pc[t] \in WalkPc => todo[t] # {}
    /\ pc[t] \in WalkPc \cup ZeroPc => m_lock = t
    /\ m_lock = t => pc[t] \in WalkPc \cup ZeroPc \cup ReadPc /\ op[t][1] \in WalkPc
    /\ todo[t] # {} => m_lock = t
    /\ todo[t] \subseteq m_loggers \X Idx

\* A logger has one owner, who has taken it off the collection to delete it.
Owns(t) ==
    /\ owned[t] # Nobody => /\ owned[t] \in live /\ owned[t] \notin kept
                            /\ \A s \in Thread : s # t => owned[s] # owned[t]
    /\ pc[t] \in {"add", "delete"} => owned[t] # Nobody /\ owned[t] \notin m_loggers

\* What gives a thread the right to be in a cell.
Access(t) ==
    at[t] # Nobody => \/ at[t][1] \in kept
                      \/ at[t][1] = owned[t]
                      \/ m_lock = t /\ at[t][1] \in m_loggers

Paths ==
    \A p \in DOMAIN by_path :
        /\ p = <<p[1], p[2]>> /\ p[2] \in Idx
        /\ by_path[p] \in m_loggers \X Idx
        /\ name[by_path[p][1]] = p[1]

Sound ==
    /\ Types /\ Numbers /\ Paths
    /\ \A t \in Thread : Placed(t) /\ Owns(t) /\ Access(t)

-----------------------------------------------------------------------------

\* The products the module uses, by their projections.
LEMMA Products ==
    ASSUME NEW S, NEW c \in S \X Idx
    PROVE  c[1] \in S /\ c[2] \in Idx /\ c = <<c[1], c[2]>>
  OBVIOUS

LEMMA InitSound == Init => Sound
  <1> SUFFICES ASSUME Init PROVE Sound
    BY Zenon
  <1> USE PerfAssumption DEF Init
  <1>1. Types
    BY Zenon DEF Types, Inside, UpdatePc, ReadPc, ZeroPc, WalkPc, OpName, Cell
  <1>2. Numbers
    BY Zenon DEF Numbers, Cell
  <1>3. Paths
    BY Zenon DEF Paths
  <1>4. ASSUME NEW t \in Thread PROVE Placed(t) /\ Owns(t) /\ Access(t)
    BY Zenon DEF Placed, Owns, Access, Inside, UpdatePc, ReadPc, ZeroPc, WalkPc
  <1> QED
    BY <1>1, <1>2, <1>3, <1>4, Zenon DEF Sound

\* A thread is in no cell but one of a logger that is alive.
LEMMA InsideLive ==
    ASSUME Sound, NEW t \in Thread, at[t] # Nobody
    PROVE  at[t] \in Cell /\ at[t][1] \in live
  <1>1. at[t] \in Cell
    BY Zenon DEF Sound, Types
  <1>2. at[t][1] \in Logger
    BY <1>1, Products, Zenon DEF Cell
  <1>3. Access(t) /\ Owns(t)
    BY Zenon DEF Sound
  <1>4. at[t][1] # Nobody
    BY <1>2, PerfAssumption, Zenon
  <1> QED
    BY <1>1, <1>3, <1>4, Zenon DEF Access, Owns, Sound, Types

AllInsideLive == \A t \in Thread : at[t] # Nobody => at[t] \in Cell /\ at[t][1] \in live

\* The same of the state after a step.
LEMMA InsideLiveNext == Sound' => AllInsideLive'
  <1>1. Sound => AllInsideLive
    BY InsideLive, Zenon DEF AllInsideLive
  <1> QED
    BY <1>1, PTL

\* Building a logger.
LEMMA BuildSound ==
    ASSUME Sound, NEW t \in Thread, NEW l \in Logger, NEW n,
           create_perf_counters(t, l, n)
    PROVE  Sound'
  <1>0. /\ pc[t] = "idle" /\ owned[t] = Nobody /\ l \notin live /\ live' = live \cup {l}
        /\ name' = [name EXCEPT ![l] = <<n>>] /\ owned' = [owned EXCEPT ![t] = l]
        /\ pc' = [pc EXCEPT ![t] = "add"]
        /\ UNCHANGED <<m_loggers, by_path, kept, m_lock, at, op, todo>>
    BY Zenon DEF create_perf_counters
  <1>1. Types'
    BY <1>0, Zenon DEF Sound, Types, Inside, UpdatePc, ReadPc, ZeroPc, WalkPc
  <1>2. Numbers'
    BY Zenon DEF Sound, Numbers, create_perf_counters, locals
  <1>3. Paths'
    <2> SUFFICES ASSUME NEW p \in DOMAIN by_path
                 PROVE  /\ p = <<p[1], p[2]>> /\ p[2] \in Idx
                        /\ by_path[p] \in m_loggers \X Idx
                        /\ name'[by_path[p][1]] = p[1]
      BY <1>0, Zenon DEF Paths
    <2>1. p = <<p[1], p[2]>> /\ p[2] \in Idx /\ by_path[p] \in m_loggers \X Idx
          /\ name[by_path[p][1]] = p[1]
      BY Zenon DEF Sound, Paths
    <2>2. by_path[p][1] \in m_loggers
      BY <2>1, Products, Zenon
    <2>3. by_path[p][1] # l /\ by_path[p][1] \in Logger
      BY <1>0, <2>2, Zenon DEF Sound, Types
    <2> QED
      BY <1>0, <2>1, <2>3, Zenon DEF Sound, Types
  <1>4. ASSUME NEW s \in Thread PROVE Placed(s)' /\ Owns(s)' /\ Access(s)'
    <2>1. Placed(s) /\ Owns(s) /\ Access(s) /\ Owns(t) /\ Placed(t)
      BY Zenon DEF Sound
    <2>2. pc \in [Thread -> Inside \cup WalkPc \cup {"idle", "add", "delete"}]
          /\ owned \in [Thread -> Logger \cup {Nobody}] /\ m_loggers \subseteq live
          /\ kept \subseteq live
      BY Zenon DEF Sound, Types
    <2>3. Placed(s)'
      BY <1>0, <2>1, <2>2, Zenon DEF Placed, Inside, UpdatePc, ReadPc, ZeroPc, WalkPc
    <2>4. Owns(s)'
      <3>1. \A u \in Thread : owned[u] # l
        BY <1>0, PerfAssumption, Zenon DEF Sound, Owns
      <3> QED
        BY <1>0, <2>1, <2>2, <3>1, PerfAssumption, Zenon DEF Owns
    <2>5. Access(s)'
      <3>1. CASE s = t
        BY <1>0, <2>1, <3>1, Zenon DEF Placed, Access, Inside, UpdatePc, ReadPc, ZeroPc
      <3>2. CASE s # t
        BY <1>0, <2>1, <2>2, <3>2, Zenon DEF Access
      <3> QED
        BY <3>1, <3>2, Zenon
    <2> QED
      BY <2>3, <2>4, <2>5, Zenon
  <1> QED
    BY <1>1, <1>2, <1>3, <1>4, Zenon DEF Sound

\* Registering a logger, under its unique name.
LEMMA AddSound ==
    ASSUME Sound, NEW t \in Thread, add(t)
    PROVE  Sound'
  <1> DEFINE l == owned[t]
             n == UniqueName(l)
  <1>1. /\ l \in Logger /\ l \in live /\ l \notin m_loggers /\ l \notin kept
        /\ \A s \in Thread : s # t => owned[s] # l
    BY PerfAssumption, Zenon DEF Sound, Types, Owns, add
  <1>2. /\ name' = [name EXCEPT ![l] = n] /\ m_loggers' = m_loggers \cup {l}
        /\ by_path' = WithPaths(l, n)
        /\ \/ kept' = kept \cup {l} /\ owned' = [owned EXCEPT ![t] = Nobody]
           \/ kept' = kept /\ owned' = [owned EXCEPT ![t] = l]
        /\ live' = live /\ pc' = [pc EXCEPT ![t] = "idle"] /\ pc[t] = "add"
        /\ m_lock = Nobody /\ UNCHANGED <<m_lock, at, op, todo>>
    BY Zenon DEF add
  <1> HIDE DEF l, n
  <1>3. Types'
    BY <1>1, <1>2, ZenonT(90) DEF Sound, Types
  <1>4. Numbers'
    BY Zenon DEF Sound, Numbers, add, locals, cells
  <1>5. Paths'
    <2> SUFFICES ASSUME NEW p \in DOMAIN by_path \cup ({n} \X Idx)
                 PROVE  /\ p = <<p[1], p[2]>> /\ p[2] \in Idx
                        /\ by_path'[p] \in m_loggers' \X Idx
                        /\ name'[by_path'[p][1]] = p[1]
      BY <1>2, Zenon DEF Paths, WithPaths
    <2>1. p = <<p[1], p[2]>> /\ p[2] \in Idx
      BY DEF Sound, Paths
    <2>2. CASE p[1] = n
      <3>1. by_path'[p] = <<l, p[2]>>
        BY <1>2, <2>2, Zenon DEF WithPaths
      <3> QED
        BY <1>1, <1>2, <2>1, <2>2, <3>1 DEF Sound, Types
    <2>3. CASE p[1] # n
      <3>1. p \in DOMAIN by_path /\ by_path'[p] = by_path[p]
        BY <1>2, <2>3, Zenon DEF WithPaths
      <3>2. by_path[p] \in m_loggers \X Idx /\ name[by_path[p][1]] = p[1]
        BY <3>1, Zenon DEF Sound, Paths
      <3>3. by_path[p][1] \in m_loggers
        BY <3>2, Products, Zenon
      <3>4. by_path[p] \in m_loggers' \X Idx
        BY <1>2, <3>2, Zenon
      <3>5. name'[by_path[p][1]] = name[by_path[p][1]]
        BY <1>1, <1>2, <3>3, Zenon DEF Sound, Types
      <3> QED
        BY <2>1, <3>1, <3>2, <3>4, <3>5, Zenon
    <2> QED
      BY <2>2, <2>3, Zenon
  <1>6. ASSUME NEW s \in Thread PROVE Placed(s)' /\ Owns(s)' /\ Access(s)'
    <2>1. Placed(s) /\ Owns(s) /\ Access(s) /\ Placed(t)
      BY Zenon DEF Sound
    <2>2. /\ pc \in [Thread -> Inside \cup WalkPc \cup {"idle", "add", "delete"}]
          /\ owned \in [Thread -> Logger \cup {Nobody}]
      BY Zenon DEF Sound, Types
    <2>3. m_loggers \X Idx \subseteq m_loggers' \X Idx
      BY <1>2, Zenon
    <2>4. Placed(s)'
      BY <1>2, <2>1, <2>2, <2>3, Zenon DEF Placed, Inside, UpdatePc, ReadPc, ZeroPc, WalkPc
    <2>5. Owns(s)'
      BY <1>1, <1>2, <2>1, <2>2, Zenon DEF Owns
    <2>6. Access(s)'
      BY <1>1, <1>2, <2>1, <2>2, Zenon DEF Access, Placed, Inside, UpdatePc, ReadPc, ZeroPc
    <2> QED
      BY <2>4, <2>5, <2>6, Zenon
  <1> QED
    BY <1>3, <1>4, <1>5, <1>6, Zenon DEF Sound

\* Taking a logger off the collection, when no walk is under way.
LEMMA RemoveSound ==
    ASSUME Sound, NEW t \in Thread, remove(t)
    PROVE  Sound'
  <1> DEFINE n == name[owned[t]]
  <1>1. /\ m_lock = Nobody /\ m_lock' = Nobody /\ live' = live /\ kept' = kept
        /\ owned' = owned /\ name' = name /\ at' = at /\ todo' = todo /\ op' = op
        /\ m_loggers' = {k \in m_loggers : name[k] # n}
        /\ pc' = [pc EXCEPT ![t] = "delete"] /\ pc[t] = "idle" /\ owned[t] # Nobody
        /\ by_path' = [p \in DOMAIN by_path \ ({n} \X Idx) |-> by_path[p]]
    BY Zenon DEF remove
  <1>2. owned[t] \notin m_loggers'
    BY <1>1, Zenon
  <1> HIDE DEF n
  <1>3. Types'
    BY <1>1, Zenon DEF Sound, Types
  <1>4. Numbers'
    BY Zenon DEF Sound, Numbers, remove, locals, cells
  <1>5. Paths'
    <2> SUFFICES ASSUME NEW p \in DOMAIN by_path, p \notin {n} \X Idx
                 PROVE  /\ p = <<p[1], p[2]>> /\ p[2] \in Idx
                        /\ by_path[p] \in m_loggers' \X Idx
                        /\ name[by_path[p][1]] = p[1]
      BY <1>1, Zenon DEF Paths
    <2>1. /\ p = <<p[1], p[2]>> /\ p[2] \in Idx
          /\ by_path[p] \in m_loggers \X Idx /\ name[by_path[p][1]] = p[1]
      BY Zenon DEF Sound, Paths
    <2>2. p[1] # n
      BY <2>1, Zenon
    <2>3. /\ by_path[p][1] \in m_loggers /\ by_path[p][2] \in Idx
          /\ by_path[p] = <<by_path[p][1], by_path[p][2]>>
      BY <2>1, Products, Zenon
    <2>4. by_path[p][1] \in m_loggers'
      BY <1>1, <2>1, <2>2, <2>3, Zenon
    <2> QED
      BY <2>1, <2>3, <2>4, Zenon
  <1>6. ASSUME NEW s \in Thread PROVE Placed(s)' /\ Owns(s)' /\ Access(s)'
    <2>1. Placed(s) /\ Owns(s) /\ Access(s) /\ Placed(t)
      BY DEF Sound
    <2>2. pc \in [Thread -> Inside \cup WalkPc \cup {"idle", "add", "delete"}]
      BY Zenon DEF Sound, Types
    <2>3. todo[s] = {}
      BY <1>1, <2>1, PerfAssumption, Zenon DEF Placed
    <2>4. Placed(s)'
      BY <1>1, <2>1, <2>2, <2>3, Zenon DEF Placed, Inside, UpdatePc, ReadPc, ZeroPc, WalkPc
    <2>5. Owns(s)'
      BY <1>1, <1>2, <2>1, <2>2, Zenon DEF Owns
    <2>6. Access(s)'
      BY <1>1, <2>1, PerfAssumption, Zenon DEF Access
    <2> QED
      BY <2>4, <2>5, <2>6
  <1> QED
    BY <1>3, <1>4, <1>5, <1>6 DEF Sound

\* Deleting a logger, when it is off the collection.
LEMMA DeleteSound ==
    ASSUME Sound, NEW t \in Thread, Delete(t)
    PROVE  Sound'
  <1>1. /\ live' = live \ {owned[t]} /\ owned' = [owned EXCEPT ![t] = Nobody]
        /\ pc' = [pc EXCEPT ![t] = "idle"] /\ pc[t] = "delete"
        /\ kept' = kept /\ m_loggers' = m_loggers /\ name' = name /\ by_path' = by_path
        /\ m_lock' = m_lock /\ at' = at /\ todo' = todo /\ op' = op
    BY Zenon DEF Delete
  <1>2. /\ owned[t] \notin m_loggers /\ owned[t] \notin kept
        /\ \A s \in Thread : s # t => owned[s] # owned[t] \/ owned[s] = Nobody
    BY <1>1, PerfAssumption, Zenon DEF Sound, Owns
  <1>3. Types'
    BY <1>1, <1>2, Zenon DEF Sound, Types
  <1>4. Numbers'
    BY Zenon DEF Sound, Numbers, Delete, locals, cells
  <1>5. Paths'
    BY <1>1, Zenon DEF Sound, Paths
  <1>6. ASSUME NEW s \in Thread PROVE Placed(s)' /\ Owns(s)' /\ Access(s)'
    <2>1. Placed(s) /\ Owns(s) /\ Access(s) /\ Placed(t)
      BY DEF Sound
    <2>2. /\ pc \in [Thread -> Inside \cup WalkPc \cup {"idle", "add", "delete"}]
          /\ owned \in [Thread -> Logger \cup {Nobody}]
      BY DEF Sound, Types
    <2>3. Placed(s)'
      BY <1>1, <2>1, <2>2, Zenon DEF Placed, Inside, UpdatePc, ReadPc, ZeroPc, WalkPc
    <2>4. Owns(s)'
      BY <1>1, <1>2, <2>1, <2>2, Zenon DEF Owns
    <2>5. Access(s)'
      BY <1>1, <2>1, <2>2, Zenon DEF Access, Placed, Inside, UpdatePc, ReadPc, ZeroPc
    <2> QED
      BY <2>3, <2>4, <2>5
  <1> QED
    BY <1>3, <1>4, <1>5, <1>6 DEF Sound

\* The collection's destructor, when nobody is in a call.
LEMMA ClearSound ==
    ASSUME Sound, clear
    PROVE  Sound'
  <1>0. /\ live' = live \ m_loggers /\ m_loggers' = {} /\ kept' = {} /\ DOMAIN by_path' = {}
        /\ m_lock = Nobody /\ UNCHANGED <<name, owned, m_lock, pc, at, op, todo>>
        /\ \A s \in Thread : pc[s] = "idle" /\ owned[s] = Nobody
    BY Zenon DEF clear
  <1>1. Types'
    BY <1>0, Zenon DEF Sound, Types
  <1>2. Numbers'
    BY Zenon DEF Sound, Numbers, clear, locals, cells
  <1>3. Paths'
    BY <1>0, Zenon DEF Paths
  <1>4. ASSUME NEW s \in Thread PROVE Placed(s)' /\ Owns(s)' /\ Access(s)'
    <2>1. Placed(s) /\ Owns(s)
      BY Zenon DEF Sound
    <2>2. at[s] = Nobody /\ todo[s] = {}
      BY <1>0, <2>1, PerfAssumption, Zenon DEF Placed, Inside, UpdatePc, ReadPc, ZeroPc
    <2> QED
      BY <1>0, <2>1, <2>2, PerfAssumption, Zenon DEF Placed, Owns, Access, WalkPc, Inside, UpdatePc, ReadPc, ZeroPc
  <1> QED
    BY <1>1, <1>2, <1>3, <1>4, Zenon DEF Sound

-----------------------------------------------------------------------------
(* The steps that leave the collection alone: calls, updates, reads and walks *)

\* The steps that leave the collection alone.
LEMMA CollectionKept ==
    ASSUME Sound, UNCHANGED collection
    PROVE  Paths' /\ live' \subseteq Logger /\ m_loggers' \subseteq live'
           /\ kept' \subseteq live' /\ DOMAIN name' = Logger
           /\ owned' \in [Thread -> Logger \cup {Nobody}]
  BY Zenon DEF Sound, Types, Paths, collection

\* A step of t that leaves the collection alone disturbs no other thread: m_lock
\* changes only from t to nobody or back.
LEMMA LocalSound ==
    ASSUME Sound, NEW t \in Thread, UNCHANGED collection, Types', Numbers',
           \A s \in Thread : s # t =>
               pc'[s] = pc[s] /\ at'[s] = at[s] /\ op'[s] = op[s] /\ todo'[s] = todo[s],
           m_lock' # m_lock => {m_lock, m_lock'} \subseteq {t, Nobody},
           pc'[t] \notin {"add", "delete"}, Placed(t)', Access(t)'
    PROVE  Sound'
  <1>1. Paths'
    BY CollectionKept, Zenon
  <1>2. /\ live' = live /\ m_loggers' = m_loggers /\ kept' = kept /\ owned' = owned
    BY Zenon DEF collection
  <1>3. ASSUME NEW s \in Thread PROVE Placed(s)' /\ Owns(s)' /\ Access(s)'
    <2>1. Placed(s) /\ Owns(s) /\ Access(s)
      BY Zenon DEF Sound
    <2>2. CASE s = t
      BY <1>2, <2>1, <2>2, Zenon DEF Owns
    <2>3. CASE s # t
      <3>1. m_lock' = s <=> m_lock = s
        BY <2>3, PerfAssumption, Zenon
      <3>2. Placed(s)'
        BY <1>2, <2>1, <2>3, <3>1, Zenon DEF Placed
      <3>3. Owns(s)'
        BY <1>2, <2>1, <2>3, Zenon DEF Owns
      <3>4. Access(s)'
        BY <1>2, <2>1, <2>3, <3>1, Zenon DEF Access
      <3> QED
        BY <3>2, <3>3, <3>4, Zenon
    <2> QED
      BY <2>2, <2>3, Zenon
  <1> QED
    BY <1>1, <1>3, Zenon DEF Sound

\* A thread that may use a cell enters it with no lock.
LEMMA EnterSound ==
    ASSUME Sound, NEW t \in Thread, NEW c \in Usable(t),
           \/ \E o \in Operation(c) \X Amount : BeginAverage(t, c, o)
           \/ get_tavg_ns(t, c)
    PROVE  Sound'
  <1>1. c \in Cell /\ (c[1] \in kept \/ c[1] = owned[t])
    BY Zenon DEF Usable
  <1>2. \A o \in Operation(c) \X Amount : o \in OpName \X Nat
    BY PerfAssumption, Zenon DEF Operation, OpName
  <1>3. /\ UNCHANGED <<collection, m_lock, todo>> /\ pc[t] = "idle"
        /\ \/ pc' = [pc EXCEPT ![t] = "store"]
           \/ pc' = [pc EXCEPT ![t] = "count"]
        /\ at' = [at EXCEPT ![t] = c]
        /\ \/ op' = op
           \/ \E o \in OpName \X Nat : op' = [op EXCEPT ![t] = o]
    BY <1>2, Zenon DEF BeginAverage, get_tavg_ns, Call
  <1>4. Placed(t) /\ c # Nobody
    BY <1>1, PerfAssumption, Zenon DEF Sound, Cell
  <1>5. Types'
    <2>1. Types
      BY Zenon DEF Sound
    <2>2. pc' \in [Thread -> Inside \cup WalkPc \cup {"idle", "add", "delete"}]
      BY <1>3, <2>1, Zenon DEF Types, Inside, UpdatePc, ReadPc
    <2>3. op' \in [Thread -> OpName \X Nat]
      BY <1>3, <2>1 DEF Types
    <2>4. at' \in [Thread -> Cell \cup {Nobody}]
      BY <1>1, <1>3, <2>1, Zenon DEF Types
    <2> QED
      BY <1>3, <2>1, <2>2, <2>3, <2>4, Zenon DEF Types, collection
  <1>6. Numbers'
    BY <1>1 DEF Sound, Numbers, BeginAverage, get_tavg_ns, locals, cells
  <1>7. /\ pc'[t] \in {"store", "count"} /\ at'[t] = c /\ m_lock' = m_lock
        /\ \A s \in Thread : s # t =>
              pc'[s] = pc[s] /\ at'[s] = at[s] /\ op'[s] = op[s] /\ todo'[s] = todo[s]
    BY <1>1, <1>3, Zenon DEF Sound, Types
  <1>8. m_lock # t
    BY <1>3, <1>4, Zenon DEF Placed, WalkPc, ZeroPc, ReadPc
  <1>9. Placed(t)'
    BY <1>3, <1>4, <1>7, <1>8, Zenon DEF Placed, Inside, UpdatePc, ReadPc, ZeroPc, WalkPc, collection
  <1>10. Access(t)'
    BY <1>1, <1>3, <1>7 DEF Access, collection
  <1> QED
    BY <1>3, <1>5, <1>6, <1>7, <1>9, <1>10, LocalSound, Zenon

\* An operation on a counter that is no average moves no thread.
LEMMA PlainSound ==
    ASSUME Sound, NEW t \in Thread, NEW c \in Cell, NEW o, UpdatePlain(t, c, o)
    PROVE  Sound'
  <1>1. Types' /\ Numbers'
    BY Zenon DEF Sound, Types, Numbers, collection, UpdatePlain, locals
  <1>2. UNCHANGED <<collection, pc, at, op, todo, m_lock>> /\ pc[t] = "idle"
    BY Zenon DEF Call, UpdatePlain
  <1>3. Placed(t) /\ Access(t)
    BY Zenon DEF Sound
  <1>4. Placed(t)' /\ Access(t)'
    BY <1>2, <1>3, Zenon DEF Placed, Access, collection
  <1> QED
    BY <1>1, <1>2, <1>4, LocalSound, Zenon DEF collection

\* A step inside a cell that stays in it.
LEMMA StaySound ==
    ASSUME Sound, NEW t \in Thread,
           \/ StoreAverage(t) \/ ReadCount(t) \/ ReadSum(t)
           \/ CheckCount(t) /\ avgcount[at[t]] # cnt[t]
           \/ ZeroSum(t) \/ ZeroCount(t)
    PROVE  Sound'
  <1>1. /\ UNCHANGED <<collection, m_lock, todo, at>>
        /\ \/ op' = op
           \/ pc[t] = "store" /\ op' = [op EXCEPT ![t] = <<"none", 0>>]
        /\ \/ pc[t] \in UpdatePc /\ pc' = [pc EXCEPT ![t] = "bump"]
           \/ pc[t] \in ReadPc /\ \E q \in ReadPc : pc' = [pc EXCEPT ![t] = q]
           \/ pc[t] \in ZeroPc /\ \E q \in ZeroPc : pc' = [pc EXCEPT ![t] = q]
    BY Zenon DEF UpdatePc, ReadPc, ZeroPc, StoreAverage, ReadCount, ReadSum, CheckCount, ZeroSum,
           ZeroCount
  <1>2. Placed(t) /\ Access(t)
    BY Zenon DEF Sound
  <1>3. at[t] \in Cell
    BY <1>1, <1>2, InsideLive, Zenon DEF Placed, Inside
  <1>4. Types'
    <2>1. Types
      BY Zenon DEF Sound
    <2>2. pc' \in [Thread -> Inside \cup WalkPc \cup {"idle", "add", "delete"}]
      BY <1>1, <2>1 DEF Types, Inside, UpdatePc
    <2>3. op' \in [Thread -> OpName \X Nat]
      BY <1>1, <2>1 DEF Types, OpName
    <2> QED
      BY <1>1, <2>1, <2>2, <2>3, Zenon DEF Types, collection
  <1>5. Numbers'
    <2>1. Numbers
      BY Zenon DEF Sound
    <2>2. CASE StoreAverage(t) \/ ZeroSum(t) \/ ZeroCount(t)
      BY <1>3, <2>1, <2>2 DEF Numbers, StoreAverage, ZeroSum, ZeroCount, locals
    <2>3. CASE ReadCount(t) \/ ReadSum(t)
      BY <1>3, <2>1, <2>3, Zenon DEF Numbers, ReadCount, ReadSum, cells
    <2>4. CASE CheckCount(t) /\ avgcount[at[t]] # cnt[t]
      BY <2>1, <2>4, Zenon DEF Numbers, CheckCount, cells, locals
    <2> QED
      BY <2>2, <2>3, <2>4, Zenon
  <1>6. /\ \/ pc[t] \in UpdatePc /\ pc'[t] = "bump"
           \/ pc[t] \in ReadPc /\ pc'[t] \in ReadPc
           \/ pc[t] \in ZeroPc /\ pc'[t] \in ZeroPc
        /\ op'[t] = op[t] \/ pc[t] = "store"
        /\ \A s \in Thread : s # t =>
              pc'[s] = pc[s] /\ at'[s] = at[s] /\ op'[s] = op[s] /\ todo'[s] = todo[s]
    BY <1>1, Zenon DEF Sound, Types
  <1>7. Placed(t)'
    BY <1>1, <1>2, <1>6, Zenon DEF Placed, Inside, UpdatePc, ReadPc, ZeroPc, WalkPc, collection
  <1>8. Access(t)'
    BY <1>1, <1>2, Zenon DEF Access, collection
  <1>9. pc'[t] \notin {"add", "delete"}
    BY <1>6, Zenon DEF UpdatePc, ReadPc, ZeroPc
  <1> QED
    BY <1>1, <1>4, <1>5, <1>6, <1>7, <1>8, <1>9, LocalSound, Zenon

\* Where Leave takes a thread, and what it does to m_lock.
LEMMA LeaveFacts ==
    ASSUME Sound, NEW t \in Thread, pc[t] \in ReadPc \cup ZeroPc, Leave(t)
    PROVE  /\ at' = [at EXCEPT ![t] = Nobody]
           /\ op' \in [Thread -> OpName \X Nat]
           /\ \A s \in Thread : s # t => op'[s] = op[s]
           /\ \/ /\ m_lock = t /\ m_lock' = t /\ todo[t] # {} /\ op' = op
                 /\ \E q \in WalkPc : pc' = [pc EXCEPT ![t] = q]
              \/ /\ pc' = [pc EXCEPT ![t] = "idle"]
                 /\ todo[t] = {} /\ m_lock' # t
                 /\ m_lock' # m_lock => m_lock = t /\ m_lock' = Nobody
  <1>1. Placed(t) /\ Types
    BY Zenon DEF Sound
  <1>2. op \in [Thread -> OpName \X Nat] /\ <<"none", 0>> \in OpName \X Nat
    BY <1>1, Zenon DEF Types, OpName
  <1>3. /\ op' = op \/ op' = [op EXCEPT ![t] = <<"none", 0>>]
        /\ at' = [at EXCEPT ![t] = Nobody]
    BY Zenon DEF Leave
  <1>4. /\ op' \in [Thread -> OpName \X Nat]
        /\ \A s \in Thread : s # t => op'[s] = op[s]
    BY <1>2, <1>3, Zenon
  <1>5. CASE m_lock = t /\ todo[t] # {}
    BY <1>1, <1>3, <1>4, <1>5, PerfAssumption, Zenon DEF Placed, Leave
  <1>6. CASE ~(m_lock = t /\ todo[t] # {})
    <2>1. todo[t] = {}
      BY <1>1, <1>6, Zenon DEF Placed
    <2>2. pc' = [pc EXCEPT ![t] = "idle"]
      BY <1>6, Zenon DEF Leave
    <2>3. m_lock' = IF m_lock = t THEN Nobody ELSE m_lock
      BY <2>1, Zenon DEF Leave
    <2>4. m_lock' # t /\ (m_lock' # m_lock => m_lock = t /\ m_lock' = Nobody)
      BY <2>3, PerfAssumption, Zenon
    <2> QED
      BY <1>3, <1>4, <2>1, <2>2, <2>4, Zenon
  <1> QED
    BY <1>5, <1>6, Zenon

\* Leaving a cell: for the next one of the walk, or back to the caller.
LEMMA LeaveSound ==
    ASSUME Sound, NEW t \in Thread,
           \/ EndAverage(t) \/ ZeroCount2(t)
           \/ CheckCount(t) /\ avgcount[at[t]] = cnt[t]
    PROVE  Sound'
  <1>1. Placed(t) /\ Types
    BY Zenon DEF Sound
  <1>2. /\ UNCHANGED <<collection, todo>> /\ pc[t] \in Inside
        /\ \/ /\ pc[t] = "bump" /\ UNCHANGED <<op, m_lock>>
              /\ pc' = [pc EXCEPT ![t] = "idle"] /\ at' = [at EXCEPT ![t] = Nobody]
           \/ pc[t] \in ReadPc \cup ZeroPc /\ Leave(t)
    BY Zenon DEF Inside, UpdatePc, ReadPc, ZeroPc, EndAverage, CheckCount, ZeroCount2
  <1>3. at[t] \in Cell
    BY <1>1, <1>2, InsideLive, Zenon DEF Placed
  <1>4. /\ at' = [at EXCEPT ![t] = Nobody]
        /\ op' \in [Thread -> OpName \X Nat]
        /\ \A s \in Thread : s # t => op'[s] = op[s]
        /\ \/ /\ m_lock = t /\ m_lock' = t /\ todo[t] # {} /\ op' = op
              /\ \E q \in WalkPc : pc' = [pc EXCEPT ![t] = q]
           \/ /\ pc' = [pc EXCEPT ![t] = "idle"]
              /\ todo[t] = {} /\ m_lock' # t
              /\ m_lock' # m_lock => m_lock = t /\ m_lock' = Nobody
    <2>1. CASE pc[t] = "bump"
      <3>1. m_lock # t /\ todo[t] = {}
        BY <1>1, <2>1, Zenon DEF Placed, WalkPc, ZeroPc, ReadPc
      <3>2. /\ op' = op /\ m_lock' = m_lock
            /\ pc' = [pc EXCEPT ![t] = "idle"] /\ at' = [at EXCEPT ![t] = Nobody]
        BY <1>2, <2>1, Zenon DEF ReadPc, ZeroPc
      <3>3. op' \in [Thread -> OpName \X Nat]
        BY <1>1, <3>2, Zenon DEF Types
      <3> QED
        BY <3>1, <3>2, <3>3, Zenon
    <2>2. CASE pc[t] \in ReadPc \cup ZeroPc
      <3>1. Leave(t)
        BY <1>2, <2>2, Zenon DEF ReadPc, ZeroPc
      <3> QED
        BY <2>2, <3>1, LeaveFacts, Zenon
    <2> QED
      BY <1>2, <2>1, <2>2, Zenon
  <1>5. Types'
    <2>1. pc' \in [Thread -> Inside \cup WalkPc \cup {"idle", "add", "delete"}]
      BY <1>1, <1>4, Zenon DEF Types
    <2>2. at' \in [Thread -> Cell \cup {Nobody}] /\ m_lock' \in Thread \cup {Nobody}
      BY <1>1, <1>4, Zenon DEF Types
    <2> QED
      BY <1>1, <1>2, <1>4, <2>1, <2>2, Zenon DEF Types, collection
  <1>6. Numbers'
    BY <1>3 DEF Sound, Numbers, EndAverage, CheckCount, ZeroCount2, locals, cells
  <1>7. /\ at'[t] = Nobody
        /\ \/ pc'[t] \in WalkPc /\ m_lock' = t /\ todo'[t] # {} /\ op'[t] = op[t] /\ m_lock = t
           \/ pc'[t] = "idle" /\ m_lock' # t /\ todo'[t] = {}
        /\ \A s \in Thread : s # t =>
              pc'[s] = pc[s] /\ at'[s] = at[s] /\ op'[s] = op[s] /\ todo'[s] = todo[s]
    BY <1>1, <1>2, <1>4, Zenon DEF Types
  <1>8. Placed(t)'
    BY <1>1, <1>2, <1>7, Zenon DEF Placed, Inside, UpdatePc, ReadPc, ZeroPc, WalkPc, collection
  <1>9. Access(t)'
    BY <1>7, Zenon DEF Access
  <1>10. /\ m_lock' # m_lock => {m_lock, m_lock'} \subseteq {t, Nobody}
         /\ pc'[t] \notin {"add", "delete"}
    BY <1>4, <1>7, Zenon DEF WalkPc
  <1> QED
    BY <1>2, <1>5, <1>6, <1>7, <1>8, <1>9, <1>10, LocalSound, Zenon

\* Starting a walk under m_lock.
LEMMA WalkSound ==
    ASSUME Sound, NEW t \in Thread,
           \/ with_counters(t) \/ reset(t, m_loggers)
           \/ \E k \in m_loggers : reset(t, {k})
    PROVE  Sound'
  <1>1. Placed(t) /\ Types
    BY Zenon DEF Sound
  <1>2. /\ UNCHANGED <<collection, at>> /\ m_lock = Nobody /\ m_lock' = t /\ pc[t] = "idle"
        /\ \E q \in WalkPc : pc' = [pc EXCEPT ![t] = q] /\ op' = [op EXCEPT ![t] = <<q, 0>>]
    BY Zenon DEF WalkPc, with_counters, reset, Call
  <1>3. \E S \in SUBSET (m_loggers \X Idx) : S # {} /\ todo' = [todo EXCEPT ![t] = S]
    <2>1. CASE with_counters(t)
      <3>1. \A p \in DOMAIN by_path : by_path[p] \in m_loggers \X Idx
        BY Zenon DEF Sound, Paths
      <3> DEFINE entries == {by_path[p] : p \in DOMAIN by_path}
      <3>2. entries # {} /\ todo' = [todo EXCEPT ![t] = entries]
        BY <2>1, Zenon DEF with_counters
      <3>3. entries \in SUBSET (m_loggers \X Idx)
        BY <3>1, Zenon
      <3> QED
        BY <3>2, <3>3, Zenon
    <2>2. CASE reset(t, m_loggers)
      BY <2>2, Zenon DEF reset
    <2>3. CASE \E k \in m_loggers : reset(t, {k})
      <3> PICK k \in m_loggers : reset(t, {k})
        BY <2>3, Zenon
      <3>1. {c \in {k} \X Idx : Type[c[2]] # {"U64"}} \subseteq m_loggers \X Idx
        BY Zenon
      <3> QED
        BY <3>1, Zenon DEF reset
    <2> QED
      BY <2>1, <2>2, <2>3, Zenon
  <1>4. m_loggers \X Idx \subseteq Cell
    BY <1>1, Zenon DEF Types, Cell
  <1>5. Types'
    <2>1. /\ pc' \in [Thread -> Inside \cup WalkPc \cup {"idle", "add", "delete"}]
          /\ op' \in [Thread -> OpName \X Nat]
      BY <1>1, <1>2 DEF Types, WalkPc, OpName
    <2>2. todo' \in [Thread -> SUBSET Cell]
      BY <1>1, <1>3, <1>4, Zenon DEF Types
    <2> QED
      BY <1>1, <1>2, <2>1, <2>2, Zenon DEF Types, collection
  <1>6. Numbers'
    BY Zenon DEF Sound, Numbers, with_counters, reset, locals, cells
  <1>7. /\ pc'[t] \in WalkPc /\ op'[t][1] \in WalkPc /\ m_lock' = t /\ at'[t] = at[t]
        /\ todo'[t] # {} /\ todo'[t] \subseteq m_loggers \X Idx
        /\ \A s \in Thread : s # t =>
              pc'[s] = pc[s] /\ at'[s] = at[s] /\ op'[s] = op[s] /\ todo'[s] = todo[s]
    BY <1>1, <1>2, <1>3 DEF Types
  <1>8. at[t] = Nobody
    BY <1>1, <1>2, Zenon DEF Placed, Inside, UpdatePc, ReadPc, ZeroPc
  <1>9. Placed(t)'
    BY <1>2, <1>7, <1>8, Zenon DEF Placed, Inside, UpdatePc, ReadPc, ZeroPc, WalkPc, collection
  <1>10. Access(t)'
    BY <1>7, <1>8, Zenon DEF Access
  <1>11. pc'[t] \notin {"add", "delete"}
    BY <1>7, Zenon DEF WalkPc
  <1> QED
    BY <1>2, <1>5, <1>6, <1>7, <1>9, <1>10, <1>11, LocalSound, Zenon

\* A walk entering its next cell, with m_lock held.
LEMMA VisitSound ==
    ASSUME Sound, NEW t \in Thread, VisitEntry(t) \/ ResetCell(t)
    PROVE  Sound'
  <1> DEFINE c == NextOf(todo[t])
  <1>1. Placed(t) /\ Types
    BY Zenon DEF Sound
  <1>2. /\ UNCHANGED <<collection, m_lock, op>> /\ pc[t] \in WalkPc
        /\ \/ pc' = [pc EXCEPT ![t] = "count"]
           \/ pc' = [pc EXCEPT ![t] = "zero"]
        /\ at' = [at EXCEPT ![t] = c] /\ todo' = [todo EXCEPT ![t] = @ \ {c}]
    BY Zenon DEF WalkPc, VisitEntry, ResetCell
  <1>3. c \in todo[t]
    BY <1>1, <1>2, Zenon DEF Placed, NextOf
  <1> HIDE DEF c
  <1>4. /\ c \in Cell /\ c # Nobody /\ c[1] \in m_loggers /\ m_lock = t
        /\ todo[t] \subseteq m_loggers \X Idx /\ op[t][1] \in WalkPc
    BY <1>1, <1>2, <1>3, Products, PerfAssumption DEF Placed, Types, Cell
  <1>5. Types'
    <2>1. pc' \in [Thread -> Inside \cup WalkPc \cup {"idle", "add", "delete"}]
      BY <1>1, <1>2, Zenon DEF Types, Inside, ReadPc, ZeroPc
    <2>2. at' \in [Thread -> Cell \cup {Nobody}]
      BY <1>1, <1>2, <1>4, Zenon DEF Types
    <2>3. todo' \in [Thread -> SUBSET Cell]
      BY <1>1, <1>2, Zenon DEF Types
    <2> QED
      BY <1>1, <1>2, <2>1, <2>2, <2>3, Zenon DEF Types, collection
  <1>6. Numbers'
    BY Zenon DEF Sound, Numbers, VisitEntry, ResetCell, locals, cells
  <1>7. /\ pc'[t] \in {"count", "zero"} /\ at'[t] = c /\ todo'[t] \subseteq todo[t]
        /\ \A s \in Thread : s # t =>
              pc'[s] = pc[s] /\ at'[s] = at[s] /\ op'[s] = op[s] /\ todo'[s] = todo[s]
    BY <1>1, <1>2, Zenon DEF Types
  <1>8. Placed(t)'
    BY <1>2, <1>4, <1>7, Zenon DEF Placed, Inside, UpdatePc, ReadPc, ZeroPc, WalkPc, collection
  <1>9. Access(t)'
    BY <1>2, <1>4, <1>7, SMTT(60) DEF Access, collection
  <1> QED
    BY <1>2, <1>5, <1>6, <1>7, <1>8, <1>9, LocalSound, Zenon

\* Nothing moves.
LEMMA StutterSound ==
    ASSUME Sound, UNCHANGED vars
    PROVE  Sound'
  BY DEF Sound, Types, Numbers, Paths, Placed, Owns, Access, vars, collection, cells, locals

LEMMA StepSound ==
    ASSUME Sound, [Next]_vars
    PROVE  Sound'
  <1>1. ASSUME NEW t \in Thread, NewCall(t) PROVE Sound'
    <2>1. CASE \E l \in Logger : Worker(t, l) \/ RDMADispatcher(t, l)
      BY <2>1, BuildSound, Zenon DEF Worker, RDMADispatcher
    <2>2. ASSUME NEW c \in Usable(t),
                 (\E o \in Operation(c) \X Amount : Update(t, c, o)) \/ get_tavg_ns(t, c)
          PROVE  Sound'
      <3>1. CASE \/ \E o \in Operation(c) \X Amount : BeginAverage(t, c, o)
                 \/ get_tavg_ns(t, c)
        BY <3>1, EnterSound, Zenon
      <3>2. CASE \E o \in Operation(c) \X Amount : UpdatePlain(t, c, o)
        BY <3>2, PlainSound, Zenon DEF Usable
      <3> QED
        BY <2>2, <3>1, <3>2, Zenon DEF Update
    <2>3. CASE \/ with_counters(t) \/ reset(t, m_loggers)
               \/ \E k \in m_loggers : reset(t, {k})
      BY <2>3, WalkSound, Zenon
    <2>4. CASE remove(t)
      BY <2>4, RemoveSound, Zenon
    <2> QED
      BY <1>1, <2>1, <2>2, <2>3, <2>4, Zenon DEF NewCall
  <1>2. ASSUME NEW t \in Thread, Step(t) PROVE Sound'
    <2>1. CASE add(t) \/ Delete(t)
      BY <2>1, AddSound, DeleteSound, Zenon
    <2>2. CASE StoreAverage(t) \/ ReadCount(t) \/ ReadSum(t) \/ ZeroSum(t) \/ ZeroCount(t)
      BY <2>2, StaySound, Zenon
    <2>3. CASE CheckCount(t)
      BY <2>3, StaySound, LeaveSound, Zenon
    <2>4. CASE EndAverage(t) \/ ZeroCount2(t)
      BY <2>4, LeaveSound, Zenon
    <2>5. CASE VisitEntry(t) \/ ResetCell(t)
      BY <2>5, VisitSound, Zenon
    <2> QED
      BY <1>2, <2>1, <2>2, <2>3, <2>4, <2>5, Zenon DEF Step
  <1> QED
    BY <1>1, <1>2, ClearSound, StutterSound, Zenon DEF Next, Quiet

-----------------------------------------------------------------------------
(* What the counts say *)


\* Between two counts of a cell lie its updates in progress.
CountsOf(c) ==
    c[1] \in live /\ c \notin raced /\ Resetting(c) = {} =>
        /\ avgcount[c] = avgcount2[c] + Cardinality(Updating(c))
        /\ avgcount2[c] = finished[c]

\* What a thread inside a cell that no reset overlapped knows.
Knows(t) ==
    LET c == at[t] IN
    c # Nobody /\ c \notin raced =>
        /\ pc[t] = "zero2" => avgcount[c] = 0
        /\ pc[t] \in {"sum", "check"} => cnt[t] <= avgcount2[c]
        /\ pc[t] = "check" /\ IsAverage(c) /\ avgcount[c] = cnt[t] => sum[t] = u64[c]

Counted ==
    /\ \A c \in Cell : Overlapped(c) => c \in raced
    /\ \A c \in Cell : CountsOf(c)
    /\ \A t \in Thread : Knows(t)

PerfInv == Sound /\ Counted

-----------------------------------------------------------------------------

LEMMA InitCounted == Init => Counted
  <1> SUFFICES ASSUME Init PROVE Counted
    BY Zenon
  <1>1. \A c \in Cell : Updating(c) = {} /\ Resetting(c) = {}
    BY Zenon DEF Init, Updating, Resetting
  <1>2. \A c \in Cell : Overlapped(c) => c \in raced
    BY <1>1, Zenon DEF Overlapped
  <1>3. \A c \in Cell : CountsOf(c)
    BY <1>1, FS_EmptySet, Zenon DEF Init, CountsOf
  <1>4. \A t \in Thread : Knows(t)
    BY Zenon DEF Init, Knows
  <1> QED
    BY <1>2, <1>3, <1>4, Zenon DEF Counted

\* A cell of a live logger leaves raced only by never having been in it.
LEMMA NotRaced ==
    ASSUME NoteRaces, Counted, NEW c \in Cell, c[1] \in live', c \notin raced'
    PROVE  c \notin raced /\ ~Overlapped(c) /\ ~Overlapped(c)'
  <1>1. c \in live' \X Idx
    BY Products, Zenon DEF Cell
  <1> QED
    BY <1>1, Zenon DEF NoteRaces, Counted

\* The updates in progress are finitely many.
LEMMA UpdatingFinite ==
    ASSUME NEW c
    PROVE  /\ IsFiniteSet(Updating(c)) /\ Cardinality(Updating(c)) \in Nat
           /\ Cardinality(Updating(c)) = 0 <=> Updating(c) = {}
  <1>1. Updating(c) \subseteq Thread
    BY Zenon DEF Updating
  <1>2. IsFiniteSet(Updating(c))
    BY <1>1, PerfAssumption, FS_Subset, Zenon
  <1> QED
    BY <1>2, FS_CardinalityType, FS_EmptySet, Zenon

\* Who is in a cell that no reset overlapped.
LEMMA Apart ==
    ASSUME Sound, NEW t \in Thread, NEW c \in Cell, at[t] = c, ~Overlapped(c)
    PROVE  /\ pc[t] \in UpdatePc \cup ReadPc => Resetting(c) = {}
           /\ pc[t] \in ZeroPc => Updating(c) = {} /\ Reading(c) = {}
  BY Zenon DEF Overlapped, Updating, Reading, Resetting, UpdatePc, ReadPc, ZeroPc

\* What a reader of a cell that no reset overlapped may conclude.
LEMMA ReaderKnows ==
    ASSUME Sound, Counted, NEW t \in Thread, at[t] # Nobody, at[t] \notin raced,
           pc[t] \in {"sum", "check"}
    PROVE  LET c == at[t] IN
           /\ Resetting(c) = {}
           /\ avgcount[c] = avgcount2[c] + Cardinality(Updating(c))
           /\ avgcount2[c] = finished[c] /\ cnt[t] <= avgcount2[c]
           /\ avgcount[c] \in Nat /\ avgcount2[c] \in Nat /\ cnt[t] \in Nat
  <1> DEFINE c == at[t]
  <1>1. c \in Cell /\ c[1] \in live
    BY InsideLive, Zenon
  <1>2. Resetting(c) = {}
    BY <1>1, Apart, Zenon DEF Counted, ReadPc
  <1>3. CountsOf(c) /\ Knows(t)
    BY <1>1, Zenon DEF Counted
  <1>4. avgcount[c] \in Nat /\ avgcount2[c] \in Nat /\ cnt[t] \in Nat
    BY <1>1, Zenon DEF Sound, Numbers
  <1> QED
    BY <1>1, <1>2, <1>3, <1>4, Zenon DEF CountsOf, Knows

\* The sets of threads in a cell, from where the threads are.
LEMMA SameUpdating ==
    ASSUME NEW c, \A s \in Thread : (pc'[s] \in UpdatePc /\ at'[s] = c) <=>
                                    (pc[s] \in UpdatePc /\ at[s] = c)
    PROVE  Updating(c)' = Updating(c)
  BY Zenon DEF Updating, UpdatePc

LEMMA SameResetting ==
    ASSUME NEW c, \A s \in Thread : (pc'[s] \in ZeroPc /\ at'[s] = c) <=>
                                    (pc[s] \in ZeroPc /\ at[s] = c)
    PROVE  Resetting(c)' = Resetting(c)
  BY Zenon DEF Resetting, ZeroPc

\* Steps that write no cell: a thread that moves neither was in an update or a
\* reset nor goes where Counted says something of it.
LEMMA QuietCounted ==
    ASSUME Sound, Sound', Counted, NoteRaces, UNCHANGED <<cells, finished>>, live' \subseteq live,
           \A s \in Thread :
               \/ pc'[s] = pc[s] /\ at'[s] = at[s] /\ cnt'[s] = cnt[s] /\ sum'[s] = sum[s]
               \/ /\ pc[s] \notin UpdatePc \cup ZeroPc
                  /\ pc'[s] \notin UpdatePc \cup {"sum", "check", "zero2"}
    PROVE  Counted'
  <1>1. \A c \in Cell : Overlapped(c)' => c \in raced'
    BY Zenon DEF NoteRaces
  <1>2. ASSUME NEW c \in Cell PROVE CountsOf(c)'
    <2> SUFFICES ASSUME c[1] \in live', c \notin raced', Resetting(c)' = {}
                 PROVE  /\ avgcount[c] = avgcount2[c] + Cardinality(Updating(c)')
                        /\ avgcount2[c] = finished[c]
      BY Zenon DEF CountsOf, cells
    <2>1. c \notin raced
      BY NotRaced, Zenon
    <2>2. Resetting(c) = {}
      BY Zenon DEF Resetting, ZeroPc
    <2>3. Updating(c)' = Updating(c)
      BY SameUpdating, Zenon
    <2> QED
      BY <2>1, <2>2, <2>3, Zenon DEF Counted, CountsOf
  <1>3. ASSUME NEW s \in Thread PROVE Knows(s)'
    <2>1. CASE pc'[s] = pc[s] /\ at'[s] = at[s] /\ cnt'[s] = cnt[s] /\ sum'[s] = sum[s]
      <3> SUFFICES ASSUME at'[s] # Nobody, at'[s] \notin raced' PROVE Knows(s)'
        BY Zenon DEF Knows
      <3>1. at'[s] \in Cell /\ at'[s][1] \in live'
        BY InsideLiveNext, Zenon DEF AllInsideLive
      <3>2. at[s] \notin raced
        BY <2>1, <3>1, NotRaced, Zenon
      <3> QED
        BY <2>1, <3>2, Zenon DEF Counted, Knows, cells
    <2>2. CASE pc'[s] \notin UpdatePc \cup {"sum", "check", "zero2"}
      BY <2>2, Zenon DEF Knows
    <2> QED
      BY <2>1, <2>2, Zenon
  <1> QED
    BY <1>1, <1>2, <1>3, Zenon DEF Counted

\* Steps of a thread t in one cell: the rest is as it was.
LEMMA CellCounted ==
    ASSUME Sound, Sound', Counted, NoteRaces, live' = live, NEW t \in Thread, NEW a \in Cell,
           at[t] \in {a, Nobody}, at'[t] \in {a, Nobody},
           \A c \in Cell : c # a => /\ u64'[c] = u64[c] /\ avgcount'[c] = avgcount[c]
                                    /\ avgcount2'[c] = avgcount2[c] /\ finished'[c] = finished[c],
           \A s \in Thread : s # t => /\ pc'[s] = pc[s] /\ at'[s] = at[s]
                                      /\ cnt'[s] = cnt[s] /\ sum'[s] = sum[s],
           CountsOf(a)', Knows(t)',
           \A s \in Thread : s # t /\ at[s] = a => Knows(s)'
    PROVE  Counted'
  <1>1. \A c \in Cell : Overlapped(c)' => c \in raced'
    BY Zenon DEF NoteRaces
  <1>2. ASSUME NEW c \in Cell, c # a PROVE CountsOf(c)'
    <2> SUFFICES ASSUME c[1] \in live', c \notin raced', Resetting(c)' = {}
                 PROVE  /\ avgcount'[c] = avgcount2'[c] + Cardinality(Updating(c)')
                        /\ avgcount2'[c] = finished'[c]
      BY Zenon DEF CountsOf
    <2>1. c \notin raced
      BY NotRaced, Zenon
    <2>2. c # Nobody
      BY PerfAssumption, Zenon DEF Cell
    <2>3. Resetting(c) = {}
      BY <1>2, <2>2, SameResetting, Zenon
    <2>4. Updating(c)' = Updating(c)
      BY <1>2, <2>2, SameUpdating, Zenon
    <2> QED
      BY <1>2, <2>1, <2>3, <2>4, Zenon DEF Counted, CountsOf
  <1>3. ASSUME NEW s \in Thread, s # t, at[s] # a PROVE Knows(s)'
    <2> SUFFICES ASSUME at'[s] # Nobody, at'[s] \notin raced' PROVE Knows(s)'
      BY Zenon DEF Knows
    <2>1. at'[s] \in Cell /\ at'[s][1] \in live'
      BY InsideLiveNext, Zenon DEF AllInsideLive
    <2>2. at[s] \notin raced
      BY <1>3, <2>1, NotRaced, Zenon
    <2> QED
      BY <1>3, <2>1, <2>2 DEF Counted, Knows
  <1> QED
    BY <1>1, <1>2, <1>3, Zenon DEF Counted

\* avgcount++ of an update that begins: the count is now ahead of every reader.
LEMMA BeginCounted ==
    ASSUME Sound, Sound', Counted, NoteRaces, NEW t \in Thread, NEW a \in Cell, NEW o,
           BeginAverage(t, a, o)
    PROVE  Counted'
  <1>1. /\ Types /\ Numbers /\ Placed(t) /\ live' = live /\ pc[t] = "idle"
    BY Zenon DEF Sound, BeginAverage, Call, locals, collection
  <1>2. at[t] = Nobody
    BY <1>1, Zenon DEF Placed, Inside, UpdatePc, ReadPc, ZeroPc
  <1>3. /\ pc'[t] = "store" /\ at'[t] = a
        /\ \A s \in Thread : s # t => /\ pc'[s] = pc[s] /\ at'[s] = at[s]
                                      /\ cnt'[s] = cnt[s] /\ sum'[s] = sum[s]
    BY <1>1, Zenon DEF Types, BeginAverage, Call, locals, collection
  <1>4. /\ avgcount'[a] = avgcount[a] + 1 /\ avgcount[a] \in Nat /\ avgcount2[a] \in Nat
        /\ \A c \in Cell : c # a => avgcount'[c] = avgcount[c]
        /\ avgcount2' = avgcount2 /\ finished' = finished /\ u64' = u64
    BY <1>1, Zenon DEF Numbers, BeginAverage, Call, locals, collection
  <1>5. a # Nobody
    BY PerfAssumption, Zenon DEF Cell
  <1>6. CountsOf(a)'
    <2> SUFFICES ASSUME a[1] \in live, a \notin raced', Resetting(a)' = {}
                 PROVE  /\ avgcount'[a] = avgcount2[a] + Cardinality(Updating(a)')
                        /\ avgcount2[a] = finished[a]
      BY <1>1, <1>4, Zenon DEF CountsOf
    <2>1. a \notin raced
      BY <1>1, NotRaced, Zenon
    <2>2. Resetting(a) = {}
      BY <1>1, <1>3, SameResetting, Zenon DEF ZeroPc
    <2>3. t \notin Updating(a) /\ Updating(a)' = Updating(a) \cup {t}
      BY <1>1, <1>3, Zenon DEF Updating
    <2>4. Cardinality(Updating(a)') = Cardinality(Updating(a)) + 1
      BY <2>3, UpdatingFinite, FS_AddElement, Zenon
    <2>5. Cardinality(Updating(a)) \in Nat
      BY UpdatingFinite, Zenon
    <2>6. avgcount[a] = avgcount2[a] + Cardinality(Updating(a)) /\ avgcount2[a] = finished[a]
      BY <2>1, <2>2, Zenon DEF Counted, CountsOf
    <2> QED
      BY <1>4, <2>4, <2>5, <2>6
  <1>7. Knows(t)'
    BY <1>3, Zenon DEF Knows
  <1>8. ASSUME NEW s \in Thread, s # t, at[s] = a PROVE Knows(s)'
    <2> SUFFICES ASSUME a \notin raced' PROVE Knows(s)'
      BY <1>3, <1>8, Zenon DEF Knows
    <2>1. a[1] \in live
      BY <1>5, <1>8, InsideLive, Zenon
    <2>2. a \notin raced /\ ~Overlapped(a)'
      BY <1>1, <2>1, NotRaced, Zenon
    <2>3. Resetting(a)' = {}
      BY <1>3, <2>2, Zenon DEF Overlapped, Updating
    <2>4. pc'[s] # "zero2"
      BY <1>3, <1>8, <2>3, Zenon DEF Resetting
    <2>5. CASE pc[s] \in {"sum", "check"}
      <3>1. /\ avgcount[a] = avgcount2[a] + Cardinality(Updating(a)) /\ cnt[s] <= avgcount2[a]
            /\ cnt[s] \in Nat
        BY <1>5, <1>8, <2>2, <2>5, ReaderKnows, Zenon
      <3>2. avgcount'[a] # cnt[s]
        BY <1>4, <3>1, UpdatingFinite
      <3> QED
        BY <1>3, <1>4, <1>8, <2>4, <3>1, <3>2, Zenon DEF Knows
    <2>6. CASE pc[s] \notin {"sum", "check"}
      BY <1>3, <1>8, <2>4, <2>6, Zenon DEF Knows
    <2> QED
      BY <2>5, <2>6, Zenon
  <1> QED
    BY <1>1, <1>2, <1>3, <1>4, <1>6, <1>7, <1>8, CellCounted, Zenon

\* The store of an update: a reader whose counts could agree would have to see
\* no update in progress.
LEMMA StoreCounted ==
    ASSUME Sound, Sound', Counted, NoteRaces, NEW t \in Thread, StoreAverage(t)
    PROVE  Counted'
  <1> DEFINE a == at[t]
  <1>1. Types /\ Numbers /\ Placed(t) /\ live' = live /\ pc[t] = "store"
    BY Zenon DEF Sound, StoreAverage, locals, collection
  <1>2. a # Nobody
    BY <1>1, Zenon DEF Placed, Inside, UpdatePc
  <1>3. a \in Cell /\ a[1] \in live
    BY <1>2, InsideLive, Zenon
  <1>4. /\ pc'[t] = "bump" /\ at' = at /\ cnt' = cnt /\ sum' = sum
        /\ \A s \in Thread : s # t => pc'[s] = pc[s]
    BY <1>1, Zenon DEF Types, StoreAverage, locals, collection
  <1>5. /\ avgcount' = avgcount /\ avgcount2' = avgcount2 /\ finished' = finished
        /\ \A c \in Cell : c # a => u64'[c] = u64[c]
    BY <1>1, Zenon DEF Numbers, StoreAverage, locals, collection
  <1>6. CountsOf(a)'
    <2> SUFFICES ASSUME a \notin raced', Resetting(a)' = {}
                 PROVE  /\ avgcount[a] = avgcount2[a] + Cardinality(Updating(a)')
                        /\ avgcount2[a] = finished[a]
      BY <1>4, <1>5, Zenon DEF CountsOf
    <2>1. a \notin raced
      BY <1>1, <1>3, NotRaced, Zenon
    <2>2. Resetting(a) = {}
      BY <1>1, <1>4, SameResetting, Zenon DEF ZeroPc
    <2>3. Updating(a)' = Updating(a)
      BY <1>1, <1>4, SameUpdating, Zenon DEF UpdatePc
    <2> QED
      BY <1>3, <2>1, <2>2, <2>3, Zenon DEF Counted, CountsOf
  <1>7. Knows(t)'
    BY <1>4, Zenon DEF Knows
  <1>8. ASSUME NEW s \in Thread, s # t, at[s] = a PROVE Knows(s)'
    <2> SUFFICES ASSUME a \notin raced' PROVE Knows(s)'
      BY <1>4, <1>8, Zenon DEF Knows
    <2>1. a \notin raced
      BY <1>1, <1>3, NotRaced, Zenon
    <2>2. t \in Updating(a)
      BY <1>1, Zenon DEF Updating
    <2>3. CASE pc[s] = "check"
      <3>1. /\ avgcount[a] = avgcount2[a] + Cardinality(Updating(a)) /\ cnt[s] <= avgcount2[a]
            /\ cnt[s] \in Nat /\ avgcount2[a] \in Nat
        BY <1>2, <1>8, <2>1, <2>3, ReaderKnows, Zenon
      <3>2. Cardinality(Updating(a)) \in Nat \ {0}
        BY <2>2, UpdatingFinite, Zenon
      <3>3. avgcount[a] # cnt[s]
        BY <3>1, <3>2
      <3> QED
        BY <1>4, <1>5, <1>8, <2>3, <3>1, <3>3, Zenon DEF Knows
    <2>4. CASE pc[s] # "check"
      BY <1>2, <1>4, <1>5, <1>8, <2>1, <2>4, Zenon DEF Knows, Counted
    <2> QED
      BY <2>3, <2>4, Zenon
  <1> QED
    BY <1>1, <1>3, <1>4, <1>5, <1>6, <1>7, <1>8, CellCounted, Zenon

\* avgcount2++ of an update that ends.
LEMMA EndCounted ==
    ASSUME Sound, Sound', Counted, NoteRaces, NEW t \in Thread, EndAverage(t)
    PROVE  Counted'
  <1>0. PICK a : a = at[t]
    BY Zenon
  <1>1. Types /\ Numbers /\ Placed(t) /\ live' = live /\ pc[t] = "bump"
    BY Zenon DEF Sound, EndAverage, locals, collection
  <1>2. a # Nobody
    BY <1>0, <1>1, Zenon DEF Placed, Inside, UpdatePc
  <1>3. a \in Cell /\ a[1] \in live
    BY <1>0, <1>2, InsideLive, Zenon
  <1>4. /\ pc'[t] = "idle" /\ at'[t] = Nobody
        /\ \A s \in Thread : s # t => /\ pc'[s] = pc[s] /\ at'[s] = at[s]
                                      /\ cnt'[s] = cnt[s] /\ sum'[s] = sum[s]
    BY <1>1, Zenon DEF Types, EndAverage, locals, collection
  <1>5. /\ avgcount2'[a] = avgcount2[a] + 1 /\ finished'[a] = finished[a] + 1
        /\ avgcount2[a] \in Nat /\ finished[a] \in Nat /\ avgcount[a] \in Nat
        /\ \A c \in Cell : c # a => avgcount2'[c] = avgcount2[c] /\ finished'[c] = finished[c]
        /\ avgcount' = avgcount /\ u64' = u64
    BY <1>0, <1>1, <1>3, Zenon DEF Numbers, EndAverage, locals, collection
  <1>6. CountsOf(a)'
    <2> SUFFICES ASSUME a \notin raced'
                 PROVE  /\ avgcount[a] = avgcount2'[a] + Cardinality(Updating(a)')
                        /\ avgcount2'[a] = finished'[a]
      BY <1>5, Zenon DEF CountsOf
    <2>1. a \notin raced /\ ~Overlapped(a)
      BY <1>1, <1>3, NotRaced, Zenon
    <2>2. Resetting(a) = {}
      BY <1>0, <1>1, <1>3, <2>1, Apart, Zenon DEF UpdatePc
    <2>3. t \in Updating(a) /\ Updating(a)' = Updating(a) \ {t}
      BY <1>0, <1>1, <1>2, <1>4, Zenon DEF Updating
    <2>4. Cardinality(Updating(a)') = Cardinality(Updating(a)) - 1
      BY <2>3, UpdatingFinite, FS_RemoveElement, Zenon
    <2>5. Cardinality(Updating(a)) \in Nat
      BY UpdatingFinite, Zenon
    <2>6. avgcount[a] = avgcount2[a] + Cardinality(Updating(a)) /\ avgcount2[a] = finished[a]
      BY <1>3, <2>1, <2>2, Zenon DEF Counted, CountsOf
    <2> QED
      BY <1>5, <2>4, <2>5, <2>6, SMTT(60)
  <1>7. Knows(t)'
    BY <1>4, Zenon DEF Knows
  <1>8. ASSUME NEW s \in Thread, s # t, at[s] = a PROVE Knows(s)'
    <2> SUFFICES ASSUME a \notin raced' PROVE Knows(s)'
      BY <1>4, <1>8, Zenon DEF Knows
    <2>1. a \notin raced
      BY <1>1, <1>3, NotRaced, Zenon
    <2>2. Knows(s) /\ cnt[s] \in Nat
      BY <1>1, Zenon DEF Counted, Numbers
    <2> QED
      BY <1>2, <1>4, <1>5, <1>8, <2>1, <2>2, SMTT(60) DEF Knows
  <1> QED
    BY <1>0, <1>1, <1>3, <1>4, <1>5, <1>6, <1>7, <1>8, CellCounted, ZenonT(90)

-----------------------------------------------------------------------------
(* The other accesses to the cells: plain stores, loads, resets, new loggers *)

\* A store into a counter that is no average.
LEMMA PlainCounted ==
    ASSUME Sound, Sound', Counted, NoteRaces, NEW t \in Thread, NEW a \in Cell, NEW o,
           ~IsAverage(a), UpdatePlain(t, a, o)
    PROVE  Counted'
  <1>1. Types /\ Numbers /\ Placed(t) /\ live' = live /\ pc[t] = "idle"
    BY Zenon DEF Sound, UpdatePlain, Call, locals, collection
  <1>2. at[t] = Nobody
    BY <1>1, Zenon DEF Placed, Inside, UpdatePc, ReadPc, ZeroPc
  <1>3. /\ pc' = pc /\ at' = at /\ cnt' = cnt /\ sum' = sum
        /\ avgcount' = avgcount /\ avgcount2' = avgcount2 /\ finished' = finished
        /\ \A c \in Cell : c # a => u64'[c] = u64[c]
    BY <1>1, Zenon DEF Numbers, UpdatePlain, Call, locals, collection
  <1>4. Updating(a)' = Updating(a) /\ Resetting(a)' = Resetting(a)
    BY <1>3, Zenon DEF Updating, Resetting
  <1>5. CountsOf(a)'
    BY <1>1, <1>3, <1>4, NotRaced, Zenon DEF Counted, CountsOf
  <1>6. Knows(t)'
    BY <1>2, <1>3, Zenon DEF Knows
  <1>7. ASSUME NEW s \in Thread, s # t, at[s] = a PROVE Knows(s)'
    <2> SUFFICES ASSUME a # Nobody, a \notin raced' PROVE Knows(s)'
      BY <1>3, <1>7, Zenon DEF Knows
    <2>1. a[1] \in live
      BY <1>7, InsideLive, Zenon
    <2>2. a \notin raced
      BY <1>1, <2>1, NotRaced, Zenon
    <2> QED
      BY <1>3, <1>7, <2>2, Zenon DEF Counted, Knows
  <1> QED
    BY <1>1, <1>2, <1>3, <1>5, <1>6, <1>7, CellCounted, Zenon

\* The loads of read_avg.
LEMMA LoadCounted ==
    ASSUME Sound, Sound', Counted, NoteRaces, NEW t \in Thread, ReadCount(t) \/ ReadSum(t)
    PROVE  Counted'
  <1> DEFINE a == at[t]
  <1>1. Types /\ Numbers /\ Placed(t) /\ live' = live /\ pc[t] \in ReadPc
    BY Zenon DEF Sound, ReadPc, ReadCount, ReadSum, locals, collection, cells
  <1>2. a # Nobody
    BY <1>1, Zenon DEF Placed, Inside
  <1>3. a \in Cell /\ a[1] \in live
    BY <1>2, InsideLive, Zenon
  <1>4. /\ pc'[t] \in ReadPc /\ at' = at
        /\ avgcount' = avgcount /\ avgcount2' = avgcount2 /\ finished' = finished /\ u64' = u64
        /\ \A s \in Thread : s # t => pc'[s] = pc[s] /\ cnt'[s] = cnt[s] /\ sum'[s] = sum[s]
    BY <1>1, Zenon DEF Types, Numbers, ReadPc, ReadCount, ReadSum, locals, collection, cells
  <1>5. Updating(a)' = Updating(a) /\ Resetting(a)' = Resetting(a)
    BY <1>1, <1>4, SameUpdating, SameResetting, Zenon DEF ReadPc, UpdatePc, ZeroPc
  <1>6. CountsOf(a)'
    BY <1>1, <1>3, <1>4, <1>5, NotRaced, ZenonT(90) DEF Counted, CountsOf
  <1>7. ASSUME a \notin raced' PROVE a \notin raced
    BY <1>1, <1>3, <1>7, NotRaced, Zenon
  <1>8. Knows(t)'
    <2>1. CASE ReadCount(t)
      <3>1. pc'[t] = "sum" /\ cnt'[t] = avgcount2[a] /\ avgcount2[a] \in Nat
        BY <1>1, <1>3, <2>1, ZenonT(90) DEF Types, Numbers, ReadCount
      <3>2. at'[t] = a /\ cnt'[t] <= avgcount2'[a]
        BY <1>4, <3>1, SMTT(60)
      <3> QED
        BY <3>1, <3>2, Zenon DEF Knows
    <2>2. CASE ReadSum(t)
      <3>1. pc[t] = "sum" /\ pc'[t] = "check" /\ cnt' = cnt /\ sum'[t] = u64[a]
        BY <1>1, <2>2, Zenon DEF Types, Numbers, ReadSum, locals
      <3>2. Knows(t)
        BY Zenon DEF Counted
      <3> QED
        BY <1>2, <1>4, <1>7, <3>1, <3>2, Zenon DEF Knows
    <2> QED
      BY <2>1, <2>2, Zenon
  <1>9. ASSUME NEW s \in Thread, s # t, at[s] = a PROVE Knows(s)'
    <2>1. Knows(s)
      BY Zenon DEF Counted
    <2> QED
      BY <1>2, <1>4, <1>7, <1>9, <2>1, Zenon DEF Knows
  <1> QED
    BY <1>1, <1>3, <1>4, <1>6, <1>8, <1>9, CellCounted, Zenon

\* The three stores of a reset: nobody else is in the cell, or it is raced.
LEMMA ZeroCounted ==
    ASSUME Sound, Sound', Counted, NoteRaces, NEW t \in Thread,
           ZeroSum(t) \/ ZeroCount(t) \/ ZeroCount2(t)
    PROVE  Counted'
  <1>0. PICK a : a = at[t]
    BY Zenon
  <1>1. Types /\ Numbers /\ Placed(t) /\ live' = live /\ pc[t] \in ZeroPc
    BY Zenon DEF Sound, ZeroPc, ZeroSum, ZeroCount, ZeroCount2, locals, collection
  <1>2. a # Nobody
    BY <1>0, <1>1, Zenon DEF Placed, Inside
  <1>3. a \in Cell /\ a[1] \in live
    BY <1>0, <1>2, InsideLive, Zenon
  <1>4. /\ cnt' = cnt /\ sum' = sum
        /\ \A s \in Thread : s # t => pc'[s] = pc[s] /\ at'[s] = at[s]
        /\ \/ at'[t] = a /\ pc'[t] \in {"zero1", "zero2"}
           \/ at'[t] = Nobody /\ ZeroCount2(t)
    <2>1. CASE ZeroSum(t) \/ ZeroCount(t)
      BY <1>0, <1>1, <2>1, Zenon DEF Types, ZeroSum, ZeroCount, locals
    <2>2. CASE ZeroCount2(t)
      <3>1. /\ at' = [at EXCEPT ![t] = Nobody]
            /\ \E q : pc' = [pc EXCEPT ![t] = q]
        BY <2>2, Zenon DEF Leave, ZeroCount2
      <3> QED
        BY <1>1, <2>2, <3>1, Zenon DEF Types, ZeroCount2, locals
    <2> QED
      BY <2>1, <2>2, Zenon
  <1>5. /\ \A c \in Cell : c # a => /\ u64'[c] = u64[c] /\ avgcount'[c] = avgcount[c]
                                    /\ avgcount2'[c] = avgcount2[c] /\ finished'[c] = finished[c]
        /\ ZeroCount(t) => avgcount'[a] = 0
        /\ ZeroCount2(t) => avgcount' = avgcount /\ avgcount2'[a] = 0 /\ finished'[a] = 0
    BY <1>0, <1>1, <1>3, Zenon DEF Numbers, ZeroSum, ZeroCount, ZeroCount2, locals, collection
  <1>6. ASSUME a \notin raced'
        PROVE  a \notin raced /\ Updating(a) = {} /\ Reading(a) = {}
    BY <1>0, <1>1, <1>3, <1>6, NotRaced, Apart, ZenonT(90)
  <1>7. CountsOf(a)'
    <2> SUFFICES ASSUME a \notin raced', Resetting(a)' = {}
                 PROVE  /\ avgcount'[a] = avgcount2'[a] + Cardinality(Updating(a)')
                        /\ avgcount2'[a] = finished'[a]
      BY Zenon DEF CountsOf
    <2>1. ZeroCount2(t)
      BY <1>4, Zenon DEF Resetting
    <2>2. avgcount[a] = 0
      BY <1>0, <1>2, <1>6, <2>1, Zenon DEF Counted, Knows, ZeroCount2
    <2>3. Updating(a)' = {}
      BY <1>2, <1>4, <1>6, <2>1, Zenon DEF Updating
    <2> QED
      BY <1>5, <2>1, <2>2, <2>3, FS_EmptySet, SMTT(60)
  <1>8. Knows(t)'
    <2>1. CASE ZeroCount(t)
      BY <1>4, <1>5, <2>1, Zenon DEF Knows
    <2>2. CASE ZeroSum(t)
      <3>1. pc'[t] = "zero1"
        BY <1>1, <2>2, Zenon DEF Types, ZeroSum
      <3> QED
        BY <3>1, Zenon DEF Knows
    <2>3. CASE ZeroCount2(t)
      <3>1. at'[t] = Nobody
        BY <1>1, <2>3, Zenon DEF Types, Leave, ZeroCount2
      <3> QED
        BY <3>1, Zenon DEF Knows
    <2> QED
      BY <2>1, <2>2, <2>3, Zenon
  <1>9. ASSUME NEW s \in Thread, s # t, at[s] = a PROVE Knows(s)'
    <2> SUFFICES ASSUME a \notin raced' PROVE Knows(s)'
      BY <1>4, <1>9, Zenon DEF Knows
    <2>1. pc[s] \notin {"sum", "check"}
      BY <1>6, <1>9, Zenon DEF Reading
    <2>2. pc[s] # "zero2"
      <3>1. Placed(s)
        BY Zenon DEF Sound
      <3> QED
        BY <1>1, <1>9, <3>1, Zenon DEF Placed, ZeroPc
    <2> QED
      BY <1>4, <1>9, <2>1, <2>2, Zenon DEF Knows
  <1> QED
    BY <1>0, <1>1, <1>3, <1>4, <1>5, <1>7, <1>8, <1>9, CellCounted, Zenon

\* A new logger: its cells are cleared, and nobody is in them.
LEMMA BuildCounted ==
    ASSUME Sound, Sound', Counted, NoteRaces, NEW t \in Thread, NEW l \in Logger, NEW n,
           create_perf_counters(t, l, n)
    PROVE  Counted'
  <1>1. Types /\ Placed(t) /\ l \notin live /\ live' = live \cup {l} /\ pc[t] = "idle"
    BY Zenon DEF Sound, create_perf_counters, locals
  <1>2. /\ pc'[t] = "add" /\ at' = at /\ cnt' = cnt /\ sum' = sum
        /\ \A s \in Thread : s # t => pc'[s] = pc[s]
    BY <1>1, Zenon DEF Types, create_perf_counters, locals
  <1>3. \A s \in Thread : at[s] # Nobody => at[s] \in Cell /\ at[s][1] \in live
    BY InsideLive, Zenon
  <1>4. \A c \in Cell :
            IF c[1] = l
            THEN avgcount'[c] = 0 /\ avgcount2'[c] = 0 /\ finished'[c] = 0
            ELSE /\ u64'[c] = u64[c] /\ avgcount'[c] = avgcount[c]
                 /\ avgcount2'[c] = avgcount2[c] /\ finished'[c] = finished[c]
    BY Zenon DEF create_perf_counters
  <1>5. \A c \in Cell : Overlapped(c)' => c \in raced'
    BY Zenon DEF NoteRaces
  <1>6. ASSUME NEW c \in Cell PROVE CountsOf(c)'
    <2>0. c # Nobody
      BY PerfAssumption, Zenon DEF Cell
    <2>1. Updating(c)' = Updating(c) /\ Resetting(c)' = Resetting(c)
      BY <1>1, <1>2, SameUpdating, SameResetting, ZenonT(90) DEF UpdatePc, ZeroPc
    <2>2. CASE c[1] = l
      <3>1. Updating(c)' = {}
        BY <1>1, <1>3, <2>0, <2>1, <2>2, Zenon DEF Updating
      <3> QED
        BY <1>4, <2>2, <3>1, FS_EmptySet, SMTT(60) DEF CountsOf
    <2>3. CASE c[1] # l
      BY <1>1, <1>4, <2>1, <2>3, NotRaced, Zenon DEF Counted, CountsOf
    <2> QED
      BY <2>2, <2>3, Zenon
  <1>7. ASSUME NEW s \in Thread PROVE Knows(s)'
    <2>1. CASE s = t
      BY <1>2, <2>1, Zenon DEF Knows
    <2>2. CASE s # t
      <3> SUFFICES ASSUME at[s] # Nobody, at[s] \notin raced' PROVE Knows(s)'
        BY <1>2, Zenon DEF Knows
      <3>1. at[s] \in Cell /\ at[s][1] \in live /\ at[s][1] # l
        BY <1>1, <1>3, Zenon
      <3>2. at[s] \notin raced
        BY <1>1, <3>1, NotRaced, Zenon
      <3>3. Knows(s)
        BY Zenon DEF Counted
      <3> QED
        BY <1>2, <1>4, <2>2, <3>1, <3>2, <3>3, Zenon DEF Knows
    <2> QED
      BY <2>1, <2>2, Zenon
  <1> QED
    BY <1>5, <1>6, <1>7, Zenon DEF Counted

-----------------------------------------------------------------------------
(* The steps that write no cell, and the theorems *)

\* The steps that write no cell.  Idly(t) is what they have in common.
Idly(t) ==
    /\ UNCHANGED <<cells, finished>> /\ live' \subseteq live
    /\ pc[t] \in {"add", "idle", "delete", "visit", "clear", "check"}
    /\ \E q \in {"idle", "delete", "visit", "clear", "count", "zero"} :
           pc' = [pc EXCEPT ![t] = q]
    /\ at' = at \/ \E c : at' = [at EXCEPT ![t] = c]
    /\ \/ cnt' = cnt /\ sum' = sum
       \/ cnt' = [cnt EXCEPT ![t] = 0] /\ sum' = [sum EXCEPT ![t] = 0]

LEMMA OtherCounted ==
    ASSUME Sound, Sound', Counted, NoteRaces, NEW t \in Thread,
           \/ add(t) \/ remove(t) \/ Delete(t)
           \/ with_counters(t) \/ reset(t, m_loggers) \/ (\E k \in m_loggers : reset(t, {k}))
           \/ VisitEntry(t) \/ ResetCell(t) \/ (\E c \in Cell : get_tavg_ns(t, c))
           \/ CheckCount(t)
    PROVE  Counted'
  <1>1. ASSUME add(t) PROVE Idly(t)
    BY <1>1, Zenon DEF add, Idly, locals
  <1>2. ASSUME remove(t) PROVE Idly(t)
    BY <1>2, Zenon DEF remove, Idly, locals
  <1>3. ASSUME Delete(t) PROVE Idly(t)
    BY <1>3, Zenon DEF Delete, Idly, locals
  <1>4. ASSUME with_counters(t) PROVE Idly(t)
    BY <1>4, Zenon DEF with_counters, Call, Idly, locals, collection
  <1>5. ASSUME NEW S, reset(t, S) PROVE Idly(t)
    BY <1>5, Zenon DEF reset, Call, Idly, locals, collection
  <1>6. ASSUME VisitEntry(t) \/ ResetCell(t) PROVE Idly(t)
    BY <1>6, Zenon DEF VisitEntry, ResetCell, Idly, locals, collection
  <1>7. ASSUME NEW c \in Cell, get_tavg_ns(t, c) PROVE Idly(t)
    BY <1>7, Zenon DEF get_tavg_ns, Call, Idly, locals, collection
  <1>8. ASSUME CheckCount(t) PROVE Idly(t)
    <2>1. pc[t] = "check" /\ UNCHANGED <<collection, cells, finished>>
      BY <1>8, Zenon DEF CheckCount
    <2>2. CASE avgcount[at[t]] = cnt[t]
      <3>1. /\ Leave(t) /\ cnt' = [cnt EXCEPT ![t] = 0] /\ sum' = [sum EXCEPT ![t] = 0]
        BY <1>8, <2>2, Zenon DEF CheckCount
      <3>2. /\ at' = [at EXCEPT ![t] = Nobody]
            /\ \E q \in WalkPc \cup {"idle"} : pc' = [pc EXCEPT ![t] = q]
        BY <2>1, <3>1, LeaveFacts, Zenon DEF ReadPc
      <3> QED
        BY <2>1, <3>1, <3>2, Zenon DEF WalkPc, Idly, collection
    <2>3. CASE avgcount[at[t]] # cnt[t]
      BY <1>8, <2>1, <2>3, Zenon DEF CheckCount, Idly, locals, collection
    <2> QED
      BY <2>2, <2>3, Zenon
  <1>9. Idly(t)
    BY <1>1, <1>2, <1>3, <1>4, <1>5, <1>6, <1>7, <1>8, ZenonT(90)
  <1>10. Types /\ Numbers
    BY Zenon DEF Sound
  <1>11. /\ pc[t] \notin UpdatePc \cup ZeroPc
         /\ pc'[t] \notin UpdatePc \cup {"sum", "check", "zero2"}
         /\ \A s \in Thread : s # t => /\ pc'[s] = pc[s] /\ at'[s] = at[s]
                                       /\ cnt'[s] = cnt[s] /\ sum'[s] = sum[s]
    BY <1>9, <1>10, Zenon DEF Idly, Types, Numbers, UpdatePc, ZeroPc
  <1>12. UNCHANGED <<cells, finished>> /\ live' \subseteq live
    BY <1>9, Zenon DEF Idly
  <1> QED
    BY <1>11, <1>12, QuietCounted, Zenon

LEMMA ClearCounted ==
    ASSUME Sound, Sound', Counted, NoteRaces, clear
    PROVE  Counted'
  BY QuietCounted, Zenon DEF clear, locals

LEMMA StutterCounted ==
    ASSUME Counted, UNCHANGED vars
    PROVE  Counted'
  <1> USE DEF vars, collection, cells, locals
  <1>1. ASSUME NEW c \in Cell
        PROVE  /\ Updating(c)' = Updating(c) /\ Resetting(c)' = Resetting(c)
               /\ Reading(c)' = Reading(c)
    BY Zenon DEF Updating, Resetting, Reading
  <1>2. \A c \in Cell : Overlapped(c)' => c \in raced'
    BY <1>1, Zenon DEF Counted, Overlapped
  <1>3. \A c \in Cell : CountsOf(c)'
    BY <1>1, Zenon DEF Counted, CountsOf
  <1>4. \A t \in Thread : Knows(t)'
    BY Zenon DEF Counted, Knows
  <1> QED
    BY <1>2, <1>3, <1>4, Zenon DEF Counted

LEMMA StepCounted ==
    ASSUME Sound, Sound', Counted, [Next]_vars
    PROVE  Counted'
  <1>1. ASSUME NEW t \in Thread, NewCall(t), NoteRaces PROVE Counted'
    <2>1. CASE \E l \in Logger : Worker(t, l) \/ RDMADispatcher(t, l)
      BY <1>1, <2>1, BuildCounted, Zenon DEF Worker, RDMADispatcher
    <2>2. ASSUME NEW c \in Usable(t),
                 (\E o \in Operation(c) \X Amount : Update(t, c, o)) \/ get_tavg_ns(t, c)
          PROVE  Counted'
      <3>1. c \in Cell
        BY Zenon DEF Usable
      <3>2. CASE \E o \in Operation(c) \X Amount : BeginAverage(t, c, o)
        BY <1>1, <3>1, <3>2, BeginCounted, Zenon
      <3>3. CASE \E o \in Operation(c) \X Amount : ~IsAverage(c) /\ UpdatePlain(t, c, o)
        BY <1>1, <3>1, <3>3, PlainCounted, Zenon
      <3>4. CASE get_tavg_ns(t, c)
        BY <1>1, <3>1, <3>4, OtherCounted, Zenon
      <3> QED
        BY <2>2, <3>2, <3>3, <3>4, Zenon DEF Update
    <2>3. CASE \/ with_counters(t) \/ reset(t, m_loggers) \/ remove(t)
               \/ \E k \in m_loggers : reset(t, {k})
      BY <1>1, <2>3, OtherCounted, Zenon
    <2> QED
      BY <1>1, <2>1, <2>2, <2>3, Zenon DEF NewCall
  <1>2. ASSUME NEW t \in Thread, Step(t), NoteRaces PROVE Counted'
    <2>1. CASE StoreAverage(t) \/ EndAverage(t)
      BY <1>2, <2>1, StoreCounted, EndCounted, Zenon
    <2>2. CASE ReadCount(t) \/ ReadSum(t)
      BY <1>2, <2>2, LoadCounted, Zenon
    <2>3. CASE ZeroSum(t) \/ ZeroCount(t) \/ ZeroCount2(t)
      BY <1>2, <2>3, ZeroCounted, Zenon
    <2>4. CASE add(t) \/ Delete(t) \/ CheckCount(t) \/ VisitEntry(t) \/ ResetCell(t)
      BY <1>2, <2>4, OtherCounted, Zenon
    <2> QED
      BY <1>2, <2>1, <2>2, <2>3, <2>4, Zenon DEF Step
  <1> QED
    BY <1>1, <1>2, ClearCounted, StutterCounted, Zenon DEF Next, Quiet

-----------------------------------------------------------------------------
(* The names of the registered loggers *)

\* A nonempty set of numbers has a least element.
LEMMA LeastNumber ==
    ASSUME NEW T, T \subseteq Nat, T # {}
    PROVE  \E k \in T : \A j \in T : k <= j
  <1>1. \E x \in T : \A y \in T : ~ (<<y, x>> \in OpToRel(<, Nat))
    BY WFMin, NatLessThanWellFounded, Zenon
  <1>2. PICK x \in T : \A y \in T : ~ (<<y, x>> \in OpToRel(<, Nat))
    BY <1>1, Zenon
  <1>3. ASSUME NEW y \in T PROVE x <= y
    <2>1. x \in Nat /\ y \in Nat
      BY Zenon
    <2>2. ~ (<<y, x>> \in OpToRel(<, Nat))
      BY <1>2, Zenon
    <2>3. ~(y < x)
      BY <2>1, <2>2 DEF OpToRel
    <2> QED
      BY <2>1, <2>3
  <1> QED
    BY <1>3, Zenon

\* What a name is made of
Part == Logger \cup {"Worker", "RDMADispatcher"}

\* One more pigeon than holes.
LEMMA Collision ==
    ASSUME NEW T, IsFiniteSet(T), Cardinality(T) \in Nat, NEW f \in [0..Cardinality(T) -> T]
    PROVE  \E x, y \in 0..Cardinality(T) : x # y /\ f[x] = f[y]
  <1> DEFINE c == Cardinality(T)
             S == 0..c
  <1>1. f \in [S -> T]
    BY Zenon
  <1>2. c \in Nat
    BY Zenon
  <1>3. IsFiniteSet(S) /\ Cardinality(S) = c + 1
    <2> HIDE DEF c
    <2> QED
      BY <1>2, FS_Interval, SMTT(60)
  <1>4. Cardinality(T) < Cardinality(S)
    BY <1>2, <1>3
  <1>5. \E x, y \in S : x # y /\ f[x] = f[y]
    <2> HIDE DEF S
    <2> QED
      BY <1>1, <1>3, <1>4, FS_PigeonHole, ZenonT(90)
  <1> QED
    BY <1>5, Zenon

\* The loop of add ends: there are more suffixes than registered loggers.
LEMMA FreeName ==
    ASSUME IsFiniteSet(m_loggers), NEW l \in Logger, name[l] \in Seq(Part)
    PROVE  UniqueName(l) \in Seq(Part) /\ ~Registered(UniqueName(l))
  <1> DEFINE c == Cardinality(m_loggers)
             free == {k \in 0..c : ~Registered(Suffixed(l, k))}
  <1>1. c \in Nat
    BY FS_CardinalityType, Zenon
  <1>2. \A k \in Nat : Suffixed(l, k) \in Seq(Part) /\ Len(Suffixed(l, k)) = Len(name[l]) + k
    <2> SUFFICES ASSUME NEW k \in Nat
                 PROVE  Suffixed(l, k) \in Seq(Part) /\ Len(Suffixed(l, k)) = Len(name[l]) + k
      BY Zenon
    <2> DEFINE tail == [i \in 1..k |-> l]
    <2>1. l \in Part
      BY Zenon DEF Part
    <2>2. tail \in Seq(Part) /\ Len(tail) = k
      BY <2>1, SMTT(60)
    <2> HIDE DEF tail
    <2>3. name[l] \o tail \in Seq(Part) /\ Len(name[l] \o tail) = Len(name[l]) + k
      BY <2>2, SMTT(60)
    <2> QED
      BY <2>3, Zenon DEF Suffixed, tail
  <1>3. free # {}
    <2> SUFFICES ASSUME free = {} PROVE FALSE
      BY Zenon
    <2>1. \A k \in 0..c : \E g \in m_loggers : name[g] = Suffixed(l, k)
      BY Zenon DEF Registered
    <2> DEFINE f == [k \in 0..c |-> CHOOSE g \in m_loggers : name[g] = Suffixed(l, k)]
    <2>2. f \in [0..c -> m_loggers] /\ \A k \in 0..c : name[f[k]] = Suffixed(l, k)
      BY <2>1, Zenon
    <2> HIDE DEF f
    <2>5. \E x, y \in 0..c : x # y /\ f[x] = f[y]
      BY <1>1, <2>2, Collision, Zenon
    <2> HIDE DEF c
    <2>6. PICK x \in 0..c, y \in 0..c : x # y /\ f[x] = f[y]
      BY <2>5, Zenon
    <2>7. x \in Nat /\ y \in Nat
      BY <1>1
    <2>8. Len(name[l]) + x = Len(name[l]) + y
      BY <1>2, <2>2, <2>6, <2>7, Zenon
    <2>9. Len(name[l]) \in Nat
      OBVIOUS
    <2> QED
      BY <2>6, <2>7, <2>8, <2>9, SMTT(60)
  <1>4. free \subseteq Nat
    BY <1>1
  <1> DEFINE least == CHOOSE k \in free : \A j \in free : k <= j
  <1>5. least \in free
    <2> HIDE DEF free
    <2>1. \E k \in free : \A j \in free : k <= j
      BY <1>3, <1>4, LeastNumber, Zenon
    <2> QED
      BY <2>1, Zenon
  <1>6. UniqueName(l) = Suffixed(l, least)
    BY Zenon DEF UniqueName
  <1>7. ~Registered(Suffixed(l, least))
    BY <1>5, Zenon
  <1> QED
    BY <1>2, <1>4, <1>5, <1>6, <1>7, Zenon

\* Names that are sequences of parts, no two registered loggers with the same,
\* and every path of a registered logger in the map.
Names ==
    /\ IsFiniteSet(m_loggers)
    /\ \A l \in Logger : name[l] \in Seq(Part)
    /\ \A k, l \in m_loggers : name[k] = name[l] => k = l
    /\ \A l \in m_loggers, i \in Idx :
           <<name[l], i>> \in DOMAIN by_path /\ by_path[<<name[l], i>>] = <<l, i>>

LEMMA InitNames == Init => Names
  <1> SUFFICES ASSUME Init PROVE Names
    BY Zenon
  <1>1. m_loggers = {} /\ name = [l \in Logger |-> <<>>]
    BY Zenon DEF Init
  <1>2. IsFiniteSet({}) /\ <<>> \in Seq(Part)
    BY FS_EmptySet
  <1> QED
    BY <1>1, <1>2, Zenon DEF Names

\* A new logger is not registered yet.
LEMMA BuildNames ==
    ASSUME Sound, Names, NEW t \in Thread, NEW l \in Logger,
           NEW n \in {"Worker", "RDMADispatcher"}, create_perf_counters(t, l, n)
    PROVE  Names'
  <1>1. /\ l \notin live /\ name' = [name EXCEPT ![l] = <<n>>]
        /\ m_loggers' = m_loggers /\ by_path' = by_path
    BY Zenon DEF create_perf_counters
  <1>2. m_loggers \subseteq Logger /\ l \notin m_loggers /\ DOMAIN name = Logger
    BY <1>1, Zenon DEF Sound, Types
  <1>3. \A k \in m_loggers : name'[k] = name[k]
    BY <1>1, <1>2, Zenon
  <1>4. <<n>> \in Seq(Part)
    <2>1. n \in Part
      BY Zenon DEF Part
    <2> QED
      BY <2>1
  <1>5. \A k \in Logger : name'[k] \in Seq(Part)
    BY <1>1, <1>2, <1>4, Zenon DEF Names
  <1>6. \A j, k \in m_loggers : name'[j] = name'[k] => j = k
    BY <1>3, Zenon DEF Names
  <1>7. ASSUME NEW k \in m_loggers, NEW i \in Idx
        PROVE  <<name'[k], i>> \in DOMAIN by_path /\ by_path[<<name'[k], i>>] = <<k, i>>
    <2>1. name'[k] = name[k]
      BY <1>3, Zenon
    <2>2. <<name[k], i>> \in DOMAIN by_path /\ by_path[<<name[k], i>>] = <<k, i>>
      BY Zenon DEF Names
    <2> QED
      BY <2>1, <2>2, Zenon
  <1>8. IsFiniteSet(m_loggers)
    BY Zenon DEF Names
  <1> QED
    BY <1>1, <1>5, <1>6, <1>7, <1>8, ZenonT(90) DEF Names

\* add finds a name no registered logger has.
LEMMA AddNames ==
    ASSUME Sound, Names, NEW t \in Thread, add(t)
    PROVE  Names'
  <1> DEFINE l == owned[t]
             n == UniqueName(l)
  <1>1. l \in Logger /\ l \notin m_loggers /\ m_loggers \subseteq Logger /\ DOMAIN name = Logger
    BY PerfAssumption, Zenon DEF Sound, Types, Owns, add
  <1>2. /\ name' = [name EXCEPT ![l] = n] /\ m_loggers' = m_loggers \cup {l}
        /\ by_path' = WithPaths(l, n)
    BY Zenon DEF add
  <1>3. n \in Seq(Part) /\ ~Registered(n)
    BY <1>1, FreeName, Zenon DEF Names
  <1> HIDE DEF l, n
  <1>4. /\ name'[l] = n
        /\ \A k \in m_loggers : name'[k] = name[k] /\ name[k] # n
    BY <1>1, <1>2, <1>3, Zenon DEF Registered
  <1>5. IsFiniteSet(m_loggers')
    <2>1. IsFiniteSet(m_loggers)
      BY Zenon DEF Names
    <2>2. IsFiniteSet(m_loggers \cup {l})
      BY <2>1, FS_AddElement, Zenon
    <2> QED
      BY <1>2, <2>2, Zenon
  <1>6. \A k \in Logger : name'[k] \in Seq(Part)
    BY <1>1, <1>2, <1>3, Zenon DEF Names
  <1>7. ASSUME NEW j \in m_loggers', NEW k \in m_loggers', name'[j] = name'[k]
        PROVE  j = k
    <2>1. j \in m_loggers /\ k \in m_loggers => (name[j] = name[k] => j = k)
      BY Zenon DEF Names
    <2>2. (j = l \/ j \in m_loggers) /\ (k = l \/ k \in m_loggers)
      BY <1>2, Zenon
    <2>3. CASE j \in m_loggers /\ k \in m_loggers
      <3>1. name'[j] = name[j] /\ name'[k] = name[k]
        BY <1>4, <2>3, Zenon
      <3> QED
        BY <1>7, <2>1, <2>3, <3>1, Zenon
    <2>4. CASE (j = l /\ k \in m_loggers) \/ (j \in m_loggers /\ k = l)
      BY <1>4, <1>7, <2>4, SMTT(60)
    <2>5. CASE j = l /\ k = l
      BY <2>5
    <2> QED
      BY <2>2, <2>3, <2>4, <2>5, Zenon
  <1>8. ASSUME NEW k \in m_loggers', NEW i \in Idx
        PROVE  <<name'[k], i>> \in DOMAIN by_path' /\ by_path'[<<name'[k], i>>] = <<k, i>>
    <2> DEFINE p == <<name'[k], i>>
    <2>1. p[1] = name'[k] /\ p[2] = i
      OBVIOUS
    <2>2. CASE k = l
      <3>1. p \in {n} \X Idx
        BY <1>4, <2>2, SMTT(60)
      <3> HIDE DEF p
      <3>2. p \in DOMAIN by_path' /\ by_path'[p] = <<l, p[2]>>
        BY <1>2, <1>4, <2>1, <2>2, <3>1, Zenon DEF WithPaths
      <3> QED
        BY <2>1, <2>2, <3>2, Zenon DEF p
    <2>3. CASE k # l
      <3>1. k \in m_loggers /\ name'[k] = name[k] /\ name[k] # n
        BY <1>2, <1>4, <2>3, Zenon
      <3>2. p \in DOMAIN by_path /\ by_path[p] = <<k, i>>
        BY <3>1, Zenon DEF Names
      <3> HIDE DEF p
      <3>3. p \in DOMAIN by_path' /\ by_path'[p] = by_path[p]
        BY <1>2, <2>1, <3>1, <3>2, Zenon DEF WithPaths
      <3> QED
        BY <3>2, <3>3, Zenon DEF p
    <2> QED
      BY <2>2, <2>3, Zenon
  <1> QED
    BY <1>5, <1>6, <1>7, <1>8, ZenonT(90) DEF Names

\* remove takes the paths of its own logger only.
LEMMA RemoveNames ==
    ASSUME Names, NEW t \in Thread, remove(t)
    PROVE  Names'
  <1> DEFINE n == name[owned[t]]
  <1>1. /\ name' = name /\ m_loggers' = {k \in m_loggers : name[k] # n}
        /\ by_path' = [p \in DOMAIN by_path \ ({n} \X Idx) |-> by_path[p]]
    BY Zenon DEF remove
  <1> HIDE DEF n
  <1>2. m_loggers' \subseteq m_loggers
    BY <1>1, Zenon
  <1>3. IsFiniteSet(m_loggers')
    BY <1>2, FS_Subset, Zenon DEF Names
  <1>4. ASSUME NEW k \in m_loggers', NEW i \in Idx
        PROVE  <<name[k], i>> \in DOMAIN by_path' /\ by_path'[<<name[k], i>>] = <<k, i>>
    <2>1. k \in m_loggers /\ name[k] # n
      BY <1>1, Zenon
    <2>2. <<name[k], i>> \notin {n} \X Idx
      BY <2>1
    <2>3. <<name[k], i>> \in DOMAIN by_path /\ by_path[<<name[k], i>>] = <<k, i>>
      BY <2>1, Zenon DEF Names
    <2> QED
      BY <1>1, <2>2, <2>3, Zenon
  <1> QED
    BY <1>1, <1>2, <1>3, <1>4, ZenonT(90) DEF Names

LEMMA StepNames ==
    ASSUME Sound, Names, [Next]_vars
    PROVE  Names'
  <1>1. ASSUME UNCHANGED <<name, m_loggers, by_path>> PROVE Names'
    BY <1>1, Zenon DEF Names
  <1>2. ASSUME clear PROVE Names'
    <2>1. m_loggers' = {} /\ name' = name
      BY <1>2, Zenon DEF clear
    <2> QED
      BY <2>1, FS_EmptySet, Zenon DEF Names
  <1>3. ASSUME NEW t \in Thread, NewCall(t) PROVE Names'
    <2>1. CASE \E l \in Logger : Worker(t, l) \/ RDMADispatcher(t, l)
      BY <2>1, BuildNames, Zenon DEF Worker, RDMADispatcher
    <2>2. ASSUME NEW c \in Usable(t),
                 (\E o \in Operation(c) \X Amount : Update(t, c, o)) \/ get_tavg_ns(t, c)
          PROVE  Names'
      BY <1>1, <2>2, Zenon DEF Update, BeginAverage, UpdatePlain, get_tavg_ns, collection
    <2>3. CASE \/ with_counters(t) \/ reset(t, m_loggers)
               \/ \E k \in m_loggers : reset(t, {k})
      BY <1>1, <2>3, Zenon DEF with_counters, reset, collection
    <2>4. CASE remove(t)
      BY <2>4, RemoveNames, Zenon
    <2> QED
      BY <1>3, <2>1, <2>2, <2>3, <2>4, Zenon DEF NewCall
  <1>4. ASSUME NEW t \in Thread, Step(t) PROVE Names'
    <2>1. CASE add(t)
      BY <2>1, AddNames, Zenon
    <2>2. CASE Delete(t)
      BY <1>1, <2>2, Zenon DEF Delete
    <2>3. CASE StoreAverage(t) \/ ReadCount(t) \/ ReadSum(t) \/ ZeroSum(t) \/ ZeroCount(t)
      BY <1>1, <2>3, Zenon DEF StoreAverage, ReadCount, ReadSum, ZeroSum, ZeroCount, collection
    <2>4. CASE CheckCount(t) \/ EndAverage(t) \/ ZeroCount2(t)
      BY <1>1, <2>4, Zenon DEF CheckCount, EndAverage, ZeroCount2, collection
    <2>5. CASE VisitEntry(t) \/ ResetCell(t)
      BY <1>1, <2>5, Zenon DEF VisitEntry, ResetCell, collection
    <2> QED
      BY <1>4, <2>1, <2>2, <2>3, <2>4, <2>5, ZenonT(90) DEF Step
  <1>5. ASSUME UNCHANGED vars PROVE Names'
    BY <1>1, <1>5, Zenon DEF vars, collection
  <1> QED
    BY <1>2, <1>3, <1>4, <1>5, Zenon DEF Next, Quiet

-----------------------------------------------------------------------------
(* The theorems. *)

\* The inductive invariant of the cells, the collection and the threads in them.
THEOREM PerfInvariant == Spec => []PerfInv
  <1>1. Init => PerfInv
    BY InitSound, InitCounted, Zenon DEF PerfInv
  <1>2. PerfInv /\ [Next]_vars => PerfInv'
    BY StepSound, StepCounted, Zenon DEF PerfInv
  <1> QED
    BY <1>1, <1>2, PTL DEF Spec

\* read_avg returns a pair the counter had at an instant, for any number of
\* updaters, readers and resets, unless a reset overlapped the cell
\* (perf_counters.h:169-176).
THEOREM AverageIsSnapshot == Spec => []ReadIsSnapshot
  <1>1. PerfInv => ReadIsSnapshot
    <2> SUFFICES ASSUME PerfInv, NEW t \in Thread, pc[t] = "check", IsAverage(at[t]),
                        at[t] \notin raced, avgcount[at[t]] = cnt[t]
                 PROVE  /\ sum[t] = u64[at[t]] /\ cnt[t] = finished[at[t]]
                        /\ Updating(at[t]) = {}
      BY Zenon DEF ReadIsSnapshot
    <2>1. Sound /\ Counted /\ Placed(t) /\ Knows(t)
      BY Zenon DEF PerfInv, Sound, Counted
    <2>2. at[t] # Nobody
      BY <2>1, Zenon DEF Placed, Inside, ReadPc
    <2>3. /\ avgcount[at[t]] = avgcount2[at[t]] + Cardinality(Updating(at[t]))
          /\ avgcount2[at[t]] = finished[at[t]] /\ cnt[t] <= avgcount2[at[t]]
          /\ avgcount2[at[t]] \in Nat /\ cnt[t] \in Nat
      BY <2>1, <2>2, ReaderKnows, ZenonT(90)
    <2>4. Cardinality(Updating(at[t])) = 0 /\ cnt[t] = finished[at[t]]
      <3>1. Cardinality(Updating(at[t])) \in Nat
        BY UpdatingFinite, Zenon
      <3> QED
        BY <2>3, <3>1
    <2>5. Updating(at[t]) = {}
      BY <2>4, UpdatingFinite, Zenon
    <2>6. sum[t] = u64[at[t]]
      BY <2>1, <2>2, ZenonT(90) DEF Knows
    <2> QED
      BY <2>4, <2>5, <2>6, Zenon
  <1> QED
    BY <1>1, PerfInvariant, PTL

\* Between updates the two counts of a cell and the number of its completed
\* updates are the same, unless a reset is in the cell or overlapped it.
THEOREM CountsAgreeAlways == Spec => []CountsAgree
  <1>1. PerfInv => CountsAgree
    BY Zenon DEF PerfInv, Counted, CountsOf, CountsAgree
  <1> QED
    BY <1>1, PerfInvariant, PTL

\* A set of pairs given by its elements.
LEMMA PathSet ==
    ASSUME NEW D, NEW S, NEW T, NEW f,
           \A p \in D : \E l \in S, i \in T : p = <<f[l], i>>,
           \A l \in S, i \in T : <<f[l], i>> \in D
    PROVE  D = {<<f[l], i>> : l \in S, i \in T}
  <1>1. ASSUME NEW p \in D PROVE p \in {<<f[l], i>> : l \in S, i \in T}
    <2>1. PICK l \in S, i \in T : p = <<f[l], i>>
      BY Zenon
    <2> QED
      BY <2>1
  <1>2. ASSUME NEW p \in {<<f[l], i>> : l \in S, i \in T} PROVE p \in D
    <2>1. PICK l \in S, i \in T : p = <<f[l], i>>
      BY <1>2
    <2> QED
      BY <2>1
  <1> QED
    BY <1>1, <1>2

\* The registered loggers are alive and have different names, the paths of the
\* map are exactly theirs, each leads to its logger's own cell, and no thread is
\* in a cell of a logger that was deleted
\* (perf_counters.cc: PerfCountersCollection::add, remove, clear).
THEOREM CollectionStaysSound == Spec => []CollectionSound
  <1>1. Init => Sound /\ Names
    BY InitSound, InitNames, Zenon
  <1>2. Sound /\ Names /\ [Next]_vars => (Sound /\ Names)'
    BY StepSound, StepNames, ZenonT(90)
  <1>3. Sound /\ Names => CollectionSound
    <2> SUFFICES ASSUME Sound, Names PROVE CollectionSound
      BY Zenon
    <2>1. \A t \in Thread : at[t] # Nobody => at[t][1] \in live
      BY InsideLive, Zenon
    <2>2. ASSUME NEW p \in DOMAIN by_path
          PROVE  \E l \in m_loggers, i \in Idx : p = <<name[l], i>>
      <3>1. /\ p = <<p[1], p[2]>> /\ p[2] \in Idx
            /\ by_path[p] \in m_loggers \X Idx /\ name[by_path[p][1]] = p[1]
        BY Zenon DEF Sound, Paths
      <3>2. by_path[p][1] \in m_loggers
        BY <3>1, Products, Zenon
      <3>3. p = <<name[by_path[p][1]], p[2]>>
        BY <3>1, Zenon
      <3> QED
        BY <3>1, <3>2, <3>3, Zenon
    <2>3. \A l \in m_loggers, i \in Idx : <<name[l], i>> \in DOMAIN by_path
      BY Zenon DEF Names
    <2>4. DOMAIN by_path = {<<name[l], i>> : l \in m_loggers, i \in Idx}
      BY <2>2, <2>3, PathSet, SMTT(60)
    <2>5. /\ m_loggers \subseteq live
          /\ \A k, l \in m_loggers : name[k] = name[l] => k = l
          /\ \A l \in m_loggers, i \in Idx : by_path[<<name[l], i>>] = <<l, i>>
      BY Zenon DEF Names, Sound, Types
    <2> QED
      BY <2>1, <2>4, <2>5, SMTT(60) DEF CollectionSound
  <1> QED
    BY <1>1, <1>2, <1>3, PTL DEF Spec
=============================================================================
