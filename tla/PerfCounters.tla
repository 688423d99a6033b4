---------------------------- MODULE PerfCounters ----------------------------
(***************************************************************************)
(* Performance counters: a PerfCounters object (a "logger") holds one cell *)
(* per counter, the collection of a Context holds the loggers under one    *)
(* mutex.  Cells are updated WITHOUT a lock by every thread that holds the *)
(* logger's pointer; an average counter is kept in three atomics that are  *)
(* written one after the other, and read_avg retries until two of them     *)
(* agree.  The collection's with_counters and reset walk the cells of the  *)
(* registered loggers under the collection's mutex, which no updater takes.*)
(*                                                                         *)
(* A call that returns at a type check (inc of a counter without           *)
(* PERFCOUNTER_U64, tinc of one without PERFCOUNTER_TIME) changes nothing  *)
(* and is no action; the checks are the guards of the actions.             *)
(***************************************************************************)
EXTENDS Integers, FiniteSets, Sequences

CONSTANTS
    Thread,    \* threads that own loggers, update, read and reset counters
    Logger,    \* addresses a PerfCounters object may have (reused by new)
    Idx,       \* indices of the counters of a logger
    Type,      \* [Idx -> set of PERFCOUNTER_ flags]
    Amount,    \* amounts passed to inc, dec, set
    Word,      \* 2^64: the unsigned range of u64
    MaxCalls,  \* bound on the number of calls of a behaviour
    MaxBuilt,  \* bound on the number of loggers built
    Nobody     \* no thread, no logger, no cell

ASSUME PerfAssumption ==
    /\ IsFiniteSet(Thread) /\ Nobody \notin Thread /\ Nobody \notin Logger
    /\ Nobody \notin Logger \X Idx
    /\ Word \in Nat \ {0} /\ Amount \subseteq Nat
    /\ MaxCalls \in Nat /\ MaxBuilt \in Nat
    /\ \A i \in Idx : Type[i] \cap {"U64", "TIME"} # {}

VARIABLES
    live,       \* loggers that are allocated
    name,       \* [Logger -> the m_name of the logger: a base and suffixes]
    m_loggers,  \* the collection's set, ordered by SortPerfCountersByName
    by_path,    \* the collection's map from <<name, idx>> to a cell
    m_lock,     \* PerfCountersCollection::m_lock
    u64, avgcount, avgcount2,   \* the atomics of every cell
    pc, at, op,                 \* where each thread is, in which cell, how
    cnt, sum,                   \* the locals of read_avg
    todo,       \* cells a walk under m_lock has still to visit
    owned,      \* the logger a thread's object holds (Worker::perf_logger)
    kept,       \* loggers left to the collection (RDMADispatcher, RDMAWorker)
    calls, built,               \* calls made and loggers built so far
    finished,   \* history: updates of a cell completed since it was cleared
    raced       \* history: cells a reset overlapped with an update or a read

cells == <<u64, avgcount, avgcount2>>
collection == <<live, name, m_loggers, by_path, owned, kept>>
locals == <<cnt, sum>>
vars == <<collection, m_lock, cells, pc, at, op, locals, todo, calls, built,
          finished, raced>>

Cell == Logger \X Idx
IsAverage(c) == "LONGRUNAVG" \in Type[c[2]]

\* Every word a thread of the program can hold a pointer through: its own
\* object's logger, and the loggers nobody removes before the collection dies.
Usable(t) == {c \in Cell : c[1] \in kept \/ c[1] = owned[t]}

Init ==
    /\ live = {} /\ m_loggers = {} /\ kept = {}
    /\ name = [l \in Logger |-> <<>>]
    /\ by_path = [p \in {} |-> Nobody]
    /\ m_lock = Nobody
    /\ u64 = [c \in Cell |-> 0]
    /\ avgcount = [c \in Cell |-> 0]
    /\ avgcount2 = [c \in Cell |-> 0]
    /\ pc = [t \in Thread |-> "idle"]
    /\ at = [t \in Thread |-> Nobody]
    /\ op = [t \in Thread |-> <<"none", 0>>]
    /\ cnt = [t \in Thread |-> 0]
    /\ sum = [t \in Thread |-> 0]
    /\ todo = [t \in Thread |-> {}]
    /\ owned = [t \in Thread |-> Nobody]
    /\ calls = 0 /\ built = 0
    /\ finished = [c \in Cell |-> 0]
    /\ raced = {}

-----------------------------------------------------------------------------
(* Threads inside a cell, and the history variable raced. *)

Updating(c) == {t \in Thread : pc[t] \in {"store", "bump"} /\ at[t] = c}
Reading(c) == {t \in Thread : pc[t] \in {"count", "sum", "check"} /\ at[t] = c}
Resetting(c) == {t \in Thread : pc[t] \in {"zero", "zero1", "zero2"} /\ at[t] = c}

Overlapped(c) == Resetting(c) # {} /\ Updating(c) \cup Reading(c) # {}
NoteRaces == raced' = (raced \cap (live' \X Idx)) \cup {c \in Cell : Overlapped(c)'}

Call(t) == pc[t] = "idle" /\ calls < MaxCalls /\ calls' = calls + 1

-----------------------------------------------------------------------------
(* Building and registering a logger. *)

\* PerfCountersBuilder up to create_perf_counters: a new object with one cleared
\* cell per index, every one given a type (create_perf_counters asserts it).
create_perf_counters(t, l, n) ==
    /\ pc[t] = "idle" /\ owned[t] = Nobody
    /\ l \notin live /\ built < MaxBuilt
    /\ built' = built + 1
    /\ live' = live \cup {l}
    /\ name' = [name EXCEPT ![l] = <<n>>]
    /\ u64' = [c \in Cell |-> IF c[1] = l THEN 0 ELSE u64[c]]
    /\ avgcount' = [c \in Cell |-> IF c[1] = l THEN 0 ELSE avgcount[c]]
    /\ avgcount2' = [c \in Cell |-> IF c[1] = l THEN 0 ELSE avgcount2[c]]
    /\ finished' = [c \in Cell |-> IF c[1] = l THEN 0 ELSE finished[c]]
    /\ owned' = [owned EXCEPT ![t] = l]
    /\ pc' = [pc EXCEPT ![t] = "add"]
    /\ UNCHANGED <<m_loggers, by_path, kept, m_lock, at, op, locals, todo, calls>>

\* The constructors that build a logger and add it: Worker's destructor removes
\* it again, RDMADispatcher's and RDMAWorker's leave theirs to the collection.
\* Objects of one kind pass the same name when two stacks share a Context.
Worker(t, l) == create_perf_counters(t, l, "Worker")
RDMADispatcher(t, l) == create_perf_counters(t, l, "RDMADispatcher")

\* The set is ordered by name: find(l) is "some registered logger has l's name".
Registered(n) == \E k \in m_loggers : name[k] = n

\* The name add leaves l with: its own, with "-<address of l>" appended until
\* no registered logger has it.
Suffixed(l, k) == name[l] \o [i \in 1..k |-> l]
UniqueName_unchecked(l) == name[l]
UniqueName(l) ==
    LET free == {k \in 0..Cardinality(m_loggers) : ~Registered(Suffixed(l, k))}
    IN  Suffixed(l, CHOOSE k \in free : \A j \in free : k <= j)

\* by_path with the paths of logger l under name n pointing into l.
WithPaths(l, n) ==
    [p \in DOMAIN by_path \cup ({n} \X Idx) |->
        IF p[1] = n THEN <<l, p[2]>> ELSE by_path[p]]

\* PerfCountersCollection::add, under m_lock.
add(t) ==
    /\ pc[t] = "add" /\ m_lock = Nobody
    /\ LET l == owned[t]
           n == UniqueName(l)
           keeps == n[1] = "RDMADispatcher" IN
       /\ name' = [name EXCEPT ![l] = n]
       /\ m_loggers' = m_loggers \cup {l}
       /\ by_path' = WithPaths(l, n)
       /\ kept' = IF keeps THEN kept \cup {l} ELSE kept
       /\ owned' = [owned EXCEPT ![t] = IF keeps THEN Nobody ELSE l]
    /\ pc' = [pc EXCEPT ![t] = "idle"]
    /\ UNCHANGED <<live, m_lock, cells, at, op, locals, todo, calls, built, finished>>

\* PerfCountersCollection::remove, under m_lock, called by Worker::~Worker and
\* by PerfCountersDeleter: the paths under the logger's present name go, then
\* the set's element with that name.
remove(t) ==
    /\ pc[t] = "idle" /\ owned[t] # Nobody /\ m_lock = Nobody
    /\ LET n == name[owned[t]] IN
       /\ by_path' = [p \in DOMAIN by_path \ ({n} \X Idx) |-> by_path[p]]
       /\ m_loggers' = {k \in m_loggers : name[k] # n}
    /\ pc' = [pc EXCEPT ![t] = "delete"]
    /\ UNCHANGED <<live, name, owned, kept, m_lock, cells, at, op, locals, todo,
                   calls, built, finished>>

\* The destructor that follows remove.
Delete(t) ==
    /\ pc[t] = "delete"
    /\ live' = live \ {owned[t]}
    /\ owned' = [owned EXCEPT ![t] = Nobody]
    /\ pc' = [pc EXCEPT ![t] = "idle"]
    /\ UNCHANGED <<name, m_loggers, by_path, kept, m_lock, cells, at, op, locals,
                   todo, calls, built, finished>>

\* PerfCountersCollection::clear, by the destructor of the Context: every
\* registered logger is deleted.  The Context outlives the objects that use its
\* collection, so no thread is in a call and nobody owns a logger.
clear ==
    /\ m_lock = Nobody /\ m_loggers # {}
    /\ \A t \in Thread : pc[t] = "idle" /\ owned[t] = Nobody
    /\ live' = live \ m_loggers
    /\ m_loggers' = {} /\ kept' = {}
    /\ by_path' = [p \in {} |-> Nobody]
    /\ UNCHANGED <<name, owned, m_lock, cells, pc, at, op, locals, todo, calls,
                   built, finished>>

-----------------------------------------------------------------------------
(* Updates, without any lock. *)

\* What the store of an update leaves in u64: += amt, -= amt or = amt.
Stored(old, o) ==
    CASE o[1] = "add" -> (old + o[2]) % Word
      [] o[1] = "sub" -> (old - o[2]) % Word
      [] o[1] = "put" -> o[2] % Word

\* inc, set and tinc of an average: avgcount++, then the store, then avgcount2++.
BeginAverage(t, c, o) ==
    /\ Call(t)
    /\ avgcount' = [avgcount EXCEPT ![c] = @ + 1]
    /\ pc' = [pc EXCEPT ![t] = "store"]
    /\ at' = [at EXCEPT ![t] = c]
    /\ op' = [op EXCEPT ![t] = o]
    /\ UNCHANGED <<collection, m_lock, u64, avgcount2, locals, todo, built, finished>>

StoreAverage(t) ==
    /\ pc[t] = "store"
    /\ u64' = [u64 EXCEPT ![at[t]] = Stored(@, op[t])]
    /\ pc' = [pc EXCEPT ![t] = "bump"]
    /\ op' = [op EXCEPT ![t] = <<"none", 0>>]
    /\ UNCHANGED <<collection, m_lock, avgcount, avgcount2, at, locals, todo, calls,
                   built, finished>>

EndAverage_forgets(t) ==
    /\ pc[t] = "bump"
    /\ finished' = [finished EXCEPT ![at[t]] = @ + 1]
    /\ avgcount2' = IF u64[at[t]] > 1 THEN avgcount2 ELSE [avgcount2 EXCEPT ![at[t]] = @ + 1]
    /\ pc' = [pc EXCEPT ![t] = "idle"]
    /\ at' = [at EXCEPT ![t] = Nobody]
    /\ UNCHANGED <<collection, m_lock, u64, avgcount, op, locals, todo, calls, built>>
EndAverage(t) ==
    /\ pc[t] = "bump"
    /\ avgcount2' = [avgcount2 EXCEPT ![at[t]] = @ + 1]
    /\ finished' = [finished EXCEPT ![at[t]] = @ + 1]
    /\ pc' = [pc EXCEPT ![t] = "idle"]
    /\ at' = [at EXCEPT ![t] = Nobody]
    /\ UNCHANGED <<collection, m_lock, u64, avgcount, op, locals, todo, calls, built>>

\* The same calls on a counter that is no average: one atomic operation.
UpdatePlain(t, c, o) ==
    /\ Call(t)
    /\ u64' = [u64 EXCEPT ![c] = Stored(@, o)]
    /\ UNCHANGED <<collection, m_lock, avgcount, avgcount2, pc, at, op, locals, todo,
                   built, finished>>

\* What inc, set and dec do of a counter with PERFCOUNTER_U64, tinc and tset of
\* one with PERFCOUNTER_TIME.  dec and tset abort on an average.
Operation(c) ==
    (IF "U64" \in Type[c[2]] THEN {"add", "put"} \cup IF IsAverage(c) THEN {} ELSE {"sub"}
                             ELSE {}) \cup
    (IF "TIME" \in Type[c[2]] THEN {"add"} \cup IF IsAverage(c) THEN {} ELSE {"put"}
                              ELSE {})

Update(t, c, o) ==
    \/ IsAverage(c) /\ BeginAverage(t, c, o)
    \/ ~IsAverage(c) /\ UpdatePlain(t, c, o)

-----------------------------------------------------------------------------
(* Reading an average. *)

\* get_tavg_ns, or a consumer that was handed the cell: enter read_avg.
get_tavg_ns(t, c) ==
    /\ Call(t) /\ IsAverage(c)
    /\ pc' = [pc EXCEPT ![t] = "count"]
    /\ at' = [at EXCEPT ![t] = c]
    /\ UNCHANGED <<collection, m_lock, cells, op, locals, todo, built, finished>>

\* The loop with the two counts exchanged.
ReadCount_first(t) ==
    /\ pc[t] = "count"
    /\ cnt' = [cnt EXCEPT ![t] = avgcount[at[t]]]
    /\ pc' = [pc EXCEPT ![t] = "sum"]
    /\ UNCHANGED <<collection, m_lock, cells, at, op, sum, todo, calls, built, finished>>

\* count = avgcount2;
ReadCount(t) ==
    /\ pc[t] = "count"
    /\ cnt' = [cnt EXCEPT ![t] = avgcount2[at[t]]]
    /\ pc' = [pc EXCEPT ![t] = "sum"]
    /\ UNCHANGED <<collection, m_lock, cells, at, op, sum, todo, calls, built, finished>>

\* sum = u64;
ReadSum(t) ==
    /\ pc[t] = "sum"
    /\ sum' = [sum EXCEPT ![t] = u64[at[t]]]
    /\ pc' = [pc EXCEPT ![t] = "check"]
    /\ UNCHANGED <<collection, m_lock, cells, at, op, cnt, todo, calls, built, finished>>

\* A thread leaves the cell it visited: a walk goes on with the next cell and
\* the last one gives m_lock back, a direct call returns.
Leave(t) ==
    /\ IF m_lock = t /\ todo[t] # {}
       THEN pc' = [pc EXCEPT ![t] = op[t][1]]
       ELSE pc' = [pc EXCEPT ![t] = "idle"]
    /\ m_lock' = IF m_lock = t /\ todo[t] = {} THEN Nobody ELSE m_lock
    /\ op' = IF m_lock = t /\ todo[t] = {} THEN [op EXCEPT ![t] = <<"none", 0>>] ELSE op
    /\ at' = [at EXCEPT ![t] = Nobody]

\* while (avgcount != count);
CheckCount(t) ==
    /\ pc[t] = "check"
    /\ IF avgcount[at[t]] = cnt[t]
       THEN /\ Leave(t)
            /\ cnt' = [cnt EXCEPT ![t] = 0]
            /\ sum' = [sum EXCEPT ![t] = 0]
       ELSE /\ pc' = [pc EXCEPT ![t] = "count"]
            /\ UNCHANGED <<m_lock, at, op, locals>>
    /\ UNCHANGED <<collection, cells, todo, calls, built, finished>>

-----------------------------------------------------------------------------
(* Walks under m_lock. *)

\* The containers are walked in a fixed order, which no property depends on.
NextOf(S) == CHOOSE c \in S : TRUE

\* PerfCountersCollection::with_counters with a function that copies every
\* entry of by_path: the copy constructor of a cell calls read_avg.
with_counters(t) ==
    /\ Call(t) /\ m_lock = Nobody
    /\ LET entries == {by_path[p] : p \in DOMAIN by_path} IN
       /\ entries # {}
       /\ todo' = [todo EXCEPT ![t] = entries]
    /\ m_lock' = t
    /\ op' = [op EXCEPT ![t] = <<"visit", 0>>]
    /\ pc' = [pc EXCEPT ![t] = "visit"]
    /\ UNCHANGED <<collection, cells, at, locals, built, finished>>

VisitEntry(t) ==
    /\ pc[t] = "visit"
    /\ at' = [at EXCEPT ![t] = NextOf(todo[t])]
    /\ todo' = [todo EXCEPT ![t] = @ \ {NextOf(todo[t])}]
    /\ pc' = [pc EXCEPT ![t] = "count"]
    /\ UNCHANGED <<collection, m_lock, cells, op, locals, calls, built, finished>>

\* PerfCountersCollection::reset("all") or of one name: every cell of the
\* loggers found, but the plain gauges (type == PERFCOUNTER_U64).
reset(t, loggers) ==
    /\ Call(t) /\ m_lock = Nobody
    /\ LET cleared == {c \in loggers \X Idx : Type[c[2]] # {"U64"}} IN
       /\ cleared # {}
       /\ todo' = [todo EXCEPT ![t] = cleared]
    /\ m_lock' = t
    /\ op' = [op EXCEPT ![t] = <<"clear", 0>>]
    /\ pc' = [pc EXCEPT ![t] = "clear"]
    /\ UNCHANGED <<collection, cells, at, locals, built, finished>>

ResetCell(t) ==
    /\ pc[t] = "clear"
    /\ at' = [at EXCEPT ![t] = NextOf(todo[t])]
    /\ todo' = [todo EXCEPT ![t] = @ \ {NextOf(todo[t])}]
    /\ pc' = [pc EXCEPT ![t] = "zero"]
    /\ UNCHANGED <<collection, m_lock, cells, op, locals, calls, built, finished>>

\* u64 = 0; avgcount = 0; avgcount2 = 0;
ZeroSum(t) ==
    /\ pc[t] = "zero"
    /\ u64' = [u64 EXCEPT ![at[t]] = 0]
    /\ pc' = [pc EXCEPT ![t] = "zero1"]
    /\ UNCHANGED <<collection, m_lock, avgcount, avgcount2, at, op, locals, todo,
                   calls, built, finished>>
ZeroCount(t) ==
    /\ pc[t] = "zero1"
    /\ avgcount' = [avgcount EXCEPT ![at[t]] = 0]
    /\ pc' = [pc EXCEPT ![t] = "zero2"]
    /\ UNCHANGED <<collection, m_lock, u64, avgcount2, at, op, locals, todo, calls,
                   built, finished>>
ZeroCount2(t) ==
    /\ pc[t] = "zero2"
    /\ avgcount2' = [avgcount2 EXCEPT ![at[t]] = 0]
    /\ finished' = [finished EXCEPT ![at[t]] = 0]
    /\ Leave(t)
    /\ UNCHANGED <<collection, u64, avgcount, locals, todo, calls, built>>

-----------------------------------------------------------------------------
(* The system. *)

\* The calls a thread may make.
NewCall(t) ==
    \/ \E l \in Logger : Worker(t, l) \/ RDMADispatcher(t, l)
    \/ \E c \in Usable(t) :
        \/ \E o \in Operation(c) \X Amount : Update(t, c, o)
        \/ get_tavg_ns(t, c)
    \/ with_counters(t)
    \/ reset(t, m_loggers)
    \/ \E k \in m_loggers : reset(t, {k})
    \/ remove(t)

\* The steps of the call a thread is in.
Step(t) ==
    \/ add(t)
    \/ Delete(t)
    \/ StoreAverage(t) \/ EndAverage(t)
    \/ ReadCount(t) \/ ReadSum(t) \/ CheckCount(t)
    \/ VisitEntry(t) \/ ResetCell(t)
    \/ ZeroSum(t) \/ ZeroCount(t) \/ ZeroCount2(t)

\* Every thread has returned: the program may stop here.
Quiet == (\A t \in Thread : pc[t] = "idle") /\ m_lock = Nobody /\ UNCHANGED vars

Next ==
    \/ (\E t \in Thread : NewCall(t) \/ Step(t)) /\ NoteRaces
    \/ clear /\ NoteRaces
    \/ Quiet

Spec == Init /\ [][Next]_vars

\* A thread inside a call keeps running: none of the calls blocks but on m_lock.
FairSpec == Spec /\ \A t \in Thread : WF_vars(Step(t) /\ NoteRaces)

-----------------------------------------------------------------------------
(* Properties. *)

\* Updates in progress are exactly what separates the two counts of a cell no
\* reset is in or ever overlapped; with none the second count is the number of
\* completed updates.  (perf_counters.h:118-120, 142-144, 164-166)
CountsAgree ==
    \A c \in Cell : c[1] \in live /\ c \notin raced /\ Resetting(c) = {} =>
        /\ avgcount[c] = avgcount2[c] + Cardinality(Updating(c))
        /\ avgcount2[c] = finished[c]

\* A pair that read_avg is about to return is one the counter had at an instant:
\* the sum of exactly the updates that are counted, none half done, whatever
\* other threads did between the three loads.  It holds of a cell that no reset
\* overlapped.  (perf_counters.h:169-176, "without any intervening calls")
ReadIsSnapshot ==
    \A t \in Thread :
        LET c == at[t] IN
        pc[t] = "check" /\ IsAverage(c) /\ c \notin raced /\ avgcount[c] = cnt[t] =>
            /\ sum[t] = u64[c]
            /\ cnt[t] = finished[c]
            /\ Updating(c) = {}

\* The registered loggers have different names and are alive, every path of the
\* map leads to the cell of the registered logger that has the name, and a
\* thread is only ever inside a cell of a logger that is alive: renaming, removal
\* and deletion leave no path, set element or walk at a freed address.
CollectionSound ==
    /\ m_loggers \subseteq live
    /\ \A k, l \in m_loggers : name[k] = name[l] => k = l
    /\ DOMAIN by_path = {<<name[l], i>> : l \in m_loggers, i \in Idx}
    /\ \A l \in m_loggers, i \in Idx : by_path[<<name[l], i>>] = <<l, i>>
    /\ \A t \in Thread : at[t] # Nobody => at[t][1] \in live

\* Every call returns: an update never waits, read_avg's loop ends once the
\* updates it met have finished, and no walk keeps the collection's mutex from
\* add and remove.  A cell a reset overlapped may keep a reader in its loop.
CallsReturn ==
    \A t \in Thread : pc[t] # "idle" ~> (pc[t] = "idle" \/ raced # {})

=============================================================================
