----------------------------- MODULE Listening -----------------------------
(***************************************************************************)
(* The listening side of a Server.  The main thread calls Server::start    *)
(* and, any number of times, Server::bind, which gives a listening socket  *)
(* to one processor after the other.  In the thread of its worker a        *)
(* processor accepts connections and gives each to the worker that         *)
(* get_worker picks; application threads make connections with             *)
(* Server::create_connect and take workers the same way.                   *)
(*                                                                         *)
(* The threads meet in Server::lock, held from the beginning of            *)
(* create_connect to its end and for a moment in bind and Server::accept,  *)
(* in pool_spin, and in the references of the workers, which get_worker    *)
(* reads one by one under pool_spin and increments after the unlock.  A    *)
(* listening socket is watched edge-triggered, so its callback has to      *)
(* accept until EAGAIN.                                                    *)
(***************************************************************************)
EXTENDS Integers, FiniteSets

CONSTANTS
  NumWorkers,   \* workers of the stack; each has a processor
  App,          \* application threads
  main,         \* the thread that starts and binds
  Nobody,
  RetryCount,   \* m_bind_retry_count_
  SizeBits,     \* width of size_t
  MaxFailures,  \* m_max_accept_failures_
  MaxFirst,     \* bound: how far below 0 the uninitialised conn_count is
  MaxBinds,     \* bound: calls of Server::bind
  MaxArrivals,  \* bound: connections that arrive
  MaxConnects,  \* bound: connections an application thread makes
  MaxErrors     \* bound: calls of accept that fail

ASSUME ListeningAssumption ==
  /\ NumWorkers \in Nat \ {0}
  /\ RetryCount \in Nat
  /\ SizeBits \in Nat /\ 2 ^ SizeBits \in Nat /\ MaxFirst \in 0 .. 2 ^ SizeBits - 1
  /\ {MaxBinds, MaxFailures, MaxArrivals, MaxConnects, MaxErrors} \subseteq Nat
  /\ IsFiniteSet(App) /\ main # Nobody /\ {main, Nobody} \cap App = {}

Worker == 0 .. NumWorkers - 1      \* and their processors
Thread == Worker \cup App
NoLoad == 1000                     \* std::numeric_limits<int>::max()

VARIABLES
  ready,        \* fork_finished of the stack
  lock,         \* who holds Server::lock
  conn_count,   \* never initialised by the constructor
  bpc,          \* where bind is
  p, tries,     \* the processor it has chosen, the attempts to bind it
  listening,    \* processors with a listen_socket
  watched,      \* processors whose listen_socket is registered with epoll
  is_started,
  bound,        \* number of binds that returned 0 with a socket
  busy,         \* a bind has returned -EBUSY
  binds,
  references,   \* of every worker
  connections,  \* connections every worker has been given
  pool_spin,    \* the thread that holds it
  pc,           \* where a thread is
  scan, best,   \* get_worker: the next worker to look at, current_best
  min_load,
  backlog,      \* connections waiting at a listening socket
  edge,         \* epoll has an event of the listening socket to report
  accept_error_num,
  ended,        \* the process: "no", "abort" or "crash"
  made, arrived, errors

chooseVars == <<ready, conn_count, bpc, p, tries, busy, binds>>
socketVars == <<listening, watched, is_started, bound>>
scanVars == <<pool_spin, scan, best, min_load>>
loadVars == <<references, connections>>
listenVars == <<backlog, edge, accept_error_num, arrived, errors>>
vars == <<chooseVars, socketVars, scanVars, loadVars, listenVars, lock, pc, ended, made>>

TypeOK ==
  /\ ready \in BOOLEAN /\ busy \in BOOLEAN
  /\ lock \in App \cup {main, Nobody}
  /\ conn_count \in Int
  /\ bpc \in {"idle", "choose", "listen", "start"}
  /\ p \in Worker /\ tries \in 0 .. RetryCount
  /\ listening \subseteq Worker /\ watched \subseteq Worker /\ is_started \subseteq Worker
  /\ bound \in 0 .. MaxBinds /\ binds \in 0 .. MaxBinds
  /\ references \in [Worker -> Nat] /\ connections \in [Worker -> Nat]
  /\ pool_spin \in Thread \cup {Nobody}
  /\ pc \in [Thread -> {"idle", "spin", "scan", "increment", "use"}]
  /\ scan \in [Thread -> 0 .. NumWorkers] /\ best \in [Thread -> -1 .. NumWorkers - 1]
  /\ min_load \in [Thread -> Nat]
  /\ backlog \in [Worker -> Nat] /\ edge \in [Worker -> BOOLEAN]
  /\ accept_error_num \in [Worker -> 0 .. MaxFailures + 1]
  /\ ended \in {"no", "abort", "crash"}
  /\ arrived \in 0 .. MaxArrivals /\ errors \in 0 .. MaxErrors
  /\ made \in [App -> 0 .. MaxConnects]

\* conn_count is an uninitialised int; the bound keeps ++conn_count from overflow
Init ==
  /\ ready = FALSE /\ lock = Nobody
  /\ conn_count \in -MaxFirst .. 0
  /\ bpc = "idle" /\ p = 0 /\ tries = 0
  /\ listening = {} /\ watched = {} /\ is_started = {}
  /\ bound = 0 /\ busy = FALSE /\ binds = 0
  /\ references = [w \in Worker |-> 0] /\ connections = [w \in Worker |-> 0]
  /\ pool_spin = Nobody
  /\ pc = [t \in Thread |-> "idle"]
  /\ scan = [t \in Thread |-> 0] /\ best = [t \in Thread |-> -1]
  /\ min_load = [t \in Thread |-> NoLoad]
  /\ backlog = [w \in Worker |-> 0] /\ edge = [w \in Worker |-> FALSE]
  /\ accept_error_num = [w \in Worker |-> 0]
  /\ ended = "no" /\ arrived = 0 /\ errors = 0
  /\ made = [a \in App |-> 0]

Running == ended = "no"

----------------------------------------------------------------------------
(* The main thread *)

\* Server::start
Start ==
  /\ bpc = "idle" /\ ~ready
  /\ ready' = TRUE
  /\ UNCHANGED <<conn_count, bpc, p, tries, busy, binds, socketVars, scanVars,
                 loadVars, listenVars, lock, pc, ended, made>>

\* Server::bind up to its unlock, which the early return leaves out
BindEnter ==
  /\ bpc = "idle" /\ lock = Nobody /\ binds < MaxBinds
  /\ binds' = binds + 1
  /\ bpc' = IF ready THEN "choose" ELSE "idle"
  /\ lock' = IF ready THEN Nobody ELSE main
  /\ UNCHANGED <<ready, conn_count, p, tries, busy, socketVars, scanVars, loadVars,
                 listenVars, pc, ended, made>>

\* conn_count % processors.size(): the int is converted to size_t first
Chosen(count) == (IF count >= 0 THEN count ELSE 2 ^ SizeBits + count) % NumWorkers

\* (mutant: is_running is not asked)
Choose_any ==
  /\ bpc = "choose"
  /\ p' = Chosen(conn_count) /\ tries' = 0
  /\ bpc' = "listen"
  /\ UNCHANGED <<ready, conn_count, busy, binds, socketVars, scanVars, loadVars,
                 listenVars, lock, pc, ended, made>>

\* A processor that is running refuses, -EBUSY
Choose ==
  /\ bpc = "choose"
  /\ p' = Chosen(conn_count) /\ tries' = 0
  /\ bpc' = IF p' \in is_started THEN "idle" ELSE "listen"
  /\ busy' = (busy \/ p' \in is_started)
  /\ UNCHANGED <<ready, conn_count, binds, socketVars, scanVars, loadVars,
                 listenVars, lock, pc, ended, made>>

\* An attempt of Processor::bind: RDMAServerSocketImpl::listen in the worker's
\* thread closes what it has opened when a call fails; listen_socket is assigned
\* on success only
Attempt ==
  /\ bpc = "listen" /\ tries < RetryCount
  /\ tries' = tries + 1
  /\ \/ listening' = listening \cup {p} /\ bpc' = "start"
     \/ UNCHANGED <<listening, bpc>>
  /\ UNCHANGED <<ready, conn_count, p, busy, binds, watched, is_started, bound, scanVars,
                 loadVars, listenVars, lock, pc, ended, made>>

\* Processor::bind has failed: abort_accept on a socket that was never assigned
GiveUp ==
  /\ bpc = "listen" /\ tries = RetryCount
  /\ ended' = "crash"
  /\ UNCHANGED <<chooseVars, socketVars, scanVars, loadVars, listenVars, lock, pc, made>>

\* Processor::start and ++conn_count; epoll reports what waits already
StartProcessor ==
  /\ bpc = "start"
  /\ is_started' = is_started \cup {p}
  /\ watched' = watched \cup {p}
  /\ edge' = [edge EXCEPT ![p] = backlog[p] > 0]
  /\ conn_count' = conn_count + 1
  /\ bound' = bound + 1
  /\ bpc' = "idle"
  /\ UNCHANGED <<ready, p, tries, busy, binds, listening, scanVars,
                 loadVars, backlog, accept_error_num, arrived, errors, lock, pc, ended, made>>

BindStep == Choose \/ Attempt \/ GiveUp \/ StartProcessor

----------------------------------------------------------------------------
(* NetworkStack::get_worker *)

LockPool(t) ==
  /\ pc[t] = "spin" /\ pool_spin = Nobody
  /\ pool_spin' = t
  /\ pc' = [pc EXCEPT ![t] = "scan"]
  /\ UNCHANGED <<scan, best, min_load>>

Better(load, min) == load < min

\* One worker's references are read
ScanOne(t) ==
  /\ pc[t] = "scan" /\ scan[t] < NumWorkers
  /\ LET load == references[scan[t]]
     IN  IF Better(load, min_load[t])
         THEN /\ best' = [best EXCEPT ![t] = scan[t]]
              /\ min_load' = [min_load EXCEPT ![t] = load]
         ELSE UNCHANGED <<best, min_load>>
  /\ scan' = [scan EXCEPT ![t] = @ + 1]
  /\ UNCHANGED <<pool_spin, pc>>

\* (the locals start afresh in the next call)
UnlockPool(t) ==
  /\ pc[t] = "scan" /\ scan[t] = NumWorkers
  /\ pool_spin' = Nobody
  /\ scan' = [scan EXCEPT ![t] = 0]
  /\ min_load' = [min_load EXCEPT ![t] = NoLoad]
  /\ pc' = [pc EXCEPT ![t] = "increment"]
  /\ UNCHANGED best

Increment(t) ==
  /\ pc[t] = "increment"
  /\ references' = [references EXCEPT ![best[t]] = @ + 1]
  /\ pc' = [pc EXCEPT ![t] = "use"]
  /\ UNCHANGED scanVars

get_worker(t) ==
  /\ \/ (LockPool(t) \/ ScanOne(t) \/ UnlockPool(t)) /\ UNCHANGED references
     \/ Increment(t)
  /\ UNCHANGED <<chooseVars, socketVars, connections, listenVars, lock, ended, made>>

----------------------------------------------------------------------------
(* Server::create_connect, under Server::lock *)

CallConnect(a) ==
  /\ pc[a] = "idle" /\ lock = Nobody /\ made[a] < MaxConnects
  /\ lock' = a
  /\ pc' = [pc EXCEPT ![a] = "spin"]
  /\ made' = [made EXCEPT ![a] = @ + 1]
  /\ UNCHANGED <<chooseVars, socketVars, loadVars, scanVars, listenVars, ended>>

\* new Connection on the worker that was chosen; the lock is released
MakeConnection(a) ==
  /\ pc[a] = "use"
  /\ connections' = [connections EXCEPT ![best[a]] = @ + 1]
  /\ best' = [best EXCEPT ![a] = -1]
  /\ lock' = Nobody
  /\ pc' = [pc EXCEPT ![a] = "idle"]
  /\ UNCHANGED <<chooseVars, socketVars, references, pool_spin, scan, min_load, listenVars,
                 ended, made>>

----------------------------------------------------------------------------
(* Processor::accept in the thread of worker l *)

\* The listen handler is called for an edge
AcceptEvent(l) ==
  /\ pc[l] = "idle" /\ l \in watched /\ edge[l]
  /\ edge' = [edge EXCEPT ![l] = FALSE]
  /\ accept_error_num' = [accept_error_num EXCEPT ![l] = 0]
  /\ pc' = [pc EXCEPT ![l] = "spin"]
  /\ UNCHANGED <<chooseVars, socketVars, loadVars, scanVars, backlog, arrived, errors, lock,
                 ended, made>>

\* r == 0: Server::accept, under Server::lock, keeps the reference
Accepted(l) ==
  /\ backlog[l] > 0 /\ lock = Nobody
  /\ backlog' = [backlog EXCEPT ![l] = @ - 1]
  /\ connections' = [connections EXCEPT ![best[l]] = @ + 1]
  /\ accept_error_num' = [accept_error_num EXCEPT ![l] = 0]
  /\ pc' = [pc EXCEPT ![l] = "spin"]
  /\ UNCHANGED <<references, ended, errors>>

Dereference(l) == references' = [references EXCEPT ![best[l]] = @ - 1]

\* (mutant: the reference is kept)
NothingToAccept_keeps_reference(l) ==
  /\ backlog[l] = 0
  /\ pc' = [pc EXCEPT ![l] = "idle"]
  /\ UNCHANGED <<references, connections, backlog, accept_error_num, ended, errors>>

\* -EAGAIN
NothingToAccept(l) ==
  /\ backlog[l] = 0
  /\ Dereference(l)
  /\ pc' = [pc EXCEPT ![l] = "idle"]
  /\ UNCHANGED <<connections, backlog, accept_error_num, ended, errors>>

Interrupted_breaks(l) ==
  /\ errors < MaxErrors /\ errors' = errors + 1
  /\ \E lost \in {0, 1} : lost <= backlog[l] /\ backlog' = [backlog EXCEPT ![l] = @ - lost]
  /\ Dereference(l)
  /\ pc' = [pc EXCEPT ![l] = "idle"]
  /\ UNCHANGED <<connections, accept_error_num, ended>>

\* -EINTR, or -ECONNABORTED with which a connection leaves the backlog
Interrupted(l) ==
  /\ errors < MaxErrors /\ errors' = errors + 1
  /\ \E lost \in {0, 1} : lost <= backlog[l] /\ backlog' = [backlog EXCEPT ![l] = @ - lost]
  /\ Dereference(l)
  /\ pc' = [pc EXCEPT ![l] = "spin"]
  /\ UNCHANGED <<connections, accept_error_num, ended>>

\* -EMFILE or -ENFILE, which leave the backlog as it is, or any other error,
\* after which the new descriptor has been closed again
Failed(l) ==
  /\ errors < MaxErrors /\ errors' = errors + 1
  /\ \E lost \in {0, 1} : lost <= backlog[l] /\ backlog' = [backlog EXCEPT ![l] = @ - lost]
  /\ Dereference(l)
  /\ accept_error_num' = [accept_error_num EXCEPT ![l] = @ + 1]
  /\ ended' = IF accept_error_num[l] + 1 > MaxFailures THEN "abort" ELSE ended
  /\ pc' = [pc EXCEPT ![l] = "spin"]
  /\ UNCHANGED connections

Accept(l) ==
  /\ pc[l] = "use"
  /\ Accepted(l) \/ NothingToAccept(l) \/ Interrupted(l) \/ Failed(l)
  /\ best' = [best EXCEPT ![l] = -1]
  /\ UNCHANGED <<chooseVars, socketVars, pool_spin, scan, min_load, edge, arrived, lock, made>>

\* A connection arrives; epoll reports it once the socket is watched
Arrive(l) ==
  /\ l \in listening /\ arrived < MaxArrivals
  /\ arrived' = arrived + 1
  /\ backlog' = [backlog EXCEPT ![l] = @ + 1]
  /\ edge' = [edge EXCEPT ![l] = l \in watched]
  /\ UNCHANGED <<chooseVars, socketVars, loadVars, scanVars, accept_error_num, errors, lock, pc,
                 ended, made>>

\* The process has died, or every thread waits for work or for Server::lock,
\* which a postponed bind has kept
Ended ==
  /\ \/ ~Running
     \/ /\ ready /\ bpc = "idle" /\ (binds = MaxBinds \/ lock = main)
        /\ \A t \in Thread : pc[t] = "idle"
        /\ \A l \in watched : ~edge[l]
  /\ UNCHANGED vars

Step(t) ==
  /\ Running
  /\ \/ get_worker(t)
     \/ t \in App /\ MakeConnection(t)
     \/ t \in Worker /\ (AcceptEvent(t) \/ Accept(t))

Next ==
  \/ Running /\ (Start \/ BindEnter \/ BindStep)
  \/ \E t \in Thread : Step(t)
  \/ Running /\ \E a \in App : CallConnect(a)
  \/ Running /\ \E l \in Worker : Arrive(l)
  \/ Ended

Spec == Init /\ [][Next]_vars

\* Threads go on; with finitely many calls the locks become free for everyone
FairSpec == Spec /\ WF_vars(Running /\ BindStep) /\ \A t \in Thread : WF_vars(Step(t))

----------------------------------------------------------------------------
(* Properties *)

\* Every bind that succeeded has a processor of its own, listening and watched
\* by its worker: a second bind never takes over the socket of an earlier one,
\* wherever the uninitialised conn_count starts.  And bind refuses with -EBUSY
\* only when every processor is in use, unless conn_count started out negative
\* and the number of processors does not divide 2^SizeBits: then the indices
\* repeat when conn_count passes zero.
BindsAreServed ==
  /\ bpc = "idle" => Cardinality(watched) = bound /\ watched = listening \cap is_started
  /\ busy /\ (conn_count - bound >= 0 \/ 2 ^ SizeBits % NumWorkers = 0) => is_started = Worker

\* A worker's references are its connections and the threads about to give it
\* one: no path through the accept loop loses or leaks a reference.
ReferencesAccounted ==
  \A w \in Worker :
    references[w] = connections[w] + Cardinality({t \in Thread : pc[t] = "use" /\ best[t] = w})

\* A waiting connection is accepted or refused in the end, unless the process
\* ends: one that came before the socket was watched, and one whose processor
\* waits for create_connect to release Server::lock, too.
BacklogServed == \A l \in Worker : backlog[l] > 0 ~> backlog[l] = 0 \/ ~Running

\* "It seems that binding completely failed, return with that exit status":
\* a bind whose attempts all failed returns.
FailedBindReturns == ended # "crash"

\* "Network Stack is not ready for bind yet - postponed": the server goes on.
PostponedBindReleases == lock # main
=============================================================================
