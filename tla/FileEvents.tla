---------------------------- MODULE FileEvents ----------------------------
(***************************************************************************)
(* The file events of an EventCenter: the table file_events, the epoll set *)
(* kept in step with it, and the loop of process_events that calls the     *)
(* callbacks of the events that fired, while those callbacks change the    *)
(* table.  All of it runs in the worker thread; the kernel makes           *)
(* descriptors ready in between.                                           *)
(*                                                                         *)
(* What callbacks do is taken from the users of the EventCenter: a file    *)
(* callback changes and removes registrations of descriptors that are      *)
(* registered (handle_connection_established, cleanup, Connection::process)*)
(* and new descriptors are registered from external events (connect and    *)
(* set_accept_fd are dispatched).  A callback object is deleted by its     *)
(* owner once no registration names it.                                    *)
(***************************************************************************)
EXTENDS Naturals, Sequences, FiniteSets, Functions

CONSTANTS
  Fd,         \* file descriptors
  Callback,   \* callback objects
  NULL,
  InitNevent  \* the size file_events is initialised with

ASSUME FileEventsAssumption ==
  /\ Fd \subseteq Nat
  /\ InitNevent \in Nat \ {0}
  /\ NULL \notin Callback

R == "readable"
W == "writable"
Mask == SUBSET {R, W}

VARIABLES
  file_events,  \* mask, read_cb and write_cb of every descriptor
  epoll,        \* the kernel's side: interest set and pending edge
  level,        \* what a descriptor is ready for and nobody has dealt with
  hung,         \* descriptors in the state EPOLLHUP or EPOLLERR
  open,         \* descriptors in use
  deleted,      \* callback objects that were deleted
  nevent,
  fired,        \* fired_events still to be processed
  pc,           \* "wait", "read", "write" or "external"
  rfired,
  event_valid,  \* the pointer `event` points into file_events
  bad           \* ghost: what went wrong, if anything

tableVars == <<file_events, epoll, open, deleted, nevent>>
kernelVars == <<level, hung>>
vars == <<tableVars, kernelVars, fired, pc, rfired, event_valid, bad>>

Entry == [mask : Mask, read_cb : Callback \cup {NULL}, write_cb : Callback \cup {NULL}]

TypeOK ==
  /\ file_events \in [Fd -> Entry]
  /\ epoll \in [Fd -> [interest : Mask, edge : Mask]]
  /\ level \in [Fd -> Mask]
  /\ hung \subseteq Fd
  /\ open \subseteq Fd
  /\ deleted \subseteq Callback
  /\ nevent \in Nat
  /\ \A fd \in Fd : file_events[fd].mask # {} => fd < nevent
  /\ \A i \in 1 .. Len(fired) : fired[i] \in [fd : Fd, mask : Mask]
  /\ pc \in {"wait", "read", "write", "external"}
  /\ rfired \in BOOLEAN
  /\ event_valid \in BOOLEAN
  /\ bad \subseteq {"null", "deleted", "stale"}

NoEntry == [mask |-> {}, read_cb |-> NULL, write_cb |-> NULL]
NotWatched == [interest |-> {}, edge |-> {}]

Init ==
  /\ file_events = [fd \in Fd |-> NoEntry]
  /\ epoll = [fd \in Fd |-> NotWatched]
  /\ level = [fd \in Fd |-> {}]
  /\ hung = {}
  /\ open = {}
  /\ deleted = {}
  /\ nevent = InitNevent
  /\ fired = <<>>
  /\ pc = "wait"
  /\ rfired = FALSE
  /\ event_valid = FALSE
  /\ bad = {}

----------------------------------------------------------------------------
(* The operations *)

\* What epoll has to report of a descriptor, given its interest set
Ready(fd, interest) ==
  IF interest = {} THEN {} ELSE IF fd \in hung THEN {R, W} ELSE level[fd] \cap interest

\* epoll_ctl: after an ADD or a MOD the descriptor is polled anew
Watch(fd, interest) == [interest |-> interest, edge |-> Ready(fd, interest)]

\* (mutant: the old events are not merged)
add_event_no_merge(fd, cur_mask, add_mask) == Watch(fd, add_mask)

\* EpollDriver::add_event, the old events merged
add_event(fd, cur_mask, add_mask) == Watch(fd, cur_mask \cup add_mask)

\* EpollDriver::del_event
del_event(fd, cur_mask, del_mask) == Watch(fd, cur_mask \ del_mask)

\* create_file_event's entry; nothing happens if the mask is the same
Created(fd, mask, cb) ==
  LET e == file_events[fd]
  IN  IF e.mask = mask THEN e
      ELSE [mask |-> e.mask \cup mask,
            read_cb |-> IF R \in mask THEN cb ELSE e.read_cb,
            write_cb |-> IF W \in mask THEN cb ELSE e.write_cb]

CreatedEpoll(fd, mask) ==
  IF file_events[fd].mask = mask THEN epoll[fd]
  ELSE add_event(fd, file_events[fd].mask, mask)

\* delete_file_event's entry
Deleted(fd, mask) ==
  LET e == file_events[fd]
  IN  [mask |-> e.mask \ mask,
       read_cb |-> IF R \in mask THEN NULL ELSE e.read_cb,
       write_cb |-> IF W \in mask THEN NULL ELSE e.write_cb]

DeletedEpoll(fd, mask) ==
  IF file_events[fd].mask = {} THEN epoll[fd]
  ELSE del_event(fd, file_events[fd].mask, mask)

\* Sizes file_events can be given: nevent << 2, << 4, ...
Grown(n, fd) ==
  IF fd < n THEN n
  ELSE CHOOSE m \in {n * 4 ^ k : k \in 1 .. fd + 1} :
         fd < m /\ (m \div 4 <= fd \/ m = n * 4)

NamedBy(table, cb) == \E fd \in Fd : cb \in {table[fd].read_cb, table[fd].write_cb}

----------------------------------------------------------------------------
(* Calls on the table *)

Set(fd, entry, watch) ==
  /\ file_events' = [file_events EXCEPT ![fd] = entry]
  /\ epoll' = [epoll EXCEPT ![fd] = watch]

\* delete_file_event, and the owner may delete callbacks nobody names
Unregister(fd, mask) ==
  /\ Set(fd, Deleted(fd, mask), DeletedEpoll(fd, mask))
  /\ \E dead \in SUBSET {file_events[fd].read_cb, file_events[fd].write_cb} :
       /\ \A cb \in dead : cb # NULL /\ ~NamedBy(file_events', cb)
       /\ deleted' = deleted \cup dead
  /\ UNCHANGED <<open, nevent>>

\* create_file_event of a descriptor that is registered already
Change(fd, mask, cb) ==
  /\ Set(fd, Created(fd, mask, cb), CreatedEpoll(fd, mask))
  /\ UNCHANGED <<open, deleted, nevent>>

\* handle_connection_established: another handler, for reading only
Replace(fd, cb) ==
  /\ Set(fd, [mask |-> {R}, read_cb |-> cb, write_cb |-> NULL], Watch(fd, {R}))
  /\ UNCHANGED <<open, deleted, nevent>>

\* create_file_event of a new descriptor
Register(fd, mask, cb) ==
  /\ fd \notin open
  /\ open' = open \cup {fd}
  /\ nevent' = Grown(nevent, fd)
  /\ Set(fd, Created(fd, mask, cb), add_event(fd, {}, mask))
  /\ UNCHANGED deleted

\* delete_file_event and close
Close(fd) ==
  /\ fd \in open
  /\ open' = open \ {fd}
  /\ Set(fd, Deleted(fd, {R, W}), NotWatched)
  /\ \E dead \in SUBSET {file_events[fd].read_cb, file_events[fd].write_cb} :
       /\ \A cb \in dead : cb # NULL /\ ~NamedBy(file_events', cb)
       /\ deleted' = deleted \cup dead
  /\ UNCHANGED nevent

Usable == Callback \ deleted

\* What a file callback does to the table
CallbackBody ==
  \/ UNCHANGED tableVars
  \/ \E fd \in open, mask \in Mask \ {{}} : Unregister(fd, mask)
  \/ \E fd \in open, mask \in Mask \ {{}}, cb \in Usable :
       file_events[fd].mask # {} /\ Change(fd, mask, cb)
  \/ \E fd \in open, cb \in Usable : file_events[fd].mask # {} /\ Replace(fd, cb)

\* What is wrong with a call cb->do_request(fd)
CallFaults(cb) ==
  {f \in {"null", "deleted"} : (f = "null" /\ cb = NULL) \/ (f = "deleted" /\ cb \in deleted)}

\* What is wrong with reading *event
ReadFaults == IF event_valid THEN {} ELSE {"stale"}

\* A callback deals with everything it is registered for at the descriptor
Served(fd, cb) ==
  level' = [level EXCEPT ![fd] = {d \in @ :
    cb # (IF d = R THEN file_events[fd].read_cb ELSE file_events[fd].write_cb)}]

----------------------------------------------------------------------------
(* process_events *)

\* event_wait returns the descriptors with an edge, in some order
EventWait ==
  /\ pc = "wait"
  /\ LET some == {fd \in Fd : epoll[fd].edge # {}}
     IN  /\ \E s \in Bijection(1 .. Cardinality(some), some) :
              fired' = [i \in 1 .. Len(s) |->
                          [fd |-> s[i], mask |-> Ready(s[i], epoll[s[i]].interest)]]
         /\ epoll' = [fd \in Fd |-> [epoll[fd] EXCEPT !.edge = {}]]
         /\ pc' = IF some = {} THEN "external" ELSE "read"
  /\ UNCHANGED <<kernelVars, file_events, open, deleted, nevent, rfired, event_valid, bad>>

\* (mutant: what fired is taken for still registered)
ReadFires_unchecked == R \in Head(fired).mask

\* event->mask & fired mask & EVENT_READABLE
ReadFires == R \in Head(fired).mask \cap file_events[Head(fired).fd].mask

\* _get_file_event and the first test
Read ==
  /\ pc = "read"
  /\ IF ReadFires
     THEN LET cb == file_events[Head(fired).fd].read_cb
          IN  /\ bad' = bad \cup CallFaults(cb)
              /\ Served(Head(fired).fd, cb) /\ CallbackBody
     ELSE UNCHANGED <<level, bad, tableVars>>
  /\ rfired' = ReadFires
  /\ event_valid' = (nevent' = nevent)
  /\ pc' = "write"
  /\ UNCHANGED <<hung, fired>>

\* (mutant: one callback per descriptor that fired)
WriteFires_unless_read ==
  W \in Head(fired).mask \cap file_events[Head(fired).fd].mask /\ ~rfired

\* The second test; a callback that serves both directions is called once
WriteFires ==
  LET e == file_events[Head(fired).fd]
  IN  W \in Head(fired).mask \cap e.mask /\ (~rfired \/ e.read_cb # e.write_cb)

Write ==
  /\ pc = "write"
  /\ IF WriteFires
     THEN LET cb == file_events[Head(fired).fd].write_cb
          IN  /\ bad' = bad \cup ReadFaults \cup CallFaults(cb)
              /\ Served(Head(fired).fd, cb) /\ CallbackBody
     ELSE /\ bad' = bad \cup ReadFaults
          /\ UNCHANGED <<level, tableVars>>
  /\ fired' = Tail(fired)
  /\ event_valid' = FALSE
  /\ pc' = IF Len(fired) = 1 THEN "external" ELSE "read"
  /\ UNCHANGED <<hung, rfired>>

\* External events register and close descriptors
External ==
  /\ pc = "external"
  /\ \/ CallbackBody /\ UNCHANGED kernelVars
     \/ \E fd \in Fd, mask \in Mask \ {{}}, cb \in Usable :
          Register(fd, mask, cb) /\ UNCHANGED kernelVars
     \/ \E fd \in Fd :
          /\ Close(fd)
          /\ hung' = hung \ {fd}
          /\ level' = [level EXCEPT ![fd] = {}]
  /\ pc' = "wait"
  /\ UNCHANGED <<fired, rfired, event_valid, bad>>

\* A descriptor becomes ready
Kernel(fd) ==
  /\ fd \in open
  /\ \/ \E d \in {R, W} :
          /\ d \notin level[fd]
          /\ level' = [level EXCEPT ![fd] = @ \cup {d}]
          /\ epoll' = [epoll EXCEPT ![fd].edge = @ \cup ({d} \cap epoll[fd].interest)]
          /\ UNCHANGED hung
     \/ /\ fd \notin hung
        /\ hung' = hung \cup {fd}
        /\ level' = [level EXCEPT ![fd] = {R, W}]
        /\ epoll' = [epoll EXCEPT ![fd].edge = IF epoll[fd].interest = {} THEN {} ELSE {R, W}]
  /\ UNCHANGED <<file_events, open, deleted, nevent, fired, pc, rfired, event_valid, bad>>

Worker == EventWait \/ Read \/ Write \/ External

Next == Worker \/ \E fd \in Fd : Kernel(fd)

Spec == Init /\ [][Next]_vars

----------------------------------------------------------------------------
(* Properties *)

\* The epoll set is the table: epoll watches what the mask says, and there is
\* a callback for exactly the directions in the mask, although each of
\* create_file_event and delete_file_event changes both in its own way.
TableMatchesEpoll ==
  \A fd \in Fd :
    LET e == file_events[fd]
    IN  /\ epoll[fd].interest = e.mask
        /\ R \in e.mask <=> e.read_cb # NULL
        /\ W \in e.mask <=> e.write_cb # NULL

\* process_events never calls through a null pointer, nor an object that a
\* callback processed earlier in the same round has unregistered and deleted;
\* and the pointer `event` it uses after the read callback has returned still
\* points into file_events, because nothing registers a new descriptor, and so
\* nothing resizes the table, while fired events are processed.
CallbacksAlive == bad = {}

\* Edge-triggered readiness is not lost: whatever a registered descriptor is
\* ready for, and no callback has dealt with, is an edge that epoll will
\* report or an event that is about to be processed in this round.
EdgesKept ==
  \A fd \in Fd : \A d \in level[fd] \cap file_events[fd].mask :
    \/ epoll[fd].edge # {}
    \/ \E i \in 1 .. Len(fired) :
         /\ fired[i].fd = fd /\ d \in fired[i].mask
         /\ i > 1 \/ pc = "read" \/ d = W
============================================================================
