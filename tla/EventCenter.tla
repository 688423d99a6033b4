---------------------------- MODULE EventCenter ----------------------------
(***************************************************************************)
(* A worker thread's event loop and the threads that hand it work:         *)
(* dispatch_event_external, wakeup, submit_to, process_events and the stop *)
(* of the worker.                                                          *)
(*                                                                         *)
(* The worker sleeps in epoll_wait unless it saw an external event before; *)
(* whoever makes external_num_events 1 writes a byte to the notify pipe,   *)
(* after the lock is released.  The pipe is watched edge-triggered and     *)
(* drained by C_handle_notify.  File events are in FileEvents.             *)
(***************************************************************************)
EXTENDS Naturals, Sequences, FiniteSets

CONSTANTS
  Thread,      \* threads other than the worker
  Handler,     \* callbacks that are dispatched again and again
  Heap,        \* places on the heap for events nobody waits for
  MaxCalls,    \* bound: calls a thread makes
  MaxNested,   \* bound: events dispatched by callbacks, in the worker
  PipeSize,    \* bytes the notify pipe holds
  MayStop      \* may NetworkStack::stop be called?

ASSUME EventCenterAssumption ==
  /\ MaxCalls \in Nat
  /\ MaxNested \in Nat
  /\ PipeSize \in Nat \ {0}
  /\ MayStop \in BOOLEAN
  /\ Thread \cap Handler = {} /\ Thread \cap Heap = {} /\ Handler \cap Heap = {}

\* An event is the address of a callback; the C_submit_event of a waiting
\* submit_to is on the stack of its thread, always at the same place.
Event == Handler \cup Thread \cup Heap

VARIABLES
  external_events,
  external_num_events,
  cur_process,   \* process_events' own copy
  pc,            \* where the worker is
  blocking,      \* it found no external event and sleeps in epoll_wait
  pipe,          \* bytes in the notify pipe
  ready,         \* epoll has an event of the pipe to report
  tpc,           \* where the other threads are
  submitted,     \* the C_submit_event at a place: on a stack or on the heap
  wdone,         \* Worker::done
  spc,           \* NetworkStack::stop
  owed,          \* handlers dispatched and not run since
  before,        \* those a thread's submit_to has to come after
  touched,       \* an event was used after it was gone
  calls, nested  \* for the bounds

queueVars == <<external_events, external_num_events>>
pipeVars == <<pipe, ready>>
workVars == <<cur_process, pc, blocking>>
threadVars == <<tpc, submitted, calls>>
stopVars == <<wdone, spc>>
ghostVars == <<owed, before, touched, nested>>
vars == <<queueVars, pipeVars, workVars, threadVars, stopVars, ghostVars>>

TypeOK ==
  /\ external_events \in Seq(Event)
  /\ external_num_events \in Nat
  /\ cur_process \in Seq(Event)
  /\ pc \in {"top", "wait", "notify", "external", "run", "finish", "stopped"}
  /\ blocking \in BOOLEAN
  /\ pipe \in 0 .. PipeSize
  /\ ready \in BOOLEAN
  /\ tpc \in [Thread -> {"idle", "dispatch_wakeup", "submit_wakeup", "wait"}]
  /\ submitted \in [Thread \cup Heap -> {"none", "queued", "done"}]
  /\ wdone \in BOOLEAN
  /\ spc \in {"idle", "wakeup", "join", "joined"}
  /\ owed \subseteq Handler
  /\ before \in [Thread -> SUBSET Handler]
  /\ touched \in BOOLEAN
  /\ calls \in [Thread -> 0 .. MaxCalls]
  /\ nested \in 0 .. MaxNested

\* The worker has called set_owner and registered C_handle_notify
Init ==
  /\ external_events = <<>>
  /\ external_num_events = 0
  /\ cur_process = <<>>
  /\ pc = "top"
  /\ blocking = FALSE
  /\ pipe = 0
  /\ ready = FALSE
  /\ tpc = [t \in Thread |-> "idle"]
  /\ submitted = [e \in Thread \cup Heap |-> "none"]
  /\ wdone = FALSE
  /\ spc = "idle"
  /\ owed = {}
  /\ before = [t \in Thread |-> {}]
  /\ touched = FALSE
  /\ calls = [t \in Thread |-> 0]
  /\ nested = 0

----------------------------------------------------------------------------
(* What other threads do *)

\* (mutant: an event that is being run counts as queued)
Enqueue_unless_running(e) ==
  IF \/ external_num_events > 0 /\ external_events[Len(external_events)] = e
     \/ cur_process # <<>> /\ Head(cur_process) = e
  THEN UNCHANGED queueVars
  ELSE /\ external_events' = Append(external_events, e)
       /\ external_num_events' = external_num_events + 1

\* dispatch_event_external under the lock; a repetition of the last event is
\* dropped
Enqueue(e) ==
  IF external_num_events > 0 /\ external_events[Len(external_events)] = e
  THEN UNCHANGED queueVars
  ELSE /\ external_events' = Append(external_events, e)
       /\ external_num_events' = external_num_events + 1

\* num == 1, where num stays 0 if the event was dropped
FirstEvent == external_num_events = 0 /\ external_num_events' = 1

\* A thread enters dispatch_event_external and leaves the lock
CallDispatch(t, e, wakeup, otherwise) ==
  /\ tpc[t] = "idle"
  /\ calls[t] < MaxCalls
  /\ calls' = [calls EXCEPT ![t] = @ + 1]
  /\ Enqueue(e)
  /\ tpc' = [tpc EXCEPT ![t] = IF FirstEvent THEN wakeup ELSE otherwise]

\* dispatch_event_external(h)
Dispatch(t, h) ==
  /\ CallDispatch(t, h, "dispatch_wakeup", "idle")
  /\ owed' = owed \cup {h}
  /\ UNCHANGED <<pipeVars, workVars, submitted, stopVars, before, touched, nested>>

\* submit_to from another thread that waits
Submit(t) ==
  /\ CallDispatch(t, t, "submit_wakeup", "wait")
  /\ submitted' = [submitted EXCEPT ![t] = "queued"]
  /\ before' = [before EXCEPT ![t] = owed]
  /\ UNCHANGED <<pipeVars, workVars, stopVars, owed, touched, nested>>

\* submit_to with always_async
SubmitAsync(t, a) ==
  /\ submitted[a] = "none"
  /\ CallDispatch(t, a, "dispatch_wakeup", "idle")
  /\ submitted' = [submitted EXCEPT ![a] = "queued"]
  /\ UNCHANGED <<pipeVars, workVars, stopVars, ghostVars>>

\* wakeup(): a byte if there is room; epoll reports a pipe that was empty
WritePipe ==
  /\ pipe' = IF pipe < PipeSize THEN pipe + 1 ELSE pipe
  /\ ready' = (ready \/ pipe = 0)

Wakeup(t) ==
  /\ tpc[t] \in {"dispatch_wakeup", "submit_wakeup"}
  /\ WritePipe
  /\ tpc' = [tpc EXCEPT ![t] = IF @ = "submit_wakeup" THEN "wait" ELSE "idle"]
  /\ UNCHANGED <<queueVars, workVars, submitted, calls, stopVars, ghostVars>>

\* C_submit_event::wait returns and the event's stack frame is gone
WaitReturns(t) ==
  /\ tpc[t] = "wait"
  /\ submitted[t] = "done"
  /\ tpc' = [tpc EXCEPT ![t] = "idle"]
  /\ submitted' = [submitted EXCEPT ![t] = "none"]
  /\ UNCHANGED <<queueVars, pipeVars, workVars, calls, stopVars, ghostVars>>

\* (mutant: wakes the worker before done is set)
Stop_wakes_first ==
  /\ \/ /\ MayStop /\ spc = "idle"
        /\ WritePipe
        /\ spc' = "wakeup" /\ UNCHANGED wdone
     \/ /\ spc = "wakeup"
        /\ wdone' = TRUE /\ spc' = "join"
        /\ UNCHANGED pipeVars
     \/ /\ spc = "join" /\ pc = "stopped"
        /\ spc' = "joined" /\ UNCHANGED <<wdone, pipeVars>>
  /\ UNCHANGED <<queueVars, workVars, threadVars, ghostVars>>

\* NetworkStack::stop for this worker: done = true, wakeup, join
Stop ==
  /\ \/ /\ MayStop /\ spc = "idle"
        /\ wdone' = TRUE /\ spc' = "wakeup"
        /\ UNCHANGED pipeVars
     \/ /\ spc = "wakeup"
        /\ WritePipe
        /\ spc' = "join" /\ UNCHANGED wdone
     \/ /\ spc = "join" /\ pc = "stopped"
        /\ spc' = "joined" /\ UNCHANGED <<wdone, pipeVars>>
  /\ UNCHANGED <<queueVars, workVars, threadVars, ghostVars>>

----------------------------------------------------------------------------
(* The worker: the loop of add_thread around process_events *)

\* (mutant: sleeps whatever external_num_events is)
Top_ignores_external ==
  /\ pc = "top"
  /\ pc' = IF wdone THEN "stopped" ELSE "wait"
  /\ blocking' = ~wdone
  /\ wdone' = FALSE
  /\ UNCHANGED <<queueVars, pipeVars, cur_process, threadVars, spc, ghostVars>>

\* The loop's condition, and Worker::reset when it ends; then whether to sleep
Top ==
  /\ pc = "top"
  /\ pc' = IF wdone THEN "stopped" ELSE "wait"
  /\ blocking' = (~wdone /\ external_num_events = 0)
  /\ wdone' = FALSE
  /\ UNCHANGED <<queueVars, pipeVars, cur_process, threadVars, spc, ghostVars>>

\* event_wait returns with an event of the pipe, at once if not blocking, or
\* when it has slept for EventMaxWaitUs
EventWait ==
  /\ pc = "wait"
  /\ ready \/ ~blocking
  /\ pc' = IF ready THEN "notify" ELSE "external"
  /\ ready' = FALSE
  /\ UNCHANGED <<queueVars, pipe, cur_process, blocking, threadVars, stopVars, ghostVars>>

Timeout ==
  /\ pc = "wait"
  /\ pc' = "external"
  /\ UNCHANGED <<queueVars, pipeVars, cur_process, blocking, threadVars, stopVars, ghostVars>>

\* C_handle_notify empties the pipe
HandleNotify ==
  /\ pc = "notify"
  /\ pipe' = 0
  /\ pc' = "external"
  /\ UNCHANGED <<queueVars, ready, cur_process, blocking, threadVars, stopVars, ghostVars>>

\* The external events so far are swapped out under the lock
TakeExternal ==
  /\ pc = "external"
  /\ IF external_num_events = 0
     THEN pc' = "top" /\ UNCHANGED <<queueVars, cur_process>>
     ELSE /\ cur_process' = external_events
          /\ external_events' = <<>>
          /\ external_num_events' = 0
          /\ pc' = "run"
  /\ UNCHANGED <<pipeVars, blocking, threadVars, stopVars, ghostVars>>

\* A callback may dispatch an event itself; in the worker there is no wakeup
RunHandler(h) ==
  /\ h \in Handler
  /\ \/ /\ UNCHANGED <<queueVars, nested>>
        /\ owed' = owed \ {h}
     \/ \E g \in Handler :
          /\ nested < MaxNested
          /\ nested' = nested + 1
          /\ Enqueue(g)
          /\ owed' = (owed \ {h}) \cup {g}
  /\ before' = [t \in Thread |-> before[t] \ {h}]
  /\ UNCHANGED <<submitted, touched>>

\* f(), then done = true under the lock
RunSubmitted(e) ==
  /\ e \in Thread \cup Heap
  /\ touched' = (touched \/ submitted[e] = "none")
  /\ submitted' = [submitted EXCEPT ![e] = "done"]
  /\ UNCHANGED <<queueVars, owed, before, nested>>

\* e->do_request(0), e the front of cur_process
Run ==
  /\ pc = "run"
  /\ RunHandler(Head(cur_process)) \/ RunSubmitted(Head(cur_process))
  /\ pc' = "finish"
  /\ UNCHANGED <<pipeVars, cur_process, blocking, tpc, calls, stopVars>>

\* (mutant: nonwait is read from the event after the unlock)
Delete_reads_event(e) ==
  /\ touched' = (touched \/ (e \in Thread \cup Heap /\ submitted[e] # "done"))
  /\ submitted' = IF e \in Heap THEN [submitted EXCEPT ![e] = "none"] ELSE submitted

\* if (del) delete this, with the copy of nonwait taken under the lock
Delete(e) ==
  /\ touched' = (touched \/ (e \in Heap /\ submitted[e] # "done"))
  /\ submitted' = IF e \in Heap THEN [submitted EXCEPT ![e] = "none"] ELSE submitted

\* do_request after its unlock, and pop_front
Finish ==
  /\ pc = "finish"
  /\ Delete(Head(cur_process))
  /\ cur_process' = Tail(cur_process)
  /\ pc' = IF Len(cur_process) = 1 THEN "top" ELSE "run"
  /\ UNCHANGED <<queueVars, pipeVars, blocking, tpc, calls, stopVars, owed, before, nested>>

\* The worker is joined; a thread that submits now waits for ever
Ended == spc = "joined" /\ UNCHANGED vars

Worker == Top \/ EventWait \/ HandleNotify \/ TakeExternal \/ Run \/ Finish

Call(t) == Submit(t) \/ (\E h \in Handler : Dispatch(t, h)) \/ (\E a \in Heap : SubmitAsync(t, a))

Next ==
  \/ Worker
  \/ Timeout
  \/ \E t \in Thread : Call(t) \/ Wakeup(t) \/ WaitReturns(t)
  \/ Stop
  \/ Ended

Spec == Init /\ [][Next]_vars

\* Threads that are inside a call go on, so does the worker.  Nobody has to
\* make a call, and nothing rests on the 30 seconds of EventMaxWaitUs.
Fairness ==
  /\ WF_vars(Worker)
  /\ \A t \in Thread : WF_vars(Wakeup(t)) /\ WF_vars(WaitReturns(t))
  /\ WF_vars(spc # "idle" /\ Stop)

FairSpec == Spec /\ Fairness

----------------------------------------------------------------------------
(* Properties *)

\* When the worker sleeps although there is an external event, or although it
\* is to stop, then epoll is about to wake it or somebody has yet to write the
\* byte: the check of external_num_events before the sleep and the write after
\* the unlock leave no gap.
NoLostWakeup ==
  pc = "wait" /\ blocking =>
    /\ external_num_events > 0 =>
         ready \/ \E t \in Thread : tpc[t] \in {"dispatch_wakeup", "submit_wakeup"}
    /\ wdone => ready \/ spc = "wakeup"

\* submit_to and the worker agree on when the call is over.  The worker does not
\* use a C_submit_event that was on the stack of a thread which has left
\* submit_to, nor one that was deleted; and when submit_to returns, every
\* handler dispatched before it has run, which is what lets cleanup() delete a
\* handler after submit_to.
SubmitSound == ~touched /\ \A t \in Thread : submitted[t] = "done" => before[t] = {}

\* Until the worker is stopped, a handler runs after each call that dispatched
\* it, also when the event was dropped as a repetition, and submit_to returns.
CallsServed ==
  /\ \A h \in Handler : h \in owed ~> h \notin owed \/ spc # "idle"
  /\ \A t \in Thread : tpc[t] = "wait" ~> tpc[t] = "idle" \/ spc # "idle"

\* NetworkStack::stop joins the worker, without waiting for EventMaxWaitUs.
StopJoins == spc = "wakeup" ~> spc = "joined"
============================================================================
