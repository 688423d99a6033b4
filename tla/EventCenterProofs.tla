-------------------------- MODULE EventCenterProofs --------------------------
(***************************************************************************)
(* No wakeup is lost and submit_to is sound, for any threads, handlers and *)
(* heap, any size of the pipe and any number of calls.                     *)
(*                                                                         *)
(* The two halves of the inductive invariant are independent.  Awake is    *)
(* about the pipe: outside C_handle_notify it holds a byte exactly when    *)
(* epoll has an event of it to report.  Orderly is about the events that   *)
(* are still to run, the worker's and the queue's as one sequence: each    *)
(* C_submit_event that is marked as queued is in it once, each handler     *)
(* that is owed is in it, and what a submit_to has to come after is in     *)
(* front of it.                                                            *)
(***************************************************************************)
EXTENDS EventCenter, SequenceTheorems, TLAPS

Submittable == Thread \cup Heap

\* The events that are still to run, first the worker's, then the queue's
Current == IF pc = "finish" THEN Tail(cur_process) ELSE cur_process
Pending == Current \o external_events

In(e, s) == \E i \in 1 .. Len(s) : s[i] = e

\* The counter is the length of the queue, and the worker has a copy of it only
\* while it works it off.
Counters ==
  /\ external_num_events = Len(external_events)
  /\ pc \in {"run", "finish"} <=> cur_process # <<>>

\* The pipe and what epoll knows of it
PipeSound ==
  IF pc = "notify" THEN pipe > 0 /\ ~ready ELSE ready <=> pipe > 0

Awake == PipeSound /\ NoLostWakeup

\* What is queued is in s, and there once; s is Pending, sub is submitted
QueuedOnce(s, sub) ==
  /\ \A e \in Submittable : sub[e] = "queued" <=> In(e, s)
  /\ \A i, j \in 1 .. Len(s) : s[i] = s[j] /\ s[i] \in Submittable => i = j

\* Handlers that are owed are in s, those a submit_to comes after in front of it
InFront(s, owe, bef) ==
  /\ \A h \in owe : In(h, s)
  /\ \A t \in Thread : \A i \in 1 .. Len(s) : s[i] = t =>
       \A h \in bef[t] : \E j \in 1 .. i - 1 : s[j] = h

\* A thread outside submit_to has no event; the event being deleted has run
Handed ==
  /\ \A t \in Thread : tpc[t] \in {"idle", "dispatch_wakeup"} => submitted[t] = "none"
  /\ pc = "finish" /\ Head(cur_process) \in Heap => submitted[Head(cur_process)] = "done"

Orderly ==
  /\ QueuedOnce(Pending, submitted)
  /\ InFront(Pending, owed, before)
  /\ Handed
  /\ SubmitSound

IInv == TypeOK /\ Counters /\ Awake /\ Orderly

----------------------------------------------------------------------------
(* Sequences *)

LEMMA LenZero ==
  ASSUME NEW S, NEW s \in Seq(S)
  PROVE  Len(s) = 0 <=> s = <<>>
OBVIOUS

LEMMA TailEmpty ==
  ASSUME NEW S, NEW s \in Seq(S), s # <<>>
  PROVE  Tail(s) \in Seq(S) /\ (Len(s) = 1 <=> Tail(s) = <<>>)
<1>1. Tail(s) \in Seq(S) /\ Len(Tail(s)) = Len(s) - 1
  BY HeadTailProperties, Zenon
<1>2. Len(s) \in Nat /\ Len(Tail(s)) \in Nat
  BY <1>1
<1>3. Len(Tail(s)) = 0 <=> Tail(s) = <<>>
  BY <1>1, LenZero, Zenon
<1>4. Len(s) = 1 <=> Len(Tail(s)) = 0
  BY <1>1, <1>2
<1> QED
  BY <1>1, <1>3, <1>4, Zenon

LEMMA AppendIn ==
  ASSUME NEW S, NEW s \in Seq(S), NEW x \in S, NEW e
  PROVE  /\ Append(s, x) \in Seq(S) /\ Len(Append(s, x)) = Len(s) + 1
         /\ \A i \in 1 .. Len(s) : Append(s, x)[i] = s[i]
         /\ Append(s, x)[Len(s) + 1] = x
         /\ In(e, Append(s, x)) <=> In(e, s) \/ e = x
<1>1. /\ Append(s, x) \in Seq(S) /\ Len(Append(s, x)) = Len(s) + 1
      /\ \A i \in 1 .. Len(s) : Append(s, x)[i] = s[i]
      /\ Append(s, x)[Len(s) + 1] = x
  OBVIOUS
<1>2. Len(s) \in Nat
  OBVIOUS
<1>3. \A i \in 1 .. Len(s) + 1 : i \in 1 .. Len(s) \/ i = Len(s) + 1
  BY <1>2
<1>4. 1 .. Len(s) \subseteq 1 .. Len(s) + 1 /\ Len(s) + 1 \in 1 .. Len(s) + 1
  BY <1>2
<1> QED
  BY <1>1, <1>3, <1>4, Zenon DEF In

LEMMA TailIn ==
  ASSUME NEW S, NEW s \in Seq(S), s # <<>>, NEW e
  PROVE  /\ Tail(s) \in Seq(S) /\ Head(s) \in S /\ Len(s) \in Nat \ {0}
         /\ Len(Tail(s)) = Len(s) - 1
         /\ \A i \in 1 .. Len(Tail(s)) : i + 1 \in 1 .. Len(s) /\ Tail(s)[i] = s[i + 1]
         /\ Head(s) = s[1] /\ 1 \in 1 .. Len(s)
         /\ In(e, s) <=> e = Head(s) \/ In(e, Tail(s))
<1>1. /\ Tail(s) \in Seq(S) /\ Head(s) \in S /\ Len(s) \in Nat \ {0}
      /\ Len(Tail(s)) = Len(s) - 1
      /\ \A i \in 1 .. Len(Tail(s)) : i + 1 \in 1 .. Len(s) /\ Tail(s)[i] = s[i + 1]
      /\ Head(s) = s[1] /\ 1 \in 1 .. Len(s)
  OBVIOUS
<1>2. ASSUME NEW i \in 1 .. Len(s), s[i] = e, i # 1
      PROVE  In(e, Tail(s))
  <2>1. i - 1 \in 1 .. Len(Tail(s)) /\ Tail(s)[i - 1] = e
    BY <1>1, <1>2
  <2> QED
    BY <2>1, Zenon DEF In
<1> QED
  BY <1>1, <1>2, Zenon DEF In

LEMMA ConcatAppend ==
  ASSUME NEW S, NEW r \in Seq(S), NEW s \in Seq(S), NEW x \in S
  PROVE  r \o Append(s, x) = Append(r \o s, x)
<1>1. <<x>> \in Seq(S) /\ r \o s \in Seq(S)
  BY ConcatProperties
<1>2. Append(s, x) = s \o <<x>> /\ Append(r \o s, x) = (r \o s) \o <<x>>
  BY <1>1, AppendIsConcat, Zenon
<1> QED
  BY <1>1, <1>2, ConcatAssociative

LEMMA ConcatTail ==
  ASSUME NEW S, NEW r \in Seq(S), NEW s \in Seq(S), r # <<>>
  PROVE  /\ r \o s # <<>> /\ Head(r \o s) = Head(r)
         /\ Tail(r) \o s = Tail(r \o s)
<1>1. r \o s \in Seq(S) /\ Tail(r) \in Seq(S) /\ r \o s # <<>>
  BY ConcatProperties, ConcatEqualIffEmpty, HeadTailProperties
<1>2. Tail(r) \o s \in Seq(S) /\ Tail(r \o s) \in Seq(S)
  BY <1>1, ConcatProperties, HeadTailProperties, Zenon
<1>3. Len(r) \in Nat \ {0} /\ Len(s) \in Nat
  OBVIOUS
<1>4. Len(Tail(r) \o s) = Len(Tail(r \o s))
  BY <1>1, <1>2, <1>3, ConcatProperties, HeadTailProperties
<1>5. ASSUME NEW i \in 1 .. Len(Tail(r) \o s)
      PROVE  (Tail(r) \o s)[i] = Tail(r \o s)[i]
  BY <1>1, <1>2, <1>3, <1>4, ConcatProperties, HeadTailProperties
<1>6. Head(r \o s) = Head(r)
  BY <1>1, <1>3, ConcatProperties
<1>7. Tail(r) \o s = Tail(r \o s)
  BY <1>2, <1>4, <1>5, SeqEqual, Zenon
<1> QED
  BY <1>1, <1>6, <1>7, Zenon

LEMMA LastIn ==
  ASSUME NEW S, NEW r \in Seq(S), NEW s \in Seq(S), s # <<>>
  PROVE  In(s[Len(s)], r \o s)
<1>1. Len(r) + Len(s) \in 1 .. Len(r \o s) /\ (r \o s)[Len(r) + Len(s)] = s[Len(s)]
  BY ConcatProperties
<1> QED
  BY <1>1, Zenon DEF In

----------------------------------------------------------------------------
(* Types and counters *)

LEMMA EnqueueTypes ==
  ASSUME TypeOK, Counters, NEW e \in Event, Enqueue(e)
  PROVE  /\ external_events' \in Seq(Event) /\ external_num_events' \in Nat
         /\ external_num_events' = Len(external_events')
<1>1. Append(external_events, e) \in Seq(Event)
      /\ Len(Append(external_events, e)) = Len(external_events) + 1
  BY AppendProperties, Zenon DEF TypeOK
<1>2. CASE UNCHANGED queueVars
  BY <1>2, Zenon DEF TypeOK, Counters, queueVars
<1>3. CASE /\ external_events' = Append(external_events, e)
           /\ external_num_events' = external_num_events + 1
  BY <1>1, <1>3 DEF TypeOK, Counters
<1> QED
  BY <1>2, <1>3, Zenon DEF Enqueue

LEMMA CallTypes ==
  ASSUME TypeOK, Counters, NEW t \in Thread, NEW e \in Event,
         NEW wakeup \in {"dispatch_wakeup", "submit_wakeup"}, NEW otherwise \in {"idle", "wait"},
         CallDispatch(t, e, wakeup, otherwise)
  PROVE  /\ external_events' \in Seq(Event) /\ external_num_events' \in Nat
         /\ external_num_events' = Len(external_events')
         /\ tpc' \in [Thread -> {"idle", "dispatch_wakeup", "submit_wakeup", "wait"}]
         /\ calls' \in [Thread -> 0 .. MaxCalls]
<1>1. /\ external_events' \in Seq(Event) /\ external_num_events' \in Nat
      /\ external_num_events' = Len(external_events')
  BY EnqueueTypes, Zenon DEF CallDispatch
<1>2. tpc' \in [Thread -> {"idle", "dispatch_wakeup", "submit_wakeup", "wait"}]
  BY Zenon DEF CallDispatch, TypeOK
<1>3. calls' \in [Thread -> 0 .. MaxCalls]
  BY EventCenterAssumption DEF CallDispatch, TypeOK
<1> QED
  BY <1>1, <1>2, <1>3, Zenon

LEMMA WritePipeTypes ==
  ASSUME TypeOK, WritePipe
  PROVE  pipe' \in 0 .. PipeSize /\ pipe' > 0 /\ ready' \in BOOLEAN
  BY EventCenterAssumption DEF TypeOK, WritePipe

\* Every action keeps the types and the counters.
LEMMA TypeStep ==
  ASSUME TypeOK, Counters, [Next]_vars
  PROVE  TypeOK' /\ Counters'
<1> USE DEF Counters, queueVars, pipeVars, workVars, threadVars, stopVars, ghostVars
<1>1. ASSUME NEW t \in Thread, NEW h \in Handler, Dispatch(t, h)
      PROVE  TypeOK' /\ Counters'
  <2>1. h \in Event
    BY Zenon DEF Event
  <2>2. CallDispatch(t, h, "dispatch_wakeup", "idle")
    BY <1>1, Zenon DEF Dispatch
  <2> QED
    BY <1>1, <2>1, <2>2, CallTypes, SMTT(60) DEF TypeOK, Dispatch
<1>2. ASSUME NEW t \in Thread, Submit(t)
      PROVE  TypeOK' /\ Counters'
  <2>1. t \in Event
    BY Zenon DEF Event
  <2>2. CallDispatch(t, t, "submit_wakeup", "wait")
    BY <1>2, Zenon DEF Submit
  <2> QED
    BY <1>2, <2>1, <2>2, CallTypes, SMTT(60) DEF TypeOK, Submit
<1>3. ASSUME NEW t \in Thread, NEW a \in Heap, SubmitAsync(t, a)
      PROVE  TypeOK' /\ Counters'
  <2>1. a \in Event
    BY Zenon DEF Event
  <2>2. CallDispatch(t, a, "dispatch_wakeup", "idle")
    BY <1>3, Zenon DEF SubmitAsync
  <2> QED
    BY <1>3, <2>1, <2>2, CallTypes, SMTT(60) DEF TypeOK, SubmitAsync
<1>4. ASSUME NEW t \in Thread, Wakeup(t)
      PROVE  TypeOK' /\ Counters'
  <2>1. pipe' \in 0 .. PipeSize /\ ready' \in BOOLEAN
    BY <1>4, WritePipeTypes, Zenon DEF Wakeup
  <2> QED
    BY <1>4, <2>1, ZenonT(90) DEF TypeOK, Wakeup
<1>5. ASSUME NEW t \in Thread, WaitReturns(t)
      PROVE  TypeOK' /\ Counters'
  BY <1>5, ZenonT(90) DEF TypeOK, WaitReturns
<1>6. CASE Stop
  <2>1. pipe' \in 0 .. PipeSize /\ ready' \in BOOLEAN
    BY <1>6, WritePipeTypes, Zenon DEF Stop, TypeOK
  <2> QED
    BY <1>6, <2>1, Zenon DEF TypeOK, Stop
<1>7. CASE Top
  BY <1>7, Zenon DEF TypeOK, Top
<1>8. CASE EventWait
  BY <1>8, Zenon DEF TypeOK, EventWait
<1>9. CASE Timeout
  BY <1>9, Zenon DEF TypeOK, Timeout
<1>10. CASE HandleNotify
  BY <1>10, EventCenterAssumption DEF TypeOK, HandleNotify
<1>11. CASE TakeExternal
  <2>1. <<>> \in Seq(Event) /\ Len(<<>>) = 0
    BY EmptySeq, Zenon
  <2>2. CASE external_num_events = 0
    BY <1>11, <2>2, Zenon DEF TypeOK, Counters, TakeExternal, queueVars, pipeVars, threadVars, stopVars, ghostVars
  <2>3. CASE external_num_events # 0
    <3>1. external_events # <<>>
      BY <2>1, <2>3, Zenon DEF Counters
    <3> QED
      BY <1>11, <2>1, <2>3, <3>1 DEF TypeOK, Counters, TakeExternal, pipeVars, threadVars, stopVars, ghostVars
  <2> QED
    BY <2>2, <2>3, Zenon
<1>12. CASE Run
  <2>1. Head(cur_process) \in Event /\ cur_process # <<>>
    BY <1>12 DEF Run, TypeOK
  <2>2. /\ external_events' \in Seq(Event) /\ external_num_events' \in Nat
        /\ external_num_events' = Len(external_events')
        /\ owed' \subseteq Handler /\ nested' \in 0 .. MaxNested
        /\ before' \in [Thread -> SUBSET Handler]
        /\ submitted' \in [Thread \cup Heap -> {"none", "queued", "done"}]
        /\ touched' \in BOOLEAN
    <3>1. CASE RunHandler(Head(cur_process))
      <4>1. \A g \in Handler : g \in Event
        BY Zenon DEF Event
      <4>2. /\ external_events' \in Seq(Event) /\ external_num_events' \in Nat
            /\ external_num_events' = Len(external_events')
        BY <3>1, <4>1, EnqueueTypes, Zenon DEF RunHandler, TypeOK
      <4> QED
        BY <3>1, <4>2, EventCenterAssumption DEF RunHandler, TypeOK
    <3>2. CASE RunSubmitted(Head(cur_process))
      BY <3>2, Zenon DEF RunSubmitted, TypeOK
    <3> QED
      BY <1>12, <3>1, <3>2, Zenon DEF Run
  <2> QED
    BY <1>12, <2>1, <2>2, Zenon DEF TypeOK, Run
<1>13. CASE Finish
  <2>1. cur_process # <<>> /\ Tail(cur_process) \in Seq(Event)
        /\ (Len(cur_process) = 1 <=> Tail(cur_process) = <<>>)
    <3>1. cur_process \in Seq(Event) /\ cur_process # <<>>
      BY <1>13, Zenon DEF Finish, TypeOK
    <3> QED
      BY <3>1, TailEmpty, Zenon
  <2> QED
    BY <1>13, <2>1, Zenon DEF TypeOK, Finish, Delete
<1>14. CASE UNCHANGED vars
  BY <1>14 DEF TypeOK, vars
<1> QED
  BY <1>1, <1>2, <1>3, <1>4, <1>5, <1>6, <1>7, <1>8, <1>9, <1>10, <1>11, <1>12, <1>13, <1>14, Zenon
     DEF Next, Worker, Call, Ended

----------------------------------------------------------------------------
(* The wakeup *)

\* Whoever enqueues the first event is to write to the pipe.
LEMMA CallAwake ==
  ASSUME TypeOK, Awake, NEW t \in Thread, NEW e \in Event,
         NEW wakeup \in {"dispatch_wakeup", "submit_wakeup"}, NEW otherwise,
         CallDispatch(t, e, wakeup, otherwise), UNCHANGED <<pipeVars, workVars, stopVars>>
  PROVE  Awake'
<1> USE DEF pipeVars, workVars, stopVars
<1>1. PipeSound'
  BY Zenon DEF Awake, PipeSound
<1>2. ASSUME pc = "wait", blocking, external_num_events' > 0, ~ready
      PROVE  \E u \in Thread : tpc'[u] \in {"dispatch_wakeup", "submit_wakeup"}
  <2>1. CASE external_num_events = 0
    <3>1. external_num_events' = 1
      BY <1>2, <2>1 DEF CallDispatch, Enqueue, queueVars
    <3>2. tpc'[t] = wakeup
      BY <2>1, <3>1, Zenon DEF CallDispatch, FirstEvent, TypeOK
    <3> QED
      BY <3>2, Zenon
  <2>2. CASE external_num_events # 0
    <3>1. external_num_events > 0
      BY <2>2 DEF TypeOK
    <3>2. PICK u \in Thread : tpc[u] \in {"dispatch_wakeup", "submit_wakeup"}
      BY <1>2, <3>1, Zenon DEF Awake, NoLostWakeup
    <3>3. u # t /\ tpc'[u] = tpc[u]
      BY <3>2, Zenon DEF CallDispatch, TypeOK
    <3> QED
      BY <3>2, <3>3, Zenon
  <2> QED
    BY <2>1, <2>2, Zenon
<1> QED
  BY <1>1, <1>2, Zenon DEF Awake, NoLostWakeup

LEMMA WritePipeAwake ==
  ASSUME TypeOK, Awake, WritePipe, pc' = pc
  PROVE  PipeSound' /\ (pc = "wait" => ready')
<1>1. pipe' > 0 /\ (pipe > 0 <=> pipe # 0)
  BY EventCenterAssumption DEF TypeOK, WritePipe
<1>2. ready' <=> ready \/ pipe = 0
  BY Zenon DEF WritePipe
<1>3. CASE pc = "notify"
  BY <1>1, <1>2, <1>3, Zenon DEF Awake, PipeSound
<1>4. CASE pc # "notify"
  BY <1>1, <1>2, <1>4, Zenon DEF Awake, PipeSound
<1> QED
  BY <1>3, <1>4, Zenon

\* Every action keeps the pipe in step with what epoll knows of it, and leaves
\* no sleeping worker behind that nobody is to wake.
LEMMA AwakeStep ==
  ASSUME TypeOK, Awake, [Next]_vars
  PROVE  Awake'
<1> USE DEF queueVars, pipeVars, workVars, threadVars, stopVars, ghostVars
<1>1. ASSUME NEW t \in Thread, NEW h \in Handler, Dispatch(t, h)
      PROVE  Awake'
  BY <1>1, CallAwake, Zenon DEF Dispatch, Event
<1>2. ASSUME NEW t \in Thread, Submit(t)
      PROVE  Awake'
  BY <1>2, CallAwake, Zenon DEF Submit, Event
<1>3. ASSUME NEW t \in Thread, NEW a \in Heap, SubmitAsync(t, a)
      PROVE  Awake'
  BY <1>3, CallAwake, Zenon DEF SubmitAsync, Event
<1>4. ASSUME NEW t \in Thread, Wakeup(t)
      PROVE  Awake'
  <2>1. PipeSound' /\ (pc = "wait" => ready')
    BY <1>4, WritePipeAwake, Zenon DEF Wakeup
  <2> QED
    BY <1>4, <2>1, Zenon DEF Awake, NoLostWakeup, Wakeup
<1>5. ASSUME NEW t \in Thread, WaitReturns(t)
      PROVE  Awake'
  <2>1. \A u \in Thread : u # t => tpc'[u] = tpc[u]
    BY <1>5, Zenon DEF WaitReturns, TypeOK
  <2> QED
    BY <1>5, <2>1, Zenon DEF Awake, PipeSound, NoLostWakeup, WaitReturns
<1>6. CASE Stop
  <2>1. CASE spc = "wakeup" /\ WritePipe
    <3>1. PipeSound' /\ (pc = "wait" => ready')
      BY <1>6, <2>1, WritePipeAwake, Zenon DEF Stop
    <3> QED
      BY <1>6, <3>1, Zenon DEF Awake, NoLostWakeup, Stop
  <2>2. CASE spc \in {"idle", "join"} /\ UNCHANGED pipeVars
    BY <1>6, <2>2, Zenon DEF Awake, PipeSound, NoLostWakeup, Stop
  <2> QED
    BY <1>6, <2>1, <2>2, Zenon DEF Stop
<1>7. CASE Top
  BY <1>7 DEF Awake, PipeSound, NoLostWakeup, Top, TypeOK
<1>8. CASE EventWait
  BY <1>8, Zenon DEF Awake, PipeSound, NoLostWakeup, EventWait, TypeOK
<1>9. CASE Timeout
  BY <1>9, Zenon DEF Awake, PipeSound, NoLostWakeup, Timeout
<1>10. CASE HandleNotify
  BY <1>10 DEF Awake, PipeSound, NoLostWakeup, HandleNotify
<1>11. CASE TakeExternal
  BY <1>11, Zenon DEF Awake, PipeSound, NoLostWakeup, TakeExternal
<1>12. CASE Run
  BY <1>12, Zenon DEF Awake, PipeSound, NoLostWakeup, Run
<1>13. CASE Finish
  BY <1>13, Zenon DEF Awake, PipeSound, NoLostWakeup, Finish
<1>14. CASE UNCHANGED vars
  BY <1>14, Zenon DEF Awake, PipeSound, NoLostWakeup, vars
<1> QED
  BY <1>1, <1>2, <1>3, <1>4, <1>5, <1>6, <1>7, <1>8, <1>9, <1>10, <1>11, <1>12, <1>13, <1>14, Zenon
     DEF Next, Worker, Call, Ended

----------------------------------------------------------------------------
(* The order of the events that are still to run *)

LEMMA QueuedAppend ==
  ASSUME NEW s \in Seq(Event), NEW e \in Event, NEW sub, NEW sub2, QueuedOnce(s, sub),
         e \in Submittable => ~In(e, s),
         \A x \in Submittable : sub2[x] = "queued" <=> sub[x] = "queued" \/ x = e
  PROVE  QueuedOnce(Append(s, e), sub2)
<1>1. \A x \in Submittable : sub2[x] = "queued" <=> In(x, Append(s, e))
  BY AppendIn DEF QueuedOnce
<1>2. /\ \A i \in 1 .. Len(s) : Append(s, e)[i] = s[i]
      /\ Append(s, e)[Len(s) + 1] = e
      /\ \A i \in 1 .. Len(Append(s, e)) : i \in 1 .. Len(s) \/ i = Len(s) + 1
  BY AppendIn
<1>3. ASSUME NEW i \in 1 .. Len(Append(s, e)), NEW j \in 1 .. Len(Append(s, e)),
             Append(s, e)[i] = Append(s, e)[j], Append(s, e)[i] \in Submittable
      PROVE  i = j
  <2>1. CASE i \in 1 .. Len(s) /\ j \in 1 .. Len(s)
    BY <1>2, <1>3, <2>1, Zenon DEF QueuedOnce
  <2>2. CASE i = Len(s) + 1 /\ j \in 1 .. Len(s)
    BY <1>2, <1>3, <2>2, Zenon DEF In
  <2>3. CASE i \in 1 .. Len(s) /\ j = Len(s) + 1
    BY <1>2, <1>3, <2>3, Zenon DEF In
  <2> QED
    BY <1>2, <2>1, <2>2, <2>3, Zenon
<1> QED
  BY <1>1, <1>3, Zenon DEF QueuedOnce

LEMMA QueuedTail ==
  ASSUME NEW s \in Seq(Event), s # <<>>, NEW sub, NEW sub2, QueuedOnce(s, sub),
         \A x \in Submittable : sub2[x] = "queued" <=> sub[x] = "queued" /\ x # Head(s)
  PROVE  QueuedOnce(Tail(s), sub2)
<1>1. /\ \A i \in 1 .. Len(Tail(s)) : i + 1 \in 1 .. Len(s) /\ Tail(s)[i] = s[i + 1] /\ i + 1 # 1
      /\ Head(s) = s[1] /\ 1 \in 1 .. Len(s)
      /\ \A i, j \in 1 .. Len(Tail(s)) : i + 1 = j + 1 => i = j
  BY TailIn
<1>2. ASSUME Head(s) \in Submittable
      PROVE  ~In(Head(s), Tail(s))
  <2>1. SUFFICES ASSUME NEW i \in 1 .. Len(Tail(s)), Tail(s)[i] = Head(s)
                 PROVE  FALSE
    BY Zenon DEF In
  <2>2. i + 1 \in 1 .. Len(s) /\ s[i + 1] = s[1] /\ s[1] \in Submittable
    BY <1>1, <1>2, <2>1, Zenon
  <2> QED
    BY <1>1, <2>2, Zenon DEF QueuedOnce
<1>3. \A x \in Submittable : sub2[x] = "queued" <=> In(x, Tail(s))
  BY <1>2, TailIn, Zenon DEF QueuedOnce
<1>4. \A i, j \in 1 .. Len(Tail(s)) :
        Tail(s)[i] = Tail(s)[j] /\ Tail(s)[i] \in Submittable => i = j
  <2>1. SUFFICES ASSUME NEW i \in 1 .. Len(Tail(s)), NEW j \in 1 .. Len(Tail(s)),
                        Tail(s)[i] = Tail(s)[j], Tail(s)[i] \in Submittable
                 PROVE  i = j
    BY Zenon
  <2>2. s[i + 1] = s[j + 1] /\ s[i + 1] \in Submittable
    BY <1>1, <2>1, Zenon
  <2>3. i + 1 = j + 1
    BY <1>1, <2>2, Zenon DEF QueuedOnce
  <2> QED
    BY <1>1, <2>3, Zenon
<1> QED
  BY <1>3, <1>4, Zenon DEF QueuedOnce

LEMMA InFrontAppend ==
  ASSUME NEW s \in Seq(Event), NEW e \in Event, NEW owe, NEW bef, NEW owe2, NEW bef2,
         InFront(s, owe, bef), owe2 \subseteq owe \cup {e},
         \A t \in Thread : \/ t # e /\ bef2[t] \subseteq bef[t]
                           \/ t = e /\ ~In(e, s) /\ bef2[t] \subseteq owe
  PROVE  InFront(Append(s, e), owe2, bef2)
<1>1. \A h \in owe2 : In(h, Append(s, e))
  BY AppendIn, Zenon DEF InFront
<1>2. /\ \A i \in 1 .. Len(s) : Append(s, e)[i] = s[i]
      /\ Append(s, e)[Len(s) + 1] = e
      /\ \A i \in 1 .. Len(Append(s, e)) : i \in 1 .. Len(s) \/ i = Len(s) + 1
      /\ Len(s) \in Nat
  BY AppendIn
<1>3. ASSUME NEW t \in Thread, NEW i \in 1 .. Len(Append(s, e)), Append(s, e)[i] = t,
             NEW h \in bef2[t]
      PROVE  \E j \in 1 .. i - 1 : Append(s, e)[j] = h
  <2>1. CASE t # e
    <3>1. i \in 1 .. Len(s) /\ s[i] = t /\ h \in bef[t]
      BY <1>2, <1>3, <2>1, Zenon
    <3>2. PICK j \in 1 .. i - 1 : s[j] = h
      BY <3>1 DEF InFront
    <3> QED
      BY <1>2, <3>1, <3>2
  <2>2. CASE t = e
    <3>1. h \in owe /\ ~In(e, s)
      BY <2>2, Zenon
    <3>2. i \notin 1 .. Len(s)
      BY <1>2, <1>3, <2>2, <3>1, Zenon DEF In
    <3>3. PICK j \in 1 .. Len(s) : s[j] = h
      BY <3>1, Zenon DEF InFront, In
    <3>4. j \in 1 .. i - 1
      BY <1>2, <3>2, <3>3
    <3> QED
      BY <1>2, <3>3, <3>4, Zenon
  <2> QED
    BY <2>1, <2>2, Zenon
<1> QED
  BY <1>1, <1>3, Zenon DEF InFront

LEMMA InFrontTail ==
  ASSUME NEW s \in Seq(Event), s # <<>>, NEW owe, NEW bef, NEW owe2, NEW bef2,
         InFront(s, owe, bef), owe2 \subseteq owe, Head(s) \notin owe2,
         \A t \in Thread : bef2[t] \subseteq bef[t] /\ Head(s) \notin bef2[t]
  PROVE  InFront(Tail(s), owe2, bef2)
<1>1. \A h \in owe2 : In(h, Tail(s))
  BY TailIn, Zenon DEF InFront
<1>2. /\ \A i \in 1 .. Len(Tail(s)) : i + 1 \in 1 .. Len(s) /\ Tail(s)[i] = s[i + 1]
      /\ Head(s) = s[1] /\ Len(s) \in Nat /\ Len(Tail(s)) = Len(s) - 1
  BY TailIn
<1>3. ASSUME NEW t \in Thread, NEW i \in 1 .. Len(Tail(s)), Tail(s)[i] = t, NEW h \in bef2[t]
      PROVE  \E j \in 1 .. i - 1 : Tail(s)[j] = h
  <2>1. i + 1 \in 1 .. Len(s) /\ s[i + 1] = t /\ h \in bef[t] /\ h # Head(s)
    BY <1>2, <1>3, Zenon
  <2>2. PICK j \in 1 .. (i + 1) - 1 : s[j] = h
    BY <2>1 DEF InFront
  <2>3. j # 1
    BY <1>2, <2>1, <2>2, Zenon
  <2>4. j - 1 \in 1 .. i - 1 /\ j - 1 \in 1 .. Len(Tail(s)) /\ (j - 1) + 1 = j
    BY <1>2, <2>2, <2>3
  <2> QED
    BY <1>2, <2>2, <2>4, Zenon
<1> QED
  BY <1>1, <1>3, Zenon DEF InFront

\* The kinds of events are told apart, and handlers are what is owed.
LEMMA EventKinds ==
  ASSUME TypeOK
  PROVE  /\ \A h \in Handler : h \notin Submittable /\ h \in Event
         /\ \A e \in Submittable : e \in Event /\ e \notin owed
         /\ \A t \in Thread, e \in Submittable : e \notin before[t]
         /\ \A t \in Thread : t \in Submittable /\ t \notin Heap
         /\ \A a \in Heap : a \in Submittable /\ a \notin Thread
  BY EventCenterAssumption, Zenon DEF TypeOK, Event, Submittable

LEMMA PendingType ==
  ASSUME TypeOK, Counters
  PROVE  Current \in Seq(Event) /\ Pending \in Seq(Event)
<1>1. Current \in Seq(Event)
  BY HeadTailProperties, Zenon DEF TypeOK, Counters, Current
<1> QED
  BY <1>1, ConcatProperties, Zenon DEF TypeOK, Pending

\* What a dispatch does to the events that are still to run, r those of the
\* worker: e is the last of them, or it already was among them.
LEMMA EnqueueOrder ==
  ASSUME TypeOK, Counters, NEW e \in Event, Enqueue(e), NEW r \in Seq(Event)
  PROVE  \/ r \o external_events' = Append(r \o external_events, e)
         \/ r \o external_events' = r \o external_events /\ In(e, r \o external_events)
<1>1. CASE /\ external_num_events > 0 /\ external_events[Len(external_events)] = e
           /\ UNCHANGED queueVars
  <2>1. external_events \in Seq(Event) /\ external_events # <<>>
    BY <1>1, EmptySeq, SMTT(60) DEF TypeOK, Counters
  <2> QED
    BY <1>1, <2>1, LastIn, Zenon DEF queueVars
<1>2. CASE external_events' = Append(external_events, e)
  BY <1>2, ConcatAppend, SMTT(60) DEF TypeOK
<1> QED
  BY <1>1, <1>2, Zenon DEF Enqueue

LEMMA CallOrder ==
  ASSUME TypeOK, Counters, NEW e \in Event, Enqueue(e), UNCHANGED workVars
  PROVE  \/ Pending' = Append(Pending, e)
         \/ Pending' = Pending /\ In(e, Pending)
<1>1. Current' = Current /\ Current \in Seq(Event)
  BY PendingType, Zenon DEF Current, workVars
<1> QED
  BY <1>1, EnqueueOrder, Zenon DEF Pending

\* An event of a submit_to that is submitted now was not pending.
LEMMA SubmitOrder ==
  ASSUME TypeOK, Counters, Orderly, NEW e \in Submittable, submitted[e] = "none",
         Enqueue(e), UNCHANGED workVars, submitted' = [submitted EXCEPT ![e] = "queued"]
  PROVE  ~In(e, Pending) /\ Pending' = Append(Pending, e) /\ QueuedOnce(Pending', submitted')
<1>1. ~In(e, Pending)
  BY Zenon DEF Orderly, QueuedOnce
<1>2. e \in Event
  BY EventKinds, Zenon
<1>3. Pending' = Append(Pending, e)
  BY <1>1, <1>2, CallOrder, Zenon
<1>4. \A x \in Submittable : submitted'[x] = "queued" <=> submitted[x] = "queued" \/ x = e
  BY Zenon DEF TypeOK, Submittable
<1>5. Pending \in Seq(Event) /\ QueuedOnce(Pending, submitted)
  BY PendingType, Zenon DEF Orderly
<1>6. e \in Submittable => ~In(e, Pending)
  BY <1>1, Zenon
<1>7. ASSUME NEW sub2,
             \A x \in Submittable : sub2[x] = "queued" <=> submitted[x] = "queued" \/ x = e
      PROVE  QueuedOnce(Append(Pending, e), sub2)
  BY <1>2, <1>5, <1>6, <1>7, QueuedAppend, SMTT(60)
<1> QED
  BY <1>1, <1>3, <1>4, <1>7, Zenon

\* A step that leaves the pending events alone
LEMMA SameOrder ==
  ASSUME Orderly, Pending' = Pending, UNCHANGED <<owed, before>>,
         \A e \in Submittable : submitted'[e] = "queued" <=> submitted[e] = "queued"
  PROVE  QueuedOnce(Pending', submitted') /\ InFront(Pending', owed', before')
  BY DEF Orderly, QueuedOnce, InFront

\* Every action keeps the pending events in order.
LEMMA OrderlyStep ==
  ASSUME TypeOK, Counters, Orderly, [Next]_vars
  PROVE  Orderly'
<1> USE DEF queueVars, pipeVars, workVars, threadVars, stopVars, ghostVars
<1>a. Pending \in Seq(Event) /\ QueuedOnce(Pending, submitted) /\ InFront(Pending, owed, before)
      /\ Handed /\ SubmitSound
  BY PendingType, Zenon DEF Orderly
<1>1. ASSUME NEW t \in Thread, NEW h \in Handler, Dispatch(t, h)
      PROVE  Orderly'
  <2>1. h \in Event /\ h \notin Submittable /\ (\A u \in Thread : u # h)
    BY EventKinds, Zenon
  <2>2. \/ Pending' = Append(Pending, h)
        \/ Pending' = Pending /\ In(h, Pending)
    BY <1>1, <2>1, CallOrder, Zenon DEF Dispatch, CallDispatch
  <2>3. submitted' = submitted /\ before' = before /\ owed' = owed \cup {h}
    BY <1>1, Zenon DEF Dispatch
  <2>4. QueuedOnce(Pending', submitted')
    <3>1. QueuedOnce(Append(Pending, h), submitted)
      BY <1>a, <2>1, QueuedAppend, Zenon
    <3> QED
      BY <1>a, <2>2, <2>3, <3>1, Zenon
  <2>5. InFront(Pending', owed', before')
    <3>1. InFront(Append(Pending, h), owed \cup {h}, before)
      BY <1>a, <2>1, InFrontAppend, Zenon
    <3>2. In(h, Pending) => InFront(Pending, owed \cup {h}, before)
      BY <1>a, Zenon DEF InFront
    <3> QED
      BY <2>2, <2>3, <3>1, <3>2, Zenon
  <2>6. Handed' /\ SubmitSound'
    BY <1>1, <1>a, Zenon DEF Dispatch, CallDispatch, Handed, SubmitSound, TypeOK
  <2> QED
    BY <2>4, <2>5, <2>6, Zenon DEF Orderly
<1>2. ASSUME NEW t \in Thread, Submit(t)
      PROVE  Orderly'
  <2>1. t \in Submittable /\ t \in Event /\ submitted[t] = "none" /\ Enqueue(t)
    BY <1>2, <1>a, EventKinds, Zenon DEF Submit, CallDispatch, Handed
  <2>2. ~In(t, Pending) /\ Pending' = Append(Pending, t) /\ QueuedOnce(Pending', submitted')
    BY <1>2, <2>1, SubmitOrder, Zenon DEF Submit
  <2>3. InFront(Append(Pending, t), owed, before')
    <3>1. \A u \in Thread : IF u = t THEN before'[u] = owed ELSE before'[u] = before[u]
      BY <1>2, Zenon DEF Submit, TypeOK
    <3>2. \A u \in Thread : \/ u # t /\ before'[u] \subseteq before[u]
                            \/ u = t /\ ~In(t, Pending) /\ before'[u] \subseteq owed
      BY <2>2, <3>1, Zenon
    <3>3. owed \subseteq owed \cup {t}
      BY Zenon
    <3> QED
      BY <1>a, <2>1, <3>2, <3>3, InFrontAppend, ZenonT(90)
  <2>4. Handed' /\ SubmitSound'
    <3>1. tpc'[t] \in {"submit_wakeup", "wait"} /\ submitted'[t] = "queued"
      BY <1>2, Zenon DEF Submit, CallDispatch, TypeOK
    <3>2. \A u \in Thread : u # t => tpc'[u] = tpc[u] /\ before'[u] = before[u]
      BY <1>2, Zenon DEF Submit, CallDispatch, TypeOK
    <3>3. \A e \in Submittable : e # t => submitted'[e] = submitted[e]
      BY <1>2, Zenon DEF Submit, TypeOK, Submittable
    <3>4. pc' = pc /\ cur_process' = cur_process /\ touched' = touched
      BY <1>2, Zenon DEF Submit
    <3> QED
      BY <1>a, <3>1, <3>2, <3>3, <3>4, EventKinds, Zenon DEF Handed, SubmitSound
  <2> QED
    BY <1>2, <2>2, <2>3, <2>4, Zenon DEF Orderly, Submit
<1>3. ASSUME NEW t \in Thread, NEW a \in Heap, SubmitAsync(t, a)
      PROVE  Orderly'
  <2>1. a \in Submittable /\ a \in Event /\ a \notin Thread /\ submitted[a] = "none" /\ Enqueue(a)
    BY <1>3, EventKinds, Zenon DEF SubmitAsync, CallDispatch
  <2>2. ~In(a, Pending) /\ Pending' = Append(Pending, a) /\ QueuedOnce(Pending', submitted')
    BY <1>3, <2>1, SubmitOrder, Zenon DEF SubmitAsync
  <2>3. InFront(Append(Pending, a), owed, before)
    <3>1. owed \subseteq owed \cup {a} /\ \A u \in Thread : u # a /\ before[u] \subseteq before[u]
      BY <2>1, Zenon
    <3> QED
      BY <1>a, <2>1, <3>1, InFrontAppend, ZenonT(90)
  <2>4. Handed' /\ SubmitSound'
    <3>1. \A u \in Thread : tpc'[u] \in {"idle", "dispatch_wakeup"} => tpc[u] \in {"idle", "dispatch_wakeup"}
      BY <1>3, Zenon DEF SubmitAsync, CallDispatch, TypeOK
    <3>2. \A e \in Submittable : e # a => submitted'[e] = submitted[e]
      BY <1>3, Zenon DEF SubmitAsync, TypeOK, Submittable
    <3>3. UNCHANGED <<pc, cur_process, touched, before>>
      BY <1>3, Zenon DEF SubmitAsync
    <3> QED
      BY <1>a, <2>1, <3>1, <3>2, <3>3, EventKinds, Zenon DEF Handed, SubmitSound
  <2> QED
    BY <1>3, <2>2, <2>3, <2>4, Zenon DEF Orderly, SubmitAsync
<1>4. ASSUME NEW t \in Thread, Wakeup(t)
      PROVE  Orderly'
  <2>1. Pending' = Pending
    BY <1>4, Zenon DEF Pending, Current, Wakeup
  <2>2. QueuedOnce(Pending', submitted') /\ InFront(Pending', owed', before')
    BY <1>4, <2>1, SameOrder, Zenon DEF Wakeup
  <2>3. Handed' /\ SubmitSound'
    BY <1>4, <1>a, Zenon DEF Wakeup, Handed, SubmitSound, TypeOK
  <2> QED
    BY <2>2, <2>3, Zenon DEF Orderly
<1>5. ASSUME NEW t \in Thread, WaitReturns(t)
      PROVE  Orderly'
  <2>1. Pending' = Pending
    BY <1>5, Zenon DEF Pending, Current, WaitReturns
  <2>2. \A e \in Submittable : IF e = t THEN submitted[e] = "done" /\ submitted'[e] = "none"
                                        ELSE submitted'[e] = submitted[e]
    BY <1>5, Zenon DEF WaitReturns, TypeOK, Submittable
  <2>3. QueuedOnce(Pending', submitted') /\ InFront(Pending', owed', before')
    BY <1>5, <2>1, <2>2, SameOrder, Zenon DEF WaitReturns
  <2>4. Handed' /\ SubmitSound'
    BY <1>5, <1>a, <2>2, EventKinds, ZenonT(90) DEF WaitReturns, Handed, SubmitSound, TypeOK
  <2> QED
    BY <2>3, <2>4 DEF Orderly
<1>6. ASSUME UNCHANGED <<queueVars, threadVars, ghostVars>>, UNCHANGED cur_process,
             pc' # "finish", pc # "finish"
      PROVE  Orderly'
  <2>1. Pending' = Pending
    BY <1>6, Zenon DEF Pending, Current
  <2>2. QueuedOnce(Pending', submitted') /\ InFront(Pending', owed', before')
    BY <1>6, <2>1, SameOrder, Zenon
  <2> QED
    BY <1>6, <1>a, <2>2, Zenon DEF Orderly, Handed, SubmitSound
<1>7. ASSUME UNCHANGED <<queueVars, threadVars, ghostVars, workVars>>
      PROVE  Orderly'
  <2>1. Pending' = Pending
    BY <1>7, Zenon DEF Pending, Current
  <2>2. QueuedOnce(Pending', submitted') /\ InFront(Pending', owed', before')
    BY <1>7, <2>1, SameOrder, Zenon
  <2> QED
    BY <1>7, <1>a, <2>2, Zenon DEF Orderly, Handed, SubmitSound
<1>8. CASE Top \/ EventWait \/ Timeout \/ HandleNotify
  BY <1>6, <1>8, Zenon DEF Top, EventWait, Timeout, HandleNotify
<1>9. CASE Stop \/ UNCHANGED vars
  BY <1>7, <1>9, Zenon DEF Stop, vars
<1>10. CASE TakeExternal
  <2>1. CASE external_num_events = 0
    BY <1>6, <1>10, <2>1, Zenon DEF TakeExternal
  <2>2. CASE external_num_events # 0
    <3>1. cur_process = <<>> /\ pc = "external"
      BY <1>10, Zenon DEF TakeExternal, Counters
    <3>2. cur_process' = external_events /\ external_events' = <<>> /\ pc' = "run"
      BY <1>10, <2>2, Zenon DEF TakeExternal
    <3>3. Pending' = Pending
      BY <3>1, <3>2, ConcatEmptySeq, Zenon DEF Pending, Current, TypeOK
    <3>4. QueuedOnce(Pending', submitted') /\ InFront(Pending', owed', before')
      BY <1>10, <3>3, SameOrder, Zenon DEF TakeExternal
    <3> QED
      BY <1>10, <1>a, <3>2, <3>4, Zenon DEF Orderly, Handed, SubmitSound, TakeExternal
  <2> QED
    BY <2>1, <2>2, Zenon
<1>11. CASE Run
  <2> DEFINE e == Head(cur_process)
  <2>1. /\ cur_process \in Seq(Event) /\ cur_process # <<>> /\ external_events \in Seq(Event)
        /\ pc = "run" /\ pc' = "finish" /\ cur_process' = cur_process /\ tpc' = tpc
    BY <1>11, Zenon DEF Run, Counters, TypeOK
  <2>2. Current = cur_process /\ Current' = Tail(cur_process)
    BY <2>1, Zenon DEF Current
  <2>3. /\ Pending # <<>> /\ Head(Pending) = e /\ Tail(cur_process) \o external_events = Tail(Pending)
        /\ Tail(Pending) \in Seq(Event) /\ Tail(cur_process) \in Seq(Event)
    BY <1>a, <2>1, <2>2, ConcatTail, HeadTailProperties, Zenon DEF Pending
  <2>4. Pending' = Tail(cur_process) \o external_events'
    BY <2>2, Zenon DEF Pending
  <2>5. CASE RunHandler(e)
    <3>1. /\ e \in Handler /\ submitted' = submitted /\ touched' = touched
          /\ \A t \in Thread : before'[t] \subseteq before[t] /\ e \notin before'[t]
      BY <2>5, Zenon DEF RunHandler
    <3>2. e \notin Submittable /\ e \notin Heap /\ \A x \in Submittable : x # e
      BY <3>1, EventKinds, Zenon
    <3>3. QueuedOnce(Tail(Pending), submitted)
      BY <1>a, <2>3, <3>2, QueuedTail, Zenon
    <3>4. InFront(Tail(Pending), owed \ {e}, before')
      <4>1. owed \ {e} \subseteq owed /\ e \notin owed \ {e}
        BY Zenon
      <4> HIDE DEF e
      <4> QED
        BY <1>a, <2>3, <3>1, <4>1, InFrontTail, Zenon
    <3>5. Handed' /\ SubmitSound'
      BY <1>a, <2>1, <3>1, <3>2, Zenon DEF Handed, SubmitSound
    <3>6. CASE external_events' = external_events /\ owed' = owed \ {e}
      BY <2>3, <2>4, <3>1, <3>3, <3>4, <3>5, <3>6, Zenon DEF Orderly
    <3>7. ASSUME NEW g \in Handler, Enqueue(g), owed' = (owed \ {e}) \cup {g}
          PROVE  Orderly'
      <4>1. g \in Event /\ g \notin Submittable /\ \A t \in Thread : t # g
        BY EventKinds, Zenon
      <4>2. \/ Pending' = Append(Tail(Pending), g)
            \/ Pending' = Tail(Pending) /\ In(g, Tail(Pending))
        BY <2>3, <2>4, <3>7, <4>1, EnqueueOrder, Zenon
      <4>3. QueuedOnce(Append(Tail(Pending), g), submitted)
        <5>1. Tail(Pending) \in Seq(Event)
              /\ \A x \in Submittable : submitted[x] = "queued" <=> submitted[x] = "queued" \/ x = g
          BY <2>3, <4>1, Zenon
        <5> QED
          BY <3>3, <4>1, <5>1, QueuedAppend, Zenon
      <4>4. InFront(Append(Tail(Pending), g), owed', before')
        <5>1. owed' \subseteq (owed \ {e}) \cup {g} /\ \A t \in Thread : before'[t] \subseteq before'[t]
          BY <3>7, Zenon
        <5> HIDE DEF e
        <5> QED
          BY <2>3, <3>4, <4>1, <5>1, InFrontAppend, ZenonT(90)
      <4>5. In(g, Tail(Pending)) => InFront(Tail(Pending), owed', before')
        BY <3>4, <3>7, Zenon DEF InFront
      <4> QED
        BY <3>1, <3>3, <3>5, <4>2, <4>3, <4>4, <4>5, Zenon DEF Orderly
    <3> QED
      BY <2>5, <3>6, <3>7, Zenon DEF RunHandler
  <2>6. CASE RunSubmitted(e)
    <3>1. /\ e \in Submittable /\ external_events' = external_events
          /\ owed' = owed /\ before' = before
          /\ touched' = (touched \/ submitted[e] = "none")
          /\ submitted' = [submitted EXCEPT ![e] = "done"]
      BY <2>6, Zenon DEF RunSubmitted, Submittable
    <3>2. Pending' = Tail(Pending)
      BY <2>3, <2>4, <3>1, Zenon
    <3>3. 1 \in 1 .. Len(Pending) /\ Pending[1] = e /\ In(e, Pending) /\ submitted[e] = "queued"
      BY <1>a, <2>3, <3>1, TailIn, Zenon DEF QueuedOnce
    <3>4. \A x \in Submittable : submitted'[x] = IF x = e THEN "done" ELSE submitted[x]
      BY <3>1, Zenon DEF TypeOK, Submittable
    <3>5. QueuedOnce(Tail(Pending), submitted')
      <4>1. \A x \in Submittable : submitted'[x] = "queued" <=> submitted[x] = "queued" /\ x # Head(Pending)
        BY <2>3, <3>4, Zenon
      <4> QED
        BY <1>a, <2>3, <4>1, QueuedTail, ZenonT(90)
    <3>6. InFront(Tail(Pending), owed, before)
      <4>1. owed \subseteq owed /\ Head(Pending) \notin owed
            /\ \A t \in Thread : before[t] \subseteq before[t] /\ Head(Pending) \notin before[t]
        BY <2>3, <3>1, EventKinds, Zenon
      <4> QED
        BY <1>a, <2>3, <4>1, InFrontTail, Zenon
    <3>7. e \in Thread => before[e] = {}
      BY <1>a, <3>3 DEF InFront
    <3>8. Handed' /\ SubmitSound'
      BY <1>a, <2>1, <3>1, <3>3, <3>4, <3>7, EventKinds, Zenon DEF Handed, SubmitSound
    <3> QED
      BY <3>1, <3>2, <3>5, <3>6, <3>8, Zenon DEF Orderly
  <2> QED
    BY <1>11, <2>5, <2>6, Zenon DEF Run
<1>12. CASE Finish
  <2> DEFINE e == Head(cur_process)
  <2>1. /\ pc = "finish" /\ pc' \in {"top", "run"} /\ cur_process' = Tail(cur_process)
        /\ UNCHANGED <<external_events, tpc, owed, before>> /\ Delete(e)
    BY <1>12, Zenon DEF Finish
  <2>2. Pending' = Pending
    BY <2>1, Zenon DEF Pending, Current
  <2>3. e \in Heap => submitted[e] = "done"
    BY <1>a, <2>1, Zenon DEF Handed
  <2>4. touched' = touched
    BY <2>1, <2>3, Zenon DEF Delete, TypeOK
  <2>5. \A x \in Submittable : \/ submitted'[x] = submitted[x]
                               \/ x = e /\ e \in Heap /\ submitted'[x] = "none"
    BY <2>1, Zenon DEF Delete, TypeOK, Submittable
  <2>6. QueuedOnce(Pending', submitted') /\ InFront(Pending', owed', before')
    BY <2>1, <2>2, <2>3, <2>5, SameOrder, Zenon
  <2>7. Handed' /\ SubmitSound'
    BY <1>a, <2>1, <2>4, <2>5, EventKinds, Zenon DEF Handed, SubmitSound
  <2> QED
    BY <2>6, <2>7, Zenon DEF Orderly
<1> QED
  BY <1>1, <1>2, <1>3, <1>4, <1>5, <1>8, <1>9, <1>10, <1>11, <1>12, Zenon
     DEF Next, Worker, Call, Ended

----------------------------------------------------------------------------

\* IInv is an invariant of the event loop: the counter is the length of the
\* queue, the pipe is in step with epoll, and the events that are still to run
\* are in the order in which they were dispatched.
THEOREM EventInvariant == Spec => []IInv
<1>1. Init => IInv
  <2> SUFFICES ASSUME Init PROVE IInv
    BY Zenon
  <2>1. TypeOK
    <3>1. <<>> \in Seq(Event) /\ 0 \in 0 .. MaxCalls /\ 0 \in 0 .. MaxNested /\ 0 \in 0 .. PipeSize
      BY EventCenterAssumption, EmptySeq
    <3> QED
      BY <3>1, Zenon DEF Init, TypeOK
  <2>2. Counters
    BY EmptySeq, Zenon DEF Init, Counters
  <2>3. Awake
    BY DEF Init, Awake, PipeSound, NoLostWakeup
  <2>4. Pending = <<>> /\ Len(Pending) = 0
    BY EmptySeq, ConcatEmptySeq, Zenon DEF Init, Pending, Current
  <2>5. Orderly
    BY <2>4 DEF Init, Orderly, QueuedOnce, InFront, In, Handed, SubmitSound, Submittable
  <2> QED
    BY <2>1, <2>2, <2>3, <2>5, Zenon DEF IInv
<1>2. IInv /\ [Next]_vars => IInv'
  BY TypeStep, AwakeStep, OrderlyStep, Zenon DEF IInv
<1> QED
  BY <1>1, <1>2, PTL DEF Spec

\* The worker never sleeps over an external event or over the request to stop:
\* epoll is about to report the pipe, or a thread has yet to write to it.
THEOREM WakeupNotLost == Spec => []NoLostWakeup
<1>1. IInv => NoLostWakeup
  BY Zenon DEF IInv, Awake
<1> QED
  BY <1>1, EventInvariant, PTL

\* No C_submit_event is used after it is gone, and every handler dispatched
\* before a submit_to has run when submit_to returns.
THEOREM SubmitIsSound == Spec => []SubmitSound
<1>1. IInv => SubmitSound
  BY Zenon DEF IInv, Orderly
<1> QED
  BY <1>1, EventInvariant, PTL
=============================================================================
