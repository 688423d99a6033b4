-------------------------- MODULE FileEventsProofs --------------------------
(***************************************************************************)
(* The table of file events and the epoll set stay in step, process_events *)
(* calls live callbacks only, and no edge is lost, for any descriptors and *)
(* callbacks.                                                              *)
(*                                                                         *)
(* The argument: whatever a callback does to a descriptor, the descriptor  *)
(* is as it was, or polled anew under its new mask (Rewatched); an event   *)
(* that fired is dropped only after the callback of its direction ran, or  *)
(* when the read callback that ran serves both directions (AfterRead).     *)
(***************************************************************************)
EXTENDS FileEvents, SequenceTheorems, FiniteSetTheorems, TLAPS

Edge == [interest : Mask, edge : Mask]
Fired == [fd : Fd, mask : Mask]

Types ==
  /\ file_events \in [Fd -> Entry]
  /\ epoll \in [Fd -> Edge]
  /\ level \in [Fd -> Mask]
  /\ open \subseteq Fd /\ IsFiniteSet(open)
  /\ deleted \subseteq Callback
  /\ fired \in Seq(Fired)
  /\ pc \in {"wait", "read", "write", "external"}
  /\ rfired \in BOOLEAN

\* An entry, what epoll watches for it, and the deleted callbacks agree.
EntrySound(e, w, del) ==
  /\ w.interest = e.mask
  /\ R \in e.mask <=> e.read_cb # NULL
  /\ W \in e.mask <=> e.write_cb # NULL
  /\ e.read_cb \notin del /\ e.write_cb \notin del

TableSound == \A fd \in Fd : EntrySound(file_events[fd], epoll[fd], deleted)

\* Nothing is registered, ready or reported of a closed descriptor.
Closed == \A fd \in Fd \ open : file_events[fd].mask = {} /\ level[fd] = {} /\ epoll[fd].edge = {}

\* The loop over fired_events, and the pointer it keeps over the read callback
Loop ==
  /\ fired = <<>> <=> pc \in {"wait", "external"}
  /\ pc = "write" => event_valid
  /\ bad = {}

\* A read callback that ran, and serves writing too, has left nothing behind
\* but what is a new edge.
AfterRead ==
  pc = "write" /\ rfired =>
    LET fd == Head(fired).fd
    IN  W \in level[fd] \cap file_events[fd].mask /\ file_events[fd].read_cb = file_events[fd].write_cb =>
          epoll[fd].edge # {}

IInv == Types /\ TableSound /\ Closed /\ Loop /\ AfterRead /\ EdgesKept

-----------------------------------------------------------------------------
(* What the operations return *)

LEMMA CallbackFacts ==
  /\ NULL \notin Callback
  /\ \A S \in SUBSET Callback : NULL \notin S
  BY FileEventsAssumption, Zenon

\* A descriptor polled anew is watched for the mask, and what it is ready for is an edge.
LEMMA WatchFacts ==
  ASSUME Types, NEW fd \in Fd, NEW i \in Mask
  PROVE  /\ Watch(fd, i) \in Edge /\ Watch(fd, i).interest = i
         /\ \A d \in level[fd] \cap i : Watch(fd, i).edge # {}
  <1>1. Ready(fd, i) \in Mask /\ \A d \in level[fd] \cap i : d \in Ready(fd, i)
    <2>1. level[fd] \in Mask
      BY Zenon DEF Types
    <2> QED
      BY <2>1, Zenon DEF Ready, Mask
  <1> QED
    BY <1>1, Zenon DEF Watch, Edge

\* A descriptor is as it was, or polled anew under its new mask.
Rewatched(fd) ==
  \/ file_events'[fd] = file_events[fd] /\ epoll'[fd] = epoll[fd]
  \/ epoll'[fd] = Watch(fd, file_events'[fd].mask)

\* A new entry for one descriptor, sound with respect to the deleted callbacks
LEMMA SetSound ==
  ASSUME Types, TableSound, NEW fd \in Fd, NEW e \in Entry, NEW w \in Edge, Set(fd, e, w),
         deleted' \subseteq Callback, EntrySound(e, w, deleted'),
         \A f \in Fd \ {fd} : file_events[f].read_cb \notin deleted' /\ file_events[f].write_cb \notin deleted',
         w = Watch(fd, e.mask) \/ (e = file_events[fd] /\ w = epoll[fd])
  PROVE  /\ file_events' \in [Fd -> Entry] /\ epoll' \in [Fd -> Edge] /\ TableSound'
         /\ \A f \in Fd : Rewatched(f)
         /\ \A f \in Fd \ {fd} : file_events'[f] = file_events[f] /\ epoll'[f] = epoll[f]
         /\ file_events'[fd] = e /\ epoll'[fd] = w
  <1>1. file_events' = [file_events EXCEPT ![fd] = e] /\ epoll' = [epoll EXCEPT ![fd] = w]
    BY Zenon DEF Set
  <1>2. file_events' \in [Fd -> Entry] /\ epoll' \in [Fd -> Edge]
    BY <1>1, Zenon DEF Types
  <1>3. /\ file_events'[fd] = e /\ epoll'[fd] = w
        /\ \A f \in Fd \ {fd} : file_events'[f] = file_events[f] /\ epoll'[f] = epoll[f]
    BY <1>1, Zenon DEF Types
  <1>4. TableSound'
    <2> SUFFICES ASSUME NEW f \in Fd PROVE EntrySound(file_events'[f], epoll'[f], deleted')
      BY Zenon DEF TableSound
    <2>1. CASE f = fd
      BY <1>3, <2>1, Zenon
    <2>2. CASE f # fd
      BY <1>3, <2>2, ZenonT(90) DEF TableSound, EntrySound
    <2> QED
      BY <2>1, <2>2, Zenon
  <1>5. \A f \in Fd : Rewatched(f)
    BY <1>3, Zenon DEF Rewatched
  <1> QED
    BY <1>2, <1>3, <1>4, <1>5, Zenon

\* create_file_event: the entry it leaves
LEMMA CreatedSound ==
  ASSUME Types, TableSound, NEW fd \in Fd, NEW mask \in Mask \ {{}}, NEW cb \in Usable
  PROVE  /\ Created(fd, mask, cb) \in Entry
         /\ CreatedEpoll(fd, mask) \in Edge
         /\ EntrySound(Created(fd, mask, cb), CreatedEpoll(fd, mask), deleted)
         /\ \/ CreatedEpoll(fd, mask) = Watch(fd, Created(fd, mask, cb).mask)
            \/ Created(fd, mask, cb) = file_events[fd] /\ CreatedEpoll(fd, mask) = epoll[fd]
  <1> DEFINE e == file_events[fd]
  <1>1. e \in Entry /\ epoll[fd] \in Edge /\ EntrySound(e, epoll[fd], deleted)
    BY Zenon DEF Types, TableSound
  <1>2. cb \in Callback /\ cb \notin deleted /\ cb # NULL
    BY CallbackFacts, Zenon DEF Usable
  <1>3. CASE e.mask = mask
    BY <1>1, <1>3, Zenon DEF Created, CreatedEpoll
  <1>4. CASE e.mask # mask
    <2> DEFINE n == [mask |-> e.mask \cup mask,
                     read_cb |-> IF R \in mask THEN cb ELSE e.read_cb,
                     write_cb |-> IF W \in mask THEN cb ELSE e.write_cb]
    <2>1. Created(fd, mask, cb) = n /\ CreatedEpoll(fd, mask) = Watch(fd, e.mask \cup mask)
      BY <1>4, Zenon DEF Created, CreatedEpoll, add_event
    <2>2. e.mask \cup mask \in Mask
      BY <1>1, Zenon DEF Entry, Mask
    <2>3. n \in Entry
      BY <1>1, <1>2, <2>2, Zenon DEF Entry
    <2>4. Watch(fd, e.mask \cup mask) \in Edge /\ Watch(fd, e.mask \cup mask).interest = e.mask \cup mask
      BY <2>2, WatchFacts, Zenon
    <2>5. EntrySound(n, Watch(fd, e.mask \cup mask), deleted)
      BY <1>1, <1>2, <2>4, Zenon DEF EntrySound
    <2> QED
      BY <2>1, <2>3, <2>4, <2>5, SMTT(60)
  <1> QED
    BY <1>3, <1>4, Zenon

\* delete_file_event: the entry it leaves
LEMMA DeletedSound ==
  ASSUME Types, TableSound, NEW fd \in Fd, NEW mask \in Mask
  PROVE  /\ Deleted(fd, mask) \in Entry
         /\ DeletedEpoll(fd, mask) \in Edge
         /\ EntrySound(Deleted(fd, mask), DeletedEpoll(fd, mask), deleted)
         /\ \/ DeletedEpoll(fd, mask) = Watch(fd, Deleted(fd, mask).mask)
            \/ Deleted(fd, mask) = file_events[fd] /\ DeletedEpoll(fd, mask) = epoll[fd]
  <1> DEFINE e == file_events[fd]
             n == [mask |-> e.mask \ mask,
                   read_cb |-> IF R \in mask THEN NULL ELSE e.read_cb,
                   write_cb |-> IF W \in mask THEN NULL ELSE e.write_cb]
  <1>1. e \in Entry /\ epoll[fd] \in Edge /\ EntrySound(e, epoll[fd], deleted) /\ NULL \notin deleted
    BY CallbackFacts, Zenon DEF Types, TableSound
  <1>2. Deleted(fd, mask) = n /\ e.mask \ mask \in Mask /\ n \in Entry
    BY <1>1, Zenon DEF Deleted, Entry, Mask
  <1>3. CASE e.mask = {}
    <2>1. n.mask = e.mask /\ n.read_cb = e.read_cb /\ n.write_cb = e.write_cb
      BY <1>1, <1>3, Zenon DEF EntrySound
    <2>2. n = e
      BY <1>1, <1>2, <2>1, Zenon DEF Entry
    <2> QED
      BY <1>1, <1>2, <1>3, <2>2 DEF DeletedEpoll
  <1>4. CASE e.mask # {}
    <2>1. DeletedEpoll(fd, mask) = Watch(fd, e.mask \ mask)
      BY <1>4, Zenon DEF DeletedEpoll, del_event
    <2>2. Watch(fd, e.mask \ mask) \in Edge /\ Watch(fd, e.mask \ mask).interest = e.mask \ mask
      BY <1>2, WatchFacts, Zenon
    <2>3. EntrySound(n, Watch(fd, e.mask \ mask), deleted)
      BY <1>1, <2>2, Zenon DEF EntrySound
    <2> QED
      BY <1>2, <2>1, <2>2, <2>3, SMTT(60)
  <1> QED
    BY <1>3, <1>4, Zenon

-----------------------------------------------------------------------------
(* What a callback does to the table *)

\* The table after a call: sound, and every descriptor as it was or polled anew
Updated ==
  /\ file_events' \in [Fd -> Entry] /\ epoll' \in [Fd -> Edge] /\ deleted' \subseteq Callback
  /\ TableSound'
  /\ \A fd \in Fd : Rewatched(fd)

\* Callbacks that no entry names may be deleted.
LEMMA DeadSound ==
  ASSUME Types, TableSound, NEW fd \in Fd, NEW e \in Entry, NEW w \in Edge,
         Set(fd, e, w), EntrySound(e, w, deleted),
         NEW dead \in SUBSET {file_events[fd].read_cb, file_events[fd].write_cb},
         \A cb \in dead : cb # NULL /\ ~NamedBy(file_events', cb),
         deleted' = deleted \cup dead
  PROVE  /\ deleted' \subseteq Callback /\ EntrySound(e, w, deleted')
         /\ \A f \in Fd \ {fd} : file_events[f].read_cb \notin deleted' /\ file_events[f].write_cb \notin deleted'
  <1>1. deleted' \subseteq Callback
    BY ZenonT(90) DEF Types, Entry
  <1>2. file_events' = [file_events EXCEPT ![fd] = e]
    BY Zenon DEF Set
  <1>3. \A f \in Fd : file_events'[f].read_cb \notin dead /\ file_events'[f].write_cb \notin dead
    BY Zenon DEF NamedBy
  <1>4. file_events'[fd] = e /\ \A f \in Fd \ {fd} : file_events'[f] = file_events[f]
    BY <1>2, Zenon DEF Types
  <1>5. EntrySound(e, w, deleted')
    BY <1>3, <1>4, Zenon DEF EntrySound
  <1>6. \A f \in Fd \ {fd} : file_events[f].read_cb \notin deleted' /\ file_events[f].write_cb \notin deleted'
    BY <1>3, <1>4, Zenon DEF TableSound, EntrySound
  <1> QED
    BY <1>1, <1>5, <1>6, Zenon

LEMMA BodySound ==
  ASSUME Types, TableSound, CallbackBody
  PROVE  /\ Updated /\ open' = open /\ nevent' = nevent
         /\ \A fd \in Fd \ open : file_events'[fd] = file_events[fd] /\ epoll'[fd] = epoll[fd]
  <1>1. CASE UNCHANGED tableVars
    BY <1>1, Zenon DEF tableVars, Types, TableSound, Updated, Rewatched
  <1>2. ASSUME NEW fd \in open, NEW mask \in Mask \ {{}}, Unregister(fd, mask)
        PROVE  /\ Updated /\ open' = open /\ nevent' = nevent
               /\ \A f \in Fd \ open : file_events'[f] = file_events[f] /\ epoll'[f] = epoll[f]
    <2> DEFINE e == Deleted(fd, mask)
               w == DeletedEpoll(fd, mask)
    <2>1. fd \in Fd /\ Set(fd, e, w) /\ open' = open /\ nevent' = nevent
      BY <1>2, Zenon DEF Unregister, Types
    <2>2. /\ e \in Entry /\ w \in Edge /\ EntrySound(e, w, deleted)
          /\ w = Watch(fd, e.mask) \/ (e = file_events[fd] /\ w = epoll[fd])
      BY <2>1, DeletedSound, Zenon
    <2> HIDE DEF e, w
    <2>3. PICK dead \in SUBSET {file_events[fd].read_cb, file_events[fd].write_cb} :
            /\ \A cb \in dead : cb # NULL /\ ~NamedBy(file_events', cb)
            /\ deleted' = deleted \cup dead
      BY <1>2, Zenon DEF Unregister
    <2>4. /\ deleted' \subseteq Callback /\ EntrySound(e, w, deleted')
          /\ \A f \in Fd \ {fd} : file_events[f].read_cb \notin deleted' /\ file_events[f].write_cb \notin deleted'
      BY <2>1, <2>2, <2>3, DeadSound, SMTT(60)
    <2> QED
      BY <2>1, <2>2, <2>4, SetSound, ZenonT(90) DEF Updated
  <1>3. ASSUME NEW fd \in open, NEW mask \in Mask \ {{}}, NEW cb \in Usable, Change(fd, mask, cb)
        PROVE  /\ Updated /\ open' = open /\ nevent' = nevent
               /\ \A f \in Fd \ open : file_events'[f] = file_events[f] /\ epoll'[f] = epoll[f]
    <2> DEFINE e == Created(fd, mask, cb)
               w == CreatedEpoll(fd, mask)
    <2>1. fd \in Fd /\ Set(fd, e, w) /\ open' = open /\ nevent' = nevent /\ deleted' = deleted
      BY <1>3, Zenon DEF Change, Types
    <2>2. /\ e \in Entry /\ w \in Edge /\ EntrySound(e, w, deleted)
          /\ w = Watch(fd, e.mask) \/ (e = file_events[fd] /\ w = epoll[fd])
      BY <2>1, CreatedSound, Zenon
    <2> HIDE DEF e, w
    <2>3. /\ deleted' \subseteq Callback
          /\ \A f \in Fd \ {fd} : file_events[f].read_cb \notin deleted' /\ file_events[f].write_cb \notin deleted'
      BY <2>1, Zenon DEF Types, TableSound, EntrySound
    <2> QED
      BY <2>1, <2>2, <2>3, SetSound DEF Updated
  <1>4. ASSUME NEW fd \in open, NEW cb \in Usable, Replace(fd, cb)
        PROVE  /\ Updated /\ open' = open /\ nevent' = nevent
               /\ \A f \in Fd \ open : file_events'[f] = file_events[f] /\ epoll'[f] = epoll[f]
    <2> DEFINE e == [mask |-> {R}, read_cb |-> cb, write_cb |-> NULL]
               w == Watch(fd, {R})
    <2>1. fd \in Fd /\ Set(fd, e, w) /\ open' = open /\ nevent' = nevent /\ deleted' = deleted
      BY <1>4, Zenon DEF Replace, Types
    <2>2. cb \in Callback /\ cb \notin deleted /\ cb # NULL /\ NULL \notin deleted /\ {R} \in Mask
      BY CallbackFacts, Zenon DEF Usable, Types, Mask
    <2>3. w \in Edge /\ w.interest = {R}
      BY <2>1, <2>2, WatchFacts, Zenon
    <2>4. e \in Entry /\ EntrySound(e, w, deleted) /\ e.mask = {R}
      BY <2>2, <2>3, Zenon DEF Entry, EntrySound, R, W
    <2> HIDE DEF e
    <2>5. /\ deleted' \subseteq Callback
          /\ \A f \in Fd \ {fd} : file_events[f].read_cb \notin deleted' /\ file_events[f].write_cb \notin deleted'
      BY <2>1, Zenon DEF Types, TableSound, EntrySound
    <2> QED
      BY <2>1, <2>3, <2>4, <2>5, SetSound, ZenonT(30) DEF Updated
  <1> QED
    BY <1>1, <1>2, <1>3, <1>4, Zenon DEF CallbackBody

\* Readiness that is left after a call is an edge, or was not one before.
LEMMA EdgesAfter ==
  ASSUME Types, Updated, NEW fd \in Fd, NEW d \in level[fd] \cap file_events'[fd].mask,
         epoll'[fd].edge = {}
  PROVE  file_events'[fd] = file_events[fd] /\ epoll'[fd] = epoll[fd]
  <1>1. file_events'[fd].mask \in Mask
    BY Zenon DEF Updated, Entry
  <1>2. epoll'[fd] # Watch(fd, file_events'[fd].mask)
    BY <1>1, WatchFacts, Zenon
  <1> QED
    BY <1>2, Zenon DEF Updated, Rewatched

-----------------------------------------------------------------------------
(* The steps of process_events *)

\* fired_events that are not empty
LEMMA FiredFacts ==
  ASSUME NEW q \in Seq(Fired), q # <<>>
  PROVE  /\ Head(q) \in Fired /\ Head(q).fd \in Fd /\ Head(q) = q[1]
         /\ Len(q) \in Nat /\ Len(q) >= 1
         /\ Tail(q) \in Seq(Fired) /\ Len(Tail(q)) = Len(q) - 1
         /\ \A i \in 1 .. Len(Tail(q)) : Tail(q)[i] = q[i + 1]
         /\ Tail(q) = <<>> <=> Len(q) = 1
  <1>1. Len(q) \in Nat \ {0}
    BY EmptySeq, Zenon
  <1>2. /\ Head(q) \in Fired /\ Tail(q) \in Seq(Fired) /\ Len(Tail(q)) = Len(q) - 1
        /\ \A i \in 1 .. Len(Tail(q)) : Tail(q)[i] = q[i + 1]
    BY HeadTailProperties, Zenon
  <1>3. Head(q).fd \in Fd
    BY <1>2, Zenon DEF Fired
  <1>4. Head(q) = q[1]
    OBVIOUS
  <1>5. Tail(q) = <<>> <=> Len(Tail(q)) = 0
    BY <1>2, EmptySeq, Zenon
  <1>6. Tail(q) = <<>> <=> Len(q) = 1
    BY <1>1, <1>2, <1>5
  <1> QED
    BY <1>1, <1>2, <1>3, <1>4, <1>6, SMTT(60)

LEMMA ReadStep ==
  ASSUME IInv, Read
  PROVE  IInv'
  <1> DEFINE h == Head(fired)
             fd == h.fd
  <1>1. /\ pc = "read" /\ pc' = "write" /\ rfired' = ReadFires /\ fired' = fired
        /\ event_valid' = (nevent' = nevent) /\ fired # <<>>
    BY Zenon DEF Read, IInv, Loop
  <1>2. h \in Fired /\ fd \in Fd /\ h = fired[1] /\ fired \in Seq(Fired) /\ Len(fired) >= 1
    BY <1>1, FiredFacts, Zenon DEF IInv, Types
  <1>3. CASE ReadFires
    <2> DEFINE cb == file_events[fd].read_cb
    <2>1. /\ bad' = bad \cup CallFaults(cb) /\ CallbackBody
          /\ level' = [level EXCEPT ![fd] = {d \in @ :
               cb # (IF d = R THEN file_events[fd].read_cb ELSE file_events[fd].write_cb)}]
      BY <1>3, Zenon DEF Read, Served
    <2>2. /\ Updated /\ open' = open /\ nevent' = nevent
          /\ \A f \in Fd \ open : file_events'[f] = file_events[f] /\ epoll'[f] = epoll[f]
      BY <2>1, BodySound, Zenon DEF IInv
    <2>3. cb # NULL /\ cb \notin deleted
      BY <1>2, <1>3, Zenon DEF IInv, TableSound, EntrySound, ReadFires
    <2>4. /\ level' \in [Fd -> Mask] /\ \A f \in Fd : level'[f] \subseteq level[f]
          /\ R \notin level'[fd]
          /\ W \in level'[fd] => file_events[fd].read_cb # file_events[fd].write_cb
      BY <1>2, <2>1, ZenonT(90) DEF IInv, Types, Mask, R, W
    <2>5. Types'
      BY <1>1, <2>2, <2>4, SMTT(60) DEF IInv, Types, Updated, ReadFires
    <2>6. Closed'
      BY <2>2, <2>4 DEF IInv, Closed
    <2>7. Loop'
      <3>1. bad' = {}
        BY <2>1, <2>3, Zenon DEF IInv, Loop, CallFaults
      <3> QED
        BY <1>1, <2>2, <3>1, Zenon DEF Loop
    <2>8. AfterRead'
      <3> SUFFICES ASSUME W \in level'[fd] \cap file_events'[fd].mask,
                          file_events'[fd].read_cb = file_events'[fd].write_cb,
                          epoll'[fd].edge = {}
                   PROVE  FALSE
        BY <1>1, Zenon DEF AfterRead
      <3>1. file_events'[fd] = file_events[fd]
        BY <1>2, <2>2, <2>4, EdgesAfter, Zenon DEF IInv
      <3> QED
        BY <2>4, <3>1, Zenon
    <2>9. EdgesKept'
      <3> SUFFICES ASSUME NEW f \in Fd, NEW d \in level'[f] \cap file_events'[f].mask,
                          epoll'[f].edge = {}
                   PROVE  \E i \in 1 .. Len(fired) :
                            /\ fired[i].fd = f /\ d \in fired[i].mask
                            /\ i > 1 \/ d = W
        BY <1>1, ZenonT(90) DEF EdgesKept
      <3>1. d \in level[f] /\ d \in {R, W}
        BY <2>4, Zenon DEF IInv, Types, Mask
      <3>2. file_events'[f] = file_events[f] /\ epoll'[f] = epoll[f]
        BY <2>2, <3>1, EdgesAfter, Zenon DEF IInv
      <3>3. PICK i \in 1 .. Len(fired) : fired[i].fd = f /\ d \in fired[i].mask
        BY <3>1, <3>2 DEF IInv, EdgesKept
      <3>4. CASE i = 1
        BY <1>2, <2>4, <3>1, <3>3, <3>4, Zenon
      <3>5. CASE i # 1
        BY <3>3, <3>5
      <3> QED
        BY <3>4, <3>5, Zenon
    <2> QED
      BY <2>2, <2>5, <2>6, <2>7, <2>8, <2>9, SMTT(60) DEF IInv, Updated
  <1>4. CASE ~ReadFires
    <2>1. UNCHANGED <<level, bad, file_events, epoll, open, deleted, nevent>>
      BY <1>4, Zenon DEF Read, tableVars
    <2>2. Types'
      BY <1>1, <2>1 DEF IInv, Types, ReadFires
    <2>3. TableSound' /\ Closed' /\ Loop' /\ AfterRead'
      BY <1>1, <1>4, <2>1, Zenon DEF IInv, TableSound, Closed, Loop, AfterRead
    <2>4. EdgesKept'
      <3> SUFFICES ASSUME NEW f \in Fd, NEW d \in level[f] \cap file_events[f].mask,
                          epoll[f].edge = {}
                   PROVE  \E i \in 1 .. Len(fired) :
                            /\ fired[i].fd = f /\ d \in fired[i].mask
                            /\ i > 1 \/ d = W
        BY <1>1, <2>1, SMTT(60) DEF EdgesKept
      <3>1. d \in {R, W}
        BY Zenon DEF IInv, Types, Mask
      <3>2. PICK i \in 1 .. Len(fired) : fired[i].fd = f /\ d \in fired[i].mask
        BY Zenon DEF IInv, EdgesKept
      <3>3. CASE i = 1
        BY <1>2, <1>4, <3>1, <3>2, <3>3, Zenon DEF ReadFires
      <3>4. CASE i # 1
        BY <3>2, <3>4, SMTT(60)
      <3> QED
        BY <3>3, <3>4, Zenon
    <2> QED
      BY <2>2, <2>3, <2>4, Zenon DEF IInv
  <1> QED
    BY <1>3, <1>4, Zenon

LEMMA WriteStep ==
  ASSUME IInv, Write
  PROVE  IInv'
  <1> DEFINE h == Head(fired)
             fd == h.fd
  <1>1. /\ pc = "write" /\ fired' = Tail(fired) /\ rfired' = rfired /\ event_valid
        /\ pc' = IF Len(fired) = 1 THEN "external" ELSE "read"
        /\ fired # <<>> /\ ReadFaults = {}
    BY Zenon DEF Write, IInv, Loop, ReadFaults
  <1>2. /\ h \in Fired /\ fd \in Fd /\ h = fired[1] /\ fired \in Seq(Fired) /\ Len(fired) \in Nat
        /\ Len(fired) >= 1 /\ Tail(fired) \in Seq(Fired) /\ Len(Tail(fired)) = Len(fired) - 1
        /\ \A i \in 1 .. Len(Tail(fired)) : Tail(fired)[i] = fired[i + 1]
    BY <1>1, FiredFacts, Zenon DEF IInv, Types
  <1>3. Tail(fired) = <<>> <=> Len(fired) = 1
    BY <1>1, FiredFacts, Zenon DEF IInv, Types
  \* The table, the level, and that only what the callback dealt with is forgotten
  <1>4. /\ Updated /\ open' = open /\ bad' = {}
        /\ \A f \in Fd \ open : file_events'[f] = file_events[f] /\ epoll'[f] = epoll[f]
        /\ level' \in [Fd -> Mask] /\ \A f \in Fd : level'[f] \subseteq level[f]
        /\ WriteFires => W \notin level'[fd]
    <2>1. CASE WriteFires
      <3> DEFINE cb == file_events[fd].write_cb
      <3>1. /\ bad' = bad \cup ReadFaults \cup CallFaults(cb) /\ CallbackBody
            /\ level' = [level EXCEPT ![fd] = {d \in @ :
                 cb # (IF d = R THEN file_events[fd].read_cb ELSE file_events[fd].write_cb)}]
        BY <2>1, Zenon DEF Write, Served
      <3>2. cb # NULL /\ cb \notin deleted
        BY <1>2, <2>1, Zenon DEF IInv, TableSound, EntrySound, WriteFires
      <3>3. bad' = {}
        BY <1>1, <3>1, <3>2, Zenon DEF IInv, Loop, CallFaults
      <3>4. /\ level' \in [Fd -> Mask] /\ \A f \in Fd : level'[f] \subseteq level[f]
            /\ W \notin level'[fd]
        BY <1>2, <3>1, Zenon DEF IInv, Types, Mask, R, W
      <3> QED
        BY <3>1, <3>3, <3>4, BodySound, Zenon DEF IInv
    <2>2. CASE ~WriteFires
      <3>1. bad' = bad \cup ReadFaults /\ UNCHANGED <<level, file_events, epoll, open, deleted, nevent>>
        BY <2>2, Zenon DEF Write, tableVars
      <3>2. Updated
        BY <3>1, Zenon DEF IInv, Types, TableSound, Updated, Rewatched
      <3> QED
        BY <1>1, <2>2, <3>1, <3>2, Zenon DEF IInv, Types, Loop
    <2> QED
      BY <2>1, <2>2, ZenonT(90)
  <1>5. Types'
    BY <1>1, <1>2, <1>4, Zenon DEF IInv, Types, Updated
  <1>6. Closed'
    BY <1>4 DEF IInv, Closed
  <1>7. Loop' /\ AfterRead'
    BY <1>1, <1>3, <1>4, Zenon DEF Loop, AfterRead
  <1>8. EdgesKept'
    <2> SUFFICES ASSUME NEW f \in Fd, NEW d \in level'[f] \cap file_events'[f].mask,
                        epoll'[f].edge = {}
                 PROVE  \E i \in 1 .. Len(Tail(fired)) :
                          /\ Tail(fired)[i].fd = f /\ d \in Tail(fired)[i].mask
                          /\ pc' = "read"
      BY <1>1, ZenonT(90) DEF EdgesKept
    <2>1. d \in level[f]
      BY <1>4, Zenon
    <2>2. file_events'[f] = file_events[f] /\ epoll'[f] = epoll[f]
      BY <1>4, <2>1, EdgesAfter, Zenon DEF IInv
    <2>3. PICK i \in 1 .. Len(fired) : fired[i].fd = f /\ d \in fired[i].mask /\ (i > 1 \/ d = W)
      BY <1>1, <2>1, <2>2, SMTT(60) DEF IInv, EdgesKept
    <2>4. CASE i > 1
      <3>1. /\ i - 1 \in 1 .. Len(Tail(fired)) /\ Tail(fired)[i - 1] = fired[i] /\ pc' = "read"
        BY <1>1, <1>2, <2>4, SMTT(60)
      <3> QED
        BY <2>3, <3>1, Zenon
    <2>5. CASE i = 1
      <3>1. d = W /\ f = fd /\ W \in h.mask /\ W \in file_events[fd].mask
        BY <1>2, <2>2, <2>3, <2>5, SMTT(60)
      <3>2. CASE WriteFires
        BY <1>4, <3>1, <3>2, Zenon
      <3>3. CASE ~WriteFires
        <4>1. rfired /\ file_events[fd].read_cb = file_events[fd].write_cb
          BY <3>1, <3>3, Zenon DEF WriteFires, IInv, Types
        <4>2. epoll[fd].edge # {}
          BY <1>1, <2>1, <3>1, <4>1, Zenon DEF IInv, AfterRead
        <4> QED
          BY <2>2, <3>1, <4>2, Zenon
      <3> QED
        BY <3>2, <3>3, Zenon
    <2> QED
      BY <2>4, <2>5
  <1> QED
    BY <1>4, <1>5, <1>6, <1>7, <1>8, SMTT(60) DEF IInv, Updated

\* An order of a finite set is a sequence with every element of the set in it.
LEMMA OrderFacts ==
  ASSUME NEW S, IsFiniteSet(S), NEW s \in Bijection(1 .. Cardinality(S), S)
  PROVE  /\ s \in Seq(S) /\ Len(s) = Cardinality(S) /\ Len(s) \in Nat
         /\ \A x \in S : \E i \in 1 .. Len(s) : s[i] = x
         /\ Len(s) = 0 <=> S = {}
  <1> DEFINE D == 1 .. Cardinality(S)
  <1>1. Cardinality(S) \in Nat /\ (Cardinality(S) = 0 <=> S = {})
    BY FS_CardinalityType, FS_EmptySet, Zenon
  <1>2. s \in [D -> S] /\ s \in Surjection(D, S)
    BY Zenon DEF Bijection, Surjection
  <1>3. \A x \in S : \E i \in D : s[i] = x
    BY <1>2, Zenon DEF Surjection
  <1>4. s \in Seq(S) /\ Len(s) = Cardinality(S)
    BY <1>1, <1>2
  <1> QED
    BY <1>1, <1>3, <1>4, Zenon

LEMMA EventWaitStep ==
  ASSUME IInv, EventWait
  PROVE  IInv'
  <1> DEFINE some == {fd \in Fd : epoll[fd].edge # {}}
             ev(fd) == [fd |-> fd, mask |-> Ready(fd, epoll[fd].interest)]
  <1>1. /\ pc = "wait" /\ fired = <<>> /\ pc' = IF some = {} THEN "external" ELSE "read"
        /\ epoll' = [fd \in Fd |-> [epoll[fd] EXCEPT !.edge = {}]]
        /\ UNCHANGED <<level, file_events, open, deleted, rfired, bad>>
    BY Zenon DEF EventWait, kernelVars, IInv, Loop
  <1>2. some \in SUBSET open /\ IsFiniteSet(some) /\ some \in SUBSET Fd
    <2>1. some \in SUBSET open
      BY Zenon DEF IInv, Closed
    <2> QED
      BY <2>1, FS_Subset, Zenon DEF IInv, Types
  <1>3. PICK s \in Bijection(1 .. Cardinality(some), some) : fired' = [i \in 1 .. Len(s) |-> ev(s[i])]
    BY Zenon DEF EventWait
  <1>4. /\ s \in Seq(some) /\ Len(s) \in Nat
        /\ \A x \in some : \E i \in 1 .. Len(s) : s[i] = x
        /\ Len(s) = 0 <=> some = {}
    <2> HIDE DEF some
    <2> QED
      BY <1>2, OrderFacts, Zenon
  <1>5. \A fd \in Fd : ev(fd) \in Fired /\ ev(fd).fd = fd
    BY Zenon DEF IInv, Types, Fired, Edge, Ready, Mask
  <1>6. \A fd \in Fd : \A d \in level[fd] \cap epoll[fd].interest : d \in ev(fd).mask
    BY Zenon DEF Ready, IInv, Types, Mask
  <1> HIDE DEF some, ev
  <1>7. \A i \in 1 .. Len(s) : s[i] \in some /\ s[i] \in Fd
    BY <1>2, <1>4
  <1>8. fired' \in Seq(Fired) /\ Len(fired') = Len(s) /\ (fired' = <<>> <=> some = {})
    <2>1. \A i \in 1 .. Len(s) : ev(s[i]) \in Fired
      BY <1>5, <1>7, Zenon
    <2>2. fired' \in Seq(Fired) /\ Len(fired') = Len(s)
      BY <1>3, <1>4, <2>1
    <2>3. fired' = <<>> <=> Len(fired') = 0
      BY <2>2, EmptySeq, Zenon
    <2> QED
      BY <1>4, <2>2, <2>3, Zenon
  <1>9. \A fd \in Fd : epoll'[fd].interest = epoll[fd].interest /\ epoll'[fd].edge = {}
                       /\ epoll'[fd] \in Edge
    BY <1>1, Zenon DEF IInv, Types, Edge, Mask
  <1>10. Types'
    <2>1. epoll' \in [Fd -> Edge]
      BY <1>1, <1>9, Zenon
    <2> QED
      BY <1>1, <1>8, <2>1, Zenon DEF IInv, Types
  <1>11. TableSound' /\ Closed'
    BY <1>1, <1>9, Zenon DEF IInv, TableSound, EntrySound, Closed
  <1>12. Loop' /\ AfterRead'
    BY <1>1, <1>8, Zenon DEF IInv, Loop, AfterRead
  <1>13. EdgesKept'
    <2> SUFFICES ASSUME NEW f \in Fd, NEW d \in level[f] \cap file_events[f].mask
                 PROVE  \E i \in 1 .. Len(fired') :
                          fired'[i].fd = f /\ d \in fired'[i].mask /\ pc' = "read"
      BY <1>1 DEF EdgesKept
    <2>1. epoll[f].edge # {}
      BY <1>1 DEF IInv, EdgesKept
    <2>2. f \in some /\ d \in level[f] \cap epoll[f].interest
      BY <2>1, Zenon DEF some, IInv, TableSound, EntrySound
    <2>3. PICK i \in 1 .. Len(s) : s[i] = f
      BY <1>4, <2>2, Zenon
    <2>4. fired'[i] = ev(f)
      BY <1>3, <2>3, Zenon
    <2>5. d \in ev(f).mask /\ ev(f).fd = f
      BY <1>5, <1>6, <2>2, Zenon
    <2>6. pc' = "read"
      BY <1>1, <2>2, Zenon
    <2> QED
      BY <1>8, <2>4, <2>5, <2>6, Zenon
  <1> QED
    BY <1>10, <1>11, <1>12, <1>13, Zenon DEF IInv

\* Register: a descriptor that is not in use has nothing registered.
LEMMA RegisterSound ==
  ASSUME IInv, NEW fd \in Fd, NEW mask \in Mask \ {{}}, NEW cb \in Usable, Register(fd, mask, cb)
  PROVE  /\ Updated /\ open' = open \cup {fd}
         /\ \A f \in Fd \ {fd} : file_events'[f] = file_events[f] /\ epoll'[f] = epoll[f]
  <1> DEFINE e == Created(fd, mask, cb)
             w == add_event(fd, {}, mask)
  <1>1. Types /\ TableSound /\ fd \notin open /\ Set(fd, e, w) /\ deleted' = deleted /\ open' = open \cup {fd}
    BY Zenon DEF Register, IInv
  <1>2. file_events[fd].mask = {}
    BY <1>1, Zenon DEF IInv, Closed
  <1>3. w = CreatedEpoll(fd, mask)
    BY <1>2, Zenon DEF CreatedEpoll, add_event
  <1>4. /\ e \in Entry /\ w \in Edge /\ EntrySound(e, w, deleted)
        /\ w = Watch(fd, e.mask) \/ (e = file_events[fd] /\ w = epoll[fd])
    BY <1>1, <1>3, CreatedSound, Zenon
  <1> HIDE DEF e, w
  <1>5. /\ deleted' \subseteq Callback
        /\ \A f \in Fd \ {fd} : file_events[f].read_cb \notin deleted' /\ file_events[f].write_cb \notin deleted'
    BY <1>1, Zenon DEF Types, TableSound, EntrySound
  <1> QED
    BY <1>1, <1>4, <1>5, SetSound, Zenon DEF Updated

LEMMA ExternalStep ==
  ASSUME IInv, External
  PROVE  IInv'
  <1>1. /\ pc = "external" /\ pc' = "wait" /\ fired = <<>> /\ UNCHANGED <<fired, rfired, event_valid, bad>>
        /\ \A f \in Fd : level[f] \in Mask
        /\ \A f \in Fd, d \in {R, W} : d \in level[f] \cap file_events[f].mask => epoll[f].edge # {}
    BY DEF External, IInv, Loop, EdgesKept, Types
  <1>2. Loop' /\ AfterRead'
    BY <1>1, Zenon DEF IInv, Loop, AfterRead
  <1>3. ASSUME Updated, \A f \in Fd : level'[f] \subseteq level[f]
        PROVE  EdgesKept'
    <2> SUFFICES ASSUME NEW f \in Fd, NEW d \in level'[f] \cap file_events'[f].mask,
                        epoll'[f].edge = {}
                 PROVE  FALSE
      BY Zenon DEF EdgesKept
    <2>1. d \in level[f] /\ d \in {R, W}
      BY <1>1, <1>3, Zenon DEF Mask
    <2> QED
      BY <1>1, <1>3, <2>1, EdgesAfter, Zenon DEF IInv
  <1>4. CASE CallbackBody /\ UNCHANGED kernelVars
    <2>1. /\ Updated /\ open' = open /\ level' = level
          /\ \A f \in Fd \ open : file_events'[f] = file_events[f] /\ epoll'[f] = epoll[f]
      BY <1>4, BodySound, Zenon DEF IInv, kernelVars
    <2>2. Types' /\ Closed'
      BY <1>1, <2>1, Zenon DEF IInv, Types, Closed, Updated
    <2> QED
      BY <1>2, <1>3, <2>1, <2>2, Zenon DEF IInv, Updated
  <1>5. ASSUME NEW fd \in Fd, NEW mask \in Mask \ {{}}, NEW cb \in Usable,
               Register(fd, mask, cb), UNCHANGED kernelVars
        PROVE  IInv'
    <2>1. /\ Updated /\ open' = open \cup {fd} /\ level' = level
          /\ \A f \in Fd \ {fd} : file_events'[f] = file_events[f] /\ epoll'[f] = epoll[f]
      BY <1>5, RegisterSound, Zenon DEF kernelVars
    <2>2. IsFiniteSet(open')
      BY <2>1, FS_AddElement, Zenon DEF IInv, Types
    <2>3. Types' /\ Closed'
      BY <1>1, <2>1, <2>2, Zenon DEF IInv, Types, Closed, Updated
    <2> QED
      BY <1>2, <1>3, <2>1, <2>3, Zenon DEF IInv, Updated
  <1>6. ASSUME NEW fd \in Fd, Close(fd), level' = [level EXCEPT ![fd] = {}]
        PROVE  IInv'
    <2> DEFINE e == Deleted(fd, {R, W})
               w == NotWatched
    <2>1. Types /\ TableSound /\ Set(fd, e, w) /\ open' = open \ {fd}
      BY <1>6, Zenon DEF Close, IInv
    <2>2. e \in Entry /\ e.mask = {} /\ EntrySound(e, DeletedEpoll(fd, {R, W}), deleted)
      <3>1. {R, W} \in Mask /\ file_events[fd].mask \in Mask
        BY <2>1, Zenon DEF Mask, Types, Entry
      <3>2. e.mask = {}
        BY <3>1, Zenon DEF Deleted, Mask
      <3> QED
        BY <2>1, <3>1, <3>2, DeletedSound, Zenon
    <2>3. w = Watch(fd, {}) /\ w \in Edge /\ w.interest = {} /\ w.edge = {}
      BY Zenon DEF NotWatched, Watch, Ready, Edge, Mask
    <2>4. EntrySound(e, w, deleted)
      BY <2>2, <2>3, Zenon DEF EntrySound
    <2> HIDE DEF e, w
    <2>5. PICK dead \in SUBSET {file_events[fd].read_cb, file_events[fd].write_cb} :
            /\ \A cb \in dead : cb # NULL /\ ~NamedBy(file_events', cb)
            /\ deleted' = deleted \cup dead
      BY <1>6, Zenon DEF Close
    <2>6. /\ deleted' \subseteq Callback /\ EntrySound(e, w, deleted')
          /\ \A f \in Fd \ {fd} : file_events[f].read_cb \notin deleted' /\ file_events[f].write_cb \notin deleted'
      BY <2>1, <2>2, <2>3, <2>4, <2>5, DeadSound, Zenon
    <2>7. /\ Updated /\ file_events'[fd] = e /\ epoll'[fd] = w
          /\ \A f \in Fd \ {fd} : file_events'[f] = file_events[f] /\ epoll'[f] = epoll[f]
      <3>1. /\ w = Watch(fd, e.mask) \/ (e = file_events[fd] /\ w = epoll[fd])
            /\ e \in Entry /\ w \in Edge
        BY <2>2, <2>3, Zenon
      <3>2. /\ file_events' \in [Fd -> Entry] /\ epoll' \in [Fd -> Edge] /\ TableSound'
            /\ \A f \in Fd : Rewatched(f)
            /\ \A f \in Fd \ {fd} : file_events'[f] = file_events[f] /\ epoll'[f] = epoll[f]
            /\ file_events'[fd] = e /\ epoll'[fd] = w
        BY <2>1, <2>6, <3>1, SetSound, Zenon
      <3> QED
        BY <2>6, <3>2, Zenon DEF Updated
    <2>8. level' \in [Fd -> Mask] /\ level'[fd] = {} /\ \A f \in Fd \ {fd} : level'[f] = level[f]
      BY <1>6, <2>1, Zenon DEF Types, Mask
    <2>9. IsFiniteSet(open')
      BY <2>1, FS_Subset, Zenon DEF Types
    <2>10. Types'
      BY <1>1, <2>1, <2>7, <2>8, <2>9, Zenon DEF Types, Updated
    <2>11. Closed'
      BY <2>1, <2>2, <2>3, <2>7, <2>8, Zenon DEF IInv, Closed
    <2>12. EdgesKept'
      BY <1>3, <2>7, <2>8, Zenon
    <2> QED
      BY <1>2, <2>7, <2>10, <2>11, <2>12, Zenon DEF IInv, Updated
  <1> QED
    BY <1>4, <1>5, <1>6, Zenon DEF External

\* A descriptor becomes ready: if anything watches for that, it is an edge.
LEMMA KernelStep ==
  ASSUME IInv, NEW fd \in Fd, Kernel(fd)
  PROVE  IInv'
  <1> DEFINE w == epoll'[fd]
  <1>1. /\ fd \in open
        /\ UNCHANGED <<file_events, open, deleted, fired, pc, rfired, event_valid, bad>>
    BY Zenon DEF Kernel
  <1>2. /\ epoll' \in [Fd -> Edge] /\ level' \in [Fd -> Mask]
        /\ \A f \in Fd \ {fd} : epoll'[f] = epoll[f] /\ level'[f] = level[f]
        /\ w.interest = epoll[fd].interest
        /\ epoll[fd].interest # {} /\ epoll[fd].edge # {} => w.edge # {}
        /\ \A d \in level'[fd] \cap epoll[fd].interest : d \in level[fd] \/ w.edge # {}
    <2>0. /\ epoll \in [Fd -> Edge] /\ level \in [Fd -> Mask] /\ epoll[fd].interest \in Mask
          /\ epoll[fd].edge \in Mask /\ level[fd] \in Mask
      BY Zenon DEF IInv, Types, Edge
    <2>1. ASSUME NEW d \in {R, W}, d \notin level[fd],
                 level' = [level EXCEPT ![fd] = @ \cup {d}],
                 epoll' = [epoll EXCEPT ![fd].edge = @ \cup ({d} \cap epoll[fd].interest)]
          PROVE  <1>2!1 /\ <1>2!2 /\ <1>2!3 /\ <1>2!4 /\ <1>2!5
      <3>1. level' \in [Fd -> Mask] /\ level'[fd] = level[fd] \cup {d}
        BY <2>0, <2>1, Zenon DEF Mask
      <3> DEFINE n == [epoll[fd] EXCEPT !.edge = @ \cup ({d} \cap epoll[fd].interest)]
      <3>2. epoll' = [epoll EXCEPT ![fd] = n]
        BY <2>1, Zenon
      <3>3. n \in Edge /\ n.interest = epoll[fd].interest
            /\ n.edge = epoll[fd].edge \cup ({d} \cap epoll[fd].interest)
        BY <2>0, Zenon DEF Edge, Mask
      <3> HIDE DEF n
      <3>4. epoll' \in [Fd -> Edge] /\ w = n
        BY <2>0, <3>2, <3>3, Zenon
      <3> QED
        BY <2>0, <2>1, <3>1, <3>2, <3>3, <3>4, Zenon
    <2>2. ASSUME level' = [level EXCEPT ![fd] = {R, W}],
                 epoll' = [epoll EXCEPT ![fd].edge = IF epoll[fd].interest = {} THEN {} ELSE {R, W}]
          PROVE  <1>2!1 /\ <1>2!2 /\ <1>2!3 /\ <1>2!4 /\ <1>2!5
      <3>1. level' \in [Fd -> Mask] /\ level'[fd] = {R, W}
        BY <2>0, <2>2, Zenon DEF Mask
      <3> DEFINE n == [epoll[fd] EXCEPT !.edge = IF epoll[fd].interest = {} THEN {} ELSE {R, W}]
      <3>2. epoll' = [epoll EXCEPT ![fd] = n]
        BY <2>2, Zenon
      <3>3. n \in Edge /\ n.interest = epoll[fd].interest
            /\ n.edge = IF epoll[fd].interest = {} THEN {} ELSE {R, W}
        BY <2>0, Zenon DEF Edge, Mask
      <3> HIDE DEF n
      <3>4. epoll' \in [Fd -> Edge] /\ w = n
        BY <2>0, <3>2, <3>3, Zenon
      <3> QED
        BY <2>0, <2>2, <3>1, <3>2, <3>3, <3>4, Zenon
    <2> QED
      BY <2>1, <2>2, Zenon DEF Kernel
  <1>3. Types'
    BY <1>1, <1>2, Zenon DEF IInv, Types
  <1>4. TableSound' /\ Closed'
    BY <1>1, <1>2 DEF IInv, TableSound, EntrySound, Closed
  <1>5. Loop'
    BY <1>1, Zenon DEF IInv, Loop
  <1>6. file_events[fd].mask = epoll[fd].interest
    BY Zenon DEF IInv, TableSound, EntrySound
  <1>7. AfterRead'
    <2> DEFINE f == Head(fired).fd
    <2> SUFFICES ASSUME pc = "write", rfired, W \in level'[f] \cap file_events[f].mask,
                        file_events[f].read_cb = file_events[f].write_cb
                 PROVE  epoll'[f].edge # {}
      BY <1>1, Zenon DEF AfterRead
    <2>1. f \in Fd
      BY FiredFacts, Zenon DEF IInv, Types, Loop
    <2>2. W \in level[f] => epoll[f].edge # {}
      BY Zenon DEF IInv, AfterRead
    <2>3. CASE f # fd
      BY <1>2, <2>1, <2>2, <2>3, Zenon
    <2>4. CASE f = fd
      BY <1>2, <1>6, <2>2, <2>4, Zenon
    <2> QED
      BY <2>3, <2>4, Zenon
  <1>8. EdgesKept'
    <2> SUFFICES ASSUME NEW f \in Fd, NEW d \in level'[f] \cap file_events[f].mask,
                        epoll'[f].edge = {}
                 PROVE  d \in level[f] /\ epoll[f].edge = {}
      <3> SUFFICES ASSUME NEW f \in Fd, NEW d \in level'[f] \cap file_events[f].mask,
                          epoll'[f].edge = {}
                   PROVE  \E i \in 1 .. Len(fired) :
                            /\ fired[i].fd = f /\ d \in fired[i].mask
                            /\ i > 1 \/ pc = "read" \/ d = W
        BY <1>1 DEF EdgesKept
      <3> QED
        BY Zenon DEF IInv, EdgesKept
    <2>1. CASE f # fd
      BY <1>2, <2>1, Zenon
    <2>2. CASE f = fd
      BY <1>2, <1>6, <2>2, Zenon
    <2> QED
      BY <2>1, <2>2, Zenon
  <1> QED
    BY <1>3, <1>4, <1>5, <1>7, <1>8, Zenon DEF IInv

-----------------------------------------------------------------------------
(* The theorems *)

LEMMA InvInit ==
  ASSUME Init
  PROVE  IInv
  <1>1. Types
    <2>1. NoEntry \in Entry /\ NotWatched \in Edge /\ {} \in Mask
      BY Zenon DEF Entry, Edge, Mask, NoEntry, NotWatched
    <2>2. IsFiniteSet({}) /\ <<>> \in Seq(Fired)
      BY FS_EmptySet, EmptySeq, Zenon
    <2> QED
      BY <2>1, <2>2, Zenon DEF Init, Types
  <1>2. TableSound /\ Closed
    BY Zenon DEF Init, TableSound, EntrySound, Closed, NoEntry, NotWatched
  <1>3. Loop /\ AfterRead /\ EdgesKept
    BY Zenon DEF Init, Loop, AfterRead, EdgesKept
  <1> QED
    BY <1>1, <1>2, <1>3, Zenon DEF IInv

LEMMA InvNext ==
  ASSUME IInv, [Next]_vars
  PROVE  IInv'
  <1>1. CASE UNCHANGED vars
    BY <1>1 DEF vars, tableVars, kernelVars, IInv, Types, TableSound, Closed, Loop, AfterRead, EdgesKept
  <1> QED
    BY <1>1, ReadStep, WriteStep, EventWaitStep, ExternalStep, KernelStep, ZenonT(90) DEF Next, Worker

\* Whatever the callbacks do, and whenever descriptors become ready
THEOREM FileEventsInvariant == Spec => []IInv
  <1>1. Init => IInv
    BY InvInit, Zenon
  <1>2. IInv /\ [Next]_vars => IInv'
    BY InvNext, Zenon
  <1> QED
    BY <1>1, <1>2, PTL DEF Spec

\* epoll watches what the table says, and there is a callback for exactly that
\* (create_file_event, delete_file_event).
THEOREM TableAndEpollAgree == Spec => []TableMatchesEpoll
  <1>1. IInv => TableMatchesEpoll
    BY Zenon DEF IInv, TableSound, EntrySound, TableMatchesEpoll
  <1> QED
    BY <1>1, FileEventsInvariant, PTL

\* process_events calls callbacks that exist, and its pointer into file_events is
\* valid when it is used.
THEOREM CallsAreSafe == Spec => []CallbacksAlive
  <1>1. IInv => CallbacksAlive
    BY Zenon DEF IInv, Loop, CallbacksAlive
  <1> QED
    BY <1>1, FileEventsInvariant, PTL

\* What a registered descriptor is ready for is reported or about to be processed.
THEOREM NoEdgeIsLost == Spec => []EdgesKept
  <1>1. IInv => EdgesKept
    BY Zenon DEF IInv
  <1> QED
    BY <1>1, FileEventsInvariant, PTL
=============================================================================
