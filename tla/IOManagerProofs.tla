-------------------------- MODULE IOManagerProofs --------------------------
(***************************************************************************)
(* Theorems about IOManager's events, for any tasks, dispatchers and       *)
(* descriptors.                                                            *)
(*                                                                         *)
(* The theorems hold in every environment: closes beside addEvent,         *)
(* hang-ups, both directions, a table that shrinks.  The invariant of      *)
(* Part 1 says where every waiting fiber is: in one registration or once   *)
(* in m_fibers.  Part 2 shows that epoll and the contexts agree on every   *)
(* descriptor that was not closed under a registered event.                *)
(***************************************************************************)
EXTENDS IOManager, FiniteSetTheorems, TLAPS

\* m_fdContexts holds an object below its size, and the operations under an
\* FdContext's mutex have found one.
TableFull == \A fd \in Fds : fd < size => m_fdContexts[fd] # None
AtCtx == {"add", "del", "cancel", "cancelAll"}
OpKnown ==
    \A t \in Tasks : /\ pc[t] \in AtCtx => op[t].ctx # None
                     /\ pc[t] \in AtCtx \union {"grow", "close"} => op[t].fd \in Fds

\* The types of pc and op in TypeOK.
Pcs == {"run", "grow", "add", "del", "cancel", "cancelAll", "close", "wait", "dropped"}
Ops == [name : {"none", "add", "del", "cancel", "cancelAll"},
        fd : Fds \union {0}, event : Events, ctx : Ctxs \union {None}]

\* A registered event has a waiter, and the other way round.
WaiterOfEvent == \A x \in Ctxs, e \in Events : waiter[x][e] # None <=> e \in events[x]

\* Where a waiting fiber is, without counting.
HeldWaits == \A x \in Ctxs, e \in Events, t \in Tasks :
    waiter[x][e] = t => pc[t] = "wait" /\ scheduled[t] = 0
HeldOnce == \A x, y \in Ctxs, e, f \in Events :
    waiter[x][e] # None /\ waiter[x][e] = waiter[y][f] => x = y /\ e = f
ScheduledOnce == \A t \in Tasks :
    scheduled[t] # 0 => scheduled[t] = 1 /\ pc[t] = "wait"
NotLost == \A t \in Tasks : pc[t] = "wait" /\ scheduled[t] = 0 =>
    \E x \in Ctxs, e \in Events : waiter[x][e] = t

Known == TypeOK /\ TableFull /\ OpKnown
Counted == PendingExact /\ IsFiniteSet(Registrations)
Waking == WaiterOfEvent /\ HeldWaits /\ HeldOnce /\ ScheduledOnce /\ NotLost
WakeInv == Known /\ Counted /\ Waking

-----------------------------------------------------------------------------
(* Part 1.                                                                 *)

\* A set of two values is finite.
LEMMA TwoElementsFinite == ASSUME NEW a, NEW b PROVE IsFiniteSet({a, b})
<1>1. IsFiniteSet({a}) /\ {a, b} = {a} \union {b}
  BY FS_Singleton
<1>2. QED
  BY <1>1, FS_AddElement

\* triggerEvent moves each waiter of the triggered events from its
\* registration into m_fibers, once, and the counter follows.
LEMMA TriggerWakes ==
    ASSUME WakeInv, NEW x \in Ctxs, NEW E \in SUBSET events[x], Trigger(x, E),
           \A u \in Tasks : pc'[u] = "wait" <=> pc[u] = "wait"
    PROVE  /\ events' \in [Ctxs -> SUBSET Events]
           /\ scheduler' \in [Ctxs -> [Events -> {"null", "set", "garbage"}]]
           /\ waiter' \in [Ctxs -> [Events -> Tasks \union {None}]]
           /\ scheduled' \in [Tasks -> Nat]
           /\ m_pendingEventCount' \in Nat
           /\ Counted' /\ Waking'
<1>1. /\ events \in [Ctxs -> SUBSET Events] /\ E \subseteq Events
      /\ scheduler \in [Ctxs -> [Events -> {"null", "set", "garbage"}]]
      /\ waiter \in [Ctxs -> [Events -> Tasks \union {None}]]
      /\ scheduled \in [Tasks -> Nat] /\ m_pendingEventCount \in Nat
      /\ None \notin Tasks
  BY IOAssumption DEF WakeInv, Known, TypeOK
<1>2. ASSUME NEW u \in Tasks
      PROVE  Cardinality({e \in E : waiter[x][e] = u})
                = IF \E e \in E : waiter[x][e] = u THEN 1 ELSE 0
  <2>1. CASE \E e \in E : waiter[x][e] = u
    <3>1. PICK e \in E : waiter[x][e] = u
      BY <2>1
    <3>2. {f \in E : waiter[x][f] = u} = {e}
      BY <1>1, <3>1 DEF WakeInv, Waking, HeldOnce
    <3>3. QED
      BY <2>1, <3>2, FS_Singleton
  <2>2. CASE ~ \E e \in E : waiter[x][e] = u
    <3>1. {f \in E : waiter[x][f] = u} = {}
      BY <2>2
    <3>2. QED
      BY <2>2, <3>1, FS_EmptySet
  <2>3. QED
    BY <2>1, <2>2
<1>3. \A u \in Tasks : scheduled'[u] =
          scheduled[u] + IF \E e \in E : waiter[x][e] = u THEN 1 ELSE 0
  BY <1>2 DEF Trigger
<1>4. scheduled' \in [Tasks -> Nat]
  <2>1. scheduled' = [u \in Tasks |->
             scheduled[u] + Cardinality({e \in E : waiter[x][e] = u})]
    BY DEF Trigger
  <2>2. \A u \in Tasks :
             scheduled[u] + Cardinality({e \in E : waiter[x][e] = u}) \in Nat
    BY <1>1, <1>2
  <2>3. QED
    BY <2>1, <2>2
<1>5. /\ waiter' \in [Ctxs -> [Events -> Tasks \union {None}]]
      /\ \A y \in Ctxs, e \in Events :
            waiter'[y][e] = IF y = x /\ e \in E THEN None ELSE waiter[y][e]
  BY <1>1 DEF Trigger
<1>6. /\ events' \in [Ctxs -> SUBSET Events]
      /\ \A y \in Ctxs : events'[y] = IF y = x THEN events[y] \ E ELSE events[y]
  BY <1>1 DEF Trigger
<1>7. scheduler' \in [Ctxs -> [Events -> {"null", "set", "garbage"}]]
  BY <1>1 DEF Trigger
<1>8. Counted' /\ m_pendingEventCount' \in Nat
  <2> DEFINE R == Registrations
             T == {x} \X E
  <2>1. IsFiniteSet(R) /\ m_pendingEventCount = Cardinality(R)
    BY DEF WakeInv, Counted, PendingExact
  <2>2. T \subseteq R
    BY <1>1 DEF Registrations
  <2>3. Registrations' = R \ T
    BY <1>1, <1>6 DEF Registrations
  <2>4. IsFiniteSet(E) /\ Cardinality({x} \X E) = Cardinality(E)
    <3>1. IsFiniteSet({"READ", "WRITE"})
      BY TwoElementsFinite
    <3>2. IsFiniteSet(E) /\ Cardinality(E) \in Nat
      BY <1>1, <3>1, FS_Subset, FS_CardinalityType DEF Events
    <3>3. IsFiniteSet({x}) /\ Cardinality({x}) = 1
      BY FS_Singleton
    <3>4. Cardinality({x} \X E) = 1 * Cardinality(E)
      BY <3>2, <3>3, FS_Product
    <3>5. QED
      BY <3>2, <3>4
  <2> HIDE DEF R
  <2>5. /\ IsFiniteSet(R \ T)
        /\ Cardinality(R \ T) = Cardinality(R) - Cardinality(R \intersect T)
    BY <2>1, FS_Difference
  <2>6. R \intersect T = T
    BY <2>2
  <2>7. Cardinality(R \ T) \in Nat
    BY <2>5, FS_CardinalityType
  <2>8. m_pendingEventCount' = m_pendingEventCount - Cardinality(E)
    BY DEF Trigger
  <2>9. QED
    BY <2>1, <2>3, <2>4, <2>5, <2>6, <2>7, <2>8 DEF Counted, PendingExact
<1>9. WaiterOfEvent' /\ HeldOnce'
  <2>1. WaiterOfEvent'
    <3> SUFFICES ASSUME NEW y \in Ctxs, NEW f \in Events
                 PROVE  waiter'[y][f] # None <=> f \in events'[y]
      BY DEF WaiterOfEvent
    <3>1. waiter[y][f] # None <=> f \in events[y]
      BY DEF WakeInv, Waking, WaiterOfEvent
    <3>2. CASE y = x
      <4>1. events'[y] = events[y] \ E /\ waiter'[y][f] = IF f \in E THEN None ELSE waiter[y][f]
        BY <1>5, <1>6, <3>2
      <4>2. QED
        BY <3>1, <4>1
    <3>3. CASE y # x
      <4>1. events'[y] = events[y] /\ waiter'[y][f] = waiter[y][f]
        BY <1>5, <1>6, <3>3
      <4>2. QED
        BY <3>1, <4>1
    <3>4. QED
      BY <3>2, <3>3
  <2>2. HeldOnce'
    BY <1>1, <1>5 DEF WakeInv, Waking, HeldOnce
  <2>3. QED
    BY <2>1, <2>2
<1>10. HeldWaits'
  <2> SUFFICES ASSUME NEW y \in Ctxs, NEW e \in Events, NEW t \in Tasks,
                      waiter'[y][e] = t
               PROVE  pc'[t] = "wait" /\ scheduled'[t] = 0
    BY DEF HeldWaits
  <2>1. waiter[y][e] = t /\ ~(y = x /\ e \in E)
    BY <1>1, <1>5
  <2>2. ~ \E f \in E : waiter[x][f] = t
    BY <1>1, <2>1 DEF WakeInv, Waking, HeldOnce
  <2>3. scheduled[t] = 0 /\ pc[t] = "wait"
    BY <2>1 DEF WakeInv, Waking, HeldWaits
  <2>4. QED
    BY <1>3, <2>2, <2>3
<1>11. ScheduledOnce'
  <2> SUFFICES ASSUME NEW t \in Tasks, scheduled'[t] # 0
               PROVE  scheduled'[t] = 1 /\ pc'[t] = "wait"
    BY DEF ScheduledOnce
  <2>1. CASE \E e \in E : waiter[x][e] = t
    <3>1. scheduled[t] = 0 /\ pc[t] = "wait"
      BY <1>1, <2>1 DEF WakeInv, Waking, HeldWaits
    <3>2. QED
      BY <1>3, <2>1, <3>1
  <2>2. CASE ~ \E e \in E : waiter[x][e] = t
    <3>1. scheduled'[t] = scheduled[t]
      BY <1>1, <1>3, <2>2
    <3>2. QED
      BY <3>1 DEF WakeInv, Waking, ScheduledOnce
  <2>3. QED
    BY <2>1, <2>2
<1>12. NotLost'
  <2> SUFFICES ASSUME NEW t \in Tasks, pc'[t] = "wait", scheduled'[t] = 0
               PROVE  \E y \in Ctxs, e \in Events : waiter'[y][e] = t
    BY DEF NotLost
  <2>1. scheduled[t] = 0 /\ ~ \E e \in E : waiter[x][e] = t
    BY <1>1, <1>3
  <2>2. PICK y \in Ctxs, e \in Events : waiter[y][e] = t
    BY <2>1 DEF WakeInv, Waking, NotLost
  <2>3. waiter'[y][e] = t
    BY <1>5, <2>1, <2>2
  <2>4. QED
    BY <2>3
<1>13. QED
  BY <1>4, <1>5, <1>6, <1>7, <1>8, <1>9, <1>10, <1>11, <1>12 DEF Waking

\* Registrations after one event of one context was added or taken away.
LEMMA RegistrationsOf ==
    ASSUME NEW x \in Ctxs, NEW e \in Events
    PROVE  /\ <<x, e>> \in Registrations <=> e \in events[x]
           /\ (\A y \in Ctxs : events'[y] = IF y = x THEN events[y] \union {e} ELSE events[y])
                 => Registrations' = Registrations \union {<<x, e>>}
           /\ (\A y \in Ctxs : events'[y] = IF y = x THEN events[y] \ {e} ELSE events[y])
                 => Registrations' = Registrations \ {<<x, e>>}
<1>1. <<x, e>> \in Registrations <=> e \in events[x]
  BY DEF Registrations
<1>2. \A r \in Ctxs \X Events : r[1] \in Ctxs /\ r[2] \in Events
                               /\ (r = <<x, e>> <=> r[1] = x /\ r[2] = e)
  OBVIOUS
<1>3. ASSUME \A y \in Ctxs : events'[y] = IF y = x THEN events[y] \union {e} ELSE events[y]
      PROVE  Registrations' = Registrations \union {<<x, e>>}
  <2>1. \A r \in Ctxs \X Events : r[2] \in events'[r[1]]
            <=> (r[2] \in events[r[1]] \/ r = <<x, e>>)
    BY <1>2, <1>3
  <2>2. QED
    BY <2>1 DEF Registrations
<1>4. ASSUME \A y \in Ctxs : events'[y] = IF y = x THEN events[y] \ {e} ELSE events[y]
      PROVE  Registrations' = Registrations \ {<<x, e>>}
  <2>1. \A r \in Ctxs \X Events : r[2] \in events'[r[1]]
            <=> (r[2] \in events[r[1]] /\ r # <<x, e>>)
    BY <1>2, <1>4
  <2>2. QED
    BY <2>1 DEF Registrations
<1>5. QED
  BY <1>1, <1>3, <1>4

\* A step that moves no registration and no waiting fiber.
LEMMA Unmoved ==
    ASSUME WakeInv, UNCHANGED <<events, waiter, m_pendingEventCount, scheduled>>,
           \A u \in Tasks : pc'[u] = "wait" <=> pc[u] = "wait"
    PROVE  Counted' /\ Waking'
<1>1. Registrations' = Registrations
  BY DEF Registrations
<1>2. Counted'
  BY <1>1 DEF WakeInv, Counted, PendingExact
<1>3. Waking'
  BY DEF WakeInv, Waking, WaiterOfEvent, HeldWaits, HeldOnce, ScheduledOnce, NotLost
<1>4. QED
  BY <1>2, <1>3

\* The lookup under m_mutex finds a context or has a way out.
LEMMA LookupWake ==
    ASSUME WakeInv, NEW t \in Tasks, NEW fd \in Fds, NEW e \in Events,
           NEW name \in AtCtx, NEW small \in {"grow", "run", "close"},
           Lookup(t, name, fd, e, small)
    PROVE  WakeInv'
<1> USE DEF Known, TypeOK, TableFull, OpKnown, AtCtx
<1>1. Known'
  BY DEF WakeInv, Lookup, Running, table, context, kernel
<1>2. Counted' /\ Waking'
  <2>1. UNCHANGED <<events, waiter, m_pendingEventCount, scheduled>>
    BY DEF Lookup, context
  <2>2. \A u \in Tasks : pc'[u] = "wait" <=> pc[u] = "wait"
    BY DEF WakeInv, Lookup, Running
  <2>3. QED
    BY <2>1, <2>2, Unmoved
<1>3. QED
  BY <1>1, <1>2 DEF WakeInv

\* What a task's arguments are between two operations.
LEMMA NoOpTyped == NoOp \in Ops
BY DEF NoOp, Ops, Events

\* cancelEvent and cancelAll trigger registered events only.
LEMMA CancelWake ==
    ASSUME WakeInv, NEW t \in Tasks, pc[t] \in {"cancel", "cancelAll"},
           NEW E \in SUBSET events[op[t].ctx], NEW next \in {"run", "close"},
           Cancel(t, op[t].ctx, E, next)
    PROVE  WakeInv'
<1> DEFINE x == op[t].ctx
<1>1. /\ TypeOK /\ x \in Ctxs /\ Fd(x) \in Fds /\ op[t].fd \in Fds
  BY DEF WakeInv, Known, TypeOK, OpKnown, AtCtx, Fd, Ctxs
<1>2. /\ pc' = [pc EXCEPT ![t] = next]
      /\ op' \in {op, [op EXCEPT ![t] = NoOp]}
      /\ UNCHANGED <<table, open, raced, reports, failed>>
      /\ next # "run" => op' = op
  BY DEF Cancel
<1>3. \A u \in Tasks : pc'[u] = "wait" <=> pc[u] = "wait"
  BY <1>1, <1>2 DEF TypeOK
<1>4. TableFull' /\ OpKnown'
  BY <1>1, <1>2 DEF WakeInv, Known, TypeOK, TableFull, OpKnown, AtCtx, table
<1>5. pc' \in [Tasks -> Pcs] /\ op' \in [Tasks -> Ops]
  <2>1. pc \in [Tasks -> Pcs] /\ op \in [Tasks -> Ops]
    BY <1>1 DEF TypeOK, Pcs, Ops
  <2>2. op' \in [Tasks -> Ops]
    BY <1>2, <2>1, NoOpTyped
  <2>3. next \in Pcs
    BY DEF Pcs
  <2>4. QED
    BY <1>2, <2>1, <2>2, <2>3
<1>6. CASE E # {} /\ EpollCtlOk(Fd(x), FALSE)
  <2>1. Trigger(x, E) /\ EpollSet(Fd(x), events[x] \ E, x)
    BY <1>6 DEF Cancel
  <2>2. interest' \in [Fds -> [mask : SUBSET Events, ctx : Ctxs \union {None}]]
    BY <1>1, <2>1 DEF TypeOK, EpollSet, NotRegistered
  <2> HIDE DEF x
  <2>3. /\ events' \in [Ctxs -> SUBSET Events]
        /\ scheduler' \in [Ctxs -> [Events -> {"null", "set", "garbage"}]]
        /\ waiter' \in [Ctxs -> [Events -> Tasks \union {None}]]
        /\ scheduled' \in [Tasks -> Nat]
        /\ m_pendingEventCount' \in Nat
        /\ Counted' /\ Waking'
    <3>1. E \in SUBSET events[x]
      BY DEF x
    <3>2. QED
      BY <1>1, <1>3, <2>1, <3>1, TriggerWakes
  <2>4. TypeOK'
    BY <1>1, <1>2, <1>5, <2>2, <2>3 DEF TypeOK, table, Pcs, Ops
  <2>5. QED
    BY <1>4, <2>3, <2>4 DEF WakeInv, Known
<1>7. CASE ~(E # {} /\ EpollCtlOk(Fd(x), FALSE))
  <2>1. UNCHANGED <<context, scheduled, m_pendingEventCount, interest>>
    BY <1>7 DEF Cancel
  <2>2. TypeOK'
    BY <1>1, <1>2, <1>5, <2>1 DEF TypeOK, table, context, Pcs, Ops
  <2>3. Counted' /\ Waking'
    BY <1>3, <2>1, Unmoved DEF context
  <2>4. QED
    BY <1>4, <2>2, <2>3 DEF WakeInv, Known
<1>8. QED
  BY <1>6, <1>7

\* contextResize leaves an object in every slot, the caller's included: half
\* as much again is more than any descriptor from 2 on.
LEMMA ResizeKnown ==
    ASSUME Known, NEW t \in Tasks, contextResize(t)
    PROVE  Known'
<1> DEFINE fd == op[t].fd
           n == (fd * 3) \div 2
           new == {g \in Fds : g < n /\ m_fdContexts[g] = None}
<1>1. fd \in Fds /\ fd \in Nat /\ fd >= 2
  <2>1. fd \in Fds
    BY DEF Known, OpKnown, contextResize
  <2>2. fd \in Nat /\ fd # 0 /\ fd # 1
    BY <2>1, IOAssumption
  <2>3. QED
    BY <2>1, <2>2
<1>2. n \in Nat /\ fd < n
  BY <1>1
<1>3. /\ size' = n
      /\ \A g \in new : allocs[g] < MaxAllocs
      /\ m_fdContexts' = [g \in Fds |->
                IF g >= n THEN None
                ELSE IF g \in new THEN <<g, allocs[g]>> ELSE m_fdContexts[g]]
      /\ allocs' = [g \in Fds |-> IF g \in new THEN allocs[g] + 1 ELSE allocs[g]]
      /\ op' = [op EXCEPT ![t].ctx = m_fdContexts'[fd]]
      /\ pc' = [pc EXCEPT ![t] = "add"]
      /\ UNCHANGED <<events, waiter, m_pendingEventCount, kernel, reports,
                       scheduled, failed>>
  BY DEF contextResize
<1>4. /\ m_fdContexts \in [Fds -> Ctxs \union {None}]
      /\ allocs \in [Fds -> 0..MaxAllocs] /\ MaxAllocs \in Nat /\ Fds \subseteq Nat
      /\ pc \in [Tasks -> Pcs] /\ op \in [Tasks -> Ops]
  BY IOAssumption DEF Known, TypeOK, Pcs, Ops
<1> HIDE DEF n
<1>5. \A g \in new : <<g, allocs[g]>> \in Ctxs /\ <<g, allocs[g]>> # None
  BY <1>3, <1>4, IOAssumption DEF Ctxs
<1>6. /\ m_fdContexts' \in [Fds -> Ctxs \union {None}]
      /\ \A g \in Fds : g < n => m_fdContexts'[g] # None
  BY <1>2, <1>3, <1>4, <1>5
<1>7. allocs' \in [Fds -> 0..MaxAllocs]
  BY <1>3, <1>4
<1>8. m_fdContexts'[fd] \in Ctxs
  BY <1>1, <1>2, <1>6
<1>9. pc' \in [Tasks -> Pcs] /\ op' \in [Tasks -> Ops]
  BY <1>3, <1>4, <1>8 DEF Pcs, Ops
<1>10. scheduler' \in [Ctxs -> [Events -> {"null", "set", "garbage"}]]
  <2>1. PICK v \in FreshScheduler :
           scheduler' = [x \in Ctxs |->
                  IF x \in {<<g, allocs[g]>> : g \in new} THEN [e \in Events |-> v]
                  ELSE scheduler[x]]
    BY DEF contextResize, n
  <2>2. QED
    BY <2>1 DEF Known, TypeOK, FreshScheduler
<1>11. TypeOK'
  BY <1>2, <1>3, <1>6, <1>7, <1>9, <1>10 DEF Known, TypeOK, Pcs, Ops, kernel
<1>12. TableFull' /\ OpKnown'
  BY <1>1, <1>2, <1>3, <1>4, <1>6, <1>8, IOAssumption
     DEF Known, TableFull, OpKnown, AtCtx, Ops, Pcs
<1>13. QED
  BY <1>11, <1>12 DEF Known

\* addEvent under the mutex: one more registration, which holds the caller.
LEMMA AddWake ==
    ASSUME WakeInv, NEW t \in Tasks, addEvent(t)
    PROVE  WakeInv'
<1> DEFINE x == op[t].ctx
           e == op[t].event
<1>1. /\ TypeOK /\ x \in Ctxs /\ Fd(x) \in Fds /\ e \in Events /\ pc[t] = "add"
      /\ pc \in [Tasks -> Pcs] /\ op \in [Tasks -> Ops] /\ None \notin Tasks
      /\ waiter \in [Ctxs -> [Events -> Tasks \union {None}]]
      /\ events \in [Ctxs -> SUBSET Events]
      /\ scheduler \in [Ctxs -> [Events -> {"null", "set", "garbage"}]]
      /\ m_pendingEventCount \in Nat
  BY IOAssumption DEF WakeInv, Known, TypeOK, OpKnown, AtCtx, Fd, Ctxs, addEvent, Pcs, Ops
<1>2. ASSUME failed' \in {"addEvent", "stale context"}, Abort(failed')
      PROVE  WakeInv'
  <2>1. Known'
    BY <1>2 DEF WakeInv, Known, TypeOK, TableFull, OpKnown, Abort, table, context, kernel, task
  <2>2. Counted' /\ Waking'
    BY <1>2, Unmoved DEF Abort, context, task
  <2>3. QED
    BY <2>1, <2>2 DEF WakeInv
<1>3. ASSUME Return(t),
             UNCHANGED <<table, context, m_pendingEventCount, kernel,
                         reports, scheduled, failed>>
      PROVE  WakeInv'
  <2>1. pc' \in [Tasks -> Pcs] /\ op' \in [Tasks -> Ops]
    BY <1>1, <1>3, NoOpTyped DEF Return, Pcs
  <2>2. TypeOK'
    BY <1>1, <1>3, <2>1 DEF TypeOK, Pcs, Ops, table, context, kernel
  <2>3. TableFull' /\ OpKnown'
    BY <1>1, <1>3 DEF WakeInv, Known, TableFull, OpKnown, AtCtx, Return, table, NoOp
  <2>4. Counted' /\ Waking'
    BY <1>1, <1>3, Unmoved DEF Return, context
  <2>5. QED
    BY <2>2, <2>3, <2>4 DEF WakeInv, Known
<1>4. ASSUME e \notin events[x], waiter[x][e] = None,
             EpollSet(Fd(x), events[x] \union {e}, x),
             m_pendingEventCount' = m_pendingEventCount + 1,
             events' = [events EXCEPT ![x] = @ \union {e}],
             scheduler' = [scheduler EXCEPT ![x][e] = "set"],
             waiter' = [waiter EXCEPT ![x][e] = t],
             pc' = [pc EXCEPT ![t] = "wait"],
             UNCHANGED <<table, open, raced, op, reports, scheduled, failed>>
      PROVE  WakeInv'
  <2> HIDE DEF x, e
  <2>1. /\ events' \in [Ctxs -> SUBSET Events]
        /\ scheduler' \in [Ctxs -> [Events -> {"null", "set", "garbage"}]]
        /\ waiter' \in [Ctxs -> [Events -> Tasks \union {None}]]
        /\ interest' \in [Fds -> [mask : SUBSET Events, ctx : Ctxs \union {None}]]
        /\ m_pendingEventCount' \in Nat
        /\ pc' \in [Tasks -> Pcs]
    <3>1. interest' \in [Fds -> [mask : SUBSET Events, ctx : Ctxs \union {None}]]
      BY <1>1, <1>4 DEF TypeOK, EpollSet, NotRegistered
    <3>2. pc' \in [Tasks -> Pcs]
      BY <1>1, <1>4 DEF Pcs
    <3>3. QED
      BY <1>1, <1>4, <3>1, <3>2
  <2>2. TypeOK'
    BY <1>1, <1>4, <2>1 DEF TypeOK, Pcs, Ops, table
  <2>3. TableFull' /\ OpKnown'
    BY <1>1, <1>4 DEF WakeInv, Known, TableFull, OpKnown, AtCtx, table
  <2>4. /\ \A y \in Ctxs, f \in Events :
              waiter'[y][f] = IF y = x /\ f = e THEN t ELSE waiter[y][f]
        /\ \A y \in Ctxs : events'[y] = IF y = x THEN events[y] \union {e} ELSE events[y]
        /\ \A u \in Tasks : pc'[u] = IF u = t THEN "wait" ELSE pc[u]
        /\ waiter \in [Ctxs -> [Events -> Tasks \union {None}]]
    BY <1>1, <1>4 DEF TypeOK
  <2>5. Counted'
    <3>1. Registrations' = Registrations \union {<<x, e>>} /\ <<x, e>> \notin Registrations
      BY <1>1, <1>4, <2>4, RegistrationsOf
    <3>2. IsFiniteSet(Registrations) /\ m_pendingEventCount = Cardinality(Registrations)
      BY DEF WakeInv, Counted, PendingExact
    <3>3. QED
      BY <1>4, <3>1, <3>2, FS_AddElement DEF Counted, PendingExact
  <2>6. scheduled[t] = 0 /\ \A y \in Ctxs, f \in Events : waiter[y][f] # t
    BY <1>1 DEF WakeInv, Waking, HeldWaits, ScheduledOnce
  <2>7. WaiterOfEvent'
    <3> SUFFICES ASSUME NEW y \in Ctxs, NEW f \in Events
                 PROVE  waiter'[y][f] # None <=> f \in events'[y]
      BY DEF WaiterOfEvent
    <3>1. waiter[y][f] # None <=> f \in events[y]
      BY DEF WakeInv, Waking, WaiterOfEvent
    <3>2. CASE y = x
      <4>1. events'[y] = events[y] \union {e} /\ waiter'[y][f] = IF f = e THEN t ELSE waiter[y][f]
        BY <2>4, <3>2
      <4>2. t # None
        BY <1>1
      <4>3. QED
        BY <3>1, <4>1, <4>2
    <3>3. CASE y # x
      <4>1. events'[y] = events[y] /\ waiter'[y][f] = waiter[y][f]
        BY <2>4, <3>3
      <4>2. QED
        BY <3>1, <4>1
    <3>4. QED
      BY <3>2, <3>3
  <2>8. HeldWaits'
    BY <1>4, <2>4, <2>6 DEF WakeInv, Waking, HeldWaits
  <2>9. HeldOnce'
    BY <2>4, <2>6 DEF WakeInv, Waking, HeldOnce
  <2>10. ScheduledOnce'
    BY <1>4, <2>4, <2>6 DEF WakeInv, Waking, ScheduledOnce
  <2>11. NotLost'
    <3> SUFFICES ASSUME NEW u \in Tasks, pc'[u] = "wait", scheduled'[u] = 0
                 PROVE  \E y \in Ctxs, f \in Events : waiter'[y][f] = u
      BY DEF NotLost
    <3>1. CASE u = t
      BY <1>1, <2>4, <3>1
    <3>2. CASE u # t
      <4>1. PICK y \in Ctxs, f \in Events : waiter[y][f] = u
        BY <1>4, <2>4, <3>2 DEF WakeInv, Waking, NotLost
      <4>2. waiter'[y][f] = u
        BY <1>1, <1>4, <2>4, <4>1
      <4>3. QED
        BY <4>2
    <3>3. QED
      BY <3>1, <3>2
  <2>12. QED
    BY <2>2, <2>3, <2>5, <2>7, <2>8, <2>9, <2>10, <2>11 DEF WakeInv, Known, Waking
<1>5. QED
  BY <1>2, <1>3, <1>4 DEF addEvent, Abort

\* delEvent drops a registration and, with it, the fiber that waits there.
LEMMA DelWake ==
    ASSUME WakeInv, NEW t \in Tasks, delEvent(t)
    PROVE  WakeInv'
<1> DEFINE x == op[t].ctx
           e == op[t].event
           w == waiter[x][e]
<1>1. /\ TypeOK /\ x \in Ctxs /\ Fd(x) \in Fds /\ e \in Events /\ pc[t] = "del"
      /\ pc \in [Tasks -> Pcs] /\ op \in [Tasks -> Ops] /\ None \notin Tasks
      /\ waiter \in [Ctxs -> [Events -> Tasks \union {None}]]
      /\ events \in [Ctxs -> SUBSET Events]
      /\ scheduler \in [Ctxs -> [Events -> {"null", "set", "garbage"}]]
      /\ m_pendingEventCount \in Nat
  BY IOAssumption DEF WakeInv, Known, TypeOK, OpKnown, AtCtx, Fd, Ctxs, delEvent, Pcs, Ops
<1>2. op' = [op EXCEPT ![t] = NoOp] /\ UNCHANGED <<table, open, raced, reports, scheduled, failed>>
  BY DEF delEvent
<1>3. op' \in [Tasks -> Ops]
  BY <1>1, <1>2, NoOpTyped
<1>4. CASE e \in events[x] /\ EpollCtlOk(Fd(x), FALSE)
  <2>1. /\ EpollSet(Fd(x), events[x] \ {e}, x)
        /\ events' = [events EXCEPT ![x] = @ \ {e}]
        /\ waiter' = [waiter EXCEPT ![x][e] = None]
        /\ scheduler' = [scheduler EXCEPT ![x][e] = "null"]
        /\ m_pendingEventCount' = m_pendingEventCount - 1
        /\ pc' = [pc EXCEPT ![t] = "run", ![w] = "dropped"]
    BY <1>4 DEF delEvent
  <2>2. w \in Tasks /\ pc[w] = "wait" /\ scheduled[w] = 0
    <3>1. w # None
      BY <1>1, <1>4 DEF WakeInv, Waking, WaiterOfEvent
    <3>2. w \in Tasks
      BY <1>1, <3>1
    <3>3. QED
      BY <1>1, <3>2 DEF WakeInv, Waking, HeldWaits
  <2>3. \A u \in Tasks : pc'[u] = IF u = t THEN "run" ELSE IF u = w THEN "dropped" ELSE pc[u]
    BY <1>1, <2>1, <2>2
  <2>4. TableFull' /\ OpKnown'
    BY <1>1, <1>2, <2>3 DEF WakeInv, Known, TableFull, OpKnown, AtCtx, table, NoOp
  <2>5. pc' \in [Tasks -> Pcs]
    BY <1>1, <2>1 DEF Pcs
  <2> HIDE DEF x, e, w
  <2>6. /\ events' \in [Ctxs -> SUBSET Events]
        /\ scheduler' \in [Ctxs -> [Events -> {"null", "set", "garbage"}]]
        /\ waiter' \in [Ctxs -> [Events -> Tasks \union {None}]]
        /\ interest' \in [Fds -> [mask : SUBSET Events, ctx : Ctxs \union {None}]]
    BY <1>1, <2>1 DEF TypeOK, EpollSet, NotRegistered
  <2>7. /\ \A y \in Ctxs, f \in Events :
              waiter'[y][f] = IF y = x /\ f = e THEN None ELSE waiter[y][f]
        /\ \A y \in Ctxs : events'[y] = IF y = x THEN events[y] \ {e} ELSE events[y]
        /\ waiter \in [Ctxs -> [Events -> Tasks \union {None}]]
        /\ waiter[x][e] = w
    BY <1>1, <2>1 DEF TypeOK, w
  <2>8. Counted' /\ m_pendingEventCount' \in Nat
    <3>1. Registrations' = Registrations \ {<<x, e>>} /\ <<x, e>> \in Registrations
      BY <1>1, <1>4, <2>7, RegistrationsOf
    <3>2. IsFiniteSet(Registrations) /\ m_pendingEventCount = Cardinality(Registrations)
      BY DEF WakeInv, Counted, PendingExact
    <3>3. /\ IsFiniteSet(Registrations')
          /\ Cardinality(Registrations') = Cardinality(Registrations) - 1
          /\ Cardinality(Registrations') \in Nat
      BY <3>1, <3>2, FS_RemoveElement, FS_CardinalityType
    <3>4. QED
      BY <2>1, <3>2, <3>3 DEF Counted, PendingExact
  <2>9. TypeOK'
    BY <1>1, <1>2, <1>3, <2>5, <2>6, <2>8 DEF TypeOK, Pcs, Ops, table
  <2>10. WaiterOfEvent' /\ HeldOnce'
    <3>1. ASSUME NEW y \in Ctxs, NEW f \in Events
          PROVE  waiter'[y][f] # None <=> f \in events'[y]
      <4>1. waiter[y][f] # None <=> f \in events[y]
        BY DEF WakeInv, Waking, WaiterOfEvent
      <4>2. CASE y = x
        <5>1. events'[y] = events[y] \ {e} /\ waiter'[y][f] = IF f = e THEN None ELSE waiter[y][f]
          BY <2>7, <4>2
        <5>2. QED
          BY <4>1, <5>1
      <4>3. CASE y # x
        <5>1. events'[y] = events[y] /\ waiter'[y][f] = waiter[y][f]
          BY <2>7, <4>3
        <5>2. QED
          BY <4>1, <5>1
      <4>4. QED
        BY <4>2, <4>3
    <3>2. \A y \in Ctxs, f \in Events : waiter'[y][f] # None => waiter'[y][f] = waiter[y][f]
      BY <2>7
    <3>3. WaiterOfEvent' /\ HeldOnce'
      <4>1. WaiterOfEvent'
        BY <3>1 DEF WaiterOfEvent
      <4>2. HeldOnce'
        BY <3>2 DEF WakeInv, Waking, HeldOnce
      <4>3. QED
        BY <4>1, <4>2
    <3>4. QED
      BY <3>3
  <2>11. HeldWaits'
    <3> SUFFICES ASSUME NEW y \in Ctxs, NEW f \in Events, NEW u \in Tasks,
                        waiter'[y][f] = u
                 PROVE  pc'[u] = "wait" /\ scheduled'[u] = 0
      BY DEF HeldWaits
    <3>1. waiter[y][f] = u /\ ~(y = x /\ f = e)
      BY <1>1, <2>7
    <3>2. pc[u] = "wait" /\ scheduled[u] = 0
      BY <3>1 DEF WakeInv, Waking, HeldWaits
    <3>3. u # w
      BY <1>1, <2>7, <3>1 DEF WakeInv, Waking, HeldOnce
    <3>4. QED
      BY <1>1, <1>2, <2>3, <3>2, <3>3
  <2>12. ScheduledOnce'
    BY <1>1, <1>2, <2>2, <2>3 DEF WakeInv, Waking, ScheduledOnce
  <2>13. NotLost'
    <3> SUFFICES ASSUME NEW u \in Tasks, pc'[u] = "wait", scheduled'[u] = 0
                 PROVE  \E y \in Ctxs, f \in Events : waiter'[y][f] = u
      BY DEF NotLost
    <3>1. u # w /\ pc[u] = "wait" /\ scheduled[u] = 0
      BY <1>2, <2>3
    <3>2. PICK y \in Ctxs, f \in Events : waiter[y][f] = u
      BY <3>1 DEF WakeInv, Waking, NotLost
    <3>3. waiter'[y][f] = u
      BY <2>7, <3>1, <3>2
    <3>4. QED
      BY <3>3
  <2>14. QED
    BY <2>4, <2>8, <2>9, <2>10, <2>11, <2>12, <2>13 DEF WakeInv, Known, Waking
<1>5. CASE ~(e \in events[x] /\ EpollCtlOk(Fd(x), FALSE))
  <2>1. /\ pc' = [pc EXCEPT ![t] = "run"]
        /\ UNCHANGED <<interest, context, m_pendingEventCount>>
    BY <1>5 DEF delEvent
  <2>2. pc' \in [Tasks -> Pcs]
    BY <1>1, <2>1 DEF Pcs
  <2>3. TypeOK'
    BY <1>1, <1>2, <1>3, <2>1, <2>2 DEF TypeOK, Pcs, Ops, table, context
  <2>4. TableFull' /\ OpKnown'
    BY <1>1, <1>2, <2>1 DEF WakeInv, Known, TableFull, OpKnown, AtCtx, table, NoOp
  <2>5. Counted' /\ Waking'
    BY <1>1, <1>2, <2>1, Unmoved DEF context
  <2>6. QED
    BY <2>3, <2>4, <2>5 DEF WakeInv, Known
<1>6. QED
  BY <1>4, <1>5

\* close_f and resume: Return() after a step that moves at most the fiber.
LEMMA ReturnKnown ==
    ASSUME Known, NEW t \in Tasks, Return(t), UNCHANGED table,
           UNCHANGED <<context, m_pendingEventCount, reports, failed>>,
           interest' \in [Fds -> [mask : SUBSET Events, ctx : Ctxs \union {None}]],
           open' \subseteq Fds, raced' \subseteq Fds, scheduled' \in [Tasks -> Nat]
    PROVE  Known'
<1>1. pc \in [Tasks -> Pcs] /\ op \in [Tasks -> Ops]
  BY DEF Known, TypeOK, Pcs, Ops
<1>2. pc' \in [Tasks -> Pcs] /\ op' \in [Tasks -> Ops]
  BY <1>1, NoOpTyped DEF Return, Pcs
<1>3. TypeOK'
  BY <1>2 DEF Known, TypeOK, Pcs, Ops, table, context
<1>4. TableFull' /\ OpKnown'
  BY <1>1 DEF Known, TableFull, OpKnown, AtCtx, Return, table, NoOp
<1>5. QED
  BY <1>3, <1>4 DEF Known

\* run() takes a fiber that is in m_fibers once and held nowhere.
LEMMA ResumeWake ==
    ASSUME WakeInv, NEW t \in Tasks, resume(t)
    PROVE  WakeInv'
<1>1. /\ scheduled \in [Tasks -> Nat] /\ pc \in [Tasks -> Pcs] /\ None \notin Tasks
      /\ open \subseteq Fds /\ raced \subseteq Fds
      /\ interest \in [Fds -> [mask : SUBSET Events, ctx : Ctxs \union {None}]]
  BY IOAssumption DEF WakeInv, Known, TypeOK, Pcs
<1>2. scheduled[t] = 1 /\ pc[t] = "wait"
  BY <1>1 DEF WakeInv, Waking, ScheduledOnce, resume
<1>3. /\ \A u \in Tasks : scheduled'[u] = IF u = t THEN 0 ELSE scheduled[u]
      /\ \A u \in Tasks : pc'[u] = IF u = t THEN "run" ELSE pc[u]
      /\ scheduled' \in [Tasks -> Nat]
      /\ UNCHANGED <<events, waiter, m_pendingEventCount>>
  BY <1>1, <1>2 DEF resume, Return, context
<1>4. \A x \in Ctxs, e \in Events : waiter[x][e] # t
  BY <1>2 DEF WakeInv, Waking, HeldWaits
<1>5. Known'
  BY <1>1, <1>3, ReturnKnown DEF WakeInv, resume, kernel
<1>6. Counted'
  BY <1>3 DEF WakeInv, Counted, PendingExact, Registrations
<1>7. Waking'
  <2>1. WaiterOfEvent' /\ HeldOnce'
    BY <1>3 DEF WakeInv, Waking, WaiterOfEvent, HeldOnce
  <2>2. HeldWaits'
    BY <1>3, <1>4 DEF WakeInv, Waking, HeldWaits
  <2>3. ScheduledOnce'
    BY <1>3 DEF WakeInv, Waking, ScheduledOnce
  <2>4. NotLost'
    BY <1>3 DEF WakeInv, Waking, NotLost
  <2>5. QED
    BY <2>1, <2>2, <2>3, <2>4 DEF Waking
<1>8. QED
  BY <1>5, <1>6, <1>7 DEF WakeInv

\* A dispatcher handles one report under the context's mutex.
LEMMA DispatchWake ==
    ASSUME WakeInv, NEW d \in Dispatchers, NEW r \in reports[d], dispatch(d, r)
    PROVE  WakeInv'
<1> DEFINE x == r.ctx
<1>1. /\ TypeOK /\ x \in Ctxs /\ Fd(x) \in Fds /\ r.real_events \in SUBSET Events
      /\ reports \in [Dispatchers -> SUBSET [ctx : Ctxs, real_events : SUBSET Events]]
      /\ interest \in [Fds -> [mask : SUBSET Events, ctx : Ctxs \union {None}]]
  <2>1. /\ TypeOK
        /\ reports \in [Dispatchers -> SUBSET [ctx : Ctxs, real_events : SUBSET Events]]
        /\ interest \in [Fds -> [mask : SUBSET Events, ctx : Ctxs \union {None}]]
    BY DEF WakeInv, Known, TypeOK
  <2>2. r \in [ctx : Ctxs, real_events : SUBSET Events]
    BY <2>1
  <2>3. x \in Ctxs /\ r.real_events \in SUBSET Events
    BY <2>2
  <2>4. Fd(x) \in Fds
    BY <2>3 DEF Fd, Ctxs
  <2>5. QED
    BY <2>1, <2>3, <2>4
<1>2. UNCHANGED <<table, open, raced, task>>
  BY DEF dispatch
<1>3. TableFull' /\ OpKnown'
  BY <1>2 DEF WakeInv, Known, TableFull, OpKnown, table, task
<1>4. ASSUME UNCHANGED <<context, m_pendingEventCount, scheduled, interest>>,
             reports' \in {reports, [reports EXCEPT ![d] = @ \ {r}]},
             failed' \in {failed, "triggerEvent"}
      PROVE  WakeInv'
  <2>1. reports' \in [Dispatchers -> SUBSET [ctx : Ctxs, real_events : SUBSET Events]]
    BY <1>1, <1>4
  <2>2. TypeOK'
    BY <1>1, <1>2, <1>4, <2>1 DEF TypeOK, table, task, context
  <2>3. Counted' /\ Waking'
    BY <1>2, <1>4, Unmoved DEF task, context
  <2>4. QED
    BY <1>3, <2>2, <2>3 DEF WakeInv, Known
<1>5. ASSUME r.real_events \subseteq events[x],
             reports' = [reports EXCEPT ![d] = @ \ {r}],
             EpollSet(Fd(x), events[x] \ r.real_events, x),
             Trigger(x, r.real_events), UNCHANGED failed
      PROVE  WakeInv'
  <2>1. interest' \in [Fds -> [mask : SUBSET Events, ctx : Ctxs \union {None}]]
    <3>1. events[x] \in SUBSET Events
      BY <1>1 DEF TypeOK
    <3>2. QED
      BY <1>1, <1>5, <3>1 DEF EpollSet, NotRegistered
  <2>2. reports' \in [Dispatchers -> SUBSET [ctx : Ctxs, real_events : SUBSET Events]]
    BY <1>1, <1>5
  <2> HIDE DEF x
  <2>3. /\ events' \in [Ctxs -> SUBSET Events]
        /\ scheduler' \in [Ctxs -> [Events -> {"null", "set", "garbage"}]]
        /\ waiter' \in [Ctxs -> [Events -> Tasks \union {None}]]
        /\ scheduled' \in [Tasks -> Nat]
        /\ m_pendingEventCount' \in Nat
        /\ Counted' /\ Waking'
    <3>1. r.real_events \in SUBSET events[x]
      BY <1>5
    <3>2. \A u \in Tasks : pc'[u] = "wait" <=> pc[u] = "wait"
      BY <1>2 DEF task
    <3>3. QED
      BY <1>1, <1>5, <3>1, <3>2, TriggerWakes
  <2>4. TypeOK'
    BY <1>1, <1>2, <1>5, <2>1, <2>2, <2>3 DEF TypeOK, table, task
  <2>5. QED
    BY <1>3, <2>3, <2>4 DEF WakeInv, Known
<1>6. QED
  BY <1>4, <1>5 DEF dispatch

\* epoll_wait reports what is registered, under the registered context.
LEMMA EpollWaitWake ==
    ASSUME WakeInv, NEW d \in Dispatchers, epoll_wait(d)
    PROVE  WakeInv'
<1>0. PICK S \in SUBSET {fd \in Fds : interest[fd].ctx # None} :
         \E got \in [S -> SUBSET Events] :
           reports' = [reports EXCEPT ![d] =
                 {[ctx |-> interest[fd].ctx, real_events |-> got[fd]] : fd \in S}]
  BY DEF epoll_wait
<1>1. PICK got \in [S -> SUBSET Events] :
           reports' = [reports EXCEPT ![d] =
                 {[ctx |-> interest[fd].ctx, real_events |-> got[fd]] : fd \in S}]
  BY <1>0
<1>2. /\ interest \in [Fds -> [mask : SUBSET Events, ctx : Ctxs \union {None}]]
      /\ reports \in [Dispatchers -> SUBSET [ctx : Ctxs, real_events : SUBSET Events]]
  BY DEF WakeInv, Known, TypeOK
<1>3. \A fd \in S : interest[fd].ctx \in Ctxs
  BY <1>2
<1>4. {[ctx |-> interest[fd].ctx, real_events |-> got[fd]] : fd \in S}
         \in SUBSET [ctx : Ctxs, real_events : SUBSET Events]
  BY <1>3
<1>5. reports' \in [Dispatchers -> SUBSET [ctx : Ctxs, real_events : SUBSET Events]]
  BY <1>1, <1>2, <1>4
<1>6. UNCHANGED <<table, context, m_pendingEventCount, kernel, task, scheduled, failed>>
  BY DEF epoll_wait
<1>7. Known'
  BY <1>5, <1>6 DEF WakeInv, Known, TypeOK, TableFull, OpKnown, table, context, kernel, task
<1>8. Counted' /\ Waking'
  BY <1>6, Unmoved DEF context, task
<1>9. QED
  BY <1>7, <1>8 DEF WakeInv

\* Nothing is registered and nobody waits when the IOManager is constructed.
LEMMA InitWake == Init => WakeInv
<1> SUFFICES ASSUME Init PROVE WakeInv
  OBVIOUS
<1>1. m_fdContexts \in [Fds -> Ctxs \union {None}] /\ TableFull
  <2>1. \A fd \in Fds : <<fd, 0>> \in Ctxs /\ <<fd, 0>> # None
    BY IOAssumption DEF Ctxs
  <2>2. QED
    BY <2>1, IOAssumption DEF Init, TableFull
<1>2. op \in [Tasks -> Ops]
  BY NoOpTyped DEF Init
<1>3. /\ interest \in [Fds -> [mask : SUBSET Events, ctx : Ctxs \union {None}]]
      /\ allocs \in [Fds -> 0..MaxAllocs] /\ size \in Nat
      /\ scheduler \in [Ctxs -> [Events -> {"null", "set", "garbage"}]]
  BY IOAssumption DEF Init, NotRegistered, FreshScheduler
<1>4. TypeOK
  BY <1>1, <1>2, <1>3 DEF Init, TypeOK, Ops
<1>5. OpKnown
  BY DEF Init, OpKnown, AtCtx
<1>6. Counted
  <2>1. Registrations = {}
    BY DEF Init, Registrations
  <2>2. QED
    BY <2>1, FS_EmptySet DEF Init, Counted, PendingExact
<1>7. Waking
  BY IOAssumption DEF Init, Waking, WaiterOfEvent, HeldWaits, HeldOnce, ScheduledOnce, NotLost
<1>8. QED
  BY <1>1, <1>4, <1>5, <1>6, <1>7 DEF WakeInv, Known

\* Every operation of a task and of a dispatcher keeps the invariant.
LEMMA NextWake == WakeInv /\ [Next]_vars => WakeInv'
<1> SUFFICES ASSUME WakeInv, [Next]_vars PROVE WakeInv'
  OBVIOUS
<1>1. ASSUME NEW t \in Tasks, NEW fd \in Fds, NEW e \in Events,
             addEventLookup(t, fd, e) PROVE WakeInv'
  BY <1>1, LookupWake DEF addEventLookup, AtCtx
<1>2. ASSUME NEW t \in Tasks, NEW fd \in Fds, NEW e \in Events,
             delEventLookup(t, fd, e) PROVE WakeInv'
  BY <1>2, LookupWake DEF delEventLookup, AtCtx
<1>3. ASSUME NEW t \in Tasks, NEW fd \in Fds, NEW e \in Events,
             cancelEventLookup(t, fd, e) PROVE WakeInv'
  BY <1>3, LookupWake DEF cancelEventLookup, AtCtx
<1>4. ASSUME NEW t \in Tasks, NEW fd \in Fds, closeLookup(t, fd) PROVE WakeInv'
  BY <1>4, LookupWake DEF closeLookup, AtCtx, Events
<1>5. ASSUME NEW t \in Tasks, NEW fd \in Fds, reopen(t, fd) PROVE WakeInv'
  <2>1. Known'
    BY <1>5 DEF WakeInv, Known, TypeOK, TableFull, OpKnown, reopen, table, context, task
  <2>2. Counted' /\ Waking'
    BY <1>5, Unmoved DEF reopen, context, task
  <2>3. QED
    BY <2>1, <2>2 DEF WakeInv
<1>6. ASSUME NEW t \in Tasks, contextResize(t) PROVE WakeInv'
  <2>1. Known'
    BY <1>6, ResizeKnown DEF WakeInv
  <2>2. \A u \in Tasks : pc'[u] = "wait" <=> pc[u] = "wait"
    BY <1>6 DEF WakeInv, Known, TypeOK, contextResize
  <2>3. Counted' /\ Waking'
    BY <1>6, <2>2, Unmoved DEF contextResize
  <2>4. QED
    BY <2>1, <2>3 DEF WakeInv
<1>7. ASSUME NEW t \in Tasks, addEvent(t) PROVE WakeInv'
  BY <1>7, AddWake
<1>8. ASSUME NEW t \in Tasks, delEvent(t) PROVE WakeInv'
  BY <1>8, DelWake
<1>9. ASSUME NEW t \in Tasks, cancelEvent(t) PROVE WakeInv'
  <2>1. {op[t].event} \intersect events[op[t].ctx] \in SUBSET events[op[t].ctx]
    OBVIOUS
  <2>2. QED
    BY <1>9, <2>1, CancelWake DEF cancelEvent
<1>10. ASSUME NEW t \in Tasks, cancelAll(t) PROVE WakeInv'
  <2>1. events[op[t].ctx] \in SUBSET events[op[t].ctx]
    OBVIOUS
  <2>2. QED
    BY <1>10, <2>1, CancelWake DEF cancelAll
<1>11. ASSUME NEW t \in Tasks, close(t) PROVE WakeInv'
  <2>1. /\ interest' \in [Fds -> [mask : SUBSET Events, ctx : Ctxs \union {None}]]
        /\ open' \subseteq Fds /\ raced' \subseteq Fds /\ scheduled' \in [Tasks -> Nat]
    <3>1. \A y \in Ctxs : Fd(y) \in Fds
      BY DEF Ctxs, Fd
    <3>2. raced' \subseteq Fds
      BY <1>11, <3>1 DEF WakeInv, Known, TypeOK, close
    <3>3. QED
      BY <1>11, <3>2 DEF WakeInv, Known, TypeOK, close, NotRegistered
  <2>2. Known'
    BY <1>11, <2>1, ReturnKnown DEF WakeInv, close
  <2>3. \A u \in Tasks : pc'[u] = "wait" <=> pc[u] = "wait"
    BY <1>11 DEF WakeInv, Known, TypeOK, close, Return
  <2>4. Counted' /\ Waking'
    BY <1>11, <2>3, Unmoved DEF close, context
  <2>5. QED
    BY <2>2, <2>4 DEF WakeInv
<1>12. ASSUME NEW t \in Tasks, resume(t) PROVE WakeInv'
  BY <1>12, ResumeWake
<1>13. ASSUME NEW d \in Dispatchers, epoll_wait(d) PROVE WakeInv'
  BY <1>13, EpollWaitWake
<1>14. ASSUME NEW d \in Dispatchers, NEW r \in reports[d], dispatch(d, r) PROVE WakeInv'
  BY <1>14, DispatchWake
<1>15. CASE UNCHANGED vars
  <2>1. Known'
    BY <1>15 DEF WakeInv, Known, TypeOK, TableFull, OpKnown, vars, table, context, kernel, task
  <2>2. Counted' /\ Waking'
    BY <1>15, Unmoved DEF vars, context, task
  <2>3. QED
    BY <2>1, <2>2 DEF WakeInv
<1>16. QED
  BY <1>1, <1>2, <1>3, <1>4, <1>5, <1>6, <1>7, <1>8, <1>9, <1>10, <1>11, <1>12,
     <1>13, <1>14, <1>15 DEF Next, TaskStep, IdleStep

\* The invariant of Part 1 in every reachable state.
THEOREM WakeInductive == Spec => []WakeInv
<1>1. Init => WakeInv
  BY InitWake
<1>2. WakeInv /\ [Next]_vars => WakeInv'
  BY NextWake
<1>3. QED
  BY <1>1, <1>2, PTL DEF Spec

\* The types hold; m_pendingEventCount, unsigned in the code, is never taken
\* below 0 by delEvent, cancelEvent, cancelAll or the dispatch in idle().
THEOREM TypeCorrect == Spec => []TypeOK
<1>1. WakeInv => TypeOK
  BY DEF WakeInv, Known
<1>2. QED
  BY <1>1, WakeInductive, PTL

\* m_pendingEventCount, which stopping() compares with 0, is the number of
\* registered events.
THEOREM PendingExactAlways == Spec => []PendingExact
<1>1. WakeInv => PendingExact
  BY DEF WakeInv, Counted
<1>2. QED
  BY <1>1, WakeInductive, PTL

\* A waiting fiber is held by one registration or is in m_fibers once, and any
\* other fiber is in neither, whatever races with addEvent, delEvent, cancel,
\* close and the dispatch.
THEOREM ExactlyOneWakeAlways == Spec => []ExactlyOneWake
<1>1. WakeInv => ExactlyOneWake
  <2> SUFFICES ASSUME WakeInv, NEW t \in Tasks
               PROVE  scheduled[t] + Cardinality(HeldFor(t)) = IF pc[t] = "wait" THEN 1 ELSE 0
    BY DEF ExactlyOneWake
  <2>1. scheduled[t] \in Nat /\ t # None
    BY IOAssumption DEF WakeInv, Known, TypeOK
  <2>2. CASE \E x \in Ctxs, e \in Events : waiter[x][e] = t
    <3>1. PICK x \in Ctxs, e \in Events : waiter[x][e] = t
      BY <2>2
    <3>2. pc[t] = "wait" /\ scheduled[t] = 0
      BY <3>1 DEF WakeInv, Waking, HeldWaits
    <3>3. \A r \in Ctxs \X Events : waiter[r[1]][r[2]] = t <=> r = <<x, e>>
      <4>1. \A r \in Ctxs \X Events : r[1] \in Ctxs /\ r[2] \in Events
                               /\ (r = <<x, e>> <=> r[1] = x /\ r[2] = e)
        OBVIOUS
      <4>2. QED
        BY <2>1, <3>1, <4>1 DEF WakeInv, Waking, HeldOnce
    <3>4. HeldFor(t) = {<<x, e>>}
      BY <3>3 DEF HeldFor
    <3>5. Cardinality(HeldFor(t)) = 1
      BY <3>4, FS_Singleton
    <3>6. QED
      BY <3>2, <3>5
  <2>3. CASE ~ \E x \in Ctxs, e \in Events : waiter[x][e] = t
    <3>1. HeldFor(t) = {}
      BY <2>3 DEF HeldFor
    <3>2. Cardinality(HeldFor(t)) = 0
      BY <3>1, FS_EmptySet
    <3>3. scheduled[t] = IF pc[t] = "wait" THEN 1 ELSE 0
      BY <2>1, <2>3 DEF WakeInv, Waking, ScheduledOnce, NotLost
    <3>4. QED
      BY <2>1, <3>2, <3>3
  <2>4. QED
    BY <2>2, <2>3
<1>2. QED
  BY <1>1, WakeInductive, PTL

-----------------------------------------------------------------------------
(* Part 2.                                                                 *)

\* epoll_ctl for context x follows what happens to its events, when epoll has
\* nothing for the descriptor or what x had.
LEMMA SetAgrees ==
    ASSUME KernelAgrees, TypeOK, NEW x \in Ctxs, NEW mask \in SUBSET Events,
           interest[Fd(x)].ctx = None \/ events[x] # {},
           EpollSet(Fd(x), mask, x), events' = [events EXCEPT ![x] = mask], raced' = raced
    PROVE  KernelAgrees'
<1>1. /\ events \in [Ctxs -> SUBSET Events] /\ Fd(x) \in Fds /\ None \notin Ctxs
      /\ interest \in [Fds -> [mask : SUBSET Events, ctx : Ctxs \union {None}]]
  BY IOAssumption DEF TypeOK, Fd, Ctxs
<1> SUFFICES ASSUME NEW y \in Ctxs, Fd(y) \notin raced
             PROVE  events'[y] = IF interest'[Fd(y)].ctx = y THEN interest'[Fd(y)].mask ELSE {}
  BY DEF KernelAgrees
<1>2. interest'[Fd(x)] = IF mask = {} THEN NotRegistered ELSE [mask |-> mask, ctx |-> x]
  BY <1>1 DEF EpollSet
<1>3. CASE y = x
  BY <1>1, <1>2, <1>3 DEF NotRegistered
<1>4. CASE y # x /\ Fd(y) = Fd(x)
  <2>1. interest[Fd(x)].ctx # y
    BY <1>1, <1>4 DEF KernelAgrees
  <2>2. events'[y] = {}
    BY <1>1, <1>4, <2>1 DEF KernelAgrees
  <2>3. interest'[Fd(y)].ctx # y
    BY <1>1, <1>2, <1>4 DEF NotRegistered
  <2>4. QED
    BY <2>2, <2>3
<1>5. CASE Fd(y) # Fd(x)
  <2>1. events'[y] = events[y] /\ interest'[Fd(y)] = interest[Fd(y)]
    BY <1>1, <1>5 DEF EpollSet
  <2>2. QED
    BY <2>1 DEF KernelAgrees
<1>6. QED
  BY <1>3, <1>4, <1>5

\* Every step keeps contexts and epoll in agreement.
LEMMA NextAgrees == WakeInv /\ KernelAgrees /\ [Next]_vars => KernelAgrees'
<1> SUFFICES ASSUME WakeInv, KernelAgrees, [Next]_vars PROVE KernelAgrees'
  OBVIOUS
<1>1. /\ TypeOK /\ events \in [Ctxs -> SUBSET Events]
      /\ \A t \in Tasks : pc[t] \in AtCtx => op[t].ctx \in Ctxs
      /\ \A t \in Tasks : op[t].event \in Events
  BY DEF WakeInv, Known, OpKnown, TypeOK
<1>2. ASSUME UNCHANGED <<events, interest, raced>> PROVE KernelAgrees'
  BY <1>2 DEF KernelAgrees
<1>3. ASSUME NEW t \in Tasks, addEvent(t) PROVE KernelAgrees'
  <2> DEFINE x == op[t].ctx
             e == op[t].event
  <2>1. x \in Ctxs /\ e \in Events
    BY <1>1, <1>3 DEF addEvent, AtCtx
  <2>2. CASE UNCHANGED <<events, interest, raced>>
    BY <1>2, <2>2
  <2>3. CASE ~UNCHANGED <<events, interest, raced>>
    <3>1. /\ EpollCtlOk(Fd(x), events[x] = {}) /\ EpollSet(Fd(x), events[x] \union {e}, x)
          /\ events' = [events EXCEPT ![x] = @ \union {e}] /\ raced' = raced
      BY <1>3, <2>3 DEF addEvent, Abort, context, kernel
    <3>2. interest[Fd(x)].ctx = None \/ events[x] # {}
      BY <3>1 DEF EpollCtlOk
    <3> DEFINE m == events[x] \union {e}
    <3>3. events' = [events EXCEPT ![x] = m] /\ m \in SUBSET Events
      BY <1>1, <2>1, <3>1
    <3> HIDE DEF x, e, m
    <3>4. QED
      BY <1>1, <2>1, <3>1, <3>2, <3>3, SetAgrees DEF m
  <2>4. QED
    BY <2>2, <2>3
<1>4. ASSUME NEW x \in Ctxs, NEW E \in SUBSET Events, E \intersect events[x] # {},
             EpollSet(Fd(x), events[x] \ E, x), events' = [events EXCEPT ![x] = @ \ E],
             raced' = raced
      PROVE  KernelAgrees'
  <2> DEFINE m == events[x] \ E
  <2>1. events' = [events EXCEPT ![x] = m] /\ m \in SUBSET Events /\ events[x] # {}
    BY <1>1, <1>4
  <2>2. EpollSet(Fd(x), m, x)
    BY <1>4
  <2> HIDE DEF m
  <2>3. QED
    BY <1>1, <1>4, <2>1, <2>2, SetAgrees
<1>5. ASSUME NEW t \in Tasks, delEvent(t) PROVE KernelAgrees'
  <2> DEFINE x == op[t].ctx
             e == op[t].event
  <2>1. x \in Ctxs /\ e \in Events
    BY <1>1, <1>5 DEF delEvent, AtCtx
  <2>2. CASE e \in events[x] /\ EpollCtlOk(Fd(x), FALSE)
    <3>1. /\ EpollSet(Fd(x), events[x] \ {e}, x)
          /\ events' = [events EXCEPT ![x] = @ \ {e}] /\ raced' = raced
      BY <1>5, <2>2 DEF delEvent
    <3>2. {e} \in SUBSET Events /\ {e} \intersect events[x] # {}
      BY <2>1, <2>2
    <3> HIDE DEF x, e
    <3>3. QED
      BY <1>4, <2>1, <3>1, <3>2
  <2>3. CASE ~(e \in events[x] /\ EpollCtlOk(Fd(x), FALSE))
    BY <1>2, <1>5, <2>3 DEF delEvent, context
  <2>4. QED
    BY <2>2, <2>3
<1>6. ASSUME NEW t \in Tasks, NEW E, NEW next, op[t].ctx \in Ctxs, E \subseteq events[op[t].ctx],
             Cancel(t, op[t].ctx, E, next)
      PROVE  KernelAgrees'
  <2> DEFINE x == op[t].ctx
  <2>1. CASE E # {} /\ EpollCtlOk(Fd(x), FALSE)
    <3>1. /\ EpollSet(Fd(x), events[x] \ E, x)
          /\ events' = [events EXCEPT ![x] = @ \ E] /\ raced' = raced
      BY <1>6, <2>1 DEF Cancel, Trigger
    <3>2. x \in Ctxs /\ E \in SUBSET Events /\ E \intersect events[x] # {}
      BY <1>1, <1>6, <2>1
    <3> HIDE DEF x
    <3>3. QED
      BY <1>4, <3>1, <3>2
  <2>2. CASE ~(E # {} /\ EpollCtlOk(Fd(x), FALSE))
    BY <1>2, <1>6, <2>2 DEF Cancel, context
  <2>3. QED
    BY <2>1, <2>2
<1>7. ASSUME NEW t \in Tasks, cancelEvent(t) \/ cancelAll(t) PROVE KernelAgrees'
  <2>1. op[t].ctx \in Ctxs
    BY <1>1, <1>7 DEF cancelEvent, cancelAll, AtCtx
  <2>2. \E E \in SUBSET events[op[t].ctx], next \in {"run", "close"} :
           Cancel(t, op[t].ctx, E, next)
    BY <1>7 DEF cancelEvent, cancelAll
  <2>3. QED
    BY <1>6, <2>1, <2>2
<1>8. ASSUME NEW d \in Dispatchers, NEW r \in reports[d], dispatch(d, r) PROVE KernelAgrees'
  <2> DEFINE x == r.ctx
             E == r.real_events
  <2>1. x \in Ctxs /\ E \in SUBSET Events
    <3>1. reports \in [Dispatchers -> SUBSET [ctx : Ctxs, real_events : SUBSET Events]]
      BY <1>1 DEF TypeOK
    <3>2. r \in [ctx : Ctxs, real_events : SUBSET Events]
      BY <3>1
    <3>3. QED
      BY <3>2
  <2>2. CASE UNCHANGED <<events, interest, raced>>
    BY <1>2, <2>2
  <2>3. CASE ~UNCHANGED <<events, interest, raced>>
    <3>1. /\ events[x] \intersect E # {} /\ EpollSet(Fd(x), events[x] \ E, x)
          /\ events' = [events EXCEPT ![x] = @ \ E] /\ raced' = raced
      BY <1>8, <2>3 DEF dispatch, Trigger, context
    <3> HIDE DEF x, E
    <3>2. QED
      BY <1>4, <2>1, <3>1
  <2>4. QED
    BY <2>2, <2>3
<1>9. ASSUME NEW t \in Tasks, close(t) PROVE KernelAgrees'
  <2> DEFINE fd == op[t].fd
  <2>1. /\ events' = events /\ interest' = [interest EXCEPT ![fd] = NotRegistered]
        /\ raced' = raced \union {Fd(x) : x \in {y \in Ctxs : Fd(y) = fd /\ events[y] # {}}}
        /\ fd \in Fds
    BY <1>9 DEF close, context, WakeInv, Known, OpKnown
  <2> SUFFICES ASSUME NEW y \in Ctxs, Fd(y) \notin raced'
               PROVE  events'[y] = IF interest'[Fd(y)].ctx = y THEN interest'[Fd(y)].mask ELSE {}
    BY DEF KernelAgrees
  <2>2. Fd(y) \notin raced /\ Fd(y) \in Fds /\ y # None
    BY <2>1, IOAssumption DEF Fd, Ctxs
  <2>3. CASE Fd(y) = fd
    <3>1. events[y] = {}
      BY <2>1, <2>3
    <3>2. interest'[Fd(y)] = NotRegistered
      BY <1>1, <2>1, <2>3 DEF TypeOK
    <3>3. QED
      BY <2>1, <2>2, <3>1, <3>2 DEF NotRegistered
  <2>4. CASE Fd(y) # fd
    BY <1>1, <2>1, <2>2, <2>4 DEF KernelAgrees, TypeOK
  <2>5. QED
    BY <2>3, <2>4
<1>10. ASSUME NEW t \in Tasks, contextResize(t) \/ resume(t) PROVE KernelAgrees'
  BY <1>2, <1>10 DEF contextResize, resume, context, kernel
<1>11. ASSUME NEW t \in Tasks, NEW fd \in Fds, closeLookup(t, fd) \/ reopen(t, fd)
       PROVE  KernelAgrees'
  BY <1>2, <1>11 DEF closeLookup, reopen, Lookup, context, kernel
<1>12. ASSUME NEW t \in Tasks, NEW fd \in Fds, NEW e \in Events,
              addEventLookup(t, fd, e) \/ delEventLookup(t, fd, e) \/ cancelEventLookup(t, fd, e)
       PROVE  KernelAgrees'
  BY <1>2, <1>12 DEF addEventLookup, delEventLookup, cancelEventLookup, Lookup, context, kernel
<1>13. ASSUME NEW d \in Dispatchers, epoll_wait(d) PROVE KernelAgrees'
  BY <1>2, <1>13 DEF epoll_wait, context, kernel
<1>14. CASE UNCHANGED vars
  BY <1>2, <1>14 DEF vars, context, kernel
<1>15. QED
  BY <1>3, <1>5, <1>7, <1>8, <1>9, <1>10, <1>11, <1>12, <1>13, <1>14
     DEF Next, TaskStep, IdleStep

\* epoll and the contexts agree on every descriptor that was not closed under a
\* registered event, whatever stale contexts and reports, failing epoll_ctl
\* calls, hang-ups and a shrinking table come in between.
THEOREM KernelAgreesAlways == Spec => []KernelAgrees
<1>1. Init => KernelAgrees
  BY DEF Init, KernelAgrees, NotRegistered, Fd, Ctxs
<1>2. QED
  BY <1>1, NextAgrees, WakeInductive, PTL DEF Spec
=============================================================================
