--------------------------- MODULE SchedulerProofs ---------------------------
(***************************************************************************)
(* Theorems about the pool, for any threads, callbacks and fibers.         *)
(*                                                                         *)
(* The types and ActiveExact hold in every environment, early wake-ups     *)
(* included.  The others are about callbacks that may yield but never wait *)
(* for an event ("hold" not in Switches): every fiber is then in at most   *)
(* one place - the queue, or a thread's ft or cb_fiber - and its m_state   *)
(* tells which, although no lock protects it.  They fail for callbacks     *)
(* that wait, which another thread may resume before run() is done with    *)
(* them.  DrainedAtStop also needs that callbacks pin what they schedule   *)
(* to their own thread or to none: every entry then always has a thread    *)
(* that will look at m_fibers again.                                       *)
(***************************************************************************)
EXTENDS Scheduler, FiniteSetTheorems, TLAPS

\* Where a thread is on a fiber's stack, counts as active, or has a fiber in
\* its slot.
OnStack == {"exec", "yield", "out"}
ActivePcs == {"taken", "in", "switch", "exec", "yield", "out", "back"}
Switched == {"in", "switch", "exec", "yield", "out", "back", "state", "end?",
             "resched", "hold"}
Active == {th \in Threads : pc[th] \in ActivePcs}

OneKind(e) == (e.fiber = None) <=> (e.cb # None)
QueueKinds == \A i \in 1..Len(m_fibers) : OneKind(m_fibers[i])
TakenKinds == \A th \in Threads : pc[th] = "taken" => OneKind(ft[th])
SlotFilled == \A th \in Threads : /\ pc[th] \in Switched => Slot(th) # None
                                  /\ pc[th] \in OnStack => cur[th] # None
NotStarted == /\ mpc = "new" => \A th \in Threads : pc[th] = "new"
              /\ mpc \in {"main", "stop", "quiet"} /\ UseCaller => pc[Main] = "new"
Shape == QueueKinds /\ TakenKinds /\ SlotFilled /\ NotStarted
PoolInv == TypeOK /\ ActiveExact /\ Shape

\* One place for every fiber, when no callback waits.
Holds(th, f) == f \in {ft[th].fiber, cb_fiber[th]}
Queued(f) == \E i \in 1..Len(m_fibers) : m_fibers[i].fiber = f
InUse(th) == pc[th] \in Switched /\ ft[th].fiber = None
OneOwner ==
    /\ \A th, u \in Threads, f \in Fibers : Holds(th, f) /\ Holds(u, f) => th = u
    /\ \A th \in Threads : ft[th].fiber # None => ft[th].fiber # cb_fiber[th]
QueueOnce == \A i, j \in 1..Len(m_fibers) :
    i # j /\ m_fibers[i].fiber # None => m_fibers[i].fiber # m_fibers[j].fiber
QueueFree == \A f \in Fibers : Queued(f) =>
    /\ \A th \in Threads : ~Holds(th, f)
    /\ f \notin armed /\ m_state[f] \in {"READY", "HOLD"}
\* m_state of the fiber a thread switched to, by the place in run().
StateAt(l) == CASE l \in {"in", "switch"} -> {"INIT", "HOLD", "READY"}
                [] l \in {"exec", "yield"} -> {"EXEC"}
                [] l \in {"out", "back", "state"} -> {"HOLD", "READY"} \union Ended
                [] l = "end?" -> {"HOLD"} \union Ended
                [] l = "resched" -> {"READY"}
                [] l = "hold" -> {"HOLD"}
Placed == \A th \in Threads :
    /\ pc[th] \in {"new", "pick", "idle", "quiet", "exited"} => ft[th].fiber = None
    /\ pc[th] \in Switched => m_state[Slot(th)] \in StateAt(pc[th])
    /\ cur[th] = IF pc[th] \in OnStack THEN Slot(th) ELSE None
TakenFree == \A th \in Threads :
    pc[th] \in {"taken", "in", "switch"} /\ ft[th].fiber # None =>
    m_state[ft[th].fiber] \in {"READY", "HOLD"} /\ ft[th].fiber \notin armed
SpareReset == \A th \in Threads : cb_fiber[th] # None /\ ~InUse(th) =>
    m_state[cb_fiber[th]] = "INIT"
NoneArmed == armed = {}
OwnInv == /\ OneOwner /\ QueueOnce /\ QueueFree /\ Placed /\ TakenFree /\ SpareReset
          /\ NoneArmed /\ NoAbort

\* A thread that will look at m_fibers again.
Live(th) == \/ pc[th] \notin {"new", "idle", "exited"}
            \/ pc[th] = "idle" /\ ~idle_term[th]
            \/ pc[th] = "new" /\ mpc \in {"new", "main", "stop", "quiet"}
NeverHeld == /\ armed = {} /\ \A f \in Fibers : m_state[f] # "HOLD"
             /\ \A th \in Threads : pc[th] \notin {"yield", "hold"}
Watched == \A i \in 1..Len(m_fibers) : \E th \in Threads :
    m_fibers[i].thread \in {AnyThread, th} /\ Live(th)
Running == /\ mpc \in {"new", "main"} => /\ ~m_autoStop
                                         /\ \A th \in Threads : ~idle_term[th] /\ pc[th] # "exited"
           /\ mpc # "new" => \A w \in Workers : pc[w] # "new"
Halted == mpc = "stopped" =>
    m_fibers = <<>> /\ \A th \in Threads : pc[th] \in {"exited", "new"}
\* Where a callback is that was scheduled and has not ended.
Reached(f) == \/ Queued(f)
              \/ \E th \in Threads : pc[th] = "taken" /\ ft[th].fiber = f
              \/ \E th \in Threads : pc[th] \in Switched /\ Slot(th) = f
InQueue(c) == \E i \in 1..Len(m_fibers) : m_fibers[i].cb = c
Found(c) == \/ c \in unscheduled \union done \/ InQueue(c)
            \/ \E th \in Threads : pc[th] = "taken" /\ ft[th].cb = c
            \/ \E f \in Fibers : m_cb[f] = c /\ Reached(f)
Tracked == \A c \in Cbs : Found(c)
EndedDone == \A f \in Fibers : m_state[f] \in Ended => m_cb[f] \in done \union {None}
DrainInv == NeverHeld /\ Watched /\ Running /\ Halted /\ Tracked /\ EndedDone

-----------------------------------------------------------------------------
(* The queue.                                                              *)

\* Erasing entry i keeps the others, in order.
LEMMA WithoutEntry ==
    ASSUME NEW S, NEW s \in Seq(S), NEW i \in 1..Len(s)
    PROVE  /\ Without(s, i) \in Seq(S)
           /\ Len(Without(s, i)) = Len(s) - 1
           /\ \A j \in 1..(Len(s) - 1) :
                Without(s, i)[j] = IF j < i THEN s[j] ELSE s[j + 1]
<1>1. Len(s) - 1 \in Nat /\ \A j \in 1..Len(s) : s[j] \in S
  OBVIOUS
<1>2. Without(s, i) \in [1..(Len(s) - 1) -> S]
  BY <1>1 DEF Without
<1>3. Without(s, i) \in Seq(S) /\ Len(Without(s, i)) = Len(s) - 1
  BY <1>1, <1>2
<1>4. QED
  BY <1>3 DEF Without

\* scheduleNoLock appends one entry.
LEMMA AppendEntry ==
    ASSUME NEW S, NEW s \in Seq(S), NEW e \in S
    PROVE  /\ Append(s, e) \in Seq(S) /\ Len(Append(s, e)) = Len(s) + 1
           /\ \A j \in 1..Len(s) : Append(s, e)[j] = s[j]
           /\ Append(s, e)[Len(s) + 1] = e
OBVIOUS

-----------------------------------------------------------------------------
(* The count of active threads.                                            *)

\* The pool is finite.
LEMMA FiniteActive == IsFiniteSet(Threads) /\ IsFiniteSet(Active)
<1>1. IsFiniteSet(Threads)
  BY PoolAssumption, FS_EmptySet, FS_AddElement DEF Threads
<1>2. Active \subseteq Threads
  BY DEF Active
<1>3. QED
  BY <1>1, <1>2, FS_Subset

\* A thread moves to another place of run().
LEMMA ActiveMoves ==
    ASSUME TypeOK, NEW th \in Threads, NEW l, Goto(th, l)
    PROVE  /\ pc[th] \notin ActivePcs /\ l \in ActivePcs
                => Cardinality(Active') = Cardinality(Active) + 1
           /\ pc[th] \in ActivePcs /\ l \notin ActivePcs
                => Cardinality(Active') = Cardinality(Active) - 1 /\ Cardinality(Active) >= 1
           /\ (pc[th] \in ActivePcs <=> l \in ActivePcs) => Active' = Active
<1>1. \A u \in Threads : pc'[u] = IF u = th THEN l ELSE pc[u]
  BY DEF Goto, TypeOK
<1>2. ASSUME pc[th] \notin ActivePcs, l \in ActivePcs
      PROVE  Cardinality(Active') = Cardinality(Active) + 1
  <2>1. th \notin Active /\ Active' = Active \union {th}
    BY <1>1, <1>2 DEF Active
  <2>2. QED
    BY <2>1, FiniteActive, FS_AddElement
<1>3. ASSUME pc[th] \in ActivePcs, l \notin ActivePcs
      PROVE  Cardinality(Active') = Cardinality(Active) - 1 /\ Cardinality(Active) >= 1
  <2>1. th \in Active /\ Active' = Active \ {th}
    BY <1>1, <1>3 DEF Active
  <2>2. Cardinality(Active') = Cardinality(Active) - 1
    BY <2>1, FiniteActive, FS_RemoveElement
  <2>3. Cardinality(Active) \in Nat /\ Cardinality(Active) # 0
    BY <2>1, FiniteActive, FS_CardinalityType, FS_EmptySet
  <2>4. QED
    BY <2>2, <2>3
<1>4. ASSUME pc[th] \in ActivePcs <=> l \in ActivePcs PROVE Active' = Active
  BY <1>1, <1>4 DEF Active
<1>5. QED
  BY <1>2, <1>3, <1>4

\* What a step does to the count and to the places of the threads fits.
CountsRight == \/ Active' = Active /\ m_activeThreadCount' = m_activeThreadCount
               \/ /\ Cardinality(Active') = Cardinality(Active) + 1
                  /\ m_activeThreadCount' = m_activeThreadCount + 1
               \/ /\ Cardinality(Active') = Cardinality(Active) - 1 /\ Cardinality(Active) >= 1
                  /\ m_activeThreadCount' = m_activeThreadCount - 1

\* Then the count stays exact, and no unsigned counter wraps.
LEMMA CountExact ==
    ASSUME TypeOK, ActiveExact, CountsRight
    PROVE  ActiveExact' /\ m_activeThreadCount' \in Nat
<1>1. m_activeThreadCount = Cardinality(Active) /\ m_activeThreadCount \in Nat
  BY DEF ActiveExact, Active, ActivePcs, TypeOK
<1>2. m_activeThreadCount' = Cardinality(Active') /\ m_activeThreadCount' \in Nat
  BY <1>1 DEF CountsRight
<1>3. QED
  BY <1>2 DEF ActiveExact, Active, ActivePcs

-----------------------------------------------------------------------------
(* Types.                                                                  *)

Labels == {"new", "pick", "taken", "in", "switch", "exec", "yield", "out", "back",
           "state", "end?", "resched", "hold", "idle", "quiet", "exited"}
QueueTyped == m_fibers \in Seq(Entries) /\ QueueKinds
FibersTyped == m_state \in [Fibers -> States] /\ m_cb \in [Fibers -> Cbs \union {None}]
ThreadsTyped == /\ pc \in [Threads -> Labels] /\ ft \in [Threads -> Entries]
                /\ cb_fiber \in [Threads -> Fibers \union {None}]
                /\ idle_term \in [Threads -> BOOLEAN]
                /\ cur \in [Threads -> Fibers \union {None}]
                /\ TakenKinds /\ SlotFilled
TasksTyped == /\ yields \in [Cbs -> 0..MaxYields] /\ unscheduled \subseteq Cbs
              /\ home \in [Cbs -> Threads \union {AnyThread}] /\ armed \subseteq Fibers
ControlTyped == /\ m_stopping \in BOOLEAN /\ m_autoStop \in BOOLEAN
                /\ mpc \in {"new", "main", "stop", "quiet", "join", "stopped"}
                /\ failed \in {"none", "swapIn", "reset", "addEvent", "~Fiber"} /\ NotStarted

\* The type invariant in parts.
LEMMA PoolParts ==
    PoolInv <=> /\ QueueTyped /\ FibersTyped /\ ThreadsTyped /\ TasksTyped /\ ControlTyped
                /\ ActiveExact /\ m_activeThreadCount \in Nat
BY DEF PoolInv, TypeOK, Shape, QueueTyped, FibersTyped, ThreadsTyped, TasksTyped,
       ControlTyped, Labels

\* The same after a step.
LEMMA PoolPartsNext ==
    ASSUME QueueTyped', FibersTyped', ThreadsTyped', TasksTyped', ControlTyped',
           ActiveExact', m_activeThreadCount' \in Nat
    PROVE  PoolInv'
BY DEF PoolInv, TypeOK, Shape, QueueTyped, FibersTyped, ThreadsTyped, TasksTyped,
       ControlTyped, Labels

\* An entry is appended.
LEMMA ScheduleTyped ==
    ASSUME QueueTyped, NEW f \in Fibers \union {None}, NEW c \in Cbs \union {None},
           NEW thread \in Threads \union {AnyThread}, (f = None) <=> (c # None),
           schedule(f, c, thread)
    PROVE  QueueTyped'
<1> DEFINE e == Entry(f, c, thread)
<1>1. e \in Entries /\ OneKind(e)
  BY DEF Entry, Entries, OneKind
<1>2. m_fibers' = Append(m_fibers, e)
  BY DEF schedule
<1> HIDE DEF e
<1>3. /\ m_fibers' \in Seq(Entries) /\ Len(m_fibers') = Len(m_fibers) + 1
      /\ \A j \in 1..Len(m_fibers) : m_fibers'[j] = m_fibers[j]
      /\ m_fibers'[Len(m_fibers) + 1] = e /\ Len(m_fibers) \in Nat
  BY <1>1, <1>2, AppendEntry DEF QueueTyped
<1>4. \A j \in 1..(Len(m_fibers) + 1) : j \in 1..Len(m_fibers) \/ j = Len(m_fibers) + 1
  BY <1>3
<1>5. QueueKinds'
  BY <1>1, <1>3, <1>4 DEF QueueTyped, QueueKinds
<1>6. QED
  BY <1>3, <1>5 DEF QueueTyped

\* A thread leaves its slot.
LEMMA ReleaseTyped ==
    ASSUME ThreadsTyped, NEW th \in Threads, ReleaseSlot(th)
    PROVE  /\ ft' \in [Threads -> Entries] /\ cb_fiber' \in [Threads -> Fibers \union {None}]
           /\ \A u \in Threads : u # th => Slot(u)' = Slot(u) /\ ft'[u] = ft[u]
<1>1. NoEntry \in Entries
  BY DEF NoEntry, Entry, Entries
<1>2. QED
  BY <1>1 DEF ThreadsTyped, ReleaseSlot, Slot

\* The pool before start().
LEMMA InitPool == Init => PoolInv
<1> SUFFICES ASSUME Init PROVE PoolInv
  OBVIOUS
<1>1. QueueTyped
  BY DEF Init, QueueTyped, QueueKinds
<1>2. FibersTyped
  BY DEF Init, FibersTyped, States
<1>3. ThreadsTyped
  <2>1. NoEntry \in Entries
    BY DEF NoEntry, Entry, Entries
  <2>2. QED
    BY <2>1 DEF Init, ThreadsTyped, Labels, TakenKinds, SlotFilled, Switched, OnStack
<1>4. TasksTyped
  BY PoolAssumption DEF Init, TasksTyped
<1>5. ControlTyped
  BY DEF Init, ControlTyped, NotStarted, Threads
<1>6. ActiveExact /\ m_activeThreadCount \in Nat
  <2>1. Active = {}
    BY DEF Init, Active, ActivePcs
  <2>2. QED
    BY <2>1, FS_EmptySet DEF Init, ActiveExact, Active, ActivePcs
<1>7. QED
  BY <1>1, <1>2, <1>3, <1>4, <1>5, <1>6, PoolParts

\* A thread inside run() moves on; only its own locals change.
Locals(th) == /\ ft' \in [Threads -> Entries] /\ cb_fiber' \in [Threads -> Fibers \union {None}]
              /\ idle_term' \in [Threads -> BOOLEAN] /\ cur' \in [Threads -> Fibers \union {None}]
              /\ \A u \in Threads : u # th =>
                    ft'[u] = ft[u] /\ cb_fiber'[u] = cb_fiber[u] /\ cur'[u] = cur[u]

\* Its locals fit the place it goes to, and Main is not affected.
LEMMA ThreadMoves ==
    ASSUME ThreadsTyped, ControlTyped, NEW th \in Threads, NEW l \in Labels, l # "new",
           pc[th] # "new", Goto(th, l), Locals(th), UNCHANGED control, UNCHANGED failed,
           l = "taken" => OneKind(ft'[th]), l \in Switched => Slot(th)' # None,
           l \in OnStack => cur'[th] # None
    PROVE  ThreadsTyped' /\ ControlTyped'
<1>1. pc' \in [Threads -> Labels] /\ \A u \in Threads : pc'[u] = IF u = th THEN l ELSE pc[u]
  BY DEF Goto, ThreadsTyped
<1>2. TakenKinds'
  BY <1>1 DEF TakenKinds, ThreadsTyped, Locals
<1>3. SlotFilled'
  BY <1>1 DEF SlotFilled, ThreadsTyped, Locals, Slot
<1>4. NotStarted'
  <2>1. UseCaller => Main \in Threads
    BY DEF Threads
  <2>2. QED
    BY <1>1, <2>1 DEF NotStarted, ControlTyped, control
<1>5. QED
  BY <1>1, <1>2, <1>3, <1>4 DEF ThreadsTyped, ControlTyped, Locals, control

\* A failed assertion ends the process and changes nothing else.
LEMMA AbortPool ==
    ASSUME PoolInv, NEW w \in {"swapIn", "reset", "addEvent", "~Fiber"}, Abort(w)
    PROVE  PoolInv'
<1>1. UNCHANGED <<m_fibers, m_activeThreadCount, m_stopping, m_autoStop, mpc, m_state, m_cb, pc,
                  ft, cb_fiber, idle_term, cur, armed, yields, unscheduled, home>>
      /\ failed' = w
  BY DEF Abort, queue, control, fiber, locals, tasks
<1>2. QueueTyped' /\ FibersTyped' /\ TasksTyped'
  BY <1>1, PoolParts DEF QueueTyped, QueueKinds, FibersTyped, TasksTyped
<1>3. ThreadsTyped'
  BY <1>1, PoolParts DEF ThreadsTyped, TakenKinds, SlotFilled, Slot
<1>4. ControlTyped'
  BY <1>1, PoolParts DEF ControlTyped, NotStarted
<1>5. ActiveExact' /\ m_activeThreadCount' \in Nat
  BY <1>1, PoolParts DEF ActiveExact
<1>6. QED
  BY <1>2, <1>3, <1>4, <1>5, PoolPartsNext

\* Every step of the pool keeps its types and its count.
LEMMA NextPool == PoolInv /\ [Next]_vars => PoolInv'
<1> SUFFICES ASSUME PoolInv, [Next]_vars PROVE PoolInv'
  OBVIOUS
<1>a. /\ QueueTyped /\ FibersTyped /\ ThreadsTyped /\ TasksTyped /\ ControlTyped
      /\ TypeOK /\ ActiveExact
  BY PoolParts DEF PoolInv
<1>b. /\ pc \in [Threads -> Labels] /\ ft \in [Threads -> Entries]
      /\ cb_fiber \in [Threads -> Fibers \union {None}]
      /\ idle_term \in [Threads -> BOOLEAN] /\ cur \in [Threads -> Fibers \union {None}]
      /\ TakenKinds /\ SlotFilled /\ NoEntry \in Entries /\ NoEntry.fiber = None
      /\ None \notin Cbs /\ None \notin Fibers
  BY <1>a, PoolAssumption DEF ThreadsTyped, NoEntry, Entry, Entries
<1>q. UNCHANGED m_fibers => QueueTyped'
  BY <1>a DEF QueueTyped, QueueKinds
<1>f. UNCHANGED fiber => FibersTyped'
  BY <1>a DEF FibersTyped, fiber
<1>t. UNCHANGED tasks /\ UNCHANGED armed => TasksTyped'
  BY <1>a DEF TasksTyped, tasks
<1>h. UNCHANGED <<pc, ft, cb_fiber, idle_term, cur>> => ThreadsTyped'
  BY <1>a DEF ThreadsTyped, TakenKinds, SlotFilled, Slot
<1>c. UNCHANGED <<pc, failed>> /\ UNCHANGED control => ControlTyped'
  BY <1>a DEF ControlTyped, NotStarted, control
<1>n. UNCHANGED <<pc, m_activeThreadCount>> => ActiveExact' /\ m_activeThreadCount' \in Nat
  BY <1>a DEF ActiveExact, TypeOK
<1>s. ASSUME NEW th \in Threads, pc[th] \in Switched PROVE Slot(th) \in Fibers
  BY <1>b, <1>s DEF SlotFilled, Slot, Entries
<1>1. CASE start
  <2>1. /\ m_stopping' = FALSE /\ mpc' = "main" /\ mpc = "new"
        /\ pc' = [th \in Threads |-> IF th \in Workers THEN "pick" ELSE "new"]
        /\ UNCHANGED <<m_fibers, m_activeThreadCount, m_autoStop, ft, cb_fiber, idle_term, cur,
                       armed, failed>>
        /\ UNCHANGED fiber /\ UNCHANGED tasks
    BY <1>1 DEF start, queue, locals
  <2>2. ThreadsTyped'
    BY <1>b, <2>1 DEF ThreadsTyped, Labels, TakenKinds, SlotFilled, Switched, OnStack, Slot
  <2>3. ControlTyped'
    BY <1>a, <2>1, PoolAssumption DEF ControlTyped, NotStarted, Threads
  <2>4. Active' = Active
    BY <1>a, <2>1 DEF Active, ActivePcs, ControlTyped, NotStarted
  <2>5. ActiveExact' /\ m_activeThreadCount' \in Nat
    BY <1>a, <2>1, <2>4, CountExact DEF CountsRight
  <2>6. QED
    BY <1>q, <1>f, <1>t, <2>1, <2>2, <2>3, <2>5, PoolPartsNext
<1>2. ASSUME NEW c \in Cbs, mainSchedule(c) PROVE PoolInv'
  <2>1. schedule(None, c, AnyThread) /\ unscheduled' \subseteq unscheduled
        /\ UNCHANGED <<m_activeThreadCount, pc, ft, cb_fiber, idle_term, cur, armed, yields, home,
                       failed>>
        /\ UNCHANGED control /\ UNCHANGED fiber
    BY <1>2 DEF mainSchedule, locals
  <2>2. QueueTyped'
    BY <1>a, <1>b, <2>1, ScheduleTyped
  <2>3. TasksTyped'
    BY <1>a, <2>1 DEF TasksTyped
  <2>4. QED
    BY <1>f, <1>h, <1>c, <1>n, <2>1, <2>2, <2>3, PoolPartsNext
<1>3. CASE stop
  <2>1. /\ m_autoStop' = TRUE /\ m_stopping' = TRUE /\ mpc' = "stop" /\ mpc = "main"
        /\ UNCHANGED <<m_fibers, m_activeThreadCount, pc, ft, cb_fiber, idle_term, cur, armed,
                       failed>>
        /\ UNCHANGED fiber /\ UNCHANGED tasks
    BY <1>3 DEF stop, queue, locals
  <2>2. ControlTyped'
    BY <1>a, <2>1 DEF ControlTyped, NotStarted
  <2>3. QED
    BY <1>q, <1>f, <1>t, <1>h, <1>n, <2>1, <2>2, PoolPartsNext
<1>4. CASE stopPending \/ callRootFiber
  <2>1. /\ mpc' \in {"quiet", "join"} /\ mpc \in {"stop", "quiet"}
        /\ UNCHANGED <<m_fibers, m_activeThreadCount, m_stopping, m_autoStop, ft, cb_fiber,
                       idle_term, cur, armed, failed>>
        /\ UNCHANGED fiber /\ UNCHANGED tasks
        /\ UNCHANGED pc \/ (UseCaller /\ mpc' = "join" /\ Goto(Main, "pick"))
    BY <1>4 DEF stopPending, callRootFiber, CallsRun, queue, locals, Goto
  <2>2. UseCaller => Main \in Threads /\ pc[Main] = "new"
    BY <1>a, <2>1 DEF Threads, ControlTyped, NotStarted
  <2>3. ThreadsTyped'
    <3>1. CASE UNCHANGED pc
      BY <1>h, <2>1, <3>1
    <3>2. CASE UseCaller /\ Goto(Main, "pick")
      <4>1. \A u \in Threads : pc'[u] = IF u = Main THEN "pick" ELSE pc[u]
        BY <1>b, <2>2, <3>2 DEF Goto
      <4>2. pc' \in [Threads -> Labels]
        BY <1>b, <2>2, <3>2 DEF Goto, Labels
      <4>3. TakenKinds' /\ SlotFilled'
        BY <1>b, <2>1, <4>1 DEF TakenKinds, SlotFilled, Slot, Switched, OnStack
      <4>4. QED
        BY <1>b, <2>1, <4>2, <4>3 DEF ThreadsTyped
    <3>3. QED
      BY <2>1, <3>1, <3>2
  <2>4. ControlTyped'
    BY <1>a, <2>1 DEF ControlTyped, NotStarted
  <2>5. Active' = Active
    <3>1. CASE UNCHANGED pc
      BY <3>1 DEF Active
    <3>2. CASE UseCaller /\ Goto(Main, "pick")
      BY <1>a, <2>2, <3>2, ActiveMoves DEF ActivePcs
    <3>3. QED
      BY <2>1, <3>1, <3>2
  <2>6. ActiveExact' /\ m_activeThreadCount' \in Nat
    BY <1>a, <2>1, <2>5, CountExact DEF CountsRight
  <2>7. QED
    BY <1>q, <1>f, <1>t, <2>1, <2>3, <2>4, <2>6, PoolPartsNext
<1>5. CASE join
  <2>1. /\ mpc' = "stopped"
        /\ UNCHANGED <<m_fibers, m_activeThreadCount, m_stopping, m_autoStop, pc, ft, cb_fiber,
                       idle_term, cur, armed, failed>>
        /\ UNCHANGED fiber /\ UNCHANGED tasks
    BY <1>5 DEF join, queue, locals
  <2>2. ControlTyped'
    BY <1>a, <2>1 DEF ControlTyped, NotStarted
  <2>3. QED
    BY <1>q, <1>f, <1>t, <1>h, <1>n, <2>1, <2>2, PoolPartsNext
<1>6. ASSUME NEW th \in Threads, pick(th) PROVE PoolInv'
  <2>1. /\ pc[th] = "pick" /\ UNCHANGED <<cb_fiber, idle_term, cur, armed, failed>>
        /\ UNCHANGED control /\ UNCHANGED fiber /\ UNCHANGED tasks
    BY <1>6 DEF pick, At
  <2>2. CASE \E i \in 1..Len(m_fibers) :
               /\ ft' = [ft EXCEPT ![th] = m_fibers[i]]
               /\ m_fibers' = Without(m_fibers, i) /\ CountActive /\ Goto(th, "taken")
    <3>1. PICK i \in 1..Len(m_fibers) :
               /\ ft' = [ft EXCEPT ![th] = m_fibers[i]]
               /\ m_fibers' = Without(m_fibers, i) /\ CountActive /\ Goto(th, "taken")
      BY <2>2
    <3>2. m_fibers \in Seq(Entries) /\ m_fibers[i] \in Entries /\ OneKind(m_fibers[i])
      BY <1>a DEF QueueTyped, QueueKinds
    <3>3. QueueTyped'
      <4>1. /\ m_fibers' \in Seq(Entries) /\ Len(m_fibers') = Len(m_fibers) - 1
            /\ \A j \in 1..(Len(m_fibers) - 1) :
                  m_fibers'[j] = IF j < i THEN m_fibers[j] ELSE m_fibers[j + 1]
        BY <3>1, <3>2, WithoutEntry
      <4>2. \A j \in 1..(Len(m_fibers) - 1) : j \in 1..Len(m_fibers) /\ j + 1 \in 1..Len(m_fibers)
        BY <3>2
      <4>3. QueueKinds'
        BY <1>a, <4>1, <4>2 DEF QueueTyped, QueueKinds
      <4>4. QED
        BY <4>1, <4>3 DEF QueueTyped
    <3>4. Locals(th) /\ ft'[th] = m_fibers[i]
      BY <1>b, <2>1, <3>1, <3>2 DEF Locals
    <3>5. ThreadsTyped' /\ ControlTyped'
      BY <1>a, <2>1, <3>1, <3>2, <3>4, ThreadMoves DEF Labels, Switched, OnStack
    <3>6. CountsRight
      BY <1>a, <2>1, <3>1, ActiveMoves DEF CountsRight, CountActive, ActivePcs
    <3>7. QED
      BY <1>a, <1>f, <1>t, <2>1, <3>3, <3>5, <3>6, CountExact, PoolPartsNext
  <2>3. CASE Goto(th, "idle") /\ UNCHANGED queue /\ UNCHANGED ft
    <3>1. Locals(th) /\ UNCHANGED <<m_fibers, m_activeThreadCount>>
      BY <1>b, <2>1, <2>3 DEF Locals, queue
    <3>2. ThreadsTyped' /\ ControlTyped'
      BY <1>a, <2>1, <2>3, <3>1, ThreadMoves DEF Labels, Switched, OnStack
    <3>3. CountsRight
      BY <1>a, <2>1, <2>3, <3>1, ActiveMoves DEF CountsRight, ActivePcs
    <3>4. QED
      BY <1>a, <1>q, <1>f, <1>t, <2>1, <3>1, <3>2, <3>3, CountExact, PoolPartsNext
  <2>4. QED
    BY <1>6, <2>2, <2>3 DEF pick
<1>7. ASSUME NEW th \in Threads, runFiber(th) \/ swapIn(th) \/ switchIn(th) PROVE PoolInv'
  <2>1. CASE Abort("swapIn")
    BY <2>1, AbortPool
  <2>2. CASE runFiber(th) \/ (swapIn(th) /\ ~Abort("swapIn"))
    <3>1. /\ pc[th] \in {"taken", "in"} /\ (pc[th] = "taken" => ft[th].fiber # None)
          /\ \E l \in {"in", "switch"} : Goto(th, l)
          /\ UNCHANGED control /\ UNCHANGED fiber /\ UNCHANGED tasks
          /\ UNCHANGED <<m_fibers, m_activeThreadCount, ft, cb_fiber, idle_term, cur, armed, failed>>
      BY <2>2 DEF runFiber, swapIn, At, queue, locals
    <3>2. Locals(th) /\ Slot(th)' # None
      BY <1>b, <3>1 DEF Locals, Slot, SlotFilled, Switched
    <3>3. ThreadsTyped' /\ ControlTyped'
      BY <1>a, <3>1, <3>2, ThreadMoves DEF Labels, OnStack
    <3>4. CountsRight
      BY <1>a, <3>1, ActiveMoves DEF CountsRight, ActivePcs
    <3>5. QED
      BY <1>a, <1>q, <1>f, <1>t, <3>1, <3>3, <3>4, CountExact, PoolPartsNext
  <2>3. CASE switchIn(th)
    <3> DEFINE f == Slot(th)
    <3>1. /\ pc[th] = "switch"
          /\ m_state' = [m_state EXCEPT ![f] = "EXEC"] /\ cur' = [cur EXCEPT ![th] = f]
          /\ Goto(th, "exec") /\ UNCHANGED control
          /\ UNCHANGED <<m_fibers, m_activeThreadCount, m_cb, ft, cb_fiber, idle_term, armed,
                         yields, unscheduled, home, failed>>
      BY <2>3 DEF switchIn, At, queue, locals
    <3>2. f \in Fibers
      BY <1>s, <3>1 DEF Switched
    <3> HIDE DEF f
    <3>3. FibersTyped'
      BY <1>a, <3>1, <3>2 DEF FibersTyped, States
    <3>4. TasksTyped'
      BY <1>a, <3>1 DEF TasksTyped
    <3>5. Locals(th) /\ Slot(th)' # None /\ cur'[th] # None
      BY <1>b, <3>1, <3>2 DEF Locals, Slot, f
    <3>6. ThreadsTyped' /\ ControlTyped'
      BY <1>a, <3>1, <3>5, ThreadMoves DEF Labels
    <3>7. CountsRight
      BY <1>a, <3>1, ActiveMoves DEF CountsRight, ActivePcs
    <3>8. QED
      BY <1>a, <1>q, <3>1, <3>3, <3>4, <3>6, <3>7, CountExact, PoolPartsNext
  <2>4. QED
    BY <1>7, <2>1, <2>2, <2>3
<1>8. ASSUME NEW th \in Threads, runCb(th) PROVE PoolInv'
  <2> DEFINE c == ft[th].cb
  <2>1. CASE Abort("reset")
    BY <2>1, AbortPool
  <2>2. CASE ~Abort("reset")
    <3>1. PICK f \in Fibers :
          /\ m_cb' = [m_cb EXCEPT ![f] = c]
          /\ m_state' = [m_state EXCEPT ![f] = "INIT"]
          /\ cb_fiber' = [cb_fiber EXCEPT ![th] = f]
          /\ ft' = [ft EXCEPT ![th] = NoEntry]
      BY <1>8, <2>2 DEF runCb
    <3>2. /\ pc[th] = "taken" /\ c # None /\ Goto(th, "in") /\ UNCHANGED control
          /\ UNCHANGED <<m_fibers, m_activeThreadCount, idle_term, cur, armed, yields, unscheduled,
                         home, failed>>
      BY <1>8, <2>2 DEF runCb, At, queue, tasks
    <3>3. c \in Cbs \union {None}
      BY <1>b DEF Entries
    <3>4. FibersTyped'
      BY <1>a, <3>1, <3>3 DEF FibersTyped, States
    <3>5. TasksTyped'
      BY <1>a, <3>2 DEF TasksTyped
    <3>6. Locals(th) /\ Slot(th)' # None
      BY <1>b, <3>1, <3>2 DEF Locals, Slot
    <3>7. ThreadsTyped' /\ ControlTyped'
      BY <1>a, <3>2, <3>6, ThreadMoves DEF Labels, OnStack
    <3>8. CountsRight
      BY <1>a, <3>2, ActiveMoves DEF CountsRight, ActivePcs
    <3>9. QED
      BY <1>a, <1>q, <3>2, <3>4, <3>5, <3>7, <3>8, CountExact, PoolPartsNext
  <2>3. QED
    BY <2>1, <2>2
<1>9. ASSUME NEW th \in Threads, dropEnded(th) PROVE PoolInv'
  <2>1. /\ pc[th] = "taken" /\ m_activeThreadCount' = m_activeThreadCount - 1
        /\ ft' = [ft EXCEPT ![th] = NoEntry] /\ Goto(th, "pick")
        /\ UNCHANGED control /\ UNCHANGED fiber /\ UNCHANGED tasks
        /\ UNCHANGED <<m_fibers, cb_fiber, idle_term, cur, armed, failed>>
    BY <1>9 DEF dropEnded, At
  <2>2. Locals(th)
    BY <1>b, <2>1 DEF Locals
  <2>3. ThreadsTyped' /\ ControlTyped'
    BY <1>a, <2>1, <2>2, ThreadMoves DEF Labels, Switched, OnStack
  <2>4. CountsRight
    BY <1>a, <2>1, ActiveMoves DEF CountsRight, ActivePcs
  <2>5. QED
    BY <1>a, <1>q, <1>f, <1>t, <2>1, <2>3, <2>4, CountExact, PoolPartsNext
<1>10. ASSUME NEW th \in Threads, NEW c \in Cbs, NEW thread \in Threads \union {AnyThread},
              fiberSchedule(th, c, thread)
       PROVE  PoolInv'
  <2>1. /\ schedule(None, c, thread) /\ unscheduled' \subseteq unscheduled
        /\ home' = [home EXCEPT ![c] = thread]
        /\ UNCHANGED <<m_activeThreadCount, pc, ft, cb_fiber, idle_term, cur, armed, yields,
                       failed>>
        /\ UNCHANGED control /\ UNCHANGED fiber
    BY <1>10 DEF fiberSchedule, locals
  <2>2. QueueTyped'
    BY <1>a, <1>b, <2>1, ScheduleTyped
  <2>3. TasksTyped'
    BY <1>a, <2>1 DEF TasksTyped
  <2>4. QED
    BY <1>f, <1>h, <1>c, <1>n, <2>1, <2>2, <2>3, PoolPartsNext
<1>y. ASSUME NEW th \in Threads, MayYield(th), pc[th] = "exec", CountYield(th),
             UNCHANGED <<unscheduled, home>>, armed' \subseteq armed \union {cur[th]}
      PROVE  TasksTyped'
  <2>1. cur[th] \in Fibers /\ m_cb[cur[th]] \in Cbs
    BY <1>a, <1>b, <1>y DEF MayYield, SlotFilled, OnStack, FibersTyped
  <2>2. yields[m_cb[cur[th]]] \in 0..MaxYields /\ yields[m_cb[cur[th]]] < MaxYields
    BY <1>a, <1>y, <2>1 DEF TasksTyped, MayYield
  <2>3. yields[m_cb[cur[th]]] + 1 \in 0..MaxYields
    BY <2>2, PoolAssumption
  <2>4. yields' \in [Cbs -> 0..MaxYields]
    BY <1>a, <1>y, <2>1, <2>3 DEF CountYield, TasksTyped
  <2>5. QED
    BY <1>a, <1>y, <2>1, <2>4 DEF TasksTyped
<1>11. ASSUME NEW th \in Threads, addEvent(th) PROVE PoolInv'
  <2>1. CASE Abort("addEvent")
    BY <2>1, AbortPool
  <2>2. CASE ~Abort("addEvent")
    <3>1. /\ pc[th] = "exec" /\ MayYield(th) /\ CountYield(th)
          /\ armed' = armed \union {cur[th]} /\ Goto(th, "yield")
          /\ UNCHANGED control /\ UNCHANGED fiber
          /\ UNCHANGED <<m_fibers, m_activeThreadCount, ft, cb_fiber, idle_term, cur,
                         unscheduled, home, failed>>
      BY <1>11, <2>2 DEF addEvent, At, queue, locals
    <3>2. TasksTyped'
      BY <1>y, <3>1
    <3>3. Locals(th) /\ Slot(th)' # None /\ cur'[th] # None
      BY <1>b, <3>1 DEF Locals, Slot, SlotFilled, Switched, OnStack
    <3>4. ThreadsTyped' /\ ControlTyped'
      BY <1>a, <3>1, <3>3, ThreadMoves DEF Labels
    <3>5. CountsRight
      BY <1>a, <3>1, ActiveMoves DEF CountsRight, ActivePcs
    <3>6. QED
      BY <1>a, <1>q, <1>f, <3>1, <3>2, <3>4, <3>5, CountExact, PoolPartsNext
  <2>3. QED
    BY <2>1, <2>2
<1>12. ASSUME NEW th \in Threads,
              YieldToHold(th) \/ YieldToReady(th) \/ \E state \in Ended : MainFunc(th, state)
       PROVE  PoolInv'
  <2>1. /\ pc[th] \in {"exec", "yield"} /\ Goto(th, "out") /\ UNCHANGED control
        /\ UNCHANGED <<m_fibers, m_activeThreadCount, ft, cb_fiber, idle_term, cur, armed,
                       unscheduled, home, failed>>
    BY <1>12 DEF YieldToHold, YieldToReady, MainFunc, At, queue, locals, tasks
  <2>2. cur[th] \in Fibers
    BY <1>b, <2>1 DEF SlotFilled, OnStack
  <2>3. FibersTyped'
    <3>1. \E state \in States : m_state' = [m_state EXCEPT ![cur[th]] = state]
      BY <1>12 DEF YieldToHold, YieldToReady, MainFunc, States, Ended
    <3>2. m_cb' = m_cb \/ m_cb' = [m_cb EXCEPT ![cur[th]] = None]
      BY <1>12 DEF YieldToHold, YieldToReady, MainFunc
    <3>3. QED
      BY <1>a, <2>2, <3>1, <3>2 DEF FibersTyped
  <2>4. TasksTyped'
    <3>1. CASE YieldToReady(th)
      BY <1>y, <2>1, <3>1 DEF YieldToReady, At
    <3>2. CASE yields' = yields
      BY <1>a, <2>1, <3>2 DEF TasksTyped
    <3>3. QED
      BY <1>12, <3>1, <3>2 DEF YieldToHold, MainFunc, tasks
  <2>5. Locals(th) /\ Slot(th)' # None /\ cur'[th] # None
    BY <1>b, <2>1 DEF Locals, Slot, SlotFilled, Switched, OnStack
  <2>6. ThreadsTyped' /\ ControlTyped'
    BY <1>a, <2>1, <2>5, ThreadMoves DEF Labels
  <2>7. CountsRight
    BY <1>a, <2>1, ActiveMoves DEF CountsRight, ActivePcs
  <2>8. QED
    BY <1>a, <1>q, <2>1, <2>3, <2>4, <2>6, <2>7, CountExact, PoolPartsNext
<1>13. ASSUME NEW th \in Threads, swapOut(th) PROVE PoolInv'
  <2>1. /\ pc[th] = "out" /\ Goto(th, "back") /\ cur' = [cur EXCEPT ![th] = None]
        /\ UNCHANGED control /\ UNCHANGED fiber /\ UNCHANGED tasks
        /\ UNCHANGED <<m_fibers, m_activeThreadCount, ft, cb_fiber, idle_term, armed, failed>>
    BY <1>13 DEF swapOut, At, queue, locals
  <2>2. Locals(th) /\ Slot(th)' # None
    BY <1>b, <2>1 DEF Locals, Slot, SlotFilled, Switched
  <2>3. ThreadsTyped' /\ ControlTyped'
    BY <1>a, <2>1, <2>2, ThreadMoves DEF Labels, OnStack
  <2>4. CountsRight
    BY <1>a, <2>1, ActiveMoves DEF CountsRight, ActivePcs
  <2>5. QED
    BY <1>a, <1>q, <1>f, <1>t, <2>1, <2>3, <2>4, CountExact, PoolPartsNext
<1>14. ASSUME NEW th \in Threads, decrementActive(th) \/ afterSwitch(th) PROVE PoolInv'
  <2>1. /\ UNCHANGED control /\ UNCHANGED fiber /\ UNCHANGED tasks
        /\ UNCHANGED <<m_fibers, ft, cb_fiber, idle_term, cur, armed, failed>>
        /\ pc[th] \in {"back", "state"}
        /\ \E l \in {"state", "resched", "end?"} : Goto(th, l)
    BY <1>14 DEF decrementActive, afterSwitch, At, queue, locals
  <2>2. Locals(th) /\ Slot(th)' # None
    BY <1>b, <2>1 DEF Locals, Slot, SlotFilled, Switched
  <2>3. ThreadsTyped' /\ ControlTyped'
    BY <1>a, <2>1, <2>2, ThreadMoves DEF Labels, OnStack
  <2>4. CountsRight
    <3>1. CASE decrementActive(th)
      BY <1>a, <3>1, ActiveMoves DEF decrementActive, At, CountsRight, ActivePcs
    <3>2. CASE afterSwitch(th)
      BY <1>a, <2>1, <3>2, ActiveMoves DEF afterSwitch, At, queue, CountsRight, ActivePcs
    <3>3. QED
      BY <1>14, <3>1, <3>2
  <2>5. QED
    BY <1>a, <1>q, <1>f, <1>t, <2>1, <2>3, <2>4, CountExact, PoolPartsNext
<1>15. ASSUME NEW th \in Threads, afterEnd(th) PROVE PoolInv'
  <2>1. /\ pc[th] = "end?" /\ UNCHANGED control /\ UNCHANGED tasks
        /\ UNCHANGED <<m_fibers, m_activeThreadCount, cb_fiber, idle_term, cur, armed, failed>>
    BY <1>15 DEF afterEnd, At, queue
  <2>2. Slot(th) \in Fibers
    BY <1>s, <2>1 DEF Switched
  <2>3. FibersTyped'
    <3>1. /\ m_state' = m_state \/ m_state' = [m_state EXCEPT ![Slot(th)] = "INIT"]
          /\ m_cb' = m_cb \/ m_cb' = [m_cb EXCEPT ![Slot(th)] = None]
      BY <1>15 DEF afterEnd, fiber
    <3>2. QED
      BY <1>a, <2>2, <3>1 DEF FibersTyped, States
  <2>4. CASE ft' = [ft EXCEPT ![th] = NoEntry] /\ Goto(th, "pick")
    <3>1. Locals(th)
      BY <1>b, <2>1, <2>4 DEF Locals
    <3>2. ThreadsTyped' /\ ControlTyped'
      BY <1>a, <2>1, <2>4, <3>1, ThreadMoves DEF Labels, Switched, OnStack
    <3>3. CountsRight
      BY <1>a, <2>1, <2>4, ActiveMoves DEF CountsRight, ActivePcs
    <3>4. QED
      BY <1>a, <1>q, <1>t, <2>1, <2>3, <3>2, <3>3, CountExact, PoolPartsNext
  <2>5. CASE ft' = ft /\ Goto(th, "hold")
    <3>1. Locals(th) /\ Slot(th)' # None
      BY <1>b, <2>1, <2>5 DEF Locals, Slot, SlotFilled, Switched
    <3>2. ThreadsTyped' /\ ControlTyped'
      BY <1>a, <2>1, <2>5, <3>1, ThreadMoves DEF Labels, OnStack
    <3>3. CountsRight
      BY <1>a, <2>1, <2>5, ActiveMoves DEF CountsRight, ActivePcs
    <3>4. QED
      BY <1>a, <1>q, <1>t, <2>1, <2>3, <3>2, <3>3, CountExact, PoolPartsNext
  <2>6. QED
    BY <1>15, <2>4, <2>5 DEF afterEnd
<1>16a. ASSUME NEW th \in Threads, setHold(th), Abort("~Fiber") PROVE PoolInv'
  BY <1>16a, AbortPool
<1>16. ASSUME NEW th \in Threads, reschedule(th) \/ (setHold(th) /\ ~Abort("~Fiber"))
       PROVE PoolInv'
  <2>1. /\ pc[th] \in {"resched", "hold"} /\ ReleaseSlot(th) /\ Goto(th, "pick")
        /\ UNCHANGED control /\ UNCHANGED tasks
        /\ UNCHANGED <<m_activeThreadCount, idle_term, cur, armed, failed>>
    BY <1>16 DEF reschedule, setHold, At, queue
  <2>2. Slot(th) \in Fibers
    BY <1>s, <2>1 DEF Switched
  <2>3. QueueTyped' /\ FibersTyped'
    <3>1. CASE reschedule(th)
      BY <1>a, <1>b, <1>f, <2>2, <3>1, ScheduleTyped DEF reschedule
    <3>2. CASE setHold(th) /\ ~Abort("~Fiber")
      BY <1>a, <1>q, <2>2, <3>2 DEF setHold, queue, FibersTyped, States
    <3>3. QED
      BY <1>16, <3>1, <3>2
  <2>4. Locals(th)
    BY <1>b, <2>1 DEF Locals, ReleaseSlot
  <2>5. ThreadsTyped' /\ ControlTyped'
    BY <1>a, <2>1, <2>4, ThreadMoves DEF Labels, Switched, OnStack
  <2>6. CountsRight
    BY <1>a, <2>1, ActiveMoves DEF CountsRight, ActivePcs
  <2>7. QED
    BY <1>a, <1>t, <2>1, <2>3, <2>5, <2>6, CountExact, PoolPartsNext
<1>17. ASSUME NEW th \in Threads, idle(th) \/ idleStopping(th) PROVE PoolInv'
  <2>1. /\ pc[th] \in {"idle", "quiet"} /\ UNCHANGED control /\ UNCHANGED fiber /\ UNCHANGED tasks
        /\ UNCHANGED <<m_fibers, m_activeThreadCount, ft, cb_fiber, cur, armed, failed>>
        /\ \E l \in {"exited", "pick", "quiet"} : Goto(th, l)
        /\ \/ UNCHANGED idle_term
           \/ idle_term' = [idle_term EXCEPT ![th] = stopping]
    BY <1>17 DEF idle, idleStopping, At, queue, locals
  <2>2. Locals(th)
    <3>1. idle_term' \in [Threads -> BOOLEAN]
      BY <1>a, <1>b, <2>1 DEF stopping, ControlTyped
    <3>2. QED
      BY <1>b, <2>1, <3>1 DEF Locals
  <2>3. ThreadsTyped' /\ ControlTyped'
    BY <1>a, <2>1, <2>2, ThreadMoves DEF Labels, Switched, OnStack
  <2>4. CountsRight
    BY <1>a, <2>1, ActiveMoves DEF CountsRight, ActivePcs
  <2>5. QED
    BY <1>a, <1>q, <1>f, <1>t, <2>1, <2>3, <2>4, CountExact, PoolPartsNext
<1>18. ASSUME NEW f \in Fibers, wake(f) PROVE PoolInv'
  <2>1. /\ schedule(f, None, AnyThread) /\ armed' = armed \ {f}
        /\ UNCHANGED <<m_activeThreadCount, pc, ft, cb_fiber, idle_term, cur, failed>>
        /\ UNCHANGED control /\ UNCHANGED fiber /\ UNCHANGED tasks
    BY <1>18 DEF wake, locals
  <2>2. QueueTyped'
    BY <1>a, <1>b, <2>1, ScheduleTyped
  <2>3. TasksTyped'
    BY <1>a, <2>1 DEF TasksTyped, tasks
  <2>4. QED
    BY <1>f, <1>h, <1>c, <1>n, <2>1, <2>2, <2>3, PoolPartsNext
<1>19. CASE UNCHANGED vars
  <2>1. /\ UNCHANGED <<m_fibers, m_activeThreadCount, pc, ft, cb_fiber, idle_term, cur, armed, failed>>
        /\ UNCHANGED control /\ UNCHANGED fiber /\ UNCHANGED tasks
    BY <1>19 DEF vars, queue, locals
  <2>2. QED
    BY <1>q, <1>f, <1>t, <1>h, <1>c, <1>n, <2>1, PoolPartsNext
<1>20. QED
  <2>1. ASSUME NEW th \in Threads, run(th) PROVE PoolInv'
    BY <1>6, <1>7, <1>8, <1>9, <1>14, <1>15, <1>16, <1>16a, <1>17, <2>1 DEF run
  <2>2. ASSUME NEW th \in Threads, FiberCode(th) PROVE PoolInv'
    BY <1>10, <1>11, <1>12, <1>13, <2>2 DEF FiberCode
  <2>3. CASE MainCode
    BY <1>1, <1>2, <1>3, <1>4, <1>5, <2>3 DEF MainCode, StartStop
  <2>4. QED
    BY <1>18, <1>19, <2>1, <2>2, <2>3 DEF Next, Terminated

\* The types and the count in every reachable state.
THEOREM PoolInductive == Spec => []PoolInv
BY InitPool, NextPool, PTL DEF Spec

\* Nothing in the pool leaves its type in any environment; in particular
\* m_activeThreadCount, an unsigned counter, is never decremented at 0.
THEOREM TypeCorrect == Spec => []TypeOK
<1>1. PoolInv => TypeOK
  BY DEF PoolInv
<1>2. QED
  BY <1>1, PoolInductive, PTL

\* m_activeThreadCount is the number of threads between taking an entry and
\* giving it back, even when early wake-ups make two threads run one fiber.
THEOREM ActiveExactAlways == Spec => []ActiveExact
<1>1. PoolInv => ActiveExact
  BY DEF PoolInv
<1>2. QED
  BY <1>1, PoolInductive, PTL

-----------------------------------------------------------------------------
(* One place for every fiber.                                              *)

\* The fiber of a thread's slot is held by the thread.
LEMMA SlotHeld ==
    ASSUME PoolInv, NEW th \in Threads
    PROVE  /\ pc[th] \in Switched => Slot(th) \in Fibers /\ Holds(th, Slot(th))
           /\ ft[th].fiber # None => ft[th].fiber \in Fibers /\ Holds(th, ft[th].fiber)
           /\ cb_fiber[th] # None => cb_fiber[th] \in Fibers /\ Holds(th, cb_fiber[th])
<1>1. ft[th].fiber \in Fibers \union {None} /\ cb_fiber[th] \in Fibers \union {None}
  BY DEF PoolInv, TypeOK, Entries
<1>2. pc[th] \in Switched => Slot(th) # None
  BY DEF PoolInv, Shape, SlotFilled
<1>3. QED
  BY <1>1, <1>2 DEF Slot, Holds

\* Only th moves, and only f changes its state; f is not held by others.
OnlyThread(th) == \A u \in Threads : u # th =>
    pc'[u] = pc[u] /\ ft'[u] = ft[u] /\ cb_fiber'[u] = cb_fiber[u] /\ cur'[u] = cur[u]
OnlyFiber(f) == /\ \A g \in Fibers : g # f => m_state'[g] = m_state[g]
                /\ armed' = armed
Mine(th, f) == \A g \in Fibers : Holds(th, g)' \/ g = f =>
    \A u \in Threads : u # th => ~Holds(u, g)
\* What th is after the step.
OwnAt(th) ==
    /\ ft'[th].fiber # None => ft'[th].fiber # cb_fiber'[th]
    /\ pc'[th] \in {"new", "pick", "idle", "quiet", "exited"} => ft'[th].fiber = None
    /\ pc'[th] \in Switched => m_state'[Slot(th)'] \in StateAt(pc'[th])
    /\ cur'[th] = IF pc'[th] \in OnStack THEN Slot(th)' ELSE None
    /\ pc'[th] \in {"taken", "in", "switch"} /\ ft'[th].fiber # None =>
         m_state'[ft'[th].fiber] \in {"READY", "HOLD"} /\ ft'[th].fiber \notin armed'
    /\ cb_fiber'[th] # None /\ ~InUse(th)' => m_state'[cb_fiber'[th]] = "INIT"

\* A step of one thread, on a fiber that is nobody else's.
LEMMA OwnStep ==
    ASSUME PoolInv, PoolInv', OwnInv, NEW th \in Threads, NEW f, OnlyThread(th), OnlyFiber(f),
           Mine(th, f), OwnAt(th), QueueOnce', QueueFree', failed' = failed
    PROVE  OwnInv'
<1>1. ASSUME NEW u \in Threads, u # th
      PROVE  /\ \A g \in Fibers : Holds(u, g)' <=> Holds(u, g)
             /\ Slot(u)' = Slot(u) /\ (InUse(u)' <=> InUse(u))
             /\ \A g \in Fibers : Holds(u, g) => m_state'[g] = m_state[g] /\ (g \in armed' => g \in armed)
  BY <1>1 DEF OnlyThread, OnlyFiber, Mine, Holds, Slot, InUse
<1>2. OneOwner'
  <2>1. ASSUME NEW u \in Threads, NEW w \in Threads, NEW g \in Fibers, Holds(u, g)', Holds(w, g)'
        PROVE  u = w
    <3>1. CASE u = th /\ w # th
      BY <1>1, <2>1, <3>1 DEF Mine
    <3>2. CASE u # th /\ w = th
      BY <1>1, <2>1, <3>2 DEF Mine
    <3>3. CASE u # th /\ w # th
      BY <1>1, <2>1, <3>3 DEF OwnInv, OneOwner
    <3>4. QED
      BY <3>1, <3>2, <3>3
  <2>2. ASSUME NEW u \in Threads, ft'[u].fiber # None PROVE ft'[u].fiber # cb_fiber'[u]
    BY <2>2 DEF OwnAt, OnlyThread, OwnInv, OneOwner
  <2>3. QED
    BY <2>1, <2>2 DEF OneOwner
<1>3. Placed'
  <2>1. ASSUME NEW u \in Threads, u # th
        PROVE  /\ pc'[u] \in {"new", "pick", "idle", "quiet", "exited"} => ft'[u].fiber = None
               /\ pc'[u] \in Switched => m_state'[Slot(u)'] \in StateAt(pc'[u])
               /\ cur'[u] = IF pc'[u] \in OnStack THEN Slot(u)' ELSE None
    <3>1. pc[u] \in Switched => m_state'[Slot(u)] = m_state[Slot(u)]
      BY <1>1, <2>1, SlotHeld
    <3>2. QED
      BY <1>1, <2>1, <3>1 DEF OnlyThread, OwnInv, Placed
  <2>2. QED
    BY <2>1 DEF Placed, OwnAt
<1>4. TakenFree'
  <2>1. ASSUME NEW u \in Threads, u # th, pc'[u] \in {"taken", "in", "switch"},
               ft'[u].fiber # None
        PROVE  m_state'[ft'[u].fiber] \in {"READY", "HOLD"} /\ ft'[u].fiber \notin armed'
    BY <1>1, <2>1, SlotHeld DEF OnlyThread, OwnInv, TakenFree
  <2>2. QED
    BY <2>1 DEF TakenFree, OwnAt
<1>5. SpareReset'
  <2>1. ASSUME NEW u \in Threads, u # th, cb_fiber'[u] # None, ~InUse(u)'
        PROVE  m_state'[cb_fiber'[u]] = "INIT"
    BY <1>1, <2>1, SlotHeld DEF OnlyThread, OwnInv, SpareReset
  <2>2. QED
    BY <2>1 DEF SpareReset, OwnAt
<1>6. NoneArmed'
  BY DEF OwnInv, NoneArmed, OnlyFiber
<1>7. QED
  BY <1>2, <1>3, <1>4, <1>5, <1>6 DEF OwnInv, NoAbort

\* A step that leaves the queue alone.
LEMMA QueueKept ==
    ASSUME PoolInv, OwnInv, NEW th \in Threads, NEW f, UNCHANGED m_fibers, OnlyThread(th),
           OnlyFiber(f), \A g \in Fibers : Holds(th, g)' \/ g = f => ~Queued(g)
    PROVE  QueueOnce' /\ QueueFree'
<1>1. QueueOnce' /\ \A g \in Fibers : Queued(g)' <=> Queued(g)
  BY DEF OwnInv, QueueOnce, Queued
<1>2. ASSUME NEW g \in Fibers, Queued(g)
      PROVE  /\ \A u \in Threads : ~Holds(u, g)'
             /\ g \notin armed' /\ m_state'[g] \in {"READY", "HOLD"}
  <2>1. g # f /\ ~Holds(th, g)'
    BY <1>2
  <2>2. \A u \in Threads : u # th => ~Holds(u, g)'
    BY <1>2 DEF OnlyThread, Holds, OwnInv, QueueFree
  <2>3. QED
    BY <1>2, <2>1, <2>2 DEF OnlyFiber, OwnInv, QueueFree
<1>3. QED
  BY <1>1, <1>2 DEF QueueFree

\* A thread works on a fiber it holds.
LEMMA HeldStep ==
    ASSUME PoolInv, PoolInv', OwnInv, NEW th \in Threads, NEW f, OnlyThread(th), OnlyFiber(f),
           f \in Fibers => Holds(th, f), \A g \in Fibers : Holds(th, g)' => Holds(th, g),
           OwnAt(th), UNCHANGED m_fibers, failed' = failed
    PROVE  OwnInv'
<1>1. Mine(th, f)
  BY DEF Mine, OwnInv, OneOwner
<1>2. \A g \in Fibers : Holds(th, g)' \/ g = f => ~Queued(g)
  BY DEF OwnInv, QueueFree
<1>3. QueueOnce' /\ QueueFree'
  BY <1>2, QueueKept
<1>4. QED
  BY <1>1, <1>3, OwnStep

\* Steps in which the threads stand still, or enter run().
LEMMA OwnFrame ==
    ASSUME PoolInv, OwnInv, UNCHANGED <<ft, cb_fiber, cur, m_state, failed>>,
           armed' \subseteq armed, QueueOnce', QueueFree',
           \A th \in Threads : pc'[th] = pc[th] \/ (pc[th] = "new" /\ pc'[th] = "pick")
    PROVE  OwnInv'
<1>1. \A th \in Threads : /\ Slot(th)' = Slot(th) /\ \A g \in Fibers : Holds(th, g)' <=> Holds(th, g)
                          /\ (InUse(th)' <=> InUse(th))
  BY DEF Slot, Holds, InUse, Switched
<1>2. OneOwner'
  BY <1>1 DEF OwnInv, OneOwner
<1>3. Placed'
  BY <1>1 DEF OwnInv, Placed, Switched, OnStack
<1>4. TakenFree' /\ SpareReset'
  BY <1>1 DEF OwnInv, TakenFree, SpareReset
<1>5. NoneArmed'
  BY <1>1 DEF OwnInv, NoneArmed
<1>6. QED
  BY <1>2, <1>3, <1>4, <1>5 DEF OwnInv, NoAbort

\* The queue gains a callback, or a fiber that is in no other place.
LEMMA ScheduleQueue ==
    ASSUME PoolInv, OwnInv, NEW f \in Fibers \union {None}, NEW c \in Cbs \union {None},
           NEW thread \in Threads \union {AnyThread}, f # None => ~Queued(f),
           schedule(f, c, thread)
    PROVE  /\ QueueOnce' /\ \A g \in Fibers : Queued(g)' <=> Queued(g) \/ g = f
           /\ Len(m_fibers') = Len(m_fibers) + 1 /\ Len(m_fibers) \in Nat
           /\ \A j \in 1..Len(m_fibers) : m_fibers'[j] = m_fibers[j]
           /\ m_fibers'[Len(m_fibers) + 1] = Entry(f, c, thread)
<1> DEFINE e == Entry(f, c, thread)
           n == Len(m_fibers)
<1>1. e \in Entries /\ e.fiber = f
  BY DEF Entry, Entries
<1>2. m_fibers' = Append(m_fibers, e) /\ m_fibers \in Seq(Entries)
  BY DEF schedule, PoolInv, TypeOK
<1> HIDE DEF e
<1>3. /\ Len(m_fibers') = n + 1 /\ n \in Nat
      /\ \A j \in 1..n : m_fibers'[j] = m_fibers[j]
      /\ m_fibers'[n + 1] = e
  BY <1>1, <1>2, AppendEntry
<1> HIDE DEF n
<1>4. \A j \in 1..(n + 1) : j \in 1..n \/ j = n + 1
  BY <1>3
<1>5. \A j \in 1..n : j \in 1..(n + 1) /\ j # n + 1
  BY <1>3
<1>6. n + 1 \in 1..(n + 1)
  BY <1>3
<1>7. \A g \in Fibers : Queued(g)' <=> Queued(g) \/ g = f
  BY <1>1, <1>3, <1>4, <1>5, <1>6 DEF Queued, n
<1>8. QueueOnce'
  <2> SUFFICES ASSUME NEW i \in 1..(n + 1), NEW j \in 1..(n + 1), i # j, m_fibers'[i].fiber # None
               PROVE  m_fibers'[i].fiber # m_fibers'[j].fiber
    BY <1>3 DEF QueueOnce
  <2>1. CASE i \in 1..n /\ j \in 1..n
    BY <1>3, <2>1 DEF OwnInv, QueueOnce, n
  <2>2. CASE i \in 1..n /\ j = n + 1
    BY <1>1, <1>3, <2>2 DEF Queued, n
  <2>3. CASE i = n + 1 /\ j \in 1..n
    BY <1>1, <1>3, <2>3 DEF Queued, n
  <2>4. QED
    BY <1>4, <2>1, <2>2, <2>3
<1>9. QED
  BY <1>3, <1>7, <1>8 DEF n, e

\* The entry a thread takes leaves the queue.
LEMMA PickQueue ==
    ASSUME PoolInv, OwnInv, NEW i \in 1..Len(m_fibers), m_fibers' = Without(m_fibers, i)
    PROVE  /\ QueueOnce' /\ \A g \in Fibers : Queued(g)' => Queued(g) /\ g # m_fibers[i].fiber
           /\ \A j \in 1..Len(m_fibers') : \E k \in 1..Len(m_fibers) :
                 k # i /\ m_fibers'[j] = m_fibers[k]
           /\ \A k \in 1..Len(m_fibers) : k # i =>
                 \E j \in 1..Len(m_fibers') : m_fibers'[j] = m_fibers[k]
<1> DEFINE n == Len(m_fibers)
           at(j) == IF j < i THEN j ELSE j + 1
<1>1. /\ n \in Nat /\ i \in 1..n /\ Len(m_fibers') = n - 1
      /\ \A j \in 1..(n - 1) : m_fibers'[j] = IF j < i THEN m_fibers[j] ELSE m_fibers[j + 1]
  BY WithoutEntry, SMTT(40) DEF PoolInv, TypeOK
<1> HIDE DEF n
<1>2. \A j \in 1..(n - 1) : at(j) \in 1..n /\ at(j) # i /\ m_fibers'[j] = m_fibers[at(j)]
  BY <1>1
<1>3. \A j, k \in 1..(n - 1) : j # k => at(j) # at(k)
  BY <1>1
<1>4. ASSUME NEW k \in 1..n, k # i
      PROVE  \E j \in 1..(n - 1) : m_fibers'[j] = m_fibers[k]
  <2>1. CASE k < i
    <3>1. k \in 1..(n - 1) /\ m_fibers'[k] = m_fibers[k]
      BY <1>1, <2>1
    <3>2. QED
      BY <3>1
  <2>2. CASE k > i
    <3>1. k - 1 \in 1..(n - 1) /\ ~(k - 1 < i) /\ (k - 1) + 1 = k
      BY <1>1, <2>2
    <3>2. m_fibers'[k - 1] = m_fibers[k]
      BY <1>1, <3>1
    <3>3. QED
      BY <3>1, <3>2
  <2>3. QED
    BY <1>1, <1>4, <2>1, <2>2
<1> HIDE DEF at
<1>5. QueueOnce'
  <2> SUFFICES ASSUME NEW j \in 1..(n - 1), NEW k \in 1..(n - 1), j # k,
                      m_fibers'[j].fiber # None
               PROVE  m_fibers'[j].fiber # m_fibers'[k].fiber
    BY <1>1 DEF QueueOnce
  <2>1. /\ at(j) \in 1..n /\ at(k) \in 1..n /\ at(j) # at(k)
        /\ m_fibers'[j] = m_fibers[at(j)] /\ m_fibers'[k] = m_fibers[at(k)]
    BY <1>2, <1>3
  <2>2. QED
    BY <2>1 DEF OwnInv, QueueOnce, n
<1>6. \A g \in Fibers : Queued(g)' => Queued(g) /\ g # m_fibers[i].fiber
  <2> SUFFICES ASSUME NEW g \in Fibers, NEW j \in 1..(n - 1), m_fibers'[j].fiber = g
               PROVE  Queued(g) /\ g # m_fibers[i].fiber
    BY <1>1 DEF Queued
  <2>1. at(j) \in 1..n /\ at(j) # i /\ m_fibers[at(j)].fiber = g /\ g # None
    BY <1>2, PoolAssumption
  <2>2. QED
    BY <1>1, <2>1 DEF Queued, OwnInv, QueueOnce, n
<1>7. QED
  BY <1>1, <1>2, <1>4, <1>5, <1>6 DEF n

\* No fiber exists at the start.
LEMMA InitOwn == Init => OwnInv
<1> SUFFICES ASSUME Init PROVE OwnInv
  OBVIOUS
<1>1. /\ \A th \in Threads : /\ pc[th] = "new" /\ ft[th].fiber = None /\ cb_fiber[th] = None
                             /\ cur[th] = None
      /\ Len(m_fibers) = 0 /\ armed = {} /\ failed = "none"
  BY DEF Init, NoEntry, Entry
<1>2. 1..Len(m_fibers) = {}
  BY <1>1
<1>3. \A th \in Threads : \A f \in Fibers : ~Holds(th, f)
  BY <1>1, PoolAssumption DEF Holds
<1>4. \A f \in Fibers : ~Queued(f)
  BY <1>2 DEF Queued
<1>5. OneOwner
  BY <1>1, <1>3 DEF OneOwner
<1>6. QueueOnce /\ QueueFree
  BY <1>2, <1>4 DEF QueueOnce, QueueFree
<1>7. Placed
  BY <1>1 DEF Placed, Switched, OnStack
<1>8. TakenFree /\ SpareReset /\ NoneArmed /\ NoAbort
  BY <1>1 DEF TakenFree, SpareReset, NoneArmed, NoAbort
<1>9. QED
  BY <1>5, <1>6, <1>7, <1>8 DEF OwnInv

\* Every step keeps every fiber in one place, when no callback waits.
LEMMA NextOwn ==
    ASSUME "hold" \notin Switches
    PROVE  PoolInv /\ PoolInv' /\ OwnInv /\ [Next]_vars => OwnInv'
<1> SUFFICES ASSUME PoolInv, PoolInv', OwnInv, [Next]_vars PROVE OwnInv'
  OBVIOUS
<1>b. /\ pc \in [Threads -> Labels] /\ ft \in [Threads -> Entries]
      /\ cb_fiber \in [Threads -> Fibers \union {None}]
      /\ cur \in [Threads -> Fibers \union {None}]
      /\ m_state \in [Fibers -> States] /\ armed \subseteq Fibers
      /\ NoEntry \in Entries /\ NoEntry.fiber = None /\ None \notin Fibers /\ None \notin Cbs
      /\ failed = "none" /\ m_fibers \in Seq(Entries)
  BY PoolAssumption DEF PoolInv, TypeOK, Labels, NoEntry, Entry, Entries, OwnInv, NoAbort
<1>q. UNCHANGED m_fibers /\ armed' \subseteq armed /\ UNCHANGED <<ft, cb_fiber, m_state>>
        => QueueOnce' /\ QueueFree'
  BY DEF OwnInv, QueueOnce, QueueFree, Queued, Holds
<1>s. \A th \in Threads : pc[th] \in Switched =>
         /\ Slot(th) \in Fibers /\ Holds(th, Slot(th))
         /\ m_state[Slot(th)] \in StateAt(pc[th])
  BY SlotHeld DEF OwnInv, Placed
<1>e. armed = {}
  BY DEF OwnInv, NoneArmed
<1>1. CASE start
  <2>1. UNCHANGED <<m_fibers, ft, cb_fiber, cur, m_state, armed, failed>> /\ mpc = "new"
        /\ pc' = [th \in Threads |-> IF th \in Workers THEN "pick" ELSE "new"]
    BY <1>1 DEF start, queue, locals, fiber
  <2>2. \A th \in Threads : pc[th] = "new"
    BY <2>1 DEF PoolInv, Shape, NotStarted
  <2>3. QED
    BY <1>q, <2>1, <2>2, OwnFrame
<1>2. ASSUME NEW c \in Cbs, NEW thread \in Threads \union {AnyThread}, schedule(None, c, thread),
             UNCHANGED <<pc, ft, cb_fiber, cur, m_state, armed, failed>>
      PROVE  OwnInv'
  <2>1. QueueOnce' /\ \A g \in Fibers : Queued(g)' <=> Queued(g)
    BY <1>b, <1>2, ScheduleQueue
  <2>2. QueueFree'
    BY <1>2, <2>1 DEF OwnInv, QueueFree, Holds
  <2>3. QED
    BY <1>2, <2>1, <2>2, OwnFrame
<1>3. CASE stop \/ join
  <2>1. UNCHANGED <<m_fibers, pc, ft, cb_fiber, cur, m_state, armed, failed>>
    BY <1>3 DEF stop, join, queue, locals, fiber
  <2>2. QED
    BY <1>q, <2>1, OwnFrame
<1>4. CASE stopPending \/ callRootFiber
  <2>1. /\ UNCHANGED <<m_fibers, ft, cb_fiber, cur, m_state, armed, failed>>
        /\ mpc \in {"stop", "quiet"}
        /\ pc' = pc \/ (UseCaller /\ pc' = [pc EXCEPT ![Main] = "pick"])
    BY <1>4 DEF stopPending, callRootFiber, CallsRun, queue, locals, fiber
  <2>2. UseCaller => pc[Main] = "new" /\ Main \in Threads
    BY <2>1 DEF PoolInv, Shape, NotStarted, Threads
  <2>3. \A th \in Threads : pc'[th] = pc[th] \/ (pc[th] = "new" /\ pc'[th] = "pick")
    BY <1>b, <2>1, <2>2
  <2>4. QED
    BY <1>q, <2>1, <2>3, OwnFrame
<1>6. ASSUME NEW th \in Threads, pick(th) PROVE OwnInv'
  <2>1. /\ pc[th] = "pick" /\ UNCHANGED <<m_state, cb_fiber, cur, armed, failed>>
    BY <1>6 DEF pick, At, fiber
  <2>2. ft[th].fiber = None /\ cur[th] = None
    BY <2>1 DEF OwnInv, Placed, OnStack
  <2>3. cb_fiber[th] # None => m_state[cb_fiber[th]] = "INIT"
    BY <2>1 DEF OwnInv, SpareReset, InUse, Switched
  <2>4. CASE \E i \in 1..Len(m_fibers) :
               /\ ft' = [ft EXCEPT ![th] = m_fibers[i]]
               /\ m_fibers' = Without(m_fibers, i) /\ Goto(th, "taken")
    <3>1. PICK i \in 1..Len(m_fibers) :
               /\ ft' = [ft EXCEPT ![th] = m_fibers[i]]
               /\ m_fibers' = Without(m_fibers, i) /\ Goto(th, "taken")
      BY <2>4
    <3> DEFINE f == m_fibers[i].fiber
    <3>2. m_fibers[i] \in Entries /\ f \in Fibers \union {None} /\ (f # None => Queued(f))
      <4>1. m_fibers[i] \in Entries
        BY <1>b
      <4>2. f \in Fibers \union {None}
        BY <4>1 DEF Entries
      <4>3. Queued(f)
        BY DEF Queued
      <4>4. QED
        BY <4>1, <4>2, <4>3
    <3>3. f # None => /\ \A u \in Threads : ~Holds(u, f)
                      /\ f \notin armed /\ m_state[f] \in {"READY", "HOLD"}
      BY <3>2 DEF OwnInv, QueueFree
    <3>4. /\ OnlyThread(th) /\ pc'[th] = "taken" /\ ft'[th].fiber = f
      BY <1>b, <2>1, <3>1 DEF OnlyThread, Goto
    <3>5. OnlyFiber(None)
      BY <2>1 DEF OnlyFiber
    <3>6. /\ QueueOnce' /\ \A g \in Fibers : Queued(g)' => Queued(g) /\ g # f
      BY <3>1, PickQueue
    <3> HIDE DEF f
    <3>7. \A g \in Fibers : Holds(th, g)' => Holds(th, g) \/ g = f
      BY <2>1, <3>4 DEF Holds
    <3>8. Mine(th, None)
      BY <1>b, <3>2, <3>3, <3>7 DEF Mine, OwnInv, OneOwner
    <3>9. QueueFree'
      <4>1. \A g \in Fibers, u \in Threads : Queued(g)' => ~Holds(u, g)'
        <5>1. \A g \in Fibers, u \in Threads : u # th => (Holds(u, g)' <=> Holds(u, g))
          BY <3>4 DEF OnlyThread, Holds
        <5>2. QED
          BY <3>6, <3>7, <5>1 DEF OwnInv, QueueFree
      <4>2. QED
        BY <2>1, <3>6, <4>1 DEF OwnInv, QueueFree
    <3>10. OwnAt(th)
      <4>1. f # None => f # cb_fiber[th]
        BY <3>3 DEF Holds
      <4>2. QED
        BY <1>b, <2>1, <2>2, <2>3, <3>3, <3>4, <4>1 DEF OwnAt, Switched, OnStack, InUse
    <3>11. QED
      BY <2>1, <3>4, <3>5, <3>6, <3>8, <3>9, <3>10, OwnStep
  <2>5. CASE Goto(th, "idle") /\ UNCHANGED queue /\ UNCHANGED ft
    <3>1. /\ OnlyThread(th) /\ pc'[th] = "idle" /\ UNCHANGED m_fibers
          /\ \A g \in Fibers : Holds(th, g)' => Holds(th, g)
      BY <1>b, <2>1, <2>5 DEF OnlyThread, Goto, Holds, queue
    <3>2. OnlyFiber(None)
      BY <1>b, <2>1 DEF OnlyFiber
    <3>3. OwnAt(th)
      BY <2>1, <2>2, <2>3, <2>5, <3>1 DEF OwnAt, Switched, OnStack
    <3>4. QED
      BY <1>b, <2>1, <3>1, <3>2, <3>3, HeldStep
  <2>6. QED
    BY <1>6, <2>4, <2>5 DEF pick
<1>7a. ASSUME NEW th \in Threads, runFiber(th) \/ swapIn(th) PROVE OwnInv'
  <2>1. /\ pc[th] \in {"taken", "in"} /\ (pc[th] = "taken" => ft[th].fiber # None)
        /\ \E l \in {"in", "switch"} : Goto(th, l)
        /\ UNCHANGED <<m_fibers, m_state, ft, cb_fiber, cur, armed, failed>>
    <3>1. swapIn(th) => m_state[Slot(th)] # "EXEC"
      BY <1>s DEF swapIn, At, Switched, StateAt
    <3>2. QED
      BY <1>7a, <3>1 DEF runFiber, swapIn, At, queue, locals, fiber
  <2>2. /\ OnlyThread(th) /\ pc'[th] \in {"in", "switch"} /\ Slot(th)' = Slot(th)
        /\ \A g \in Fibers : Holds(th, g)' => Holds(th, g)
    BY <1>b, <2>1 DEF OnlyThread, Goto, Holds, Slot
  <2>3. OnlyFiber(None)
    BY <1>b, <2>1 DEF OnlyFiber
  <2>4. /\ cur[th] = None
        /\ ft[th].fiber # None => /\ ft[th].fiber # cb_fiber[th] /\ ft[th].fiber \notin armed
                                  /\ m_state[ft[th].fiber] \in {"READY", "HOLD"}
    BY <2>1 DEF OwnInv, Placed, OnStack, TakenFree, OneOwner
  <2>5. m_state[Slot(th)] \in {"INIT", "READY", "HOLD"}
    <3>1. CASE pc[th] = "taken"
      BY <2>1, <2>4, <3>1 DEF Slot
    <3>2. CASE pc[th] = "in"
      BY <1>s, <3>2 DEF Switched, StateAt
    <3>3. QED
      BY <2>1, <3>1, <3>2
  <2>6. cb_fiber[th] # None /\ ~InUse(th)' => m_state[cb_fiber[th]] = "INIT"
    BY <2>1, <2>2 DEF OwnInv, SpareReset, InUse, Switched
  <2>7. OwnAt(th)
    BY <2>1, <2>2, <2>4, <2>5, <2>6 DEF OwnAt, StateAt, OnStack, Switched
  <2>8. QED
    BY <1>b, <2>1, <2>2, <2>3, <2>7, HeldStep
<1>7. ASSUME NEW th \in Threads, switchIn(th) PROVE OwnInv'
  <2> DEFINE f == Slot(th)
  <2>1. /\ f \in Fibers /\ Holds(th, f) /\ pc[th] = "switch" /\ f # None
        /\ m_state[f] \in {"INIT", "READY", "HOLD"}
        /\ (ft[th].fiber # None => f \notin armed /\ f # cb_fiber[th])
    <3>1. pc[th] = "switch"
      BY <1>7 DEF switchIn, At
    <3>2. f \in Fibers /\ Holds(th, f) /\ m_state[f] \in {"INIT", "READY", "HOLD"}
      BY <1>s, <3>1 DEF Switched, StateAt
    <3>3. QED
      BY <1>b, <3>1, <3>2 DEF OwnInv, TakenFree, OneOwner, Slot
  <2>2. /\ m_state' = [m_state EXCEPT ![f] = "EXEC"] /\ cur' = [cur EXCEPT ![th] = f]
        /\ Goto(th, "exec") /\ UNCHANGED <<m_fibers, ft, cb_fiber, armed, failed>>
    BY <1>7 DEF switchIn, queue, locals
  <2>3. f \notin armed
    BY <1>e
  <2> HIDE DEF f
  <2>4. /\ OnlyThread(th) /\ pc'[th] = "exec" /\ cur'[th] = f /\ m_state'[f] = "EXEC"
        /\ Slot(th)' = f
    BY <1>b, <2>1, <2>2 DEF OnlyThread, Goto, Slot, f
  <2>5. OnlyFiber(f)
    BY <1>b, <2>1, <2>2, <2>3 DEF OnlyFiber
  <2>6. cb_fiber[th] # None /\ ~InUse(th)' => m_state'[cb_fiber[th]] = "INIT"
    BY <1>b, <2>1, <2>2, <2>4 DEF OwnInv, SpareReset, InUse, Switched
  <2>7. ft[th].fiber # None => ft[th].fiber # cb_fiber[th]
    BY DEF OwnInv, OneOwner
  <2>8. OwnAt(th)
    BY <2>1, <2>2, <2>4, <2>6, <2>7 DEF OwnAt, StateAt, OnStack
  <2>9. QED
    BY <2>1, <2>2, <2>4, <2>5, <2>8, HeldStep DEF Holds
<1>8. ASSUME NEW th \in Threads, runCb(th) PROVE OwnInv'
  <2>1. pc[th] = "taken" /\ ft[th].cb # None /\ ft[th].fiber = None
    BY <1>8 DEF runCb, At, PoolInv, Shape, TakenKinds, OneKind
  <2>2. PICK f \in Fibers :
          /\ IF cb_fiber[th] # None THEN f = cb_fiber[th] ELSE Unreferenced(f)
          /\ IF m_state[f] \notin Ended \union {"INIT"}
             THEN Abort("reset")
             ELSE /\ m_state' = [m_state EXCEPT ![f] = "INIT"]
                  /\ cb_fiber' = [cb_fiber EXCEPT ![th] = f]
                  /\ ft' = [ft EXCEPT ![th] = NoEntry]
                  /\ Goto(th, "in")
                  /\ UNCHANGED <<m_fibers, cur, armed, failed>>
    BY <1>8 DEF runCb, NewFiber, queue
  <2>3. m_state[f] \in Ended \union {"INIT"}
    BY <2>1, <2>2 DEF OwnInv, SpareReset, InUse, Switched, Unreferenced
  <2>4. /\ m_state' = [m_state EXCEPT ![f] = "INIT"]
        /\ cb_fiber' = [cb_fiber EXCEPT ![th] = f]
        /\ ft' = [ft EXCEPT ![th] = NoEntry] /\ Goto(th, "in")
        /\ UNCHANGED <<m_fibers, cur, armed, failed>>
    BY <2>2, <2>3
  <2>5. /\ \A u \in Threads : u # th => ~Holds(u, f)
        /\ ~Queued(f) /\ f \notin armed
    <3>1. CASE cb_fiber[th] # None
      <4>1. f = cb_fiber[th] /\ Holds(th, f) /\ m_state[f] = "INIT"
        BY <2>1, <2>2, <3>1 DEF Holds, OwnInv, SpareReset, InUse, Switched
      <4>2. QED
        BY <4>1 DEF OwnInv, OneOwner, QueueFree, NoneArmed
    <3>2. CASE cb_fiber[th] = None
      BY <2>2, <3>2 DEF Unreferenced, Holds, Queued
    <3>3. QED
      BY <3>1, <3>2
  <2>6. /\ OnlyThread(th) /\ pc'[th] = "in" /\ cur'[th] = None /\ m_state'[f] = "INIT"
        /\ ft'[th].fiber = None /\ cb_fiber'[th] = f /\ Slot(th)' = f
    BY <1>b, <2>1, <2>4 DEF OnlyThread, Goto, Slot, OwnInv, Placed, OnStack
  <2>7. OnlyFiber(f)
    BY <1>b, <2>1, <2>4, <2>5 DEF OnlyFiber
  <2>8. \A g \in Fibers : Holds(th, g)' \/ g = f => g = f
    BY <1>b, <2>6 DEF Holds
  <2>9. Mine(th, f)
    BY <2>5, <2>8 DEF Mine
  <2>10. QueueOnce' /\ QueueFree'
    BY <2>4, <2>5, <2>6, <2>7, <2>8, QueueKept
  <2>11. OwnAt(th)
    <3>1. InUse(th)' /\ f # None
      BY <1>b, <2>6 DEF InUse, Switched
    <3>2. QED
      BY <2>6, <3>1 DEF OwnAt, StateAt, OnStack
  <2>12. QED
    BY <2>4, <2>6, <2>7, <2>9, <2>10, <2>11, OwnStep
<1>9. ASSUME NEW th \in Threads PROVE ~dropEnded(th)
  BY DEF dropEnded, At, OwnInv, TakenFree, Ended
<1>11. ASSUME NEW th \in Threads PROVE ~addEvent(th)
  BY DEF addEvent
<1>12. ASSUME NEW th \in Threads,
              YieldToHold(th) \/ YieldToReady(th) \/ \E state \in Ended : MainFunc(th, state)
       PROVE  OwnInv'
  <2>1. pc[th] \in {"exec", "yield"} /\ cur[th] = Slot(th) /\ Slot(th) \in Fibers
        /\ Holds(th, Slot(th))
    BY <1>12, <1>s DEF YieldToHold, YieldToReady, MainFunc, At, OwnInv, Placed, Switched, OnStack
  <2>2. /\ Goto(th, "out") /\ UNCHANGED <<m_fibers, ft, cb_fiber, cur, armed, failed>>
    BY <1>12 DEF YieldToHold, YieldToReady, MainFunc, queue, locals
  <2>3. PICK state \in {"HOLD", "READY"} \union Ended :
           /\ m_state' = [m_state EXCEPT ![Slot(th)] = state]
           /\ state # "HOLD" => pc[th] = "exec"
    BY <1>12, <2>1 DEF YieldToHold, YieldToReady, MainFunc, At
  <2>4. /\ OnlyThread(th) /\ pc'[th] = "out" /\ Slot(th)' = Slot(th)
        /\ \A g \in Fibers : Holds(th, g)' => Holds(th, g)
        /\ m_state'[Slot(th)] = state
    BY <1>b, <2>1, <2>2, <2>3 DEF OnlyThread, Goto, Slot, Holds
  <2>5. OnlyFiber(Slot(th))
    BY <1>b, <2>1, <2>2, <2>3 DEF OnlyFiber
  <2>7. (cb_fiber[th] # None /\ ~InUse(th)') => m_state'[cb_fiber[th]] = "INIT"
    <3>1. (cb_fiber[th] # None /\ ~InUse(th)') => ft[th].fiber # None /\ cb_fiber[th] # Slot(th)
      BY <2>1, <2>2, <2>4 DEF InUse, Switched, Slot, OwnInv, OneOwner
    <3>2. (cb_fiber[th] # None /\ ft[th].fiber # None) => m_state[cb_fiber[th]] = "INIT"
      BY DEF OwnInv, SpareReset, InUse
    <3>3. QED
      BY <1>b, <2>3, <3>1, <3>2
  <2>8. OwnAt(th)
    BY <2>1, <2>2, <2>3, <2>4, <2>7 DEF OwnAt, StateAt, OnStack, OwnInv, OneOwner
  <2>9. QED
    BY <2>1, <2>2, <2>4, <2>5, <2>8, HeldStep
<1>13. ASSUME NEW th \in Threads, swapOut(th) \/ decrementActive(th) \/ afterSwitch(th)
       PROVE  OwnInv'
  <2>1. /\ UNCHANGED <<m_fibers, m_state, ft, cb_fiber, armed, failed>>
        /\ \A u \in Threads : u # th => cur'[u] = cur[u]
        /\ \/ pc[th] = "out" /\ Goto(th, "back") /\ cur'[th] = None
           \/ pc[th] = "back" /\ Goto(th, "state") /\ cur' = cur
           \/ pc[th] = "state" /\ m_state[Slot(th)] = "READY" /\ Goto(th, "resched") /\ cur' = cur
           \/ pc[th] = "state" /\ m_state[Slot(th)] # "READY" /\ Goto(th, "end?") /\ cur' = cur
    BY <1>13, <1>b DEF swapOut, decrementActive, afterSwitch, At, queue, locals, fiber
  <2>2. PICK l \in {"back", "state", "resched", "end?"} : Goto(th, l)
    BY <2>1
  <2>3. /\ OnlyThread(th) /\ pc'[th] = l /\ Slot(th)' = Slot(th)
        /\ \A g \in Fibers : Holds(th, g)' => Holds(th, g)
    BY <1>b, <2>1, <2>2 DEF OnlyThread, Goto, Slot, Holds
  <2>4. OnlyFiber(None)
    BY <1>b, <2>1 DEF OnlyFiber
  <2>5. m_state[Slot(th)] \in StateAt(l) /\ cur'[th] = None
    <3>1. m_state[Slot(th)] \in StateAt(pc[th]) /\ pc[th] \in Switched
      BY <1>s, <2>1 DEF Switched
    <3>2. pc[th] # "out" => cur[th] = None
      BY <2>1 DEF OwnInv, Placed, OnStack
    <3>3. \A m : Goto(th, m) => m = l
      BY <1>b, <2>2 DEF Goto
    <3>4. QED
      BY <2>1, <2>2, <3>1, <3>2, <3>3 DEF StateAt
  <2>6. (cb_fiber[th] # None /\ ~InUse(th)') => m_state[cb_fiber[th]] = "INIT"
    BY <2>1, <2>3 DEF OwnInv, SpareReset, InUse, Switched
  <2>7. OwnAt(th)
    BY <2>1, <2>3, <2>5, <2>6 DEF OwnAt, OnStack, OwnInv, OneOwner
  <2>8. QED
    BY <1>b, <2>1, <2>3, <2>4, <2>7, HeldStep
<1>15. ASSUME NEW th \in Threads, afterEnd(th) PROVE OwnInv'
  <2>1. /\ pc[th] = "end?" /\ UNCHANGED <<m_fibers, cb_fiber, cur, armed, failed>>
    BY <1>15 DEF afterEnd, At, queue
  <2>2. /\ Slot(th) \in Fibers /\ Holds(th, Slot(th)) /\ cur[th] = None
        /\ m_state[Slot(th)] \in {"HOLD"} \union Ended
    BY <1>s, <2>1 DEF Switched, StateAt, OwnInv, Placed, OnStack
  <2>3. CASE m_state[Slot(th)] \in Ended
    <3>1. /\ m_state' = IF ft[th].fiber = None THEN [m_state EXCEPT ![Slot(th)] = "INIT"]
                        ELSE m_state
          /\ ft' = [ft EXCEPT ![th] = NoEntry] /\ Goto(th, "pick")
      BY <1>15, <2>3 DEF afterEnd
    <3>2. /\ OnlyThread(th) /\ pc'[th] = "pick" /\ ft'[th].fiber = None
          /\ \A g \in Fibers : Holds(th, g)' => Holds(th, g)
      BY <1>b, <2>1, <3>1 DEF OnlyThread, Goto, Holds
    <3>3. Slot(th) \notin armed
      BY <2>3 DEF OwnInv, NoneArmed, Ended
    <3>4. OnlyFiber(Slot(th))
      BY <1>b, <2>1, <2>2, <3>1, <3>3 DEF OnlyFiber
    <3>5. cb_fiber[th] # None => m_state'[cb_fiber[th]] = "INIT"
      <4>1. CASE ft[th].fiber = None
        BY <1>b, <2>2, <3>1, <4>1 DEF Slot
      <4>2. CASE ft[th].fiber # None
        BY <3>1, <4>2 DEF OwnInv, SpareReset, InUse
      <4>3. QED
        BY <4>1, <4>2
    <3>6. OwnAt(th)
      BY <2>1, <2>2, <3>2, <3>5 DEF OwnAt, OnStack, Switched
    <3>7. QED
      BY <2>1, <2>2, <3>2, <3>4, <3>6, HeldStep
  <2>4. CASE m_state[Slot(th)] \notin Ended
    <3>1. m_state' = m_state /\ ft' = ft /\ Goto(th, "hold")
      BY <1>15, <2>4 DEF afterEnd, fiber
    <3>2. /\ OnlyThread(th) /\ pc'[th] = "hold" /\ Slot(th)' = Slot(th)
          /\ \A g \in Fibers : Holds(th, g)' => Holds(th, g)
      BY <1>b, <2>1, <3>1 DEF OnlyThread, Goto, Holds, Slot
    <3>3. OnlyFiber(None)
      BY <1>b, <2>1, <3>1 DEF OnlyFiber
    <3>4. (cb_fiber[th] # None /\ ~InUse(th)') => m_state[cb_fiber[th]] = "INIT"
      BY <2>1, <3>1, <3>2 DEF OwnInv, SpareReset, InUse, Switched
    <3>5. OwnAt(th)
      BY <2>1, <2>2, <2>4, <3>1, <3>2, <3>4 DEF OwnAt, OnStack, StateAt, OwnInv, OneOwner
    <3>6. QED
      BY <1>b, <2>1, <3>2, <3>3, <3>5, HeldStep
  <2>5. QED
    BY <2>3, <2>4
<1>16. ASSUME NEW th \in Threads, reschedule(th) PROVE OwnInv'
  <2> DEFINE f == Slot(th)
  <2>1. /\ pc[th] = "resched" /\ schedule(f, None, AnyThread) /\ ReleaseSlot(th)
        /\ Goto(th, "pick") /\ UNCHANGED <<m_state, cur, armed, failed>>
    BY <1>16 DEF reschedule, At, fiber
  <2>2. /\ f \in Fibers /\ Holds(th, f) /\ cur[th] = None /\ m_state[f] = "READY"
    BY <1>s, <2>1 DEF Switched, StateAt, OwnInv, Placed, OnStack
  <2>3. f \notin armed /\ ~Queued(f)
    BY <2>2 DEF OwnInv, NoneArmed, QueueFree
  <2>4. QueueOnce' /\ \A g \in Fibers : Queued(g)' <=> Queued(g) \/ g = f
    BY <1>b, <2>1, <2>2, <2>3, ScheduleQueue
  <2>5. /\ OnlyThread(th) /\ pc'[th] = "pick" /\ ft'[th].fiber = None
    BY <1>b, <2>1 DEF OnlyThread, Goto, ReleaseSlot
  <2>6. /\ \A g \in Fibers : Holds(th, g)' => Holds(th, g) /\ g # f
        /\ cb_fiber'[th] # None => ft[th].fiber # None /\ cb_fiber'[th] = cb_fiber[th]
    <3>1. CASE ft[th].fiber = None
      BY <1>b, <2>1, <2>5, <3>1 DEF ReleaseSlot, Holds
    <3>2. CASE ft[th].fiber # None
      BY <1>b, <2>1, <2>5, <3>2 DEF ReleaseSlot, Holds, Slot, OwnInv, OneOwner
    <3>3. QED
      BY <3>1, <3>2
  <2> HIDE DEF f
  <2>7. OnlyFiber(None)
    BY <1>b, <2>1 DEF OnlyFiber
  <2>8. Mine(th, None)
    BY <1>b, <2>6 DEF Mine, OwnInv, OneOwner
  <2>9. QueueFree'
    <3>1. \A g \in Fibers, u \in Threads : u # th => (Holds(u, g)' <=> Holds(u, g))
      BY <2>5 DEF OnlyThread, Holds
    <3>2. \A g \in Fibers, u \in Threads : Queued(g)' => ~Holds(u, g)'
      BY <2>2, <2>4, <2>6, <3>1 DEF OwnInv, QueueFree, OneOwner
    <3>3. QED
      BY <2>1, <2>2, <2>3, <2>4, <3>2 DEF OwnInv, QueueFree
  <2>10. OwnAt(th)
    <3>1. cb_fiber'[th] # None => m_state'[cb_fiber'[th]] = "INIT"
      BY <2>1, <2>6 DEF OwnInv, SpareReset, InUse
    <3>2. QED
      BY <1>b, <2>1, <2>2, <2>5, <3>1 DEF OwnAt, OnStack, Switched
  <2>11. QED
    BY <2>1, <2>4, <2>5, <2>7, <2>8, <2>9, <2>10, OwnStep
<1>17. ASSUME NEW th \in Threads, setHold(th) PROVE OwnInv'
  <2>1. /\ pc[th] = "hold" /\ m_state' = [m_state EXCEPT ![Slot(th)] = "HOLD"] /\ ReleaseSlot(th)
        /\ Goto(th, "pick") /\ UNCHANGED <<m_fibers, cur, armed, failed>>
    <3>1. pc[th] = "hold" /\ m_state[Slot(th)] = "HOLD"
      BY <1>17, <1>s DEF setHold, At, Switched, StateAt
    <3>2. QED
      BY <1>17, <3>1 DEF setHold, queue, Ended
  <2>2. /\ Slot(th) \in Fibers /\ Holds(th, Slot(th)) /\ cur[th] = None
    BY <1>s, <2>1 DEF Switched, OwnInv, Placed, OnStack
  <2>3. /\ OnlyThread(th) /\ pc'[th] = "pick" /\ ft'[th].fiber = None
    BY <1>b, <2>1 DEF OnlyThread, Goto, ReleaseSlot
  <2>4. /\ \A g \in Fibers : Holds(th, g)' => Holds(th, g)
        /\ cb_fiber'[th] # None => /\ ft[th].fiber # None /\ cb_fiber'[th] = cb_fiber[th]
                                   /\ cb_fiber[th] # Slot(th)
    <3>1. CASE ft[th].fiber = None
      BY <1>b, <2>1, <2>3, <3>1 DEF ReleaseSlot, Holds
    <3>2. CASE ft[th].fiber # None
      BY <1>b, <2>1, <2>3, <3>2 DEF ReleaseSlot, Holds, Slot, OwnInv, OneOwner
    <3>3. QED
      BY <3>1, <3>2
  <2>5. OnlyFiber(Slot(th))
    BY <1>b, <2>1, <2>2 DEF OnlyFiber
  <2>6. OwnAt(th)
    <3>1. cb_fiber'[th] # None => m_state'[cb_fiber'[th]] = "INIT"
      BY <1>b, <2>1, <2>4 DEF OwnInv, SpareReset, InUse
    <3>2. QED
      BY <1>b, <2>1, <2>2, <2>3, <3>1 DEF OwnAt, OnStack, Switched
  <2>7. QED
    BY <2>1, <2>2, <2>3, <2>4, <2>5, <2>6, HeldStep
<1>18. ASSUME NEW th \in Threads, idle(th) \/ idleStopping(th) PROVE OwnInv'
  <2>1. /\ pc[th] \in {"idle", "quiet"}
        /\ UNCHANGED <<m_fibers, m_state, ft, cb_fiber, cur, armed, failed>>
        /\ \E l \in {"exited", "pick", "quiet"} : Goto(th, l)
    BY <1>18 DEF idle, idleStopping, At, queue, fiber, locals
  <2>2. /\ OnlyThread(th) /\ pc'[th] \in {"exited", "pick", "quiet"}
        /\ \A g \in Fibers : Holds(th, g)' => Holds(th, g)
    BY <1>b, <2>1 DEF OnlyThread, Goto, Holds
  <2>3. OnlyFiber(None)
    BY <1>b, <2>1 DEF OnlyFiber
  <2>4. ft[th].fiber = None /\ cur[th] = None
        /\ (cb_fiber[th] # None => m_state[cb_fiber[th]] = "INIT")
    BY <2>1 DEF OwnInv, Placed, OnStack, SpareReset, InUse, Switched
  <2>5. OwnAt(th)
    BY <2>1, <2>2, <2>4 DEF OwnAt, OnStack, Switched
  <2>6. QED
    BY <1>b, <2>1, <2>2, <2>3, <2>5, HeldStep
<1>19. ASSUME NEW f \in Fibers PROVE ~wake(f)
  BY <1>e DEF wake
<1>20. CASE UNCHANGED vars
  <2>1. UNCHANGED <<m_fibers, pc, ft, cb_fiber, cur, m_state, armed, failed>>
    BY <1>20 DEF vars, queue, locals, fiber
  <2>2. QED
    BY <1>q, <2>1, OwnFrame
<1>21. QED
  <2>1. ASSUME NEW th \in Threads, run(th) PROVE OwnInv'
    BY <1>6, <1>7, <1>7a, <1>8, <1>9, <1>13, <1>15, <1>16, <1>17, <1>18, <2>1 DEF run
  <2>2. ASSUME NEW th \in Threads, NEW c \in Cbs, NEW thread \in Threads \union {AnyThread},
               fiberSchedule(th, c, thread)
        PROVE  OwnInv'
    BY <1>2, <2>2 DEF fiberSchedule, locals, fiber
  <2>3. ASSUME NEW th \in Threads, FiberCode(th) PROVE OwnInv'
    BY <1>11, <1>12, <1>13, <2>2, <2>3 DEF FiberCode
  <2>4. ASSUME NEW c \in Cbs, mainSchedule(c) PROVE OwnInv'
    BY <1>2, <2>4 DEF mainSchedule, locals, fiber
  <2>5. CASE MainCode
    BY <1>1, <1>3, <1>4, <2>4, <2>5 DEF MainCode, StartStop
  <2>6. QED
    BY <1>19, <1>20, <2>1, <2>3, <2>5 DEF Next, Terminated

\* Every fiber in one place, in every reachable state.
THEOREM OwnInductive ==
    ASSUME "hold" \notin Switches
    PROVE  Spec => [](PoolInv /\ OwnInv)
<1>1. Init => PoolInv /\ OwnInv
  BY InitPool, InitOwn
<1>2. PoolInv /\ OwnInv /\ [Next]_vars => PoolInv' /\ OwnInv'
  BY NextPool, NextOwn
<1>3. QED
  BY <1>1, <1>2, PTL DEF Spec

\* No two threads are ever on the stack of one fiber of a pool whose callbacks
\* do not wait, however they yield and pin what they schedule.
THEOREM NoDoubleRunAlways ==
    ASSUME "hold" \notin Switches
    PROVE  Spec => []NoDoubleRun
<1>1. PoolInv /\ OwnInv => NoDoubleRun
  <2> SUFFICES ASSUME PoolInv, OwnInv, NEW th \in Threads, NEW u \in Threads, th # u,
                      cur[th] # None, cur[th] = cur[u]
               PROVE  FALSE
    BY DEF NoDoubleRun
  <2>1. /\ pc[th] \in OnStack /\ cur[th] = Slot(th)
        /\ pc[u] \in OnStack /\ cur[u] = Slot(u)
    BY DEF OwnInv, Placed
  <2>2. Holds(th, cur[th]) /\ Holds(u, cur[th]) /\ cur[th] \in Fibers
    BY <2>1, SlotHeld DEF OnStack, Switched
  <2>3. QED
    BY <2>2 DEF OwnInv, OneOwner
<1>2. QED
  BY <1>1, OwnInductive, PTL

\* In such a pool no assertion about m_state in swapIn, reset and ~Fiber fails:
\* a fiber is released only where its state allows it.
THEOREM NoAbortAlways ==
    ASSUME "hold" \notin Switches
    PROVE  Spec => []NoAbort
<1>1. PoolInv /\ OwnInv => NoAbort
  BY DEF OwnInv
<1>2. QED
  BY <1>1, OwnInductive, PTL

-----------------------------------------------------------------------------
(* stop() drains the pool.                                                 *)

\* Callbacks yield by YieldToReady only, and pin what they schedule to their
\* own thread or to none.
ReadyOnly == Switches \subseteq {"ready"} /\ Pins \subseteq {"self"}

\* The steps of such a pool.
ThreadStep(th) ==
    \/ pick(th) \/ runFiber(th) \/ runCb(th) \/ swapIn(th) \/ switchIn(th)
    \/ decrementActive(th) \/ afterSwitch(th)
    \/ (afterEnd(th) /\ m_state[Slot(th)] \in Ended)
    \/ reschedule(th) \/ idle(th) \/ idleStopping(th) \/ swapOut(th) \/ YieldToReady(th)
    \/ \E state \in Ended : MainFunc(th, state)
    \/ \E c \in Cbs, thread \in {AnyThread, th} : fiberSchedule(th, c, thread)
DrainStep == \/ MainCode \/ UNCHANGED vars
             \/ \E th \in Threads : ThreadStep(th)

\* No other step is enabled: no fiber is armed, parked or about to park.
LEMMA DrainSteps ==
    ASSUME ReadyOnly, PoolInv, OwnInv, DrainInv, [Next]_vars
    PROVE  DrainStep
<1>1. /\ armed = {} /\ "hold" \notin Switches /\ "other" \notin Pins
      /\ \A th \in Threads : pc[th] \notin {"yield", "hold"}
      /\ \A f \in Fibers : m_state[f] # "HOLD"
  BY DEF ReadyOnly, DrainInv, NeverHeld
<1>2. ASSUME NEW th \in Threads, run(th) PROVE ThreadStep(th)
  <2>1. ~setHold(th)
    BY <1>1 DEF setHold, At
  <2>2. ~dropEnded(th)
    BY DEF dropEnded, At, OwnInv, TakenFree, Ended
  <2>3. ASSUME afterEnd(th) PROVE m_state[Slot(th)] \in Ended
    <3>1. pc[th] = "end?"
      BY <2>3 DEF afterEnd, At
    <3>2. Slot(th) \in Fibers /\ m_state[Slot(th)] \in {"HOLD"} \union Ended
      BY <3>1, SlotHeld DEF Switched, OwnInv, Placed, StateAt
    <3>3. QED
      BY <1>1, <3>2
  <2>4. QED
    BY <1>2, <2>1, <2>2, <2>3 DEF run, ThreadStep
<1>3. ASSUME NEW th \in Threads, FiberCode(th) PROVE ThreadStep(th)
  <2>1. ~addEvent(th) /\ ~YieldToHold(th)
    BY <1>1 DEF addEvent, YieldToHold, At
  <2>2. ASSUME NEW c \in Cbs, NEW thread \in Threads \union {AnyThread},
               fiberSchedule(th, c, thread)
        PROVE  thread \in {AnyThread, th}
    BY <1>1, <2>2 DEF fiberSchedule
  <2>3. QED
    BY <1>3, <2>1, <2>2 DEF FiberCode, ThreadStep
<1>4. \A f \in Fibers : ~wake(f)
  BY <1>1 DEF wake
<1>5. QED
  BY <1>2, <1>3, <1>4 DEF Next, DrainStep, Terminated

\* What a step of thread th does to the control state.
LEMMA ThreadControl ==
    ASSUME PoolInv, OwnInv, OwnInv', NEW th \in Threads, ThreadStep(th)
    PROVE  /\ UNCHANGED <<mpc, m_autoStop, m_stopping, armed>>
           /\ pc[th] \notin {"new", "exited"}
           /\ \E l \in Labels \ {"new", "yield", "hold"} :
                 /\ pc' = [pc EXCEPT ![th] = l] 
                 /\ l = "exited" => pc[th] = "idle" /\ idle_term[th]
                 /\ l = "idle" => pick(th)
           /\ idle_term' = idle_term \/ idleStopping(th)
<1>1. failed' = "none" /\ pc \in [Threads -> Labels]
  BY DEF OwnInv, NoAbort, PoolInv, TypeOK, Labels
<1>2. CASE pick(th) \/ idle(th) \/ idleStopping(th)
  BY <1>2 DEF pick, idle, idleStopping, At, Goto, control, Labels, locals
<1>3. CASE runFiber(th) \/ runCb(th) \/ swapIn(th) \/ switchIn(th)
  BY <1>1, <1>3 DEF runFiber, runCb, swapIn, switchIn, At, Goto, control, Labels, locals, Abort
<1>4. CASE decrementActive(th) \/ afterSwitch(th) \/ swapOut(th) \/ YieldToReady(th)
           \/ reschedule(th)
  BY <1>4 DEF decrementActive, afterSwitch, swapOut, YieldToReady, reschedule, At, Goto, control,
     Labels, locals
<1>5. CASE afterEnd(th) /\ m_state[Slot(th)] \in Ended
  BY <1>5 DEF afterEnd, At, Goto, control, Labels
<1>6. CASE \E state \in Ended : MainFunc(th, state)
  BY <1>6 DEF MainFunc, At, Goto, control, Labels, locals
<1>7. ASSUME NEW c \in Cbs, NEW thread \in {AnyThread, th}, fiberSchedule(th, c, thread)
      PROVE  /\ UNCHANGED <<mpc, m_autoStop, m_stopping, armed, idle_term, pc>> /\ pc[th] = "exec"
             /\ pc' = [pc EXCEPT ![th] = "exec"]
  <2>1. UNCHANGED <<mpc, m_autoStop, m_stopping, armed, idle_term, pc>> /\ pc[th] = "exec"
    BY <1>7 DEF fiberSchedule, At, control, locals
  <2>2. QED
    BY <1>1, <2>1
<1>8. QED
  BY <1>2, <1>3, <1>4, <1>5, <1>6, <1>7 DEF ThreadStep, Labels

\* No fiber is armed or parked.
LEMMA HeldKept ==
    ASSUME PoolInv, OwnInv, OwnInv', DrainInv, DrainStep
    PROVE  NeverHeld'
<1>1. /\ armed = {} /\ m_state \in [Fibers -> States] /\ failed' = "none"
      /\ \A f \in Fibers : m_state[f] # "HOLD"
      /\ pc \in [Threads -> Labels] /\ \A th \in Threads : pc[th] \notin {"yield", "hold"}
  BY DEF DrainInv, NeverHeld, PoolInv, TypeOK, OwnInv, NoAbort, Labels
<1>2. CASE MainCode
  <2>1. UNCHANGED <<armed, m_state>>
    BY <1>2 DEF MainCode, StartStop, start, stop, stopPending, callRootFiber, join, mainSchedule,
       fiber
  <2>2. \A th \in Threads : pc'[th] \in {pc[th], "pick", "new"}
    BY <1>1, <1>2 DEF MainCode, StartStop, start, stop, stopPending, callRootFiber, CallsRun, join,
       mainSchedule
  <2>3. QED
    BY <1>1, <2>1, <2>2 DEF NeverHeld
<1>3. CASE UNCHANGED vars
  BY <1>1, <1>3 DEF vars, fiber, NeverHeld
<1>4. ASSUME NEW th \in Threads, ThreadStep(th) PROVE NeverHeld'
  <2>1. armed' = {} /\ \A u \in Threads : pc'[u] \notin {"yield", "hold"}
    BY <1>1, <1>4, ThreadControl
  <2>2. \A f \in Fibers : m_state'[f] # "HOLD"
    <3>1. m_state' = m_state \/ \E f \in Fibers, st \in States \ {"HOLD"} :
             m_state' = [m_state EXCEPT ![f] = st]
      <4>1. CASE pick(th) \/ idle(th) \/ idleStopping(th) \/ decrementActive(th)
                 \/ afterSwitch(th) \/ swapOut(th) \/ reschedule(th) \/ runFiber(th) \/ swapIn(th)
        BY <4>1 DEF pick, idle, idleStopping, decrementActive, afterSwitch, swapOut, reschedule,
           runFiber, swapIn, Abort, fiber
      <4>2. CASE runCb(th) \/ switchIn(th)
        <5>1. switchIn(th) => Slot(th) \in Fibers
          BY SlotHeld DEF switchIn, At, Switched
        <5>2. QED
          BY <1>1, <4>2, <5>1 DEF runCb, switchIn, Abort, States
      <4>3. CASE afterEnd(th) /\ m_state[Slot(th)] \in Ended
        <5>1. Slot(th) \in Fibers
          BY <4>3, SlotHeld DEF afterEnd, At, Switched
        <5>2. QED
          BY <4>3, <5>1 DEF afterEnd, States
      <4>4. CASE YieldToReady(th) \/ \E state \in Ended : MainFunc(th, state)
        <5>1. pc[th] = "exec"
          BY <4>4 DEF YieldToReady, MainFunc, At
        <5>2. cur[th] \in Fibers
          BY <5>1, SlotHeld DEF Switched, OwnInv, Placed, OnStack
        <5>3. QED
          BY <4>4, <5>2 DEF YieldToReady, MainFunc, States, Ended
      <4>5. ASSUME NEW c \in Cbs, NEW thread \in {AnyThread, th}, fiberSchedule(th, c, thread)
            PROVE  m_state' = m_state
        BY <4>5 DEF fiberSchedule, fiber
      <4>6. QED
        BY <1>4, <4>1, <4>2, <4>3, <4>4, <4>5 DEF ThreadStep
    <3>2. QED
      BY <1>1, <3>1
  <2>3. QED
    BY <2>1, <2>2 DEF NeverHeld
<1>5. QED
  BY <1>2, <1>3, <1>4 DEF DrainStep

\* Until stop() no thread has left run().
LEMMA RunningKept ==
    ASSUME PoolInv, OwnInv, OwnInv', DrainInv, DrainStep
    PROVE  Running'
<1>1. /\ pc \in [Threads -> Labels] /\ idle_term \in [Threads -> BOOLEAN] /\ Running
      /\ Workers \subseteq Threads
  BY DEF DrainInv, PoolInv, TypeOK, Labels, Threads
<1>2. CASE MainCode
  <2>1. CASE start
    <3>1. /\ mpc = "new" /\ mpc' = "main" /\ UNCHANGED <<m_autoStop, idle_term>>
          /\ \A th \in Threads : pc'[th] = IF th \in Workers THEN "pick" ELSE "new"
      BY <2>1 DEF start, locals
    <3>2. QED
      BY <1>1, <3>1 DEF Running
  <2>2. CASE stop
    <3>1. mpc = "main" /\ mpc' = "stop" /\ pc' = pc
      BY <2>2 DEF stop
    <3>2. QED
      BY <1>1, <3>1 DEF Running
  <2>3. CASE stopPending \/ callRootFiber
    <3>1. /\ mpc \in {"stop", "quiet"} /\ mpc' \in {"quiet", "join"}
          /\ \A th \in Threads : pc'[th] \in {pc[th], "pick"}
      BY <1>1, <2>3 DEF stopPending, callRootFiber, CallsRun
    <3>2. QED
      BY <1>1, <3>1 DEF Running
  <2>4. CASE join
    <3>1. mpc = "join" /\ mpc' = "stopped" /\ pc' = pc
      BY <2>4 DEF join
    <3>2. QED
      BY <1>1, <3>1 DEF Running
  <2>5. CASE \E c \in Cbs : mainSchedule(c)
    BY <1>1, <2>5 DEF mainSchedule, Running, control, locals
  <2>6. QED
    BY <1>2, <2>1, <2>2, <2>3, <2>4, <2>5 DEF MainCode, StartStop
<1>3. CASE UNCHANGED vars
  BY <1>1, <1>3 DEF vars, control, locals, Running
<1>4. ASSUME NEW th \in Threads, ThreadStep(th) PROVE Running'
  <2>1. UNCHANGED <<mpc, m_autoStop, m_stopping>>
    BY <1>4, ThreadControl
  <2>2. PICK l \in Labels \ {"new", "yield", "hold"} :
                 /\ pc' = [pc EXCEPT ![th] = l]
                 /\ l = "exited" => pc[th] = "idle" /\ idle_term[th]
    BY <1>4, ThreadControl
  <2>3. idle_term' = idle_term \/ idle_term' = [idle_term EXCEPT ![th] = stopping]
    BY <1>4, ThreadControl DEF idleStopping
  <2>4. ~m_autoStop => \A u \in Threads : idle_term'[u] => idle_term[u]
    BY <1>1, <2>3 DEF stopping
  <2>5. mpc \in {"new", "main"} => /\ ~m_autoStop' /\ \A u \in Threads : ~idle_term'[u] /\ pc'[u] # "exited"
    BY <1>1, <2>1, <2>2, <2>4 DEF Running
  <2>6. mpc # "new" => \A w \in Workers : pc'[w] # "new"
    BY <1>1, <2>2 DEF Running
  <2>7. QED
    BY <2>1, <2>5, <2>6 DEF Running
<1>5. QED
  BY <1>2, <1>3, <1>4 DEF DrainStep

\* An entry that is in no other way lost: the queue of the next state holds
\* old entries and, at its end, perhaps one for a live thread.
LEMMA WatchedStep ==
    ASSUME Watched,
           \A i \in 1..Len(m_fibers') :
              \/ \E j \in 1..Len(m_fibers) : m_fibers'[i] = m_fibers[j]
              \/ \E th \in Threads : m_fibers'[i].thread \in {AnyThread, th} /\ Live(th)',
           \A th \in Threads : Live(th) => Live(th)' \/
              \A i \in 1..Len(m_fibers') : m_fibers'[i].thread \notin {AnyThread, th}
    PROVE  Watched'
<1> SUFFICES ASSUME NEW i \in 1..Len(m_fibers')
             PROVE  \E th \in Threads : m_fibers'[i].thread \in {AnyThread, th} /\ Live(th)'
  BY DEF Watched
<1>1. CASE \E j \in 1..Len(m_fibers) : m_fibers'[i] = m_fibers[j]
  <2>1. PICK th \in Threads : m_fibers'[i].thread \in {AnyThread, th} /\ Live(th)
    BY <1>1 DEF Watched
  <2>2. QED
    BY <2>1
<1>2. QED
  BY <1>1

\* One more entry: the others stay.
LEMMA Appended ==
    ASSUME PoolInv, NEW f \in Fibers \union {None}, NEW c \in Cbs \union {None},
           NEW thread \in Threads \union {AnyThread}, schedule(f, c, thread)
    PROVE  /\ \A i \in 1..Len(m_fibers') : m_fibers'[i] = Entry(f, c, thread) \/
                 \E j \in 1..Len(m_fibers) : m_fibers'[i] = m_fibers[j]
           /\ \A j \in 1..Len(m_fibers) : \E i \in 1..Len(m_fibers') : m_fibers'[i] = m_fibers[j]
           /\ \E i \in 1..Len(m_fibers') : m_fibers'[i] = Entry(f, c, thread)
<1> DEFINE e == Entry(f, c, thread)
           n == Len(m_fibers)
<1>1. e \in Entries
  BY DEF Entry, Entries
<1>2. m_fibers' = Append(m_fibers, e) /\ m_fibers \in Seq(Entries)
  BY DEF schedule, PoolInv, TypeOK
<1> HIDE DEF e
<1>3. /\ Len(m_fibers') = n + 1 /\ n \in Nat
      /\ \A j \in 1..n : m_fibers'[j] = m_fibers[j]
      /\ m_fibers'[n + 1] = e
  BY <1>1, <1>2, AppendEntry
<1> HIDE DEF n
<1>4. /\ \A j \in 1..(n + 1) : j \in 1..n \/ j = n + 1
      /\ \A j \in 1..n : j \in 1..(n + 1)
      /\ n + 1 \in 1..(n + 1)
  BY <1>3
<1>5. /\ \A i \in 1..(n + 1) : m_fibers'[i] = e \/ \E j \in 1..n : m_fibers'[i] = m_fibers[j]
      /\ \A j \in 1..n : \E i \in 1..(n + 1) : m_fibers'[i] = m_fibers[j]
      /\ \E i \in 1..(n + 1) : m_fibers'[i] = e
  BY <1>3, <1>4
<1>6. QED
  BY <1>3, <1>5 DEF n, e

\* Every entry keeps a thread that will look at m_fibers again.
LEMMA WatchedKept ==
    ASSUME PoolInv, OwnInv, OwnInv', DrainInv, DrainStep
    PROVE  Watched'
<1>1. /\ pc \in [Threads -> Labels] /\ idle_term \in [Threads -> BOOLEAN] /\ Running /\ Watched
      /\ Workers \subseteq Threads /\ m_fibers \in Seq(Entries) /\ Threads # {}
      /\ UseCaller <=> Main \in Threads
  BY PoolAssumption DEF DrainInv, PoolInv, TypeOK, Labels, Threads
<1>q. UNCHANGED m_fibers => \A i \in 1..Len(m_fibers') :
         \E j \in 1..Len(m_fibers) : m_fibers'[i] = m_fibers[j]
  OBVIOUS
<1>2. CASE start
  <2>1. /\ mpc = "new" /\ mpc' = "main" /\ UNCHANGED <<m_fibers, idle_term>>
        /\ \A th \in Threads : pc'[th] \in {"pick", "new"}
    BY <1>2 DEF start, locals, queue
  <2>2. \A th \in Threads : Live(th)'
    BY <2>1 DEF Live
  <2>3. QED
    BY <1>1, <1>q, <2>1, <2>2, WatchedStep
<1>3. CASE stop
  <2>1. mpc = "main" /\ mpc' = "stop" /\ UNCHANGED <<m_fibers, idle_term, pc>>
    BY <1>3 DEF stop, locals, queue
  <2>2. \A th \in Threads : Live(th) => Live(th)'
    BY <2>1 DEF Live
  <2>3. QED
    BY <1>1, <1>q, <2>1, <2>2, WatchedStep
<1>4. CASE stopPending \/ callRootFiber
  <2>1. /\ mpc \in {"stop", "quiet"} /\ UNCHANGED <<m_fibers, idle_term>>
        /\ \/ mpc' = "quiet" /\ pc' = pc
           \/ mpc' = "join" /\ pc' = IF UseCaller THEN [pc EXCEPT ![Main] = "pick"] ELSE pc
           \/ stopping
    BY <1>4 DEF stopPending, callRootFiber, CallsRun, locals, queue
  <2>2. CASE stopping
    <3>1. m_fibers = <<>>
      BY <2>2 DEF stopping
    <3>2. QED
      BY <2>1, <3>1 DEF Watched
  <2>3. CASE mpc' = "quiet" /\ pc' = pc
    <3>1. \A th \in Threads : Live(th) => Live(th)'
      BY <2>1, <2>3 DEF Live
    <3>2. QED
      BY <1>1, <1>q, <2>1, <3>1, WatchedStep
  <2>4. CASE mpc' = "join" /\ pc' = IF UseCaller THEN [pc EXCEPT ![Main] = "pick"] ELSE pc
    <3>1. ASSUME NEW th \in Threads, Live(th) PROVE Live(th)'
      <4>1. CASE th = Main
        <5>1. pc'[th] = "pick"
          BY <1>1, <2>4, <4>1
        <5>2. QED
          BY <5>1 DEF Live
      <4>2. CASE th # Main
        <5>1. pc'[th] = pc[th] /\ th \in Workers
          BY <1>1, <2>4, <4>2 DEF Threads
        <5>2. pc[th] # "new"
          BY <1>1, <2>1, <5>1 DEF Running
        <5>3. QED
          BY <2>1, <3>1, <5>1, <5>2 DEF Live
      <4>3. QED
        BY <4>1, <4>2
    <3>2. QED
      BY <1>1, <1>q, <2>1, <3>1, WatchedStep
  <2>5. QED
    BY <2>1, <2>2, <2>3, <2>4
<1>5. CASE join
  <2>1. mpc = "join" /\ UNCHANGED <<m_fibers, idle_term, pc>>
    BY <1>5 DEF join, locals, queue
  <2>2. \A th \in Threads : Live(th) => Live(th)'
    BY <2>1 DEF Live
  <2>3. QED
    BY <1>1, <1>q, <2>1, <2>2, WatchedStep
<1>6. ASSUME NEW c \in Cbs, mainSchedule(c) PROVE Watched'
  <2>1. /\ mpc \in {"new", "main"} /\ UNCHANGED <<mpc, idle_term, pc>>
        /\ schedule(None, c, AnyThread)
    BY <1>6 DEF mainSchedule, locals, control
  <2>2. \A th \in Threads : Live(th)'
    BY <1>1, <2>1 DEF Running, Live
  <2>3. Entry(None, c, AnyThread).thread = AnyThread
    BY DEF Entry
  <2>4. \A i \in 1..Len(m_fibers') : m_fibers'[i] = Entry(None, c, AnyThread) \/
           \E j \in 1..Len(m_fibers) : m_fibers'[i] = m_fibers[j]
    <3>1. None \in Fibers \union {None} /\ c \in Cbs \union {None} /\ AnyThread \in Threads \union {AnyThread}
      BY <2>1
    <3>2. QED
      BY <2>1, <3>1, Appended
  <2>5. QED
    BY <1>1, <2>2, <2>3, <2>4, WatchedStep
<1>7. CASE UNCHANGED vars
  BY <1>1, <1>7 DEF vars, queue, control, locals, Watched, Live
<1>8. ASSUME NEW th \in Threads, ThreadStep(th) PROVE Watched'
  <2>1. UNCHANGED mpc /\ pc[th] \notin {"new", "exited"}
    BY <1>8, ThreadControl
  <2>2. PICK l \in Labels \ {"new", "yield", "hold"} :
                 /\ pc' = [pc EXCEPT ![th] = l]
                 /\ l = "exited" => pc[th] = "idle" /\ idle_term[th]
                 /\ l = "idle" => pick(th)
    BY <1>8, ThreadControl
  <2>3. \A u \in Threads : u # th => idle_term'[u] = idle_term[u]
    BY <1>1, <1>8, ThreadControl DEF idleStopping
  <2>4. \A u \in Threads : u # th /\ Live(u) => Live(u)'
    BY <1>1, <2>1, <2>2, <2>3 DEF Live
  <2>5. l \notin {"idle", "exited"} => Live(th)'
    BY <1>1, <2>2 DEF Live
  <2>6. l = "exited" => ~Live(th)
    BY <2>2 DEF Live
  <2>7. CASE pick(th)
    <3>1. CASE \E i \in 1..Len(m_fibers) : m_fibers' = Without(m_fibers, i) /\ Goto(th, "taken")
      <4>1. PICK i \in 1..Len(m_fibers) : m_fibers' = Without(m_fibers, i) /\ Goto(th, "taken")
        BY <3>1
      <4>2. l = "taken"
        BY <1>1, <2>2, <4>1 DEF Goto
      <4>3. \A j \in 1..Len(m_fibers') : \E k \in 1..Len(m_fibers) : m_fibers'[j] = m_fibers[k]
        BY <4>1, PickQueue
      <4>4. QED
        BY <1>1, <2>4, <2>5, <4>2, <4>3, WatchedStep
    <3>2. CASE UNCHANGED m_fibers /\ \A i \in 1..Len(m_fibers) : ~Takes(th, m_fibers[i])
      <4>1. ASSUME NEW i \in 1..Len(m_fibers) PROVE m_fibers[i].thread \notin {AnyThread, th}
        <5>1. m_fibers[i] \in Entries
          BY <1>1
        <5>2. m_fibers[i].fiber \in Fibers \union {None}
          BY <5>1 DEF Entries
        <5>3. Queued(m_fibers[i].fiber)
          BY DEF Queued
        <5>4. m_fibers[i].fiber # None => m_state[m_fibers[i].fiber] # "EXEC"
          BY <5>2, <5>3 DEF OwnInv, QueueFree
        <5>5. QED
          BY <3>2, <5>4 DEF Takes
      <4>2. QED
        BY <1>1, <1>q, <2>4, <3>2, <4>1, WatchedStep
    <3>3. QED
      BY <2>7, <3>1, <3>2 DEF pick, queue
  <2>8. CASE reschedule(th)
    <3>1. schedule(Slot(th), None, AnyThread) /\ Goto(th, "pick") /\ Slot(th) \in Fibers
      BY <2>8, SlotHeld DEF reschedule, At, Switched
    <3>2. Live(th)'
      BY <1>1, <3>1 DEF Goto, Live
    <3>3. Entry(Slot(th), None, AnyThread).thread = AnyThread
      BY DEF Entry
    <3>4. \A i \in 1..Len(m_fibers') : m_fibers'[i] = Entry(Slot(th), None, AnyThread) \/
             \E j \in 1..Len(m_fibers) : m_fibers'[i] = m_fibers[j]
      <4>1. Slot(th) \in Fibers \union {None} /\ None \in Cbs \union {None} /\ AnyThread \in Threads \union {AnyThread}
        BY <3>1
      <4>2. QED
        BY <3>1, <4>1, Appended
    <3>5. QED
      BY <1>1, <2>4, <3>2, <3>3, <3>4, WatchedStep
  <2>9. ASSUME NEW c \in Cbs, NEW thread \in {AnyThread, th}, fiberSchedule(th, c, thread)
        PROVE  Watched'
    <3>1. schedule(None, c, thread) /\ pc' = pc /\ pc[th] = "exec"
      BY <2>9 DEF fiberSchedule, At
    <3>2. Live(th)'
      BY <3>1 DEF Live
    <3>3. Entry(None, c, thread).thread = thread
      BY DEF Entry
    <3>4. \A i \in 1..Len(m_fibers') : m_fibers'[i] = Entry(None, c, thread) \/
             \E j \in 1..Len(m_fibers) : m_fibers'[i] = m_fibers[j]
      <4>1. None \in Fibers \union {None} /\ c \in Cbs \union {None} /\ thread \in Threads \union {AnyThread}
        BY <3>1
      <4>2. QED
        BY <3>1, <4>1, Appended
    <3>5. QED
      BY <1>1, <2>4, <3>2, <3>3, <3>4, WatchedStep
  <2>10. CASE ~pick(th) /\ UNCHANGED m_fibers
    <3>1. Live(th) => Live(th)'
      BY <2>2, <2>5, <2>6, <2>10
    <3>2. QED
      BY <1>1, <1>q, <2>4, <2>10, <3>1, WatchedStep
  <2>11. runFiber(th) \/ runCb(th) \/ swapIn(th) \/ switchIn(th) => UNCHANGED m_fibers
    BY DEF runFiber, runCb, swapIn, switchIn, Abort, queue
  <2>12. decrementActive(th) \/ afterSwitch(th) \/ afterEnd(th) \/ idle(th) \/ idleStopping(th)
         \/ swapOut(th) \/ YieldToReady(th) \/ (\E state \in Ended : MainFunc(th, state))
           => UNCHANGED m_fibers
    BY DEF decrementActive, afterSwitch, afterEnd, idle, idleStopping, swapOut, YieldToReady,
       MainFunc, queue
  <2>13. QED
    BY <1>8, <2>7, <2>8, <2>9, <2>10, <2>11, <2>12 DEF ThreadStep
<1>9. QED
  BY <1>2, <1>3, <1>4, <1>5, <1>6, <1>7, <1>8 DEF DrainStep, MainCode, StartStop

\* A sequence without elements is empty.
LEMMA EmptySeq ==
    ASSUME NEW S, NEW s \in Seq(S), ~(1 <= Len(s))
    PROVE  s = <<>>
<1>1. Len(s) = 0
  OBVIOUS
<1>2. QED
  BY <1>1

\* When stop() returns no thread is in run() and the queue is empty.
LEMMA HaltedKept ==
    ASSUME PoolInv, OwnInv, OwnInv', DrainInv, DrainStep
    PROVE  Halted'
<1>1. m_fibers \in Seq(Entries) /\ Watched /\ Halted
  BY DEF DrainInv, PoolInv, TypeOK
<1>2. CASE start \/ stop \/ stopPending \/ callRootFiber \/ \E c \in Cbs : mainSchedule(c)
  <2>1. mpc' # "stopped"
    BY <1>2 DEF start, stop, stopPending, callRootFiber, mainSchedule, control
  <2>2. QED
    BY <2>1 DEF Halted
<1>4. CASE join
  <2>1. /\ mpc = "join" /\ UNCHANGED <<m_fibers, pc>>
        /\ \A th \in Threads : pc[th] \in {"exited", "new"}
    BY <1>4 DEF join, queue
  <2>2. \A th \in Threads : ~Live(th)
    BY <2>1 DEF Live
  <2>3. 1..Len(m_fibers) = {}
    BY <1>1, <2>2 DEF Watched
  <2>4. m_fibers = <<>>
    <3>1. Len(m_fibers) \in Nat /\ ~(1 <= Len(m_fibers))
      BY <1>1, <2>3
    <3>2. QED
      BY <1>1, <3>1, EmptySeq
  <2>5. QED
    BY <2>1, <2>4 DEF Halted
<1>5. CASE UNCHANGED vars
  BY <1>1, <1>5 DEF vars, queue, control, Halted
<1>6. ASSUME NEW th \in Threads, ThreadStep(th) PROVE Halted'
  <2>1. UNCHANGED mpc /\ pc[th] \notin {"new", "exited"}
    BY <1>6, ThreadControl
  <2>2. QED
    BY <1>1, <2>1 DEF Halted
<1>7. QED
  BY <1>2, <1>4, <1>5, <1>6 DEF DrainStep, MainCode, StartStop

\* What a step of thread th does to the fibers and the callbacks: it changes
\* nothing, or the fiber f in its hands.
QuietStep == UNCHANGED <<m_state, m_cb, done>>
SwitchStep(f) == /\ \E state \in {"INIT", "EXEC"} : m_state' = [m_state EXCEPT ![f] = state]
                 /\ \A g \in Fibers : g # f => m_cb'[g] = m_cb[g]
                 /\ done' = done
EndStep(f) == \E state \in Ended :
                 /\ m_state' = [m_state EXCEPT ![f] = state]
                 /\ m_cb' = m_cb \/ m_cb' = [m_cb EXCEPT ![f] = None]
                 /\ done' = done \union {m_cb[f]}
ResetStep(f) == /\ m_state' = [m_state EXCEPT ![f] = "INIT"] /\ m_cb' = [m_cb EXCEPT ![f] = None]
                /\ done' = done
ReadyStep(f) == m_state' = [m_state EXCEPT ![f] = "READY"] /\ UNCHANGED <<m_cb, done>>

\* A fiber that has ended has ended its callback.
LEMMA EndedKept ==
    ASSUME PoolInv, OwnInv, OwnInv', DrainInv, DrainStep
    PROVE  EndedDone'
<1>1. /\ EndedDone /\ m_state \in [Fibers -> States] /\ m_cb \in [Fibers -> Cbs \union {None}]
      /\ failed' = "none" /\ \A st \in {"EXEC", "INIT", "READY"} : st \notin Ended
  BY DEF DrainInv, PoolInv, TypeOK, OwnInv, NoAbort, Ended
<1>2. CASE QuietStep
  BY <1>1, <1>2 DEF QuietStep, EndedDone
<1>3. ASSUME NEW f \in Fibers, SwitchStep(f) \/ EndStep(f) \/ ResetStep(f) \/ ReadyStep(f)
      PROVE  EndedDone'
  <2> SUFFICES ASSUME NEW g \in Fibers, m_state'[g] \in Ended
               PROVE  m_cb'[g] \in done' \union {None}
    BY DEF EndedDone
  <2>1. CASE g # f
    <3>1. m_state'[g] = m_state[g] /\ m_cb'[g] = m_cb[g] /\ done \subseteq done'
      BY <1>1, <1>3, <2>1 DEF SwitchStep, EndStep, ResetStep, ReadyStep
    <3>2. QED
      BY <1>1, <3>1 DEF EndedDone
  <2>2. CASE g = f
    <3>1. EndStep(f)
      BY <1>1, <1>3, <2>2 DEF SwitchStep, ResetStep, ReadyStep
    <3>2. QED
      BY <1>1, <2>2, <3>1 DEF EndStep
  <2>3. QED
    BY <2>1, <2>2
<1>4. CASE MainCode
  BY <1>2, <1>4 DEF MainCode, StartStop, start, stop, stopPending, callRootFiber, join,
     mainSchedule, fiber, tasks, QuietStep
<1>5. CASE UNCHANGED vars
  BY <1>2, <1>5 DEF vars, fiber, tasks, QuietStep
<1>6. ASSUME NEW th \in Threads, ThreadStep(th) PROVE EndedDone'
  <2>1. CASE pick(th) \/ idle(th) \/ idleStopping(th) \/ decrementActive(th) \/ afterSwitch(th)
             \/ swapOut(th) \/ reschedule(th) \/ runFiber(th) \/ swapIn(th)
    BY <1>1, <1>2, <2>1 DEF pick, idle, idleStopping, decrementActive, afterSwitch, swapOut,
       reschedule, runFiber, swapIn, Abort, fiber, tasks, QuietStep
  <2>2. CASE switchIn(th)
    <3>1. Slot(th) \in Fibers
      BY <2>2, SlotHeld DEF switchIn, At, Switched
    <3>2. SwitchStep(Slot(th))
      BY <1>1, <2>2 DEF switchIn, SwitchStep
    <3>3. QED
      BY <1>3, <3>1, <3>2
  <2>3. CASE runCb(th)
    <3>1. \E f \in Fibers : SwitchStep(f)
      BY <1>1, <2>3 DEF runCb, Abort, SwitchStep, tasks
    <3>2. QED
      BY <1>3, <3>1
  <2>4. CASE YieldToReady(th) \/ \E state \in Ended : MainFunc(th, state)
    <3>1. pc[th] = "exec"
      BY <2>4 DEF YieldToReady, MainFunc, At
    <3>2. cur[th] \in Fibers
      BY <3>1, SlotHeld DEF Switched, OwnInv, Placed, OnStack
    <3>3. ReadyStep(cur[th]) \/ EndStep(cur[th])
      BY <2>4 DEF YieldToReady, MainFunc, ReadyStep, EndStep
    <3>4. QED
      BY <1>3, <3>2, <3>3
  <2>5. CASE afterEnd(th) /\ m_state[Slot(th)] \in Ended
    <3>1. Slot(th) \in Fibers
      BY <2>5, SlotHeld DEF afterEnd, At, Switched
    <3>2. QuietStep \/ ResetStep(Slot(th))
      BY <2>5 DEF afterEnd, tasks, QuietStep, ResetStep
    <3>3. QED
      BY <1>2, <1>3, <3>1, <3>2
  <2>6. ASSUME NEW c \in Cbs, NEW thread \in {AnyThread, th}, fiberSchedule(th, c, thread)
        PROVE  EndedDone'
    BY <1>2, <2>6 DEF fiberSchedule, fiber, QuietStep
  <2>7. QED
    BY <1>6, <2>1, <2>2, <2>3, <2>4, <2>5, <2>6 DEF ThreadStep
<1>7. QED
  BY <1>4, <1>5, <1>6 DEF DrainStep

\* Thread u still has what it had.
Stays(u) == /\ pc[u] = "taken" => pc'[u] = "taken" /\ ft'[u] = ft[u]
            /\ pc[u] \in Switched => pc'[u] \in Switched /\ Slot(u)' = Slot(u)
QueueGrows == \A j \in 1..Len(m_fibers) : \E i \in 1..Len(m_fibers') : m_fibers'[i] = m_fibers[j]

\* Queued entries and what other threads have stay where they are.
LEMMA FoundStays ==
    ASSUME NEW th, NEW c \in Cbs, QueueGrows, \A u \in Threads : u # th => Stays(u),
           Found(c)
    PROVE  \/ Found(c)' \/ c \in unscheduled \union done
           \/ th \in Threads /\ pc[th] = "taken" /\ ft[th].cb = c
           \/ \E f \in Fibers : m_cb[f] = c /\ Reached(f) /\
                 \/ m_cb'[f] # c
                 \/ th \in Threads /\ pc[th] = "taken" /\ ft[th].fiber = f
                 \/ th \in Threads /\ pc[th] \in Switched /\ Slot(th) = f
<1>1. CASE InQueue(c)
  BY <1>1 DEF InQueue, QueueGrows, Found
<1>2. CASE \E u \in Threads : pc[u] = "taken" /\ ft[u].cb = c
  BY <1>2 DEF Stays, Found
<1>3. ASSUME NEW f \in Fibers, m_cb[f] = c, m_cb'[f] = c, Reached(f)
      PROVE  \/ Found(c)'
             \/ th \in Threads /\ pc[th] = "taken" /\ ft[th].fiber = f
             \/ th \in Threads /\ pc[th] \in Switched /\ Slot(th) = f
  <2>1. Queued(f) => Queued(f)'
    BY DEF Queued, QueueGrows
  <2>2. \/ Reached(f)'
        \/ th \in Threads /\ pc[th] = "taken" /\ ft[th].fiber = f
        \/ th \in Threads /\ pc[th] \in Switched /\ Slot(th) = f
    BY <1>3, <2>1 DEF Reached, Stays
  <2>3. QED
    BY <1>3, <2>2 DEF Found
<1>4. QED
  BY <1>1, <1>2, <1>3 DEF Found

\* No thread lets go of what it has.
LEMMA FoundFrame ==
    ASSUME QueueGrows, \A u \in Threads : Stays(u), m_cb' = m_cb, NEW c \in Cbs, Found(c)
    PROVE  Found(c)' \/ c \in unscheduled \union done
<1>1. CASE InQueue(c)
  BY <1>1 DEF InQueue, QueueGrows, Found
<1>2. CASE \E u \in Threads : pc[u] = "taken" /\ ft[u].cb = c
  BY <1>2 DEF Stays, Found
<1>3. ASSUME NEW f \in Fibers, m_cb[f] = c, Reached(f) PROVE Found(c)'
  <2>1. Queued(f) => Queued(f)'
    BY DEF Queued, QueueGrows
  <2>2. Reached(f)'
    BY <1>3, <2>1 DEF Reached, Stays
  <2>3. QED
    BY <1>3, <2>2 DEF Found
<1>4. QED
  BY <1>1, <1>2, <1>3 DEF Found

\* Every callback that was scheduled and has not ended is somewhere.
LEMMA TrackedKept ==
    ASSUME PoolInv, PoolInv', OwnInv, OwnInv', DrainInv, DrainStep
    PROVE  Tracked'
<1> SUFFICES ASSUME NEW c \in Cbs PROVE Found(c)'
  BY DEF Tracked
<1>1. /\ Found(c) /\ EndedDone /\ pc \in [Threads -> Labels] /\ failed' = "none" /\ c # None
      /\ ft \in [Threads -> Entries] /\ cb_fiber \in [Threads -> Fibers \union {None}]
      /\ cur \in [Threads -> Fibers \union {None}]
      /\ m_cb \in [Fibers -> Cbs \union {None}] /\ None \notin Fibers
      /\ NoEntry.fiber = None
  BY PoolAssumption DEF DrainInv, Tracked, PoolInv, TypeOK, Labels, OwnInv, NoAbort, NoEntry, Entry
<1>q. UNCHANGED m_fibers => QueueGrows
  BY DEF QueueGrows
<1>d. UNCHANGED <<unscheduled, done>> /\ c \in unscheduled \union done => Found(c)'
  BY DEF Found
<1>2. CASE StartStop
  <2>1. UNCHANGED <<m_fibers, m_cb, ft, cb_fiber, unscheduled, done>>
    BY <1>2 DEF StartStop, start, stop, stopPending, callRootFiber, join, queue, fiber, locals, tasks
  <2>2. ASSUME NEW u \in Threads PROVE pc'[u] = pc[u] \/ pc[u] = "new"
    <3>1. CASE start
      BY <3>1 DEF start, PoolInv, Shape, NotStarted
    <3>2. CASE stop \/ join
      BY <3>2 DEF stop, join
    <3>3. CASE stopPending \/ callRootFiber
      <4>1. /\ mpc \in {"stop", "quiet"}
            /\ pc' = pc \/ (UseCaller /\ pc' = [pc EXCEPT ![Main] = "pick"])
        BY <3>3 DEF stopPending, callRootFiber, CallsRun
      <4>2. UseCaller => pc[Main] = "new"
        BY <4>1 DEF PoolInv, Shape, NotStarted
      <4>3. QED
        BY <1>1, <4>1, <4>2
    <3>4. QED
      BY <1>2, <3>1, <3>2, <3>3 DEF StartStop
  <2>3. \A u \in Threads : Stays(u)
    BY <2>1, <2>2 DEF Stays, Slot, Switched
  <2>4. QED
    BY <1>1, <1>q, <1>d, <2>1, <2>3, FoundFrame
<1>3. ASSUME NEW d \in Cbs, NEW thread \in Threads \union {AnyThread}, schedule(None, d, thread),
             unscheduled' = unscheduled \ {d}, UNCHANGED <<m_cb, ft, cb_fiber, pc, done>>
      PROVE  Found(c)'
  <2>1. None \in Fibers \union {None} /\ d \in Cbs \union {None}
    OBVIOUS
  <2>2. QueueGrows /\ \E i \in 1..Len(m_fibers') : m_fibers'[i] = Entry(None, d, thread)
    BY <1>3, <2>1, Appended DEF QueueGrows
  <2>3. InQueue(d)'
    BY <2>2 DEF InQueue, Entry
  <2>4. \A u \in Threads : Stays(u)
    BY <1>3 DEF Stays, Slot
  <2>5. Found(c)' \/ c \in unscheduled \union done
    BY <1>1, <1>3, <2>2, <2>4, FoundFrame
  <2>6. QED
    BY <1>3, <2>3, <2>5 DEF Found
<1>4. ASSUME NEW d \in Cbs, mainSchedule(d) PROVE Found(c)'
  BY <1>3, <1>4 DEF mainSchedule, fiber, locals
<1>5. CASE UNCHANGED vars
  <2>1. UNCHANGED <<m_fibers, m_cb, ft, cb_fiber, unscheduled, done, pc>>
    BY <1>5 DEF vars, queue, fiber, locals, tasks
  <2>2. QED
    BY <1>1, <2>1 DEF Found, InQueue, Reached, Queued, Slot
<1>6. ASSUME NEW th \in Threads, pick(th) PROVE Found(c)'
  <2>1. /\ pc[th] = "pick" /\ UNCHANGED <<m_cb, cb_fiber, unscheduled, done>>
    BY <1>6 DEF pick, At, fiber, tasks
  <2>2. CASE \E i \in 1..Len(m_fibers) :
               /\ ft' = [ft EXCEPT ![th] = m_fibers[i]]
               /\ m_fibers' = Without(m_fibers, i) /\ Goto(th, "taken")
    <3>1. PICK i \in 1..Len(m_fibers) :
               /\ ft' = [ft EXCEPT ![th] = m_fibers[i]]
               /\ m_fibers' = Without(m_fibers, i) /\ Goto(th, "taken")
      BY <2>2
    <3>2. pc'[th] = "taken" /\ ft'[th] = m_fibers[i]
      BY <1>1, <3>1 DEF Goto
    <3>3. \A u \in Threads : u # th => pc'[u] = pc[u] /\ ft'[u] = ft[u] /\ Slot(u)' = Slot(u)
      BY <1>1, <2>1, <3>1 DEF Goto, Slot
    <3>4. \A k \in 1..Len(m_fibers) : k # i =>
             \E j \in 1..Len(m_fibers') : m_fibers'[j] = m_fibers[k]
      BY <3>1, PickQueue
    <3>5. CASE InQueue(c)
      BY <3>2, <3>4, <3>5 DEF InQueue, Found
    <3>6. CASE \E u \in Threads : pc[u] = "taken" /\ ft[u].cb = c
      BY <2>1, <3>3, <3>6 DEF Found
    <3>7. ASSUME NEW f \in Fibers, m_cb[f] = c, Reached(f) PROVE Found(c)'
      <4>1. Queued(f) => Queued(f)' \/ ft'[th].fiber = f
        BY <3>2, <3>4 DEF Queued
      <4>2. Reached(f)'
        BY <2>1, <3>2, <3>3, <3>7, <4>1 DEF Reached, Switched
      <4>3. QED
        BY <2>1, <3>7, <4>2 DEF Found
    <3>8. QED
      BY <1>1, <1>d, <2>1, <3>5, <3>6, <3>7 DEF Found
  <2>3. CASE Goto(th, "idle") /\ UNCHANGED queue /\ UNCHANGED ft
    <3>1. UNCHANGED m_fibers /\ \A u \in Threads : Stays(u)
      BY <1>1, <2>1, <2>3 DEF Goto, Stays, Slot, queue, Switched
    <3>2. QED
      BY <1>1, <1>q, <1>d, <2>1, <3>1, FoundFrame
  <2>4. QED
    BY <1>6, <2>2, <2>3 DEF pick
<1>7. ASSUME NEW th \in Threads, runFiber(th) PROVE Found(c)'
  <2>1. /\ pc[th] = "taken" /\ ft[th].fiber # None /\ Goto(th, "in")
        /\ UNCHANGED <<m_fibers, m_cb, ft, cb_fiber, unscheduled, done>>
    BY <1>1, <1>7 DEF runFiber, At, queue, fiber, locals, tasks
  <2>2. ft[th].cb = None /\ ft[th].fiber \in Fibers
    BY <2>1, SlotHeld DEF PoolInv, Shape, TakenKinds, OneKind
  <2>3. /\ pc'[th] = "in" /\ Slot(th)' = ft[th].fiber
        /\ \A u \in Threads : u # th => pc'[u] = pc[u]
    BY <1>1, <2>1 DEF Goto, Slot
  <2>4. \A u \in Threads : u # th => Stays(u)
    BY <2>1, <2>3 DEF Stays, Slot
  <2>5. \/ Found(c)' \/ c \in unscheduled \union done
        \/ \E f \in Fibers : m_cb[f] = c /\ ft[th].fiber = f
    BY <1>1, <1>q, <2>1, <2>2, <2>4, FoundStays DEF Switched
  <2>6. \A f \in Fibers : ft[th].fiber = f => Reached(f)'
    BY <2>3 DEF Reached, Switched
  <2>7. QED
    BY <1>d, <2>1, <2>5, <2>6 DEF Found
<1>8. ASSUME NEW th \in Threads, runCb(th) PROVE Found(c)'
  <2>1. pc[th] = "taken" /\ ft[th].cb # None /\ ft[th].fiber = None
    BY <1>8 DEF runCb, At, PoolInv, Shape, TakenKinds, OneKind
  <2>2. PICK f \in Fibers :
          /\ IF cb_fiber[th] # None THEN f = cb_fiber[th] ELSE Unreferenced(f)
          /\ m_cb' = [m_cb EXCEPT ![f] = ft[th].cb]
          /\ cb_fiber' = [cb_fiber EXCEPT ![th] = f]
          /\ ft' = [ft EXCEPT ![th] = NoEntry] /\ Goto(th, "in")
          /\ UNCHANGED <<m_fibers, unscheduled, done>>
    BY <1>1, <1>8 DEF runCb, NewFiber, queue, tasks, Abort
  <2>3. /\ pc'[th] = "in" /\ Slot(th)' = f /\ m_cb'[f] = ft[th].cb
        /\ \A u \in Threads : u # th => pc'[u] = pc[u] /\ ft'[u] = ft[u] /\ cb_fiber'[u] = cb_fiber[u]
        /\ \A g \in Fibers : g # f => m_cb'[g] = m_cb[g]
    BY <1>1, <2>2 DEF Goto, Slot
  <2>4. \A u \in Threads : u # th => Stays(u)
    BY <2>3 DEF Stays, Slot
  <2>5. ~Reached(f)
    <3>1. /\ \A u \in Threads : u # th => ~Holds(u, f)
          /\ ~Queued(f)
      <4>1. CASE cb_fiber[th] # None
        <5>1. f = cb_fiber[th] /\ Holds(th, f) /\ m_state[f] = "INIT"
          BY <2>1, <2>2, <4>1 DEF Holds, OwnInv, SpareReset, InUse, Switched
        <5>2. QED
          BY <5>1 DEF OwnInv, OneOwner, QueueFree
      <4>2. CASE cb_fiber[th] = None
        BY <2>2, <4>2 DEF Unreferenced, Holds, Queued
      <4>3. QED
        BY <4>1, <4>2
    <3>2. ASSUME NEW u \in Threads PROVE ~(pc[u] = "taken" /\ ft[u].fiber = f)
      BY <1>1, <2>1, <3>1 DEF Holds
    <3>3. ASSUME NEW u \in Threads PROVE ~(pc[u] \in Switched /\ Slot(u) = f)
      BY <2>1, <3>1, SlotHeld DEF Switched
    <3>4. QED
      BY <3>1, <3>2, <3>3 DEF Reached
  <2>6. \/ Found(c)' \/ c \in unscheduled \union done \/ ft[th].cb = c
    <3>1. \/ Found(c)' \/ c \in unscheduled \union done
          \/ th \in Threads /\ pc[th] = "taken" /\ ft[th].cb = c
          \/ \E g \in Fibers : m_cb[g] = c /\ Reached(g) /\
                \/ m_cb'[g] # c
                \/ th \in Threads /\ pc[th] = "taken" /\ ft[th].fiber = g
                \/ th \in Threads /\ pc[th] \in Switched /\ Slot(th) = g
      BY <1>1, <1>q, <2>2, <2>4, FoundStays
    <3>2. QED
      BY <1>1, <2>1, <2>3, <2>5, <3>1 DEF Switched
  <2>7. Reached(f)'
    BY <2>3 DEF Reached, Switched
  <2>8. QED
    BY <1>d, <2>2, <2>3, <2>6, <2>7 DEF Found
<1>9. ASSUME NEW th \in Threads,
             \/ idle(th) \/ idleStopping(th) \/ swapIn(th) \/ switchIn(th)
             \/ decrementActive(th) \/ afterSwitch(th) \/ swapOut(th) \/ YieldToReady(th)
      PROVE  Found(c)'
  <2>1. UNCHANGED <<m_fibers, m_cb, ft, cb_fiber, unscheduled, done>>
    BY <1>1, <1>9 DEF idle, idleStopping, swapIn, switchIn, Abort, decrementActive, afterSwitch,
       swapOut, YieldToReady, queue, fiber, locals, tasks
  <2>2. \/ pc[th] \in {"idle", "quiet"} /\ \E l \in Labels : Goto(th, l)
        \/ pc[th] \in Switched /\ \E l \in Switched : Goto(th, l)
    BY <1>1, <1>9 DEF idle, idleStopping, swapIn, switchIn, Abort, decrementActive, afterSwitch,
       swapOut, YieldToReady, At, Switched, Labels
  <2>3. \A u \in Threads : Stays(u)
    BY <1>1, <2>1, <2>2 DEF Stays, Slot, Goto, Switched
  <2>4. QED
    BY <1>1, <1>q, <1>d, <2>1, <2>3, FoundFrame
<1>10. ASSUME NEW th \in Threads, NEW state \in Ended, MainFunc(th, state) PROVE Found(c)'
  <2>1. /\ pc[th] = "exec" /\ Goto(th, "out") /\ UNCHANGED <<m_fibers, ft, cb_fiber, unscheduled>>
        /\ done' = done \union {m_cb[cur[th]]}
        /\ m_cb' = m_cb \/ m_cb' = [m_cb EXCEPT ![cur[th]] = None]
    BY <1>10 DEF MainFunc, At, queue, locals
  <2>2. cur[th] = Slot(th) /\ Slot(th) \in Fibers
    BY <2>1, SlotHeld DEF Switched, OwnInv, Placed, OnStack
  <2>3. \A u \in Threads : u # th => Stays(u)
    BY <1>1, <2>1 DEF Stays, Slot, Goto
  <2>4. \A g \in Fibers : g # Slot(th) => m_cb'[g] = m_cb[g]
    BY <1>1, <2>1, <2>2
  <2>5. \/ Found(c)' \/ c \in unscheduled \union done \/ m_cb[Slot(th)] = c
    BY <1>1, <1>q, <2>1, <2>3, <2>4, FoundStays
  <2>6. QED
    BY <2>1, <2>2, <2>5 DEF Found
<1>11. ASSUME NEW th \in Threads, afterEnd(th), m_state[Slot(th)] \in Ended PROVE Found(c)'
  <2>1. /\ pc[th] = "end?" /\ Goto(th, "pick")
        /\ UNCHANGED <<m_fibers, cb_fiber, unscheduled, done>>
        /\ ft' = [ft EXCEPT ![th] = NoEntry]
        /\ m_cb' = m_cb \/ m_cb' = [m_cb EXCEPT ![Slot(th)] = None]
    BY <1>11 DEF afterEnd, At, queue, tasks
  <2>2. Slot(th) \in Fibers
    BY <2>1, SlotHeld DEF Switched
  <2>3. \A u \in Threads : u # th => Stays(u)
    BY <1>1, <2>1 DEF Stays, Slot, Goto
  <2>4. \A g \in Fibers : g # Slot(th) => m_cb'[g] = m_cb[g]
    BY <1>1, <2>1, <2>2
  <2>5. \/ Found(c)' \/ c \in unscheduled \union done \/ m_cb[Slot(th)] = c
    BY <1>1, <1>q, <2>1, <2>3, <2>4, FoundStays
  <2>6. m_cb[Slot(th)] = c => c \in done
    BY <1>1, <1>11, <2>2 DEF EndedDone
  <2>7. QED
    BY <1>d, <2>1, <2>5, <2>6
<1>12. ASSUME NEW th \in Threads, reschedule(th) PROVE Found(c)'
  <2>1. /\ pc[th] = "resched" /\ Goto(th, "pick") /\ UNCHANGED <<m_cb, unscheduled, done>>
        /\ schedule(Slot(th), None, AnyThread) /\ ReleaseSlot(th)
    BY <1>12 DEF reschedule, At, fiber, tasks
  <2>2. Slot(th) \in Fibers /\ None \in Cbs \union {None} /\ AnyThread \in Threads \union {AnyThread}
    BY <2>1, SlotHeld DEF Switched
  <2>3. \A u \in Threads : u # th => Stays(u)
    BY <1>1, <2>1 DEF Stays, Slot, Goto, ReleaseSlot
  <2>4. QueueGrows /\ \E i \in 1..Len(m_fibers') : m_fibers'[i] = Entry(Slot(th), None, AnyThread)
    BY <2>1, <2>2, Appended DEF QueueGrows
  <2>5. \E i \in 1..Len(m_fibers') : m_fibers'[i].fiber = Slot(th)
    BY <2>4 DEF Entry
  <2>6. \/ Found(c)' \/ c \in unscheduled \union done \/ m_cb[Slot(th)] = c
    BY <1>1, <2>1, <2>3, <2>4, FoundStays
  <2>7. m_cb[Slot(th)] = c => Found(c)'
    <3>1. \E f \in Fibers : f = Slot(th) /\ Queued(f)' /\ m_cb'[f] = m_cb[Slot(th)]
      BY <2>1, <2>2, <2>5 DEF Queued
    <3>2. QED
      BY <3>1 DEF Found, Reached
  <2>8. QED
    BY <1>d, <2>1, <2>6, <2>7
<1>13. ASSUME NEW th \in Threads, NEW d \in Cbs, NEW thread \in {AnyThread, th},
              fiberSchedule(th, d, thread)
       PROVE  Found(c)'
  BY <1>3, <1>13 DEF fiberSchedule, fiber, locals
<1>14. ASSUME NEW th \in Threads, ThreadStep(th) PROVE Found(c)'
  BY <1>6, <1>7, <1>8, <1>9, <1>10, <1>11, <1>12, <1>13, <1>14 DEF ThreadStep
<1>15. QED
  BY <1>2, <1>4, <1>5, <1>14 DEF DrainStep, MainCode

\* Nothing is scheduled at the start.
LEMMA InitDrain == Init => DrainInv
<1> SUFFICES ASSUME Init PROVE DrainInv
  OBVIOUS
<1>1. /\ \A th \in Threads : pc[th] = "new" /\ ~idle_term[th]
      /\ \A f \in Fibers : m_state[f] = "INIT"
      /\ m_fibers = <<>> /\ armed = {} /\ mpc = "new" /\ ~m_autoStop /\ unscheduled = Cbs
  BY DEF Init
<1>2. NeverHeld /\ Running /\ Halted /\ EndedDone
  BY <1>1 DEF NeverHeld, Running, Halted, EndedDone, Ended
<1>3. 1..Len(m_fibers) = {}
  BY <1>1
<1>4. Watched /\ Tracked
  BY <1>1, <1>3 DEF Watched, Tracked, Found
<1>5. QED
  BY <1>2, <1>4 DEF DrainInv

\* When stop() returns the queue is empty, nothing is active and every
\* callback that was scheduled has ended, however the pool's threads and the
\* callbacks' YieldToReady and schedule() interleave: the READY fiber between
\* --m_activeThreadCount and schedule() is still in the hands of a thread that
\* looks at m_fibers again.
THEOREM DrainedAtStopAlways ==
    ASSUME ReadyOnly
    PROVE  Spec => []DrainedAtStop
<1>1. Init => DrainInv
  BY InitDrain
<1>2. PoolInv /\ PoolInv' /\ OwnInv /\ OwnInv' /\ DrainInv /\ [Next]_vars => DrainInv'
  <2> SUFFICES ASSUME PoolInv, PoolInv', OwnInv, OwnInv', DrainInv, [Next]_vars
               PROVE  DrainInv'
    OBVIOUS
  <2>1. DrainStep
    BY DrainSteps
  <2>2. QED
    BY <2>1, HeldKept, WatchedKept, RunningKept, HaltedKept, TrackedKept, EndedKept DEF DrainInv
<1>3. PoolInv /\ DrainInv => DrainedAtStop
  <2> SUFFICES ASSUME PoolInv, DrainInv, mpc = "stopped"
               PROVE  /\ m_fibers = <<>> /\ m_activeThreadCount = 0
                      /\ \A c \in Cbs : c \in unscheduled \/ c \in done
    BY DEF DrainedAtStop
  <2>1. m_fibers = <<>> /\ \A th \in Threads : pc[th] \in {"exited", "new"}
    BY DEF DrainInv, Halted
  <2>2. {th \in Threads : pc[th] \in {"taken", "in", "switch", "exec", "yield", "out", "back"}} = {}
    BY <2>1
  <2>3. m_activeThreadCount = 0
    BY <2>2, FS_EmptySet DEF PoolInv, ActiveExact
  <2>4. 1..Len(m_fibers) = {}
    BY <2>1
  <2>5. \A c \in Cbs : c \in unscheduled \/ c \in done
    BY <2>1, <2>4 DEF DrainInv, Tracked, Found, InQueue, Reached, Queued, Switched
  <2>6. QED
    BY <2>1, <2>3, <2>5
<1>4. "hold" \notin Switches
  BY DEF ReadyOnly
<1>5. Spec => [](PoolInv /\ OwnInv)
  BY <1>4, OwnInductive
<1>6. QED
  BY <1>1, <1>2, <1>3, <1>5, PTL DEF Spec
==============================================================================
