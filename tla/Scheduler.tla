----------------------------- MODULE Scheduler -----------------------------
(***************************************************************************)
(* Scheduler and Fiber (src/code/scheduler.{hpp,cc}, fiber.{hpp,cc}): an   *)
(* M:N pool.  Threads run Scheduler::run(), take entries of m_fibers and   *)
(* switch to fibers; a fiber gives the thread back by YieldToReady,        *)
(* YieldToHold or by ending.                                               *)
(*                                                                         *)
(* A fiber's m_state and its machine context change at different moments:  *)
(* cur[th] = f from swapIn() to the end of swapOut(), that is while th is  *)
(* on f's stack, whatever m_state says.  Each unlocked read or write of    *)
(* m_state in run() after the switch is a step of its own.                 *)
(*                                                                         *)
(* tickle() is empty in this class and has no action.                      *)
(***************************************************************************)
EXTENDS Integers, Sequences, FiniteSets

CONSTANTS Workers,    \* threads created by start()
          Main,       \* the thread that builds, feeds and stops the scheduler
          UseCaller,  \* use_caller: Main runs run() inside stop()
          Cbs,        \* the callbacks that are ever scheduled
          Fibers,     \* Fiber objects
          MaxYields,  \* bound: switches a callback makes before it ends
          Switches,   \* how callbacks yield: "ready", "hold" (after addEvent)
          WakeEarly,  \* the wake-up may come before the fiber is parked
          Pins,       \* which thread arguments a callback passes to schedule()
          None

AnyThread == "any"    \* thread = -1
Threads == Workers \union (IF UseCaller THEN {Main} ELSE {})

ASSUME PoolAssumption ==
    /\ UseCaller \in BOOLEAN /\ WakeEarly \in BOOLEAN
    /\ Switches \subseteq {"ready", "hold"}
    /\ IsFiniteSet(Workers) /\ Main \notin Workers /\ AnyThread \notin Workers \union {Main}
    /\ MaxYields \in Nat
    /\ Pins \subseteq {"self", "other"}
    /\ None \notin Cbs \union Fibers
    /\ Threads # {}

VARIABLES m_fibers, m_activeThreadCount, m_stopping, m_autoStop,
          m_state, m_cb,       \* of each Fiber
          pc, ft, cb_fiber,    \* run(): position and locals of each thread
          idle_term,           \* the thread's idle_fiber is TERM
          cur,                 \* the fiber whose stack the thread is on
          mpc,                 \* Main: "new", "main", "stop", "quiet", "join", "stopped"
          armed,               \* fibers registered with addEvent
          yields, unscheduled, started, done,    \* of the callbacks
          home,                \* the thread a callback was pinned to
          failed               \* the assertion that aborted the process

queue   == <<m_fibers, m_activeThreadCount>>
control == <<m_stopping, m_autoStop, mpc>>
fiber   == <<m_state, m_cb>>
locals  == <<ft, cb_fiber, idle_term>>
tasks   == <<yields, unscheduled, started, done, home>>
vars    == <<queue, control, fiber, pc, locals, cur, armed, tasks, failed>>

States == {"INIT", "HOLD", "EXEC", "TERM", "READY", "EXECEP"}
Ended  == {"TERM", "EXECEP"}
Entry(f, c, thread) == [fiber |-> f, cb |-> c, thread |-> thread]
NoEntry == Entry(None, None, AnyThread)

Init ==
    /\ m_fibers = <<>> /\ m_activeThreadCount = 0
    /\ m_stopping = TRUE /\ m_autoStop = FALSE
    /\ m_state = [f \in Fibers |-> "INIT"]
    /\ m_cb = [f \in Fibers |-> None]
    /\ pc = [th \in Threads |-> "new"]
    /\ ft = [th \in Threads |-> NoEntry]
    /\ cb_fiber = [th \in Threads |-> None]
    /\ idle_term = [th \in Threads |-> FALSE]
    /\ cur = [th \in Threads |-> None]
    /\ mpc = "new"
    /\ armed = {}
    /\ yields = [c \in Cbs |-> 0]
    /\ unscheduled = Cbs /\ started = {} /\ done = {}
    /\ home = [c \in Cbs |-> AnyThread]
    /\ failed = "none"

At(th, label) == failed = "none" /\ pc[th] = label
Goto(th, label) == pc' = [pc EXCEPT ![th] = label]

\* CXS_ASSERT: abort() when the condition does not hold.
Abort(which) ==
    /\ failed' = which
    /\ UNCHANGED <<queue, control, fiber, pc, locals, cur, armed, tasks>>

\* scheduleNoLock under m_mutex.
schedule(f, c, thread) == m_fibers' = Append(m_fibers, Entry(f, c, thread))

\* Scheduler::stopping() under m_mutex.  A fiber is armed through an IOManager,
\* whose stopping() first reads m_pendingEventCount (and the timers) without
\* the lock: that read is a step of its own before each use of stopping.
stopping ==
    m_autoStop /\ m_stopping /\ m_fibers = <<>> /\ m_activeThreadCount = 0
NonePending == armed = {}

-----------------------------------------------------------------------------
(* Main: the constructor, start(), schedule() and stop().                  *)

start ==
    /\ failed = "none" /\ mpc = "new" /\ m_stopping
    /\ m_stopping' = FALSE
    /\ mpc' = "main"
    /\ pc' = [th \in Threads |-> IF th \in Workers THEN "pick" ELSE "new"]
    /\ UNCHANGED <<queue, m_autoStop, fiber, locals, cur, armed, tasks, failed>>

\* Main schedules a callback, for any thread.
mainSchedule(c) ==
    /\ failed = "none" /\ mpc \in {"new", "main"} /\ c \in unscheduled
    /\ schedule(None, c, AnyThread)
    /\ unscheduled' = unscheduled \ {c}
    /\ UNCHANGED <<m_activeThreadCount, control, fiber, pc, locals, cur, armed,
                   yields, started, done, home, failed>>

\* stop() up to its last test of stopping().  An earlier one, with no other
\* thread, returns at once; the last one then calls and joins nobody either.
stop ==
    /\ failed = "none" /\ mpc = "main"
    /\ m_autoStop' = TRUE /\ m_stopping' = TRUE
    /\ mpc' = "stop"
    /\ UNCHANGED <<queue, fiber, pc, locals, cur, armed, tasks, failed>>

\* m_rootFiber->call(): Main becomes a thread of the pool.
CallsRun == pc' = [pc EXCEPT ![Main] = "pick"]

\* The first half of IOManager::stopping().
stopPending ==
    /\ failed = "none" /\ mpc = "stop"
    /\ mpc' = IF UseCaller /\ NonePending THEN "quiet" ELSE "join"
    /\ IF UseCaller /\ ~NonePending THEN CallsRun ELSE UNCHANGED pc
    /\ UNCHANGED <<queue, m_stopping, m_autoStop, fiber, locals, cur, armed,
                   tasks, failed>>

callRootFiber ==
    /\ failed = "none" /\ mpc = "quiet"
    /\ mpc' = "join"
    /\ IF UseCaller /\ ~stopping THEN CallsRun ELSE UNCHANGED pc
    /\ UNCHANGED <<queue, m_stopping, m_autoStop, fiber, locals, cur, armed,
                   tasks, failed>>

\* Mutant of join: stop() returns once run() has returned on Main.
joinsNoWorker ==
    /\ failed = "none" /\ mpc = "join"
    /\ UseCaller => pc[Main] \in {"exited", "new"}
    /\ mpc' = "stopped"
    /\ UNCHANGED <<queue, m_stopping, m_autoStop, fiber, pc, locals, cur, armed,
                   tasks, failed>>

\* run() has returned on Main, and every worker is joined.
join ==
    /\ failed = "none" /\ mpc = "join"
    /\ \A th \in Threads : pc[th] = "exited" \/ (th = Main /\ pc[th] = "new")
    /\ mpc' = "stopped"
    /\ UNCHANGED <<queue, m_stopping, m_autoStop, fiber, pc, locals, cur, armed,
                   tasks, failed>>

-----------------------------------------------------------------------------
(* Scheduler::run().                                                       *)

\* Entries a thread may not take: pinned elsewhere, or a fiber still EXEC.
Takes(th, e) ==
    /\ e.thread \in {AnyThread, th}
    /\ e.fiber # None => m_state[e.fiber] # "EXEC"

Without(s, i) == [j \in 1..(Len(s) - 1) |-> IF j < i THEN s[j] ELSE s[j + 1]]

\* Mutant of CountActive: ++m_activeThreadCount is missing.
CountsNothing == UNCHANGED m_activeThreadCount
CountActive == m_activeThreadCount' = m_activeThreadCount + 1

\* One critical section of m_mutex: take the first entry, or find none.
pick(th) ==
    /\ At(th, "pick")
    /\ \/ \E i \in 1..Len(m_fibers) :
             /\ Takes(th, m_fibers[i])
             /\ \A j \in 1..(i - 1) : ~Takes(th, m_fibers[j])
             /\ ft' = [ft EXCEPT ![th] = m_fibers[i]]
             /\ m_fibers' = Without(m_fibers, i)
             /\ CountActive
             /\ Goto(th, "taken")
       \/ /\ \A i \in 1..Len(m_fibers) : ~Takes(th, m_fibers[i])
          /\ Goto(th, "idle")
          /\ UNCHANGED <<queue, ft>>
    /\ UNCHANGED <<control, fiber, cb_fiber, idle_term, cur, armed, tasks, failed>>

\* The entry is a fiber that can run, by a look at its m_state.
runFiber(th) ==
    /\ At(th, "taken")
    /\ ft[th].fiber # None /\ m_state[ft[th].fiber] \notin Ended
    /\ Goto(th, "in")
    /\ UNCHANGED <<queue, control, fiber, locals, cur, armed, tasks, failed>>

\* No one refers to this Fiber object: new Fiber() may return it.
Unreferenced(f) ==
    /\ \A th \in Threads : f \notin {ft[th].fiber, cb_fiber[th], cur[th]}
    /\ \A i \in 1..Len(m_fibers) : m_fibers[i].fiber # f
    /\ f \notin armed
    /\ m_state[f] \in Ended \union {"INIT"}

\* Which of them it returns makes no difference.
NewFiber(f) == Unreferenced(f) /\ f = CHOOSE g \in Fibers : Unreferenced(g)

\* The entry is a callback, for the thread's cb_fiber after Fiber::reset(cb), or
\* for a new one.
runCb(th) ==
    LET c == ft[th].cb
    IN  /\ At(th, "taken") /\ c # None
        /\ \E f \in Fibers :
              /\ IF cb_fiber[th] # None THEN f = cb_fiber[th] ELSE NewFiber(f)
              /\ IF m_state[f] \notin Ended \union {"INIT"}
                 THEN Abort("reset")
                 ELSE /\ m_cb' = [m_cb EXCEPT ![f] = c]
                      /\ m_state' = [m_state EXCEPT ![f] = "INIT"]
                      /\ cb_fiber' = [cb_fiber EXCEPT ![th] = f]
                      /\ ft' = [ft EXCEPT ![th] = NoEntry]
                      /\ Goto(th, "in")
                      /\ UNCHANGED <<queue, control, idle_term, cur, armed,
                                     tasks, failed>>

\* The fiber this thread switches to: ft.fiber, or its cb_fiber.
Slot(th) == IF ft[th].fiber # None THEN ft[th].fiber ELSE cb_fiber[th]

\* Fiber::swapIn(): the assertion, then the assignment and the switch.
swapIn(th) ==
    /\ At(th, "in")
    /\ IF m_state[Slot(th)] = "EXEC"
       THEN Abort("swapIn")
       ELSE /\ Goto(th, "switch")
            /\ UNCHANGED <<queue, control, fiber, locals, cur, armed, tasks, failed>>

switchIn(th) ==
    LET f == Slot(th)
    IN  /\ At(th, "switch")
        /\ m_state' = [m_state EXCEPT ![f] = "EXEC"]
        /\ cur' = [cur EXCEPT ![th] = f]
        /\ started' = started \union {m_cb[f]}
        /\ Goto(th, "exec")
        /\ UNCHANGED <<queue, control, m_cb, locals, armed, yields, unscheduled,
                       done, home, failed>>

\* Mutant of dropEnded: --m_activeThreadCount is missing.
dropEndedUncounted(th) ==
    /\ At(th, "taken")
    /\ ft[th].fiber # None /\ m_state[ft[th].fiber] \in Ended
    /\ ft' = [ft EXCEPT ![th] = NoEntry]
    /\ Goto(th, "pick")
    /\ UNCHANGED <<queue, control, fiber, cb_fiber, idle_term, cur, armed,
                   tasks, failed>>

\* The entry is a fiber that ended meanwhile: drop it.
dropEnded(th) ==
    /\ At(th, "taken")
    /\ ft[th].fiber # None /\ m_state[ft[th].fiber] \in Ended
    /\ m_activeThreadCount' = m_activeThreadCount - 1
    /\ ft' = [ft EXCEPT ![th] = NoEntry]
    /\ Goto(th, "pick")
    /\ UNCHANGED <<m_fibers, control, fiber, cb_fiber, idle_term, cur, armed,
                   tasks, failed>>

-----------------------------------------------------------------------------
(* The code of a fiber, on thread th.                                      *)

\* The callback schedules another one.
fiberSchedule(th, c, thread) ==
    /\ At(th, "exec") /\ c \in unscheduled
    /\ \/ thread = AnyThread
       \/ "self" \in Pins /\ thread = th
       \/ "other" \in Pins /\ thread \in Threads
    /\ schedule(None, c, thread)
    /\ unscheduled' = unscheduled \ {c}
    /\ home' = [home EXCEPT ![c] = thread]
    /\ UNCHANGED <<m_activeThreadCount, control, fiber, pc, locals, cur, armed,
                   yields, started, done, failed>>

MayYield(th) == m_cb[cur[th]] # None /\ yields[m_cb[cur[th]]] < MaxYields
CountYield(th) == yields' = [yields EXCEPT ![m_cb[cur[th]]] = @ + 1]

\* IOManager::addEvent for the running fiber, before it yields: it asserts that
\* the fiber is EXEC.
addEvent(th) ==
    /\ At(th, "exec") /\ "hold" \in Switches /\ MayYield(th)
    /\ IF m_state[cur[th]] # "EXEC"
       THEN Abort("addEvent")
       ELSE /\ armed' = armed \union {cur[th]}
            /\ CountYield(th)
            /\ Goto(th, "yield")
            /\ UNCHANGED <<queue, control, fiber, locals, cur, unscheduled,
                           started, done, home, failed>>

\* YieldToHold, YieldToReady and the end of MainFunc: m_state is assigned
\* here, the context is saved by swapOut.
YieldToHold(th) ==
    /\ At(th, "yield")
    /\ m_state' = [m_state EXCEPT ![cur[th]] = "HOLD"]
    /\ Goto(th, "out")
    /\ UNCHANGED <<queue, control, m_cb, locals, cur, armed, tasks, failed>>

YieldToReady(th) ==
    /\ At(th, "exec") /\ "ready" \in Switches /\ MayYield(th)
    /\ m_state' = [m_state EXCEPT ![cur[th]] = "READY"]
    /\ CountYield(th)
    /\ Goto(th, "out")
    /\ UNCHANGED <<queue, control, m_cb, locals, cur, armed, unscheduled,
                   started, done, home, failed>>

\* The callback returns, or throws: then m_cb is kept.
MainFunc(th, state) ==
    LET f == cur[th]
    IN  /\ At(th, "exec")
        /\ m_state' = [m_state EXCEPT ![f] = state]
        /\ m_cb' = IF state = "TERM" THEN [m_cb EXCEPT ![f] = None] ELSE m_cb
        /\ done' = done \union {m_cb[f]}
        /\ Goto(th, "out")
        /\ UNCHANGED <<queue, control, locals, cur, armed, yields, unscheduled,
                       started, home, failed>>

swapOut(th) ==
    /\ At(th, "out")
    /\ cur' = [cur EXCEPT ![th] = None]
    /\ Goto(th, "back")
    /\ UNCHANGED <<queue, control, fiber, locals, armed, tasks, failed>>

-----------------------------------------------------------------------------
(* run() again, after the switch back.                                     *)

\* Mutant of ReleaseSlot: cb_fiber keeps a fiber that only yielded.
KeepsCbFiber(th) ==
    /\ ft' = [ft EXCEPT ![th] = NoEntry]
    /\ UNCHANGED cb_fiber

\* ft.reset(), or cb_fiber.reset().
ReleaseSlot(th) ==
    /\ ft' = [ft EXCEPT ![th] = NoEntry]
    /\ cb_fiber' = IF ft[th].fiber # None THEN cb_fiber
                   ELSE [cb_fiber EXCEPT ![th] = None]

\* Mutant of decrementActive: --m_activeThreadCount is missing.
forgetsActive(th) ==
    /\ At(th, "back")
    /\ Goto(th, "state")
    /\ UNCHANGED <<queue, control, fiber, locals, cur, armed, tasks, failed>>

decrementActive(th) ==
    /\ At(th, "back")
    /\ m_activeThreadCount' = m_activeThreadCount - 1
    /\ Goto(th, "state")
    /\ UNCHANGED <<m_fibers, control, fiber, locals, cur, armed, tasks, failed>>

\* Mutant of afterSwitch: READY is not told apart from HOLD.
parksReady(th) ==
    /\ At(th, "state")
    /\ Goto(th, "end?")
    /\ UNCHANGED <<queue, control, fiber, locals, cur, armed, tasks, failed>>

\* The first getState(): is the fiber READY?
afterSwitch(th) ==
    /\ At(th, "state")
    /\ Goto(th, IF m_state[Slot(th)] = "READY" THEN "resched" ELSE "end?")
    /\ UNCHANGED <<queue, control, fiber, locals, cur, armed, tasks, failed>>

\* The second: has it ended?  A cb_fiber that ended is reset(nullptr) and kept.
afterEnd(th) ==
    LET f == Slot(th)
        isCbFiber == ft[th].fiber = None
    IN  /\ At(th, "end?")
        /\ \/ /\ m_state[f] \in Ended
              /\ m_state' = IF isCbFiber THEN [m_state EXCEPT ![f] = "INIT"] ELSE m_state
              /\ m_cb' = IF isCbFiber THEN [m_cb EXCEPT ![f] = None] ELSE m_cb
              /\ ft' = [ft EXCEPT ![th] = NoEntry]
              /\ Goto(th, "pick")
           \/ /\ m_state[f] \notin Ended
              /\ Goto(th, "hold") /\ UNCHANGED <<fiber, ft>>
        /\ UNCHANGED <<queue, control, cb_fiber, idle_term, cur, armed, tasks, failed>>

\* schedule(fiber): the thread argument is not passed on.
reschedule(th) ==
    /\ At(th, "resched")
    /\ schedule(Slot(th), None, AnyThread)
    /\ ReleaseSlot(th)
    /\ Goto(th, "pick")
    /\ UNCHANGED <<m_activeThreadCount, control, fiber, idle_term, cur, armed,
                   tasks, failed>>

\* Someone other than th keeps the fiber alive.  (A fiber that has not ended
\* also refers to itself from its own stack.)
Shared(th, f) ==
    \/ \E u \in Threads \ {th} : f \in {ft[u].fiber, cb_fiber[u], cur[u]}
    \/ \E i \in 1..Len(m_fibers) : m_fibers[i].fiber = f
    \/ f \in armed

\* setState(HOLD), then the pointer is released: the last one of a fiber that
\* has ended runs ~Fiber, which asserts that m_state still says so.
setHold(th) ==
    LET f == Slot(th)
    IN  /\ At(th, "hold")
        /\ IF m_state[f] \in Ended /\ ~Shared(th, f)
           THEN Abort("~Fiber")
           ELSE /\ m_state' = [m_state EXCEPT ![f] = "HOLD"]
                /\ ReleaseSlot(th)
                /\ Goto(th, "pick")
                /\ UNCHANGED <<queue, control, m_cb, idle_term, cur, armed, tasks,
                               failed>>

\* Nothing to take: leave run() if idle_fiber is TERM, else run idle(), which
\* ends when stopping() holds and yields otherwise.
idle(th) ==
    /\ At(th, "idle")
    /\ Goto(th, IF idle_term[th] THEN "exited" ELSE IF NonePending THEN "quiet" ELSE "pick")
    /\ UNCHANGED <<queue, control, fiber, locals, cur, armed, tasks, failed>>

idleStopping(th) ==
    /\ At(th, "quiet")
    /\ idle_term' = [idle_term EXCEPT ![th] = stopping]
    /\ Goto(th, "pick")
    /\ UNCHANGED <<queue, control, fiber, ft, cb_fiber, cur, armed, tasks, failed>>

-----------------------------------------------------------------------------
(* External: a waker (triggerEvent, a timer callback) schedules an armed   *)
(* fiber.  WakeEarly: as soon as it is registered; otherwise once its      *)
(* thread is back at the top of run(), as in a pool of one thread.         *)
Parked(f) == m_state[f] = "HOLD" /\ \A th \in Threads : f # cur[th] /\ f # Slot(th)

wake(f) ==
    /\ failed = "none" /\ f \in armed
    /\ WakeEarly \/ Parked(f)
    /\ schedule(f, None, AnyThread)
    /\ armed' = armed \ {f}
    /\ UNCHANGED <<m_activeThreadCount, control, fiber, pc, locals, cur, tasks,
                   failed>>

-----------------------------------------------------------------------------
FiberCode(th) ==
    \/ \E c \in Cbs, thread \in Threads \union {AnyThread} :
          fiberSchedule(th, c, thread)
    \/ addEvent(th) \/ YieldToHold(th) \/ YieldToReady(th)
    \/ \E state \in Ended : MainFunc(th, state)
    \/ swapOut(th)

run(th) ==
    \/ pick(th) \/ runFiber(th) \/ runCb(th) \/ dropEnded(th)
    \/ swapIn(th) \/ switchIn(th)
    \/ decrementActive(th) \/ afterSwitch(th) \/ afterEnd(th)
    \/ reschedule(th) \/ setHold(th)
    \/ idle(th) \/ idleStopping(th)

StartStop == start \/ stop \/ stopPending \/ callRootFiber \/ join

MainCode ==
    \/ StartStop
    \/ \E c \in Cbs : mainSchedule(c)

\* Main has returned from stop(): nothing is left to do.
Terminated == mpc = "stopped" /\ UNCHANGED vars

Next ==
    \/ MainCode
    \/ \E th \in Threads : run(th) \/ FiberCode(th)
    \/ \E f \in Fibers : wake(f)
    \/ Terminated

Spec == Init /\ [][Next]_vars

\* Every thread runs; Main starts and stops the scheduler; wake-ups come.
FairSpec ==
    /\ Spec
    /\ WF_vars(StartStop)
    /\ \A th \in Threads : WF_vars(run(th) \/ FiberCode(th))
    /\ \A f \in Fibers : WF_vars(wake(f))

-----------------------------------------------------------------------------
Entries == [fiber : Fibers \union {None}, cb : Cbs \union {None},
            thread : Threads \union {AnyThread}]

\* Types of the queue, the fibers and run()'s locals; m_activeThreadCount, an
\* unsigned counter in the code, does not go below 0.
TypeOK ==
    /\ m_fibers \in Seq(Entries) /\ m_activeThreadCount \in Nat
    /\ m_stopping \in BOOLEAN /\ m_autoStop \in BOOLEAN
    /\ m_state \in [Fibers -> States] /\ m_cb \in [Fibers -> Cbs \union {None}]
    /\ pc \in [Threads -> {"new", "pick", "taken", "in", "switch", "exec", "yield", "out",
                           "back", "state", "end?", "resched", "hold", "idle",
                           "quiet", "exited"}]
    /\ ft \in [Threads -> Entries]
    /\ cb_fiber \in [Threads -> Fibers \union {None}]
    /\ idle_term \in [Threads -> BOOLEAN]
    /\ cur \in [Threads -> Fibers \union {None}]
    /\ mpc \in {"new", "main", "stop", "quiet", "join", "stopped"}
    /\ armed \subseteq Fibers
    /\ yields \in [Cbs -> 0..MaxYields]
    /\ unscheduled \subseteq Cbs
    /\ home \in [Cbs -> Threads \union {AnyThread}]
    /\ failed \in {"none", "swapIn", "reset", "addEvent", "~Fiber"}

\* m_activeThreadCount, on which stopping() relies, counts the threads between
\* taking an entry and giving it back, even when a fiber that was woken too
\* early is run by two threads, ends, and is found again in m_fibers.
ActiveExact ==
    m_activeThreadCount =
        Cardinality({th \in Threads :
            pc[th] \in {"taken", "in", "switch", "exec", "yield", "out", "back"}})

\* No two threads are ever on the stack of the same fiber, although m_state
\* and the context are written without the lock.  (It is about fibers that yield
\* to ready: one that waits may be woken before its context is saved.)
NoDoubleRun ==
    \A th, u \in Threads : th # u /\ cur[th] # None => cur[th] # cur[u]

\* None of the assertions of Fiber::swapIn, Fiber::reset, ~Fiber and
\* IOManager::addEvent about m_state fails.
NoAbort == failed = "none"

\* When stop() returns no entry is left in m_fibers, nothing counts as active
\* and every callback that was scheduled has ended: the READY fiber between
\* --m_activeThreadCount and schedule(), which stopping() cannot see, is not
\* forgotten.
DrainedAtStop ==
    mpc = "stopped" =>
        /\ m_fibers = <<>> /\ m_activeThreadCount = 0
        /\ \A c \in Cbs : c \in unscheduled \/ c \in done

\* A fiber in HOLD is resumed later (the comment in run()): stop() does not
\* return while an event or timer that a fiber waits for is still pending.
HeldIsResumed == mpc = "stopped" => armed = {}

\* IOManager::addEvent: CXS_ASSERT(event_ctx.fiber->getState() == Fiber::EXEC),
\* of the fiber that calls it.  Fails: a fiber woken before its thread is back
\* in run() runs on another thread when the first one sets it to HOLD.
AddEventInExec == failed # "addEvent"

\* A callback scheduled for a thread runs on that thread.
RunsOnPinnedThread ==
    \A th \in Threads :
        (cur[th] # None /\ m_cb[cur[th]] # None) => home[m_cb[cur[th]]] \in {th, AnyThread}

\* stop() returns: every thread leaves run() and is joined.
StopReturns == (mpc = "stop") ~> (mpc = "stopped")

\* Every scheduled callback is run to its end (none is parked for ever).
EveryCbEnds == \A c \in Cbs : (c \notin unscheduled) ~> (c \in done)
=============================================================================
