---------------------------- MODULE TimerManager ----------------------------
(***************************************************************************)
(* TimerManager and Timer (src/code/timer.h, src/code/timer.cpp): the      *)
(* ordered set of armed timers shared by every thread of an IOManager.     *)
(*                                                                         *)
(* A worker runs the timer part of IOManager::idle(): getNextTimer(), a    *)
(* wait, listExpiredTimer(), then it hands the listed callbacks over.      *)
(* A caller is a thread that runs user code: addTimer, cancel, refresh,    *)
(* reset.  A one-thread pool is Workers = Callers.                         *)
(*                                                                         *)
(* One step is one critical section of m_mutex, or one piece of code       *)
(* between two of them; the code reads the clock and m_ms outside the lock *)
(* where the model does.                                                   *)
(***************************************************************************)
EXTENDS Integers, FiniteSets

CONSTANTS Timers,     \* addresses of Timer objects; an address breaks a tie
          Workers,    \* threads that run the idle loop
          Callers,    \* threads that call the public operations
          Delays,     \* the values of ms a caller uses
          Hour,       \* 60*60*1000 of detectClockRollover
          Wrap,       \* 2^64
          Boot,       \* the clock when the manager is built
          MaxNow,     \* bound: the last clock value
          ClockSets   \* clock values the administrator may set; {}: never set

ASSUME TimersAssumption == Timers \subseteq Nat
ASSUME DelaysAssumption == Delays \subseteq Nat
ASSUME ClockAssumption ==
    /\ Hour \in Nat /\ Boot \in Nat /\ MaxNow \in Nat
    /\ Wrap \in Nat /\ Wrap > MaxNow
    /\ ClockSets \subseteq 0..MaxNow

Threads == Workers \union Callers

VARIABLES now,                                \* GetCurrentMS()
          m_next, m_ms, m_recurring, m_cb,    \* fields of each Timer
          m_timers, m_tickled, m_previouseTime,
          pc,        \* where each thread is
          self,      \* the Timer a thread works on (addTimer, reset)
          arg,       \* the arguments of reset
          now_ms,    \* local of listExpiredTimer
          cbs,       \* callbacks listed by a worker and not yet handed over
          handles,   \* timers whose pointer addTimer has returned
          deadline,  \* what a worker's getNextTimer made it wait for
          announced, \* history: onTimerInsertedAtFront ran since that getNextTimer
          fired,     \* history: how often a callback was handed over, up to 2
          cancelled  \* history: timers whose cancel() returned true

fields  == <<m_next, m_ms, m_recurring, m_cb>>
manager == <<m_timers, m_tickled, m_previouseTime>>
locals  == <<self, arg, now_ms, cbs>>
waiting == <<deadline, announced>>
history == <<fired, cancelled>>
vars    == <<now, fields, manager, pc, locals, handles, waiting, history>>

Never == -1      \* ~0ull: no timer to wait for
NoTimer == -1    \* a pointer that is out of scope
NoArg == [ms |-> 0, from_now |-> FALSE]
PCs   == {"ready", "insert", "reset", "notify", "wait", "list", "expire",
          "fire", "segv"}

\* A null dereference ends the process: no thread takes another step.
Alive == \A th \in Threads : pc[th] # "segv"

At(th, label) == Alive /\ pc[th] = label
Goto(th, label) == pc' = [pc EXCEPT ![th] = label]

\* Timer::Comparator: the order of the std::set.
Before(next, a, b) == next[a] < next[b] \/ (next[a] = next[b] /\ a < b)
IsFront(next, S, t) == t \in S /\ \A u \in S \ {t} : Before(next, t, u)

Init ==
    /\ now = Boot
    /\ m_next = [t \in Timers |-> 0]
    /\ m_ms = [t \in Timers |-> 0]
    /\ m_recurring = [t \in Timers |-> FALSE]
    /\ m_cb = [t \in Timers |-> FALSE]
    /\ m_timers = {}
    /\ m_tickled = FALSE
    /\ m_previouseTime = Boot
    /\ pc = [th \in Threads |-> "ready"]
    /\ self = [th \in Threads |-> NoTimer]
    /\ arg = [th \in Threads |-> NoArg]
    /\ now_ms = [th \in Threads |-> 0]
    /\ cbs = [th \in Threads |-> {}]
    /\ handles = {}
    /\ deadline = [th \in Threads |-> Never]
    /\ announced = [th \in Threads |-> FALSE]
    /\ fired = [t \in Timers |-> 0]
    /\ cancelled = {}

-----------------------------------------------------------------------------
(* Time.  gettimeofday() is the wall clock: it advances, and it may be set. *)
Tick ==
    /\ Alive /\ now < MaxNow
    /\ now' = now + 1
    /\ UNCHANGED <<fields, manager, pc, locals, handles, waiting, history>>

SetClock ==
    /\ Alive
    /\ now' \in ClockSets
    /\ UNCHANGED <<fields, manager, pc, locals, handles, waiting, history>>

-----------------------------------------------------------------------------
(* The operations of a caller.                                             *)

\* A Timer that no thread has allocated yet.
Unused(t) ==
    /\ t \notin handles
    /\ \A th \in Threads : pc[th] \in {"insert", "notify"} => self[th] # t

\* addTimer(ms, cb, recurring): the constructor, before the lock is taken.
NewTimer(th, t, ms, recurring) ==
    /\ At(th, "ready") /\ Unused(t)
    /\ m_next' = [m_next EXCEPT ![t] = now + ms]
    /\ m_ms' = [m_ms EXCEPT ![t] = ms]
    /\ m_recurring' = [m_recurring EXCEPT ![t] = recurring]
    /\ m_cb' = [m_cb EXCEPT ![t] = TRUE]
    /\ self' = [self EXCEPT ![th] = t]
    /\ Goto(th, "insert")
    /\ UNCHANGED <<now, manager, arg, now_ms, cbs, handles, waiting, history>>

\* Mutant of InsertTimer: the pointer is moved out before it is returned.
InsertMovesPointer(th, t, next, others) ==
    LET at_front == IsFront(next, others \union {t}, t) /\ ~m_tickled
    IN  /\ m_timers' = others \union {t}
        /\ m_tickled' = (m_tickled \/ at_front)
        /\ Goto(th, IF at_front THEN "notify" ELSE "ready")
        /\ self' = [self EXCEPT ![th] = NoTimer]
        /\ handles' = IF at_front THEN handles ELSE handles \union {t}

\* addTimer(val, lock): insert, decide at_front, unlock.  next is m_next as
\* it stands after the caller's own assignments.
InsertTimer(th, t, next, others) ==
    LET at_front == IsFront(next, others \union {t}, t) /\ ~m_tickled
    IN  /\ m_timers' = others \union {t}
        /\ m_tickled' = (m_tickled \/ at_front)
        /\ Goto(th, IF at_front THEN "notify" ELSE "ready")
        /\ self' = [self EXCEPT ![th] = IF at_front THEN t ELSE NoTimer]
        /\ handles' = IF at_front THEN handles ELSE handles \union {t}

addTimer(th) ==
    /\ At(th, "insert")
    /\ InsertTimer(th, self[th], m_next, m_timers)
    /\ UNCHANGED <<now, fields, m_previouseTime, arg, now_ms, cbs, waiting, history>>

\* The virtual onTimerInsertedAtFront(), called after the unlock; then the
\* pointer is returned.  TimerManager only promises the call: IOManager's
\* override is tickle(), which writes nothing while some thread is idle, so
\* nobody has to wake, and wake(th) below does not wait for it.
onTimerInsertedAtFront(th) ==
    /\ At(th, "notify")
    /\ announced' = [w \in Threads |-> announced[w] \/ pc[w] = "wait"]
    /\ handles' = handles \union {self[th]}
    /\ self' = [self EXCEPT ![th] = NoTimer]
    /\ Goto(th, "ready")
    /\ UNCHANGED <<now, fields, manager, arg, now_ms, cbs, deadline, history>>

\* Mutant of cancel: m_cb is not cleared.
cancelKeepsCb(th, t) ==
    /\ At(th, "ready") /\ t \in handles
    /\ m_cb[t]
    /\ m_timers' = m_timers \ {t}
    /\ cancelled' = cancelled \union {t}
    /\ UNCHANGED <<now, fields, m_tickled, m_previouseTime,
                   pc, locals, handles, waiting, fired>>

cancel(th, t) ==
    /\ At(th, "ready") /\ t \in handles
    /\ m_cb[t]
    /\ m_cb' = [m_cb EXCEPT ![t] = FALSE]
    /\ m_timers' = m_timers \ {t}
    /\ cancelled' = cancelled \union {t}
    /\ UNCHANGED <<now, m_next, m_ms, m_recurring, m_tickled, m_previouseTime,
                   pc, locals, handles, waiting, fired>>

refresh(th, t) ==
    /\ At(th, "ready") /\ t \in handles
    /\ m_cb[t] /\ t \in m_timers
    /\ m_next' = [m_next EXCEPT ![t] = now + m_ms[t]]
    /\ UNCHANGED <<now, m_ms, m_recurring, m_cb, manager, pc, locals, handles,
                   waiting, history>>

\* reset(ms, from_now): the early return compares m_ms without the lock.
reset(th, t, ms, from_now) ==
    /\ At(th, "ready") /\ t \in handles
    /\ ~(ms = m_ms[t] /\ ~from_now)
    /\ self' = [self EXCEPT ![th] = t]
    /\ arg' = [arg EXCEPT ![th] = [ms |-> ms, from_now |-> from_now]]
    /\ Goto(th, "reset")
    /\ UNCHANGED <<now, fields, manager, now_ms, cbs, handles, waiting, history>>

resetLocked(th) ==
    LET t == self[th]
        start == IF arg[th].from_now THEN now ELSE m_next[t] - m_ms[t]
        next == [m_next EXCEPT ![t] = start + arg[th].ms]
    IN  /\ At(th, "reset")
        /\ IF m_cb[t] /\ t \in m_timers
           THEN /\ m_ms' = [m_ms EXCEPT ![t] = arg[th].ms]
                /\ m_next' = next
                /\ InsertTimer(th, t, next, m_timers \ {t})
           ELSE /\ Goto(th, "ready")
                /\ self' = [self EXCEPT ![th] = NoTimer]
                /\ UNCHANGED <<m_ms, m_next, m_timers, m_tickled, handles>>
        /\ arg' = [arg EXCEPT ![th] = NoArg]
        /\ UNCHANGED <<now, m_recurring, m_cb, m_previouseTime, now_ms, cbs,
                       waiting, history>>

-----------------------------------------------------------------------------
(* The idle loop of a worker.                                              *)

\* Mutant of getNextTimer: m_tickled is not cleared.
nextKeepsTickled(th) ==
    /\ At(th, "ready")
    /\ \/ /\ m_timers = {}
          /\ deadline' = [deadline EXCEPT ![th] = Never]
       \/ \E t \in m_timers :
             /\ IsFront(m_next, m_timers, t)
             /\ deadline' = [deadline EXCEPT ![th] = m_next[t]]
    /\ announced' = [announced EXCEPT ![th] = FALSE]
    /\ Goto(th, "wait")
    /\ UNCHANGED <<now, fields, manager, locals, handles, history>>

getNextTimer(th) ==
    /\ At(th, "ready")
    /\ m_tickled' = FALSE
    /\ \/ /\ m_timers = {}
          /\ deadline' = [deadline EXCEPT ![th] = Never]
       \/ \E t \in m_timers :
             /\ IsFront(m_next, m_timers, t)
             /\ deadline' = [deadline EXCEPT ![th] = m_next[t]]
    /\ announced' = [announced EXCEPT ![th] = FALSE]
    /\ Goto(th, "wait")
    /\ UNCHANGED <<now, fields, m_timers, m_previouseTime, locals, handles,
                   history>>

\* epoll_wait returns (timeout, event or tickle); listExpiredTimer reads the
\* clock before it takes the lock.
wake(th) ==
    /\ At(th, "wait")
    /\ now_ms' = [now_ms EXCEPT ![th] = now]
    /\ deadline' = [deadline EXCEPT ![th] = Never]
    /\ announced' = [announced EXCEPT ![th] = FALSE]
    /\ Goto(th, "list")
    /\ UNCHANGED <<now, fields, manager, self, arg, cbs, handles, history>>

\* listExpiredTimer, the empty check under the ReadLock.
listEmptyCheck(th) ==
    /\ At(th, "list")
    /\ Goto(th, IF m_timers = {} THEN "ready" ELSE "expire")
    /\ now_ms' = [now_ms EXCEPT ![th] = IF m_timers = {} THEN 0 ELSE @]
    /\ UNCHANGED <<now, fields, manager, self, arg, cbs, handles, waiting,
                   history>>

\* detectClockRollover; the subtraction is unsigned.
Rollover(prev, n) == n < prev /\ n < (prev - Hour) % Wrap

\* Mutant of Due: only the timers of this very millisecond.
DueNow(n) == {t \in m_timers : m_next[t] = n}

\* The timers [begin, it): lower_bound(now_ms), then past the ones due now.
Due(n) == {t \in m_timers : m_next[t] <= n}

\* Mutant of Reinserted: m_recurring is not consulted.
ReinsertsAll(expired) == expired

\* The expired timers that go back into m_timers.
Reinserted(expired) == {t \in expired : m_recurring[t]}

\* listExpiredTimer, under the WriteLock.  *m_timers.begin() of a set that
\* became empty since the check reads the null pointer in the set's header.
listExpiredTimer(th) ==
    LET n == now_ms[th]
        rollover == Rollover(m_previouseTime, n)
        expired == IF rollover THEN m_timers ELSE Due(n)
        again == Reinserted(expired)
    IN  /\ At(th, "expire")
        /\ m_previouseTime' = n
        /\ now_ms' = [now_ms EXCEPT ![th] = 0]
        /\ IF m_timers = {} /\ ~rollover
           THEN /\ Goto(th, "segv")
                /\ UNCHANGED <<m_timers, m_next, m_cb, cbs>>
           ELSE /\ m_timers' = (m_timers \ expired) \union again
                /\ m_next' = [t \in Timers |->
                                IF t \in again THEN n + m_ms[t] ELSE m_next[t]]
                /\ m_cb' = [t \in Timers |->
                                m_cb[t] /\ t \notin expired \ again]
                /\ cbs' = [cbs EXCEPT ![th] = expired]
                /\ Goto(th, IF expired = {} THEN "ready" ELSE "fire")
        /\ UNCHANGED <<now, m_ms, m_recurring, m_tickled, self, arg,
                       handles, waiting, history>>

\* idle() schedules the callbacks it was given.
fireCallbacks(th) ==
    /\ At(th, "fire")
    /\ fired' = [t \in Timers |-> IF t \in cbs[th] /\ fired[t] < 2
                                  THEN fired[t] + 1 ELSE fired[t]]
    /\ cbs' = [cbs EXCEPT ![th] = {}]
    /\ Goto(th, "ready")
    /\ UNCHANGED <<now, fields, manager, self, arg, now_ms, handles, waiting,
                   cancelled>>

-----------------------------------------------------------------------------
CallerStep(th) ==
    \/ \E t \in Timers :
          \/ \E ms \in Delays, recurring \in BOOLEAN : NewTimer(th, t, ms, recurring)
          \/ cancel(th, t)
          \/ refresh(th, t)
          \/ \E ms \in Delays, from_now \in BOOLEAN : reset(th, t, ms, from_now)
    \/ addTimer(th)
    \/ resetLocked(th)
    \/ onTimerInsertedAtFront(th)

IdleLoop(th) ==
    \/ getNextTimer(th)
    \/ wake(th)
    \/ listEmptyCheck(th)
    \/ listExpiredTimer(th)
    \/ fireCallbacks(th)

Next ==
    \/ Tick
    \/ SetClock
    \/ \E th \in Callers : CallerStep(th)
    \/ \E th \in Workers : IdleLoop(th)

Spec == Init /\ [][Next]_vars

\* The clock advances and is set only finitely often, and every worker keeps
\* going round its idle loop: its epoll_wait is bounded by MAX_TIMEOUT.
\* Callers promise nothing.
FairSpec ==
    /\ Spec
    /\ WF_vars(Tick) /\ <>[][~SetClock]_vars
    /\ \A th \in Workers : WF_vars(IdleLoop(th))

-----------------------------------------------------------------------------
\* Types of the Timer fields, the manager and the threads' locals; a thread
\* inside addTimer or reset works on a real Timer, and no deadline is smaller
\* than its delay: reset() subtracts m_ms from m_next in unsigned arithmetic.
TypeOK ==
    /\ now \in Nat /\ m_previouseTime \in Nat
    /\ m_next \in [Timers -> Nat] /\ m_ms \in [Timers -> Nat]
    /\ \A t \in Timers : m_ms[t] <= m_next[t]
    /\ m_recurring \in [Timers -> BOOLEAN] /\ m_cb \in [Timers -> BOOLEAN]
    /\ m_timers \subseteq Timers /\ m_tickled \in BOOLEAN
    /\ pc \in [Threads -> PCs]
    /\ self \in [Threads -> Timers \union {NoTimer}]
    /\ \A th \in Threads :
          pc[th] \in {"insert", "reset", "notify"} => self[th] \in Timers
    /\ arg \in [Threads -> [ms : Nat, from_now : BOOLEAN]]
    /\ now_ms \in [Threads -> Nat]
    /\ cbs \in [Threads -> SUBSET Timers]
    /\ handles \subseteq Timers /\ cancelled \subseteq Timers
    /\ deadline \in [Threads -> Nat \union {Never}]
    /\ announced \in [Threads -> BOOLEAN]
    /\ fired \in [Timers -> 0..2]

\* The timer has been built but addTimer has not taken the lock yet.
InFlight(t) == \E th \in Threads : pc[th] = "insert" /\ self[th] = t

\* m_cb is set exactly while the timer is in m_timers (or about to be
\* inserted).  Timer::cancel relies on it: it erases find(this) without
\* comparing it with end().
CbIffQueued == \A t \in Timers : m_cb[t] <=> (t \in m_timers \/ InFlight(t))

\* A one-shot timer's callback is handed over at most once, and never when
\* cancel() returned true, however listExpiredTimer and cancel() interleave.
OneShot(t) ==
    /\ fired[t] <= 1
    /\ t \in cancelled => fired[t] = 0
    /\ \A th \in Threads : t \in cbs[th] =>
          /\ fired[t] = 0 /\ t \notin cancelled
          /\ \A u \in Threads \ {th} : t \notin cbs[u]
OneShotOnce == \A t \in Timers : ~m_recurring[t] => OneShot(t)

\* What timer.cpp owes its subclass: when a worker waits past the front of
\* m_timers, onTimerInsertedAtFront has been called since that worker asked for
\* its deadline, or a thread is about to call it: m_tickled never swallows the
\* only call.  It says nothing of who wakes (IOManager's override may write
\* nothing, and the worker then sleeps for up to MAX_TIMEOUT).  The clock must
\* not be set back: refresh() calls nobody.
Oversleeps(th) ==
    /\ pc[th] = "wait"
    /\ \E t \in m_timers : deadline[th] = Never \/ m_next[t] < deadline[th]
FrontAnnounced ==
    \A th \in Threads : Oversleeps(th) =>
        announced[th] \/ \E u \in Threads : pc[u] = "notify"

\* Every armed one-shot timer leaves m_timers (fires or is cancelled), unless
\* a caller keeps moving it past the end of modelled time.
EventuallyListed ==
    \A t \in Timers :
        (t \in m_timers /\ ~m_recurring[t])
            ~> (t \notin m_timers \/ m_next[t] > MaxNow \/ ~Alive)
=============================================================================
