----------------------------- MODULE IOManager -----------------------------
(***************************************************************************)
(* The event side of IOManager (src/code/iomanager.{h,cc}): the table of   *)
(* FdContexts, addEvent, delEvent, cancelEvent, cancelAll and the dispatch *)
(* of epoll events in idle(), with the hooked close() (src/code/hook.cc).  *)
(*                                                                         *)
(* A task is a fiber (or callback) that runs on some thread and calls the  *)
(* operations; a dispatcher is a thread in idle().  An operation looks up  *)
(* the FdContext under m_mutex and then works under that context's mutex:  *)
(* these are two steps.  epoll and the descriptor table are external.      *)
(***************************************************************************)
EXTENDS Integers, FiniteSets

CONSTANTS Tasks, Dispatchers,
          Fds,          \* descriptors in use, as numbers
          InitSize,     \* contextResize(32) of the constructor
          MaxAllocs,    \* bound: FdContexts allocated for one descriptor
          None

Events == {"READ", "WRITE"}
Ctxs == Fds \X (0..(MaxAllocs - 1))
Fd(ctx) == ctx[1]

ASSUME IOAssumption ==
    /\ Fds \subseteq Nat \ {0, 1} /\ InitSize \in Nat /\ MaxAllocs \in Nat \ {0}
    /\ None \notin Ctxs \union Tasks

VARIABLES size, m_fdContexts, allocs,      \* the vector, and objects made so far
          events, scheduler, waiter,       \* of each FdContext
          m_pendingEventCount,
          interest, open,                  \* epoll's registrations; open files
          raced,                           \* closed while an event was registered
          pc, op,                          \* of each task: position, arguments
          reports,                         \* events[] of each dispatcher
          scheduled,                       \* how often a task is in m_fibers
          failed

table   == <<size, m_fdContexts, allocs>>
context == <<events, scheduler, waiter>>
kernel  == <<interest, open, raced>>
task    == <<pc, op>>
vars    == <<table, context, m_pendingEventCount, kernel, task, reports,
             scheduled, failed>>

NoOp == [name |-> "none", fd |-> 0, event |-> "READ", ctx |-> None]
NotRegistered == [mask |-> {}, ctx |-> None]

\* The scheduler member of an FdContext that was just allocated: it has no
\* initializer, so it is what the heap held.
FreshScheduler == {"null", "garbage"}

Init ==
    /\ size = InitSize
    /\ m_fdContexts = [fd \in Fds |-> IF fd < InitSize THEN <<fd, 0>> ELSE None]
    /\ allocs = [fd \in Fds |-> IF fd < InitSize THEN 1 ELSE 0]
    /\ events = [x \in Ctxs |-> {}]
    /\ \E v \in FreshScheduler :
          scheduler = [x \in Ctxs |-> [e \in Events |-> v]]
    /\ waiter = [x \in Ctxs |-> [e \in Events |-> None]]
    /\ m_pendingEventCount = 0
    /\ interest = [fd \in Fds |-> NotRegistered]
    /\ open = Fds /\ raced = {}
    /\ pc = [t \in Tasks |-> "run"]
    /\ op = [t \in Tasks |-> NoOp]
    /\ reports = [d \in Dispatchers |-> {}]
    /\ scheduled = [t \in Tasks |-> 0]
    /\ failed = "none"

Abort(which) ==
    /\ failed' = which
    /\ UNCHANGED <<table, context, m_pendingEventCount, kernel, task, reports,
                   scheduled>>

-----------------------------------------------------------------------------
(* External: epoll_ctl on a descriptor.  ADD fails on a registered one,    *)
(* MOD and DEL on one that is not, all of them on a closed one.            *)
EpollCtlOk(fd, isAdd) == fd \in open /\ (isAdd <=> interest[fd].ctx = None)

EpollSet(fd, mask, ctx) ==
    interest' = [interest EXCEPT ![fd] =
                    IF mask = {} THEN NotRegistered ELSE [mask |-> mask, ctx |-> ctx]]

-----------------------------------------------------------------------------
(* Operations of a running task: first the lookup under m_mutex.           *)
Running(t) == failed = "none" /\ pc[t] = "run" /\ scheduled[t] = 0

\* How the callers use a descriptor: one task per direction of an open file.
Uses(u, fd, e) ==
    /\ op[u].fd = fd /\ op[u].event = e
    /\ \/ pc[u] \in {"add", "grow"}
       \/ pc[u] = "wait" /\ scheduled[u] = 0 /\ interest[fd].ctx # None
MayWait(fd, e) == \A u \in Tasks : ~Uses(u, fd, e)

Busy(fd, labels) == \E u \in Tasks : pc[u] \in labels /\ op[u].fd = fd

\* The first part of every operation: size check and read of m_fdContexts[fd].
Lookup(t, name, fd, e, whenSmall) ==
    /\ Running(t)
    /\ op' = [op EXCEPT ![t] =
                [name |-> name, fd |-> fd, event |-> e,
                 ctx |-> IF fd < size THEN m_fdContexts[fd] ELSE None]]
    /\ pc' = [pc EXCEPT ![t] = IF fd < size THEN name ELSE whenSmall]
    /\ UNCHANGED <<table, context, m_pendingEventCount, kernel, reports,
                   scheduled, failed>>

addEventLookup(t, fd, e) ==
    /\ MayWait(fd, e) /\ fd \in open
    /\ Lookup(t, "add", fd, e, "grow")
delEventLookup(t, fd, e) == Lookup(t, "del", fd, e, "run")
cancelEventLookup(t, fd, e) == Lookup(t, "cancel", fd, e, "run")

\* close() of hook.cc: cancelAll(fd), then close_f.
closeLookup(t, fd) ==
    /\ fd \in open /\ ~Busy(fd, {"cancelAll", "close"})
    /\ Lookup(t, "cancelAll", fd, "READ", "close")

Return(t) ==
    /\ pc' = [pc EXCEPT ![t] = "run"]
    /\ op' = [op EXCEPT ![t] = NoOp]

-----------------------------------------------------------------------------
(* contextResize(fd * 1.5), under the write lock taken after the size      *)
(* check was made under the read lock: it may shrink the vector.           *)
contextResize(t) ==
    LET fd == op[t].fd
        n == (fd * 3) \div 2
        new == {g \in Fds : g < n /\ m_fdContexts[g] = None}
    IN  /\ failed = "none" /\ pc[t] = "grow"
        /\ \A g \in new : allocs[g] < MaxAllocs
        /\ size' = n
        /\ m_fdContexts' = [g \in Fds |->
                IF g >= n THEN None
                ELSE IF g \in new THEN <<g, allocs[g]>> ELSE m_fdContexts[g]]
        /\ allocs' = [g \in Fds |-> IF g \in new THEN allocs[g] + 1 ELSE allocs[g]]
        /\ \E v \in FreshScheduler :
              scheduler' = [x \in Ctxs |->
                  IF x \in {<<g, allocs[g]>> : g \in new} THEN [e \in Events |-> v]
                  ELSE scheduler[x]]
        /\ op' = [op EXCEPT ![t].ctx = m_fdContexts'[fd]]
        /\ pc' = [pc EXCEPT ![t] = "add"]
        /\ UNCHANGED <<events, waiter, m_pendingEventCount, kernel, reports,
                       scheduled, failed>>

\* addEvent under the context's mutex; the task then yields.
addEvent(t) ==
    LET x == op[t].ctx
        e == op[t].event
    IN  /\ failed = "none" /\ pc[t] = "add"
        /\ IF e \in events[x] THEN Abort("addEvent")
           ELSE IF ~EpollCtlOk(Fd(x), events[x] = {})
           THEN /\ Return(t)
                /\ UNCHANGED <<table, context, m_pendingEventCount, kernel,
                               reports, scheduled, failed>>
           ELSE IF scheduler[x][e] # "null" \/ waiter[x][e] # None
           THEN Abort("stale context")
           ELSE /\ EpollSet(Fd(x), events[x] \union {e}, x)
                /\ m_pendingEventCount' = m_pendingEventCount + 1
                /\ events' = [events EXCEPT ![x] = @ \union {e}]
                /\ scheduler' = [scheduler EXCEPT ![x][e] = "set"]
                /\ waiter' = [waiter EXCEPT ![x][e] = t]
                /\ pc' = [pc EXCEPT ![t] = "wait"]
                /\ UNCHANGED <<table, open, raced, op, reports, scheduled, failed>>

\* Mutant of Trigger: the fiber is scheduled by value and stays in the context.
TriggerCopies(x, E) ==
    /\ events' = [events EXCEPT ![x] = @ \ E]
    /\ scheduled' = [t \in Tasks |->
           scheduled[t] + Cardinality({e \in E : waiter[x][e] = t})]
    /\ scheduler' = [scheduler EXCEPT ![x] =
                        [e \in Events |-> IF e \in E THEN "null" ELSE @[e]]]
    /\ m_pendingEventCount' = m_pendingEventCount - Cardinality(E)
    /\ UNCHANGED waiter

\* triggerEvent for each event of E, and the decrement that follows it: the
\* waiters are scheduled.
Trigger(x, E) ==
    /\ events' = [events EXCEPT ![x] = @ \ E]
    /\ scheduled' = [t \in Tasks |->
           scheduled[t] + Cardinality({e \in E : waiter[x][e] = t})]
    /\ waiter' = [waiter EXCEPT ![x] = [e \in Events |-> IF e \in E THEN None ELSE @[e]]]
    /\ scheduler' = [scheduler EXCEPT ![x] =
                        [e \in Events |-> IF e \in E THEN "null" ELSE @[e]]]
    /\ m_pendingEventCount' = m_pendingEventCount - Cardinality(E)

\* Mutant of delEvent: epoll keeps the old mask.
delKeepsMask(t) ==
    LET x == op[t].ctx
        e == op[t].event
    IN  /\ failed = "none" /\ pc[t] = "del"
        /\ e \in events[x] /\ EpollCtlOk(Fd(x), FALSE)
        /\ op' = [op EXCEPT ![t] = NoOp]
        /\ events' = [events EXCEPT ![x] = @ \ {e}]
        /\ waiter' = [waiter EXCEPT ![x][e] = None]
        /\ scheduler' = [scheduler EXCEPT ![x][e] = "null"]
        /\ m_pendingEventCount' = m_pendingEventCount - 1
        /\ pc' = [pc EXCEPT ![t] = "run", ![waiter[x][e]] = "dropped"]
        /\ UNCHANGED <<table, kernel, reports, scheduled, failed>>

\* delEvent under the mutex: the registration goes without being triggered.
delEvent(t) ==
    LET x == op[t].ctx
        e == op[t].event
        w == waiter[x][e]
    IN  /\ failed = "none" /\ pc[t] = "del"
        /\ op' = [op EXCEPT ![t] = NoOp]
        /\ IF e \in events[x] /\ EpollCtlOk(Fd(x), FALSE)
           THEN /\ EpollSet(Fd(x), events[x] \ {e}, x)
                /\ events' = [events EXCEPT ![x] = @ \ {e}]
                /\ waiter' = [waiter EXCEPT ![x][e] = None]
                /\ scheduler' = [scheduler EXCEPT ![x][e] = "null"]
                /\ m_pendingEventCount' = m_pendingEventCount - 1
                /\ pc' = [pc EXCEPT ![t] = "run", ![w] = "dropped"]
           ELSE /\ pc' = [pc EXCEPT ![t] = "run"]
                /\ UNCHANGED <<interest, context, m_pendingEventCount>>
        /\ UNCHANGED <<table, open, raced, reports, scheduled, failed>>

\* cancelEvent and cancelAll under the mutex: force the events to trigger.
Cancel(t, x, E, next) ==
    /\ IF E # {} /\ EpollCtlOk(Fd(x), FALSE)
       THEN Trigger(x, E) /\ EpollSet(Fd(x), events[x] \ E, x)
       ELSE UNCHANGED <<context, scheduled, m_pendingEventCount, interest>>
    /\ pc' = [pc EXCEPT ![t] = next]
    /\ op' = IF next = "run" THEN [op EXCEPT ![t] = NoOp] ELSE op
    /\ UNCHANGED <<table, open, raced, reports, failed>>

\* Mutant of cancelEvent: fd_ctx->events is not consulted.
cancelsUnregistered(t) ==
    /\ failed = "none" /\ pc[t] = "cancel"
    /\ Cancel(t, op[t].ctx, {op[t].event}, "run")

cancelEvent(t) ==
    /\ failed = "none" /\ pc[t] = "cancel"
    /\ Cancel(t, op[t].ctx, {op[t].event} \intersect events[op[t].ctx], "run")

cancelAll(t) ==
    /\ failed = "none" /\ pc[t] = "cancelAll"
    /\ Cancel(t, op[t].ctx, events[op[t].ctx], "close")

\* close_f: the kernel forgets the registration with the file.
close(t) ==
    /\ failed = "none" /\ pc[t] = "close"
    /\ open' = open \ {op[t].fd}
    /\ raced' = raced \union {Fd(x) : x \in {y \in Ctxs : Fd(y) = op[t].fd /\ events[y] # {}}}
    /\ interest' = [interest EXCEPT ![op[t].fd] = NotRegistered]
    /\ Return(t)
    /\ UNCHANGED <<table, context, m_pendingEventCount, reports, scheduled, failed>>

\* socket() or accept() returns a descriptor that was closed before.
reopen(t, fd) ==
    /\ Running(t) /\ fd \notin open
    /\ open' = open \union {fd}
    /\ UNCHANGED <<table, context, m_pendingEventCount, interest, raced, task, reports,
                   scheduled, failed>>

\* run() switches back to a scheduled task.
resume(t) ==
    /\ failed = "none" /\ scheduled[t] > 0
    /\ scheduled' = [scheduled EXCEPT ![t] = @ - 1]
    /\ Return(t)
    /\ UNCHANGED <<table, context, m_pendingEventCount, kernel, reports, failed>>

-----------------------------------------------------------------------------
(* idle(): epoll_wait fills events[]; each is then handled under its       *)
(* context's mutex.  EPOLLERR and EPOLLHUP are widened to IN and OUT.      *)
epoll_wait(d) ==
    /\ failed = "none" /\ reports[d] = {}
    /\ \E S \in SUBSET {fd \in Fds : interest[fd].ctx # None} :
       \E got \in [S -> SUBSET Events] :
          /\ S # {}
          /\ \A fd \in S : \/ got[fd] # {} /\ got[fd] \subseteq interest[fd].mask
                           \/ got[fd] = Events
          /\ reports' = [reports EXCEPT ![d] =
                            {[ctx |-> interest[fd].ctx, real_events |-> got[fd]] : fd \in S}]
    /\ UNCHANGED <<table, context, m_pendingEventCount, kernel, task, scheduled, failed>>

dispatch(d, r) ==
    LET x == r.ctx
    IN  /\ failed = "none" /\ r \in reports[d]
        /\ IF events[x] \intersect r.real_events = {} \/ ~EpollCtlOk(Fd(x), FALSE)
           THEN /\ reports' = [reports EXCEPT ![d] = @ \ {r}]
                /\ UNCHANGED <<context, m_pendingEventCount, scheduled, interest, failed>>
           ELSE IF ~(r.real_events \subseteq events[x])
           THEN /\ failed' = "triggerEvent"
                /\ UNCHANGED <<context, m_pendingEventCount, scheduled, interest, reports>>
           ELSE /\ reports' = [reports EXCEPT ![d] = @ \ {r}]
                /\ EpollSet(Fd(x), events[x] \ r.real_events, x)
                /\ Trigger(x, r.real_events)
                /\ UNCHANGED failed
        /\ UNCHANGED <<table, open, raced, task>>

-----------------------------------------------------------------------------
TaskStep(t) ==
    \/ \E fd \in Fds, e \in Events :
          \/ addEventLookup(t, fd, e)
          \/ delEventLookup(t, fd, e)
          \/ cancelEventLookup(t, fd, e)
    \/ \E fd \in Fds : closeLookup(t, fd) \/ reopen(t, fd)
    \/ contextResize(t) \/ addEvent(t) \/ delEvent(t) \/ cancelEvent(t)
    \/ cancelAll(t) \/ close(t) \/ resume(t)

IdleStep(d) ==
    \/ epoll_wait(d)
    \/ \E r \in reports[d] : dispatch(d, r)

Next == (\E t \in Tasks : TaskStep(t)) \/ (\E d \in Dispatchers : IdleStep(d))

Spec == Init /\ [][Next]_vars

-----------------------------------------------------------------------------
\* Types of the context table, the contexts and the kernel's side;
\* m_pendingEventCount, unsigned in the code, does not go below 0.
TypeOK ==
    /\ size \in Nat /\ m_fdContexts \in [Fds -> Ctxs \union {None}]
    /\ allocs \in [Fds -> 0..MaxAllocs]
    /\ events \in [Ctxs -> SUBSET Events]
    /\ scheduler \in [Ctxs -> [Events -> {"null", "set", "garbage"}]]
    /\ waiter \in [Ctxs -> [Events -> Tasks \union {None}]]
    /\ m_pendingEventCount \in Nat
    /\ interest \in [Fds -> [mask : SUBSET Events, ctx : Ctxs \union {None}]]
    /\ open \subseteq Fds /\ raced \subseteq Fds
    /\ pc \in [Tasks -> {"run", "grow", "add", "del", "cancel", "cancelAll",
                         "close", "wait", "dropped"}]
    /\ op \in [Tasks -> [name : {"none", "add", "del", "cancel", "cancelAll"},
                         fd : Fds \union {0}, event : Events,
                         ctx : Ctxs \union {None}]]
    /\ reports \in [Dispatchers -> SUBSET [ctx : Ctxs, real_events : SUBSET Events]]
    /\ scheduled \in [Tasks -> Nat]
    /\ failed \in {"none", "addEvent", "stale context", "triggerEvent"}

Registrations == {r \in Ctxs \X Events : r[2] \in events[r[1]]}
HeldFor(t) == {r \in Ctxs \X Events : waiter[r[1]][r[2]] = t}

\* m_pendingEventCount, which stopping() compares with 0, is the number of
\* registered events, although add, cancel and dispatch change the two from
\* different threads and return early on errors.
PendingExact == m_pendingEventCount = Cardinality(Registrations)

\* A waiting fiber is held by exactly one registration or is in m_fibers
\* exactly once; any other is in neither.  An event, a cancel and a close that
\* race for one registration do not lose the fiber and do not resume it twice.
ExactlyOneWake ==
    \A t \in Tasks :
        scheduled[t] + Cardinality(HeldFor(t)) = IF pc[t] = "wait" THEN 1 ELSE 0

\* epoll has exactly the events that an FdContext records registered, under that
\* very context, although operations on a stale context, reports of a closed
\* file and epoll_ctl calls that fail come in between: a registered event can
\* still be reported.  The exception is a descriptor that was closed while an
\* event was registered: by an addEvent beside close(), or in a context that
\* close() could not find because the table had shrunk.
KernelAgrees ==
    \A x \in Ctxs : Fd(x) \notin raced =>
        events[x] = IF interest[Fd(x)].ctx = x THEN interest[Fd(x)].mask ELSE {}

\* cancelAll(fd) cancels every event of the descriptor, so it must be able to
\* find the context that holds it: m_fdContexts[fd].  Fails: see contextResize.
RegisteredIsReachable ==
    \A x \in Ctxs : events[x] # {} => m_fdContexts[Fd(x)] = x

\* The assertion of triggerEvent: the event it is asked for is registered.
\* Fails: EPOLLHUP is widened to both directions.
TriggerRegistered == failed # "triggerEvent"

\* The assertion of addEvent on the FdContext: the event is not registered.
\* Fails: the event of a raced close is still there when the number is reused.
AddEventUnregistered == failed # "addEvent"
=============================================================================
