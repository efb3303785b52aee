-------------------------------- MODULE Hook --------------------------------
(***************************************************************************)
(* The hooked system calls (src/code/hook.cc) over the descriptor contexts *)
(* of FdManager (src/code/fd_manager.{h,cc}): do_io with its timeout and   *)
(* retry loop, connect_with_timeout, sleep, socket, accept, close, fcntl,  *)
(* ioctl and setsockopt, called by fibers on several threads.              *)
(*                                                                         *)
(* The kernel is external.  IOManager and TimerManager are the ones of the *)
(* modules of that name, seen through their interface: one fiber waits for *)
(* an event of a descriptor; a timer is pending, then listed with its      *)
(* callback on the way to a thread, where cancel() no longer reaches it.   *)
(* m_isClose is never set, so that the tests of isClose() never hold.      *)
(***************************************************************************)
EXTENDS Integers, FiniteSets, Functions

CONSTANTS Fibers, Fds,
          InitDatas,    \* m_datas.resize(64) of the constructor
          MaxOpens,     \* bound: files opened in all
          MaxReady,     \* bound: how often descriptors become ready in all
          MaxOptions,   \* bound: changes of flags and timeouts in all
          MaxCalls,     \* bound: hooked calls in all
          EarlyExpiry,  \* a timer may expire before its addEvent
          UserBlocks,   \* descriptors may be closed by threads without hooks,
                        \* and made blocking with ioctl
          None

ASSUME HookAssumption ==
    /\ Fds \subseteq Nat /\ InitDatas \in Nat \ {0, 1} /\ None \notin Fibers \union Fds
    /\ EarlyExpiry \in BOOLEAN /\ UserBlocks \in BOOLEAN

Events == {"READ", "WRITE"}
Never == "never"                            \* the timeout (uint64_t)-1

VARIABLES file, opens, nonblock, ready,             \* the kernel
          readies, options,                         \* counted for the bounds
          m_datas, dataSize,                        \* FdManager
          s_connect_timeout,
          pc, call, tinfo, calls,           \* each fiber
          waiting,                                  \* IOManager: who waits for what
          scheduled,                                \* fibers to be resumed
          timers

kernel == <<file, opens, nonblock, ready, readies, options>>
fds    == <<m_datas, dataSize>>
fiber  == <<pc, call, tinfo, calls>>
vars   == <<kernel, fds, s_connect_timeout, fiber, waiting, scheduled, timers>>

NoCall == [name |-> "none", fd |-> None, event |-> "READ", to |-> Never, expired |-> FALSE,
           file |-> 0]

Init ==
    /\ file = [fd \in Fds |-> "none"] /\ opens = [fd \in Fds |-> 0]
    /\ nonblock = [fd \in Fds |-> FALSE]
    /\ ready = [fd \in Fds |-> {}] /\ readies = 0 /\ options = 0
    /\ m_datas = [fd \in Fds |-> None] /\ dataSize = InitDatas
    /\ s_connect_timeout = "timeout"
    /\ pc = [f \in Fibers |-> "run"] /\ call = [f \in Fibers |-> NoCall]
    /\ tinfo = [f \in Fibers |-> 0]
    /\ calls = [f \in Fibers |-> 0]
    /\ waiting = [fd \in Fds |-> [e \in Events |-> None]]
    /\ scheduled = {} /\ timers = {}

(***************************************************************************)
(* FdManager and FdCtx.                                                    *)
(***************************************************************************)
\* FdCtx::init for what the kernel says fd is.
FdCtx(fd, kind) ==
    [isSocket |-> kind = "socket", sysNonblock |-> kind = "socket", userNonblock |-> FALSE,
     timeout |-> [e \in Events |-> Never], file |-> opens'[fd]]

get(fd) == IF dataSize <= fd THEN None ELSE m_datas[fd]

\* get(fd, true) for a file just opened, of the given kind: an entry that is
\* already there is kept; a new one makes a socket non-blocking.
getAutoCreate(fd, kind) ==
    IF get(fd) # None
    THEN /\ UNCHANGED fds
         /\ nonblock' = [nonblock EXCEPT ![fd] = FALSE]
    ELSE /\ dataSize' = IF fd >= dataSize THEN (fd * 3) \div 2 ELSE dataSize
         /\ m_datas' = [m_datas EXCEPT ![fd] = FdCtx(fd, kind)]
         /\ nonblock' = [nonblock EXCEPT ![fd] = kind = "socket"]

\* The kernel opens the lowest free number fd; a thread without hooks registers nothing.
Open(fd, hooked) ==
    /\ file[fd] = "none" /\ (\A g \in Fds : g < fd => file[g] # "none")
    /\ SumFunction(opens) < MaxOpens
    /\ file' = [file EXCEPT ![fd] = "socket"]
    /\ opens' = [opens EXCEPT ![fd] = @ + 1]
    /\ ready' = [ready EXCEPT ![fd] = {}]
    /\ IF hooked THEN getAutoCreate(fd, "socket")
       ELSE UNCHANGED fds /\ nonblock' = [nonblock EXCEPT ![fd] = FALSE]
    /\ UNCHANGED <<readies, options>>

(***************************************************************************)
(* A call begins and returns; what it returns is said where it does.       *)
(***************************************************************************)
Return(f) ==
    /\ pc' = [pc EXCEPT ![f] = "run"]
    /\ call' = [call EXCEPT ![f] = NoCall]
    /\ tinfo' = [tinfo EXCEPT ![f] = 0]
    /\ UNCHANGED calls
Goto(f, where) == pc' = [pc EXCEPT ![f] = where] /\ UNCHANGED <<call, tinfo, calls>>
Begins(f, where, c) ==
    /\ pc[f] = "run" /\ SumFunction(calls) < MaxCalls
    /\ pc' = [pc EXCEPT ![f] = where]
    /\ call' = [call EXCEPT ![f] = c]
    /\ calls' = [calls EXCEPT ![f] = @ + 1]
    /\ tinfo' = [tinfo EXCEPT ![f] = 0]
Idle(f) == pc[f] = "run" /\ UNCHANGED <<fiber, waiting, scheduled, timers, s_connect_timeout>>

SetsOption(f) == Idle(f) /\ options < MaxOptions /\ options' = options + 1

Pending(f) == {t \in timers : t.fiber = f /\ t.call = calls[f] /\ t.state = "pending"}
\* timer->cancel(): only a timer that is still in the set.
cancelTimer(f) == timers' = timers \ Pending(f)

(***************************************************************************)
(* do_io: read, readv, recv, recvfrom, recvmsg and accept wait for READ;   *)
(* write, writev, send, sendto and sendmsg for WRITE.                      *)
(***************************************************************************)
\* A descriptor nobody registered, a file, a descriptor the user made
\* non-blocking, or a thread without hooks: the original function.  What it
\* takes from the kernel is gone for a fiber that waits.
CallsOriginal(fd, hooked) ==
    IF hooked /\ get(fd) # None THEN ~get(fd).isSocket \/ get(fd).userNonblock ELSE TRUE
Original(f, fd, event, hooked) ==
    /\ pc[f] = "run" /\ CallsOriginal(fd, hooked) /\ event \in ready[fd]
    /\ ready' = [ready EXCEPT ![fd] = @ \ {event}]
    /\ UNCHANGED <<file, opens, nonblock, readies, options, fds, s_connect_timeout, fiber, waiting,
                   scheduled, timers>>
\* accept through the original function: whatever the thread's hooks, the
\* new descriptor gets a context.
OriginalAccept(f, fd, hooked) ==
    /\ Idle(f) /\ CallsOriginal(fd, hooked) /\ "READ" \in ready[fd]
    /\ \E new \in Fds : Open(new, TRUE)

\* IOManager::addEvent asserts that nobody else waits for the same event.
Alone(f, fd, event) ==
    \A g \in Fibers \ {f} : ~(call[g].fd = fd /\ call[g].event = event)

do_io(f, name, fd, event) ==
    /\ ~CallsOriginal(fd, TRUE) /\ Alone(f, fd, event)
    /\ Begins(f, "try", [name |-> name, fd |-> fd, event |-> event,
                         to |-> get(fd).timeout[event], expired |-> FALSE, file |-> opens[fd]])
    /\ UNCHANGED <<kernel, fds, s_connect_timeout, waiting, scheduled, timers>>

\* retry: the original function, again at once after EINTR.  On a blocking
\* descriptor it holds the thread instead of answering EAGAIN.
Try(f) ==
    LET c == call[f] IN
    /\ pc[f] = "try"
    /\ \/ /\ file[c.fd] = "none" /\ Return(f)                     \* EBADF
          /\ UNCHANGED <<kernel, fds>>
       \/ /\ file[c.fd] # "none" /\ c.event \in ready[c.fd] /\ c.name # "accept"
          /\ Return(f)
          /\ ready' = [ready EXCEPT ![c.fd] = @ \ {c.event}]
          /\ UNCHANGED <<file, opens, nonblock, readies, options, fds>>
       \/ /\ file[c.fd] # "none" /\ c.event \in ready[c.fd] /\ c.name = "accept"
          /\ \E new \in Fds : Open(new, TRUE)
          /\ Return(f)
       \/ /\ file[c.fd] # "none" /\ c.event \notin ready[c.fd]
          /\ Goto(f, IF nonblock[c.fd] THEN "arm" ELSE "blocked")
          /\ UNCHANGED <<kernel, fds>>
    /\ UNCHANGED <<s_connect_timeout, waiting, scheduled, timers>>

\* EAGAIN or EINPROGRESS: a condition timer that holds tinfo weakly.
AddConditionTimer(f) ==
    LET c == call[f] IN
    /\ pc[f] = "arm"
    /\ timers' = IF c.to = Never THEN timers
                 ELSE timers \union {[fiber |-> f, call |-> calls[f], fd |-> c.fd,
                                      event |-> c.event, kind |-> "io", state |-> "pending"]}
    /\ Goto(f, "add")
    /\ UNCHANGED <<kernel, fds, s_connect_timeout, waiting, scheduled>>

\* addEvent fails for a descriptor that was closed: do_io gives up, connect
\* goes on to ask for the socket's error.  Otherwise YieldToHold.
AddEvent(f) ==
    LET c == call[f] IN
    /\ pc[f] = "add"
    /\ IF file[c.fd] = "none"
       THEN /\ cancelTimer(f)
            /\ IF c.name = "connect" THEN Goto(f, "getsockopt") ELSE Return(f)
            /\ UNCHANGED waiting
       ELSE /\ waiting' = [waiting EXCEPT ![c.fd][c.event] = f]
            /\ Goto(f, "wait")
            /\ UNCHANGED timers
    /\ UNCHANGED <<kernel, fds, s_connect_timeout, scheduled>>

\* The fiber is resumed: the timer is cancelled, a timeout is reported, and
\* anything else is tried again.
Resume(f) ==
    /\ pc[f] = "wait" /\ f \in scheduled
    /\ scheduled' = scheduled \ {f}
    /\ cancelTimer(f)
    /\ IF tinfo[f] # 0 THEN Return(f)              \* ETIMEDOUT
       ELSE Goto(f, IF call[f].name = "connect" THEN "getsockopt" ELSE "try")
    /\ UNCHANGED <<kernel, fds, s_connect_timeout, waiting>>

(***************************************************************************)
(* What wakes a fiber: an event, or the callback of a timer.               *)
(***************************************************************************)
\* cancelEvent and triggerEvent take the waiter out and schedule it.
Wake(fd, event) ==
    /\ scheduled' = scheduled \union ({waiting[fd][event]} \ {None})
    /\ waiting' = [waiting EXCEPT ![fd][event] = None]

BecomesReady(fd, event) ==
    /\ file[fd] # "none" /\ event \notin ready[fd] /\ readies < MaxReady
    /\ ready' = [ready EXCEPT ![fd] = @ \union {event}]
    /\ readies' = readies + 1
    /\ UNCHANGED <<file, opens, nonblock, options, fds, s_connect_timeout, fiber, waiting, scheduled,
                   timers>>

Trigger(fd, event) ==
    /\ event \in ready[fd] /\ waiting[fd][event] # None
    /\ Wake(fd, event)
    /\ UNCHANGED <<kernel, fds, s_connect_timeout, fiber, timers>>

Expire(t) ==
    /\ t.state = "pending"
    /\ t.kind = "io" /\ ~EarlyExpiry => pc[t.fiber] # "add"
    /\ timers' = (timers \ {t}) \union {[t EXCEPT !.state = "listed"]}
    /\ call' = [call EXCEPT ![t.fiber].expired = @ \/ t.call = calls[t.fiber]]
    /\ UNCHANGED <<kernel, fds, s_connect_timeout, pc, tinfo, calls, waiting, scheduled>>

\* The callback of an io timer; tinfo is gone when the call has returned.
CancelsAnyway(t) ==
    /\ t.state = "listed" /\ t.kind = "io"
    /\ timers' = timers \ {t}
    /\ tinfo' = [tinfo EXCEPT ![t.fiber] = 1]
    /\ Wake(t.fd, t.event)
    /\ UNCHANGED <<kernel, fds, s_connect_timeout, pc, call, calls>>
LeavesWaiter(t) ==
    /\ t.state = "listed" /\ t.kind = "io" /\ timers' = timers \ {t}
    /\ tinfo' = [tinfo EXCEPT ![t.fiber] = 1]
    /\ scheduled' = scheduled \union {t.fiber}
    /\ UNCHANGED <<kernel, fds, s_connect_timeout, pc, call, calls, waiting>>
OnTimer(t) ==
    /\ t.state = "listed"
    /\ timers' = timers \ {t}
    /\ IF t.kind = "sleep"
       THEN scheduled' = scheduled \union {t.fiber} /\ UNCHANGED <<tinfo, waiting>>
       ELSE IF pc[t.fiber] \in {"run", "close"} \/ t.call # calls[t.fiber] \/ tinfo[t.fiber] # 0
       THEN UNCHANGED <<tinfo, waiting, scheduled>>
       ELSE tinfo' = [tinfo EXCEPT ![t.fiber] = 1] /\ Wake(t.fd, t.event)
    /\ UNCHANGED <<kernel, fds, s_connect_timeout, pc, call, calls>>

(***************************************************************************)
(* connect_with_timeout.                                                   *)
(***************************************************************************)
connect(f, fd) ==
    /\ IF get(fd) = None \/ file[fd] = "none"       \* EBADF
       THEN Begins(f, "run", NoCall)
       ELSE /\ ~CallsOriginal(fd, TRUE) /\ Alone(f, fd, "WRITE")
            /\ \/ Begins(f, "run", NoCall)          \* connected, or refused, at once
               \/ Begins(f, "arm", [name |-> "connect", fd |-> fd, event |-> "WRITE",
                                    to |-> s_connect_timeout, expired |-> FALSE,
                                    file |-> opens[fd]])
    /\ UNCHANGED <<kernel, fds, s_connect_timeout, waiting, scheduled, timers>>

\* SO_ERROR of the socket: connected or not.
getsockopt(f) ==
    /\ pc[f] = "getsockopt"
    /\ Return(f)
    /\ UNCHANGED <<kernel, fds, s_connect_timeout, waiting, scheduled, timers>>

\* The listener of tcp.connet.timeout.
ConnectTimeoutChanges(v) ==
    /\ s_connect_timeout # v /\ s_connect_timeout' = v
    /\ options < MaxOptions /\ options' = options + 1
    /\ UNCHANGED <<file, opens, nonblock, ready, readies, fds, fiber, waiting, scheduled, timers>>

(***************************************************************************)
(* sleep, usleep and nanosleep: a timer that schedules the fiber.          *)
(***************************************************************************)
YieldsFirst(f) ==
    /\ Begins(f, "sleep", [NoCall EXCEPT !.name = "sleep"])
    /\ UNCHANGED <<kernel, fds, s_connect_timeout, waiting, scheduled, timers>>
sleep(f) ==
    /\ Begins(f, "sleep", [NoCall EXCEPT !.name = "sleep"])
    /\ timers' = timers \union {[fiber |-> f, call |-> calls[f] + 1, fd |-> None,
                                 event |-> "READ", kind |-> "sleep", state |-> "pending"]}
    /\ UNCHANGED <<kernel, fds, s_connect_timeout, waiting, scheduled>>
SleepEnds(f) ==
    /\ pc[f] = "sleep" /\ f \in scheduled
    /\ scheduled' = scheduled \ {f}
    /\ Return(f)
    /\ UNCHANGED <<kernel, fds, s_connect_timeout, waiting, timers>>

(***************************************************************************)
(* socket, close, fcntl, ioctl, setsockopt.                                *)
(***************************************************************************)
socket(f, fd, hooked) == Idle(f) /\ Open(fd, hooked)

\* close: cancelAll wakes the waiters of both events and the context goes; the
\* descriptor is closed behind that, and the woken may register again before.
\* Without hooks only the descriptor goes.  Its owner closes a descriptor once.
Closing(fd) == \E g \in Fibers : call[g].name = "close" /\ call[g].fd = fd
KeepsCtx(f, fd, hooked) ==
    /\ pc[f] = "run" /\ file[fd] # "none" /\ ~Closing(fd)
    /\ pc' = [pc EXCEPT ![f] = "close"]
    /\ call' = [call EXCEPT ![f] = [NoCall EXCEPT !.name = "close", !.fd = fd, !.event = "none"]]
    /\ scheduled' = scheduled \union ({waiting[fd][e] : e \in Events} \ {None})
    /\ waiting' = [waiting EXCEPT ![fd] = [e \in Events |-> None]]
    /\ UNCHANGED <<kernel, fds, s_connect_timeout, timers, tinfo, calls>>
close(f, fd, hooked) ==
    /\ pc[f] = "run" /\ file[fd] # "none" /\ ~Closing(fd)
    /\ IF hooked /\ get(fd) # None
       THEN /\ scheduled' = scheduled \union ({waiting[fd][e] : e \in Events} \ {None})
            /\ waiting' = [waiting EXCEPT ![fd] = [e \in Events |-> None]]
            /\ m_datas' = [m_datas EXCEPT ![fd] = None]
            /\ pc' = [pc EXCEPT ![f] = "close"]
            /\ call' = [call EXCEPT ![f] = [NoCall EXCEPT !.name = "close", !.fd = fd, !.event = "none"]]
            /\ UNCHANGED file
       ELSE /\ file' = [file EXCEPT ![fd] = "none"]
            /\ UNCHANGED <<scheduled, waiting, m_datas, pc, call>>
    /\ UNCHANGED <<opens, nonblock, ready, readies, options, dataSize, s_connect_timeout, timers, tinfo,
                   calls>>
close_f(f) ==
    /\ pc[f] = "close"
    /\ file' = [file EXCEPT ![call[f].fd] = "none"]
    /\ Return(f)
    /\ UNCHANGED <<opens, nonblock, ready, readies, options, fds, s_connect_timeout, waiting, scheduled,
                   timers>>

\* F_SETFL, and F_SETFD and F_DUPFD which fall into its branch with an
\* argument that does not hold O_NONBLOCK: what the user asked for is
\* remembered, and the kernel's flag stays what the hooks need.
PassesFlag(f, fd, arg) ==
    /\ SetsOption(f) /\ file[fd] # "none"
    /\ m_datas' = IF get(fd) = None \/ ~get(fd).isSocket THEN m_datas
                  ELSE [m_datas EXCEPT ![fd].userNonblock = arg]
    /\ nonblock' = [nonblock EXCEPT ![fd] = arg]
    /\ UNCHANGED <<file, opens, ready, readies, dataSize>>
fcntl(f, fd, arg) ==
    /\ SetsOption(f) /\ file[fd] # "none"
    /\ IF get(fd) = None \/ ~get(fd).isSocket
       THEN UNCHANGED m_datas /\ nonblock' = [nonblock EXCEPT ![fd] = arg]
       ELSE /\ m_datas' = [m_datas EXCEPT ![fd].userNonblock = arg]
            /\ nonblock' = [nonblock EXCEPT ![fd] = get(fd).sysNonblock]
    /\ UNCHANGED <<file, opens, ready, readies, dataSize>>

\* FIONBIO on a socket with a context goes to the kernel as it is and is not
\* remembered.
ioctl(f, fd, arg) ==
    /\ SetsOption(f) /\ file[fd] # "none" /\ get(fd) # None /\ get(fd).isSocket
    /\ nonblock' = [nonblock EXCEPT ![fd] = arg]
    /\ UNCHANGED <<file, opens, ready, readies, fds>>

\* On any other descriptor ioctl calls itself, not ioctl_f, with the same
\* arguments; and so does fcntl, on every descriptor, for F_GETFL, F_GETFD and
\* the commands it does not know.  The call never returns.
CallsItself(f) ==
    /\ Begins(f, "endless", NoCall)
    /\ UNCHANGED <<kernel, fds, s_connect_timeout, waiting, scheduled, timers>>

\* SO_RCVTIMEO and SO_SNDTIMEO are recorded for the next do_io.
setsockopt(f, fd, event, v) ==
    /\ SetsOption(f) /\ get(fd) # None /\ get(fd).timeout[event] # v
    /\ m_datas' = [m_datas EXCEPT ![fd].timeout[event] = v]
    /\ UNCHANGED <<file, opens, nonblock, ready, readies, dataSize>>

FiberStep(f) ==
    \/ \E fd \in Fds, hooked \in BOOLEAN : socket(f, fd, hooked)
    \/ \E fd \in Fds, hooked \in BOOLEAN :
          (hooked \/ UserBlocks \/ get(fd) = None) /\ close(f, fd, hooked)
    \/ close_f(f)
    \/ \E fd \in Fds, arg \in BOOLEAN : fcntl(f, fd, arg)
    \/ \E fd \in Fds, arg \in BOOLEAN : (arg \/ UserBlocks) /\ ioctl(f, fd, arg)
    \/ \E fd \in Fds, e \in Events, v \in {Never, "timeout"} : setsockopt(f, fd, e, v)
    \/ CallsItself(f)
    \/ \E fd \in Fds, e \in Events, hooked \in BOOLEAN : Original(f, fd, e, hooked)
    \/ \E fd \in Fds, hooked \in BOOLEAN : OriginalAccept(f, fd, hooked)
    \/ \E fd \in Fds : do_io(f, "read", fd, "READ") \/ do_io(f, "accept", fd, "READ")
                       \/ do_io(f, "write", fd, "WRITE") \/ connect(f, fd)
    \/ Try(f) \/ AddConditionTimer(f) \/ AddEvent(f) \/ Resume(f) \/ getsockopt(f)
    \/ sleep(f) \/ SleepEnds(f)

Next ==
    \/ \E f \in Fibers : FiberStep(f)
    \/ \E fd \in Fds, e \in Events : BecomesReady(fd, e) \/ Trigger(fd, e)
    \/ \E t \in timers : Expire(t) \/ OnTimer(t)
    \/ \E v \in {Never, "timeout"} : ConnectTimeoutChanges(v)

\* Timers expire, threads run callbacks, and a scheduled fiber is resumed.
Fairness ==
    /\ WF_vars(\E t \in timers : t.kind = "sleep" /\ (Expire(t) \/ OnTimer(t)))
    /\ \A f \in Fibers : WF_vars(SleepEnds(f))
Spec == Init /\ [][Next]_vars /\ Fairness

(***************************************************************************)
(* Properties.                                                             *)
(***************************************************************************)

\* OneWake: a fiber that yielded in do_io or connect is either waited on by
\* exactly the event it asked for, or scheduled, never both or neither, and no
\* other fiber is scheduled or registered (hook.cc:165-187, 371-384).
OneWake ==
    /\ \A f \in Fibers :
         LET slots == {s \in Fds \X Events : waiting[s[1]][s[2]] = f}
         IN IF pc[f] = "wait"
            THEN \/ f \in scheduled /\ slots = {}
                 \/ f \notin scheduled /\ slots = {<<call[f].fd, call[f].event>>}
            ELSE slots = {} /\ (f \in scheduled => pc[f] = "sleep")

\* TimeoutHonest: a call fails with ETIMEDOUT only after a timer of that very
\* call expired; a callback left over from an earlier call of the fiber, or
\* one that finds tinfo gone, changes nothing (hook.cc:153-163).
TimeoutHonest == \A f \in Fibers : tinfo[f] # 0 => call[f].expired

\* ThreadNotHeld: a hooked call does not block its thread in the kernel while
\* the context of the file it was called for exists: that socket is
\* non-blocking whatever the user asked for.  Only a file that was closed, or
\* is being closed, under the call can block it (fd_manager.cc:40-47,
\* hook.cc:395-409).
ThreadNotHeld ==
    \A f \in Fibers : pc[f] = "blocked" =>
        LET ctx == m_datas[call[f].fd] IN ctx = None \/ ctx.file # call[f].file

\* CtxOfFile: the context found under a descriptor belongs to the file that is
\* open there, not to one that was closed before the number was given out
\* again, so that no timeout or flag is inherited (fd_manager.cc:80-111).
CtxOfFile ==
    \A fd \in Fds : m_datas[fd] # None =>
        file[fd] # "none" /\ m_datas[fd].file = opens[fd]

\* SleepReturns: a fiber that sleeps is resumed (hook.cc:196-238).
SleepReturns == \A f \in Fibers : pc[f] = "sleep" ~> pc[f] = "run"

\* TimeoutArmed: a fiber that waits with a timeout is scheduled, or a timer
\* that will still wake it is pending or on its way (hook.cc:150-152).
TimeoutArmed ==
    \A f \in Fibers :
        pc[f] = "wait" /\ call[f].to # Never /\ f \notin scheduled =>
            \E t \in timers : t.fiber = f /\ t.call = calls[f] /\ tinfo[f] = 0
=============================================================================
