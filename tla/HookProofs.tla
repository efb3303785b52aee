----------------------------- MODULE HookProofs -----------------------------
(***************************************************************************)
(* Theorems about the hooked calls, for any fibers and descriptors.        *)
(*                                                                         *)
(* OneWake needs to know which fiber may stand in which slot of IOManager  *)
(* and that a sleep timer belongs to a sleeping fiber; TimeoutHonest that  *)
(* a listed timer of the running call has marked it as expired; CtxOfFile  *)
(* that a descriptor whose close() is under way stays open and without a   *)
(* context until close_f; ThreadNotHeld that a context makes its socket    *)
(* non-blocking.                                                           *)
(***************************************************************************)
EXTENDS Hook, TLAPS

\* Types.  ready and the counters of the bounds are not needed.
FdCtxs == [isSocket : BOOLEAN, sysNonblock : BOOLEAN, userNonblock : BOOLEAN,
           timeout : [Events -> {Never, "timeout"}], file : Nat]
Pcs == {"run", "try", "arm", "add", "wait", "blocked", "getsockopt", "sleep", "close", "endless"}
Calls == [name : {"none", "read", "accept", "write", "connect", "sleep", "close"},
          fd : Fds \union {None}, event : Events \union {"none"},
          to : {Never, "timeout"}, expired : BOOLEAN, file : Nat]
Timers == [fiber : Fibers, call : Nat, fd : Fds \union {None}, event : Events,
           kind : {"io", "sleep"}, state : {"pending", "listed"}]
KernelTyped == file \in [Fds -> {"none", "socket"}] /\ opens \in [Fds -> Nat]
               /\ nonblock \in [Fds -> BOOLEAN]
DatasTyped == /\ m_datas \in [Fds -> FdCtxs \union {None}]
              /\ dataSize \in Nat /\ dataSize >= 2
              /\ s_connect_timeout \in {Never, "timeout"}
FiberTyped == /\ pc \in [Fibers -> Pcs] /\ call \in [Fibers -> Calls]
              /\ tinfo \in [Fibers -> {0, 1}] /\ calls \in [Fibers -> Nat]
WaitTyped == /\ waiting \in [Fds -> [Events -> Fibers \union {None}]]
             /\ scheduled \subseteq Fibers /\ timers \subseteq Timers
InCall == {"try", "arm", "add", "wait", "blocked"}
CallKnown ==
    \A f \in Fibers :
        /\ pc[f] \in InCall => call[f].fd \in Fds /\ call[f].event \in Events
        /\ pc[f] = "close" => call[f].fd \in Fds
IoTimerKnown == \A t \in timers : t.kind = "io" => t.fd \in Fds
Typed == KernelTyped /\ DatasTyped /\ FiberTyped /\ WaitTyped /\ CallKnown /\ IoTimerKnown

\* Who may stand in a slot of IOManager, and who may be scheduled.
SlotOfCall == \A fd \in Fds, e \in Events, f \in Fibers : waiting[fd][e] = f =>
    pc[f] = "wait" /\ f \notin scheduled /\ call[f].fd = fd /\ call[f].event = e
NotLost == \A f \in Fibers : pc[f] = "wait" /\ f \notin scheduled =>
    waiting[call[f].fd][call[f].event] = f
ScheduledYielded == \A f \in scheduled : pc[f] \in {"wait", "sleep"}
OneUser == \A f, g \in Fibers : f # g /\ call[f].fd # None =>
    ~(call[g].fd = call[f].fd /\ call[g].event = call[f].event)
SleepTimer ==
    /\ \A t \in timers : t.kind = "sleep" => pc[t.fiber] = "sleep" /\ t.fiber \notin scheduled
    /\ \A t, u \in timers : t.kind = "sleep" /\ u.kind = "sleep" /\ t.fiber = u.fiber => t = u
CloseEvent == \A f \in Fibers : call[f].event = "none" => call[f].name = "close"
WakeInv == SlotOfCall /\ NotLost /\ ScheduledYielded /\ OneUser /\ SleepTimer /\ CloseEvent

\* A timer of the running call that was listed has marked the call.
TimerOfCall == \A t \in timers : t.call <= calls[t.fiber]
Marked == \A t \in timers : t.state = "listed" /\ t.call = calls[t.fiber]
              /\ pc[t.fiber] \notin {"run", "close"} => call[t.fiber].expired
NoTinfo == \A f \in Fibers : pc[f] = "run" => tinfo[f] = 0
HonestInv == TimerOfCall /\ Marked /\ NoTinfo /\ TimeoutHonest

\* A context belongs to an open socket, and makes it non-blocking; the
\* descriptor of a close() under way is open and has none.
InTable == \A fd \in Fds : m_datas[fd] # None => fd < dataSize
Nonblocking == \A fd \in Fds : m_datas[fd] # None =>
    m_datas[fd].isSocket /\ m_datas[fd].sysNonblock /\ nonblock[fd]
CloseUnderWay ==
    \A f \in Fibers :
        /\ pc[f] = "close" => /\ call[f].name = "close" /\ file[call[f].fd] # "none"
                              /\ m_datas[call[f].fd] = None
        /\ call[f].name = "close" => pc[f] = "close"
CloseOnce == \A f, g \in Fibers :
    f # g /\ pc[f] = "close" /\ pc[g] = "close" => call[f].fd # call[g].fd
FileKnown == \A f \in Fibers : call[f].fd # None => call[f].file <= opens[call[f].fd]
CtxInv == CtxOfFile /\ InTable /\ Nonblocking /\ CloseUnderWay /\ CloseOnce
          /\ FileKnown /\ ThreadNotHeld

-----------------------------------------------------------------------------
(* Types.                                                                  *)

\* A fiber outside any call.
LEMMA NoCallTyped == NoCall \in Calls /\ NoCall.fd = None
BY DEF NoCall, Calls, Events, Never

\* The calls that begin, by the name of the hooked function.
LEMMA BeginsTyped ==
    ASSUME FiberTyped, CallKnown, NEW f \in Fibers, NEW where \in Pcs, NEW c \in Calls,
           where \in InCall => c.fd \in Fds /\ c.event \in Events, where # "close",
           Begins(f, where, c)
    PROVE  FiberTyped' /\ CallKnown'
<1>1. /\ pc' = [pc EXCEPT ![f] = where] /\ call' = [call EXCEPT ![f] = c]
      /\ calls' = [calls EXCEPT ![f] = @ + 1] /\ tinfo' = [tinfo EXCEPT ![f] = 0]
  BY DEF Begins
<1>2. FiberTyped'
  BY <1>1 DEF FiberTyped
<1>3. CallKnown'
  BY <1>1 DEF FiberTyped, CallKnown
<1>4. QED
  BY <1>2, <1>3

\* A call that returns.
LEMMA ReturnTyped ==
    ASSUME FiberTyped, CallKnown, NEW f \in Fibers, Return(f)
    PROVE  FiberTyped' /\ CallKnown'
<1>1. /\ pc' = [pc EXCEPT ![f] = "run"] /\ call' = [call EXCEPT ![f] = NoCall]
      /\ tinfo' = [tinfo EXCEPT ![f] = 0] /\ calls' = calls
  BY DEF Return
<1>2. FiberTyped'
  BY <1>1, NoCallTyped DEF FiberTyped, Pcs
<1>3. CallKnown'
  BY <1>1 DEF FiberTyped, CallKnown, InCall
<1>4. QED
  BY <1>2, <1>3

\* A call that goes on.
LEMMA GotoTyped ==
    ASSUME FiberTyped, CallKnown, NEW f \in Fibers, NEW where \in Pcs, where # "close",
           where \in InCall => pc[f] \in InCall, Goto(f, where)
    PROVE  FiberTyped' /\ CallKnown'
<1>1. pc' = [pc EXCEPT ![f] = where] /\ UNCHANGED <<call, tinfo, calls>>
  BY DEF Goto
<1>2. FiberTyped'
  BY <1>1 DEF FiberTyped
<1>3. CallKnown'
  BY <1>1 DEF FiberTyped, CallKnown
<1>4. QED
  BY <1>2, <1>3

\* A file is opened; FdManager registers it.
LEMMA OpenTyped ==
    ASSUME KernelTyped, DatasTyped, NEW fd \in Fds, NEW hooked \in BOOLEAN, Open(fd, hooked),
           s_connect_timeout' = s_connect_timeout
    PROVE  KernelTyped' /\ DatasTyped'
<1>1. fd \in Nat
  BY HookAssumption
<1>2. file' \in [Fds -> {"none", "socket"}] /\ opens' \in [Fds -> Nat] /\ opens'[fd] \in Nat
  BY DEF Open, KernelTyped
<1>3. FdCtx(fd, "socket") \in FdCtxs
  <2>1. [e \in Events |-> Never] \in [Events -> {Never, "timeout"}]
    OBVIOUS
  <2>2. QED
    BY <1>2, <2>1 DEF FdCtx, FdCtxs
<1>4. nonblock' \in [Fds -> BOOLEAN]
  <2>1. nonblock' \in {[nonblock EXCEPT ![fd] = FALSE], [nonblock EXCEPT ![fd] = TRUE]}
    BY DEF Open, getAutoCreate
  <2>2. QED
    BY <2>1 DEF KernelTyped
<1>5. m_datas' \in [Fds -> FdCtxs \union {None}]
  <2>1. m_datas' \in {m_datas, [m_datas EXCEPT ![fd] = FdCtx(fd, "socket")]}
    BY DEF Open, getAutoCreate, fds
  <2>2. QED
    BY <1>3, <2>1 DEF DatasTyped
<1>6. dataSize' \in Nat /\ dataSize' >= 2
  <2>1. dataSize' = dataSize \/ (fd >= dataSize /\ dataSize' = (fd * 3) \div 2)
    BY DEF Open, getAutoCreate, fds
  <2>2. fd >= 2 => (fd * 3) \div 2 \in Nat /\ (fd * 3) \div 2 >= 2
    BY <1>1
  <2>3. QED
    BY <1>1, <2>1, <2>2 DEF DatasTyped
<1>7. QED
  BY <1>2, <1>4, <1>5, <1>6 DEF KernelTyped, DatasTyped

\* Waking takes a fiber out of its slot.
LEMMA WakeTyped ==
    ASSUME WaitTyped, NEW fd \in Fds, NEW e \in Events, Wake(fd, e)
    PROVE  /\ waiting' \in [Fds -> [Events -> Fibers \union {None}]]
           /\ scheduled' \subseteq Fibers
BY DEF WaitTyped, Wake

\* A listed or cancelled timer.
LEMMA TimersTyped ==
    ASSUME WaitTyped, NEW t \in timers
    PROVE  /\ t \in Timers /\ t.fiber \in Fibers /\ t.call \in Nat /\ t.event \in Events
           /\ [t EXCEPT !.state = "listed"] \in Timers
           /\ [t EXCEPT !.state = "listed"].fiber = t.fiber
           /\ [t EXCEPT !.state = "listed"].call = t.call
           /\ [t EXCEPT !.state = "listed"].kind = t.kind
           /\ [t EXCEPT !.state = "listed"].fd = t.fd
           /\ [t EXCEPT !.state = "listed"].state = "listed"
<1>1. t \in Timers
  BY DEF WaitTyped
<1>2. QED
  BY <1>1 DEF Timers

\* The start of the program.
LEMMA InitTyped == Init => Typed
<1> SUFFICES ASSUME Init PROVE Typed
  OBVIOUS
<1>1. KernelTyped /\ DatasTyped
  BY HookAssumption DEF Init, KernelTyped, DatasTyped, Never
<1>2. FiberTyped /\ CallKnown
  BY NoCallTyped DEF Init, FiberTyped, CallKnown, Pcs, InCall
<1>3. WaitTyped /\ IoTimerKnown
  BY DEF Init, WaitTyped, IoTimerKnown
<1>4. QED
  BY <1>1, <1>2, <1>3 DEF Typed

\* A call of do_io or connect has its arguments.
LEMMA CallTyped ==
    ASSUME KernelTyped, NEW fd \in Fds, NEW e \in Events, NEW to \in {Never, "timeout"},
           NEW name \in {"read", "accept", "write", "connect"}
    PROVE  [name |-> name, fd |-> fd, event |-> e, to |-> to, expired |-> FALSE,
            file |-> opens[fd]] \in Calls
BY DEF KernelTyped, Calls

\* Every step keeps the types.
LEMMA NextTyped == Typed /\ [Next]_vars => Typed'
<1> SUFFICES ASSUME Typed, [Next]_vars PROVE Typed'
  OBVIOUS
<1> USE DEF Typed
<1>a. WaitTyped /\ UNCHANGED <<waiting, scheduled, timers>> => WaitTyped' /\ IoTimerKnown'
  BY DEF WaitTyped, IoTimerKnown
<1>b. UNCHANGED <<kernel, fds, s_connect_timeout>> => KernelTyped' /\ DatasTyped'
  BY DEF KernelTyped, DatasTyped, kernel, fds
<1>c. UNCHANGED fiber => FiberTyped' /\ CallKnown'
  BY DEF FiberTyped, CallKnown, fiber
<1>1. ASSUME NEW f \in Fibers, NEW fd \in Fds, NEW hooked \in BOOLEAN, socket(f, fd, hooked)
      PROVE  Typed'
  BY <1>1, <1>a, <1>c, OpenTyped DEF socket, Idle
<1>2. ASSUME NEW f \in Fibers, NEW fd \in Fds, NEW hooked \in BOOLEAN, close(f, fd, hooked)
      PROVE  Typed'
  <2>1. CASE hooked /\ get(fd) # None
    <3>1. /\ scheduled' = scheduled \union ({waiting[fd][e] : e \in Events} \ {None})
          /\ waiting' = [waiting EXCEPT ![fd] = [e \in Events |-> None]]
          /\ m_datas' = [m_datas EXCEPT ![fd] = None]
          /\ pc' = [pc EXCEPT ![f] = "close"]
          /\ call' = [call EXCEPT ![f] = [NoCall EXCEPT !.name = "close", !.fd = fd, !.event = "none"]]
          /\ UNCHANGED <<file, opens, nonblock, dataSize, s_connect_timeout, timers, tinfo, calls>>
      BY <1>2, <2>1 DEF close
    <3>2. [NoCall EXCEPT !.name = "close", !.fd = fd, !.event = "none"] \in Calls
          /\ [NoCall EXCEPT !.name = "close", !.fd = fd, !.event = "none"].fd = fd
      BY DEF NoCall, Calls, Never
    <3>3. FiberTyped'
      BY <3>1, <3>2 DEF FiberTyped, Pcs
    <3>4. CallKnown'
      BY <3>1, <3>2 DEF FiberTyped, CallKnown, InCall
    <3>5. WaitTyped' /\ IoTimerKnown'
      BY <3>1 DEF WaitTyped, IoTimerKnown
    <3>6. KernelTyped' /\ DatasTyped'
      BY <3>1 DEF KernelTyped, DatasTyped
    <3>7. QED
      BY <3>3, <3>4, <3>5, <3>6
  <2>2. CASE ~(hooked /\ get(fd) # None)
    <3>1. /\ file' = [file EXCEPT ![fd] = "none"] /\ UNCHANGED fiber
          /\ UNCHANGED <<opens, nonblock, m_datas, dataSize, s_connect_timeout, waiting,
                         scheduled, timers>>
      BY <1>2, <2>2 DEF close, fiber
    <3>2. KernelTyped' /\ DatasTyped'
      BY <3>1 DEF KernelTyped, DatasTyped
    <3>3. QED
      BY <3>1, <3>2, <1>a, <1>c
  <2>3. QED
    BY <2>1, <2>2
<1>3. ASSUME NEW f \in Fibers, close_f(f) PROVE Typed'
  <2>1. KernelTyped' /\ DatasTyped'
    BY <1>3 DEF close_f, KernelTyped, DatasTyped, fds
  <2>2. FiberTyped' /\ CallKnown'
    BY <1>3, ReturnTyped DEF close_f
  <2>3. QED
    BY <1>3, <1>a, <2>1, <2>2 DEF close_f
<1>4. ASSUME NEW f \in Fibers, NEW fd \in Fds, NEW arg \in BOOLEAN, fcntl(f, fd, arg)
      PROVE  Typed'
  <2>1. /\ \/ UNCHANGED m_datas /\ nonblock' = [nonblock EXCEPT ![fd] = arg]
           \/ /\ get(fd) # None
              /\ m_datas' = [m_datas EXCEPT ![fd].userNonblock = arg]
              /\ nonblock' = [nonblock EXCEPT ![fd] = get(fd).sysNonblock]
        /\ UNCHANGED <<file, opens, dataSize, s_connect_timeout, waiting, scheduled, timers>>
        /\ UNCHANGED fiber
    BY <1>4 DEF fcntl, SetsOption, Idle
  <2>2. get(fd) # None => m_datas[fd] \in FdCtxs /\ get(fd) = m_datas[fd]
    BY DEF get, DatasTyped
  <2>3. m_datas' \in [Fds -> FdCtxs \union {None}]
    <3>1. m_datas[fd] \in FdCtxs => [m_datas[fd] EXCEPT !.userNonblock = arg] \in FdCtxs
      BY DEF FdCtxs
    <3>2. QED
      BY <2>1, <2>2, <3>1 DEF DatasTyped
  <2>4. nonblock' \in [Fds -> BOOLEAN]
    <3>1. get(fd) # None => get(fd).sysNonblock \in BOOLEAN
      BY <2>2 DEF FdCtxs
    <3>2. QED
      BY <2>1, <3>1 DEF KernelTyped
  <2>5. KernelTyped' /\ DatasTyped'
    BY <2>1, <2>3, <2>4 DEF KernelTyped, DatasTyped
  <2>6. QED
    BY <1>a, <1>c, <2>1, <2>5
<1>5. ASSUME NEW f \in Fibers, NEW fd \in Fds, NEW arg \in BOOLEAN, ioctl(f, fd, arg)
      PROVE  Typed'
  <2>1. /\ nonblock' = [nonblock EXCEPT ![fd] = arg] /\ UNCHANGED fiber
        /\ UNCHANGED <<file, opens, m_datas, dataSize, s_connect_timeout, waiting, scheduled,
                       timers>>
    BY <1>5 DEF ioctl, SetsOption, Idle, fds
  <2>2. KernelTyped' /\ DatasTyped'
    BY <2>1 DEF KernelTyped, DatasTyped
  <2>3. QED
    BY <1>a, <1>c, <2>1, <2>2
<1>6. ASSUME NEW f \in Fibers, NEW fd \in Fds, NEW e \in Events, NEW v \in {Never, "timeout"},
             setsockopt(f, fd, e, v)
      PROVE  Typed'
  <2>1. /\ m_datas' = [m_datas EXCEPT ![fd].timeout[e] = v] /\ UNCHANGED fiber
        /\ UNCHANGED <<file, opens, nonblock, dataSize, s_connect_timeout, waiting, scheduled,
                       timers>>
    BY <1>6 DEF setsockopt, SetsOption, Idle
  <2>2. m_datas[fd] \in FdCtxs
    BY <1>6 DEF setsockopt, get, DatasTyped
  <2>3. [m_datas[fd] EXCEPT !.timeout[e] = v] \in FdCtxs
    BY <2>2 DEF FdCtxs
  <2>4. KernelTyped' /\ DatasTyped'
    BY <2>1, <2>2, <2>3 DEF KernelTyped, DatasTyped
  <2>5. QED
    BY <1>a, <1>c, <2>1, <2>4
<1>7. ASSUME NEW f \in Fibers, NEW fd \in Fds, NEW e \in Events, NEW hooked \in BOOLEAN,
             Original(f, fd, e, hooked)
      PROVE  Typed'
  <2>1. KernelTyped' /\ DatasTyped'
    BY <1>7 DEF Original, KernelTyped, DatasTyped, fds
  <2>2. QED
    BY <1>7, <1>a, <1>c, <2>1 DEF Original
<1>8. ASSUME NEW f \in Fibers, NEW fd \in Fds, NEW e \in Events,
             NEW name \in {"read", "accept", "write"}, do_io(f, name, fd, e)
      PROVE  Typed'
  <2> DEFINE c == [name |-> name, fd |-> fd, event |-> e,
                   to |-> get(fd).timeout[e], expired |-> FALSE, file |-> opens[fd]]
  <2>1. m_datas[fd] \in FdCtxs /\ get(fd) = m_datas[fd]
    BY <1>8 DEF do_io, CallsOriginal, get, DatasTyped
  <2>2. get(fd).timeout[e] \in {Never, "timeout"}
    BY <2>1 DEF FdCtxs
  <2>3. c \in Calls /\ c.fd = fd /\ c.event = e
    BY <2>2, CallTyped
  <2>4. Begins(f, "try", c)
    BY <1>8 DEF do_io
  <2> HIDE DEF c
  <2>5. FiberTyped' /\ CallKnown'
    BY <2>3, <2>4, BeginsTyped DEF Pcs
  <2>6. QED
    BY <1>8, <1>a, <1>b, <2>5 DEF do_io
<1>9. ASSUME NEW f \in Fibers, NEW fd \in Fds, connect(f, fd) PROVE Typed'
  <2> DEFINE c == [name |-> "connect", fd |-> fd, event |-> "WRITE",
                   to |-> s_connect_timeout, expired |-> FALSE, file |-> opens[fd]]
  <2>1. c \in Calls /\ c.fd = fd /\ c.event \in Events
    BY CallTyped DEF DatasTyped, Events
  <2>2. Begins(f, "run", NoCall) \/ Begins(f, "arm", c)
    BY <1>9 DEF connect
  <2> HIDE DEF c
  <2>3. FiberTyped' /\ CallKnown'
    <3>1. CASE Begins(f, "run", NoCall)
      BY <3>1, NoCallTyped, BeginsTyped DEF Pcs, InCall
    <3>2. CASE Begins(f, "arm", c)
      BY <2>1, <3>2, BeginsTyped DEF Pcs
    <3>3. QED
      BY <2>2, <3>1, <3>2
  <2>4. QED
    BY <1>9, <1>a, <1>b, <2>3 DEF connect
<1>10. ASSUME NEW f \in Fibers, Try(f) PROVE Typed'
  <2>1. UNCHANGED <<s_connect_timeout, waiting, scheduled, timers>> /\ pc[f] = "try"
    BY <1>10 DEF Try
  <2>2. FiberTyped' /\ CallKnown'
    <3>1. CASE Return(f)
      BY <3>1, ReturnTyped
    <3>2. ASSUME NEW where \in {"arm", "blocked"}, Goto(f, where) PROVE FiberTyped' /\ CallKnown'
      BY <2>1, <3>2, GotoTyped DEF Pcs, InCall
    <3>3. QED
      BY <1>10, <3>1, <3>2 DEF Try
  <2>3. KernelTyped' /\ DatasTyped'
    <3>1. CASE UNCHANGED <<kernel, fds>>
      BY <1>b, <2>1, <3>1
    <3>2. CASE UNCHANGED <<file, opens, nonblock, readies, options, fds>>
      BY <2>1, <3>2 DEF KernelTyped, DatasTyped, fds
    <3>3. CASE \E new \in Fds : Open(new, TRUE)
      BY <2>1, <3>3, OpenTyped
    <3>4. QED
      BY <1>10, <3>1, <3>2, <3>3 DEF Try
  <2>4. QED
    BY <1>a, <2>1, <2>2, <2>3
<1>11. ASSUME NEW f \in Fibers, AddConditionTimer(f) PROVE Typed'
  <2> DEFINE t == [fiber |-> f, call |-> calls[f], fd |-> call[f].fd,
                   event |-> call[f].event, kind |-> "io", state |-> "pending"]
  <2>1. pc[f] = "arm" /\ Goto(f, "add") /\ timers' \in {timers, timers \union {t}}
        /\ UNCHANGED <<kernel, fds, s_connect_timeout, waiting, scheduled>>
    BY <1>11 DEF AddConditionTimer
  <2>2. call[f].fd \in Fds /\ call[f].event \in Events /\ calls[f] \in Nat
    BY <2>1 DEF CallKnown, InCall, FiberTyped
  <2>3. t \in Timers /\ t.fd \in Fds
    BY <2>2 DEF Timers
  <2> HIDE DEF t
  <2>4. WaitTyped' /\ IoTimerKnown'
    BY <2>1, <2>3 DEF WaitTyped, IoTimerKnown
  <2>5. FiberTyped' /\ CallKnown'
    BY <2>1, GotoTyped DEF Pcs, InCall
  <2>6. QED
    BY <1>b, <2>1, <2>4, <2>5
<1>12. ASSUME NEW f \in Fibers, AddEvent(f) PROVE Typed'
  <2>1. pc[f] = "add" /\ UNCHANGED <<kernel, fds, s_connect_timeout, scheduled>>
    BY <1>12 DEF AddEvent
  <2>2. call[f].fd \in Fds /\ call[f].event \in Events
    BY <2>1 DEF CallKnown, InCall
  <2>3. FiberTyped' /\ CallKnown'
    <3>1. CASE Return(f)
      BY <3>1, ReturnTyped
    <3>2. ASSUME NEW where \in {"getsockopt", "wait"}, Goto(f, where) PROVE FiberTyped' /\ CallKnown'
      BY <2>1, <3>2, GotoTyped DEF Pcs, InCall
    <3>3. QED
      BY <1>12, <3>1, <3>2 DEF AddEvent
  <2>4. timers' \subseteq timers
        /\ waiting' \in {waiting, [waiting EXCEPT ![call[f].fd][call[f].event] = f]}
    BY <1>12 DEF AddEvent, cancelTimer
  <2>5. WaitTyped' /\ IoTimerKnown'
    BY <2>1, <2>2, <2>4 DEF WaitTyped, IoTimerKnown
  <2>6. QED
    BY <1>b, <2>1, <2>3, <2>5
<1>13. ASSUME NEW f \in Fibers, Resume(f) PROVE Typed'
  <2>1. pc[f] = "wait" /\ UNCHANGED <<kernel, fds, s_connect_timeout, waiting>>
        /\ timers' \subseteq timers /\ scheduled' \subseteq scheduled
    BY <1>13 DEF Resume, cancelTimer
  <2>2. FiberTyped' /\ CallKnown'
    <3>1. CASE Return(f)
      BY <3>1, ReturnTyped
    <3>2. ASSUME NEW where \in {"getsockopt", "try"}, Goto(f, where) PROVE FiberTyped' /\ CallKnown'
      BY <2>1, <3>2, GotoTyped DEF Pcs, InCall
    <3>3. QED
      BY <1>13, <3>1, <3>2 DEF Resume
  <2>3. WaitTyped' /\ IoTimerKnown'
    BY <2>1 DEF WaitTyped, IoTimerKnown
  <2>4. QED
    BY <1>b, <2>1, <2>2, <2>3
<1>14. ASSUME NEW f \in Fibers, getsockopt(f) PROVE Typed'
  BY <1>14, <1>a, <1>b, ReturnTyped DEF getsockopt
<1>15. ASSUME NEW f \in Fibers, sleep(f) PROVE Typed'
  <2> DEFINE t == [fiber |-> f, call |-> calls[f] + 1, fd |-> None,
                   event |-> "READ", kind |-> "sleep", state |-> "pending"]
             c == [NoCall EXCEPT !.name = "sleep"]
  <2>1. Begins(f, "sleep", c) /\ timers' = timers \union {t}
        /\ UNCHANGED <<kernel, fds, s_connect_timeout, waiting, scheduled>>
    BY <1>15 DEF sleep
  <2>2. t \in Timers /\ t.kind = "sleep"
    BY DEF Timers, FiberTyped, Events
  <2>3. c \in Calls
    BY DEF NoCall, Calls, Events, Never
  <2> HIDE DEF t, c
  <2>4. WaitTyped' /\ IoTimerKnown'
    BY <2>1, <2>2 DEF WaitTyped, IoTimerKnown
  <2>5. FiberTyped' /\ CallKnown'
    BY <2>1, <2>3, BeginsTyped DEF Pcs, InCall
  <2>6. QED
    BY <1>b, <2>1, <2>4, <2>5
<1>16. ASSUME NEW f \in Fibers, SleepEnds(f) PROVE Typed'
  <2>1. UNCHANGED <<kernel, fds, s_connect_timeout, waiting, timers>> /\ Return(f)
        /\ scheduled' \subseteq scheduled
    BY <1>16 DEF SleepEnds
  <2>2. WaitTyped' /\ IoTimerKnown'
    BY <2>1 DEF WaitTyped, IoTimerKnown
  <2>3. QED
    BY <1>b, <2>1, <2>2, ReturnTyped
<1>17. ASSUME NEW fd \in Fds, NEW e \in Events, BecomesReady(fd, e) PROVE Typed'
  <2>1. KernelTyped' /\ DatasTyped'
    BY <1>17 DEF BecomesReady, KernelTyped, DatasTyped, fds
  <2>2. QED
    BY <1>17, <1>a, <1>c, <2>1 DEF BecomesReady
<1>18. ASSUME NEW fd \in Fds, NEW e \in Events, Trigger(fd, e) PROVE Typed'
  <2>1. WaitTyped' /\ IoTimerKnown'
    BY <1>18, WakeTyped DEF Trigger, WaitTyped, IoTimerKnown
  <2>2. QED
    BY <1>18, <1>b, <1>c, <2>1 DEF Trigger
<1>19. ASSUME NEW t \in timers, Expire(t) PROVE Typed'
  <2>1. /\ timers' = (timers \ {t}) \union {[t EXCEPT !.state = "listed"]}
        /\ call' = [call EXCEPT ![t.fiber].expired = @ \/ t.call = calls[t.fiber]]
        /\ UNCHANGED <<kernel, fds, s_connect_timeout, pc, tinfo, calls, waiting, scheduled>>
    BY <1>19 DEF Expire
  <2>2. /\ t.fiber \in Fibers /\ [t EXCEPT !.state = "listed"] \in Timers
        /\ [t EXCEPT !.state = "listed"].kind = t.kind
        /\ [t EXCEPT !.state = "listed"].fd = t.fd
    BY TimersTyped
  <2>3. WaitTyped' /\ IoTimerKnown'
    BY <2>1, <2>2 DEF WaitTyped, IoTimerKnown
  <2>4. ASSUME NEW b \in BOOLEAN, NEW c \in Calls
        PROVE  /\ [c EXCEPT !.expired = c.expired \/ b] \in Calls
               /\ [c EXCEPT !.expired = c.expired \/ b].fd = c.fd
               /\ [c EXCEPT !.expired = c.expired \/ b].event = c.event
    BY DEF Calls
  <2>5. call'[t.fiber] = [call[t.fiber] EXCEPT !.expired = call[t.fiber].expired \/ t.call = calls[t.fiber]]
        /\ \A f \in Fibers : f # t.fiber => call'[f] = call[f]
    BY <2>1, <2>2 DEF FiberTyped
  <2>6. FiberTyped'
    BY <2>1, <2>2, <2>4 DEF FiberTyped
  <2>7. CallKnown'
    <3>1. \A f \in Fibers : call'[f].fd = call[f].fd /\ call'[f].event = call[f].event
      <4>1. /\ call'[t.fiber].fd = call[t.fiber].fd
            /\ call'[t.fiber].event = call[t.fiber].event
        BY <2>2, <2>5 DEF FiberTyped, Calls
      <4>2. QED
        BY <2>5, <4>1
    <3>2. QED
      BY <2>1, <3>1 DEF CallKnown
  <2>8. QED
    BY <1>b, <2>1, <2>3, <2>6, <2>7
<1>20. ASSUME NEW t \in timers, OnTimer(t) PROVE Typed'
  <2>1. /\ timers' = timers \ {t}
        /\ UNCHANGED <<kernel, fds, s_connect_timeout, pc, call, calls>>
        /\ tinfo' \in {tinfo, [tinfo EXCEPT ![t.fiber] = 1]}
        /\ \/ scheduled' \in {scheduled, scheduled \union {t.fiber}} /\ UNCHANGED waiting
           \/ t.kind # "sleep" /\ Wake(t.fd, t.event)
    BY <1>20 DEF OnTimer
  <2>2. /\ t.fiber \in Fibers /\ t.event \in Events /\ t.kind \in {"io", "sleep"}
    BY TimersTyped DEF Timers
  <2>3. t.kind # "sleep" => t.fd \in Fds
    BY <2>2 DEF IoTimerKnown
  <2>4. waiting' \in [Fds -> [Events -> Fibers \union {None}]] /\ scheduled' \subseteq Fibers
    BY <2>1, <2>2, <2>3, WakeTyped DEF WaitTyped
  <2>5. WaitTyped' /\ IoTimerKnown'
    BY <2>1, <2>4 DEF WaitTyped, IoTimerKnown
  <2>6. FiberTyped' /\ CallKnown'
    BY <2>1 DEF FiberTyped, CallKnown
  <2>7. QED
    BY <1>b, <2>1, <2>5, <2>6
<1>21. ASSUME NEW v \in {Never, "timeout"}, ConnectTimeoutChanges(v) PROVE Typed'
  <2>1. KernelTyped' /\ DatasTyped'
    BY <1>21 DEF ConnectTimeoutChanges, KernelTyped, DatasTyped, fds
  <2>2. QED
    BY <1>21, <1>a, <1>c, <2>1 DEF ConnectTimeoutChanges
<1>30. ASSUME NEW f \in Fibers, NEW fd \in Fds, NEW hooked \in BOOLEAN,
              OriginalAccept(f, fd, hooked)
       PROVE  Typed'
  BY <1>1, <1>30 DEF OriginalAccept, socket
<1>31. ASSUME NEW f \in Fibers, CallsItself(f) PROVE Typed'
  <2>1. FiberTyped' /\ CallKnown'
    BY <1>31, NoCallTyped, BeginsTyped DEF CallsItself, Pcs, InCall
  <2>2. KernelTyped' /\ DatasTyped'
    BY <1>31 DEF CallsItself, kernel, fds, KernelTyped, DatasTyped
  <2>3. QED
    BY <1>31, <1>a, <2>1, <2>2 DEF CallsItself
<1>22. CASE UNCHANGED vars
  BY <1>22, <1>a, <1>b, <1>c DEF vars
<1>23. QED
  <2>1. ASSUME NEW f \in Fibers, NEW fd \in Fds,
               do_io(f, "read", fd, "READ") \/ do_io(f, "accept", fd, "READ")
               \/ do_io(f, "write", fd, "WRITE")
        PROVE  Typed'
    BY <1>8, <2>1 DEF Events
  <2>2. ASSUME NEW f \in Fibers, FiberStep(f) PROVE Typed'
    BY <1>1, <1>2, <1>3, <1>4, <1>5, <1>6, <1>7, <1>9, <1>10, <1>11, <1>12, <1>13, <1>14,
       <1>15, <1>16, <2>1, <2>2, <1>30, <1>31 DEF FiberStep
  <2>3. QED
    BY <1>17, <1>18, <1>19, <1>20, <1>21, <1>22, <2>2 DEF Next

-----------------------------------------------------------------------------
(* One wake-up for a fiber that yielded.                                   *)

\* Fibers leave slots only into scheduled, and only they enter it.
Woken ==
    /\ \A fd \in Fds, e \in Events :
         \/ waiting'[fd][e] = waiting[fd][e]
         \/ waiting'[fd][e] = None /\ (waiting[fd][e] = None \/ waiting[fd][e] \in scheduled')
    /\ scheduled \subseteq scheduled'
    /\ \A g \in scheduled' : \/ g \in scheduled
                             \/ \E fd \in Fds, e \in Events :
                                   waiting[fd][e] = g /\ waiting'[fd][e] # g
\* At most f moves, from outside a wait to outside it, and keeps its call to itself.
SameCall(g) == call'[g].fd = call[g].fd /\ call'[g].event = call[g].event
               /\ call'[g].name = call[g].name
Moves(f) ==
    /\ \A g \in Fibers : g # f => pc'[g] = pc[g] /\ SameCall(g)
    /\ f \in Fibers =>
         /\ pc[f] \notin {"wait", "sleep"} /\ pc'[f] # "wait"
         /\ call'[f].event = "none" => call'[f].name = "close"
         /\ call'[f].fd # None =>
              \A g \in Fibers : g # f => ~(call[g].fd = call'[f].fd /\ call[g].event = call'[f].event)
SleepTimersKept == \A t \in timers' : t.kind = "sleep" => t \in timers

\* Waking and moving on keep the wake-ups exact.
LEMMA MovesWake ==
    ASSUME Typed, WakeInv, NEW f, Woken, Moves(f), SleepTimersKept
    PROVE  WakeInv'
<1>1. None \notin Fibers /\ waiting \in [Fds -> [Events -> Fibers \union {None}]]
      /\ scheduled \subseteq Fibers /\ \A t \in timers : t.fiber \in Fibers
  BY HookAssumption DEF Typed, WaitTyped, Timers
<1>2. ASSUME NEW g \in Fibers, pc[g] = "wait" PROVE g # f /\ pc'[g] = "wait" /\ SameCall(g)
  BY <1>2 DEF Moves
<1>3. ASSUME NEW g \in Fibers, pc'[g] = "wait" PROVE pc[g] = "wait" /\ SameCall(g)
  BY <1>3 DEF Moves
<1>4. SlotOfCall'
  <2> SUFFICES ASSUME NEW fd \in Fds, NEW e \in Events, NEW g \in Fibers, waiting'[fd][e] = g
               PROVE  pc'[g] = "wait" /\ g \notin scheduled' /\ call'[g].fd = fd /\ call'[g].event = e
    BY DEF SlotOfCall
  <2>1. waiting[fd][e] = g
    BY <1>1 DEF Woken
  <2>2. pc[g] = "wait" /\ g \notin scheduled /\ call[g].fd = fd /\ call[g].event = e
    BY <2>1 DEF WakeInv, SlotOfCall
  <2>3. ASSUME NEW b \in Fds, NEW d \in Events, waiting[b][d] = g PROVE b = fd /\ d = e
    BY <2>2, <2>3 DEF WakeInv, SlotOfCall
  <2>4. g \notin scheduled'
    BY <2>2, <2>3 DEF Woken
  <2>5. QED
    BY <1>2, <2>2, <2>4 DEF SameCall
<1>5. NotLost'
  <2> SUFFICES ASSUME NEW g \in Fibers, pc'[g] = "wait", g \notin scheduled'
               PROVE  waiting'[call'[g].fd][call'[g].event] = g
    BY DEF NotLost
  <2>1. pc[g] = "wait" /\ call'[g].fd = call[g].fd /\ call'[g].event = call[g].event
        /\ g \notin scheduled
    BY <1>3 DEF SameCall, Woken
  <2>2. waiting[call[g].fd][call[g].event] = g
    BY <2>1 DEF WakeInv, NotLost
  <2>3. call[g].fd \in Fds /\ call[g].event \in Events
    BY <2>1 DEF Typed, CallKnown, InCall
  <2>4. waiting'[call[g].fd][call[g].event] = g
    BY <1>1, <2>2, <2>3 DEF Woken
  <2>5. QED
    BY <2>1, <2>4
<1>6. ScheduledYielded'
  <2> SUFFICES ASSUME NEW g \in scheduled' PROVE pc'[g] \in {"wait", "sleep"}
    BY DEF ScheduledYielded
  <2>1. g \in Fibers /\ pc[g] \in {"wait", "sleep"}
    BY <1>1 DEF Woken, WakeInv, SlotOfCall, ScheduledYielded, Typed, WaitTyped
  <2>2. QED
    BY <2>1 DEF Moves
<1>7. OneUser'
  <2> SUFFICES ASSUME NEW g \in Fibers, NEW h \in Fibers, g # h, call'[g].fd # None,
                      call'[h].fd = call'[g].fd, call'[h].event = call'[g].event
               PROVE  FALSE
    BY DEF OneUser
  <2>1. CASE g # f /\ h # f
    <3>1. SameCall(g) /\ SameCall(h)
      BY <2>1 DEF Moves
    <3>2. QED
      BY <3>1 DEF SameCall, WakeInv, OneUser
  <2>2. CASE g = f
    BY <2>2 DEF Moves, SameCall
  <2>3. CASE h = f
    BY <2>3 DEF Moves, SameCall
  <2>4. QED
    BY <2>1, <2>2, <2>3
<1>8. SleepTimer'
  <2>1. ASSUME NEW t \in timers', t.kind = "sleep"
        PROVE  pc'[t.fiber] = "sleep" /\ t.fiber \notin scheduled'
    <3>1. t \in timers /\ t.fiber \in Fibers
      BY <1>1, <2>1 DEF SleepTimersKept
    <3>2. pc[t.fiber] = "sleep" /\ t.fiber \notin scheduled
      BY <2>1, <3>1 DEF WakeInv, SleepTimer
    <3>3. pc'[t.fiber] = "sleep"
      BY <3>1, <3>2 DEF Moves
    <3>4. \A b \in Fds, d \in Events : waiting[b][d] # t.fiber
      BY <3>1, <3>2 DEF WakeInv, SlotOfCall
    <3>5. QED
      BY <3>2, <3>3, <3>4 DEF Woken
  <2>2. QED
    BY <2>1 DEF WakeInv, SleepTimer, SleepTimersKept
<1>9. CloseEvent'
  BY DEF WakeInv, CloseEvent, Moves, SameCall
<1>10. QED
  BY <1>4, <1>5, <1>6, <1>7, <1>8, <1>9 DEF WakeInv

\* Nothing moves.
LEMMA FrameWake ==
    ASSUME WakeInv, UNCHANGED <<pc, call, waiting, scheduled, timers>>
    PROVE  WakeInv'
BY DEF WakeInv, SlotOfCall, NotLost, ScheduledYielded, OneUser, SleepTimer, CloseEvent

\* addEvent and YieldToHold: the slot is free, since nobody else uses the event.
LEMMA AddEventWake ==
    ASSUME Typed, WakeInv, NEW f \in Fibers, AddEvent(f)
    PROVE  WakeInv'
<1> DEFINE c == call[f]
<1>1. /\ pc[f] = "add" /\ c.fd \in Fds /\ c.event \in Events /\ None \notin Fibers \union Fds
      /\ waiting \in [Fds -> [Events -> Fibers \union {None}]]
      /\ pc \in [Fibers -> Pcs] /\ call \in [Fibers -> Calls]
      /\ scheduled' = scheduled
  BY HookAssumption DEF AddEvent, Typed, WaitTyped, FiberTyped, CallKnown, InCall
<1>2. CASE file[c.fd] = "none"
  <2>1. /\ waiting' = waiting /\ timers' \subseteq timers
        /\ Goto(f, "getsockopt") \/ Return(f)
    BY <1>2 DEF AddEvent, cancelTimer
  <2>2. Woken /\ SleepTimersKept
    BY <1>1, <2>1 DEF Woken, SleepTimersKept
  <2>3. Moves(f)
    <3>1. CASE Goto(f, "getsockopt")
      BY <1>1, <3>1 DEF Goto, Moves, SameCall, WakeInv, OneUser, CloseEvent
    <3>2. CASE Return(f)
      <4>1. call'[f] = NoCall /\ pc'[f] = "run"
        BY <1>1, <3>2 DEF Return
      <4>2. \A g \in Fibers : g # f => pc'[g] = pc[g] /\ call'[g] = call[g]
        BY <1>1, <3>2 DEF Return
      <4>3. QED
        BY <1>1, <4>1, <4>2 DEF Moves, SameCall, NoCall
    <3>3. QED
      BY <2>1, <3>1, <3>2
  <2>4. QED
    BY <2>2, <2>3, MovesWake
<1>3. CASE file[c.fd] # "none"
  <2>1. /\ waiting' = [waiting EXCEPT ![c.fd][c.event] = f]
        /\ pc' = [pc EXCEPT ![f] = "wait"] /\ UNCHANGED <<call, timers, scheduled>>
    BY <1>3 DEF AddEvent, Goto
  <2>2. \A b \in Fds, d \in Events :
           waiting'[b][d] = IF b = c.fd /\ d = c.event THEN f ELSE waiting[b][d]
    BY <1>1, <2>1
  <2>3. f \notin scheduled /\ \A b \in Fds, d \in Events : waiting[b][d] # f
    BY <1>1 DEF WakeInv, SlotOfCall, ScheduledYielded
  <2>4. waiting[c.fd][c.event] = None
    <3> SUFFICES ASSUME NEW g \in Fibers, waiting[c.fd][c.event] = g PROVE FALSE
      BY <1>1
    <3>1. g # f /\ call[g].fd = c.fd /\ call[g].event = c.event
      BY <1>1, <2>3 DEF WakeInv, SlotOfCall
    <3>2. QED
      BY <1>1, <3>1 DEF WakeInv, OneUser
  <2>5. \A g \in Fibers : pc'[g] = IF g = f THEN "wait" ELSE pc[g]
    BY <1>1, <2>1
  <2>6. SlotOfCall'
    BY <2>1, <2>2, <2>3, <2>5 DEF WakeInv, SlotOfCall
  <2>7. NotLost'
    <3> SUFFICES ASSUME NEW g \in Fibers, pc'[g] = "wait", g \notin scheduled
                 PROVE  waiting'[call[g].fd][call[g].event] = g
      BY <2>1 DEF NotLost
    <3>1. CASE g = f
      BY <1>1, <2>2, <3>1
    <3>2. CASE g # f
      <4>1. pc[g] = "wait"
        BY <2>5, <3>2
      <4>2. call[g].fd \in Fds /\ call[g].event \in Events
            /\ waiting[call[g].fd][call[g].event] = g
        BY <4>1 DEF Typed, CallKnown, InCall, WakeInv, NotLost
      <4>3. QED
        BY <1>1, <2>2, <2>4, <4>2
    <3>3. QED
      BY <3>1, <3>2
  <2>8. ScheduledYielded' /\ SleepTimer' /\ OneUser' /\ CloseEvent'
    <3>1. ScheduledYielded'
      BY <2>1, <2>3, <2>5 DEF WakeInv, ScheduledYielded, Typed, WaitTyped
    <3>2. OneUser' /\ CloseEvent'
      BY <2>1 DEF WakeInv, OneUser, CloseEvent
    <3>3. SleepTimer'
      <4>1. \A t \in timers : t.fiber \in Fibers
        BY DEF Typed, WaitTyped, Timers
      <4>2. QED
        BY <1>1, <2>1, <2>5, <4>1 DEF WakeInv, SleepTimer
    <3>4. QED
      BY <3>1, <3>2, <3>3
  <2>9. QED
    BY <2>6, <2>7, <2>8 DEF WakeInv
<1>4. QED
  BY <1>2, <1>3

\* run() takes a yielded fiber out of scheduled and it goes on.
LEMMA LeavesScheduled ==
    ASSUME Typed, WakeInv, NEW f \in scheduled, pc'[f] \notin {"wait", "sleep"},
           \A g \in Fibers : g # f => pc'[g] = pc[g] /\ call'[g] = call[g],
           call'[f] = call[f] \/ call'[f] = NoCall,
           scheduled' = scheduled \ {f}, waiting' = waiting, timers' \subseteq timers
    PROVE  WakeInv'
<1>1. /\ f \in Fibers /\ pc[f] \in {"wait", "sleep"} /\ None \notin Fibers \union Fds
      /\ \A t \in timers : t.fiber \in Fibers
  BY HookAssumption DEF Typed, WaitTyped, Timers, WakeInv, ScheduledYielded
<1>2. \A b \in Fds, d \in Events : waiting[b][d] # f
  BY <1>1 DEF WakeInv, SlotOfCall
<1>3. SlotOfCall'
  BY <1>1, <1>2 DEF WakeInv, SlotOfCall
<1>4. NotLost'
  BY <1>1 DEF WakeInv, NotLost
<1>5. ScheduledYielded'
  BY <1>1 DEF WakeInv, ScheduledYielded, Typed, WaitTyped
<1>6. OneUser' /\ CloseEvent'
  BY <1>1 DEF WakeInv, OneUser, CloseEvent, NoCall
<1>7. SleepTimer'
  <2>1. \A t \in timers : t.kind = "sleep" => t.fiber # f
    BY DEF WakeInv, SleepTimer
  <2>2. QED
    BY <1>1, <2>1 DEF WakeInv, SleepTimer
<1>8. QED
  BY <1>3, <1>4, <1>5, <1>6, <1>7 DEF WakeInv

\* A timer goes from the set to the list: only its state changes.
LEMMA ExpireWake ==
    ASSUME Typed, WakeInv, NEW t \in timers, Expire(t)
    PROVE  WakeInv'
<1> DEFINE u == [t EXCEPT !.state = "listed"]
<1>1. /\ timers' = (timers \ {t}) \union {u}
      /\ call' = [call EXCEPT ![t.fiber].expired = @ \/ t.call = calls[t.fiber]]
      /\ UNCHANGED <<pc, waiting, scheduled>>
  BY DEF Expire
<1>2. t.fiber \in Fibers /\ u.fiber = t.fiber /\ u.kind = t.kind
  BY TimersTyped DEF Typed
<1>3. \A g \in Fibers : /\ call'[g].fd = call[g].fd /\ call'[g].event = call[g].event
                        /\ call'[g].name = call[g].name
  <2>1. \A g \in Fibers : g # t.fiber => call'[g] = call[g]
    BY <1>1, <1>2 DEF Typed, FiberTyped
  <2>2. call'[t.fiber] = [call[t.fiber] EXCEPT !.expired = @ \/ t.call = calls[t.fiber]]
    BY <1>1, <1>2 DEF Typed, FiberTyped
  <2>3. /\ call'[t.fiber].fd = call[t.fiber].fd /\ call'[t.fiber].event = call[t.fiber].event
        /\ call'[t.fiber].name = call[t.fiber].name
    BY <1>2, <2>2 DEF Typed, FiberTyped, Calls
  <2>4. QED
    BY <2>1, <2>3
<1> HIDE DEF u
<1>4. SlotOfCall' /\ NotLost' /\ ScheduledYielded' /\ OneUser' /\ CloseEvent'
  <2>1. SlotOfCall'
    BY <1>1, <1>3 DEF WakeInv, SlotOfCall
  <2>2. NotLost'
    BY <1>1, <1>3 DEF WakeInv, NotLost
  <2>3. ScheduledYielded'
    BY <1>1 DEF WakeInv, ScheduledYielded
  <2>4. OneUser' /\ CloseEvent'
    BY <1>3 DEF WakeInv, OneUser, CloseEvent
  <2>5. QED
    BY <2>1, <2>2, <2>3, <2>4
<1>5. SleepTimer'
  BY <1>1, <1>2 DEF WakeInv, SleepTimer
<1>6. QED
  BY <1>4, <1>5 DEF WakeInv

\* Wake(fd, event) moves whoever is in the slot.
LEMMA WakeWoken ==
    ASSUME Typed, NEW fd \in Fds, NEW e \in Events, Wake(fd, e)
    PROVE  Woken
<1>1. waiting \in [Fds -> [Events -> Fibers \union {None}]] /\ None \notin Fibers
  BY HookAssumption DEF Typed, WaitTyped
<1>2. /\ \A b \in Fds, d \in Events :
            waiting'[b][d] = IF b = fd /\ d = e THEN None ELSE waiting[b][d]
      /\ scheduled' = scheduled \union ({waiting[fd][e]} \ {None})
  BY <1>1 DEF Wake
<1>3. QED
  BY <1>1, <1>2 DEF Woken

\* A timer's callback: of a sleep, of an io timer whose call has gone, or of
\* one that times out.
LEMMA OnTimerWake ==
    ASSUME Typed, WakeInv, NEW t \in timers, OnTimer(t)
    PROVE  WakeInv'
<1>1. /\ timers' = timers \ {t} /\ UNCHANGED <<pc, call>>
      /\ t.fiber \in Fibers /\ t.event \in Events /\ t.kind \in {"io", "sleep"}
      /\ None \notin Fibers /\ \A u \in timers : u.fiber \in Fibers
  BY TimersTyped, HookAssumption DEF OnTimer, Typed, Timers, WaitTyped
<1>2. CASE t.kind = "sleep"
  <2>1. scheduled' = scheduled \union {t.fiber} /\ waiting' = waiting
    BY <1>2 DEF OnTimer
  <2>2. pc[t.fiber] = "sleep" /\ t.fiber \notin scheduled
    BY <1>2 DEF WakeInv, SleepTimer
  <2>3. SlotOfCall' /\ NotLost'
    BY <1>1, <2>1, <2>2 DEF WakeInv, SlotOfCall, NotLost
  <2>4. ScheduledYielded' /\ OneUser' /\ CloseEvent'
    BY <1>1, <2>1, <2>2 DEF WakeInv, ScheduledYielded, OneUser, CloseEvent
  <2>5. SleepTimer'
    BY <1>1, <1>2, <2>1 DEF WakeInv, SleepTimer
  <2>6. QED
    BY <2>3, <2>4, <2>5 DEF WakeInv
<1>3. CASE t.kind # "sleep"
  <2>1. Woken
    <3>1. CASE UNCHANGED <<waiting, scheduled>>
      BY <3>1 DEF Woken
    <3>2. CASE Wake(t.fd, t.event)
      <4>1. t.fd \in Fds
        BY <1>1, <1>3 DEF Typed, IoTimerKnown
      <4>2. QED
        BY <1>1, <3>2, <4>1, WakeWoken
    <3>3. QED
      BY <1>3, <3>1, <3>2 DEF OnTimer
  <2>2. Moves(None) /\ SleepTimersKept
    BY <1>1 DEF Moves, SameCall, SleepTimersKept
  <2>3. QED
    BY <2>1, <2>2, MovesWake
<1>4. QED
  BY <1>2, <1>3

\* sleep: the timer is there before the fiber yields.
LEMMA SleepWake ==
    ASSUME Typed, WakeInv, NEW f \in Fibers, sleep(f)
    PROVE  WakeInv'
<1> DEFINE t == [fiber |-> f, call |-> calls[f] + 1, fd |-> None,
                 event |-> "READ", kind |-> "sleep", state |-> "pending"]
           c == [NoCall EXCEPT !.name = "sleep"]
<1>1. /\ pc[f] = "run" /\ pc' = [pc EXCEPT ![f] = "sleep"] /\ call' = [call EXCEPT ![f] = c]
      /\ timers' = timers \union {t} /\ UNCHANGED <<waiting, scheduled>>
  BY DEF sleep, Begins
<1>2. c.fd = None /\ c.event = "READ" /\ t.fiber = f
  BY DEF NoCall
<1> HIDE DEF t, c
<1>3. /\ \A g \in Fibers : pc'[g] = IF g = f THEN "sleep" ELSE pc[g]
      /\ \A g \in Fibers : call'[g] = IF g = f THEN c ELSE call[g]
      /\ \A u \in timers : u.fiber \in Fibers
      /\ None \notin Fibers /\ scheduled \subseteq Fibers
  BY <1>1, HookAssumption DEF Typed, FiberTyped, WaitTyped, Timers
<1>4. SlotOfCall' /\ NotLost'
  BY <1>1, <1>3 DEF WakeInv, SlotOfCall, NotLost
<1>5. ScheduledYielded' /\ f \notin scheduled
  BY <1>1, <1>3 DEF WakeInv, ScheduledYielded
<1>6. OneUser' /\ CloseEvent'
  BY <1>2, <1>3 DEF WakeInv, OneUser, CloseEvent
<1>7. SleepTimer'
  BY <1>1, <1>2, <1>3, <1>5 DEF WakeInv, SleepTimer
<1>8. QED
  BY <1>4, <1>5, <1>6, <1>7 DEF WakeInv

\* The ways in which a fiber that does not wait moves on.
LEMMA StepMoves ==
    ASSUME Typed, WakeInv, NEW f \in Fibers, pc[f] \notin {"wait", "sleep"}
    PROVE  /\ Return(f) => Moves(f)
           /\ \A where \in Pcs : where # "wait" /\ Goto(f, where) => Moves(f)
           /\ \A where \in Pcs, c \in Calls :
                /\ where # "wait" /\ Begins(f, where, c) /\ c.event # "none"
                /\ c.fd # None => \A g \in Fibers : g # f =>
                                    ~(call[g].fd = c.fd /\ call[g].event = c.event)
                => Moves(f)
<1>1. pc \in [Fibers -> Pcs] /\ call \in [Fibers -> Calls]
  BY DEF Typed, FiberTyped
<1>2. ASSUME Return(f) PROVE Moves(f)
  <2>1. call'[f] = NoCall /\ pc'[f] = "run"
    BY <1>1, <1>2 DEF Return
  <2>2. \A g \in Fibers : g # f => pc'[g] = pc[g] /\ call'[g] = call[g]
    BY <1>1, <1>2 DEF Return
  <2>3. QED
    BY <2>1, <2>2 DEF Moves, SameCall, NoCall
<1>3. ASSUME NEW where \in Pcs, where # "wait", Goto(f, where) PROVE Moves(f)
  BY <1>1, <1>3 DEF Goto, Moves, SameCall, WakeInv, OneUser, CloseEvent
<1>4. ASSUME NEW where \in Pcs, NEW c \in Calls, where # "wait", Begins(f, where, c),
             c.event # "none",
             c.fd # None => \A g \in Fibers : g # f =>
                                    ~(call[g].fd = c.fd /\ call[g].event = c.event)
      PROVE  Moves(f)
  <2>1. call'[f] = c /\ pc'[f] = where
    BY <1>1, <1>4 DEF Begins
  <2>2. \A g \in Fibers : g # f => pc'[g] = pc[g] /\ call'[g] = call[g]
    BY <1>1, <1>4 DEF Begins
  <2>3. QED
    BY <1>4, <2>1, <2>2 DEF Moves, SameCall
<1>5. QED
  BY <1>2, <1>3, <1>4

\* close wakes the waiters of both events of the descriptor.
LEMMA CloseWake ==
    ASSUME Typed, WakeInv, NEW f \in Fibers, NEW fd \in Fds, NEW hooked \in BOOLEAN,
           close(f, fd, hooked)
    PROVE  WakeInv'
<1>1. CASE hooked /\ get(fd) # None
  <2> DEFINE c == [NoCall EXCEPT !.name = "close", !.fd = fd, !.event = "none"]
  <2>1. /\ scheduled' = scheduled \union ({waiting[fd][e] : e \in Events} \ {None})
        /\ waiting' = [waiting EXCEPT ![fd] = [e \in Events |-> None]]
        /\ pc' = [pc EXCEPT ![f] = "close"] /\ call' = [call EXCEPT ![f] = c]
        /\ timers' = timers /\ pc[f] = "run" /\ ~Closing(fd)
    BY <1>1 DEF close
  <2>2. c.fd = fd /\ c.event = "none" /\ c.name = "close"
    BY DEF NoCall
  <2> HIDE DEF c
  <2>3. /\ waiting \in [Fds -> [Events -> Fibers \union {None}]] /\ None \notin Fibers
        /\ pc \in [Fibers -> Pcs] /\ call \in [Fibers -> Calls]
    BY HookAssumption DEF Typed, WaitTyped, FiberTyped
  <2>4. \A b \in Fds, d \in Events :
            waiting'[b][d] = IF b = fd THEN None ELSE waiting[b][d]
    BY <2>1, <2>3
  <2>5. Woken
    BY <2>1, <2>3, <2>4 DEF Woken
  <2>6. \A g \in Fibers : /\ pc'[g] = IF g = f THEN "close" ELSE pc[g]
                          /\ call'[g] = IF g = f THEN c ELSE call[g]
    BY <2>1, <2>3
  <2>7. \A g \in Fibers : ~(call[g].fd = fd /\ call[g].event = "none")
    BY <2>1 DEF Closing, WakeInv, CloseEvent
  <2>8. Moves(f) /\ SleepTimersKept
    BY <2>1, <2>2, <2>6, <2>7 DEF Moves, SameCall, SleepTimersKept
  <2>9. QED
    BY <2>5, <2>8, MovesWake
<1>2. CASE ~(hooked /\ get(fd) # None)
  BY <1>2, FrameWake DEF close
<1>3. QED
  BY <1>1, <1>2

\* Nobody waits at the start.
LEMMA InitWake == Init => WakeInv
BY HookAssumption DEF Init, WakeInv, SlotOfCall, NotLost, ScheduledYielded, OneUser,
   SleepTimer, CloseEvent, NoCall

\* Every step keeps the wake-ups exact.
LEMMA NextWake == Typed /\ WakeInv /\ [Next]_vars => WakeInv'
<1> SUFFICES ASSUME Typed, WakeInv, [Next]_vars PROVE WakeInv'
  OBVIOUS
<1>a. UNCHANGED <<waiting, scheduled>> => Woken
  BY DEF Woken
<1>b. timers' \subseteq timers => SleepTimersKept
  BY DEF SleepTimersKept
<1>1. ASSUME NEW f \in Fibers, NEW fd \in Fds, NEW hooked \in BOOLEAN, socket(f, fd, hooked)
      PROVE  WakeInv'
  BY <1>1, FrameWake DEF socket, Idle, fiber
<1>2. ASSUME NEW f \in Fibers, NEW fd \in Fds, NEW hooked \in BOOLEAN, close(f, fd, hooked)
      PROVE  WakeInv'
  BY <1>2, CloseWake
<1>3. ASSUME NEW f \in Fibers, close_f(f) PROVE WakeInv'
  <2>1. Moves(f)
    BY <1>3, StepMoves DEF close_f
  <2>2. QED
    BY <1>3, <1>a, <1>b, <2>1, MovesWake DEF close_f
<1>4. ASSUME NEW f \in Fibers, NEW fd \in Fds, NEW arg \in BOOLEAN, fcntl(f, fd, arg)
      PROVE  WakeInv'
  BY <1>4, FrameWake DEF fcntl, SetsOption, Idle, fiber
<1>5. ASSUME NEW f \in Fibers, NEW fd \in Fds, NEW arg \in BOOLEAN, ioctl(f, fd, arg)
      PROVE  WakeInv'
  BY <1>5, FrameWake DEF ioctl, SetsOption, Idle, fiber
<1>6. ASSUME NEW f \in Fibers, NEW fd \in Fds, NEW e \in Events, NEW v \in {Never, "timeout"},
             setsockopt(f, fd, e, v)
      PROVE  WakeInv'
  BY <1>6, FrameWake DEF setsockopt, SetsOption, Idle, fiber
<1>7. ASSUME NEW f \in Fibers, NEW fd \in Fds, NEW e \in Events, NEW hooked \in BOOLEAN,
             Original(f, fd, e, hooked)
      PROVE  WakeInv'
  BY <1>7, FrameWake DEF Original, fiber
<1>8. ASSUME NEW f \in Fibers, NEW fd \in Fds, NEW e \in Events,
             NEW name \in {"read", "accept", "write"}, do_io(f, name, fd, e)
      PROVE  WakeInv'
  <2> DEFINE c == [name |-> name, fd |-> fd, event |-> e,
                   to |-> get(fd).timeout[e], expired |-> FALSE, file |-> opens[fd]]
  <2>1. m_datas[fd] \in FdCtxs /\ get(fd) = m_datas[fd]
    BY <1>8 DEF do_io, CallsOriginal, get, Typed, DatasTyped
  <2>2. get(fd).timeout[e] \in {Never, "timeout"}
    BY <2>1 DEF FdCtxs
  <2>3. c \in Calls /\ c.fd = fd /\ c.event = e
    BY <2>2, CallTyped DEF Typed
  <2>4. Begins(f, "try", c) /\ pc[f] = "run"
    BY <1>8 DEF do_io, Begins
  <2>5. \A g \in Fibers : g # f => ~(call[g].fd = fd /\ call[g].event = e)
    BY <1>8 DEF do_io, Alone
  <2> HIDE DEF c
  <2>6. c.event # "none" /\ (c.fd # None => \A g \in Fibers : g # f =>
                                    ~(call[g].fd = c.fd /\ call[g].event = c.event))
    BY <2>3, <2>5 DEF Events
  <2>7. Moves(f)
    BY <2>3, <2>4, <2>6, StepMoves DEF Pcs
  <2>8. QED
    BY <1>8, <1>a, <1>b, <2>7, MovesWake DEF do_io
<1>9. ASSUME NEW f \in Fibers, NEW fd \in Fds, connect(f, fd) PROVE WakeInv'
  <2> DEFINE c == [name |-> "connect", fd |-> fd, event |-> "WRITE",
                   to |-> s_connect_timeout, expired |-> FALSE, file |-> opens[fd]]
  <2>1. c \in Calls /\ c.fd = fd /\ c.event = "WRITE"
    BY CallTyped DEF Typed, DatasTyped, Events
  <2>2. pc[f] = "run" /\ (Begins(f, "run", NoCall) \/ (Begins(f, "arm", c) /\ Alone(f, fd, "WRITE")))
    BY <1>9 DEF connect, Begins
  <2> HIDE DEF c
  <2>3. Moves(f)
    <3>1. CASE Begins(f, "run", NoCall)
      <4>1. NoCall.event # "none"
        BY DEF NoCall
      <4>2. QED
        BY <2>2, <3>1, <4>1, NoCallTyped, StepMoves DEF Pcs
    <3>2. CASE Begins(f, "arm", c) /\ Alone(f, fd, "WRITE")
      <4>1. c.event # "none" /\ (c.fd # None => \A g \in Fibers : g # f =>
                                    ~(call[g].fd = c.fd /\ call[g].event = c.event))
        BY <2>1, <3>2 DEF Alone
      <4>2. QED
        BY <2>1, <2>2, <3>2, <4>1, StepMoves DEF Pcs
    <3>3. QED
      BY <2>2, <3>1, <3>2
  <2>4. QED
    BY <1>9, <1>a, <1>b, <2>3, MovesWake DEF connect
<1>10. ASSUME NEW f \in Fibers, Try(f) PROVE WakeInv'
  <2>1. Moves(f)
    <3>1. pc[f] = "try" /\ (Return(f) \/ Goto(f, "arm") \/ Goto(f, "blocked"))
      BY <1>10 DEF Try
    <3>2. QED
      BY <3>1, StepMoves DEF Pcs
  <2>2. QED
    BY <1>10, <1>a, <1>b, <2>1, MovesWake DEF Try
<1>11. ASSUME NEW f \in Fibers, AddConditionTimer(f) PROVE WakeInv'
  <2> DEFINE t == [fiber |-> f, call |-> calls[f], fd |-> call[f].fd,
                   event |-> call[f].event, kind |-> "io", state |-> "pending"]
  <2>1. pc[f] = "arm" /\ Goto(f, "add") /\ timers' \in {timers, timers \union {t}}
        /\ UNCHANGED <<waiting, scheduled>>
    BY <1>11 DEF AddConditionTimer
  <2>2. Moves(f)
    BY <2>1, StepMoves DEF Pcs
  <2>3. SleepTimersKept
    BY <2>1 DEF SleepTimersKept
  <2>4. QED
    BY <1>a, <2>1, <2>2, <2>3, MovesWake
<1>12. ASSUME NEW f \in Fibers, AddEvent(f) PROVE WakeInv'
  BY <1>12, AddEventWake
<1>13. ASSUME NEW f \in Fibers, Resume(f) \/ SleepEnds(f) PROVE WakeInv'
  <2>1. /\ f \in scheduled /\ scheduled' = scheduled \ {f} /\ waiting' = waiting
        /\ timers' \subseteq timers
        /\ \E where \in {"getsockopt", "try"} : Return(f) \/ Goto(f, where)
    BY <1>13 DEF Resume, SleepEnds, cancelTimer
  <2>2. /\ \A g \in Fibers : g # f => pc'[g] = pc[g] /\ call'[g] = call[g]
        /\ pc'[f] \notin {"wait", "sleep"} /\ (call'[f] = call[f] \/ call'[f] = NoCall)
    BY <2>1 DEF Return, Goto, Typed, FiberTyped
  <2>3. QED
    BY <2>1, <2>2, LeavesScheduled
<1>14. ASSUME NEW f \in Fibers, getsockopt(f) PROVE WakeInv'
  <2>1. Moves(f)
    BY <1>14, StepMoves DEF getsockopt
  <2>2. QED
    BY <1>14, <1>a, <1>b, <2>1, MovesWake DEF getsockopt
<1>15. ASSUME NEW f \in Fibers, sleep(f) PROVE WakeInv'
  BY <1>15, SleepWake
<1>16. ASSUME NEW fd \in Fds, NEW e \in Events, BecomesReady(fd, e) PROVE WakeInv'
  BY <1>16, FrameWake DEF BecomesReady, fiber
<1>17. ASSUME NEW fd \in Fds, NEW e \in Events, Trigger(fd, e) PROVE WakeInv'
  <2>1. Woken
    BY <1>17, WakeWoken DEF Trigger
  <2>2. Moves(None)
    BY <1>17, HookAssumption DEF Trigger, fiber, Moves, SameCall
  <2>3. QED
    BY <1>17, <1>b, <2>1, <2>2, MovesWake DEF Trigger
<1>18. ASSUME NEW t \in timers, Expire(t) PROVE WakeInv'
  BY <1>18, ExpireWake
<1>19. ASSUME NEW t \in timers, OnTimer(t) PROVE WakeInv'
  BY <1>19, OnTimerWake
<1>30. ASSUME NEW f \in Fibers, NEW fd \in Fds, NEW hooked \in BOOLEAN,
              OriginalAccept(f, fd, hooked)
       PROVE  WakeInv'
  BY <1>1, <1>30 DEF OriginalAccept, socket
<1>31. ASSUME NEW f \in Fibers, CallsItself(f) PROVE WakeInv'
  <2>1. /\ Begins(f, "endless", NoCall) /\ pc[f] = "run"
        /\ UNCHANGED <<waiting, scheduled, timers>>
    BY <1>31 DEF CallsItself, Begins
  <2>2. NoCall \in Calls /\ NoCall.event # "none" /\ NoCall.fd = None
    BY NoCallTyped DEF NoCall
  <2>3. Moves(f)
    BY <2>1, <2>2, StepMoves DEF Pcs
  <2>4. QED
    BY <1>a, <1>b, <2>1, <2>3, MovesWake
<1>20. ASSUME NEW v \in {Never, "timeout"}, ConnectTimeoutChanges(v) PROVE WakeInv'
  BY <1>20, FrameWake DEF ConnectTimeoutChanges, fiber
<1>21. CASE UNCHANGED vars
  BY <1>21, FrameWake DEF vars, fiber
<1>22. QED
  <2>1. ASSUME NEW f \in Fibers, NEW fd \in Fds,
               do_io(f, "read", fd, "READ") \/ do_io(f, "accept", fd, "READ")
               \/ do_io(f, "write", fd, "WRITE")
        PROVE  WakeInv'
    BY <1>8, <2>1 DEF Events
  <2>2. ASSUME NEW f \in Fibers, FiberStep(f) PROVE WakeInv'
    BY <1>1, <1>2, <1>3, <1>4, <1>5, <1>6, <1>7, <1>9, <1>10, <1>11, <1>12, <1>13, <1>14,
       <1>15, <2>1, <2>2, <1>30, <1>31 DEF FiberStep
  <2>3. QED
    BY <1>16, <1>17, <1>18, <1>19, <1>20, <1>21, <2>2 DEF Next

\* The types and the wake-ups in every reachable state.
THEOREM WakeInductive == Spec => [](Typed /\ WakeInv)
<1>1. Init => Typed /\ WakeInv
  BY InitTyped, InitWake
<1>2. Typed /\ WakeInv /\ [Next]_vars => Typed' /\ WakeInv'
  BY NextTyped, NextWake
<1>3. QED
  BY <1>1, <1>2, PTL DEF Spec

\* A fiber that yielded in do_io or connect stands in exactly the slot of the
\* event it asked for, or is scheduled, never both or neither, whatever timers,
\* events and closes race for it.
THEOREM OneWakeAlways == Spec => []OneWake
<1>1. Typed /\ WakeInv => OneWake
  <2> SUFFICES ASSUME Typed, WakeInv, NEW f \in Fibers
               PROVE  LET slots == {s \in Fds \X Events : waiting[s[1]][s[2]] = f}
                      IN IF pc[f] = "wait"
                         THEN \/ f \in scheduled /\ slots = {}
                              \/ f \notin scheduled /\ slots = {<<call[f].fd, call[f].event>>}
                         ELSE slots = {} /\ (f \in scheduled => pc[f] = "sleep")
    BY DEF OneWake
  <2> DEFINE slots == {s \in Fds \X Events : waiting[s[1]][s[2]] = f}
  <2>1. ASSUME NEW s \in slots
        PROVE  /\ pc[f] = "wait" /\ f \notin scheduled
               /\ s = <<call[f].fd, call[f].event>>
    <3>1. s[1] \in Fds /\ s[2] \in Events /\ s = <<s[1], s[2]>> /\ waiting[s[1]][s[2]] = f
      OBVIOUS
    <3>2. pc[f] = "wait" /\ f \notin scheduled /\ call[f].fd = s[1] /\ call[f].event = s[2]
      BY <3>1 DEF WakeInv, SlotOfCall
    <3>3. QED
      BY <3>1, <3>2
  <2>2. pc[f] = "wait" /\ f \notin scheduled => <<call[f].fd, call[f].event>> \in slots
    BY DEF Typed, CallKnown, InCall, WakeInv, NotLost
  <2>3. f \in scheduled => pc[f] \in {"wait", "sleep"}
    BY DEF WakeInv, ScheduledYielded
  <2> HIDE DEF slots
  <2>4. IF pc[f] = "wait"
        THEN \/ f \in scheduled /\ slots = {}
             \/ f \notin scheduled /\ slots = {<<call[f].fd, call[f].event>>}
        ELSE slots = {} /\ (f \in scheduled => pc[f] = "sleep")
    BY <2>1, <2>2, <2>3
  <2>5. QED
    BY <2>4 DEF slots
<1>2. QED
  BY <1>1, WakeInductive, PTL

-----------------------------------------------------------------------------
(* Timeouts.                                                               *)

\* What a step may do to the calls of the fibers: one of them ends its call,
\* goes on with it, or begins another.
EndsCall(f) == pc'[f] \in {"run", "close"} /\ tinfo'[f] = 0 /\ calls'[f] = calls[f]
GoesOn(f) == /\ pc[f] \notin {"run", "close"} /\ pc'[f] # "run"
             /\ call'[f] = call[f] /\ tinfo'[f] = tinfo[f] /\ calls'[f] = calls[f]
BeginsCall(f) == calls'[f] = calls[f] + 1 /\ tinfo'[f] = 0
OtherCalls(f) == \A g \in Fibers : g # f =>
    pc'[g] = pc[g] /\ call'[g] = call[g] /\ tinfo'[g] = tinfo[g] /\ calls'[g] = calls[g]
TimersOf(f) == \A t \in timers' : t \in timers \/
    (t.fiber = f /\ t.fiber \in Fibers /\ t.state = "pending" /\ t.call = calls'[f])

\* A timer armed in one call of a fiber says nothing of the next one.
LEMMA CallHonest ==
    ASSUME Typed, HonestInv, NEW f, OtherCalls(f), TimersOf(f),
           f \in Fibers => EndsCall(f) \/ GoesOn(f) \/ BeginsCall(f)
    PROVE  HonestInv'
<1>1. /\ calls \in [Fibers -> Nat] /\ \A t \in timers : t.fiber \in Fibers /\ t.call \in Nat
  BY DEF Typed, FiberTyped, WaitTyped, Timers
<1>2. TimerOfCall'
  <2> SUFFICES ASSUME NEW t \in timers' PROVE t.call <= calls'[t.fiber]
    BY DEF TimerOfCall
  <2>1. CASE t \in timers
    <3>1. t.call <= calls[t.fiber] /\ calls[t.fiber] \in Nat
      BY <1>1, <2>1 DEF HonestInv, TimerOfCall
    <3>2. calls'[t.fiber] \in {calls[t.fiber], calls[t.fiber] + 1}
      BY <1>1, <2>1 DEF OtherCalls, EndsCall, GoesOn, BeginsCall
    <3>3. QED
      BY <1>1, <2>1, <3>1, <3>2
  <2>2. CASE t \notin timers
    <3>1. t.fiber = f /\ f \in Fibers /\ t.call = calls'[f]
      BY <2>2 DEF TimersOf
    <3>2. calls'[f] \in Nat
      BY <1>1, <3>1 DEF EndsCall, GoesOn, BeginsCall
    <3>3. QED
      BY <3>1, <3>2
  <2>3. QED
    BY <2>1, <2>2
<1>3. Marked'
  <2> SUFFICES ASSUME NEW t \in timers', t.state = "listed", t.call = calls'[t.fiber],
                      pc'[t.fiber] \notin {"run", "close"}
               PROVE  call'[t.fiber].expired
    BY DEF Marked
  <2>1. t \in timers /\ t.fiber \in Fibers
    BY <1>1 DEF TimersOf
  <2>2. t.call <= calls[t.fiber] /\ calls[t.fiber] \in Nat
    BY <1>1, <2>1 DEF HonestInv, TimerOfCall
  <2>3. CASE t.fiber # f
    BY <2>1, <2>3 DEF OtherCalls, HonestInv, Marked
  <2>4. CASE t.fiber = f
    <3>1. ~BeginsCall(f)
      BY <2>2, <2>4 DEF BeginsCall
    <3>2. GoesOn(f)
      BY <2>1, <2>4, <3>1 DEF EndsCall
    <3>3. QED
      BY <2>1, <2>4, <3>2 DEF GoesOn, HonestInv, Marked
  <2>5. QED
    BY <2>3, <2>4
<1>4. NoTinfo' /\ TimeoutHonest'
  BY DEF HonestInv, NoTinfo, TimeoutHonest, OtherCalls, EndsCall, GoesOn, BeginsCall
<1>5. QED
  BY <1>2, <1>3, <1>4 DEF HonestInv

\* Steps that leave every fiber where it is and arm no timer.
LEMMA FrameHonest ==
    ASSUME Typed, HonestInv, UNCHANGED <<pc, call, tinfo, calls>>, timers' \subseteq timers
    PROVE  HonestInv'
<1>1. OtherCalls(None) /\ TimersOf(None) /\ None \notin Fibers
  BY HookAssumption DEF OtherCalls, TimersOf
<1>2. QED
  BY <1>1, CallHonest

\* What the ways to leave a step of a call mean for CallHonest.
LEMMA StepCalls ==
    ASSUME Typed, HonestInv, NEW f \in Fibers
    PROVE  /\ Return(f) => OtherCalls(f) /\ EndsCall(f)
           /\ \A where \in Pcs : Goto(f, where) /\ where # "run" /\ pc[f] \notin {"run", "close"}
                => OtherCalls(f) /\ GoesOn(f)
           /\ \A where, c : Begins(f, where, c) => OtherCalls(f) /\ BeginsCall(f)
<1>1. /\ pc \in [Fibers -> Pcs] /\ call \in [Fibers -> Calls]
      /\ tinfo \in [Fibers -> {0, 1}] /\ calls \in [Fibers -> Nat]
  BY DEF Typed, FiberTyped
<1>2. Return(f) => OtherCalls(f) /\ EndsCall(f)
  BY <1>1 DEF Return, OtherCalls, EndsCall
<1>3. ASSUME NEW where \in Pcs, Goto(f, where), where # "run", pc[f] \notin {"run", "close"}
      PROVE  OtherCalls(f) /\ GoesOn(f)
  BY <1>1, <1>3 DEF Goto, OtherCalls, GoesOn
<1>4. ASSUME NEW where, NEW c, Begins(f, where, c) PROVE OtherCalls(f) /\ BeginsCall(f)
  BY <1>1, <1>4 DEF Begins, OtherCalls, BeginsCall
<1>5. QED
  BY <1>2, <1>3, <1>4

\* A timer expires: the call it was armed for, and no other, is marked.
LEMMA ExpireHonest ==
    ASSUME Typed, HonestInv, NEW t \in timers, Expire(t)
    PROVE  HonestInv'
<1> DEFINE u == [t EXCEPT !.state = "listed"]
<1>1. /\ timers' = (timers \ {t}) \union {u} /\ UNCHANGED <<pc, tinfo, calls>>
      /\ call' = [call EXCEPT ![t.fiber].expired = @ \/ t.call = calls[t.fiber]]
  BY DEF Expire
<1>2. u.fiber = t.fiber /\ u.call = t.call /\ t.fiber \in Fibers
  BY TimersTyped DEF Typed
<1> HIDE DEF u
<1>3. \A f \in Fibers :
        /\ f # t.fiber => call'[f] = call[f]
        /\ f = t.fiber => call'[f].expired = (call[f].expired \/ t.call = calls[t.fiber])
  BY <1>1, <1>2 DEF Typed, FiberTyped, Calls
<1>4. \A v \in timers : v.fiber \in Fibers
  BY DEF Typed, WaitTyped, Timers
<1>5. TimerOfCall' /\ NoTinfo'
  BY <1>1, <1>2 DEF HonestInv, TimerOfCall, NoTinfo
<1>6. Marked'
  <2> SUFFICES ASSUME NEW v \in timers', v.state = "listed", v.call = calls[v.fiber],
                      pc[v.fiber] \notin {"run", "close"}
               PROVE  call'[v.fiber].expired
    BY <1>1 DEF Marked
  <2>1. CASE v = u
    BY <1>2, <1>3, <2>1
  <2>2. CASE v # u
    <3>1. v \in timers /\ v.fiber \in Fibers
      BY <1>1, <1>4, <2>2
    <3>2. call[v.fiber].expired
      BY <3>1 DEF HonestInv, Marked
    <3>3. QED
      BY <1>3, <3>1, <3>2
  <2>3. QED
    BY <2>1, <2>2
<1>7. TimeoutHonest'
  BY <1>1, <1>2, <1>3 DEF HonestInv, TimeoutHonest
<1>8. QED
  BY <1>5, <1>6, <1>7 DEF HonestInv

\* A callback sets tinfo of the call it was armed for, if that is not over.
LEMMA OnTimerHonest ==
    ASSUME Typed, HonestInv, NEW t \in timers, OnTimer(t)
    PROVE  HonestInv'
<1>1. timers' \subseteq timers /\ UNCHANGED <<pc, call, calls>> /\ t.state = "listed"
  BY DEF OnTimer
<1>2. CASE tinfo' = tinfo
  BY <1>1, <1>2, FrameHonest
<1>3. CASE tinfo' # tinfo
  <2>1. /\ tinfo' = [tinfo EXCEPT ![t.fiber] = 1] /\ pc[t.fiber] \notin {"run", "close"}
        /\ t.call = calls[t.fiber]
    BY <1>3 DEF OnTimer
  <2>2. t.fiber \in Fibers /\ tinfo \in [Fibers -> {0, 1}]
    BY TimersTyped DEF Typed, FiberTyped
  <2>3. call[t.fiber].expired
    BY <1>1, <2>1 DEF HonestInv, Marked
  <2>4. TimerOfCall' /\ Marked'
    BY <1>1 DEF HonestInv, TimerOfCall, Marked
  <2>5. NoTinfo' /\ TimeoutHonest'
    BY <1>1, <2>1, <2>2, <2>3 DEF HonestInv, NoTinfo, TimeoutHonest
  <2>6. QED
    BY <2>4, <2>5 DEF HonestInv
<1>4. QED
  BY <1>2, <1>3

\* No call has timed out at the start.
LEMMA InitHonest == Init => HonestInv
BY DEF Init, HonestInv, TimerOfCall, Marked, NoTinfo, TimeoutHonest

\* Every step keeps the timeouts honest.
LEMMA NextHonest == Typed /\ HonestInv /\ [Next]_vars => HonestInv'
<1> SUFFICES ASSUME Typed, HonestInv, [Next]_vars PROVE HonestInv'
  OBVIOUS
<1>a. \A f : timers' \subseteq timers => TimersOf(f)
  BY DEF TimersOf
<1>1. ASSUME NEW f \in Fibers, NEW fd \in Fds, NEW hooked \in BOOLEAN, socket(f, fd, hooked)
      PROVE  HonestInv'
  BY <1>1, FrameHonest DEF socket, Idle, fiber
<1>2. ASSUME NEW f \in Fibers, NEW fd \in Fds, NEW hooked \in BOOLEAN, close(f, fd, hooked)
      PROVE  HonestInv'
  <2>1. CASE hooked /\ get(fd) # None
    <3>1. OtherCalls(f)
      BY <1>2, <2>1 DEF close, OtherCalls, Typed, FiberTyped
    <3>2. EndsCall(f)
      BY <1>2, <2>1 DEF close, EndsCall, Typed, FiberTyped, HonestInv, NoTinfo
    <3>3. QED
      BY <1>2, <1>a, <3>1, <3>2, CallHonest DEF close
  <2>2. CASE ~(hooked /\ get(fd) # None)
    BY <1>2, <2>2, FrameHonest DEF close
  <2>3. QED
    BY <2>1, <2>2
<1>3. ASSUME NEW f \in Fibers, close_f(f) \/ getsockopt(f) \/ SleepEnds(f) PROVE HonestInv'
  <2>1. Return(f) /\ timers' = timers
    BY <1>3 DEF close_f, getsockopt, SleepEnds
  <2>2. QED
    BY <1>a, <2>1, StepCalls, CallHonest
<1>4. ASSUME NEW f \in Fibers, NEW fd \in Fds, NEW arg \in BOOLEAN,
             fcntl(f, fd, arg) \/ ioctl(f, fd, arg)
      PROVE  HonestInv'
  BY <1>4, FrameHonest DEF fcntl, ioctl, SetsOption, Idle, fiber
<1>6. ASSUME NEW f \in Fibers, NEW fd \in Fds, NEW e \in Events, NEW v \in {Never, "timeout"},
             setsockopt(f, fd, e, v)
      PROVE  HonestInv'
  BY <1>6, FrameHonest DEF setsockopt, SetsOption, Idle, fiber
<1>7. ASSUME NEW f \in Fibers, NEW fd \in Fds, NEW e \in Events, NEW hooked \in BOOLEAN,
             Original(f, fd, e, hooked)
      PROVE  HonestInv'
  BY <1>7, FrameHonest DEF Original, fiber
<1>8. ASSUME NEW f \in Fibers, NEW fd \in Fds, NEW e, NEW name, do_io(f, name, fd, e)
      PROVE  HonestInv'
  <2>1. timers' = timers /\ \E c : Begins(f, "try", c)
    BY <1>8 DEF do_io
  <2>2. QED
    BY <1>a, <2>1, StepCalls, CallHonest
<1>9. ASSUME NEW f \in Fibers, NEW fd \in Fds, connect(f, fd) PROVE HonestInv'
  <2>1. timers' = timers /\ \E where, c : Begins(f, where, c)
    BY <1>9 DEF connect
  <2>2. QED
    BY <1>a, <2>1, StepCalls, CallHonest
<1>10. ASSUME NEW f \in Fibers, Try(f) PROVE HonestInv'
  <2>1. /\ pc[f] = "try" /\ timers' = timers
        /\ Return(f) \/ Goto(f, "arm") \/ Goto(f, "blocked")
    BY <1>10 DEF Try
  <2>2. OtherCalls(f) /\ (EndsCall(f) \/ GoesOn(f))
    BY <2>1, StepCalls DEF Pcs
  <2>3. QED
    BY <1>a, <2>1, <2>2, CallHonest
<1>11. ASSUME NEW f \in Fibers, AddConditionTimer(f) PROVE HonestInv'
  <2> DEFINE t == [fiber |-> f, call |-> calls[f], fd |-> call[f].fd,
                   event |-> call[f].event, kind |-> "io", state |-> "pending"]
  <2>1. pc[f] = "arm" /\ Goto(f, "add") /\ timers' \in {timers, timers \union {t}}
    BY <1>11 DEF AddConditionTimer
  <2>2. OtherCalls(f) /\ GoesOn(f)
    BY <2>1, StepCalls DEF Pcs
  <2>3. TimersOf(f)
    BY <2>1, <2>2 DEF TimersOf, GoesOn
  <2>4. QED
    BY <2>2, <2>3, CallHonest
<1>12. ASSUME NEW f \in Fibers, AddEvent(f) PROVE HonestInv'
  <2>1. /\ pc[f] = "add" /\ timers' \subseteq timers
        /\ Return(f) \/ Goto(f, "getsockopt") \/ Goto(f, "wait")
    BY <1>12 DEF AddEvent, cancelTimer
  <2>2. OtherCalls(f) /\ (EndsCall(f) \/ GoesOn(f))
    BY <2>1, StepCalls DEF Pcs
  <2>3. QED
    BY <1>a, <2>1, <2>2, CallHonest
<1>13. ASSUME NEW f \in Fibers, Resume(f) PROVE HonestInv'
  <2>1. /\ pc[f] = "wait" /\ timers' \subseteq timers
        /\ Return(f) \/ Goto(f, "getsockopt") \/ Goto(f, "try")
    BY <1>13 DEF Resume, cancelTimer
  <2>2. OtherCalls(f) /\ (EndsCall(f) \/ GoesOn(f))
    BY <2>1, StepCalls DEF Pcs
  <2>3. QED
    BY <1>a, <2>1, <2>2, CallHonest
<1>15. ASSUME NEW f \in Fibers, sleep(f) PROVE HonestInv'
  <2> DEFINE t == [fiber |-> f, call |-> calls[f] + 1, fd |-> None,
                   event |-> "READ", kind |-> "sleep", state |-> "pending"]
  <2>1. timers' = timers \union {t} /\ \E c : Begins(f, "sleep", c)
    BY <1>15 DEF sleep
  <2>2. OtherCalls(f) /\ BeginsCall(f)
    BY <2>1, StepCalls
  <2>3. TimersOf(f)
    BY <2>1, <2>2 DEF TimersOf, BeginsCall
  <2>4. QED
    BY <2>2, <2>3, CallHonest
<1>16. ASSUME NEW fd \in Fds, NEW e \in Events, BecomesReady(fd, e) \/ Trigger(fd, e)
       PROVE  HonestInv'
  BY <1>16, FrameHonest DEF BecomesReady, Trigger, fiber
<1>18. ASSUME NEW t \in timers, Expire(t) \/ OnTimer(t) PROVE HonestInv'
  BY <1>18, ExpireHonest, OnTimerHonest
<1>30. ASSUME NEW f \in Fibers, NEW fd \in Fds, NEW hooked \in BOOLEAN,
              OriginalAccept(f, fd, hooked)
       PROVE  HonestInv'
  BY <1>1, <1>30 DEF OriginalAccept, socket
<1>31. ASSUME NEW f \in Fibers, CallsItself(f) PROVE HonestInv'
  <2>1. timers' = timers /\ Begins(f, "endless", NoCall)
    BY <1>31 DEF CallsItself
  <2>2. QED
    BY <1>a, <2>1, StepCalls, CallHonest
<1>20. ASSUME NEW v \in {Never, "timeout"}, ConnectTimeoutChanges(v) PROVE HonestInv'
  BY <1>20, FrameHonest DEF ConnectTimeoutChanges, fiber
<1>21. CASE UNCHANGED vars
  BY <1>21, FrameHonest DEF vars, fiber
<1>22. QED
  <2>1. ASSUME NEW f \in Fibers, FiberStep(f) PROVE HonestInv'
    BY <1>1, <1>2, <1>3, <1>4, <1>6, <1>7, <1>8, <1>9, <1>10, <1>11, <1>12, <1>13,
       <1>15, <2>1, <1>30, <1>31 DEF FiberStep
  <2>2. QED
    BY <1>16, <1>18, <1>20, <1>21, <2>1 DEF Next

\* A call fails with ETIMEDOUT only after a timer of that very call expired,
\* however late the callbacks of earlier calls of the fiber run.
THEOREM TimeoutHonestAlways == Spec => []TimeoutHonest
<1>1. Init => Typed /\ HonestInv
  BY InitTyped, InitHonest
<1>2. Typed /\ HonestInv /\ [Next]_vars => Typed' /\ HonestInv'
  BY NextTyped, NextHonest
<1>3. Typed /\ HonestInv => TimeoutHonest
  BY DEF HonestInv
<1>4. QED
  BY <1>1, <1>2, <1>3, PTL DEF Spec

-----------------------------------------------------------------------------
(* Contexts.                                                               *)

\* What a step of f may do to a descriptor: a file is closed when no other
\* fiber is closing it, a context goes, stays with its file, or comes with a
\* new file.
FdStep(f, fd) ==
    /\ opens[fd] <= opens'[fd]
    /\ file[fd] # "none" /\ file'[fd] = "none" =>
         \A g \in Fibers : g # f => ~(pc[g] = "close" /\ call[g].fd = fd)
    /\ \/ m_datas'[fd] = None
       \/ m_datas[fd] # None /\ m_datas'[fd].file = m_datas[fd].file
       \/ file[fd] = "none" /\ m_datas'[fd].file = opens[fd] + 1
OthersSame(f) == \A g \in Fibers : g # f =>
    /\ pc'[g] = pc[g] /\ call'[g].fd = call[g].fd
    /\ call'[g].name = call[g].name /\ call'[g].file = call[g].file
\* What f itself is after a step.
OwnCtx(f) ==
    /\ pc'[f] = "close" =>
         /\ file'[call'[f].fd] # "none" /\ m_datas'[call'[f].fd] = None
         /\ \A g \in Fibers : g # f /\ pc[g] = "close" => call[g].fd # call'[f].fd
    /\ pc'[f] = "close" <=> call'[f].name = "close"
    /\ call'[f].fd # None => call'[f].file <= opens'[call'[f].fd]
    /\ pc'[f] = "blocked" =>
         m_datas'[call'[f].fd] = None \/ m_datas'[call'[f].fd].file # call'[f].file
DataInv == CtxOfFile /\ InTable /\ Nonblocking

\* What the calls know of their descriptors outlives the steps of others.
LEMMA FiberCtx ==
    ASSUME Typed, Typed', CtxInv, NEW f, \A fd \in Fds : FdStep(f, fd), OthersSame(f),
           f \in Fibers => OwnCtx(f), DataInv'
    PROVE  CtxInv'
<1>1. /\ opens \in [Fds -> Nat] /\ None \notin Fds
      /\ \A g \in Fibers : /\ call[g].file \in Nat /\ call[g].fd \in Fds \union {None}
                           /\ pc[g] \in {"blocked", "close"} => call[g].fd \in Fds
  BY HookAssumption DEF Typed, KernelTyped, FiberTyped, Calls, CallKnown, InCall
<1>2. CloseUnderWay'
  <2> SUFFICES ASSUME NEW g \in Fibers
               PROVE  /\ pc'[g] = "close" => /\ call'[g].name = "close"
                                             /\ file'[call'[g].fd] # "none"
                                             /\ m_datas'[call'[g].fd] = None
                      /\ call'[g].name = "close" => pc'[g] = "close"
    BY DEF CloseUnderWay
  <2>1. CASE g = f
    BY <2>1 DEF OwnCtx
  <2>2. CASE g # f
    <3>1. call'[g].name = "close" <=> pc'[g] = "close"
      BY <2>2 DEF OthersSame, CtxInv, CloseUnderWay
    <3>2. ASSUME pc[g] = "close"
          PROVE  file'[call[g].fd] # "none" /\ m_datas'[call[g].fd] = None
      BY <1>1, <2>2, <3>2 DEF FdStep, CtxInv, CloseUnderWay
    <3>3. QED
      BY <2>2, <3>1, <3>2 DEF OthersSame
  <2>3. QED
    BY <2>1, <2>2
<1>3. CloseOnce'
  BY DEF CloseOnce, OwnCtx, OthersSame, CtxInv
<1>4. FileKnown'
  <2> SUFFICES ASSUME NEW g \in Fibers, call'[g].fd # None
               PROVE  call'[g].file <= opens'[call'[g].fd]
    BY DEF FileKnown
  <2>1. CASE g = f
    BY <2>1 DEF OwnCtx
  <2>2. CASE g # f
    <3>1. call'[g].fd = call[g].fd /\ call'[g].file = call[g].file /\ call[g].fd \in Fds
      BY <1>1, <2>2 DEF OthersSame
    <3>2. call[g].file <= opens[call[g].fd]
      BY <1>1, <3>1 DEF CtxInv, FileKnown
    <3>3. opens[call[g].fd] <= opens'[call[g].fd] /\ opens'[call[g].fd] \in Nat
      BY <3>1 DEF FdStep, Typed, KernelTyped
    <3>4. QED
      BY <1>1, <3>1, <3>2, <3>3
  <2>3. QED
    BY <2>1, <2>2
<1>5. ThreadNotHeld'
  <2> SUFFICES ASSUME NEW g \in Fibers, pc'[g] = "blocked"
               PROVE  m_datas'[call'[g].fd] = None
                      \/ m_datas'[call'[g].fd].file # call'[g].file
    BY DEF ThreadNotHeld
  <2>1. CASE g = f
    BY <2>1 DEF OwnCtx
  <2>2. CASE g # f
    <3>1. pc[g] = "blocked" /\ call'[g].fd = call[g].fd /\ call'[g].file = call[g].file
      BY <2>2 DEF OthersSame
    <3>2. call[g].fd \in Fds /\ FdStep(f, call[g].fd)
      BY <1>1, <3>1
    <3>3. m_datas[call[g].fd] = None \/ m_datas[call[g].fd].file # call[g].file
      BY <3>1 DEF CtxInv, ThreadNotHeld
    <3>4. call[g].file <= opens[call[g].fd] /\ opens[call[g].fd] \in Nat
      BY <1>1, <3>2 DEF CtxInv, FileKnown
    <3>5. opens[call[g].fd] + 1 # call[g].file
      BY <1>1, <3>4
    <3>6. QED
      BY <3>1, <3>2, <3>3, <3>5 DEF FdStep
  <2>3. QED
    BY <2>1, <2>2
<1>6. QED
  BY <1>2, <1>3, <1>4, <1>5 DEF CtxInv, DataInv

\* Neither the kernel's files nor FdManager change.
FilesKept == UNCHANGED <<file, opens, nonblock, m_datas, dataSize>>

\* Such steps only move the calls.
LEMMA FrameCtx ==
    ASSUME Typed, Typed', CtxInv, NEW f, FilesKept, OthersSame(f), f \in Fibers => OwnCtx(f)
    PROVE  CtxInv'
<1>1. DataInv'
  BY DEF FilesKept, DataInv, CtxInv, CtxOfFile, InTable, Nonblocking
<1>2. \A fd \in Fds : FdStep(f, fd)
  BY DEF FilesKept, FdStep, Typed, KernelTyped
<1>3. QED
  BY <1>1, <1>2, FiberCtx

\* Nobody's call changes.
LEMMA NobodyCtx ==
    ASSUME UNCHANGED <<pc, call>>
    PROVE  OthersSame(None) /\ None \notin Fibers
BY HookAssumption DEF OthersSame

\* Where the steps of a call lead.
LEMMA StepsCtx ==
    ASSUME Typed, Typed', CtxInv, NEW f \in Fibers
    PROVE  /\ Return(f) => OthersSame(f) /\ OwnCtx(f)
           /\ \A where \in Pcs :
                /\ Goto(f, where) /\ where # "close" /\ pc[f] # "close" /\ opens' = opens
                /\ where = "blocked" => m_datas'[call[f].fd] = None
                => OthersSame(f) /\ OwnCtx(f)
           /\ \A where \in Pcs, c \in Calls :
                /\ Begins(f, where, c) /\ where \notin {"close", "blocked"} /\ c.name # "close"
                /\ c.fd # None => c.file <= opens'[c.fd]
                => OthersSame(f) /\ OwnCtx(f)
<1>1. pc \in [Fibers -> Pcs] /\ call \in [Fibers -> Calls]
  BY DEF Typed, FiberTyped
<1>2. ASSUME Return(f) PROVE OthersSame(f) /\ OwnCtx(f)
  <2>1. call'[f] = NoCall /\ pc'[f] = "run"
    BY <1>1, <1>2 DEF Return
  <2>2. \A g \in Fibers : g # f => pc'[g] = pc[g] /\ call'[g] = call[g]
    BY <1>1, <1>2 DEF Return
  <2>3. QED
    BY <2>1, <2>2 DEF OthersSame, OwnCtx, NoCall
<1>3. ASSUME NEW where \in Pcs, Goto(f, where), where # "close", pc[f] # "close",
             opens' = opens, where = "blocked" => m_datas'[call[f].fd] = None
      PROVE  OthersSame(f) /\ OwnCtx(f)
  <2>1. call' = call /\ pc'[f] = where /\ \A g \in Fibers : g # f => pc'[g] = pc[g]
    BY <1>1, <1>3 DEF Goto
  <2>2. call[f].name # "close" /\ (call[f].fd # None => call[f].file <= opens[call[f].fd])
    BY <1>3 DEF CtxInv, CloseUnderWay, FileKnown
  <2>3. QED
    BY <1>3, <2>1, <2>2 DEF OthersSame, OwnCtx
<1>4. ASSUME NEW where \in Pcs, NEW c \in Calls, Begins(f, where, c),
             where \notin {"close", "blocked"}, c.name # "close",
             c.fd # None => c.file <= opens'[c.fd]
      PROVE  OthersSame(f) /\ OwnCtx(f)
  <2>1. call'[f] = c /\ pc'[f] = where
    BY <1>1, <1>4 DEF Begins
  <2>2. \A g \in Fibers : g # f => pc'[g] = pc[g] /\ call'[g] = call[g]
    BY <1>1, <1>4 DEF Begins
  <2>3. QED
    BY <1>4, <2>1, <2>2 DEF OthersSame, OwnCtx
<1>5. QED
  BY <1>2, <1>3, <1>4

\* A descriptor without a context in the table has none at all.
LEMMA GetCtx ==
    ASSUME Typed, CtxInv, NEW fd \in Fds
    PROVE  get(fd) = m_datas[fd]
BY HookAssumption DEF get, CtxInv, InTable, Typed, DatasTyped

\* A new file finds no context of an older one, gets its own, and is
\* non-blocking if it does.
LEMMA OpenCtx ==
    ASSUME Typed, CtxInv, NEW fd \in Fds, NEW hooked \in BOOLEAN, Open(fd, hooked), NEW f
    PROVE  DataInv' /\ \A d \in Fds : FdStep(f, d)
<1>1. /\ Fds \subseteq Nat /\ file \in [Fds -> {"none", "socket"}] /\ opens \in [Fds -> Nat]
      /\ nonblock \in [Fds -> BOOLEAN] /\ m_datas \in [Fds -> FdCtxs \union {None}]
      /\ dataSize \in Nat /\ dataSize >= 2
  BY HookAssumption DEF Typed, KernelTyped, DatasTyped
<1>2. /\ file[fd] = "none" /\ file' = [file EXCEPT ![fd] = "socket"]
      /\ opens' = [opens EXCEPT ![fd] = @ + 1]
  BY DEF Open
<1>3. m_datas[fd] = None /\ get(fd) = None
  BY <1>2, GetCtx DEF CtxInv, CtxOfFile
<1>4. CASE ~hooked
  <2>1. m_datas' = m_datas /\ dataSize' = dataSize /\ nonblock' = [nonblock EXCEPT ![fd] = FALSE]
    BY <1>4 DEF Open, fds
  <2>2. DataInv'
    BY <1>1, <1>2, <1>3, <2>1 DEF DataInv, CtxInv, CtxOfFile, InTable, Nonblocking
  <2>3. \A d \in Fds : FdStep(f, d)
    BY <1>1, <1>2, <2>1 DEF FdStep
  <2>4. QED
    BY <2>2, <2>3
<1>5. CASE hooked
  <2>1. /\ dataSize' = IF fd >= dataSize THEN (fd * 3) \div 2 ELSE dataSize
        /\ m_datas' = [m_datas EXCEPT ![fd] = FdCtx(fd, "socket")]
        /\ nonblock' = [nonblock EXCEPT ![fd] = "socket" = "socket"]
    BY <1>3, <1>5 DEF Open, getAutoCreate
  <2>2. /\ FdCtx(fd, "socket").isSocket /\ FdCtx(fd, "socket").sysNonblock
        /\ FdCtx(fd, "socket").file = opens[fd] + 1 /\ opens'[fd] = opens[fd] + 1
    BY <1>1, <1>2 DEF FdCtx
  <2>3. /\ \A d \in Fds : m_datas'[d] = IF d = fd THEN FdCtx(fd, "socket") ELSE m_datas[d]
        /\ \A d \in Fds : d # fd => nonblock'[d] = nonblock[d]
        /\ nonblock'[fd]
    BY <1>1, <2>1
  <2>4. CtxOfFile'
    BY <1>1, <1>2, <2>2, <2>3 DEF CtxInv, CtxOfFile
  <2>5. dataSize' \in Nat /\ dataSize' >= dataSize /\ fd < dataSize'
    <3>1. fd \in Nat
      BY <1>1
    <3>2. CASE fd < dataSize
      BY <1>1, <2>1, <3>1, <3>2
    <3>3. CASE fd >= dataSize
      <4>1. dataSize' = (fd * 3) \div 2 /\ fd >= 2
        BY <1>1, <2>1, <3>1, <3>3
      <4>2. (fd * 3) \div 2 \in Nat /\ (fd * 3) \div 2 > fd
        BY <3>1, <4>1
      <4>3. QED
        BY <1>1, <3>1, <3>3, <4>1, <4>2
    <3>4. QED
      BY <1>1, <3>1, <3>2, <3>3
  <2>6. InTable'
    BY <1>1, <2>3, <2>5 DEF CtxInv, InTable
  <2>7. Nonblocking'
    BY <2>2, <2>3 DEF CtxInv, Nonblocking
  <2>8. \A d \in Fds : FdStep(f, d)
    BY <1>1, <1>2, <1>3, <2>2, <2>3 DEF FdStep
  <2>9. QED
    BY <2>4, <2>6, <2>7, <2>8 DEF DataInv
<1>6. QED
  BY <1>4, <1>5

\* close takes the context away before the descriptor, and close_f closes a
\* descriptor that has none.
LEMMA CloseCtx ==
    ASSUME Typed, Typed', CtxInv, NEW f \in Fibers, NEW fd \in Fds, NEW hooked \in BOOLEAN,
           hooked \/ get(fd) = None, close(f, fd, hooked)
    PROVE  CtxInv'
<1>1. /\ file \in [Fds -> {"none", "socket"}] /\ opens \in [Fds -> Nat] /\ None \notin Fds
      /\ m_datas \in [Fds -> FdCtxs \union {None}]
      /\ pc \in [Fibers -> Pcs] /\ call \in [Fibers -> Calls]
  BY HookAssumption DEF Typed, KernelTyped, DatasTyped, FiberTyped
<1>2. /\ pc[f] = "run" /\ file[fd] # "none" /\ UNCHANGED <<opens, nonblock, dataSize>>
      /\ \A g \in Fibers : pc[g] = "close" => call[g].fd # fd
  BY DEF close, Closing, CtxInv, CloseUnderWay
<1>3. CASE hooked /\ get(fd) # None
  <2> DEFINE c == [NoCall EXCEPT !.name = "close", !.fd = fd, !.event = "none"]
  <2>1. /\ m_datas' = [m_datas EXCEPT ![fd] = None] /\ file' = file
        /\ pc' = [pc EXCEPT ![f] = "close"] /\ call' = [call EXCEPT ![f] = c]
    BY <1>3 DEF close
  <2>2. c.fd = fd /\ c.name = "close" /\ c.file = 0
    BY DEF NoCall
  <2> HIDE DEF c
  <2>3. DataInv'
    BY <1>1, <1>2, <2>1 DEF DataInv, CtxInv, CtxOfFile, InTable, Nonblocking
  <2>4. \A d \in Fds : FdStep(f, d)
    BY <1>1, <1>2, <2>1 DEF FdStep
  <2>5. /\ pc'[f] = "close" /\ call'[f] = c
        /\ \A g \in Fibers : g # f => pc'[g] = pc[g] /\ call'[g] = call[g]
    BY <1>1, <2>1
  <2>6. OthersSame(f) /\ OwnCtx(f)
    BY <1>1, <1>2, <2>1, <2>2, <2>5 DEF OthersSame, OwnCtx
  <2>7. QED
    BY <2>3, <2>4, <2>6, FiberCtx
<1>4. CASE ~(hooked /\ get(fd) # None)
  <2>1. file' = [file EXCEPT ![fd] = "none"] /\ UNCHANGED <<m_datas, pc, call>>
    BY <1>4 DEF close
  <2>2. m_datas[fd] = None
    BY <1>4, GetCtx
  <2>3. DataInv'
    BY <1>1, <1>2, <2>1, <2>2 DEF DataInv, CtxInv, CtxOfFile, InTable, Nonblocking
  <2>4. \A d \in Fds : FdStep(None, d)
    BY <1>1, <1>2, <2>1 DEF FdStep
  <2>5. QED
    BY <2>1, <2>3, <2>4, NobodyCtx, FiberCtx
<1>5. QED
  BY <1>3, <1>4

\* close_f: the descriptor has no context, and nobody else is closing it.
LEMMA Close_fCtx ==
    ASSUME Typed, Typed', CtxInv, NEW f \in Fibers, close_f(f)
    PROVE  CtxInv'
<1>1. /\ file \in [Fds -> {"none", "socket"}] /\ opens \in [Fds -> Nat]
      /\ pc[f] = "close" /\ call[f].fd \in Fds
  BY DEF Typed, KernelTyped, CallKnown, close_f
<1>2. /\ file' = [file EXCEPT ![call[f].fd] = "none"]
      /\ UNCHANGED <<opens, nonblock, m_datas, dataSize>>
  BY DEF close_f, fds
<1>3. m_datas[call[f].fd] = None
  BY <1>1 DEF CtxInv, CloseUnderWay
<1>4. DataInv'
  BY <1>1, <1>2, <1>3 DEF DataInv, CtxInv, CtxOfFile, InTable, Nonblocking
<1>5. \A d \in Fds : FdStep(f, d)
  BY <1>1, <1>2 DEF FdStep, CtxInv, CloseOnce
<1>6. OthersSame(f) /\ OwnCtx(f)
  BY StepsCtx DEF close_f
<1>7. QED
  BY <1>4, <1>5, <1>6, FiberCtx

\* fcntl, ioctl and setsockopt leave a socket with a context non-blocking.
LEMMA OptionsCtx ==
    ASSUME Typed, Typed', CtxInv, NEW f \in Fibers, NEW fd \in Fds,
           \/ \E arg \in BOOLEAN : fcntl(f, fd, arg)
           \/ ioctl(f, fd, TRUE)
           \/ \E e \in Events, v \in {Never, "timeout"} : setsockopt(f, fd, e, v)
    PROVE  CtxInv'
<1>1. /\ opens \in [Fds -> Nat] /\ nonblock \in [Fds -> BOOLEAN]
      /\ m_datas \in [Fds -> FdCtxs \union {None}]
      /\ get(fd) = m_datas[fd]
  BY GetCtx DEF Typed, KernelTyped, DatasTyped
<1>2. UNCHANGED <<file, opens, dataSize, pc, call>>
  BY DEF fcntl, ioctl, setsockopt, SetsOption, Idle, fiber, fds
<1>3. /\ \A d \in Fds : d # fd => m_datas'[d] = m_datas[d] /\ nonblock'[d] = nonblock[d]
      /\ m_datas[fd] = None => m_datas'[fd] = None
      /\ m_datas[fd] # None =>
           /\ m_datas'[fd].file = m_datas[fd].file
           /\ m_datas'[fd].isSocket = m_datas[fd].isSocket
           /\ m_datas'[fd].sysNonblock = m_datas[fd].sysNonblock
           /\ nonblock'[fd]
  <2>1. CASE \E arg \in BOOLEAN : fcntl(f, fd, arg)
    <3>1. PICK arg \in BOOLEAN : fcntl(f, fd, arg)
      BY <2>1
    <3>2. CASE m_datas[fd] = None
      BY <1>1, <3>1, <3>2 DEF fcntl
    <3>3. CASE m_datas[fd] # None
      <4>1. m_datas[fd].isSocket /\ m_datas[fd].sysNonblock /\ m_datas[fd] \in FdCtxs
        BY <1>1, <3>3 DEF CtxInv, Nonblocking
      <4>2. /\ m_datas' = [m_datas EXCEPT ![fd].userNonblock = arg]
            /\ nonblock' = [nonblock EXCEPT ![fd] = m_datas[fd].sysNonblock]
        BY <1>1, <3>1, <3>3, <4>1 DEF fcntl
      <4>3. m_datas'[fd] = [m_datas[fd] EXCEPT !.userNonblock = arg]
            /\ \A d \in Fds : d # fd => m_datas'[d] = m_datas[d] /\ nonblock'[d] = nonblock[d]
        BY <1>1, <4>2
      <4>4. nonblock'[fd]
        BY <1>1, <4>1, <4>2
      <4>5. QED
        BY <3>3, <4>1, <4>3, <4>4 DEF FdCtxs
    <3>4. QED
      BY <3>2, <3>3
  <2>2. CASE ioctl(f, fd, TRUE)
    BY <1>1, <2>2 DEF ioctl, fds
  <2>3. CASE \E e \in Events, v \in {Never, "timeout"} : setsockopt(f, fd, e, v)
    <3>1. PICK e \in Events, v \in {Never, "timeout"} : setsockopt(f, fd, e, v)
      BY <2>3
    <3>2. m_datas[fd] \in FdCtxs /\ m_datas[fd] # None
      BY <1>1, <3>1 DEF setsockopt
    <3>3. nonblock' = nonblock /\ m_datas' = [m_datas EXCEPT ![fd].timeout[e] = v]
      BY <3>1 DEF setsockopt
    <3>4. m_datas'[fd] = [m_datas[fd] EXCEPT !.timeout[e] = v]
          /\ \A d \in Fds : d # fd => m_datas'[d] = m_datas[d]
      BY <1>1, <3>3
    <3>5. nonblock[fd]
      BY <3>2 DEF CtxInv, Nonblocking
    <3>6. QED
      BY <3>2, <3>3, <3>4, <3>5 DEF FdCtxs
  <2>4. QED
    BY <2>1, <2>2, <2>3
<1>4. DataInv'
  BY <1>2, <1>3 DEF DataInv, CtxInv, CtxOfFile, InTable, Nonblocking
<1>5. \A d \in Fds : FdStep(None, d)
  BY <1>1, <1>2, <1>3 DEF FdStep
<1>6. QED
  BY <1>2, <1>4, <1>5, NobodyCtx, FiberCtx

\* The original function: a blocking descriptor has no context.
LEMMA TryCtx ==
    ASSUME Typed, Typed', CtxInv, NEW f \in Fibers, Try(f)
    PROVE  CtxInv'
<1>1. pc[f] = "try" /\ call[f].fd \in Fds
  BY DEF Try, Typed, CallKnown, InCall
<1>2. CASE Return(f) /\ FilesKept
  BY <1>2, StepsCtx, FrameCtx
<1>3. CASE Return(f) /\ \E new \in Fds : Open(new, TRUE)
  <2>1. PICK new \in Fds : Open(new, TRUE)
    BY <1>3
  <2>2. DataInv' /\ \A d \in Fds : FdStep(f, d)
    BY <2>1, OpenCtx
  <2>3. QED
    BY <1>3, <2>2, StepsCtx, FiberCtx
<1>4. CASE Goto(f, IF nonblock[call[f].fd] THEN "arm" ELSE "blocked") /\ FilesKept
  <2>1. CASE nonblock[call[f].fd]
    <3>1. Goto(f, "arm") /\ opens' = opens
      BY <1>4, <2>1 DEF FilesKept
    <3>2. QED
      BY <1>1, <1>4, <3>1, StepsCtx, FrameCtx DEF Pcs
  <2>2. CASE ~nonblock[call[f].fd]
    <3>1. Goto(f, "blocked") /\ opens' = opens
      BY <1>4, <2>2 DEF FilesKept
    <3>2. m_datas'[call[f].fd] = None
      BY <1>1, <1>4, <2>2 DEF FilesKept, CtxInv, Nonblocking
    <3>3. QED
      BY <1>1, <1>4, <3>1, <3>2, StepsCtx, FrameCtx DEF Pcs
  <2>3. QED
    BY <2>1, <2>2
<1>5. QED
  BY <1>2, <1>3, <1>4 DEF Try, FilesKept, kernel, fds

\* There is no context at the start.
LEMMA InitCtx == Init => CtxInv
BY DEF Init, CtxInv, CtxOfFile, InTable, Nonblocking, CloseUnderWay, CloseOnce, FileKnown,
   ThreadNotHeld, NoCall

\* Every step keeps the contexts with their files, when no thread closes a
\* registered descriptor without the hooks or makes one blocking with ioctl.
LEMMA NextCtx ==
    ASSUME ~UserBlocks
    PROVE  Typed /\ Typed' /\ CtxInv /\ [Next]_vars => CtxInv'
<1> SUFFICES ASSUME Typed, Typed', CtxInv, [Next]_vars PROVE CtxInv'
  OBVIOUS
<1>a. UNCHANGED <<kernel, fds>> => FilesKept
  BY DEF FilesKept, kernel, fds
<1>b. UNCHANGED <<pc, call>> /\ FilesKept => CtxInv'
  BY NobodyCtx, FrameCtx
<1>c. UNCHANGED fiber => UNCHANGED <<pc, call>>
  BY DEF fiber
<1>d. UNCHANGED kernel => opens' = opens
  BY DEF kernel
<1>1. ASSUME NEW f \in Fibers, NEW fd \in Fds, NEW hooked \in BOOLEAN, socket(f, fd, hooked)
      PROVE  CtxInv'
  <2>1. DataInv' /\ \A d \in Fds : FdStep(None, d)
    BY <1>1, OpenCtx DEF socket
  <2>2. QED
    BY <1>1, <1>c, <2>1, NobodyCtx, FiberCtx DEF socket, Idle
<1>2. ASSUME NEW f \in Fibers, NEW fd \in Fds, NEW hooked \in BOOLEAN,
             hooked \/ UserBlocks \/ get(fd) = None, close(f, fd, hooked)
      PROVE  CtxInv'
  BY <1>2, CloseCtx
<1>3. ASSUME NEW f \in Fibers, close_f(f) PROVE CtxInv'
  BY <1>3, Close_fCtx
<1>4. ASSUME NEW f \in Fibers, NEW fd \in Fds, NEW arg \in BOOLEAN,
             fcntl(f, fd, arg) \/ ((arg \/ UserBlocks) /\ ioctl(f, fd, arg))
      PROVE  CtxInv'
  <2>1. CASE fcntl(f, fd, arg)
    BY <2>1, OptionsCtx
  <2>2. CASE (arg \/ UserBlocks) /\ ioctl(f, fd, arg)
    <3>1. arg = TRUE
      BY <2>2
    <3>2. ioctl(f, fd, TRUE)
      BY <2>2, <3>1
    <3>3. QED
      BY <3>2, OptionsCtx
  <2>3. QED
    BY <1>4, <2>1, <2>2
<1>6. ASSUME NEW f \in Fibers, NEW fd \in Fds, NEW e \in Events, NEW v \in {Never, "timeout"},
             setsockopt(f, fd, e, v)
      PROVE  CtxInv'
  BY <1>6, OptionsCtx
<1>7. ASSUME NEW f \in Fibers, NEW fd \in Fds, NEW e \in Events, NEW hooked \in BOOLEAN,
             Original(f, fd, e, hooked)
      PROVE  CtxInv'
  BY <1>7, <1>b, <1>c DEF Original, FilesKept, fds
<1>8. ASSUME NEW f \in Fibers, NEW fd \in Fds, NEW e \in Events,
             NEW name \in {"read", "accept", "write"}, do_io(f, name, fd, e)
      PROVE  CtxInv'
  <2> DEFINE c == [name |-> name, fd |-> fd, event |-> e,
                   to |-> get(fd).timeout[e], expired |-> FALSE, file |-> opens[fd]]
  <2>1. m_datas[fd] \in FdCtxs /\ get(fd) = m_datas[fd]
    BY <1>8 DEF do_io, CallsOriginal, get, Typed, DatasTyped
  <2>2. get(fd).timeout[e] \in {Never, "timeout"}
    BY <2>1 DEF FdCtxs
  <2>3. c \in Calls /\ c.fd = fd /\ c.file = opens[fd] /\ c.name # "close"
    BY <2>2, CallTyped DEF Typed
  <2>4. Begins(f, "try", c) /\ FilesKept /\ opens' = opens
    BY <1>8, <1>a, <1>d DEF do_io
  <2> HIDE DEF c
  <2>5. c.file <= opens'[c.fd]
    BY <2>3, <2>4 DEF Typed, KernelTyped
  <2>6. OthersSame(f) /\ OwnCtx(f)
    BY <2>3, <2>4, <2>5, StepsCtx DEF Pcs
  <2>7. QED
    BY <2>4, <2>6, FrameCtx
<1>9. ASSUME NEW f \in Fibers, NEW fd \in Fds, connect(f, fd) PROVE CtxInv'
  <2> DEFINE c == [name |-> "connect", fd |-> fd, event |-> "WRITE",
                   to |-> s_connect_timeout, expired |-> FALSE, file |-> opens[fd]]
  <2>1. c \in Calls /\ c.fd = fd /\ c.file = opens[fd] /\ c.name # "close"
    BY CallTyped DEF Typed, DatasTyped, Events
  <2>2. Begins(f, "run", NoCall) \/ Begins(f, "arm", c)
    BY <1>9 DEF connect
  <2>3. FilesKept /\ opens' = opens
    BY <1>9, <1>a, <1>d DEF connect
  <2> HIDE DEF c
  <2>4. OthersSame(f) /\ OwnCtx(f)
    <3>1. CASE Begins(f, "run", NoCall)
      <4>1. NoCall.name # "close"
        BY DEF NoCall
      <4>2. QED
        BY <3>1, <4>1, NoCallTyped, StepsCtx DEF Pcs
    <3>2. CASE Begins(f, "arm", c)
      <4>1. c.file <= opens'[c.fd]
        BY <2>1, <2>3 DEF Typed, KernelTyped
      <4>2. QED
        BY <2>1, <3>2, <4>1, StepsCtx DEF Pcs
    <3>3. QED
      BY <2>2, <3>1, <3>2
  <2>5. QED
    BY <2>3, <2>4, FrameCtx
<1>10. ASSUME NEW f \in Fibers, Try(f) PROVE CtxInv'
  BY <1>10, TryCtx
<1>11. ASSUME NEW f \in Fibers,
              AddConditionTimer(f) \/ AddEvent(f) \/ Resume(f) \/ getsockopt(f) \/ SleepEnds(f)
       PROVE  CtxInv'
  <2>1. /\ pc[f] # "close" /\ FilesKept /\ opens' = opens
        /\ Return(f) \/ \E where \in {"add", "getsockopt", "wait", "try"} : Goto(f, where)
    BY <1>11, <1>a, <1>d DEF AddConditionTimer, AddEvent, Resume, getsockopt, SleepEnds
  <2>2. OthersSame(f) /\ OwnCtx(f)
    <3>1. CASE Return(f)
      BY <3>1, StepsCtx
    <3>2. CASE \E where \in {"add", "getsockopt", "wait", "try"} : Goto(f, where)
      <4>1. PICK where \in {"add", "getsockopt", "wait", "try"} : Goto(f, where)
        BY <3>2
      <4>2. where \in Pcs /\ where \notin {"close", "blocked"}
        BY DEF Pcs
      <4>3. QED
        BY <2>1, <4>1, <4>2, StepsCtx
    <3>3. QED
      BY <2>1, <3>1, <3>2
  <2>3. QED
    BY <2>1, <2>2, FrameCtx
<1>15. ASSUME NEW f \in Fibers, sleep(f) PROVE CtxInv'
  <2> DEFINE c == [NoCall EXCEPT !.name = "sleep"]
  <2>1. c \in Calls /\ c.fd = None /\ c.name # "close"
    BY DEF NoCall, Calls, Events
  <2>2. Begins(f, "sleep", c) /\ FilesKept
    BY <1>15, <1>a DEF sleep
  <2> HIDE DEF c
  <2>3. OthersSame(f) /\ OwnCtx(f)
    BY <2>1, <2>2, StepsCtx DEF Pcs
  <2>4. QED
    BY <2>2, <2>3, FrameCtx
<1>16. ASSUME NEW fd \in Fds, NEW e \in Events, BecomesReady(fd, e) \/ Trigger(fd, e)
       PROVE  CtxInv'
  BY <1>16, <1>a, <1>b, <1>c DEF BecomesReady, Trigger, FilesKept, fds
<1>18. ASSUME NEW t \in timers, Expire(t) PROVE CtxInv'
  <2>1. /\ FilesKept /\ pc' = pc /\ t.fiber \in Fibers
        /\ call' = [call EXCEPT ![t.fiber].expired = @ \/ t.call = calls[t.fiber]]
    BY <1>18, <1>a, TimersTyped DEF Expire, Typed
  <2>2. \A g \in Fibers : /\ call'[g].fd = call[g].fd /\ call'[g].name = call[g].name
                          /\ call'[g].file = call[g].file
    BY <2>1 DEF Typed, FiberTyped, Calls
  <2>3. OthersSame(None) /\ None \notin Fibers
    BY <2>1, <2>2, HookAssumption DEF OthersSame
  <2>4. QED
    BY <2>1, <2>3, FrameCtx
<1>19. ASSUME NEW t \in timers, OnTimer(t) PROVE CtxInv'
  BY <1>19, <1>a, <1>b DEF OnTimer
<1>30. ASSUME NEW f \in Fibers, NEW fd \in Fds, NEW hooked \in BOOLEAN,
              OriginalAccept(f, fd, hooked)
       PROVE  CtxInv'
  BY <1>1, <1>30 DEF OriginalAccept, socket
<1>31. ASSUME NEW f \in Fibers, CallsItself(f) PROVE CtxInv'
  <2>1. Begins(f, "endless", NoCall) /\ FilesKept
    BY <1>31, <1>a DEF CallsItself
  <2>2. NoCall \in Calls /\ NoCall.name # "close" /\ NoCall.fd = None
    BY NoCallTyped DEF NoCall
  <2>3. OthersSame(f) /\ OwnCtx(f)
    BY <2>1, <2>2, StepsCtx DEF Pcs
  <2>4. QED
    BY <2>1, <2>3, FrameCtx
<1>20. ASSUME NEW v \in {Never, "timeout"}, ConnectTimeoutChanges(v) PROVE CtxInv'
  BY <1>20, <1>b, <1>c DEF ConnectTimeoutChanges, FilesKept, fds
<1>21. CASE UNCHANGED vars
  BY <1>21, <1>a, <1>b, <1>c DEF vars
<1>22. QED
  <2>1. ASSUME NEW f \in Fibers, NEW fd \in Fds,
               do_io(f, "read", fd, "READ") \/ do_io(f, "accept", fd, "READ")
               \/ do_io(f, "write", fd, "WRITE")
        PROVE  CtxInv'
    BY <1>8, <2>1 DEF Events
  <2>2. ASSUME NEW f \in Fibers, FiberStep(f) PROVE CtxInv'
    BY <1>1, <1>2, <1>3, <1>4, <1>6, <1>7, <1>9, <1>10, <1>11, <1>15, <2>1, <2>2, <1>30, <1>31
       DEF FiberStep
  <2>3. QED
    BY <1>16, <1>18, <1>19, <1>20, <1>21, <2>2 DEF Next

\* The contexts in every reachable state.
THEOREM CtxInductive ==
    ASSUME ~UserBlocks
    PROVE  Spec => [](Typed /\ CtxInv)
<1>1. Init => Typed /\ CtxInv
  BY InitTyped, InitCtx
<1>2. Typed /\ CtxInv /\ [Next]_vars => Typed' /\ CtxInv'
  BY NextTyped, NextCtx
<1>3. QED
  BY <1>1, <1>2, PTL DEF Spec

\* The context under a descriptor is the one of the file open there, however
\* the steps of close() interleave with other opens and calls.
THEOREM CtxOfFileAlways ==
    ASSUME ~UserBlocks
    PROVE  Spec => []CtxOfFile
<1>1. Typed /\ CtxInv => CtxOfFile
  BY DEF CtxInv
<1>2. QED
  BY <1>1, CtxInductive, PTL

\* A hooked call blocks its thread only on a file that was closed, or is being
\* closed, under the call.
THEOREM ThreadNotHeldAlways ==
    ASSUME ~UserBlocks
    PROVE  Spec => []ThreadNotHeld
<1>1. Typed /\ CtxInv => ThreadNotHeld
  BY DEF CtxInv
<1>2. QED
  BY <1>1, CtxInductive, PTL
=============================================================================
