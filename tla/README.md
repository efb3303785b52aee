# CXS_Server: a TLA+ verification project

CXS_Server is a C++ network framework: user-level fibers scheduled on a pool of
threads (M:N), an epoll-driven IOManager with timers, hooked system calls that
turn blocking I/O into fiber switches, byte buffers, configuration and logging,
and a TCP/HTTP server on top. This project models these parts, checks them with
TLC on small instances and proves with TLAPS, for all instances, the main
invariants of the timer manager, the scheduler, the event manager, the hooked
calls, the configuration, the byte array, the addresses, the sockets, the HTTP
messages and the HTTP server, and that the byte array implements a flat buffer.

## The system

| component | state | operations | talks to |
|---|---|---|---|
| `Timer`, `TimerManager` (timer.*) | ordered set `m_timers`, `m_tickled`, `m_previouseTime`; per timer `m_next`, `m_ms`, `m_recurring`, `m_cb` | addTimer, addConditionTImer, cancel, refresh, reset, getNextTimer, listExpiredTimer | IOManager::idle drives it; user threads call it; virtual onTimerInsertedAtFront wakes an idle thread |
| `Scheduler` (scheduler.*) | `m_fibers`, `m_activeThreadCount`, `m_idleThreadCount`, `m_stopping`, `m_autoStop`; locals of run() | start, schedule, run, idle, stopping, stop | threads run it; fibers and IOManager schedule into it |
| `Fiber` (fiber.*) | `m_state`, `m_cb`, saved context | reset, swapIn, swapOut, YieldToReady, YieldToHold, MainFunc | switched to by run() |
| `IOManager` (iomanager.*) | `m_fdContexts`, per context `events` and two EventContexts, `m_pendingEventCount`, the tickle pipe | addEvent, delEvent, cancelEvent, cancelAll, idle, tickle, stopping, contextResize | epoll; Scheduler; TimerManager |
| hook (hook.cc) | `t_hook_enable`, `timer_info` of a call | do_io, connect_with_timeout, sleep, close, fcntl, ioctl, setsockopt | IOManager events and timers, FdManager |
| `FdManager`, `FdCtx` | `m_datas`, flags and timeouts of a descriptor | get, del, setTimeout | hook |
| Thread, Semaphore, locks | pthread objects | create/join, wait/notify, lock | everything |
| Config | `m_value`, `m_cbs`, the table of variables | Lookup, setValue, addListener, LoadFromYaml | Log, TCPServer, hook |
| Log | loggers with level, formatter, appenders; the logger manager | log, the macros, setFormatter, addAppender, clearAppenders, the listener of "logs" | Config, Thread |
| ByteArray | node list, `m_position`, `m_size`, `m_capacity`, `m_current` | typed reads and writes, setPosition, addCapacity, iovec buffers, files | streams |
| Address | value classes | masks, prefixes, order, host:service | Socket |
| Socket, SocketStream | descriptor, connected flag, cached addresses | bind, listen, accept, connect, close, send, recv | hook |
| TCPServer, HttpSession, HttpServer | listening sockets, `m_isStop`; parse buffer | start, stop, accept loop; recvRequest, sendResponse, handleClient | Socket, IOManager, parser |
| HTTP parsers and messages | Ragel state, mark, field marks; header maps | execute, callbacks, isFinished; dump, setHeader | HttpSession |
| util, macros | | | |

What is hard here: unlocked reads and writes of `Fiber::m_state` on both sides
of a context switch; values checked under one lock and used under another
(`listExpiredTimer`, `addEvent`, `close`, `setValue`); events reported for
registrations that have changed since; the decision that the pool may stop,
taken from counters that other threads are changing; timeouts racing with
events; descriptor numbers reused under a waiting call; a stop() whose work
happens later; input cut into buffers at any byte; integer widths and node
boundaries. `PROJECT.json` lists each at its line under "hazards".

## Modules

| module | models | state and actions |
|---|---|---|
| `TimerManager` | timer.h, timer.cpp and the timer half of IOManager::idle | one action per critical section of `m_mutex`; variables carry the code's names; `pc`, `self`, `arg`, `now_ms`, `cbs` are the threads' locals; `deadline`, `announced` say what a thread sleeps for and whether onTimerInsertedAtFront was called since; `fired`, `cancelled` are history |
| `Scheduler` | scheduler.hpp/.cc, fiber.cc | `pc[th]` follows run(); `cur[th]` is the fiber on whose stack the thread is, which differs from `m_state` while a switch is under way; every read or write of `m_state` on either side of a switch is its own action, and so are the two reads of IOManager::stopping(); `armed` are fibers registered with an event or timer |
| `IOManager` | the event half of iomanager.h/.cc, close() of hook.cc | an operation is a lookup under the table's lock and an action under the context's lock; `interest` and `open` are the kernel's side, `raced` are the descriptors closed under a registered event; `reports[d]` is what epoll_wait returned to dispatcher d and has not been handled yet |
| `Hook` | hook.cc, fd_manager.* | one action per step of do_io between two points where another thread can act: the try, addConditionTImer, addEvent, the resumption; `waiting[fd][event]` and `scheduled` are what IOManager and Scheduler offer, `timers` the pending and listed callbacks, `file` and `opens` the kernel's descriptors, `call[f].file` the file a call was made for |
| `ByteArray` | bytearray.*, endian.h | the array is one record `ba` with the code's fields and `segv`; an action per public call, each loop over nodes as what it leaves and reads |
| `FlatBuffer` | the promise of ByteArray | one sequence of bytes with a position; `ByteArray!IsFlatBuffer` is the refinement |
| `Thread` | thread.h, thread.cc | the constructor's handshake with run(), names, join, destruction, and the locks the other modules use |
| `Log` | log.h, log.cc | loggers as records, an event between the macro, the unlocked level test and the locked delivery, the listener of "logs" as the list of calls it has still to make, the pattern parser as operators |
| `Config` | config.hpp, config.cc, composed with `Log` and `Thread` | `load[t]` follows LoadFromYaml and setValue through compare, notify and assign; conversions as operators on YAML nodes |
| `Http11Parser`, `HttpClientParser` | http11_paeser.rl.cc, httpclient_paeser.rl.cc with their .rl files | one step per byte: next state and the list of Ragel actions; a state is a tuple that says what was read |
| `HttpMessage` | http.h, http.cc | header map, close flag, body length; the lines dump() writes |
| `HttpParser` | http_parser.*, composes the three above | the parser object: mark, field_start, query_start relative to the current buffer, callbacks, buffers that end anywhere |
| `Address` | address.cc | operators over short addresses |
| `Socket` | socket.* | operators on the record of descriptors and socket objects; close is two steps |
| `HttpServer` | tcp_server.*, http_session.*, http_server.*, stream.cc, composes `Socket` and `Address` | bind, start, stop, release and destructor in any order, the accept loops, the deferred lambda of stop() step by step, one handler per connection, clients that connect again |
| `TimerManagerProofs`, `SchedulerProofs`, `IOManagerProofs`, `HookProofs`, `ConfigProofs`, `ByteArrayProofs`, `HttpServerProofs`, `HttpParserProofs` | | theorems about the module of that name and what it composes: `ConfigProofs` also about `Thread`, `HttpServerProofs` about `Socket` and `Address`, `HttpParserProofs` about `Http11Parser`, `HttpClientParser` and `HttpMessage` |
| `MCTimer`, `MCScheduler`, `MCIOManager`, `MCByteArray`, `MCConfig`, `MCHook`, `MCHttp`, `MCNet` | | values and symmetry sets for the configurations |

Abstractions. Callbacks, fibers, listeners and variables are identities. The
wall clock is a small counter that may also be set; `Hour` and `Wrap` stand for
60*60*1000 and 2^64. In TimerManager a thread may wake from epoll_wait at any
moment (event, signal, tickle, timeout), so lost wake-ups are judged by
`FrontAnnounced`, whether onTimerInsertedAtFront is called, not by delay and not
by whom the pipe then wakes. In Scheduler a waker is an abstract environment
action, either only after the fiber is parked (`WakeEarly = FALSE`, what a pool
of one thread guarantees) or at any time after registration (`TRUE`). In
IOManager a task that is resumed simply runs again; callers use each direction
of a descriptor for one waiter at a time, and everything else that callers,
kernel and heap can do is always on. Hook takes a registration
and its wake-up from IOManager as one step each, and time as the nondeterministic
expiry of pending timers. A byte of ByteArray has `ByteBits` bits and an integer
as many bytes as in the code, so that all widths keep their proportions. HTTP
bytes are classes the grammars distinguish; a token is judged by whether the
slice handed to a callback is all of it, its tail or something else, which is
all the properties need. A message on a connection is a head and as many body
pieces as its content-length says. A failed `CXS_ASSERT` sets `failed` (or
`died`) and stops the process; a null dereference or a read of memory that is
not the object's does so as `segv` or `crashed`, an uncaught std::length_error
and a refused buffer as the state "crash", a data race on `m_socks` and a
callback of a destroyed server as `died`. A call that never returns stays in the
label "endless".

The two byte machines were translated from the generated code, including its
grammar's peculiarities (a method list, `6( h16 ":" )` read as the byte 6, the
XML and JSON starts of Mongrel2). They were compared with the tables of the
generated code state by state, for all 349 and 123 states and every class of
bytes, and are bisimilar to them with the same actions on every transition.

Environment constants name what callers and the kernel do: `Pins`, `Switches`,
`WakeEarly`, `EarlyExpiry` (a timer may expire before its addEvent), `UserBlocks`
(threads without hooks close hooked descriptors, or clear O_NONBLOCK by ioctl),
`Heaps` (the bytes of an uninitialised iovec length), `Fates` (how connect and
accept of a connection may end).

## Runs

| run | shows |
|---|---|
| timer_race | two idle threads and a caller, two timers: `CbIffQueued`, `OneShotOnce`, `FrontAnnounced` |
| timer_live | two idle threads, a clock that may be set back across the rollover threshold: `EventuallyListed` under fairness |
| sched_stop | a use_caller pool of three threads, callbacks that schedule, yield to ready, end or throw: `NoDoubleRun`, `NoAbort`, `DrainedAtStop`, and under fairness `StopReturns`, `EveryCbEnds` |
| sched_race | fibers that wait for events, wake-ups at any moment: `ActiveExact` |
| io_events | three tasks and a dispatcher, hang-ups, closes beside addEvent, uninitialised contexts, a table that grows and shrinks: `PendingExact`, `ExactlyOneWake`, `KernelAgrees` |
| bytes | nodes of 1 and 3 bytes, growth to 6: `CurrentInStep`, `ReadBack`, `BuffersCover`, and the refinement `IsFlatBuffer` |
| config_log | two threads, three declared variables of which two share a key, listeners that register at any time, reloads beside logging: `Handshake`, `ConvertersReadBack`, `LoggersMatchConfig`, `NoStrayLine`, `AnnouncedFirst` |
| hook_io | two fibers, two descriptor numbers, two opens of each: `OneWake`, `TimeoutHonest`, `ThreadNotHeld`, `CtxOfFile`, and under fairness `SleepReturns` |
| http_parser | every message either grammar accepts or refuses, cut anywhere: `WholeTokens`, `FieldWhole`, `HeadEnds`; every message of three fields: `DumpReadsBack` |
| net | a server on two addresses that is bound, stopped, released and restarted in any order, two clients that connect again, time-outs: `FdOwned`, `InStep`, and under fairness `StopEnds`; `AddressesAgree` over all short addresses |

Two runs end in a counterexample and are the findings of `PROJECT.json`.
hook_lost_timeout: do_io arms its timer before it registers the event, so a timer
that expires in between cancels nothing and leaves the fiber without a timeout.
sched_early: a fiber that is woken before its thread is back in run() is set to
HOLD while it runs on another thread, and the assertion of iomanager.cc:163
(`AddEventInExec`) fails at its next addEvent.

### Other disagreements the models show

Each can be reproduced by checking the named definition with the constants
given, on top of the configuration of the run in brackets.

* `TimerManager`: onTimerInsertedAtFront of IOManager is tickle(), which writes
  nothing while any thread is idle (iomanager.cc:289-297), so a thread that
  waits for an older deadline sleeps on past a new front timer, for up to the
  3 s of MAX_TIMEOUT; and one byte in the edge-triggered pipe wakes one thread.
  Label "segv": with two threads listExpiredTimer can dereference begin() of a
  set emptied after its check.
* `Scheduler!NoDoubleRun`, `NoAbort` [sched_race]: fail for fibers that wait
  for events: two threads can be on one stack, and the assertions of addEvent,
  swapIn, reset or ~Fiber fail.
* `Scheduler!HeldIsResumed` [sched_race]: all threads can leave run() while a
  fiber still waits for an event; scheduler.cc:214 says it is pulled up again.
* `Scheduler!RunsOnPinnedThread` [sched_stop]: a pinned callback moves to
  another thread after YieldToReady (scheduler.cc:186, 208; scheduler.hpp:85-87
  document the pin). With `Pins = {"other"}` an entry pinned to a thread that
  has left run() keeps stop() from returning.
* `IOManager!RegisteredIsReachable` [io_events]: of two concurrent growths of
  the table the second shrinks it and drops a registered context.
* `IOManager!TriggerRegistered` [io_events]: EPOLLHUP on a descriptor registered
  in one direction fails the assertion of iomanager.cc:80.
* `IOManager!AddEventUnregistered` [io_events]: addEvent between cancelAll and
  close_f leaves a dead registration that aborts the next user of the number
  (iomanager.cc:133); and the first addEvent on a context may abort on the
  uninitialised scheduler pointer ("stale context").
* `Hook`, `UserBlocks = TRUE`: a close without hooks leaves a stale context
  (`CtxOfFile`), FIONBIO of ioctl makes hooked calls block (`ThreadNotHeld`).
* `Hook!CallsItself`: ioctl(FIONBIO) on a descriptor that has no socket context,
  and fcntl with F_GETFL, F_GETFD and the other getters or an unknown command,
  call themselves instead of the original (hook.cc:412, 440, 459, 475).
* `ByteArray!readOverruns`: at every node but the last, read copies all that is
  left to read (bytearray.cc:379, 413), from behind the node's block; the result
  is right when that does not end the process.
* `ByteArray`: `segv` after addCapacity counted a node too few, after
  setPosition(m_capacity), and in writeToFile from inside a node;
  getReadBuffers(len) returns the last piece only; readFloat, readDouble and
  EncodeZigzag64 do not invert their writers; a string longer than its size
  field can say gets a wrong size in front of it (no `Fitting`).
* `Config`, `Log`, `MCDocs[tB] = LogDocs` [config_log]: two threads that load
  "logs" at once run its listener at once, under a shared lock; the loggers end
  as a mixture of the two (`LoggersMatchConfig`), or keep a file that neither
  value names any more (`NoStrayLine`).
* `Config`: a scalar or an empty node under "logs" reads as the empty set and
  deletes all loggers (config.hpp:115-126). A listener that registers between
  the two critical sections of setValue is never told of the value. `Log`: a
  definition that names no formatter, or one with an error, leaves its logger
  the formatter it had (log.cc:821-824).
* `Thread`: SetName of a detached thread whose object was destroyed writes to
  freed memory (`Config!SetNameCrashes`).
* `HttpParser`: a token cut by the end of a buffer is delivered as its tail; a
  field whose name and value lie in two buffers ends in error 1002; a query cut
  so may end in std::length_error, because query_start is not reset; in a
  response a field with an empty value takes the next line for its value and
  may end in one of three done states that is_finished does not know. A request
  line without a colon is read on over its end and over the empty line: the head
  "GET / HTTP/1.1, foo, (empty)" is never finished (`HeadEnds` says nothing of
  it). `RefusedBuffer`: a response buffer that no NUL ends fails an assertion,
  and an empty one returns -1, which execute() passes to memmove as a size_t.
* `HttpMessage`: with an empty body dump() writes a stored content-length as it
  is, so that the reader waits for a body that does not come.
* `HttpServer`: bytes behind a request are dropped with the buffer; a timed-out
  read in a body is counted as progress; start() before the callback of stop()
  puts two accept loops on one descriptor; with two accept threads a loop can
  register between cancelAll and close and wait for ever; one refused address
  drops all sockets of bind(), those of a running server too, and stop() then
  wakes no accept loop (`Stranded`). The vector of failures is not cleared by
  bind(): the retry loop of test/test_tcp_server.cc:15-17 never succeeds after
  one failure. The callback of stop() has the bare `this` and no lock: a server
  released before it runs is used after it is gone. An accept that fails for
  want of descriptors, or on a closed socket, is repeated without giving the
  thread back (`Spins`); on a pool of one thread no handler runs again. An error
  of the first write is not seen by writeFixSize, whose size_t counts it as
  progress, and the next write is a SIGPIPE.
* `Socket`: when init() refuses an accepted descriptor nobody closes it; connect
  to an address of another family leaves the socket open; the peer's address is
  kept over close(), so an object that connects again has the old one.
* `Address`: networkAddress keeps the host bits, IPv6 broadcast and a prefix of
  128 go wrong, an IPv6 host without port is not split from its brackets;
  `AddressesAgree` claims the rest.
* `Log`: a reload with an unchanged definition dereferences a null logger.

### Bounds

Two threads are enough for every race between a thread and its successor, and
timer_race adds a third that only calls, sched_stop the caller's. Two timers
give a front and a non-front, two delays give equal and different deadlines.
timer_live sets the clock to 0 from 2 or 3 with `Hour = 1`, which is a rollover.
A pool needs at most one Fiber object per callback, so `Fibers` is as large as
`Cbs` and runCb never lacks one. Three tasks give a waiter, a canceller and a
closer; descriptors 2 and 4 with a table of 2 grow it to 3 and 6, so that one
growth can undo the other. `MaxAllocs` bounds how often a context is allocated
again.

In bytes, base sizes 1 and 3 put node ends inside and between values of two
bytes, and a capacity of 6 is two nodes of three. The numbers -3 and 1 have
both signs, and their varints one and two groups; the length before a string is
the integer of fixed width, written and read in either byte order. The other
widths are left to `ByteArrayProofs`. In hook_io two opens of a
number are one reuse,
`MaxCalls` two calls, so that a callback of one meets the next; one option
change and one readiness per descriptor suffice to flip what a waiting call
assumed. In config_log the main thread loads twice, so that definitions are
added, changed, kept and removed, while the other loads, logs and edits
loggers. http_parser bounds only the number of buffers (`MCBuffers`): the
machines are finite and messages of any length are read; four edits reach every
header map of interest. In net two addresses, two connections and three
descriptors make numbers scarce enough to be reused and accept to meet EMFILE;
`Fates` lets the first connection fail in every way while the second is made;
five calls of user and clients are a bind, a start, a stop and a second round, or
a connection with two requests;
`MaxStarts = 2` is one restart, bodies have none or two pieces so that one can
be cut. Deadlock is not checked where the process may have aborted, where
modelled time or input ends or where a fiber whose event was deleted waits for
ever.

### Fairness

`TimerManager!FairSpec`: the clock advances, it is set only finitely often, and
each idle thread keeps going round its loop, since its epoll_wait is bounded by
MAX_TIMEOUT; callers promise nothing. `Scheduler!FairSpec`: the operating system
runs every thread, callbacks yield or end, Main starts and stops the scheduler,
and an event that a fiber waits for arrives in the end. `Hook!Spec`: sleep
timers expire, their callbacks are run and a scheduled fiber resumes; I/O calls
are promised nothing. `HttpServer!Spec`: the callback of stop(), the accept
fibers and the handlers run when they can, which cooperative threads give that
take what is scheduled in its order, as long as each fiber gives its thread back
where it waits. An accept loop whose accept fails at once does not, and
`StopEnds` excepts the behaviours in which one spins; clients promise nothing.
Apart from the clock settings all of it is weak fairness.

## Proofs

Every theorem holds for all values of the constants that meet the named
assumptions of its module, which only say what a constant is (finite sets of
threads, natural sizes, byte strings made of bytes, "logs" as the one variable of
log definitions, documents as lists) and which TLC evaluates on the runs. Where a theorem needs more, it says so as a hypothesis, and dropping
the hypothesis makes the property false: each is a case listed under "other
disagreements".

| module | theorem | hypothesis | run |
|---|---|---|---|
| `TimerManagerProofs` | `TypeCorrect`, `CbIffQueuedAlways`, `OneShotOnceAlways` | none | timer_race |
| | `FrontAnnouncedAlways` | `ClockSets = {}` and `[]NoRollover` | timer_race |
| `IOManagerProofs` | `TypeCorrect`, `PendingExactAlways`, `ExactlyOneWakeAlways`, `KernelAgreesAlways` | none | io_events |
| `HookProofs` | `OneWakeAlways`, `TimeoutHonestAlways` | none | hook_io |
| | `CtxOfFileAlways`, `ThreadNotHeldAlways` | `~UserBlocks` | hook_io |
| `SchedulerProofs` | `TypeCorrect`, `ActiveExactAlways` | none | sched_race |
| | `NoDoubleRunAlways`, `NoAbortAlways` | `"hold" \notin Switches` | sched_stop |
| | `DrainedAtStopAlways` | `ReadyOnly` | sched_stop |
| `ConfigProofs` | `HandshakeAlways`, `AnnouncedFirstAlways` | none | config_log |
| | `LoggersMatchConfigAlways`, `NoStrayLineAlways` | `OneLoader` | config_log |
| `ByteArrayProofs` | `CurrentInStepAlways`, `RefinesFlatBuffer`, `BuffersCoverAlways` | none | bytes |
| | `ReadBackAlways` | `Fitting` | bytes |
| `HttpServerProofs` | `FdOwnedAlways`, `InStepAlways`, `AddressesAgreeAlways` | none | net |
| `HttpParserProofs` | `WholeTokensAlways`, `FieldWholeAlways`, `HeadEndsAlways`, `DumpReadsBackAlways` | none | http_parser |

None of the invariants is inductive as it stands. What each proof adds to it,
and why:

* `TimerManager`. `IInv` adds the life cycle of a Timer: an object that is not
  allocated or in flight in some addTimer has no history, two threads never
  insert the same object (`InsertUnique`), a reset works on a returned pointer
  (`ResetHeld`), and a one-shot timer that was listed, handed over or cancelled
  has lost its callback for good (`SpentIsDead`). The last is the heart of it:
  listExpiredTimer only sees timers in the set, those have a callback by
  `CbIffQueued`, hence are not spent. `FrontInv` adds for `FrontAnnounced` that a
  deadline is at most its delay away (`StartPast`), that a worker's reading of
  the clock is of the past (`ClockRead`), and that everyone who waits while
  `m_tickled` suppresses the call has had one (`TickledTold`). The hypothesis
  is needed: a worker that takes the lock an hour after another has read the
  clock looks like a clock set back to detectClockRollover, every timer
  expires early, and with `Hour = 0` TLC finds a worker that was not told.
* `IOManager`. `WakeInv` counts (`Counted`): the pending count is the number of
  registered events, and a registration, a scheduled task and a waiting task
  correspond one to one (`Waking`), whatever the kernel reports. For
  `KernelAgrees` no strengthening of the state is needed: each operation compares
  `events` with the kernel under the context's lock or changes neither, and
  `raced` takes in the one step, close(), that changes only the kernel's side.
* `Hook`. `WakeInv` follows a fiber through its call and says in which slot or
  queue it stands at each step. `HonestInv` ties a timer to one call of one
  fiber (`TimerOfCall`), says that a listed timer of the running call has marked
  that call (`Marked`), and that a fiber outside a call has no `tinfo`
  (`NoTinfo`). `CtxInv`
  says that a context in the table is that of the open file, that the kernel's
  O_NONBLOCK is set while it is there, and what a close between its two steps
  has done. The proof showed that `ThreadNotHeld` must allow a descriptor whose
  close is under way: cancelAll has woken the reader and the context is deleted,
  another fiber's fcntl reaches the kernel directly and clears O_NONBLOCK, and
  the retried read blocks.
* `Scheduler`. `PoolInv` fixes by the thread's label what it holds (`Shape`), so
  that `m_activeThreadCount` counts labels. `OwnInv` says that every fiber is in
  one place: on one thread's stack, in one entry of the queue or spare
  (`OneOwner`, `QueueOnce`, `QueueFree`, `Placed`, `TakenFree`), and what its
  `m_state` is there; the assertions and `NoDoubleRun` follow. It needs callbacks
  that do not wait for events: a waiting fiber is also in the hands of its waker,
  and sched_early shows what then happens. `DrainInv` tracks
  every callback that has not ended to a queue entry or a thread (`Tracked`) and
  says that every entry has a thread that may take it and will look at the queue
  again (`Watched`), so that none is left when all have gone (`Halted`). It needs
  callbacks that do not wait and do not pin to another thread (`ReadyOnly`); with
  either, stop() returns with work left or does not return.
* `Config`, `Thread`. `ThreadInv` ties the position of the constructor to that
  of run() (`Together`). `ToldInv` says that a setValue between notify and
  assign has told each listener of its value or still has it on its list
  (`Informs`); a listener that registers meanwhile waits for the read lock
  (`ReadLocked`) or comes too late, which `AnnouncedFirst` excepts.
* `Config`, `Log`. `LogsInv` says that "logs" is the one variable of its type
  and that the calls left in `reload` belong to a setValue of it; `LoggersInv`
  that a logger's formatter and those of its appenders are free of errors. The
  list that the listener works off is one block of calls per definition, level
  first and appenders last, and then the deletions (`IsScript`). `MatchInv` says
  of each logger how far the calls made so far have brought it from the old
  definitions to the new ones (`Half`); before the first call that is the old
  value in force, after the last one the new value (`Settled`). A thread that
  logs or changes a logger by hand meanwhile keeps it, because no appender gets
  a file but from a definition. That a definition written as YAML reads back is
  `DefineReadsBack`. `OneLoader` says that the documents of one thread at most
  have the key of "logs": setValue calls the listener under a shared lock.
* `ByteArray`. `ArrayInv` is `CurrentInStep` with the types. The closed forms of
  the loops are arithmetic of quotient and remainder; the steps show that
  addCapacity keeps the bytes even when it appends a node too few, that a
  sequence of writes is the write of their concatenation (`WrittenTwice`), and
  that a read returns the part of the contents it moves over (`Took`). For
  `BuffersCover`, the buffers end where nodes do (`EdgesMeet`), and the turns of
  writeToFile that begin at the start of a node put the bytes up to the next
  node's start into the file (`InFile`); one that begins inside a node asks
  for a wrong length, which the property leaves out. What the recursive functions inside these definitions compute is shown by `Induction`:
  a set of naturals with 0 and every successor is all of `Nat`.
  `ReadBack` needs `ValuesHold`: the bytes of every value that was written and
  not overwritten lie at its place, encoded in the byte order of the time. Then
  it is arithmetic: the digits of a number, added up again, are its remainder
  (`DigitSum`), for bytes as for groups of one bit less; the groups the encoder
  makes are enough for the number and not more than the reader's loop takes
  (`GroupsFit`), and all but the last have the top bit, so that the reader
  stops where the encoder did whatever bytes follow (`VariableBack`). `Fitting`
  says that a string is shorter than its size field can say (the code cuts the
  size silently and the rest of the string would be read as the next value) and
  that the argument of writeint32 is an int32_t.
* `HttpServer`, `Socket`. `NetInv` states `FdOwned` of any record of descriptors
  and objects, so that each call of Socket is a lemma that keeps it and leaves
  the other objects alone (`Good`), and an action that makes several calls chains
  them; bind of a list goes by induction over the list. It adds that an object
  with a number is alive and its file open, that only the socket which the
  callback of stop() is at is between the two steps of close(), and m_socks still
  has it (`StopOk`), and that a connection that nobody has made or accepted yet
  has no object (`Fresh`): otherwise the constructor would drop a descriptor. `StreamInv` says how far each client fiber is in its stream
  (`InStream`): the answers and the requests sent differ by at most one, and
  what is unread is nothing, the whole request, or the end of its body that the
  fiber still asks for. Only the fiber's own reads and the client's sends change
  that; a client that sends before the answer is no longer covered by `InStep`,
  so the invariant also counts the answers a client has had.
* `Address`. A question is asked of all addresses at once, so the invariant only
  says which questions there are (`Asked`); the work is in the operators. A mask
  of n bits is a sum of powers of two, of which CountBytes counts n
  (`CountIs`, by induction on the bits it clears); an IPv6 mask is n bits cut
  into bytes, whole ones, one partial and zeros, and what is counted byte by
  byte adds up to n (`PrefixParts`). The text of an IPv6 address is two joined
  lists of groups around one gap; a reader that counts the groups knows how many
  zeros the gap stands for (`JoinedReads`, `GappedReadsBack`).
* `HttpParser`. `ParserInv` walks a machine beside the reader of the grammar that
  the properties refer to. `AtRequest` and `AtResponse` pair the places: which
  states of the machine, with their counters, stand where in the message. `Held`
  says for each place that the mark of the token being read is in this buffer or
  the token was cut by its end, and `HasDelivered` which parts of the first line
  the callbacks have stored. There are four ways to be sound (`Sound`): the
  machine has given up (`Given`), it is where the reader is (`Paired`), both are
  at the end of the head (`Ended`), or a response with an empty value has led
  the machine into the next line (`Gone`); then it stays among the states of
  header fields (`Astray`), and only what `FieldWhole` and `HeadEnds` still claim
  is kept. The proof has one lemma for each group of states: which byte leads
  where and with which actions; and one for each action of the grammar: what it
  leaves of the marks and the texts. The number and the ends of the buffers are
  arbitrary, and so are the bytes.
* `HttpMessage`. `MessageInv` says that the header map is a function from names
  to a spelling and a value. SetToSeq lists each name once (`SetToSeqLists`), so
  dump() has the connection line, the lines of the other fields and the length
  line in this order (`ThreeParts`), and a parser keeps the last of the lines of
  one name (`StoredLast`), which for content-length is the one that dump() adds.

Only model-checked:

* liveness (`EventuallyListed`, `StopReturns`, `EveryCbEnds`, `SleepReturns`,
  `StopEnds`, `TimeoutArmed`): fairness and ENABLED are outside the prover's
  reach;
* `ConvertersReadBack` of `Config`: its first half runs the pattern parser over
  a finite set of patterns, which is a computation and not an argument, and for
  patterns of any length it would be an induction over data.

## Not modelled

`PROJECT.json` gives the status of every component. Left out: the tickle pipe
and m_idleThreadCount, which only decide how long a thread sleeps; stack
allocation, ids and counters of fibers; date texts and the periodic reopen of
log files; getaddrinfo, getifaddrs and the text of addresses other than IPv6; send and recv
of Socket, which forward to hooked calls; the stateless helpers of util and the
macros other than CXS_ASSERT.

## Plan

Open: the tickle pipe of IOManager, with the three hazards that have no property.
