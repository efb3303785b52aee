------------------------------- MODULE Thread -------------------------------
(***************************************************************************)
(* Threads, semaphores and locks (src/code/thread.{h,cc}).                 *)
(*                                                                         *)
(* The constructor starts the thread and waits on m_semaphore until run()  *)
(* has stored the thread's id and taken the callback out of the object, so *)
(* that the object may be destroyed as soon as the constructor returns.    *)
(* The POSIX calls are external.  A lock is modelled by who holds it.      *)
(***************************************************************************)
EXTENDS Naturals

CONSTANTS Threads,      \* Thread objects, each made at most once
          GivenName,    \* the name each is constructed with
          MainThread,   \* runs from the start and has no Thread object
          Renames,      \* names a thread gives itself with SetName
          None

VARIABLES object,       \* life of the Thread object
          m_name, m_id, m_thread, m_semaphore,
          run,          \* how far Thread::run has come
          t_thread_name

threadVars == <<object, m_name, m_id, m_thread, m_semaphore, run, t_thread_name>>

(***************************************************************************)
(* Locks.  Mutex, Spinlock, CASLock and the write side of RWMutex exclude  *)
(* everybody; the read side only excludes a writer, and the default        *)
(* pthread_rwlock lets a reader in while a writer waits.                   *)
(***************************************************************************)
Unlocked == [writer |-> None, readers |-> {}]
MayLock(l) == l.writer = None /\ l.readers = {}
lock(l, t) == [l EXCEPT !.writer = t]
MayRdlock(l) == l.writer = None
rdlock(l, t) == [l EXCEPT !.readers = @ \union {t}]
unlock(l, t) == IF l.writer = t THEN [l EXCEPT !.writer = None]
                                ELSE [l EXCEPT !.readers = @ \ {t}]

ThreadInit ==
    /\ object = [t \in Threads |-> "none"]
    /\ m_name = [t \in Threads |-> "UNKNOW"]
    /\ m_id = [t \in Threads |-> None]
    /\ m_thread = [t \in Threads |-> FALSE]
    /\ m_semaphore = [t \in Threads |-> 0]
    /\ run = [t \in Threads |-> IF t = MainThread THEN "running" ELSE "none"]
    /\ t_thread_name = [t \in Threads |-> "UNKNOW"]

\* The constructor up to m_semaphore.wait(); pthread_create may fail, and the
\* constructor then throws.
Construct(t, name) ==
    /\ object[t] = "none" /\ t # MainThread
    /\ m_name' = [m_name EXCEPT ![t] = IF name = "" THEN "UNKNOW" ELSE name]
    /\ \/ /\ object' = [object EXCEPT ![t] = "constructing"]
          /\ m_thread' = [m_thread EXCEPT ![t] = TRUE]
          /\ run' = [run EXCEPT ![t] = "created"]
       \/ /\ object' = [object EXCEPT ![t] = "gone"]
          /\ UNCHANGED <<m_thread, run>>
    /\ UNCHANGED <<m_id, m_semaphore, t_thread_name>>

\* A run() that notifies before it has stored the id (for comparison).
NotifyFirst(t) ==
    \/ /\ run[t] = "created"
       /\ run' = [run EXCEPT ![t] = "notified"]
       /\ m_semaphore' = [m_semaphore EXCEPT ![t] = @ + 1]
       /\ UNCHANGED <<object, m_name, m_id, m_thread, t_thread_name>>
    \/ /\ run[t] = "notified"
       /\ run' = [run EXCEPT ![t] = "running"]
       /\ t_thread_name' = [t_thread_name EXCEPT ![t] = m_name[t]]
       /\ m_id' = [m_id EXCEPT ![t] = t]
       /\ UNCHANGED <<object, m_name, m_thread, m_semaphore>>

\* Thread::run before the semaphore: names, id, and the callback swapped out.
RunEnters(t) ==
    /\ run[t] = "created"
    /\ run' = [run EXCEPT ![t] = "entered"]
    /\ t_thread_name' = [t_thread_name EXCEPT ![t] = m_name[t]]
    /\ m_id' = [m_id EXCEPT ![t] = t]
    /\ UNCHANGED <<object, m_name, m_thread, m_semaphore>>

\* m_semaphore.notify(), after which run() only calls the callback.
notify(t) ==
    /\ run[t] = "entered"
    /\ run' = [run EXCEPT ![t] = "running"]
    /\ m_semaphore' = [m_semaphore EXCEPT ![t] = @ + 1]
    /\ UNCHANGED <<object, m_name, m_id, m_thread, t_thread_name>>

\* m_semaphore.wait() returns and so does the constructor.  sem_wait fails, and
\* wait() throws, only when the handler of a signal interrupts it; the program
\* installs no handler.
wait(t) ==
    /\ object[t] = "constructing" /\ m_semaphore[t] > 0
    /\ m_semaphore' = [m_semaphore EXCEPT ![t] = @ - 1]
    /\ object' = [object EXCEPT ![t] = "alive"]
    /\ UNCHANGED <<m_name, m_id, m_thread, run, t_thread_name>>

\* Thread::SetName, called by the thread itself; t_thread is null in the main
\* thread.  A detached thread may have outlived the object it points at: the
\* write goes to freed memory, which nobody sees here or ends the process
\* (SetNameCrashes of module Config).
SetName(t, name) ==
    /\ run[t] = "running"
    /\ m_name' = [m_name EXCEPT ![t] = IF object[t] \in {"constructing", "alive"} THEN name ELSE @]
    /\ t_thread_name' = [t_thread_name EXCEPT ![t] = name]
    /\ UNCHANGED <<object, m_id, m_thread, m_semaphore, run>>

\* The callback returns.
Finish(t) ==
    /\ run[t] = "running" /\ t # MainThread
    /\ run' = [run EXCEPT ![t] = "finished"]
    /\ UNCHANGED <<object, m_name, m_id, m_thread, m_semaphore, t_thread_name>>

join(t) ==
    /\ object[t] = "alive" /\ m_thread[t] /\ run[t] = "finished"
    /\ m_thread' = [m_thread EXCEPT ![t] = FALSE]
    /\ UNCHANGED <<object, m_name, m_id, m_semaphore, run, t_thread_name>>

\* ~Thread: a thread that was not joined is detached and runs on.
Destroy(t) ==
    /\ object[t] = "alive"
    /\ object' = [object EXCEPT ![t] = "gone"]
    /\ UNCHANGED <<m_name, m_id, m_thread, m_semaphore, run, t_thread_name>>

ThreadStart(t) ==
    \/ Construct(t, GivenName[t])
    \/ RunEnters(t) \/ notify(t) \/ wait(t)
ThreadEnd(t) == Finish(t) \/ join(t) \/ Destroy(t)

(***************************************************************************)
(* Properties.                                                             *)
(***************************************************************************)

\* Handshake: once the constructor has returned, getId() is the thread's id
\* and run() has left the object alone for good, so that destroying it cannot
\* pull it away under the thread that is starting (thread.cc:71, 113-116).
Handshake ==
    \A t \in Threads :
        /\ object[t] = "alive" => m_id[t] = t
        /\ run[t] \in {"created", "entered", "notified"} => object[t] = "constructing"
=============================================================================
