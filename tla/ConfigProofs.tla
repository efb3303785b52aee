---------------------------- MODULE ConfigProofs ----------------------------
(***************************************************************************)
(* Theorems about threads and config variables, for any threads, variables,*)
(* listeners and documents.                                                *)
(*                                                                         *)
(* Handshake follows from what the semaphore says of the two threads that  *)
(* share a Thread object.  AnnouncedFirst needs what a setValue that has   *)
(* released its lock, and has not assigned yet, remembers.                 *)
(*                                                                         *)
(* LoggersMatchConfig and NoStrayLine follow from one invariant: between   *)
(* two calls of the listener of "logs" every logger is as far as the calls *)
(* made so far bring it from the old value to the new one (Half), and when *)
(* no setValue is under way it is as the value says (Settled).             *)
(***************************************************************************)
EXTENDS Config, TLAPS, WellFoundedInduction, FiniteSetTheorems, SequenceTheorems

-----------------------------------------------------------------------------
(* Thread and its constructor.                                             *)

Early == {"created", "entered"}
Late == {"running", "finished"}

\* The state that constructor and run() share.
ThreadTyped ==
    /\ DOMAIN object = Threads /\ DOMAIN m_id = Threads
    /\ run \in [Threads -> {"none"} \union Early \union Late]
    /\ m_semaphore \in [Threads -> Nat]

\* Who has come how far.  A semaphore that can be taken has been notified by a
\* run() that is done with the object, and only the constructor takes it.
Together(t) ==
    /\ object[t] = "none" => m_semaphore[t] = 0 /\ (t = MainThread \/ run[t] = "none")
    /\ t = MainThread => object[t] = "none" /\ run[t] \in Late
    /\ run[t] \in Early => object[t] = "constructing" /\ m_semaphore[t] = 0
    /\ run[t] \in {"entered"} \union Late /\ t # MainThread => m_id[t] = t
    /\ m_semaphore[t] > 0 => run[t] \in Late /\ t # MainThread
    /\ object[t] = "alive" => run[t] \in Late /\ t # MainThread
ThreadInv == ThreadTyped /\ \A t \in Threads : Together(t)

\* A step of one thread leaves the objects of the others alone.
LEMMA ThreadStepInv ==
    ASSUME ThreadInv, NEW t \in Threads,
           \/ \E name : Construct(t, name) \/ SetName(t, name)
           \/ RunEnters(t) \/ notify(t) \/ wait(t) \/ Finish(t) \/ join(t) \/ Destroy(t)
    PROVE  ThreadInv'
<1> USE DEF ThreadInv, Early, Late
<1>1. ThreadTyped /\ Together(t)
  OBVIOUS
<1>2. /\ ThreadTyped'
      /\ \A u \in Threads : u # t => /\ object'[u] = object[u] /\ m_id'[u] = m_id[u]
                                     /\ run'[u] = run[u] /\ m_semaphore'[u] = m_semaphore[u]
      /\ Together(t)'
  <2>1. CASE \E name : Construct(t, name)
    <3>1. /\ object[t] = "none" /\ t # MainThread /\ UNCHANGED <<m_id, m_semaphore>>
          /\ \/ /\ object' = [object EXCEPT ![t] = "constructing"]
                /\ run' = [run EXCEPT ![t] = "created"]
             \/ object' = [object EXCEPT ![t] = "gone"] /\ run' = run
      BY <2>1 DEF Construct
    <3>2. CASE object' = [object EXCEPT ![t] = "constructing"] /\ run' = [run EXCEPT ![t] = "created"]
      BY <1>1, <3>1, <3>2 DEF ThreadTyped, Together
    <3>3. CASE object' = [object EXCEPT ![t] = "gone"] /\ run' = run
      BY <1>1, <3>1, <3>3 DEF ThreadTyped, Together
    <3>4. QED
      BY <3>1, <3>2, <3>3
  <2>2. CASE \E name : SetName(t, name)
    BY <1>1, <2>2 DEF SetName, ThreadTyped, Together
  <2>3. CASE RunEnters(t)
    BY <1>1, <2>3 DEF RunEnters, ThreadTyped, Together
  <2>4. CASE notify(t)
    BY <1>1, <2>4 DEF notify, ThreadTyped, Together
  <2>5. CASE wait(t)
    BY <1>1, <2>5 DEF wait, ThreadTyped, Together
  <2>6. CASE Finish(t) \/ join(t) \/ Destroy(t)
    BY <1>1, <2>6 DEF Finish, join, Destroy, ThreadTyped, Together
  <2>7. QED
    BY <2>1, <2>2, <2>3, <2>4, <2>5, <2>6
<1>3. QED
  BY <1>2 DEF Together

\* Every step of the whole keeps it.
LEMMA NextThread == ThreadInv /\ [Next]_vars => ThreadInv'
<1> SUFFICES ASSUME ThreadInv, [Next]_vars PROVE ThreadInv'
  OBVIOUS
<1>1. CASE UNCHANGED threadVars
  BY <1>1 DEF threadVars, ThreadInv, ThreadTyped, Together
<1>2. ASSUME NEW t \in Threads, ThreadStep(t) PROVE ThreadInv'
  BY <1>2, ThreadStepInv DEF ThreadStep, ThreadStart, ThreadEnd
<1>3. ASSUME NEW t \in Threads, ConfigStep(t) \/ LogStep(t) PROVE UNCHANGED threadVars
  BY <1>3 DEF ConfigStep, LogStep, LoadFromYaml, fromString, LoadEnds, Compare, Release, Assign,
     CallBack
<1>4. CASE \/ Static \/ \E v \in Vars, cb \in Listeners : delListener(v, {cb})
           \/ \E cb \in Listeners : addListener(ListensTo[cb], cb)
  BY <1>1, <1>4 DEF Static, Lookup, addListener, delListener
<1>5. ASSUME NEW t \in Threads, NEW n, SetNameCrashes(t, n) PROVE ThreadInv'
  BY <1>5, ThreadStepInv DEF SetNameCrashes
<1>6. QED
  BY <1>1, <1>2, <1>3, <1>4, <1>5 DEF Next, vars

\* When the constructor returns, run() has left the object alone for good and
\* its id is there, however the two threads and a destructor interleave.
THEOREM HandshakeAlways == Spec => []Handshake
<1>1. Init => ThreadInv
  BY ConfigAssumption DEF Init, ThreadInit, ThreadInv, ThreadTyped, Together, Early, Late
<1>2. ThreadInv => Handshake
  BY DEF ThreadInv, ThreadTyped, Together, Handshake, Early, Late
<1>3. QED
  BY <1>1, <1>2, NextThread, PTL DEF Spec

-----------------------------------------------------------------------------
(* setValue and its listeners.                                             *)

\* A ConfigVar and a thread's LoadFromYaml are records with these fields.
IsVar(r) == DOMAIN r = {"type", "value", "cbs", "mutex"}
IsLoad(r) == DOMAIN r = {"nodes", "var", "value", "left", "at"}
ConfigTyped ==
    /\ datas \in [Keys -> Vars \union {None}]
    /\ DOMAIN var = Vars /\ \A v \in Vars : IsVar(var[v])
    /\ DOMAIN load = Threads /\ \A t \in Threads : IsLoad(load[t])
    /\ loads \in [Threads -> Nat] /\ DOMAIN told = Listeners

\* A thread that loads has counted the load: nothing is loading during static
\* initialisation.
LoadCounted == \A t \in Threads : load[t].at # "idle" => loads[t] # 0
\* The listeners that a setValue has still to call, or has called.
Informs(t) ==
    /\ load[t].at \in {"compare", "notify", "assign"} => load[t].var \in Vars
    /\ load[t].at \in {"notify", "assign"} =>
         \A cb \in var[load[t].var].cbs \intersect Listeners :
            (load[t].at = "notify" /\ cb \in load[t].left) \/ load[t].value \in told[cb]
\* The read lock is held while listeners are called: none can register then.
IsLock(l) == DOMAIN l = {"writer", "readers"}
ReadLocked ==
    /\ \A v \in Vars : IsLock(var[v].mutex)
    /\ \A t \in Threads : load[t].at = "notify" => t \in var[load[t].var].mutex.readers
ToldInv == ConfigTyped /\ LoadCounted /\ (\A t \in Threads : Informs(t)) /\ AnnouncedFirst

\* What a step may do to the variables and to what listeners know, while
\* documents are loaded: listeners only go, and only learn.
Learns ==
    /\ DOMAIN var' = Vars /\ DOMAIN told' = Listeners
    /\ \A v \in Vars : IsVar(var'[v]) /\ var'[v].cbs \subseteq var[v].cbs
    /\ \A cb \in Listeners : told[cb] \subseteq told'[cb]

\* A thread that does not move still informs the same listeners.
LEMMA OthersInform ==
    ASSUME ToldInv, Learns, NEW t \in Threads, load'[t] = load[t]
    PROVE  Informs(t)'
BY DEF ToldInv, Informs, Learns

\* A step of one thread.
LEMMA OneLoads ==
    ASSUME ToldInv, Learns, NEW t \in Threads, DOMAIN load' = Threads, IsLoad(load'[t]),
           \A u \in Threads : u # t => load'[u] = load[u], UNCHANGED datas,
           loads' \in [Threads -> Nat], \A u \in Threads : loads[u] # 0 => loads'[u] # 0,
           load'[t].at # "idle" => loads'[t] # 0, Informs(t)', AnnouncedFirst'
    PROVE  ToldInv'
<1>1. \A u \in Threads : Informs(u)'
  BY OthersInform
<1>2. ConfigTyped'
  BY DEF ConfigTyped, ToldInv, Learns
<1>3. LoadCounted'
  BY DEF LoadCounted, ToldInv
<1>4. QED
  BY <1>1, <1>2, <1>3 DEF ToldInv

\* The variables stay as they are.
LEMMA NothingLearned ==
    ASSUME ToldInv, UNCHANGED <<var, told>>
    PROVE  Learns /\ AnnouncedFirst'
BY DEF ToldInv, ConfigTyped, Learns, AnnouncedFirst

\* Static initialisation: no document is being loaded.
LEMMA StaticTold ==
    ASSUME ToldInv, Static
    PROVE  ToldInv'
<1>1. /\ UNCHANGED <<load, loads>> /\ Starting
  BY DEF Static, Lookup, addListener
<1>2. \A t \in Threads : load[t].at = "idle"
  BY <1>1 DEF Starting, ToldInv, LoadCounted
<1>3. (\A t \in Threads : Informs(t)') /\ LoadCounted'
  BY <1>1, <1>2 DEF Informs, LoadCounted
<1>4. ASSUME NEW v \in Vars, Lookup(v, Declared[v].key, Declared[v].type, Declared[v].default)
      PROVE  ConfigTyped' /\ AnnouncedFirst'
  <2>1. PICK r : /\ r = [NoVar EXCEPT !.type = Declared[v].type, !.value = Declared[v].default]
                 /\ var' = [var EXCEPT ![v] = r] /\ told' = told
                 /\ datas' = [datas EXCEPT ![Declared[v].key] = v]
    BY <1>4 DEF Lookup
  <2>2. IsVar(r) /\ r.cbs = {}
    BY <2>1 DEF NoVar, IsVar
  <2>3. \A w \in Vars : var'[w] = IF w = v THEN r ELSE var[w]
    BY <2>1 DEF ToldInv, ConfigTyped
  <2>4. ConfigTyped'
    BY <1>1, <2>1, <2>2, <2>3 DEF ToldInv, ConfigTyped
  <2>5. AnnouncedFirst'
    BY <2>1, <2>2, <2>3 DEF ToldInv, AnnouncedFirst
  <2>6. QED
    BY <2>4, <2>5
<1>5. ASSUME Starting, addListener(LogsVar, LogsListener) PROVE ConfigTyped' /\ AnnouncedFirst'
  <2>1. LogsVar \in Vars /\ UNCHANGED datas /\ LogsListener \notin Listeners
        /\ var' = [var EXCEPT ![LogsVar].cbs = @ \union {LogsListener}] /\ told' = told
    BY <1>5, ConfigAssumption DEF addListener, LogsVar
  <2>2. /\ IsVar([var[LogsVar] EXCEPT !.cbs = @ \union {LogsListener}])
        /\ [var[LogsVar] EXCEPT !.cbs = @ \union {LogsListener}].value = var[LogsVar].value
        /\ [var[LogsVar] EXCEPT !.cbs = @ \union {LogsListener}].cbs
             = var[LogsVar].cbs \union {LogsListener}
    BY <2>1 DEF ToldInv, ConfigTyped, IsVar
  <2>3. /\ DOMAIN var' = Vars /\ \A w \in Vars :
             var'[w] = IF w = LogsVar THEN [var[LogsVar] EXCEPT !.cbs = @ \union {LogsListener}]
                                      ELSE var[w]
    BY <2>1 DEF ToldInv, ConfigTyped
  <2>4. ConfigTyped'
    BY <1>1, <2>1, <2>2, <2>3 DEF ToldInv, ConfigTyped
  <2>5. AnnouncedFirst'
    BY <2>1, <2>2, <2>3 DEF ToldInv, AnnouncedFirst
  <2>6. QED
    BY <2>4, <2>5
<1>6. ConfigTyped' /\ AnnouncedFirst'
  BY <1>4, <1>5 DEF Static
<1>7. QED
  BY <1>3, <1>6 DEF ToldInv

\* A listener registers: nobody calls listeners of the variable, and it is told
\* what is under way.
LEMMA AddTold ==
    ASSUME ToldInv, ReadLocked, NEW cb \in Listeners, addListener(ListensTo[cb], cb)
    PROVE  ToldInv'
<1> DEFINE v == ListensTo[cb]
           r == [var[v] EXCEPT !.cbs = @ \union {cb}]
<1>1. /\ v \in Vars /\ (\A w \in Vars : cb \notin var[w].cbs) /\ UNCHANGED <<datas, load, loads>>
      /\ var' = [var EXCEPT ![v].cbs = @ \union {cb}] /\ var[v].mutex.readers = {}
      /\ told' = [told EXCEPT ![cb] = {var[v].value} \union UnderWay(v)]
  BY ConfigAssumption DEF addListener, MayLock
<1> HIDE DEF v
<1>2. IsVar(r) /\ r.value = var[v].value /\ r.cbs = var[v].cbs \union {cb}
  BY <1>1 DEF ToldInv, ConfigTyped, IsVar
<1>3. DOMAIN var' = Vars /\ \A w \in Vars : var'[w] = IF w = v THEN r ELSE var[w]
  BY <1>1 DEF ToldInv, ConfigTyped
<1> HIDE DEF r
<1>4. /\ DOMAIN told' = Listeners
      /\ \A c \in Listeners :
           told'[c] = IF c = cb THEN {var[v].value} \union UnderWay(v) ELSE told[c]
  BY <1>1 DEF ToldInv, ConfigTyped
<1>5. ConfigTyped' /\ LoadCounted'
  BY <1>1, <1>2, <1>3, <1>4 DEF ToldInv, ConfigTyped, LoadCounted
<1>6. AnnouncedFirst'
  <2> SUFFICES ASSUME NEW w \in Vars, NEW c \in var'[w].cbs \intersect Listeners
               PROVE  var'[w].value \in told'[c]
    BY DEF AnnouncedFirst
  <2>1. CASE c = cb
    BY <1>1, <1>2, <1>3, <1>4, <2>1
  <2>2. CASE c # cb
    <3>1. c \in var[w].cbs /\ var'[w].value = var[w].value
      BY <1>2, <1>3, <2>2
    <3>2. QED
      BY <1>4, <2>2, <3>1 DEF ToldInv, AnnouncedFirst
  <2>3. QED
    BY <2>1, <2>2
<1>7. ASSUME NEW t \in Threads PROVE Informs(t)'
  <2>1. load'[t] = load[t] /\ Informs(t)
    BY <1>1 DEF ToldInv
  <2>2. SUFFICES ASSUME load[t].at \in {"notify", "assign"}, load[t].var \in Vars,
                        NEW c \in var'[load[t].var].cbs \intersect Listeners
                 PROVE  (load[t].at = "notify" /\ c \in load[t].left) \/ load[t].value \in told'[c]
    BY <2>1 DEF Informs
  <2>3. CASE c = cb
    <3>1. load[t].var = v
      BY <1>1, <1>3, <2>2, <2>3
    <3>2. load[t].at = "assign"
      BY <1>1, <2>2, <3>1 DEF ReadLocked
    <3>3. load[t].value \in UnderWay(v)
      BY <3>1, <3>2 DEF UnderWay
    <3>4. QED
      BY <1>4, <2>3, <3>3
  <2>4. CASE c # cb
    <3>1. c \in var[load[t].var].cbs
      BY <1>2, <1>3, <2>2, <2>4
    <3>2. QED
      BY <1>4, <2>1, <2>2, <2>4, <3>1 DEF Informs
  <2>5. QED
    BY <2>3, <2>4
<1>8. QED
  BY <1>5, <1>6, <1>7 DEF ToldInv

\* LoadFromYaml, fromString and LoadEnds: the variables are not changed.
LEMMA LoadTold ==
    ASSUME ToldInv, NEW t \in Threads,
           (\E doc : LoadFromYaml(t, doc)) \/ fromString(t) \/ LoadEnds(t)
    PROVE  ToldInv'
<1>1. UNCHANGED <<datas, var, told>>
  BY DEF LoadFromYaml, fromString, LoadEnds
<1>2. Learns /\ AnnouncedFirst'
  BY <1>1, NothingLearned
<1>3. /\ DOMAIN load = Threads /\ loads \in [Threads -> Nat]
      /\ datas \in [Keys -> Vars \union {None}] /\ IsLoad(load[t])
  BY DEF ToldInv, ConfigTyped
<1>5. ASSUME NEW doc, LoadFromYaml(t, doc) PROVE ToldInv'
  <2>1. /\ load' = [load EXCEPT ![t].nodes = ListAllMember(doc), ![t].at = "load"]
        /\ loads' = [loads EXCEPT ![t] = @ + 1]
    BY <1>5 DEF LoadFromYaml
  <2>3. IsLoad(load'[t]) /\ load'[t].at = "load"
    BY <1>3, <2>1 DEF IsLoad
  <2>4. Informs(t)'
    BY <2>3 DEF Informs
  <2>5. /\ loads' \in [Threads -> Nat] /\ loads'[t] # 0
        /\ \A u \in Threads : loads[u] # 0 => loads'[u] # 0
    BY <1>3, <2>1
  <2>6. DOMAIN load' = Threads /\ \A u \in Threads : u # t => load'[u] = load[u]
    BY <1>3, <2>1
  <2>7. QED
    BY <1>1, <1>2, <2>3, <2>4, <2>5, <2>6, OneLoads
<1>6. CASE fromString(t)
  <2> DEFINE n == Head(load[t].nodes)
             v == IF n.path = <<>> THEN None ELSE LookupBase(n.path)
             cast == FromStr(var[v].type, n.node)
             passed == [load[t] EXCEPT !.nodes = Tail(@)]
             set == [load[t] EXCEPT !.nodes = Tail(@), !.var = v, !.value = cast.value,
                                    !.at = "compare"]
  <2>1. /\ load[t].at = "load" /\ loads' = loads
        /\ load' = [load EXCEPT ![t] = IF v = None \/ ~cast.ok THEN passed ELSE set]
    BY <1>6 DEF fromString
  <2>2. v \in Vars \union {None}
    BY <1>3 DEF LookupBase
  <2>3. /\ IsLoad(passed) /\ passed.at = "load"
        /\ IsLoad(set) /\ set.at = "compare" /\ set.var = v
    <3> HIDE DEF n, v, cast
    <3>1. QED
      BY <1>3, <2>1 DEF IsLoad
  <2> HIDE DEF n, v, cast, passed, set
  <2>4. IsLoad(load'[t]) /\ (load'[t].at = "load" \/ (load'[t].at = "compare" /\ load'[t].var \in Vars))
    <3>1. load'[t] = passed \/ (load'[t] = set /\ v # None)
      BY <1>3, <2>1
    <3>2. QED
      BY <2>2, <2>3, <3>1
  <2>5. Informs(t)'
    BY <2>4 DEF Informs
  <2>6. loads[t] # 0
    BY <2>1 DEF ToldInv, LoadCounted
  <2>7. DOMAIN load' = Threads /\ \A u \in Threads : u # t => load'[u] = load[u]
    BY <1>3, <2>1
  <2>8. /\ loads' \in [Threads -> Nat] /\ loads'[t] # 0
        /\ \A u \in Threads : loads[u] # 0 => loads'[u] # 0
    <3>1. loads' = loads
      BY <2>1
    <3>2. QED
      BY <1>3, <2>6, <3>1
  <2>9. QED
    BY <1>1, <1>2, <2>4, <2>5, <2>7, <2>8, OneLoads
<1>7. CASE LoadEnds(t)
  <2>1. load' = [load EXCEPT ![t] = Idle] /\ loads' = loads
    BY <1>7 DEF LoadEnds
  <2>2. /\ DOMAIN load' = Threads /\ load'[t] = Idle
        /\ \A u \in Threads : u # t => load'[u] = load[u]
    BY <1>3, <2>1
  <2>3. IsLoad(load'[t]) /\ load'[t].at = "idle"
    BY <2>2 DEF IsLoad, Idle
  <2>4. Informs(t)'
    BY <2>3 DEF Informs
  <2>5. QED
    BY <1>1, <1>2, <1>3, <2>1, <2>2, <2>3, <2>4, OneLoads
<1>8. QED
  BY <1>5, <1>6, <1>7

\* The four steps of setValue.
LEMMA SetTold ==
    ASSUME ToldInv, NEW t \in Threads,
           Compare(t) \/ Release(t) \/ Assign(t)
             \/ \E cb \in Listeners \union {LogsListener} : CallBack(t, cb)
    PROVE  ToldInv'
<1>1. /\ load[t].at \in {"compare", "notify", "assign"} /\ UNCHANGED <<datas, loads>>
  BY DEF Compare, Release, Assign, CallBack
<1>2. /\ DOMAIN load = Threads /\ DOMAIN var = Vars /\ DOMAIN told = Listeners
      /\ loads \in [Threads -> Nat] /\ loads[t] # 0
      /\ load[t].var \in Vars /\ IsLoad(load[t]) /\ \A w \in Vars : IsVar(var[w])
  BY <1>1 DEF ToldInv, ConfigTyped, LoadCounted, Informs
<1> DEFINE v == load[t].var
<1>4. ASSUME DOMAIN load' = Threads, IsLoad(load'[t]), \A u \in Threads : u # t => load'[u] = load[u],
             Learns, Informs(t)', AnnouncedFirst'
      PROVE  ToldInv'
  BY <1>1, <1>2, <1>4, OneLoads
<1>5. CASE Compare(t)
  <2>1. CASE load' = [load EXCEPT ![t].at = "load"] /\ UNCHANGED <<var, told>>
    <3>1. DOMAIN load' = Threads /\ \A u \in Threads : u # t => load'[u] = load[u]
      BY <1>2, <2>1
    <3>2. IsLoad(load'[t]) /\ load'[t].at = "load"
      BY <1>2, <2>1 DEF IsLoad
    <3>3. Informs(t)'
      BY <3>2 DEF Informs
    <3>4. QED
      BY <1>4, <2>1, <3>1, <3>2, <3>3, NothingLearned
  <2>2. CASE /\ load' = [load EXCEPT ![t].at = "notify", ![t].left = var[v].cbs]
             /\ var' = [var EXCEPT ![v].mutex = rdlock(@, t)] /\ told' = told
    <3>1. DOMAIN load' = Threads /\ \A u \in Threads : u # t => load'[u] = load[u]
      BY <1>2, <2>2
    <3>2. /\ DOMAIN var' = Vars
          /\ \A w \in Vars : var'[w] = IF w = v THEN [var[v] EXCEPT !.mutex = rdlock(@, t)] ELSE var[w]
      BY <1>2, <2>2
    <3>3. \A w \in Vars : IsVar(var'[w]) /\ var'[w].cbs = var[w].cbs /\ var'[w].value = var[w].value
      BY <1>2, <3>2 DEF IsVar
    <3>4. Learns
      BY <1>2, <2>2, <3>2, <3>3 DEF Learns
    <3>5. AnnouncedFirst'
      BY <2>2, <3>3 DEF ToldInv, AnnouncedFirst
    <3>6. IsLoad(load'[t]) /\ load'[t].at = "notify" /\ load'[t].var = v /\ load'[t].left = var[v].cbs
      BY <1>2, <2>2 DEF IsLoad
    <3>7. Informs(t)'
      BY <1>2, <3>3, <3>6 DEF Informs
    <3>8. QED
      BY <1>4, <3>1, <3>4, <3>5, <3>6, <3>7
  <2>3. QED
    BY <1>5, <2>1, <2>2 DEF Compare
<1>6. ASSUME NEW cb \in Listeners \union {LogsListener}, CallBack(t, cb) PROVE ToldInv'
  <2>1. /\ load[t].at = "notify" /\ load' = [load EXCEPT ![t].left = @ \ {cb}] /\ var' = var
        /\ told' = IF cb \in Listeners THEN [told EXCEPT ![cb] = @ \union {load[t].value}] ELSE told
    BY <1>6 DEF CallBack
  <2>2. DOMAIN load' = Threads /\ \A u \in Threads : u # t => load'[u] = load[u]
    BY <1>2, <2>1
  <2>3. /\ DOMAIN told' = Listeners
        /\ \A c \in Listeners : told'[c] = IF c = cb THEN told[c] \union {load[t].value} ELSE told[c]
    BY <1>2, <2>1
  <2>4. Learns
    BY <1>2, <2>1, <2>3 DEF Learns
  <2>5. AnnouncedFirst'
    BY <2>1, <2>3 DEF ToldInv, AnnouncedFirst
  <2>6. /\ IsLoad(load'[t]) /\ load'[t].at = "notify" /\ load'[t].var = load[t].var
        /\ load'[t].left = load[t].left \ {cb} /\ load'[t].value = load[t].value
    BY <1>2, <2>1 DEF IsLoad
  <2>7. Informs(t)'
    BY <1>2, <2>1, <2>3, <2>6 DEF ToldInv, Informs
  <2>8. QED
    BY <1>4, <2>2, <2>4, <2>5, <2>6, <2>7
<1>7. CASE Release(t)
  <2>1. /\ load[t].at = "notify" /\ load[t].left = {} /\ load' = [load EXCEPT ![t].at = "assign"]
        /\ var' = [var EXCEPT ![v].mutex = unlock(@, t)] /\ told' = told
    BY <1>7 DEF Release
  <2>2. DOMAIN load' = Threads /\ \A u \in Threads : u # t => load'[u] = load[u]
    BY <1>2, <2>1
  <2>3. /\ DOMAIN var' = Vars
        /\ \A w \in Vars : var'[w] = IF w = v THEN [var[v] EXCEPT !.mutex = unlock(@, t)] ELSE var[w]
    BY <1>2, <2>1
  <2>4. \A w \in Vars : IsVar(var'[w]) /\ var'[w].cbs = var[w].cbs /\ var'[w].value = var[w].value
    BY <1>2, <2>3 DEF IsVar
  <2>5. Learns
    BY <1>2, <2>1, <2>3, <2>4 DEF Learns
  <2>6. AnnouncedFirst'
    BY <2>1, <2>4 DEF ToldInv, AnnouncedFirst
  <2>7. /\ IsLoad(load'[t]) /\ load'[t].at = "assign" /\ load'[t].var = v
        /\ load'[t].value = load[t].value
    BY <1>2, <2>1 DEF IsLoad
  <2>8. Informs(t)'
    BY <1>2, <2>1, <2>4, <2>7 DEF ToldInv, Informs
  <2>9. QED
    BY <1>4, <2>2, <2>5, <2>6, <2>7, <2>8
<1>8. CASE Assign(t)
  <2>1. /\ load[t].at = "assign" /\ load' = [load EXCEPT ![t].at = "load"] /\ told' = told
        /\ var' = [var EXCEPT ![v].value = load[t].value]
    BY <1>8 DEF Assign
  <2>2. DOMAIN load' = Threads /\ \A u \in Threads : u # t => load'[u] = load[u]
    BY <1>2, <2>1
  <2>3. /\ DOMAIN var' = Vars
        /\ \A w \in Vars : var'[w] = IF w = v THEN [var[v] EXCEPT !.value = load[t].value] ELSE var[w]
    BY <1>2, <2>1
  <2>4. /\ \A w \in Vars : IsVar(var'[w]) /\ var'[w].cbs = var[w].cbs
        /\ \A w \in Vars : var'[w].value = IF w = v THEN load[t].value ELSE var[w].value
    BY <1>2, <2>3 DEF IsVar
  <2>5. Learns
    BY <1>2, <2>1, <2>3, <2>4 DEF Learns
  <2>6. AnnouncedFirst'
    <3>1. \A cb \in var[v].cbs \intersect Listeners : load[t].value \in told[cb]
      BY <2>1 DEF ToldInv, Informs
    <3>2. QED
      BY <2>1, <2>4, <3>1 DEF ToldInv, AnnouncedFirst
  <2>7. IsLoad(load'[t]) /\ load'[t].at = "load"
    BY <1>2, <2>1 DEF IsLoad
  <2>8. Informs(t)'
    BY <2>7 DEF Informs
  <2>9. QED
    BY <1>4, <2>2, <2>5, <2>6, <2>7, <2>8
<1>9. QED
  BY <1>5, <1>6, <1>7, <1>8

\* It holds at first.
LEMMA InitTold == Init => ToldInv /\ ReadLocked
<1> SUFFICES ASSUME Init PROVE ToldInv /\ ReadLocked
  OBVIOUS
<1>1. IsVar(NoVar) /\ NoVar.cbs = {} /\ IsLoad(Idle) /\ Idle.at = "idle"
  BY DEF IsVar, IsLoad, NoVar, Idle
<1>2. /\ datas = [k \in Keys |-> None] /\ var = [v \in Vars |-> NoVar]
      /\ load = [t \in Threads |-> Idle] /\ loads = [t \in Threads |-> 0]
      /\ told = [cb \in Listeners |-> {}]
  BY DEF Init, ConfigInit
<1>3. ConfigTyped
  BY <1>1, <1>2 DEF ConfigTyped
<1>4. LoadCounted /\ AnnouncedFirst /\ \A t \in Threads : Informs(t)
  BY <1>1, <1>2 DEF LoadCounted, AnnouncedFirst, Informs
<1>5. ReadLocked
  <2>1. IsLock(NoVar.mutex)
    BY DEF NoVar, Unlocked, IsLock
  <2>2. QED
    BY <1>1, <1>2, <2>1 DEF ReadLocked
<1>6. QED
  BY <1>3, <1>4, <1>5 DEF ToldInv

\* What rdlock and unlock do to a lock's readers.
LEMMA LockIs ==
    ASSUME NEW l, IsLock(l), NEW t
    PROVE  /\ IsLock(rdlock(l, t)) /\ rdlock(l, t).readers = l.readers \union {t}
           /\ IsLock(unlock(l, t)) /\ l.readers \ {t} \subseteq unlock(l, t).readers
BY DEF IsLock, rdlock, unlock

\* One thread's step, which changes the lock of one variable at most.
LEMMA OneLocks ==
    ASSUME ToldInv, ReadLocked, NEW t \in Threads, NEW w \in Vars,
           \A u \in Threads : u # t => load'[u] = load[u],
           \A v \in Vars : v # w => var'[v].mutex = var[v].mutex,
           IsLock(var'[w].mutex), var[w].mutex.readers \ {t} \subseteq var'[w].mutex.readers,
           load'[t].at = "notify" => load'[t].var = w /\ t \in var'[w].mutex.readers
    PROVE  ReadLocked'
<1>1. \A v \in Vars : IsLock(var'[v].mutex)
  BY DEF ReadLocked
<1>2. ASSUME NEW u \in Threads, load'[u].at = "notify"
      PROVE  u \in var'[load'[u].var].mutex.readers
  <2>1. CASE u = t
    BY <1>2, <2>1
  <2>2. CASE u # t
    <3>1. load'[u] = load[u] /\ load[u].var \in Vars /\ u \in var[load[u].var].mutex.readers
      BY <1>2, <2>2 DEF ToldInv, Informs, ReadLocked
    <3>2. QED
      BY <2>2, <3>1
  <2>3. QED
    BY <2>1, <2>2
<1>3. QED
  BY <1>1, <1>2 DEF ReadLocked

\* Every step keeps it: a thread that calls listeners keeps its read lock while
\* the others move.
LEMMA NextLocked == ToldInv /\ ReadLocked /\ [Next]_vars => ReadLocked'
<1> SUFFICES ASSUME ToldInv, ReadLocked, [Next]_vars PROVE ReadLocked'
  OBVIOUS
<1>a. /\ DOMAIN load = Threads /\ \A t \in Threads : IsLoad(load[t])
      /\ DOMAIN var = Vars /\ \A v \in Vars : IsVar(var[v])
      /\ \A t \in Threads : load[t].at \in {"compare", "notify", "assign"} => load[t].var \in Vars
  BY DEF ToldInv, ConfigTyped, Informs
<1>b. \A v \in Vars : IsLock(var[v].mutex)
  BY DEF ReadLocked
<1>c. ASSUME load' = load, \A v \in Vars : var'[v].mutex = var[v].mutex PROVE ReadLocked'
  <2>1. \A t \in Threads : load[t].at = "notify" => load[t].var \in Vars
    BY <1>a
  <2>2. QED
    BY <1>c, <2>1 DEF ReadLocked
<1>1. CASE UNCHANGED <<var, load>>
  BY <1>1, <1>c
<1>2. ASSUME NEW t \in Threads, NEW x, load' = [load EXCEPT ![t] = x], x.at # "notify", var' = var
      PROVE  ReadLocked'
  <2>1. load'[t] = x /\ \A u \in Threads : u # t => load'[u] = load[u]
    BY <1>2, <1>a
  <2>2. QED
    BY <1>2, <1>a, <2>1 DEF ReadLocked
<1>3. ASSUME NEW t \in Threads, NEW doc, LoadFromYaml(t, doc) PROVE ReadLocked'
  <2> DEFINE x == [load[t] EXCEPT !.nodes = ListAllMember(doc), !.at = "load"]
  <2>1. load' = [load EXCEPT ![t] = x] /\ var' = var
    BY <1>3 DEF LoadFromYaml
  <2>2. x.at = "load"
    BY <1>a DEF IsLoad
  <2> HIDE DEF x
  <2>3. QED
    BY <1>2, <2>1, <2>2
<1>4. ASSUME NEW t \in Threads, fromString(t) PROVE ReadLocked'
  <2> DEFINE n == Head(load[t].nodes)
             v == IF n.path = <<>> THEN None ELSE LookupBase(n.path)
             cast == FromStr(var[v].type, n.node)
             passed == [load[t] EXCEPT !.nodes = Tail(@)]
             set == [load[t] EXCEPT !.nodes = Tail(@), !.var = v, !.value = cast.value,
                                    !.at = "compare"]
  <2>1. /\ load[t].at = "load" /\ var' = var
        /\ load' = [load EXCEPT ![t] = IF v = None \/ ~cast.ok THEN passed ELSE set]
    BY <1>4 DEF fromString
  <2>2. passed.at = "load" /\ set.at = "compare"
    <3> HIDE DEF n, v, cast
    <3>1. QED
      BY <1>a, <2>1 DEF IsLoad
  <2> HIDE DEF n, v, cast, passed, set
  <2>3. QED
    BY <1>2, <2>1, <2>2
<1>5. ASSUME NEW t \in Threads, LoadEnds(t) PROVE ReadLocked'
  <2>1. load' = [load EXCEPT ![t] = Idle] /\ var' = var
    BY <1>5 DEF LoadEnds
  <2>2. Idle.at # "notify"
    BY DEF Idle
  <2> HIDE DEF Idle
  <2>3. QED
    BY <1>2, <2>1, <2>2
<1>6. ASSUME NEW t \in Threads, Compare(t) PROVE ReadLocked'
  <2> DEFINE v == load[t].var
  <2>0. v \in Vars
    BY <1>6, <1>a DEF Compare
  <2>1. CASE load' = [load EXCEPT ![t].at = "load"] /\ var' = var
    <3>1. load'[t].at = "load" /\ \A u \in Threads : u # t => load'[u] = load[u]
      BY <1>a, <2>1 DEF IsLoad
    <3>2. QED
      BY <1>b, <2>0, <2>1, <3>1, OneLocks
  <2>2. CASE /\ load' = [load EXCEPT ![t].at = "notify", ![t].left = var[v].cbs]
             /\ var' = [var EXCEPT ![v].mutex = rdlock(@, t)]
    <3>1. load'[t].var = v /\ \A u \in Threads : u # t => load'[u] = load[u]
      BY <1>a, <2>2 DEF IsLoad
    <3>2. /\ \A w \in Vars : w # v => var'[w] = var[w]
          /\ var'[v].mutex = rdlock(var[v].mutex, t)
      BY <1>a, <2>0, <2>2 DEF IsVar
    <3> HIDE DEF v
    <3>3. QED
      BY <1>b, <2>0, <3>1, <3>2, LockIs, OneLocks
  <2>3. QED
    BY <1>6, <2>1, <2>2 DEF Compare
<1>7. ASSUME NEW t \in Threads, NEW cb, CallBack(t, cb) PROVE ReadLocked'
  <2>1. load[t].at = "notify" /\ load' = [load EXCEPT ![t].left = @ \ {cb}] /\ var' = var
    BY <1>7 DEF CallBack
  <2>2. /\ load'[t].at = "notify" /\ load'[t].var = load[t].var
        /\ \A u \in Threads : u # t => load'[u] = load[u]
    BY <1>a, <2>1 DEF IsLoad
  <2>3. load[t].var \in Vars /\ t \in var[load[t].var].mutex.readers
    BY <1>a, <2>1 DEF ReadLocked
  <2>4. QED
    BY <1>b, <2>1, <2>2, <2>3, OneLocks
<1>8. ASSUME NEW t \in Threads, Release(t) PROVE ReadLocked'
  <2> DEFINE v == load[t].var
  <2>1. /\ v \in Vars /\ load' = [load EXCEPT ![t].at = "assign"]
        /\ var' = [var EXCEPT ![v].mutex = unlock(@, t)]
    BY <1>8, <1>a DEF Release
  <2>2. load'[t].at = "assign" /\ \A u \in Threads : u # t => load'[u] = load[u]
    BY <1>a, <2>1 DEF IsLoad
  <2>3. /\ \A w \in Vars : w # v => var'[w] = var[w]
        /\ var'[v].mutex = unlock(var[v].mutex, t)
    BY <1>a, <2>1 DEF IsVar
  <2> HIDE DEF v
  <2>4. QED
    BY <1>b, <2>1, <2>2, <2>3, LockIs, OneLocks
<1>9. ASSUME NEW t \in Threads, Assign(t) PROVE ReadLocked'
  <2>1. /\ load[t].var \in Vars /\ load' = [load EXCEPT ![t].at = "load"]
        /\ var' = [var EXCEPT ![load[t].var].value = load[t].value]
    BY <1>9, <1>a DEF Assign
  <2>2. load'[t].at = "load" /\ \A u \in Threads : u # t => load'[u] = load[u]
    BY <1>a, <2>1 DEF IsLoad
  <2>3. \A w \in Vars : var'[w].mutex = var[w].mutex
    BY <1>a, <2>1 DEF IsVar
  <2>4. QED
    BY <1>b, <2>1, <2>2, <2>3, OneLocks
<1>10. ASSUME NEW v \in Vars, NEW cbs,
              var' = [var EXCEPT ![v].cbs = cbs] /\ load' = load
       PROVE  ReadLocked'
  <2>1. \A w \in Vars : var'[w].mutex = var[w].mutex
    BY <1>10, <1>a DEF IsVar
  <2>2. QED
    BY <1>10, <1>c, <2>1
<1>11. ASSUME NEW v \in Vars, NEW cb, addListener(v, cb) PROVE ReadLocked'
  <2>1. var' = [var EXCEPT ![v].cbs = var[v].cbs \union {cb}] /\ load' = load
    BY <1>11 DEF addListener
  <2>2. QED
    BY <1>10, <2>1
<1>12. ASSUME NEW v \in Vars, NEW cb, delListener(v, {cb}) PROVE ReadLocked'
  <2>1. var' = [var EXCEPT ![v].cbs = var[v].cbs \ {cb}] /\ load' = load
    BY <1>12 DEF delListener
  <2>2. QED
    BY <1>10, <2>1
<1>13. ASSUME NEW v \in Vars, Lookup(v, Declared[v].key, Declared[v].type, Declared[v].default)
       PROVE  ReadLocked'
  <2>1. PICK r : /\ r = [NoVar EXCEPT !.type = Declared[v].type, !.value = Declared[v].default]
                 /\ var' = [var EXCEPT ![v] = r] /\ load' = load /\ Starting
    BY <1>13 DEF Lookup
  <2>2. IsLock(r.mutex)
    BY <2>1 DEF NoVar, Unlocked, IsLock
  <2>3. \A w \in Vars : var'[w] = IF w = v THEN r ELSE var[w]
    BY <1>a, <2>1
  <2>4. \A t \in Threads : load[t].at = "idle"
    BY <2>1 DEF Starting, ToldInv, LoadCounted
  <2>5. QED
    BY <1>b, <2>1, <2>2, <2>3, <2>4 DEF ReadLocked
<1>14. QED
  <2>1. ASSUME NEW t \in Threads, ThreadStep(t) \/ LogStep(t) \/ \E n : SetNameCrashes(t, n)
        PROVE  UNCHANGED <<var, load>>
    BY <2>1 DEF ThreadStep, LogStep, SetNameCrashes, configVars
  <2>2. ASSUME NEW t \in Threads, ConfigStep(t) PROVE ReadLocked'
    BY <2>2, <1>3, <1>4, <1>5, <1>6, <1>7, <1>8, <1>9 DEF ConfigStep
  <2>3. CASE Static
    BY <2>3, <1>11, <1>13, ConfigAssumption DEF Static, LogsVar
  <2>4. CASE UNCHANGED vars
    BY <2>4, <1>1 DEF vars, configVars
  <2>5. ASSUME NEW cb \in Listeners, addListener(ListensTo[cb], cb) PROVE ReadLocked'
    BY <2>5, <1>11, ConfigAssumption
  <2>6. QED
    BY <1>1, <1>12, <2>1, <2>2, <2>3, <2>4, <2>5 DEF Next

\* Every step keeps what the listeners know.
LEMMA NextTold == ToldInv /\ ReadLocked /\ [Next]_vars => ToldInv'
<1> SUFFICES ASSUME ToldInv, ReadLocked, [Next]_vars PROVE ToldInv'
  OBVIOUS
<1>1. CASE UNCHANGED configVars
  BY <1>1 DEF configVars, ToldInv, ConfigTyped, LoadCounted, Informs, AnnouncedFirst
<1>2. ASSUME NEW t \in Threads, ThreadStep(t) \/ LogStep(t) \/ \E n : SetNameCrashes(t, n)
      PROVE  ToldInv'
  <2>1. UNCHANGED configVars
    BY <1>2 DEF ThreadStep, LogStep, SetNameCrashes, configVars
  <2>2. QED
    BY <1>1, <2>1
<1>3. ASSUME NEW t \in Threads, ConfigStep(t) PROVE ToldInv'
  BY <1>3, LoadTold, SetTold DEF ConfigStep
<1>4. ASSUME NEW v \in Vars, NEW cb \in Listeners, delListener(v, {cb}) PROVE ToldInv'
  <2>1. var' = [var EXCEPT ![v].cbs = @ \ {cb}] /\ UNCHANGED <<datas, load, loads, told>>
    BY <1>4 DEF delListener
  <2>2. DOMAIN var = Vars /\ \A w \in Vars : IsVar(var[w])
    BY DEF ToldInv, ConfigTyped
  <2>3. /\ DOMAIN var' = Vars
        /\ \A w \in Vars : var'[w] = IF w = v THEN [var[v] EXCEPT !.cbs = @ \ {cb}] ELSE var[w]
    BY <2>1, <2>2
  <2>4. \A w \in Vars : /\ IsVar(var'[w]) /\ var'[w].cbs \subseteq var[w].cbs
                        /\ var'[w].value = var[w].value
    BY <2>2, <2>3 DEF IsVar
  <2>5. Learns
    BY <2>1, <2>3, <2>4 DEF Learns, ToldInv, ConfigTyped
  <2>6. AnnouncedFirst'
    BY <2>1, <2>4 DEF ToldInv, AnnouncedFirst
  <2>7. \A t \in Threads : Informs(t)'
    BY <2>1, <2>5, OthersInform
  <2>8. ConfigTyped' /\ LoadCounted'
    BY <2>1, <2>3, <2>4 DEF ToldInv, ConfigTyped, LoadCounted
  <2>9. QED
    BY <2>6, <2>7, <2>8 DEF ToldInv
<1>5. QED
  BY <1>1, <1>2, <1>3, <1>4, StaticTold, AddTold DEF Next, vars

\* A value that a variable holds was announced to every listener it has,
\* whichever of several concurrent setValue calls assigned it last and whenever
\* listeners come and go, except to one that registered when the value was
\* there or on its way to the write lock (config.hpp:328-353).
THEOREM AnnouncedFirstAlways == Spec => []AnnouncedFirst
<1>1. ToldInv => AnnouncedFirst
  BY DEF ToldInv
<1>2. QED
  BY <1>1, InitTold, NextTold, NextLocked, PTL DEF Spec

\* Induction: a set with 0 and every successor is all of Nat.
LEMMA Induction ==
    ASSUME NEW S \in SUBSET Nat, 0 \in S, \A n \in S : n + 1 \in S
    PROVE  S = Nat
<1> SUFFICES ASSUME NEW x \in Nat \ S PROVE FALSE
  OBVIOUS
<1>1. PICK y \in Nat \ S : \A z \in Nat \ S : ~(<<z, y>> \in OpToRel(<, Nat))
  BY NatLessThanWellFounded, WFMin
<1>2. y # 0 /\ y - 1 \in Nat
  OBVIOUS
<1>3. <<y - 1, y>> \in OpToRel(<, Nat)
  BY <1>2 DEF OpToRel
<1>4. y - 1 \in S
  BY <1>1, <1>2, <1>3, Zenon
<1>5. QED
  BY <1>4

\* SetToSeq lists every member of a finite set.
LEMMA SetToSeqLists ==
    ASSUME NEW S, IsFiniteSet(S)
    PROVE  /\ Cardinality(S) \in Nat
           /\ SetToSeq(S) \in [1 .. Cardinality(S) -> S]
           /\ \A x \in S : \E i \in 1 .. Cardinality(S) : SetToSeq(S)[i] = x
           /\ \A i, j \in 1 .. Cardinality(S) : SetToSeq(S)[i] = SetToSeq(S)[j] => i = j
<1> DEFINE n == Cardinality(S)
           s == SetToSeq(S)
<1>1. n \in Nat /\ ExistsBijection(1 .. n, S)
  BY FS_CardinalityType
<1>2. \E f \in [1 .. n -> S] : IsInjective(f)
  BY <1>1 DEF ExistsBijection, Bijection, Injection
<1>3. s \in [1 .. n -> S] /\ IsInjective(s)
  BY <1>2 DEF SetToSeq
<1> HIDE DEF s
<1>4. s \in Injection(1 .. n, S)
  BY <1>3 DEF Injection
<1>5. IsFiniteSet(1 .. n) /\ Cardinality(1 .. n) = n
  BY <1>1, FS_Interval
<1>6. s \in Surjection(1 .. n, S)
  BY <1>4, <1>5, FS_Injection
<1>7. \A x \in S : \E i \in 1 .. n : s[i] = x
  BY <1>6 DEF Surjection
<1>8. \A i, j \in 1 .. n : s[i] = s[j] => i = j
  BY <1>3 DEF IsInjective
<1>9. QED
  BY <1>1, <1>3, <1>7, <1>8 DEF s

\* What a list is.
LEMMA ListIs ==
    ASSUME NEW s, IsList(s)
    PROVE  Len(s) \in Nat /\ DOMAIN s = 1 .. Len(s) /\ s = [i \in 1 .. Len(s) |-> s[i]]
  BY DEF IsList, ToSet

\* A function on 1 .. n is a list.
LEMMA IsListOf ==
    ASSUME NEW s, NEW n \in Nat, s = [i \in 1 .. n |-> s[i]]
    PROVE  IsList(s) /\ Len(s) = n
<1>1. s \in [1 .. n -> ToSet(s)]
  BY DEF ToSet
<1>2. QED
  BY <1>1 DEF IsList

\* Sequences of a set are lists.
LEMMA SeqIsList ==
    ASSUME NEW S, NEW s \in Seq(S)
    PROVE  IsList(s)
<1>1. Len(s) \in Nat /\ s = [i \in 1 .. Len(s) |-> s[i]]
  OBVIOUS
<1>2. QED
  BY <1>1, IsListOf

(***************************************************************************)
(* FlattenSeq.                                                             *)
(***************************************************************************)
\* The function by which FlattenSeq is defined.
IsFlat(f, seqs, n) == f = [i \in 1 .. n |-> IF i = 1 THEN seqs[i] ELSE f[i - 1] \o seqs[i]]

\* It exists.
LEMMA FlatExists ==
    ASSUME NEW seqs, NEW n \in Nat
    PROVE  \E f : IsFlat(f, seqs, n)
<1> DEFINE S == {k \in Nat : \E f : IsFlat(f, seqs, k)}
<1>1. 0 \in S
  <2>1. IsFlat([i \in 1 .. 0 |-> seqs], seqs, 0)
    BY DEF IsFlat
  <2>2. QED
    BY <2>1
<1>2. ASSUME NEW k \in S PROVE k + 1 \in S
  <2>1. PICK f : IsFlat(f, seqs, k)
    OBVIOUS
  <2> DEFINE g == [i \in 1 .. (k + 1) |-> IF i = k + 1 THEN IF i = 1 THEN seqs[i] ELSE f[k] \o seqs[i]
                                          ELSE f[i]]
  <2>2. ASSUME NEW i \in 1 .. (k + 1)
        PROVE  g[i] = IF i = 1 THEN seqs[i] ELSE g[i - 1] \o seqs[i]
    <3>1. CASE i = k + 1
      <4>1. CASE k = 0
        BY <3>1, <4>1
      <4>2. CASE k # 0
        <5>1. i # 1 /\ i - 1 = k /\ k \in 1 .. (k + 1) /\ k # k + 1
          BY <3>1, <4>2
        <5>2. g[i - 1] = f[k]
          BY <5>1
        <5>3. QED
          BY <3>1, <5>1, <5>2
      <4>3. QED
        BY <4>1, <4>2
    <3>2. CASE i # k + 1
      <4>1. i \in 1 .. k /\ g[i] = f[i]
        BY <3>2
      <4>2. f[i] = IF i = 1 THEN seqs[i] ELSE f[i - 1] \o seqs[i]
        BY <2>1, <4>1 DEF IsFlat
      <4>3. i # 1 => g[i - 1] = f[i - 1]
        BY <4>1
      <4>4. QED
        BY <4>1, <4>2, <4>3
    <3>3. QED
      BY <3>1, <3>2
  <2>3. IsFlat(g, seqs, k + 1)
    BY <2>2 DEF IsFlat
  <2> HIDE DEF g
  <2>4. k + 1 \in Nat
    OBVIOUS
  <2>5. QED
    BY <2>3, <2>4
<1> HIDE DEF S
<1>3. S = Nat
  <2>1. S \in SUBSET Nat
    BY DEF S
  <2>2. QED
    BY <1>1, <1>2, <2>1, Induction
<1>4. QED
  BY <1>3 DEF S

\* Where the first n sequences stand in f: sequence k is behind position at[k],
\* and nothing else is there.
Stand(f, seqs, n, at) ==
    /\ at \in [1 .. n -> Nat]
    /\ \A k \in 1 .. n : /\ at[k] + Len(seqs[k]) <= Len(f)
                         /\ \A j \in 1 .. Len(seqs[k]) : f[at[k] + j] = seqs[k][j]
    /\ \A i \in 1 .. Len(f) : \E k \in 1 .. n : \E j \in 1 .. Len(seqs[k]) : i = at[k] + j

\* FlattenSeq puts the sequences behind each other.
LEMMA FlattenStands ==
    ASSUME NEW S, NEW n \in Nat, NEW seqs \in [1 .. n -> Seq(S)]
    PROVE  FlattenSeq(seqs) \in Seq(S) /\ \E at : Stand(FlattenSeq(seqs), seqs, n, at)
<1>1. Len(seqs) = n
  OBVIOUS
<1>2. CASE n = 0
  <2>1. FlattenSeq(seqs) = <<>>
    BY <1>1, <1>2 DEF FlattenSeq
  <2>2. Stand(<<>>, seqs, n, [k \in 1 .. n |-> 0])
    BY <1>2 DEF Stand
  <2>3. QED
    BY <2>1, <2>2
<1>3. CASE n # 0
  <2> DEFINE F == CHOOSE f : f = [i \in 1 .. Len(seqs) |-> IF i = 1 THEN seqs[i] ELSE f[i - 1] \o seqs[i]]
  <2>1. FlattenSeq(seqs) = F[n]
    BY <1>1, <1>3 DEF FlattenSeq
  <2>2. IsFlat(F, seqs, n)
    BY <1>1, FlatExists DEF IsFlat
  <2> HIDE DEF F
  <2> DEFINE T == {k \in Nat : k + 1 \in 1 .. n =>
                                 F[k + 1] \in Seq(S) /\ \E at : Stand(F[k + 1], seqs, k + 1, at)}
  <2>3. 0 \in T
    <3>1. F[1] = seqs[1] /\ seqs[1] \in Seq(S)
      BY <1>3, <2>2 DEF IsFlat
    <3>2. Stand(seqs[1], seqs, 1, [k \in 1 .. 1 |-> 0])
      <4>1. Len(seqs[1]) \in Nat
        BY <3>1
      <4>2. QED
        BY <4>1 DEF Stand
    <3>3. QED
      BY <3>1, <3>2
  <2>4. ASSUME NEW k \in T PROVE k + 1 \in T
    <3> SUFFICES ASSUME k + 2 \in 1 .. n
                 PROVE  F[k + 2] \in Seq(S) /\ \E at : Stand(F[k + 2], seqs, k + 2, at)
      OBVIOUS
    <3> DEFINE f == F[k + 1]
               s == seqs[k + 2]
               g == f \o s
    <3>1. k \in Nat /\ f \in Seq(S) /\ \E at : Stand(f, seqs, k + 1, at)
      OBVIOUS
    <3>2. PICK at : Stand(f, seqs, k + 1, at)
      BY <3>1
    <3>3. s \in Seq(S)
      OBVIOUS
    <3>4. F[k + 2] = g
      <4>1. (k + 2) - 1 = k + 1 /\ k + 2 # 1
        BY <3>1
      <4>2. F[k + 2] = F[(k + 2) - 1] \o seqs[k + 2]
        BY <2>2, <4>1 DEF IsFlat
      <4>3. QED
        BY <4>1, <4>2
    <3> HIDE DEF f, s
    <3>5. /\ g \in Seq(S) /\ Len(g) = Len(f) + Len(s) /\ Len(f) \in Nat /\ Len(s) \in Nat
          /\ \A i \in 1 .. Len(f) + Len(s) : g[i] = IF i <= Len(f) THEN f[i] ELSE s[i - Len(f)]
      BY <3>1, <3>3, ConcatProperties
    <3> HIDE DEF g
    <3> DEFINE to == [i \in 1 .. (k + 2) |-> IF i = k + 2 THEN Len(f) ELSE at[i]]
    <3>6. to \in [1 .. (k + 2) -> Nat]
      BY <3>1, <3>2, <3>5, SMTT(40) DEF Stand
    <3>7. ASSUME NEW i \in 1 .. (k + 2)
          PROVE  /\ to[i] + Len(seqs[i]) <= Len(g)
                 /\ \A j \in 1 .. Len(seqs[i]) : g[to[i] + j] = seqs[i][j]
      <4>1. CASE i = k + 2
        <5>1. to[i] = Len(f) /\ seqs[i] = s
          BY <4>1 DEF s
        <5> HIDE DEF to
        <5>2. to[i] + Len(seqs[i]) <= Len(g)
          BY <3>5, <5>1
        <5>3. ASSUME NEW j \in 1 .. Len(s) PROVE g[Len(f) + j] = s[j]
          <6>1. Len(f) + j \in 1 .. Len(f) + Len(s) /\ ~(Len(f) + j <= Len(f)) /\ (Len(f) + j) - Len(f) = j
            BY <3>5
          <6>2. QED
            BY <3>5, <6>1
        <5>4. QED
          BY <5>1, <5>2, <5>3
      <4>2. CASE i # k + 2
        <5>1. i \in 1 .. (k + 1) /\ to[i] = at[i] /\ Len(seqs[i]) \in Nat /\ at[i] \in Nat
          BY <3>1, <3>2, <4>2, SMTT(40) DEF Stand
        <5>2. at[i] + Len(seqs[i]) <= Len(f) /\ \A j \in 1 .. Len(seqs[i]) : f[at[i] + j] = seqs[i][j]
          BY <3>2, <5>1 DEF Stand
        <5>3. QED
          <6> HIDE DEF to
          <6>1. ASSUME NEW j \in 1 .. Len(seqs[i]) PROVE g[at[i] + j] = seqs[i][j]
            <7>1. at[i] + j \in 1 .. Len(f) + Len(s) /\ at[i] + j <= Len(f)
              BY <3>5, <5>1, <5>2, SMTT(40)
            <7>2. QED
              BY <3>5, <5>2, <7>1
          <6>2. QED
            BY <3>5, <5>1, <5>2, <6>1
      <4>3. QED
        BY <4>1, <4>2
    <3>8. ASSUME NEW i \in 1 .. Len(g)
          PROVE  \E m \in 1 .. (k + 2) : \E j \in 1 .. Len(seqs[m]) : i = to[m] + j
      <4>1. CASE i <= Len(f)
        <5>1. PICK m \in 1 .. (k + 1) : \E j \in 1 .. Len(seqs[m]) : i = at[m] + j
          BY <3>2, <3>5, <4>1 DEF Stand
        <5>2. m \in 1 .. (k + 2) /\ to[m] = at[m]
          BY <3>1
        <5>3. QED
          BY <5>1, <5>2
      <4>2. CASE ~(i <= Len(f))
        <5>1. i - Len(f) \in 1 .. Len(seqs[k + 2]) /\ k + 2 \in 1 .. (k + 2) /\ to[k + 2] = Len(f)
          BY <3>1, <3>5, <4>2 DEF s
        <5>2. i = to[k + 2] + (i - Len(f))
          BY <3>5, <5>1
        <5>3. QED
          BY <5>1, <5>2
      <4>3. QED
        BY <4>1, <4>2
    <3>9. Stand(g, seqs, k + 2, to)
      BY <3>6, <3>7, <3>8 DEF Stand
    <3>10. QED
      BY <3>4, <3>5, <3>9
  <2> HIDE DEF T
  <2>5. T = Nat
    <3>1. T \in SUBSET Nat
      BY DEF T
    <3>2. QED
      BY <2>3, <2>4, <3>1, Induction
  <2>6. n - 1 \in T /\ (n - 1) + 1 = n
    BY <1>3, <2>5
  <2>7. QED
    BY <1>3, <2>1, <2>6 DEF T
<1>4. QED
  BY <1>2, <1>3

(***************************************************************************)
(* The default formatter.                                                  *)
(***************************************************************************)
\* The loop of LogFormatter::init.
NoTurn == [i |-> 1, nstr |-> <<>>, items |-> <<>>, error |-> FALSE]
IsTurns(f, p, n) == f = [k \in 0 .. n |-> IF k = 0 THEN NoTurn ELSE ParseTurn(p, f[k - 1])]

\* It can be run any number of times.
LEMMA TurnsExist ==
    ASSUME NEW p, NEW n \in Nat
    PROVE  \E f : IsTurns(f, p, n)
<1> DEFINE S == {k \in Nat : \E f : IsTurns(f, p, k)}
<1>1. 0 \in S
  <2>1. IsTurns([i \in 0 .. 0 |-> NoTurn], p, 0)
    BY DEF IsTurns
  <2>2. QED
    BY <2>1
<1>2. ASSUME NEW k \in S PROVE k + 1 \in S
  <2>1. PICK f : IsTurns(f, p, k)
    OBVIOUS
  <2> DEFINE g == [i \in 0 .. (k + 1) |-> IF i = k + 1 THEN ParseTurn(p, f[k]) ELSE f[i]]
  <2>2. ASSUME NEW i \in 0 .. (k + 1)
        PROVE  g[i] = IF i = 0 THEN NoTurn ELSE ParseTurn(p, g[i - 1])
    <3>1. CASE i = k + 1
      BY <3>1
    <3>2. CASE i # k + 1
      <4>1. i \in 0 .. k /\ g[i] = f[i]
        BY <3>2
      <4>2. f[i] = IF i = 0 THEN NoTurn ELSE ParseTurn(p, f[i - 1])
        BY <2>1, <4>1 DEF IsTurns
      <4>3. i # 0 => g[i - 1] = f[i - 1]
        BY <4>1
      <4>4. QED
        BY <4>1, <4>2, <4>3
    <3>3. QED
      BY <3>1, <3>2
  <2>3. IsTurns(g, p, k + 1)
    BY <2>2 DEF IsTurns
  <2> HIDE DEF g
  <2>4. k + 1 \in Nat
    OBVIOUS
  <2>5. QED
    BY <2>3, <2>4
<1> HIDE DEF S
<1>3. S = Nat
  <2>1. S \in SUBSET Nat
    BY DEF S
  <2>2. QED
    BY <1>1, <1>2, <2>1, Induction
<1>4. QED
  BY <1>3 DEF S

\* The formatter is made of what they leave.
LEMMA TurnsIs ==
    ASSUME NEW p, NEW n \in Nat, Len(p) = n
    PROVE  \E f : /\ IsTurns(f, p, n)
                 /\ LogFormatter(p) = Built(p, f[n].error, f[n].items \o Text(f[n].nstr))
<1> DEFINE F == CHOOSE f : f = [k \in 0 .. Len(p) |->
                      IF k = 0 THEN NoTurn ELSE ParseTurn(p, f[k - 1])]
<1>1. IsTurns(F, p, n)
  <2>1. \E f : f = [k \in 0 .. Len(p) |-> IF k = 0 THEN NoTurn ELSE ParseTurn(p, f[k - 1])]
    BY TurnsExist DEF IsTurns
  <2>2. QED
    BY <2>1 DEF IsTurns
<1>2. LogFormatter(p) = Built(p, F[n].error, F[n].items \o Text(F[n].nstr))
  BY Zenon DEF LogFormatter, NoTurn
<1>3. QED
  BY <1>1, <1>2

\* The default pattern, and the items it is made of.
DefaultPattern == <<"%", "p", "%", "c", "%", "m", "%", "n">>
KnownItems == {[type |-> 1, str |-> <<c>>, fmt |-> <<>>] : c \in Registered}
At(s, i) ==
    /\ s.i = i /\ s.nstr = <<>> /\ s.items \in Seq(KnownItems) /\ s.error = FALSE
    /\ DOMAIN s = {"i", "nstr", "items", "error"}

\* The least member of a set.
LEMMA MinIs ==
    ASSUME NEW S \in SUBSET Nat, NEW m \in S, \A x \in S : m <= x
    PROVE  Min(S) = m
<1>1. Min(S) \in S /\ \A x \in S : Min(S) <= x
  BY DEF Min
<1>2. m \in Nat /\ Min(S) \in Nat /\ m <= Min(S) /\ Min(S) <= m
  BY <1>1
<1>3. QED
  BY <1>2

\* One element of a sequence.
LEMMA SubSeqOne ==
    ASSUME NEW p, NEW m \in Int
    PROVE  SubSeq(p, m, m) = <<p[m]>>
<1> DEFINE q == SubSeq(p, m, m)
           S == {p[m]}
<1>1. \A k \in m .. m : p[k] \in S
  OBVIOUS
<1>2. <<p[m]>> \in Seq(S) /\ Len(<<p[m]>>) = 1 /\ <<p[m]>>[1] = p[m]
  OBVIOUS
<1> HIDE DEF S
<1>3. /\ q \in Seq(S)
      /\ Len(q) = (IF m <= m THEN m - m + 1 ELSE 0)
      /\ \A k \in 1 .. m - m + 1 : q[k] = p[m + k - 1]
  BY <1>1, SubSeqProperties
<1> HIDE DEF q
<1>4. m <= m /\ m - m + 1 = 1 /\ m + 1 - 1 = m /\ 1 \in 1 .. 1
  OBVIOUS
<1>5. Len(q) = 1 /\ q[1] = p[m]
  BY <1>3, <1>4
<1>6. \A k \in 1 .. Len(q) : q[k] = <<p[m]>>[k]
  BY <1>2, <1>5
<1>7. q = <<p[m]>>
  BY <1>2, <1>3, <1>5, <1>6, SeqEqual
<1>8. QED
  BY <1>7 DEF q

\* An item of the default pattern is a letter.
LEMMA DefaultScan ==
    ASSUME NEW i \in {1, 3, 5, 7}
    PROVE  /\ Scan(DefaultPattern, i) \in [str : {<<DefaultPattern[i + 1]>>}, fmt : {<<>>},
                                           next : {i + 2}, open : {FALSE}]
           /\ DefaultPattern[i + 1] \in Registered
<1> DEFINE p == DefaultPattern
<1>0. i \in Nat /\ i + 1 \in {2, 4, 6, 8} /\ i + 2 \in {3, 5, 7, 9} /\ i + 1 <= 8
  OBVIOUS
<1>1. /\ Len(p) = 8
      /\ \A k \in {1, 3, 5, 7} : p[k] = "%"
      /\ \A k \in {2, 4, 6, 8} : p[k] \in {"p", "c", "m", "n"}
  BY DEF DefaultPattern
<1> HIDE DEF p
<1> DEFINE stops == {k \in (i + 1) .. Len(p) : ~isalpha(p[k]) /\ p[k] \notin {"{", "}"}}
           braces == {k \in (i + 1) .. Len(p) : p[k] = "{"}
<1>2. braces = {}
  <2>1. ASSUME NEW k \in (i + 1) .. Len(p) PROVE p[k] # "{"
    <3>1. k \in {1, 3, 5, 7} \/ k \in {2, 4, 6, 8}
      <4>1. k \in Int /\ 1 <= k /\ k <= 8
        BY <1>0, <1>1
      <4>2. QED
        BY <4>1
    <3>2. QED
      BY <1>1, <3>1
  <2>2. QED
    BY <2>1
<1>3. BraceFrom(p, i + 1) = 9
  <2>1. BraceFrom(p, i + 1) = IF braces = {} THEN Len(p) + 1 ELSE Min(braces)
    BY DEF FirstFrom, BraceFrom
  <2> HIDE DEF braces
  <2>2. QED
    BY <1>1, <1>2, <2>1
<1>4. p[i + 1] \in Registered
  BY <1>0, <1>1 DEF Registered
<1>5. StopFrom(p, i + 1) = i + 2
  <2>1. StopFrom(p, i + 1) = IF stops = {} THEN Len(p) + 1 ELSE Min(stops)
    BY DEF FirstFrom, StopFrom
  <2>2. i + 1 \notin stops
    BY <1>4 DEF isalpha
  <2>3. stops \in SUBSET Nat /\ \A x \in stops : i + 2 <= x /\ x <= 8
    <3>1. ASSUME NEW x \in stops PROVE x \in Nat /\ i + 2 <= x /\ x <= 8
      <4>1. x \in (i + 1) .. Len(p) /\ x # i + 1
        BY <2>2
      <4> HIDE DEF stops
      <4>2. QED
        BY <1>0, <1>1, <4>1
    <3>2. QED
      BY <3>1
  <2>4. i # 7 => i + 2 \in stops
    <3>1. ~isalpha("%")
      BY DEF isalpha, Registered
    <3>2. i # 7 => i + 2 \in (i + 1) .. Len(p) /\ p[i + 2] = "%"
      BY <1>0, <1>1
    <3>3. QED
      BY <3>1, <3>2
  <2> HIDE DEF stops
  <2>5. CASE i = 7
    <3>1. stops = {}
      BY <2>3, <2>5
    <3>2. QED
      BY <1>1, <2>1, <2>5, <3>1
  <2>6. CASE i # 7
    <3>1. Min(stops) = i + 2
      BY <2>3, <2>4, <2>6, MinIs
    <3>2. QED
      BY <2>1, <2>4, <2>6, <3>1
  <2>7. QED
    BY <2>5, <2>6
<1>6. SubSeq(p, i + 1, (i + 2) - 1) = <<p[i + 1]>>
  <2>1. (i + 2) - 1 = i + 1 /\ i + 1 \in Int
    BY <1>0
  <2>2. QED
    BY <2>1, SubSeqOne
<1>7. Scan(p, i) = ScanNoBrace(p, i)
  BY <1>1, <1>3, <1>5 DEF Scan
<1>8. ScanNoBrace(p, i) = [str |-> <<p[i + 1]>>, fmt |-> <<>>, next |-> i + 2, open |-> FALSE]
  BY <1>5, <1>6 DEF ScanNoBrace
<1>9. QED
  BY <1>4, <1>7, <1>8 DEF p

\* A turn of the loop reads one of them.
LEMMA DefaultTurn ==
    ASSUME NEW i \in {1, 3, 5, 7}, NEW s, At(s, i)
    PROVE  At(ParseTurn(DefaultPattern, s), i + 2)
<1> DEFINE p == DefaultPattern
           a == Scan(p, i)
           item == [type |-> 1, str |-> a.str, fmt |-> a.fmt]
<1>1. Len(p) = 8 /\ p[i] = "%" /\ (i < 8 => p[i + 1] # "%")
  BY DEF DefaultPattern
<1>2. ParseTurn(p, s) = ParseItem(s, a)
  <2> HIDE DEF p, a
  <2>1. s.i = i /\ ~(i > Len(p)) /\ i < Len(p)
    BY <1>1 DEF At
  <2>2. ParseTurn(p, s) = ParseItem(s, Scan(p, i))
    BY <1>1, <2>1 DEF ParseTurn
  <2>3. QED
    BY <2>2 DEF a
<1>3. a.open = FALSE /\ a.next = i + 2 /\ item \in KnownItems
  BY DefaultScan DEF KnownItems
<1> HIDE DEF a, p
<1>4. Text(s.nstr) = <<>>
  BY DEF Text, At
<1>5. s.items \o Text(s.nstr) \o <<item>> \in Seq(KnownItems)
  <2> HIDE DEF item
  <2>1. s.items \in Seq(KnownItems) /\ <<item>> \in Seq(KnownItems) /\ <<>> \in Seq(KnownItems)
    BY <1>3 DEF At
  <2>2. QED
    BY <1>4, <2>1, ConcatProperties
<1>6. ParseItem(s, a) = [s EXCEPT !.items = s.items \o Text(s.nstr) \o <<item>>, !.nstr = <<>>, !.i = i + 2]
  <2>1. ParseItem(s, a) = [s EXCEPT !.items = @ \o Text(s.nstr) \o <<item>>, !.nstr = <<>>, !.i = a.next]
    BY <1>3 DEF ParseItem
  <2>2. QED
    BY <1>3, <2>1 DEF At
<1> DEFINE q == s.items \o Text(s.nstr) \o <<item>>
           r == [s EXCEPT !.items = q, !.nstr = <<>>, !.i = i + 2]
<1>7. ParseTurn(p, s) = r
  BY <1>2, <1>6
<1>8. q \in Seq(KnownItems)
  BY <1>5
<1> HIDE DEF q
<1>9. At(r, i + 2)
  BY <1>8 DEF At
<1>10. QED
  BY <1>7, <1>9 DEF p

\* At its end nothing happens any more.
LEMMA DefaultEnd ==
    ASSUME NEW s, At(s, 9)
    PROVE  ParseTurn(DefaultPattern, s) = s
<1>1. Len(DefaultPattern) = 8
  BY DEF DefaultPattern
<1>2. QED
  BY <1>1 DEF ParseTurn, At

\* The default formatter has no error.
LEMMA DefaultNoError == ~DefaultFormatter.error
<1> DEFINE p == DefaultPattern
<1>1. Len(p) = 8 /\ DefaultFormatter = LogFormatter(p)
  BY DEF DefaultPattern, DefaultFormatter
<1> HIDE DEF p
<1>2. PICK F : IsTurns(F, p, 8) /\ LogFormatter(p) = Built(p, F[8].error, F[8].items \o Text(F[8].nstr))
  BY <1>1, TurnsIs
<1>3. DefaultFormatter = Built(p, F[8].error, F[8].items \o Text(F[8].nstr))
  BY <1>1, <1>2
<1>4. /\ F[0] = NoTurn
      /\ F[1] = ParseTurn(p, F[0]) /\ F[2] = ParseTurn(p, F[1]) /\ F[3] = ParseTurn(p, F[2])
      /\ F[4] = ParseTurn(p, F[3]) /\ F[5] = ParseTurn(p, F[4]) /\ F[6] = ParseTurn(p, F[5])
      /\ F[7] = ParseTurn(p, F[6]) /\ F[8] = ParseTurn(p, F[7])
  BY <1>2 DEF IsTurns
<1>5. At(F[0], 1)
  BY <1>4 DEF At, NoTurn
<1>6. At(F[1], 3)
  BY <1>4, <1>5, DefaultTurn DEF p
<1>7. At(F[2], 5)
  BY <1>4, <1>6, DefaultTurn DEF p
<1>8. At(F[3], 7)
  BY <1>4, <1>7, DefaultTurn DEF p
<1>9. At(F[4], 9)
  BY <1>4, <1>8, DefaultTurn DEF p
<1>10. F[8] = F[4]
  BY <1>4, <1>9, DefaultEnd DEF p
<1>11. Text(F[8].nstr) = <<>> /\ F[8].items \in Seq(KnownItems) /\ F[8].error = FALSE
  BY <1>9, <1>10 DEF At, Text
<1> DEFINE its == F[8].items \o Text(F[8].nstr)
<1>12. its \in Seq(KnownItems)
  BY <1>11
<1> HIDE DEF its
<1>13. \A k \in DOMAIN its : IsKnown(its[k])
  <2> SUFFICES ASSUME NEW k \in DOMAIN its PROVE IsKnown(its[k])
    OBVIOUS
  <2>1. its[k] \in KnownItems
    BY <1>12
  <2>2. PICK c \in Registered : its[k] = [type |-> 1, str |-> <<c>>, fmt |-> <<>>]
    BY <2>1 DEF KnownItems
  <2>3. its[k].str = <<c>> /\ Len(<<c>>) = 1 /\ <<c>>[1] = c
    BY <2>2
  <2>4. QED
    BY <2>3 DEF IsKnown
<1>14. DefaultFormatter = Built(p, FALSE, its)
  BY <1>1, <1>3, <1>11 DEF its
<1>15. QED
  BY <1>13, <1>14 DEF Built

(***************************************************************************)
(* Loops that keep some elements of a list.                                *)
(***************************************************************************)
\* f[k]: what the first k elements leave, when element k is kept as e[k] if P[k].
IsKept(f, P, e, n) ==
    f = [k \in 0 .. n |-> IF k = 0 THEN <<>> ELSE IF P[k] THEN Append(f[k - 1], e[k]) ELSE f[k - 1]]

\* The function exists.
LEMMA KeptExists ==
    ASSUME NEW P, NEW e, NEW n \in Nat
    PROVE  \E f : IsKept(f, P, e, n)
<1> DEFINE S == {k \in Nat : \E f : IsKept(f, P, e, k)}
<1>1. 0 \in S
  <2>1. IsKept([i \in 0 .. 0 |-> <<>>], P, e, 0)
    BY DEF IsKept
  <2>2. QED
    BY <2>1
<1>2. ASSUME NEW k \in S PROVE k + 1 \in S
  <2>1. PICK f : IsKept(f, P, e, k)
    OBVIOUS
  <2> DEFINE last == IF P[k + 1] THEN Append(f[k], e[k + 1]) ELSE f[k]
             g == [i \in 0 .. (k + 1) |-> IF i = k + 1 THEN last ELSE f[i]]
  <2>2. ASSUME NEW i \in 0 .. (k + 1)
        PROVE  g[i] = IF i = 0 THEN <<>> ELSE IF P[i] THEN Append(g[i - 1], e[i]) ELSE g[i - 1]
    <3>1. CASE i = k + 1
      <4>1. i # 0 /\ i - 1 = k /\ g[i] = last /\ g[k] = f[k]
        BY <3>1
      <4>2. QED
        BY <3>1, <4>1
    <3>2. CASE i # k + 1
      <4>1. i \in 0 .. k /\ g[i] = f[i]
        BY <3>2
      <4>2. f[i] = IF i = 0 THEN <<>> ELSE IF P[i] THEN Append(f[i - 1], e[i]) ELSE f[i - 1]
        BY <2>1, <4>1 DEF IsKept
      <4>3. i # 0 => g[i - 1] = f[i - 1]
        BY <4>1
      <4>4. QED
        BY <4>1, <4>2, <4>3
    <3>3. QED
      BY <3>1, <3>2
  <2>3. IsKept(g, P, e, k + 1)
    BY <2>2 DEF IsKept
  <2> HIDE DEF g
  <2>4. k + 1 \in Nat
    OBVIOUS
  <2>5. QED
    BY <2>3, <2>4
<1> HIDE DEF S
<1>3. S = Nat
  <2>1. S \in SUBSET Nat
    BY DEF S
  <2>2. QED
    BY <1>1, <1>2, <2>1, Induction
<1>4. QED
  BY <1>3 DEF S

\* What is kept is in Q; all are kept.
KeptAll(P, n) == \A k \in 1 .. n : P[k]
KeptIn(P, e, n, Q) == \A k \in 1 .. n : P[k] => e[k] \in Q

\* It has the elements that are kept, and all of them when all are kept.
LEMMA KeptHas ==
    ASSUME NEW P, NEW e, NEW n \in Nat, NEW f, IsKept(f, P, e, n), NEW Q,
           KeptIn(P, e, n, Q)
    PROVE  /\ f[n] \in Seq(Q)
           /\ KeptAll(P, n) => Len(f[n]) = n /\ \A j \in 1 .. n : f[n][j] = e[j]
<1> DEFINE T == {k \in Nat : k <= n =>
                   /\ f[k] \in Seq(Q)
                   /\ KeptAll(P, n) => Len(f[k]) = k /\ \A j \in 1 .. k : f[k][j] = e[j]}
<1>1. 0 \in T
  <2>1. f[0] = <<>>
    BY DEF IsKept
  <2>2. <<>> \in Seq(Q) /\ Len(<<>>) = 0 /\ 1 .. 0 = {} /\ 0 \in Nat
    OBVIOUS
  <2>3. f[0] \in Seq(Q) /\ Len(f[0]) = 0 /\ \A j \in 1 .. 0 : f[0][j] = e[j]
    BY <2>1, <2>2
  <2>4. QED
    BY <2>2, <2>3
<1>2. ASSUME NEW k \in T PROVE k + 1 \in T
  <2> SUFFICES ASSUME k + 1 <= n
               PROVE  /\ f[k + 1] \in Seq(Q)
                      /\ KeptAll(P, n) =>
                           Len(f[k + 1]) = k + 1 /\ \A j \in 1 .. (k + 1) : f[k + 1][j] = e[j]
    OBVIOUS
  <2>1. /\ k \in Nat /\ f[k] \in Seq(Q)
        /\ KeptAll(P, n) => Len(f[k]) = k /\ \A j \in 1 .. k : f[k][j] = e[j]
    OBVIOUS
  <2>2. f[k + 1] = IF P[k + 1] THEN Append(f[k], e[k + 1]) ELSE f[k]
    <3>1. k + 1 \in 0 .. n /\ k + 1 # 0 /\ (k + 1) - 1 = k
      BY <2>1
    <3>2. QED
      BY <3>1 DEF IsKept
  <2>3. k + 1 \in 1 .. n
    BY <2>1
  <2> HIDE DEF T
  <2>4. CASE P[k + 1]
    <3>1. e[k + 1] \in Q /\ f[k + 1] = Append(f[k], e[k + 1])
      BY <2>2, <2>3, <2>4 DEF KeptIn
    <3>2. f[k + 1] \in Seq(Q)
      BY <2>1, <3>1
    <3>3. ASSUME KeptAll(P, n)
          PROVE  Len(f[k + 1]) = k + 1 /\ \A j \in 1 .. (k + 1) : f[k + 1][j] = e[j]
      BY <2>1, <3>1, <3>3
    <3>4. QED
      BY <3>2, <3>3
  <2>5. CASE ~P[k + 1]
    BY <2>1, <2>2, <2>3, <2>5 DEF KeptAll
  <2>6. QED
    BY <2>4, <2>5
<1> HIDE DEF T
<1>3. T = Nat
  <2>1. T \in SUBSET Nat
    BY DEF T
  <2>2. QED
    BY <1>1, <1>2, <2>1, Induction
<1>4. QED
  BY <1>3 DEF T

(***************************************************************************)
(* Log definitions.                                                        *)
(***************************************************************************)
\* What the reader of a definition makes of an appender, and of a logger.
IsAppenderDefine(a) ==
    /\ a.level = 0
    /\ (a.type = 1 /\ a.file # Undef) \/ (a.type = 2 /\ a.file = "")
IsDefine(d) ==
    /\ d.name \in LoggerNames /\ d.level \in 0 .. 5 /\ IsList(d.appenders)
    /\ \A k \in DOMAIN d.appenders : IsAppenderDefine(d.appenders[k])
IsDefines(D) ==
    /\ IsFiniteSet(D) /\ \A d \in D : IsDefine(d)
    /\ \A d, e \in D : d.name = e.name => d = e

\* AppenderDefines reads a list of appenders as a list, and loses none when all
\* are usable.
LEMMA AppenderDefinesIs ==
    ASSUME NEW node, IsList(node.appenders)
    PROVE  LET as == AppenderDefines(node) IN
           /\ IsList(as) /\ \A k \in DOMAIN as : IsAppenderDefine(as[k])
           /\ (\A k \in DOMAIN node.appenders : Usable(node.appenders[k])) =>
                /\ Len(as) = Len(node.appenders)
                /\ \A k \in 1 .. Len(as) : as[k] = AppenderDefine(node.appenders[k])
<1> DEFINE aps == node.appenders
           n == Len(aps)
           F == CHOOSE f : f = [k \in 0 .. Len(aps) |->
                    IF k = 0 THEN <<>> ELSE IF ~Usable(aps[k]) THEN f[k - 1]
                    ELSE Append(f[k - 1], AppenderDefine(aps[k]))]
<1>p. PICK P : P = [k \in 1 .. n |-> Usable(aps[k])]
  OBVIOUS
<1>e. PICK e : e = [k \in 1 .. n |-> AppenderDefine(aps[k])]
  OBVIOUS
<1>q. PICK Q : Q = {e[k] : k \in {j \in 1 .. n : P[j]}}
  OBVIOUS
<1>1. n \in Nat /\ DOMAIN aps = 1 .. n
  BY ListIs
<1>2. PICK g : IsKept(g, P, e, n)
  BY <1>1, KeptExists
<1>3. ASSUME NEW f, f = [k \in 0 .. n |-> f[k]]
      PROVE  IsKept(f, P, e, n) <=>
             f = [k \in 0 .. n |-> IF k = 0 THEN <<>> ELSE IF ~Usable(aps[k]) THEN f[k - 1]
                                   ELSE Append(f[k - 1], AppenderDefine(aps[k]))]
  <2>1. ASSUME NEW k \in 1 .. n
        PROVE  (IF P[k] THEN Append(f[k - 1], e[k]) ELSE f[k - 1])
                 = IF ~Usable(aps[k]) THEN f[k - 1] ELSE Append(f[k - 1], AppenderDefine(aps[k]))
    BY <1>p, <1>e
  <2> DEFINE A(k) == IF k = 0 THEN <<>> ELSE IF P[k] THEN Append(f[k - 1], e[k]) ELSE f[k - 1]
             B(k) == IF k = 0 THEN <<>> ELSE IF ~Usable(aps[k]) THEN f[k - 1]
                     ELSE Append(f[k - 1], AppenderDefine(aps[k]))
  <2>2. ASSUME NEW k \in 0 .. n PROVE A(k) = B(k)
    <3>1. k = 0 \/ k \in 1 .. n
      BY <1>1
    <3>2. QED
      BY <2>1, <3>1
  <2>3. [k \in 0 .. n |-> A(k)] = [k \in 0 .. n |-> B(k)]
    <3> HIDE DEF A, B
    <3>1. QED
      BY <2>2
  <2>4. QED
    BY <2>3, Zenon DEF IsKept
<1>4. g = [k \in 0 .. n |-> g[k]]
  BY <1>2 DEF IsKept
<1>5. F = [k \in 0 .. n |-> IF k = 0 THEN <<>> ELSE IF ~Usable(aps[k]) THEN F[k - 1]
                            ELSE Append(F[k - 1], AppenderDefine(aps[k]))]
  BY <1>2, <1>3, <1>4, Zenon
<1>6. AppenderDefines(node) = F[n]
  BY DEF AppenderDefines
<1> HIDE DEF F
<1>7. IsKept(F, P, e, n)
  <2>1. F = [k \in 0 .. n |-> F[k]]
    BY <1>5
  <2>2. QED
    BY <1>3, <1>5, <2>1, Zenon
<1>8. KeptIn(P, e, n, Q)
  BY <1>q DEF KeptIn
<1>9. \A x \in Q : IsAppenderDefine(x)
  <2> SUFFICES ASSUME NEW k \in 1 .. n, Usable(aps[k]) PROVE IsAppenderDefine(AppenderDefine(aps[k]))
    BY <1>p, <1>e, <1>q
  <2>1. QED
    BY DEF IsAppenderDefine, AppenderDefine, Usable
<1>10. (\A k \in DOMAIN aps : Usable(aps[k])) => KeptAll(P, n)
  BY <1>1, <1>p DEF KeptAll
<1>11. \A k \in 1 .. n : e[k] = AppenderDefine(aps[k])
  BY <1>e
<1> HIDE DEF n, aps
<1>12. /\ F[n] \in Seq(Q)
       /\ KeptAll(P, n) => Len(F[n]) = n /\ \A j \in 1 .. n : F[n][j] = e[j]
  <2>1. n \in Nat
    BY <1>1
  <2>2. F[n] \in Seq(Q)
    BY <1>7, <1>8, <2>1, KeptHas
  <2>3. KeptAll(P, n) => Len(F[n]) = n
    BY <1>7, <1>8, <2>1, KeptHas
  <2>4. KeptAll(P, n) => \A j \in 1 .. n : F[n][j] = e[j]
    BY <1>7, <1>8, <2>1, KeptHas
  <2>5. QED
    BY <2>2, <2>3, <2>4
<1>13. IsList(F[n])
  BY <1>12, SeqIsList
<1>14. \A k \in DOMAIN F[n] : IsAppenderDefine(F[n][k])
  BY <1>9, <1>12
<1>15. QED
  BY <1>6, <1>10, <1>11, <1>12, <1>13, <1>14 DEF aps, n

\* Levels are read as they were written.
LEMMA LevelReadsBack ==
    ASSUME NEW level \in 0 .. 5
    PROVE  fromsStringToLevel(LogLevelToString(level)) = level
<1> DEFINE str == LogLevelToString(level)
           named == {l \in 1 .. 5 : LevelNames[l] = str \/ LowerLevels[l] = str}
<1>1. /\ LevelNames[1] = "DEBUG" /\ LevelNames[2] = "INFO" /\ LevelNames[3] = "WARN"
      /\ LevelNames[4] = "ERROR" /\ LevelNames[5] = "FATAL"
      /\ LowerLevels[1] = "debug" /\ LowerLevels[2] = "info" /\ LowerLevels[3] = "warn"
      /\ LowerLevels[4] = "error" /\ LowerLevels[5] = "fatal"
  BY DEF LevelNames, LowerLevels
<1>2. level \in {0, 1, 2, 3, 4, 5}
  OBVIOUS
<1>3. CASE level = 0
  <2>1. str = "UNKNOW"
    BY <1>3 DEF LogLevelToString
  <2> HIDE DEF str
  <2>2. ASSUME NEW l \in 1 .. 5 PROVE ~(LevelNames[l] = str \/ LowerLevels[l] = str)
    <3>1. l \in {1, 2, 3, 4, 5}
      OBVIOUS
    <3>2. QED
      BY <1>1, <2>1, <3>1
  <2>3. named = {}
    BY <2>2
  <2> HIDE DEF named
  <2>4. QED
    BY <1>3, <2>3 DEF fromsStringToLevel, named, str
<1>4. CASE level # 0
  <2>1. level \in 1 .. 5 /\ str = LevelNames[level]
    BY <1>4 DEF LogLevelToString
  <2> HIDE DEF str
  <2>2. ASSUME NEW l \in 1 .. 5, LevelNames[l] = str \/ LowerLevels[l] = str PROVE l = level
    <3>1. l \in {1, 2, 3, 4, 5} /\ level \in {1, 2, 3, 4, 5}
      BY <2>1
    <3>2. QED
      BY <1>1, <2>1, <2>2, <3>1
  <2>3. named = {level}
    BY <2>1, <2>2
  <2>4. fromsStringToLevel(str) = IF named = {} THEN 0 ELSE CHOOSE l \in named : TRUE
    BY DEF fromsStringToLevel
  <2> HIDE DEF named
  <2>5. QED
    BY <2>3, <2>4 DEF str
<1>5. QED
  BY <1>3, <1>4

\* What is read is a level.
LEMMA LevelRead ==
    ASSUME NEW str
    PROVE  fromsStringToLevel(str) \in 0 .. 5
<1> DEFINE named == {l \in 1 .. 5 : LevelNames[l] = str \/ LowerLevels[l] = str}
<1>1. fromsStringToLevel(str) = IF named = {} THEN 0 ELSE CHOOSE l \in named : TRUE
  BY DEF fromsStringToLevel
<1>2. \A l \in named : l \in 0 .. 5
  OBVIOUS
<1> HIDE DEF named
<1>3. QED
  BY <1>1, <1>2

\* What LoadFromYaml lists are nodes of the document.
LEMMA ListAllMemberIs ==
    ASSUME NEW doc, IsList(doc)
    PROVE  ListAllMember(doc) \in Seq(ToSet(doc))
<1> DEFINE n == Len(doc)
           F == CHOOSE f : f = [k \in 0 .. Len(doc) |->
                    IF k = 0 THEN <<>>
                    ELSE IF ValidKey(doc[k].path) THEN Append(f[k - 1], doc[k]) ELSE f[k - 1]]
<1>1. n \in Nat /\ DOMAIN doc = 1 .. n
  BY ListIs
<1>2. PICK P : P = [k \in 1 .. n |-> ValidKey(doc[k].path)]
  OBVIOUS
<1>3. PICK g : IsKept(g, P, doc, n)
  BY <1>1, KeptExists
<1>4. ASSUME NEW f
      PROVE  IsKept(f, P, doc, n) <=>
             f = [k \in 0 .. n |-> IF k = 0 THEN <<>>
                    ELSE IF ValidKey(doc[k].path) THEN Append(f[k - 1], doc[k]) ELSE f[k - 1]]
  <2> DEFINE A(k) == IF k = 0 THEN <<>> ELSE IF P[k] THEN Append(f[k - 1], doc[k]) ELSE f[k - 1]
             B(k) == IF k = 0 THEN <<>>
                     ELSE IF ValidKey(doc[k].path) THEN Append(f[k - 1], doc[k]) ELSE f[k - 1]
  <2>1. ASSUME NEW k \in 0 .. n PROVE A(k) = B(k)
    <3>1. k = 0 \/ k \in 1 .. n
      BY <1>1
    <3>2. QED
      BY <1>2, <3>1
  <2>2. [k \in 0 .. n |-> A(k)] = [k \in 0 .. n |-> B(k)]
    <3> HIDE DEF A, B
    <3>1. QED
      BY <2>1
  <2>3. QED
    BY <2>2, Zenon DEF IsKept
<1>5. F = [k \in 0 .. n |-> IF k = 0 THEN <<>>
             ELSE IF ValidKey(doc[k].path) THEN Append(F[k - 1], doc[k]) ELSE F[k - 1]]
  BY <1>3, <1>4, Zenon
<1>6. ListAllMember(doc) = F[n]
  BY DEF ListAllMember
<1> HIDE DEF F
<1>7. IsKept(F, P, doc, n)
  BY <1>4, <1>5, Zenon
<1>8. KeptIn(P, doc, n, ToSet(doc))
  BY <1>1 DEF KeptIn, ToSet
<1>9. F[n] \in Seq(ToSet(doc))
  <2> HIDE DEF n
  <2>1. n \in Nat
    BY <1>1
  <2>2. QED
    BY <1>7, <1>8, <2>1, KeptHas
<1>10. QED
  BY <1>6, <1>9

\* A list of loggers with lists of appenders.
IsLoggers(nodes) ==
    /\ IsList(nodes)
    /\ \A j \in DOMAIN nodes : /\ IsList(nodes[j].appenders)
                               /\ nodes[j].name \in LoggerNames \union {Undef}

\* It is read as definitions, one for each name.
LEMMA LogDefinesIs ==
    ASSUME NEW nodes, IsLoggers(nodes), LogDefinesReadable(nodes)
    PROVE  IsDefines(LogDefines(nodes))
<1> DEFINE first == {j \in DOMAIN nodes : \A i \in 1 .. (j - 1) : nodes[i].name # nodes[j].name}
           g == [k \in first |-> LogDefine(nodes[k])]
<1>1. Len(nodes) \in Nat /\ DOMAIN nodes = 1 .. Len(nodes)
  BY ListIs DEF IsLoggers
<1>2. IsFiniteSet(first)
  <2>1. IsFiniteSet(1 .. Len(nodes)) /\ first \subseteq 1 .. Len(nodes)
    BY <1>1, FS_Interval
  <2> HIDE DEF first
  <2>2. QED
    BY <2>1, FS_Subset
<1>3. LogDefines(nodes) = {LogDefine(nodes[k]) : k \in first}
  BY DEF LogDefines
<1>4. \A k \in first : \A j \in first : nodes[k].name = nodes[j].name => k = j
  <2> SUFFICES ASSUME NEW k \in first, NEW j \in first, nodes[k].name = nodes[j].name, k # j PROVE FALSE
    OBVIOUS
  <2>1. k \in 1 .. Len(nodes) /\ j \in 1 .. Len(nodes)
    BY <1>1
  <2>2. k \in 1 .. (j - 1) \/ j \in 1 .. (k - 1)
    BY <1>1, <2>1
  <2>3. QED
    BY <2>2
<1>5. \A k \in first : k \in DOMAIN nodes
  OBVIOUS
<1> HIDE DEF first
<1>6. IsFiniteSet(LogDefines(nodes))
  <2>1. g \in Surjection(first, LogDefines(nodes))
    BY <1>3 DEF Surjection
  <2>2. QED
    BY <1>2, <2>1, FS_Surjection
<1>7. ASSUME NEW k \in first PROVE IsDefine(LogDefine(nodes[k])) /\ LogDefine(nodes[k]).name = nodes[k].name
  <2> DEFINE node == nodes[k]
             d == LogDefine(node)
  <2>1. IsList(node.appenders) /\ node.name \in LoggerNames
    BY <1>5 DEF IsLoggers, LogDefinesReadable
  <2>2. /\ d.name = node.name /\ d.level = fromsStringToLevel(node.level)
        /\ d.appenders = AppenderDefines(node)
    BY DEF LogDefine
  <2> HIDE DEF node, d
  <2>3. IsList(AppenderDefines(node)) /\ \A i \in DOMAIN AppenderDefines(node) : IsAppenderDefine(AppenderDefines(node)[i])
    BY <2>1, AppenderDefinesIs
  <2>4. fromsStringToLevel(node.level) \in 0 .. 5
    BY LevelRead
  <2>5. IsDefine(d)
    BY <2>1, <2>2, <2>3, <2>4 DEF IsDefine
  <2>6. QED
    BY <2>2, <2>5 DEF node, d
<1>8. \A d \in LogDefines(nodes) : IsDefine(d)
  BY <1>3, <1>7
<1>9. ASSUME NEW d \in LogDefines(nodes), NEW e \in LogDefines(nodes), d.name = e.name PROVE d = e
  <2>1. PICK k \in first : d = LogDefine(nodes[k])
    BY <1>3
  <2>2. PICK j \in first : e = LogDefine(nodes[j])
    BY <1>3
  <2>3. nodes[k].name = nodes[j].name
    BY <1>7, <1>9, <2>1, <2>2
  <2>4. QED
    BY <1>4, <2>1, <2>2, <2>3
<1>10. QED
  BY <1>6, <1>8, <1>9 DEF IsDefines

(***************************************************************************)
(* The calls that the listener of "logs" makes.                            *)
(***************************************************************************)
\* The calls for definition d stand in l behind position s: the level (or the
\* null pointer), the formatter if there is one, clear, and the appenders.
ClearAt(d) == IF d.formatter = <<>> THEN 2 ELSE 3
Size(d) == ClearAt(d) + Len(d.appenders)
BlockAt(l, s, d) ==
    /\ s + Size(d) <= Len(l)
    /\ l[s + 1].call \in {"null", "level"} /\ l[s + 1].name = d.name /\ l[s + 1].arg = d.level
    /\ ClearAt(d) = 3 => /\ l[s + 2].call = "formatter" /\ l[s + 2].name = d.name
                         /\ l[s + 2].arg = d.formatter
    /\ l[s + ClearAt(d)].call = "clear" /\ l[s + ClearAt(d)].name = d.name
    /\ \A k \in 1 .. Len(d.appenders) :
         /\ l[s + ClearAt(d) + k].call = "add" /\ l[s + ClearAt(d) + k].name = d.name
         /\ l[s + ClearAt(d) + k].arg = d.appenders[k]

\* Calls puts them there.
LEMMA CallsIs ==
    ASSUME NEW d, IsDefine(d), NEW old
    PROVE  IsList(Calls(d, old)) /\ Len(Calls(d, old)) = Size(d) /\ BlockAt(Calls(d, old), 0, d)
<1> DEFINE found == {e \in old : e.name = d.name}
           c1 == [call |-> IF found # {} /\ sameDefine(d, CHOOSE e \in found : TRUE)
                           THEN "null" ELSE "level", name |-> d.name, arg |-> d.level]
           c2 == [call |-> "formatter", name |-> d.name, arg |-> d.formatter]
           c3 == [call |-> "clear", name |-> d.name, arg |-> 0]
           n == Len(d.appenders)
           adds == [k \in DOMAIN d.appenders |-> [call |-> "add", name |-> d.name, arg |-> d.appenders[k]]]
           form == IF d.formatter = <<>> THEN <<>> ELSE <<c2>>
           calls == ((<<c1>> \o form) \o <<c3>>) \o adds
           S == {c1, c2, c3} \union {adds[k] : k \in 1 .. n}
<1>1. Calls(d, old) = calls
  BY Zenon DEF Calls
<1>2. n \in Nat /\ DOMAIN d.appenders = 1 .. n
  BY ListIs DEF IsDefine
<1>3. /\ c1.call \in {"null", "level"} /\ c1.name = d.name /\ c1.arg = d.level
      /\ c2.call = "formatter" /\ c2.name = d.name /\ c2.arg = d.formatter
      /\ c3.call = "clear" /\ c3.name = d.name
  OBVIOUS
<1>4. adds \in Seq(S) /\ Len(adds) = n
  BY <1>2
<1>5. \A k \in 1 .. n : adds[k].call = "add" /\ adds[k].name = d.name /\ adds[k].arg = d.appenders[k]
  BY <1>2
<1>6. c1 \in S /\ c2 \in S /\ c3 \in S
  OBVIOUS
<1>7. ClearAt(d) = IF d.formatter = <<>> THEN 2 ELSE 3
  BY DEF ClearAt
<1> HIDE DEF c1, c2, c3, adds, S, n
<1> DEFINE h == (<<c1>> \o form) \o <<c3>>
           m == ClearAt(d)
<1>8. /\ h \in Seq(S) /\ Len(h) = m /\ m \in Nat /\ m >= 2 /\ h[1] = c1 /\ h[m] = c3
      /\ m = 3 => h[2] = c2
  <2> DEFINE x == <<c1>> \o form
             y == <<c3>>
  <2>1. /\ <<c1>> \in Seq(S) /\ Len(<<c1>>) = 1 /\ <<c1>>[1] = c1
        /\ <<c2>> \in Seq(S) /\ Len(<<c2>>) = 1 /\ <<c2>>[1] = c2
        /\ y \in Seq(S) /\ Len(y) = 1 /\ y[1] = c3
        /\ <<>> \in Seq(S) /\ Len(<<>>) = 0
    BY <1>6
  <2>2. /\ form \in Seq(S) /\ m \in {2, 3} /\ Len(form) = m - 2
        /\ m = 3 => form[1] = c2
    BY <1>7, <2>1
  <2> HIDE DEF form, m, y
  <2>3. /\ x \in Seq(S) /\ Len(x) = 1 + Len(form)
        /\ \A i \in 1 .. 1 + Len(form) : x[i] = IF i <= 1 THEN <<c1>>[i] ELSE form[i - 1]
    BY <2>1, <2>2, ConcatProperties
  <2> HIDE DEF x
  <2>4. Len(x) = m - 1 /\ x[1] = c1 /\ (m = 3 => x[2] = c2)
    BY <2>1, <2>2, <2>3
  <2>5. /\ x \o y \in Seq(S) /\ Len(x \o y) = Len(x) + Len(y)
        /\ \A i \in 1 .. Len(x) + Len(y) : (x \o y)[i] = IF i <= Len(x) THEN x[i] ELSE y[i - Len(x)]
    BY <2>1, <2>3, ConcatProperties
  <2>6. h = x \o y
    BY DEF x, y
  <2> HIDE DEF h
  <2>7. Len(h) = m /\ h[1] = c1 /\ h[m] = c3 /\ (m = 3 => h[2] = c2)
    <3>1. Len(x) \in Nat /\ Len(x) + Len(y) = m /\ m - Len(x) = 1 /\ m \in Nat /\ ~(m <= Len(x))
      BY <2>1, <2>2, <2>4
    <3>2. Len(h) = m /\ h[m] = y[m - Len(x)]
      BY <2>2, <2>5, <2>6, <3>1
    <3>3. 1 \in 1 .. m /\ 1 <= Len(x)
      BY <2>2, <2>4
    <3>4. h[1] = x[1]
      BY <2>5, <2>6, <3>1, <3>3
    <3>5. m = 3 => 2 \in 1 .. m /\ 2 <= Len(x)
      BY <2>4
    <3>6. m = 3 => h[2] = x[2]
      BY <2>5, <2>6, <3>1, <3>5
    <3>7. QED
      BY <2>1, <2>4, <3>1, <3>2, <3>4, <3>6
  <2>8. QED
    BY <2>2, <2>5, <2>6, <2>7
<1>9. calls = h \o adds
  OBVIOUS
<1> HIDE DEF calls, h, form, m
<1>10. /\ calls \in Seq(S) /\ Len(calls) = m + n
       /\ \A i \in 1 .. m + n : calls[i] = IF i <= m THEN h[i] ELSE adds[i - m]
  BY <1>4, <1>8, <1>9, ConcatProperties
<1>11. calls[1] = c1 /\ calls[m] = c3 /\ (m = 3 => calls[2] = c2)
  BY <1>2, <1>8, <1>10
<1>12. ASSUME NEW k \in 1 .. n PROVE calls[m + k] = adds[k]
  <2>1. m + k \in 1 .. m + n /\ ~(m + k <= m) /\ (m + k) - m = k
    BY <1>2, <1>8
  <2>2. QED
    BY <1>10, <2>1
<1>13. BlockAt(calls, 0, d)
  <2>1. 0 + (m + n) <= Len(calls) /\ 0 + 1 = 1 /\ 0 + 2 = 2 /\ 0 + m = m
    BY <1>2, <1>8, <1>10
  <2>2. Size(d) = m + n
    BY DEF Size, m, n
  <2>3. \A k \in 1 .. n : /\ calls[0 + m + k].call = "add" /\ calls[0 + m + k].name = d.name
                          /\ calls[0 + m + k].arg = d.appenders[k]
    BY <1>5, <1>12, <2>1
  <2>4. calls[0 + m].call = "clear" /\ calls[0 + m].name = d.name
    BY <1>3, <1>11, <2>1
  <2>5. m = 3 => /\ calls[0 + 2].call = "formatter" /\ calls[0 + 2].name = d.name
                 /\ calls[0 + 2].arg = d.formatter
    BY <1>3, <1>11, <2>1
  <2>6. calls[0 + 1].call \in {"null", "level"} /\ calls[0 + 1].name = d.name /\ calls[0 + 1].arg = d.level
    BY <1>3, <1>11, <2>1
  <2>7. QED
    BY <2>1, <2>2, <2>3, <2>4, <2>5, <2>6 DEF BlockAt, m, n
<1>14. Len(calls) = Size(d)
  BY <1>10 DEF Size, m, n
<1>15. IsList(calls)
  BY <1>10, SeqIsList
<1>16. QED
  BY <1>1, <1>13, <1>14, <1>15

\* A block that stands in c stands in a longer list that has c behind s.
LEMMA BlockMoves ==
    ASSUME NEW d, IsDefine(d), NEW c, BlockAt(c, 0, d), Len(c) = Size(d), NEW l, NEW s \in Nat,
           Len(l) \in Nat, s + Len(c) <= Len(l), \A j \in 1 .. Len(c) : l[s + j] = c[j]
    PROVE  BlockAt(l, s, d)
<1> DEFINE m == ClearAt(d)
           n == Len(d.appenders)
<1>1. m \in {2, 3} /\ n \in Nat /\ Size(d) = m + n
  BY ListIs DEF ClearAt, Size, IsDefine
<1>2. ASSUME NEW j \in 1 .. m + n PROVE l[s + j] = c[0 + j]
  <2>1. 0 + j = j /\ j \in 1 .. Len(c)
    BY <1>1
  <2>2. QED
    BY <2>1
<1>3. 1 \in 1 .. m + n /\ m \in 1 .. m + n /\ (m = 3 => 2 \in 1 .. m + n)
  BY <1>1
<1>4. ASSUME NEW k \in 1 .. n PROVE l[s + m + k] = c[0 + m + k]
  <2>1. m + k \in 1 .. m + n /\ s + (m + k) = s + m + k /\ 0 + (m + k) = 0 + m + k
    <3> HIDE DEF m, n
    <3>1. QED
      BY <1>1
  <2>2. QED
    BY <1>2, <2>1
<1>5. QED
  <2>1. l[s + 1] = c[0 + 1] /\ l[s + m] = c[0 + m] /\ (m = 3 => l[s + 2] = c[0 + 2])
    BY <1>2, <1>3
  <2> HIDE DEF m, n
  <2>2. s + Size(d) <= Len(l)
    OBVIOUS
  <2>3. \A k \in 1 .. n : /\ l[s + m + k].call = "add" /\ l[s + m + k].name = d.name
                          /\ l[s + m + k].arg = d.appenders[k]
    BY <1>4, ZenonT(60) DEF BlockAt, m, n
  <2>4. QED
    BY <2>1, <2>2, <2>3 DEF BlockAt, m, n

\* The whole list for an old and a new value: the blocks of the new definitions,
\* at the positions that start says, and a delete for each name that is gone.
IsScript(l, old, new, start) ==
    /\ start \in [new -> Nat] /\ \A d \in new : BlockAt(l, start[d], d)
    /\ \A i \in 1 .. Len(l) : \/ \E d \in new : start[d] < i /\ i <= start[d] + Size(d)
                              \/ l[i].call = "delete" /\ l[i].name \in Removed(old, new)
    /\ \A n \in Removed(old, new) : \E i \in 1 .. Len(l) : l[i].call = "delete" /\ l[i].name = n

\* Listener gives such a list.
LEMMA ListenerIs ==
    ASSUME NEW old, IsDefines(old), NEW new, IsDefines(new)
    PROVE  IsList(Listener(old, new)) /\ \E start : IsScript(Listener(old, new), old, new, start)
<1> DEFINE ds == SetToSeq(new)
           n == Cardinality(new)
           seqs == [k \in DOMAIN ds |-> Calls(ds[k], old)]
           flat == FlattenSeq(seqs)
           R == Removed(old, new)
           gone == SetToSeq(R)
           r == Cardinality(R)
           dels == [k \in DOMAIN gone |-> [call |-> "delete", name |-> gone[k], arg |-> 0]]
           S == (UNION {ToSet(Calls(d, old)) : d \in new}) \union {dels[k] : k \in 1 .. r}
           l == flat \o dels
<1>1. Listener(old, new) = l
  BY DEF Listener
<1>2. /\ n \in Nat /\ ds \in [1 .. n -> new] /\ \A d \in new : \E i \in 1 .. n : ds[i] = d
      /\ \A i, j \in 1 .. n : ds[i] = ds[j] => i = j
  BY SetToSeqLists DEF IsDefines
<1>3. IsFiniteSet(R)
  <2> DEFINE N == {d.name : d \in old}
             g == [d \in old |-> d.name]
  <2>1. g \in Surjection(old, N)
    BY DEF Surjection
  <2>2. IsFiniteSet(N)
    <3> HIDE DEF N, g
    <3>1. QED
      BY <2>1, FS_Surjection DEF IsDefines
  <2>3. R \subseteq N
    BY DEF Removed
  <2> HIDE DEF N, R
  <2>4. QED
    BY <2>2, <2>3, FS_Subset
<1>4. r \in Nat /\ gone \in [1 .. r -> R] /\ \A x \in R : \E i \in 1 .. r : gone[i] = x
  <2> HIDE DEF R
  <2>1. QED
    BY <1>3, SetToSeqLists
<1>5. dels \in Seq(S) /\ Len(dels) = r
  <2> HIDE DEF gone, r, R
  <2>1. DOMAIN gone = 1 .. r
    BY <1>4
  <2>2. QED
    BY <1>4, <2>1
<1>6. \A k \in 1 .. r : dels[k].call = "delete" /\ dels[k].name = gone[k]
  <2> HIDE DEF gone, r, R
  <2>1. DOMAIN gone = 1 .. r
    BY <1>4
  <2>2. QED
    BY <2>1
<1>7. ASSUME NEW d \in new
      PROVE  /\ Calls(d, old) \in Seq(S) /\ Len(Calls(d, old)) = Size(d) /\ BlockAt(Calls(d, old), 0, d)
             /\ IsDefine(d)
  <2>1. IsDefine(d)
    BY DEF IsDefines
  <2>2. IsList(Calls(d, old)) /\ Len(Calls(d, old)) = Size(d) /\ BlockAt(Calls(d, old), 0, d)
    BY <2>1, CallsIs
  <2>3. Calls(d, old) \in Seq(ToSet(Calls(d, old))) /\ ToSet(Calls(d, old)) \subseteq S
    <3> HIDE DEF dels, r
    <3>1. QED
      BY <2>2 DEF IsList
  <2> HIDE DEF S
  <2>4. Calls(d, old) \in Seq(S)
    BY <2>3, SeqMonotonic
  <2>5. QED
    BY <2>1, <2>2, <2>4
<1> HIDE DEF S, dels, gone, r, R
<1>8. /\ seqs \in [1 .. n -> Seq(S)] /\ \A k \in 1 .. n : seqs[k] = Calls(ds[k], old)
  <2> HIDE DEF n, ds
  <2>1. DOMAIN ds = 1 .. n /\ \A k \in 1 .. n : ds[k] \in new
    BY <1>2
  <2>2. QED
    BY <1>7, <2>1
<1> HIDE DEF ds, n, seqs
<1>9. flat \in Seq(S) /\ \E at : Stand(flat, seqs, n, at)
  BY <1>2, <1>8, FlattenStands
<1>10. PICK at : Stand(flat, seqs, n, at)
  BY <1>9
<1> HIDE DEF flat
<1>11. /\ l \in Seq(S) /\ Len(l) = Len(flat) + r /\ Len(flat) \in Nat
       /\ \A i \in 1 .. Len(flat) + r : l[i] = IF i <= Len(flat) THEN flat[i] ELSE dels[i - Len(flat)]
  <2>1. Len(flat) \in Nat
    BY <1>9
  <2>2. QED
    BY <1>5, <1>9, <2>1, ConcatProperties
<1> HIDE DEF l
<1>12. IsList(l)
  BY <1>11, SeqIsList
<1>13. PICK no : no \in [new -> 1 .. n] /\ \A d \in new : ds[no[d]] = d
  <2> DEFINE f == [d \in new |-> CHOOSE i \in 1 .. n : ds[i] = d]
  <2>1. \A d \in new : f[d] \in 1 .. n /\ ds[f[d]] = d
    BY <1>2
  <2>2. f \in [new -> 1 .. n]
    BY <2>1
  <2>3. QED
    BY <2>1, <2>2
<1>14. PICK start : start = [d \in new |-> at[no[d]]]
  OBVIOUS
<1>15. start \in [new -> Nat]
  BY <1>10, <1>13, <1>14 DEF Stand
<1>16. ASSUME NEW d \in new PROVE BlockAt(l, start[d], d)
  <2> DEFINE k == no[d]
             c == seqs[k]
  <2>1. k \in 1 .. n /\ c = Calls(d, old) /\ start[d] = at[k]
    BY <1>8, <1>13, <1>14
  <2>2. at[k] \in Nat /\ at[k] + Len(c) <= Len(flat) /\ \A j \in 1 .. Len(c) : flat[at[k] + j] = c[j]
    BY <1>10, <2>1 DEF Stand
  <2>3. BlockAt(c, 0, d) /\ Len(c) = Size(d) /\ IsDefine(d) /\ Len(c) \in Nat
    BY <1>7, <2>1
  <2> HIDE DEF k, c
  <2>4. at[k] + Len(c) <= Len(l) /\ Len(l) \in Nat
    BY <1>4, <1>11, <2>2, <2>3
  <2>5. ASSUME NEW j \in 1 .. Len(c) PROVE l[at[k] + j] = c[j]
    <3>1. at[k] + j \in 1 .. Len(flat) + r /\ at[k] + j <= Len(flat)
      BY <1>4, <1>11, <2>2, <2>3
    <3>2. QED
      BY <1>11, <2>2, <3>1
  <2>6. BlockAt(l, at[k], d)
    BY <2>2, <2>3, <2>4, <2>5, BlockMoves
  <2>7. QED
    BY <2>1, <2>6
<1>17. ASSUME NEW i \in 1 .. Len(l)
       PROVE  \/ \E d \in new : start[d] < i /\ i <= start[d] + Size(d)
              \/ l[i].call = "delete" /\ l[i].name \in R
  <2>1. CASE i <= Len(flat)
    <3>1. i \in 1 .. Len(flat)
      BY <1>11, <2>1
    <3>2. PICK k \in 1 .. n : \E j \in 1 .. Len(seqs[k]) : i = at[k] + j
      BY <1>10, <3>1 DEF Stand
    <3>3. PICK j \in 1 .. Len(seqs[k]) : i = at[k] + j
      BY <3>2
    <3> DEFINE d == ds[k]
    <3>4. d \in new /\ seqs[k] = Calls(d, old) /\ Len(seqs[k]) = Size(d)
      BY <1>2, <1>7, <1>8
    <3>5. no[d] \in 1 .. n /\ ds[no[d]] = ds[k]
      BY <1>13, <3>4
    <3>6. no[d] = k
      BY <1>2, <3>5
    <3>7. start[d] = at[k] /\ at[k] \in Nat
      BY <1>10, <1>14, <3>4, <3>6 DEF Stand
    <3> HIDE DEF d
    <3>8. start[d] < i /\ i <= start[d] + Size(d)
      BY <3>3, <3>4, <3>7
    <3>9. QED
      BY <3>4, <3>8
  <2>2. CASE ~(i <= Len(flat))
    <3>1. i - Len(flat) \in 1 .. r /\ l[i] = dels[i - Len(flat)]
      BY <1>4, <1>11, <2>2
    <3>2. QED
      BY <1>4, <1>6, <3>1
  <2>3. QED
    BY <2>1, <2>2
<1>18. ASSUME NEW x \in R PROVE \E i \in 1 .. Len(l) : l[i].call = "delete" /\ l[i].name = x
  <2>1. PICK k \in 1 .. r : gone[k] = x
    BY <1>4
  <2>2. /\ Len(flat) + k \in 1 .. Len(flat) + r /\ ~(Len(flat) + k <= Len(flat))
        /\ (Len(flat) + k) - Len(flat) = k
    BY <1>4, <1>11
  <2>3. l[Len(flat) + k] = dels[k]
    BY <1>11, <2>2
  <2>4. QED
    BY <1>6, <1>11, <2>1, <2>2, <2>3
<1>19. QED
  <2>1. IsScript(l, old, new, start)
    BY <1>15, <1>16, <1>17, <1>18 DEF IsScript, R
  <2>2. QED
    BY <1>1, <1>12, <2>1

(***************************************************************************)
(* Loggers and what is done to them.                                       *)
(***************************************************************************)
AppenderFields == {"type", "file", "level", "formatter", "hasFormatter", "open"}
\* An appender of a logger with formatter f, and a logger.
IsAppender(a, f) ==
    DOMAIN a = AppenderFields /\ ~a.formatter.error /\ (~a.hasFormatter => a.formatter = f)
IsLogger(lg) ==
    /\ DOMAIN lg = {"level", "appenders", "formatter"}
    /\ IsList(lg.appenders) /\ ~lg.formatter.error
    /\ \A k \in DOMAIN lg.appenders : IsAppender(lg.appenders[k], lg.formatter)
\* An appender that no logger has yet.
IsFresh(a) ==
    /\ DOMAIN a = AppenderFields
    /\ (a.formatter = NoFormatter /\ ~a.hasFormatter) \/ (~a.formatter.error /\ a.hasFormatter)
\* An appender writes to the same file as another, or as its definition.
Alike(a, b) == a.type = b.type /\ a.file = b.file
\* One that has the same formatter of its own, and one made for a definition.
OwnAlike(a, b) ==
    (a.hasFormatter <=> b.hasFormatter) /\ (b.hasFormatter => a.formatter = b.formatter)
MadeFor(a, d) ==
    /\ Alike(a, d) /\ (a.hasFormatter <=> InUse(d.formatter) # <<>>)
    /\ a.hasFormatter => a.formatter.pattern = d.formatter

\* A formatter knows its pattern.
LEMMA PatternIs == \A p : LogFormatter(p).pattern = p
<1> SUFFICES ASSUME NEW p PROVE LogFormatter(p).pattern = p
  OBVIOUS
<1>1. \E error, items : LogFormatter(p) = Built(p, error, items)
  BY Zenon DEF LogFormatter
<1>2. PICK error, items : LogFormatter(p) = Built(p, error, items)
  BY <1>1
<1>3. Built(p, error, items).pattern = p
  BY DEF Built
<1>4. QED
  BY <1>2, <1>3

\* A logger just made.
LEMMA LoggerIs == /\ IsLogger(Logger) /\ Logger.level = 1 /\ Logger.appenders = <<>>
                  /\ \A lg : IsLogger(lg) => lg # NoLogger
<1>1. /\ DOMAIN Logger = {"level", "appenders", "formatter"} /\ Logger.level = 1
      /\ Logger.appenders = <<>> /\ Logger.formatter = DefaultFormatter
  BY DEF Logger
<1>2. IsList(<<>>) /\ DOMAIN <<>> = {}
  BY DEF IsList
<1>3. IsLogger(Logger)
  BY <1>1, <1>2, DefaultNoError DEF IsLogger
<1>4. \A lg : IsLogger(lg) => lg # NoLogger
  <2>1. DOMAIN NoLogger = {"made"}
    BY DEF NoLogger
  <2>2. \A lg : IsLogger(lg) => "level" \in DOMAIN lg
    BY DEF IsLogger
  <2>3. QED
    BY <2>1, <2>2
<1>5. QED
  BY <1>1, <1>3, <1>4

\* setLevel.
LEMMA SetLevelIs ==
    ASSUME NEW lg, IsLogger(lg), NEW x
    PROVE  LET h == [lg EXCEPT !.level = x] IN
           IsLogger(h) /\ h.level = x /\ h.appenders = lg.appenders
<1> DEFINE h == [lg EXCEPT !.level = x]
<1>1. /\ DOMAIN h = DOMAIN lg /\ h.level = x /\ h.appenders = lg.appenders
      /\ h.formatter = lg.formatter
  BY DEF IsLogger
<1> HIDE DEF h
<1>2. IsLogger(h)
  BY <1>1 DEF IsLogger
<1>3. QED
  BY <1>1, <1>2 DEF h

\* clearAppenders.
LEMMA ClearIs ==
    ASSUME NEW lg, IsLogger(lg)
    PROVE  LET h == [lg EXCEPT !.appenders = <<>>] IN
           IsLogger(h) /\ h.level = lg.level /\ h.appenders = <<>> /\ h.formatter = lg.formatter
<1> DEFINE h == [lg EXCEPT !.appenders = <<>>]
<1>1. /\ DOMAIN h = DOMAIN lg /\ h.level = lg.level /\ h.appenders = <<>>
      /\ h.formatter = lg.formatter
  BY DEF IsLogger
<1>2. IsList(<<>>) /\ DOMAIN <<>> = {}
  BY DEF IsList
<1> HIDE DEF h
<1>3. IsLogger(h)
  BY <1>1, <1>2 DEF IsLogger
<1>4. QED
  BY <1>1, <1>3 DEF h

\* What the listener does to a logger that is gone.
LEMMA SilenceIs ==
    ASSUME NEW lg, IsLogger(lg)
    PROVE  LET h == [lg EXCEPT !.level = Deleted, !.appenders = <<>>] IN
           IsLogger(h) /\ h.level = Deleted /\ h.appenders = <<>>
<1> DEFINE g == [lg EXCEPT !.level = Deleted]
           h == [lg EXCEPT !.level = Deleted, !.appenders = <<>>]
<1>1. IsLogger(g) /\ g.level = Deleted
  BY SetLevelIs, Zenon
<1>2. h = [g EXCEPT !.appenders = <<>>]
  BY Zenon
<1> HIDE DEF g, h
<1>3. IsLogger(h) /\ h.level = g.level /\ h.appenders = <<>>
  BY <1>1, <1>2, ClearIs
<1>4. QED
  BY <1>1, <1>3, Zenon DEF h

\* setFormatter changes no appender's kind.
LEMMA SetFormatterIs ==
    ASSUME NEW lg, IsLogger(lg), NEW f
    PROVE  LET h == setFormatter(lg, f) IN
           /\ IsLogger(h) /\ h.level = lg.level /\ Len(h.appenders) = Len(lg.appenders)
           /\ \A k \in 1 .. Len(lg.appenders) : Alike(h.appenders[k], lg.appenders[k])
           /\ ~f.error => h.formatter = f
<1>1. CASE f.error
  <2>1. setFormatter(lg, f) = lg
    BY <1>1 DEF setFormatter
  <2>2. QED
    BY <1>1, <2>1 DEF Alike
<1>2. CASE ~f.error
  <2> DEFINE as == lg.appenders
             n == Len(as)
             bs == [k \in DOMAIN as |-> IF as[k].hasFormatter THEN as[k] ELSE [as[k] EXCEPT !.formatter = f]]
             h == setFormatter(lg, f)
             g == [lg EXCEPT !.formatter = f]
  <2>1. h = [g EXCEPT !.appenders = bs]
    BY <1>2, Zenon DEF setFormatter
  <2>2. n \in Nat /\ DOMAIN as = 1 .. n
    BY ListIs DEF IsLogger
  <2>3. /\ DOMAIN g = {"level", "appenders", "formatter"}
        /\ g.level = lg.level /\ g.formatter = f
    BY DEF IsLogger
  <2>4. ASSUME NEW k \in 1 .. n PROVE IsAppender(bs[k], f) /\ Alike(bs[k], as[k])
    <3> DEFINE a == as[k]
               b == [a EXCEPT !.formatter = f]
    <3>1. IsAppender(a, lg.formatter)
      BY <2>2 DEF IsLogger
    <3>2. bs[k] = IF a.hasFormatter THEN a ELSE b
      BY <2>2
    <3> HIDE DEF a, bs
    <3>3. /\ DOMAIN b = AppenderFields /\ b.formatter = f /\ b.hasFormatter = a.hasFormatter
          /\ b.type = a.type /\ b.file = a.file
      BY <3>1 DEF IsAppender, AppenderFields
    <3> HIDE DEF b
    <3>4. QED
      BY <1>2, <3>1, <3>2, <3>3 DEF IsAppender, Alike, a
  <2>5. IsList(bs) /\ Len(bs) = n
    <3>1. bs = [k \in 1 .. n |-> bs[k]]
      BY <2>2
    <3> HIDE DEF bs, n
    <3>2. QED
      BY <2>2, <3>1, IsListOf
  <2>6. DOMAIN bs = 1 .. n
    BY <2>2
  <2> HIDE DEF g, bs, h, n
  <2>7. /\ DOMAIN h = {"level", "appenders", "formatter"} /\ h.level = lg.level
        /\ h.formatter = f /\ h.appenders = bs
    BY <2>1, <2>3
  <2>8. IsLogger(h)
    BY <1>2, <2>4, <2>5, <2>6, <2>7 DEF IsLogger
  <2>9. QED
    BY <2>4, <2>5, <2>7, <2>8 DEF h, n
<1>3. QED
  BY <1>1, <1>2

\* Append to a list.
LEMMA AppendIs ==
    ASSUME NEW s, IsList(s), NEW e
    PROVE  /\ IsList(Append(s, e)) /\ Len(Append(s, e)) = Len(s) + 1
           /\ Append(s, e)[Len(s) + 1] = e /\ \A k \in 1 .. Len(s) : Append(s, e)[k] = s[k]
<1> DEFINE T == ToSet(s) \union {e}
<1>1. s \in Seq(ToSet(s)) /\ ToSet(s) \subseteq T /\ e \in T
  BY DEF IsList
<1> HIDE DEF T
<1>2. s \in Seq(T)
  BY <1>1, SeqMonotonic
<1>3. /\ Append(s, e) \in Seq(T) /\ Len(Append(s, e)) = Len(s) + 1
      /\ Append(s, e)[Len(s) + 1] = e /\ \A k \in 1 .. Len(s) : Append(s, e)[k] = s[k]
  BY <1>1, <1>2, AppendProperties
<1>4. QED
  BY <1>3, SeqIsList

\* A list without its first entry.
LEMMA WithoutFirst ==
    ASSUME NEW s, IsList(s), s # <<>>
    PROVE  /\ Len(s) \in Nat \ {0} /\ IsList(RemoveAt(s, 1))
           /\ \A k \in DOMAIN RemoveAt(s, 1) : \E j \in DOMAIN s : RemoveAt(s, 1)[k] = s[j]
<1> DEFINE T == ToSet(s)
           r == RemoveAt(s, 1)
<1>1. s \in Seq(T)
  BY DEF IsList
<1> HIDE DEF T
<1>2. Len(s) \in Nat \ {0}
  BY <1>1, EmptySeq
<1>3. r = SubSeq(s, 1, 0) \o SubSeq(s, 2, Len(s))
  BY DEF RemoveAt
<1>4. (\A i \in 1 .. 0 : s[i] \in T) /\ (\A i \in 2 .. Len(s) : s[i] \in T)
  BY <1>1, <1>2
<1>5. SubSeq(s, 1, 0) \in Seq(T) /\ SubSeq(s, 2, Len(s)) \in Seq(T)
  <2>1. SubSeq(s, 1, 0) \in Seq(T)
    BY <1>4, SubSeqProperties
  <2>2. SubSeq(s, 2, Len(s)) \in Seq(T)
    BY <1>2, <1>4, SubSeqProperties
  <2>3. QED
    BY <2>1, <2>2
<1> HIDE DEF r
<1>6. r \in Seq(T)
  BY <1>3, <1>5, ConcatProperties
<1>7. IsList(r)
  BY <1>6, SeqIsList
<1>8. \A k \in DOMAIN r : r[k] \in T
  BY <1>6
<1>9. \A k \in DOMAIN r : \E j \in DOMAIN s : r[k] = s[j]
  BY <1>8 DEF T, ToSet
<1>10. QED
  BY <1>2, <1>7, <1>9 DEF r

\* addAppender puts a new one behind the others.
LEMMA AddAppenderIs ==
    ASSUME NEW lg, IsLogger(lg), NEW a, IsFresh(a)
    PROVE  LET h == addAppender(lg, a) IN
           /\ IsLogger(h) /\ h.level = lg.level /\ Len(h.appenders) = Len(lg.appenders) + 1
           /\ \A k \in 1 .. Len(lg.appenders) : h.appenders[k] = lg.appenders[k]
           /\ Alike(h.appenders[Len(lg.appenders) + 1], a)
           /\ OwnAlike(h.appenders[Len(lg.appenders) + 1], a) /\ h.formatter = lg.formatter
<1> DEFINE as == lg.appenders
           n == Len(as)
           b == IF a.formatter = NoFormatter THEN [a EXCEPT !.formatter = lg.formatter] ELSE a
           bs == Append(as, b)
           h == addAppender(lg, a)
<1>1. h = [lg EXCEPT !.appenders = bs]
  BY Zenon DEF addAppender
<1>2. n \in Nat /\ DOMAIN as = 1 .. n /\ as \in Seq(ToSet(as))
  BY ListIs DEF IsLogger, IsList
<1>3. IsAppender(b, lg.formatter) /\ Alike(b, a) /\ OwnAlike(b, a)
  <2> DEFINE c == [a EXCEPT !.formatter = lg.formatter]
  <2>1. /\ DOMAIN c = AppenderFields /\ c.formatter = lg.formatter
        /\ c.type = a.type /\ c.file = a.file /\ c.hasFormatter = a.hasFormatter
    BY DEF IsFresh, AppenderFields
  <2>2. b = IF a.formatter = NoFormatter THEN c ELSE a
    OBVIOUS
  <2> HIDE DEF b, c
  <2>3. CASE a.formatter = NoFormatter
    <3>1. ~a.hasFormatter
      BY <2>3 DEF IsFresh, NoFormatter
    <3>2. QED
      BY <2>1, <2>2, <2>3, <3>1 DEF IsAppender, IsLogger, Alike, OwnAlike
  <2>4. CASE a.formatter # NoFormatter
    BY <2>2, <2>4 DEF IsAppender, IsFresh, Alike, OwnAlike
  <2>5. QED
    BY <2>3, <2>4
<1> HIDE DEF b
<1>4. /\ IsList(bs) /\ Len(bs) = n + 1 /\ bs[n + 1] = b
      /\ \A k \in 1 .. n : bs[k] = as[k]
  <2>1. IsList(as)
    BY DEF IsLogger
  <2> HIDE DEF as
  <2>2. QED
    BY <2>1, AppendIs, ZenonT(60)
<1>5. IsList(bs)
  BY <1>4
<1>6. DOMAIN bs = 1 .. n + 1
  BY <1>4, <1>5, ListIs
<1> HIDE DEF bs, h, n
<1>7. /\ DOMAIN h = {"level", "appenders", "formatter"} /\ h.level = lg.level
      /\ h.formatter = lg.formatter /\ h.appenders = bs
  BY <1>1 DEF IsLogger
<1>8. ASSUME NEW k \in 1 .. n + 1 PROVE IsAppender(bs[k], lg.formatter)
  <2>1. k = n + 1 \/ k \in 1 .. n
    BY <1>2
  <2>2. k \in 1 .. n => IsAppender(as[k], lg.formatter)
    BY <1>2 DEF IsLogger
  <2>3. QED
    BY <1>3, <1>4, <2>1, <2>2
<1>9. IsLogger(h)
  BY <1>5, <1>6, <1>7, <1>8 DEF IsLogger
<1>10. QED
  BY <1>3, <1>4, <1>7, <1>9 DEF h, n

\* NewAppender, and Configured with its level and formatter.
LEMMA NewAppenderIs ==
    ASSUME NEW type, NEW file
    PROVE  LET a == NewAppender(type, file) IN
           /\ IsFresh(a) /\ a.type = type /\ a.file = file /\ a.formatter = NoFormatter /\ ~a.hasFormatter
  BY DEF NewAppender, reopen, IsFresh, AppenderFields

\* The appender made for a definition.
LEMMA ConfiguredIs ==
    ASSUME NEW a
    PROVE  IsFresh(Configured(a)) /\ MadeFor(Configured(a), a)
<1> DEFINE new == NewAppender(a.type, a.file)
           raw == [new EXCEPT !.level = a.level]
           f == LogFormatter(a.formatter)
           g == appenderSetFormatter(raw, f)
<1>1. Configured(a) = IF a.formatter = <<>> \/ f.error THEN raw ELSE g
  BY DEF Configured
<1>2. /\ IsFresh(new) /\ new.type = a.type /\ new.file = a.file /\ new.formatter = NoFormatter
      /\ ~new.hasFormatter
  BY NewAppenderIs
<1>7. /\ f.pattern = a.formatter
      /\ InUse(a.formatter) = IF f.error THEN <<>> ELSE a.formatter
  BY PatternIs DEF InUse
<1> HIDE DEF new, f
<1>3. /\ DOMAIN raw = AppenderFields /\ raw.type = a.type /\ raw.file = a.file
      /\ raw.formatter = NoFormatter /\ ~raw.hasFormatter
  BY <1>2 DEF IsFresh, AppenderFields
<1> HIDE DEF raw
<1>4. /\ DOMAIN g = AppenderFields /\ g.type = a.type /\ g.file = a.file /\ g.formatter = f
      /\ g.hasFormatter = (f # NoFormatter)
  <2> DEFINE x == [raw EXCEPT !.formatter = f]
  <2>1. g = [x EXCEPT !.hasFormatter = f # NoFormatter]
    BY Zenon DEF appenderSetFormatter
  <2>2. DOMAIN x = AppenderFields /\ x.type = a.type /\ x.file = a.file /\ x.formatter = f
    BY <1>3 DEF AppenderFields
  <2> HIDE DEF x, g
  <2>3. QED
    BY <2>1, <2>2 DEF AppenderFields
<1> HIDE DEF g
<1>5. NoFormatter.error
  BY DEF NoFormatter
<1>6. CASE a.formatter = <<>> \/ f.error
  BY <1>1, <1>3, <1>6, <1>7 DEF IsFresh, Alike, MadeFor
<1>8. CASE ~(a.formatter = <<>> \/ f.error)
  BY <1>1, <1>4, <1>5, <1>7, <1>8 DEF IsFresh, Alike, MadeFor
<1>9. QED
  BY <1>6, <1>8

\* delAppender of the first.
LEMMA DelFirstIs ==
    ASSUME NEW lg, IsLogger(lg), lg.appenders # <<>>
    PROVE  LET h == delAppender(lg, lg.appenders[1]) IN
           /\ IsLogger(h)
           /\ \A k \in DOMAIN h.appenders : \E j \in DOMAIN lg.appenders : h.appenders[k] = lg.appenders[j]
<1> DEFINE as == lg.appenders
           n == Len(as)
           at == {k \in DOMAIN as : as[k] = as[1]}
           bs == RemoveAt(as, Min(at))
           h == delAppender(lg, as[1])
<1>1. n \in Nat /\ DOMAIN as = 1 .. n /\ as \in Seq(ToSet(as))
  BY ListIs DEF IsLogger, IsList
<1>2. /\ n \in Nat \ {0} /\ IsList(RemoveAt(as, 1))
      /\ \A k \in DOMAIN RemoveAt(as, 1) : \E j \in DOMAIN as : RemoveAt(as, 1)[k] = as[j]
  <2>1. IsList(as) /\ as # <<>>
    BY DEF IsLogger
  <2> HIDE DEF as
  <2>2. QED
    BY <2>1, WithoutFirst
<1>3. 1 \in at /\ at \in SUBSET Nat /\ \A x \in at : 1 <= x
  BY <1>1, <1>2
<1>4. Min(at) = 1
  <2> HIDE DEF at
  <2>1. QED
    BY <1>3, MinIs
<1>5. h = [lg EXCEPT !.appenders = bs]
  <2>1. at # {}
    BY <1>3
  <2>2. h = IF at = {} THEN lg ELSE [lg EXCEPT !.appenders = RemoveAt(@, Min(at))]
    BY Zenon DEF delAppender
  <2> HIDE DEF at, h
  <2>3. QED
    BY <2>1, <2>2, Zenon
<1>6. bs = RemoveAt(as, 1)
  BY <1>4
<1> HIDE DEF bs, h
<1>8. IsList(bs)
  BY <1>2, <1>6
<1>9. \A k \in DOMAIN bs : \E j \in DOMAIN as : bs[k] = as[j]
  BY <1>2, <1>6
<1>10. /\ DOMAIN h = {"level", "appenders", "formatter"}
       /\ h.formatter = lg.formatter /\ h.appenders = bs
  BY <1>5 DEF IsLogger
<1>11. IsLogger(h)
  BY <1>8, <1>9, <1>10 DEF IsLogger
<1>12. QED
  BY <1>9, <1>10, <1>11 DEF h

\* An appender's own setFormatter, for the first.
LEMMA FirstSetFormatterIs ==
    ASSUME NEW lg, IsLogger(lg), lg.appenders # <<>>, NEW f, ~f.error
    PROVE  LET h == [lg EXCEPT !.appenders[1] = appenderSetFormatter(@, f)] IN
           /\ IsLogger(h) /\ DOMAIN h.appenders = DOMAIN lg.appenders
           /\ \A k \in DOMAIN lg.appenders : Alike(h.appenders[k], lg.appenders[k])
<1> DEFINE as == lg.appenders
           n == Len(as)
           a == as[1]
           b == appenderSetFormatter(a, f)
           bs == [as EXCEPT ![1] = b]
           h == [lg EXCEPT !.appenders[1] = appenderSetFormatter(@, f)]
<1>1. n \in Nat /\ DOMAIN as = 1 .. n
  BY ListIs DEF IsLogger
<1>2. n # 0
  <2>1. as \in Seq(ToSet(as)) /\ as # <<>>
    BY DEF IsLogger, IsList
  <2> HIDE DEF as
  <2>2. QED
    BY <1>1, <2>1, EmptySeq
<1>3. h = [lg EXCEPT !.appenders = bs]
  BY Zenon
<1>4. IsAppender(a, lg.formatter)
  <2>1. 1 \in DOMAIN lg.appenders
    BY <1>1, <1>2
  <2>2. QED
    BY <2>1 DEF IsLogger
<1> HIDE DEF h, a
<1>5. IsAppender(b, lg.formatter) /\ Alike(b, a)
  <2> DEFINE x == [a EXCEPT !.formatter = f]
  <2>1. b = [x EXCEPT !.hasFormatter = f # NoFormatter]
    BY Zenon DEF appenderSetFormatter
  <2>2. DOMAIN x = AppenderFields /\ x.type = a.type /\ x.file = a.file /\ x.formatter = f
    BY <1>4 DEF AppenderFields, IsAppender
  <2> HIDE DEF x, b
  <2>3. /\ DOMAIN b = AppenderFields /\ b.type = a.type /\ b.file = a.file /\ b.formatter = f
        /\ b.hasFormatter = (f # NoFormatter)
    BY <2>1, <2>2 DEF AppenderFields
  <2>4. f # NoFormatter
    BY DEF NoFormatter
  <2>5. QED
    BY <2>3, <2>4 DEF IsAppender, Alike
<1> HIDE DEF b
<1>6. DOMAIN bs = 1 .. n /\ \A k \in 1 .. n : bs[k] = IF k = 1 THEN b ELSE as[k]
  BY <1>1
<1>7. IsList(bs)
  <2>1. bs = [k \in 1 .. n |-> bs[k]]
    BY <1>1
  <2> HIDE DEF bs, n
  <2>2. QED
    BY <1>1, <2>1, IsListOf
<1> HIDE DEF bs
<1>8. /\ DOMAIN h = {"level", "appenders", "formatter"}
      /\ h.formatter = lg.formatter /\ h.appenders = bs
  BY <1>3 DEF IsLogger
<1>9. \A k \in 1 .. n : IsAppender(bs[k], lg.formatter) /\ Alike(bs[k], as[k])
  BY <1>1, <1>5, <1>6 DEF IsLogger, Alike, a
<1>10. IsLogger(h)
  BY <1>6, <1>7, <1>8, <1>9 DEF IsLogger
<1>11. QED
  BY <1>1, <1>6, <1>8, <1>9, <1>10 DEF h

(***************************************************************************)
(* The variable of "logs", who loads it, and the calls left to its listener.*)
(***************************************************************************)
NodesIn(t) == UNION {ToSet(doc) : doc \in Docs[t]}
\* A thread whose documents have log definitions.
LoadsLogs(t) == \E doc \in Docs[t] : \E k \in DOMAIN doc : doc[k].path = Declared[LogsVar].key

\* "logs" is the one variable of its type and of its listener.
VarShape ==
    /\ \A v \in Vars : v # LogsVar => var[v].type # "logs" /\ LogsListener \notin var[v].cbs
    /\ var[LogsVar] = NoVar \/ (var[LogsVar].type = "logs" /\ IsDefines(var[LogsVar].value))
    /\ \A k \in Keys : datas[k] \in Vars => Declared[datas[k]].key = k
\* What a thread loads comes from its documents, and the listener has calls left
\* only while it is called.
LoadShape(t) ==
    /\ load[t].nodes \in Seq(NodesIn(t))
    /\ load[t].var = LogsVar => LoadsLogs(t) /\ IsDefines(load[t].value)
    /\ load[t].at # "idle" => var[LogsVar].type = "logs" /\ LogsListener \in var[LogsVar].cbs
    /\ reload[t] # <<>> => /\ load[t].at = "notify" /\ load[t].var = LogsVar
                           /\ LogsListener \in load[t].left
LogsInv == VarShape /\ DOMAIN reload = Threads /\ \A t \in Threads : LoadShape(t)

\* What a step does to the variables once documents may be loaded.
VarStep ==
    /\ UNCHANGED datas
    /\ \A v \in Vars : var'[v] = var[v] \/
         /\ var'[v].type = var[v].type
         /\ LogsListener \in var'[v].cbs <=> LogsListener \in var[v].cbs
         /\ v = LogsVar => var[v].type = "logs" /\ IsDefines(var'[v].value)

\* "logs" is a variable, and one not looked up yet is none of its type.
LEMMA LogsVarIs == LogsVar \in Vars /\ LogsVar # None /\ NoVar.type # "logs" /\ NoVar.cbs = {}
  BY ConfigAssumption DEF LogsVar, NoVar

\* It keeps the variables' shape, and that of a thread that does not move.
LEMMA VarStepKeeps ==
    ASSUME LogsInv, VarStep
    PROVE  /\ VarShape'
           /\ var[LogsVar].type = "logs" /\ LogsListener \in var[LogsVar].cbs =>
                var'[LogsVar].type = "logs" /\ LogsListener \in var'[LogsVar].cbs
           /\ \A t \in Threads : load'[t] = load[t] /\ reload'[t] = reload[t] => LoadShape(t)'
<1>1. VarShape'
  BY LogsVarIs DEF VarShape, VarStep, LogsInv
<1>2. var[LogsVar].type = "logs" /\ LogsListener \in var[LogsVar].cbs =>
        var'[LogsVar].type = "logs" /\ LogsListener \in var'[LogsVar].cbs
  BY LogsVarIs DEF VarStep
<1>3. QED
  BY <1>1, <1>2 DEF LogsInv, LoadShape

\* A step of one thread.
LEMMA OneStep ==
    ASSUME LogsInv, VarStep, NEW t \in Threads, DOMAIN reload' = Threads,
           \A u \in Threads : u # t => load'[u] = load[u] /\ reload'[u] = reload[u],
           LoadShape(t)'
    PROVE  LogsInv'
  BY VarStepKeeps DEF LogsInv

\* The variables stay as they are.
LEMMA VarsStay == UNCHANGED <<datas, var>> => VarStep
  BY DEF VarStep

\* Static initialisation.
LEMMA StaticLogs ==
    ASSUME ToldInv, LogsInv, Static
    PROVE  LogsInv'
<1>1. UNCHANGED <<load, loads, reload>> /\ Starting
  BY DEF Static, Lookup, addListener, logVars
<1>2. \A t \in Threads : load[t].at = "idle"
  BY <1>1 DEF Starting, ToldInv, LoadCounted
<1>3. DOMAIN reload' = Threads /\ \A t \in Threads : LoadShape(t)'
  BY <1>1, <1>2 DEF LogsInv, LoadShape
<1>4. DOMAIN var = Vars /\ datas \in [Keys -> Vars \union {None}] /\ \A v \in Vars : IsVar(var[v])
  BY DEF ToldInv, ConfigTyped
<1>5. ASSUME NEW v \in Vars, Lookup(v, Declared[v].key, Declared[v].type, Declared[v].default)
      PROVE  VarShape'
  <2>1. PICK r : /\ r = [NoVar EXCEPT !.type = Declared[v].type, !.value = Declared[v].default]
                 /\ var' = [var EXCEPT ![v] = r]
                 /\ datas' = [datas EXCEPT ![Declared[v].key] = v]
    BY <1>5 DEF Lookup
  <2>2. r.type = Declared[v].type /\ r.value = Declared[v].default /\ r.cbs = {}
    BY <2>1 DEF NoVar
  <2>3. \A w \in Vars : var'[w] = IF w = v THEN r ELSE var[w]
    BY <1>4, <2>1
  <2>4. \A k \in Keys : datas'[k] = IF k = Declared[v].key THEN v ELSE datas[k]
    BY <1>4, <2>1
  <2>5. IsDefines({})
    BY FS_EmptySet DEF IsDefines
  <2>6. \A w \in Vars : w # LogsVar => var'[w].type # "logs" /\ LogsListener \notin var'[w].cbs
    BY <2>2, <2>3, LogsAssumption DEF LogsInv, VarShape
  <2>7. var'[LogsVar] = NoVar \/ (var'[LogsVar].type = "logs" /\ IsDefines(var'[LogsVar].value))
    BY <2>2, <2>3, <2>5, LogsVarIs, LogsAssumption DEF LogsInv, VarShape
  <2>8. \A k \in Keys : datas'[k] \in Vars => Declared[datas'[k]].key = k
    BY <2>4 DEF LogsInv, VarShape
  <2>9. QED
    BY <2>6, <2>7, <2>8 DEF VarShape
<1>6. ASSUME Starting, addListener(LogsVar, LogsListener) PROVE VarShape'
  <2> DEFINE r == [var[LogsVar] EXCEPT !.cbs = @ \union {LogsListener}]
  <2>1. /\ var[LogsVar] # NoVar /\ UNCHANGED datas
        /\ var' = [var EXCEPT ![LogsVar].cbs = @ \union {LogsListener}]
    BY <1>6 DEF addListener
  <2>2. r.type = var[LogsVar].type /\ r.value = var[LogsVar].value
    BY <1>4, <2>1, LogsVarIs DEF IsVar
  <2>3. \A w \in Vars : var'[w] = IF w = LogsVar THEN r ELSE var[w]
    BY <1>4, <2>1, LogsVarIs
  <2> HIDE DEF r
  <2>4. \A w \in Vars : w # LogsVar => var'[w].type # "logs" /\ LogsListener \notin var'[w].cbs
    BY <2>3 DEF LogsInv, VarShape
  <2>5. var'[LogsVar] = NoVar \/ (var'[LogsVar].type = "logs" /\ IsDefines(var'[LogsVar].value))
    BY <2>1, <2>2, <2>3, LogsVarIs DEF LogsInv, VarShape
  <2>6. QED
    BY <2>1, <2>4, <2>5 DEF LogsInv, VarShape
<1>7. VarShape'
  BY <1>5, <1>6 DEF Static
<1>8. QED
  BY <1>3, <1>7 DEF LogsInv

\* What a node under the key of "logs" reads as.
LEMMA NodeReads ==
    ASSUME NEW t \in Threads, NEW n \in NodesIn(t), n.path = Declared[LogsVar].key,
           FromStr("logs", n.node).ok
    PROVE  LoadsLogs(t) /\ IsDefines(FromStr("logs", n.node).value)
<1>1. PICK doc \in Docs[t] : n \in ToSet(doc)
  BY DEF NodesIn
<1>2. PICK k \in DOMAIN doc : n = doc[k]
  BY <1>1 DEF ToSet
<1>3. LoadsLogs(t)
  BY <1>2 DEF LoadsLogs
<1> DEFINE nodes == IF n.node.kind = "Sequence" THEN n.node.seq ELSE <<>>
<1>4. FromStr("logs", n.node)
        = IF LogDefinesReadable(nodes) /\ (n.node.kind = "Map" => n.node.pairs = <<>>)
          THEN Cast(LogDefines(nodes)) ELSE Throws
  BY DEF FromStr, SequenceTypes, SetTypes, MapTypes
<1>6. IsLoggers(nodes)
  <2>1. CASE n.node.kind = "Sequence"
    BY <1>2, <2>1, DocsAssumption DEF IsLoggers
  <2>2. CASE n.node.kind # "Sequence"
    <3>1. nodes = <<>> /\ IsList(<<>>) /\ DOMAIN <<>> = {}
      BY <2>2 DEF IsList
    <3>2. QED
      BY <3>1 DEF IsLoggers
  <2>3. QED
    BY <2>1, <2>2
<1> HIDE DEF nodes
<1>5. LogDefinesReadable(nodes) /\ FromStr("logs", n.node).value = LogDefines(nodes)
  <2>1. ~Throws.ok /\ Cast(LogDefines(nodes)).value = LogDefines(nodes)
    BY DEF Throws, Cast
  <2>2. QED
    BY <1>4, <2>1
<1>7. QED
  BY <1>3, <1>5, <1>6, LogDefinesIs

\* LoadFromYaml, fromString and LoadEnds.
LEMMA LoadLogs ==
    ASSUME ToldInv, LogsInv, NEW t \in Threads,
           (Main /\ \E doc \in Docs[t] : LoadFromYaml(t, doc)) \/ fromString(t) \/ LoadEnds(t)
    PROVE  LogsInv'
<1>1. UNCHANGED <<datas, var, reload>>
  BY DEF LoadFromYaml, fromString, LoadEnds, logVars
<1>2. VarStep /\ DOMAIN reload' = Threads /\ reload'[t] = reload[t]
  BY <1>1, VarsStay DEF LogsInv
<1>3. /\ DOMAIN load = Threads /\ IsLoad(load[t]) /\ LoadShape(t)
      /\ datas \in [Keys -> Vars \union {None}]
  BY DEF ToldInv, ConfigTyped, LogsInv
<1>4. ASSUME Main, NEW doc \in Docs[t], LoadFromYaml(t, doc) PROVE LogsInv'
  <2>1. load[t] = Idle /\ load' = [load EXCEPT ![t].nodes = ListAllMember(doc), ![t].at = "load"]
    BY <1>4 DEF LoadFromYaml
  <2>2. Idle.var = None /\ Idle.at = "idle"
    BY DEF Idle
  <2>3. /\ load'[t].nodes = ListAllMember(doc) /\ load'[t].at = "load" /\ load'[t].var = None
        /\ \A u \in Threads : u # t => load'[u] = load[u]
    BY <1>3, <2>1, <2>2 DEF IsLoad
  <2>4. ListAllMember(doc) \in Seq(NodesIn(t))
    <3>1. ListAllMember(doc) \in Seq(ToSet(doc))
      BY DocsAssumption, ListAllMemberIs
    <3>2. ToSet(doc) \subseteq NodesIn(t)
      BY DEF NodesIn
    <3>3. QED
      BY <3>1, <3>2, SeqMonotonic
  <2>5. reload[t] = <<>>
    BY <1>3, <2>1, <2>2 DEF LoadShape
  <2>6. var[LogsVar].type = "logs" /\ LogsListener \in var[LogsVar].cbs
    BY <1>4, LogsVarIs DEF Main, LogsVar, LogsInv, VarShape
  <2>7. LoadShape(t)'
    BY <1>1, <1>2, <2>3, <2>4, <2>5, <2>6, LogsVarIs DEF LoadShape
  <2>8. QED
    BY <1>1, <1>2, <2>3, <2>7, OneStep
<1>5. CASE fromString(t)
  <2> DEFINE n == Head(load[t].nodes)
             v == IF n.path = <<>> THEN None ELSE LookupBase(n.path)
             cast == FromStr(var[v].type, n.node)
             passed == [load[t] EXCEPT !.nodes = Tail(@)]
             set == [load[t] EXCEPT !.nodes = Tail(@), !.var = v, !.value = cast.value,
                                    !.at = "compare"]
  <2>1. /\ load[t].at = "load" /\ load[t].nodes # <<>>
        /\ load' = [load EXCEPT ![t] = IF v = None \/ ~cast.ok THEN passed ELSE set]
    BY <1>5 DEF fromString
  <2>2. n \in NodesIn(t) /\ Tail(load[t].nodes) \in Seq(NodesIn(t))
    BY <1>3, <2>1, HeadTailProperties DEF LoadShape
  <2>3. /\ passed.at = "load" /\ passed.nodes = Tail(load[t].nodes) /\ passed.var = load[t].var
        /\ passed.value = load[t].value
        /\ set.at = "compare" /\ set.nodes = Tail(load[t].nodes) /\ set.var = v
        /\ set.value = cast.value
    <3> HIDE DEF n, v, cast
    <3>1. QED
      BY <1>3, <2>1 DEF IsLoad
  <2>4. v = LogsVar => n.path = Declared[LogsVar].key
    BY <1>3, LogsVarIs DEF LookupBase, LogsInv, VarShape
  <2>5. reload[t] = <<>> /\ var[LogsVar].type = "logs" /\ LogsListener \in var[LogsVar].cbs
    BY <1>3, <2>1 DEF LoadShape
  <2>6. v = LogsVar /\ cast.ok => LoadsLogs(t) /\ IsDefines(cast.value)
    BY <2>2, <2>4, <2>5, NodeReads
  <2> HIDE DEF n, v, cast, passed, set
  <2>7. \A u \in Threads : u # t => load'[u] = load[u]
    BY <1>3, <2>1
  <2>8. load'[t] = passed \/ (load'[t] = set /\ cast.ok)
    BY <1>3, <2>1
  <2>9. LoadShape(t)'
    BY <1>1, <1>3, <2>2, <2>3, <2>5, <2>6, <2>8 DEF LoadShape
  <2>10. QED
    BY <1>1, <1>2, <2>7, <2>9, OneStep
<1>6. CASE LoadEnds(t)
  <2>1. load[t].at = "load" /\ load' = [load EXCEPT ![t] = Idle]
    BY <1>6 DEF LoadEnds
  <2>2. load'[t] = Idle /\ \A u \in Threads : u # t => load'[u] = load[u]
    BY <1>3, <2>1
  <2>3. Idle.nodes = <<>> /\ Idle.var = None /\ Idle.at = "idle"
    BY DEF Idle
  <2>4. reload[t] = <<>> /\ <<>> \in Seq(NodesIn(t))
    BY <1>3, <2>1 DEF LoadShape
  <2>5. LoadShape(t)'
    BY <1>1, <2>2, <2>3, <2>4, LogsVarIs DEF LoadShape
  <2>6. QED
    BY <1>1, <1>2, <2>2, <2>5, OneStep
<1>7. QED
  BY <1>4, <1>5, <1>6

\* What a setValue that has started knows.
LEMMA SetKnows ==
    ASSUME ToldInv, LogsInv, NEW t \in Threads, load[t].at \in {"compare", "notify", "assign"}
    PROVE  /\ DOMAIN load = Threads /\ DOMAIN var = Vars /\ DOMAIN reload = Threads
           /\ load[t].var \in Vars /\ IsLoad(load[t]) /\ IsVar(var[load[t].var])
           /\ LoadShape(t) /\ var[LogsVar].type = "logs" /\ IsDefines(var[LogsVar].value)
           /\ LogsListener \in var[LogsVar].cbs
<1>1. LoadShape(t)
  BY DEF LogsInv
<1>2. var[LogsVar].type = "logs" /\ LogsListener \in var[LogsVar].cbs
  BY <1>1 DEF LoadShape
<1>3. QED
  BY <1>1, <1>2, LogsVarIs DEF ToldInv, ConfigTyped, Informs, LogsInv, VarShape

\* A step that changes only the lock of the variable that is set.
LEMMA LockStep ==
    ASSUME ToldInv, LogsInv, NEW t \in Threads, load[t].at \in {"compare", "notify", "assign"},
           NEW m, var' = [var EXCEPT ![load[t].var].mutex = m], UNCHANGED datas
    PROVE  VarStep /\ \A v \in Vars : /\ var'[v].value = var[v].value /\ var'[v].cbs = var[v].cbs
                                      /\ var'[v].type = var[v].type
<1> DEFINE v == load[t].var
           r == [var[v] EXCEPT !.mutex = m]
<1>1. v \in Vars /\ IsVar(var[v]) /\ DOMAIN var = Vars
  BY SetKnows
<1>2. \A w \in Vars : var'[w] = IF w = v THEN r ELSE var[w]
  BY <1>1
<1> HIDE DEF v
<1>3. r.type = var[v].type /\ r.value = var[v].value /\ r.cbs = var[v].cbs
  BY <1>1 DEF IsVar
<1> HIDE DEF r
<1>4. IsDefines(var[LogsVar].value) /\ var[LogsVar].type = "logs"
  BY SetKnows
<1>5. QED
  BY <1>1, <1>2, <1>3, <1>4 DEF VarStep

\* The two outcomes of Compare.
LEMMA CompareIs ==
    ASSUME ToldInv, LogsInv, NEW t \in Threads, Compare(t)
    PROVE  /\ load[t].at = "compare" /\ reload[t] = <<>> /\ load[t].var \in Vars
           /\ \A u \in Threads : u # t => load'[u] = load[u] /\ reload'[u] = reload[u]
           /\ load'[t].nodes = load[t].nodes /\ load'[t].var = load[t].var
           /\ load'[t].value = load[t].value /\ VarStep /\ DOMAIN reload' = Threads
           /\ \A v \in Vars : /\ var'[v].value = var[v].value /\ var'[v].cbs = var[v].cbs
                              /\ var'[v].type = var[v].type
           /\ \/ load'[t].at = "load" /\ reload'[t] = <<>>
              \/ /\ load'[t].at = "notify" /\ load'[t].left = var[load[t].var].cbs
                 /\ load[t].var # LogsVar => reload'[t] = <<>>
                 /\ load[t].var = LogsVar =>
                      reload'[t] = Listener(var[LogsVar].value, load[t].value)
<1> DEFINE v == load[t].var
           l == Listener(var[v].value, load[t].value)
<1>1. /\ load[t].at = "compare" /\ UNCHANGED datas
      /\ \/ load' = [load EXCEPT ![t].at = "load"] /\ UNCHANGED <<var, reload>>
         \/ /\ load' = [load EXCEPT ![t].at = "notify", ![t].left = var[v].cbs]
            /\ var' = [var EXCEPT ![v].mutex = rdlock(@, t)]
            /\ reload' = IF LogsListener \in var[v].cbs THEN [reload EXCEPT ![t] = l] ELSE reload
  BY DEF Compare
<1>2. /\ DOMAIN load = Threads /\ DOMAIN reload = Threads /\ v \in Vars /\ IsLoad(load[t])
      /\ LoadShape(t) /\ LogsListener \in var[LogsVar].cbs
  BY <1>1, SetKnows
<1>3. reload[t] = <<>>
  BY <1>1, <1>2 DEF LoadShape
<1> HIDE DEF v, l
<1>4. CASE load' = [load EXCEPT ![t].at = "load"] /\ UNCHANGED <<var, reload>>
  <2>1. /\ load'[t].nodes = load[t].nodes /\ load'[t].var = load[t].var
        /\ load'[t].value = load[t].value /\ load'[t].at = "load"
        /\ \A u \in Threads : u # t => load'[u] = load[u]
    BY <1>2, <1>4 DEF IsLoad
  <2>2. VarStep
    BY <1>1, <1>4, VarsStay
  <2>3. QED
    BY <1>1, <1>2, <1>3, <1>4, <2>1, <2>2 DEF v
<1>5. CASE /\ load' = [load EXCEPT ![t].at = "notify", ![t].left = var[v].cbs]
           /\ var' = [var EXCEPT ![v].mutex = rdlock(@, t)]
           /\ reload' = IF LogsListener \in var[v].cbs THEN [reload EXCEPT ![t] = l] ELSE reload
  <2>1. /\ load'[t].nodes = load[t].nodes /\ load'[t].var = load[t].var
        /\ load'[t].value = load[t].value /\ load'[t].at = "notify" /\ load'[t].left = var[v].cbs
        /\ \A u \in Threads : u # t => load'[u] = load[u]
    BY <1>2, <1>5 DEF IsLoad
  <2>2. var' = [var EXCEPT ![load[t].var].mutex = rdlock(var[v].mutex, t)]
    BY <1>5, Zenon DEF v
  <2>3. VarStep /\ \A w \in Vars : /\ var'[w].value = var[w].value /\ var'[w].cbs = var[w].cbs
                                   /\ var'[w].type = var[w].type
    <3> DEFINE m == rdlock(var[v].mutex, t)
    <3>1. var' = [var EXCEPT ![load[t].var].mutex = m]
      BY <2>2
    <3> HIDE DEF m
    <3>2. QED
      BY <1>1, <3>1, LockStep
  <2>4. DOMAIN reload' = Threads /\ \A u \in Threads : u # t => reload'[u] = reload[u]
    BY <1>2, <1>5
  <2>5. v # LogsVar => LogsListener \notin var[v].cbs
    BY <1>2 DEF LogsInv, VarShape
  <2>6. v # LogsVar => reload'[t] = <<>>
    BY <1>3, <1>5, <2>5
  <2>7. v = LogsVar => reload'[t] = l
    BY <1>2, <1>5
  <2>8. QED
    BY <1>1, <1>2, <1>3, <2>1, <2>3, <2>4, <2>6, <2>7 DEF v, l
<1>6. QED
  BY <1>1, <1>4, <1>5

\* The listeners' calls, and the end of the first critical section.
LEMMA NotifyIs ==
    ASSUME ToldInv, LogsInv, NEW t \in Threads,
           Release(t) \/ \E cb \in Listeners \union {LogsListener} : CallBack(t, cb)
    PROVE  /\ load[t].at = "notify" /\ UNCHANGED <<reload, m_loggers, event, written, touched, crashed>>
           /\ \A u \in Threads : u # t => load'[u] = load[u]
           /\ load'[t].nodes = load[t].nodes /\ load'[t].var = load[t].var
           /\ load'[t].value = load[t].value /\ VarStep
           /\ \A v \in Vars : /\ var'[v].value = var[v].value /\ var'[v].cbs = var[v].cbs
                              /\ var'[v].type = var[v].type
           /\ \/ load'[t].at = "assign" /\ reload[t] = <<>>
              \/ load'[t].at = "notify" /\ (reload[t] # <<>> => LogsListener \in load'[t].left)
<1>1. /\ load[t].at = "notify" /\ UNCHANGED <<reload, m_loggers, event, written, touched, crashed, datas>>
  BY DEF Release, CallBack, logVars
<1>2. /\ DOMAIN load = Threads /\ DOMAIN reload = Threads /\ IsLoad(load[t]) /\ LoadShape(t)
  BY <1>1, SetKnows
<1>3. CASE Release(t)
  <2> DEFINE m == unlock(var[load[t].var].mutex, t)
  <2>1. /\ load[t].left = {} /\ load' = [load EXCEPT ![t].at = "assign"]
        /\ var' = [var EXCEPT ![load[t].var].mutex = m]
    BY <1>3, Zenon DEF Release
  <2> HIDE DEF m
  <2>2. /\ load'[t].nodes = load[t].nodes /\ load'[t].var = load[t].var
        /\ load'[t].value = load[t].value /\ load'[t].at = "assign"
        /\ \A u \in Threads : u # t => load'[u] = load[u]
    BY <1>2, <2>1 DEF IsLoad
  <2>3. VarStep /\ \A w \in Vars : /\ var'[w].value = var[w].value /\ var'[w].cbs = var[w].cbs
                                   /\ var'[w].type = var[w].type
    BY <1>1, <2>1, LockStep
  <2>4. reload[t] = <<>>
    BY <1>2, <2>1 DEF LoadShape
  <2>5. QED
    BY <1>1, <2>2, <2>3, <2>4
<1>4. ASSUME NEW cb \in Listeners \union {LogsListener}, CallBack(t, cb)
      PROVE  /\ load'[t].nodes = load[t].nodes /\ load'[t].var = load[t].var
             /\ load'[t].value = load[t].value /\ load'[t].at = "notify"
             /\ (reload[t] # <<>> => LogsListener \in load'[t].left) /\ UNCHANGED var
             /\ \A u \in Threads : u # t => load'[u] = load[u]
  <2>1. /\ cb = LogsListener => reload[t] = <<>>
        /\ load' = [load EXCEPT ![t].left = @ \ {cb}] /\ UNCHANGED var
    BY <1>4 DEF CallBack
  <2>2. /\ load'[t].nodes = load[t].nodes /\ load'[t].var = load[t].var
        /\ load'[t].value = load[t].value /\ load'[t].at = load[t].at
        /\ load'[t].left = load[t].left \ {cb}
        /\ \A u \in Threads : u # t => load'[u] = load[u]
    BY <1>2, <2>1 DEF IsLoad
  <2>3. reload[t] # <<>> => LogsListener \in load'[t].left
    BY <1>2, <2>1, <2>2 DEF LoadShape
  <2>4. QED
    BY <1>1, <2>1, <2>2, <2>3
<1>5. ASSUME NEW cb \in Listeners \union {LogsListener}, CallBack(t, cb)
      PROVE  VarStep /\ \A v \in Vars : /\ var'[v].value = var[v].value /\ var'[v].cbs = var[v].cbs
                                        /\ var'[v].type = var[v].type
  BY <1>1, <1>4, <1>5, VarsStay
<1>6. QED
  BY <1>1, <1>3, <1>4, <1>5

\* The assignment.
LEMMA AssignIs ==
    ASSUME ToldInv, LogsInv, NEW t \in Threads, Assign(t)
    PROVE  /\ load[t].at = "assign" /\ UNCHANGED <<reload, m_loggers, event, written, touched, crashed>>
           /\ \A u \in Threads : u # t => load'[u] = load[u]
           /\ load'[t].nodes = load[t].nodes /\ load'[t].var = load[t].var /\ load[t].var \in Vars
           /\ load'[t].value = load[t].value /\ load'[t].at = "load" /\ reload[t] = <<>> /\ VarStep
           /\ \A v \in Vars : /\ var'[v].cbs = var[v].cbs /\ var'[v].type = var[v].type
                              /\ var'[v].value = IF v = load[t].var THEN load[t].value ELSE var[v].value
<1> DEFINE v == load[t].var
           r == [var[v] EXCEPT !.value = load[t].value]
<1>1. /\ load[t].at = "assign" /\ UNCHANGED <<reload, m_loggers, event, written, touched, crashed, datas>>
      /\ var' = [var EXCEPT ![v].value = load[t].value]
      /\ load' = [load EXCEPT ![t].at = "load"]
  BY DEF Assign, logVars
<1>2. /\ DOMAIN load = Threads /\ DOMAIN var = Vars /\ IsLoad(load[t]) /\ LoadShape(t)
      /\ v \in Vars /\ IsVar(var[v]) /\ var[LogsVar].type = "logs"
  BY <1>1, SetKnows
<1>3. reload[t] = <<>>
  BY <1>1, <1>2 DEF LoadShape
<1>4. /\ load'[t].nodes = load[t].nodes /\ load'[t].var = load[t].var
      /\ load'[t].value = load[t].value /\ load'[t].at = "load"
      /\ \A u \in Threads : u # t => load'[u] = load[u]
  BY <1>1, <1>2 DEF IsLoad
<1>5. \A w \in Vars : var'[w] = IF w = v THEN r ELSE var[w]
  BY <1>1, <1>2
<1>6. v = LogsVar => IsDefines(load[t].value)
  BY <1>2 DEF LoadShape
<1> HIDE DEF v
<1>7. r.type = var[v].type /\ r.value = load[t].value /\ r.cbs = var[v].cbs
  BY <1>2 DEF IsVar
<1> HIDE DEF r
<1>8. \A w \in Vars : /\ var'[w].cbs = var[w].cbs /\ var'[w].type = var[w].type
                      /\ var'[w].value = IF w = v THEN load[t].value ELSE var[w].value
  BY <1>5, <1>7
<1>9. VarStep
  BY <1>1, <1>2, <1>5, <1>6, <1>7 DEF VarStep
<1>10. QED
  BY <1>1, <1>2, <1>3, <1>4, <1>8, <1>9 DEF v

\* The steps of setValue.
LEMMA SetLogs ==
    ASSUME ToldInv, LogsInv, NEW t \in Threads,
           Compare(t) \/ Release(t) \/ Assign(t)
             \/ \E cb \in Listeners \union {LogsListener} : CallBack(t, cb)
    PROVE  LogsInv'
<1>1. load[t].at \in {"compare", "notify", "assign"}
  BY DEF Compare, Release, Assign, CallBack
<1>2. LoadShape(t) /\ var[LogsVar].type = "logs" /\ LogsListener \in var[LogsVar].cbs /\ DOMAIN reload = Threads
  BY <1>1, SetKnows
<1>3. CASE Compare(t)
  <2>1. var'[LogsVar].type = "logs" /\ LogsListener \in var'[LogsVar].cbs
    BY <1>2, <1>3, CompareIs, LogsVarIs
  <2>2. /\ load'[t].nodes = load[t].nodes /\ load'[t].var = load[t].var /\ load'[t].value = load[t].value
        /\ VarStep /\ DOMAIN reload' = Threads
        /\ \A u \in Threads : u # t => load'[u] = load[u] /\ reload'[u] = reload[u]
        /\ reload'[t] # <<>> => /\ load'[t].at = "notify" /\ load'[t].var = LogsVar
                                /\ LogsListener \in load'[t].left
    BY <1>2, <1>3, CompareIs
  <2>3. LoadShape(t)'
    BY <1>2, <2>1, <2>2 DEF LoadShape
  <2>4. QED
    BY <2>2, <2>3, OneStep
<1>4. CASE Assign(t)
  <2>1. var'[LogsVar].type = "logs" /\ LogsListener \in var'[LogsVar].cbs
    BY <1>2, <1>4, AssignIs, LogsVarIs
  <2>2. /\ load'[t].nodes = load[t].nodes /\ load'[t].var = load[t].var /\ load'[t].value = load[t].value
        /\ VarStep /\ UNCHANGED reload
        /\ \A u \in Threads : u # t => load'[u] = load[u]
        /\ reload[t] = <<>>
    BY <1>4, AssignIs
  <2>3. LoadShape(t)'
    BY <1>2, <2>1, <2>2 DEF LoadShape
  <2>4. QED
    BY <1>2, <2>2, <2>3, OneStep
<1>5. CASE Release(t) \/ \E cb \in Listeners \union {LogsListener} : CallBack(t, cb)
  <2>1. var'[LogsVar].type = "logs" /\ LogsListener \in var'[LogsVar].cbs
    BY <1>2, <1>5, NotifyIs, LogsVarIs
  <2>2. /\ load'[t].nodes = load[t].nodes /\ load'[t].var = load[t].var /\ load'[t].value = load[t].value
        /\ VarStep /\ UNCHANGED reload
        /\ \A u \in Threads : u # t => load'[u] = load[u]
        /\ reload[t] # <<>> => load'[t].at = "notify" /\ LogsListener \in load'[t].left
    BY <1>5, NotifyIs
  <2>3. LoadShape(t)'
    BY <1>2, <2>1, <2>2 DEF LoadShape
  <2>4. QED
    BY <1>2, <2>2, <2>3, OneStep
<1>6. QED
  BY <1>3, <1>4, <1>5

\* delListener takes one of the others away.
LEMMA DelLogs ==
    ASSUME ToldInv, LogsInv, NEW v \in Vars, NEW cb \in Listeners, cb \in var[v].cbs, delListener(v, {cb})
    PROVE  /\ VarStep /\ LogsInv' /\ UNCHANGED <<load, logVars>>
           /\ \A w \in Vars : var'[w].value = var[w].value /\ var'[w].type = var[w].type
<1> DEFINE r == [var[v] EXCEPT !.cbs = @ \ {cb}]
<1>1. var' = [var EXCEPT ![v].cbs = @ \ {cb}] /\ UNCHANGED <<datas, load, logVars>>
  BY DEF delListener
<1>2. DOMAIN var = Vars /\ IsVar(var[v])
  BY DEF ToldInv, ConfigTyped
<1>3. \A w \in Vars : var'[w] = IF w = v THEN r ELSE var[w]
  BY <1>1, <1>2
<1>4. r.type = var[v].type /\ r.value = var[v].value /\ r.cbs = var[v].cbs \ {cb}
  BY <1>2 DEF IsVar
<1> HIDE DEF r
<1>5. cb # LogsListener
  BY ConfigAssumption
<1>6. v = LogsVar => var[v].type = "logs" /\ IsDefines(var[v].value)
  BY LogsVarIs DEF LogsInv, VarShape
<1>7. VarStep
  BY <1>1, <1>3, <1>4, <1>5, <1>6 DEF VarStep
<1>8. UNCHANGED reload
  BY <1>1 DEF logVars
<1>9. LogsInv'
  BY <1>1, <1>7, <1>8, VarStepKeeps DEF LogsInv
<1>10. QED
  BY <1>1, <1>3, <1>4, <1>7, <1>9

\* addListener for one of the others.
LEMMA AddLogs ==
    ASSUME ToldInv, LogsInv, NEW cb \in Listeners, addListener(ListensTo[cb], cb)
    PROVE  /\ VarStep /\ LogsInv' /\ UNCHANGED <<load, logVars>>
           /\ \A w \in Vars : var'[w].value = var[w].value /\ var'[w].type = var[w].type
<1> DEFINE v == ListensTo[cb]
           r == [var[v] EXCEPT !.cbs = @ \union {cb}]
<1>1. /\ v \in Vars /\ var' = [var EXCEPT ![v].cbs = @ \union {cb}] /\ var[v] # NoVar
      /\ UNCHANGED <<datas, load, logVars>>
  BY ConfigAssumption DEF addListener
<1> HIDE DEF v
<1>2. DOMAIN var = Vars /\ IsVar(var[v])
  BY <1>1 DEF ToldInv, ConfigTyped
<1>3. \A w \in Vars : var'[w] = IF w = v THEN r ELSE var[w]
  BY <1>1, <1>2
<1>4. r.type = var[v].type /\ r.value = var[v].value /\ r.cbs = var[v].cbs \union {cb}
  BY <1>2 DEF IsVar
<1> HIDE DEF r
<1>5. cb # LogsListener
  BY ConfigAssumption
<1>6. v = LogsVar => var[v].type = "logs" /\ IsDefines(var[v].value)
  BY <1>1, LogsVarIs DEF LogsInv, VarShape
<1>7. VarStep
  BY <1>1, <1>3, <1>4, <1>5, <1>6 DEF VarStep
<1>8. UNCHANGED reload
  BY <1>1 DEF logVars
<1>9. LogsInv'
  BY <1>1, <1>7, <1>8, VarStepKeeps DEF LogsInv
<1>10. QED
  BY <1>1, <1>3, <1>4, <1>7, <1>9

\* The steps of Log take a call from the listener's list, or leave it alone.
LEMMA LogLogs ==
    ASSUME LogsInv, NEW t \in Threads, LogStep(t)
    PROVE  LogsInv'
<1>1. UNCHANGED <<datas, var, load>>
  BY DEF LogStep, configVars
<1>2. VarStep
  BY <1>1, VarsStay
<1>3. CASE UNCHANGED reload
  BY <1>1, <1>2, <1>3, VarStepKeeps DEF LogsInv
<1>4. CASE ListenerCall(t)
  <2>1. reload[t] # <<>> /\ reload' = [reload EXCEPT ![t] = Tail(@)]
    BY <1>4 DEF ListenerCall
  <2>2. DOMAIN reload' = Threads /\ \A u \in Threads : u # t => reload'[u] = reload[u]
    BY <2>1 DEF LogsInv
  <2>3. LoadShape(t)'
    BY <1>1, <2>1 DEF LogsInv, LoadShape
  <2>4. QED
    BY <1>1, <1>2, <2>2, <2>3, OneStep
<1>5. QED
  BY <1>3, <1>4 DEF LogStep, MakeEvent, TestLevel, Deliver, LogClient, ByHand

\* Every step keeps it.
LEMMA NextLogs == ToldInv /\ LogsInv /\ [Next]_vars => LogsInv'
<1> SUFFICES ASSUME ToldInv, LogsInv, [Next]_vars PROVE LogsInv'
  OBVIOUS
<1>1. CASE UNCHANGED <<datas, var, load, reload>>
  BY <1>1, VarsStay, VarStepKeeps DEF LogsInv
<1>2. CASE UNCHANGED vars
  BY <1>1, <1>2 DEF vars, configVars, logVars
<1>3. ASSUME NEW t \in Threads, ThreadStep(t) \/ \E n : SetNameCrashes(t, n) PROVE LogsInv'
  BY <1>1, <1>3 DEF ThreadStep, SetNameCrashes, configVars, logVars
<1>4. ASSUME NEW t \in Threads, ConfigStep(t) PROVE LogsInv'
  BY <1>4, LoadLogs, SetLogs DEF ConfigStep
<1>5. QED
  BY <1>2, <1>3, <1>4, StaticLogs, LogLogs, DelLogs, AddLogs DEF Next

\* It holds at first.
LEMMA InitLogs == Init => LogsInv
<1> SUFFICES ASSUME Init PROVE LogsInv
  OBVIOUS
<1>1. /\ datas = [k \in Keys |-> None] /\ var = [v \in Vars |-> NoVar]
      /\ load = [t \in Threads |-> Idle] /\ reload = [t \in Threads |-> <<>>]
  BY DEF Init, ConfigInit, LogInit
<1>2. Idle.nodes = <<>> /\ Idle.var = None /\ Idle.at = "idle"
  BY DEF Idle
<1>3. ASSUME NEW t \in Threads PROVE LoadShape(t)
  <2>1. load[t] = Idle /\ reload[t] = <<>> /\ <<>> \in Seq(NodesIn(t))
    BY <1>1
  <2>2. QED
    BY <1>2, <2>1, LogsVarIs DEF LoadShape
<1>4. VarShape
  <2>1. \A v \in Vars : var[v] = NoVar
    BY <1>1
  <2>2. \A k \in Keys : datas[k] = None
    BY <1>1
  <2>3. None \notin Vars
    BY ConfigAssumption
  <2>4. QED
    BY <2>1, <2>2, <2>3, LogsVarIs DEF VarShape
<1>5. QED
  BY <1>1, <1>3, <1>4 DEF LogsInv

(***************************************************************************)
(* The loggers, and what a step makes of one.                              *)
(***************************************************************************)
\* An event in some logger's log(), if any: of the logger it was made for, or of
\* the root logger.
IsEvent(e, ls) ==
    /\ DOMAIN e = {"logger", "level", "thread", "threadName", "in"}
    /\ e.logger \in LoggerNames /\ IsLogger(ls[e.logger])
    /\ e.in # None => e.in \in {e.logger, "root"}
LoggersInv ==
    /\ DOMAIN m_loggers = LoggerNames
    /\ \A n \in LoggerNames : m_loggers[n] # NoLogger => IsLogger(m_loggers[n])
    /\ IsLogger(m_loggers["root"])
    /\ DOMAIN event = Threads
    /\ \A t \in Threads : event[t] # None => IsEvent(event[t], m_loggers)

\* The logger that getLogger returns.
Got(n) == IF m_loggers[n] = NoLogger THEN Logger ELSE m_loggers[n]

\* getLogger makes that one and no other.
LEMMA GotIs ==
    ASSUME LoggersInv, NEW n \in LoggerNames
    PROVE  /\ IsLogger(Got(n)) /\ DOMAIN getLogger(m_loggers, n) = LoggerNames
           /\ getLogger(m_loggers, n)[n] = Got(n)
           /\ \A x \in LoggerNames : x # n => getLogger(m_loggers, n)[x] = m_loggers[x]
  BY LoggerIs DEF Got, getLogger, LoggersInv

\* What the listener's call c makes of a logger.
Effect(c, lg, h) ==
    /\ c.call = "level" => h.level = c.arg /\ h.appenders = lg.appenders
    /\ c.call = "formatter" =>
         /\ h.level = lg.level /\ Len(h.appenders) = Len(lg.appenders)
         /\ \A k \in 1 .. Len(lg.appenders) : Alike(h.appenders[k], lg.appenders[k])
         /\ InUse(c.arg) # <<>> => h.formatter.pattern = c.arg
    /\ c.call = "clear" => h.level = lg.level /\ h.appenders = <<>> /\ h.formatter = lg.formatter
    /\ c.call = "add" =>
         /\ h.formatter = lg.formatter
         /\ h.level = lg.level /\ Len(h.appenders) = Len(lg.appenders) + 1
         /\ \A k \in 1 .. Len(lg.appenders) : h.appenders[k] = lg.appenders[k]
         /\ MadeFor(h.appenders[Len(lg.appenders) + 1], c.arg)
    /\ c.call = "delete" => h.level = Deleted /\ h.appenders = <<>>

\* A call of the listener changes the logger it names, as Effect says.
LEMMA CallIs ==
    ASSUME LoggersInv, NEW t \in Threads, ListenerCall(t), Head(reload[t]).name \in LoggerNames
    PROVE  LET c == Head(reload[t])
               n == c.name
           IN /\ DOMAIN m_loggers' = LoggerNames
              /\ \A x \in LoggerNames : x # n => m_loggers'[x] = m_loggers[x]
              /\ c.call = "null" => UNCHANGED m_loggers
              /\ c.call # "null" => IsLogger(m_loggers'[n]) /\ Effect(c, Got(n), m_loggers'[n])
<1> DEFINE c == Head(reload[t])
           n == c.name
           ls == getLogger(m_loggers, n)
           g == Got(n)
           Becomes(lg) == m_loggers' = [ls EXCEPT ![n] = lg]
<1>1. /\ \/ c.call = "null" /\ UNCHANGED m_loggers
         \/ c.call = "level" /\ Becomes([ls[n] EXCEPT !.level = c.arg])
         \/ c.call = "formatter" /\ Becomes(setFormatter(ls[n], LogFormatter(c.arg)))
         \/ c.call = "clear" /\ Becomes([ls[n] EXCEPT !.appenders = <<>>])
         \/ c.call = "add" /\ Becomes(addAppender(ls[n], Configured(c.arg)))
         \/ c.call = "delete" /\ Becomes([ls[n] EXCEPT !.level = Deleted, !.appenders = <<>>])
  BY Zenon DEF ListenerCall
<1>2. n \in LoggerNames
  OBVIOUS
<1> HIDE DEF c
<1>3. /\ IsLogger(g) /\ DOMAIN ls = LoggerNames /\ ls[n] = g
      /\ \A x \in LoggerNames : x # n => ls[x] = m_loggers[x]
  BY <1>2, GotIs
<1> HIDE DEF n, ls, g
<1>4. ASSUME NEW lg, Becomes(lg)
      PROVE  /\ DOMAIN m_loggers' = LoggerNames /\ m_loggers'[n] = lg
             /\ \A x \in LoggerNames : x # n => m_loggers'[x] = m_loggers[x]
  BY <1>2, <1>3, <1>4
<1> HIDE DEF Becomes
<1> DEFINE Goal == /\ DOMAIN m_loggers' = LoggerNames
                   /\ \A x \in LoggerNames : x # n => m_loggers'[x] = m_loggers[x]
                   /\ c.call = "null" => UNCHANGED m_loggers
                   /\ c.call # "null" => IsLogger(m_loggers'[n]) /\ Effect(c, g, m_loggers'[n])
<1> SUFFICES Goal
  BY DEF c, n, g
<1>5. ASSUME NEW lg, Becomes(lg), IsLogger(lg), Effect(c, g, lg), c.call # "null" PROVE Goal
  BY <1>4, <1>5
<1>6. CASE c.call = "null" /\ UNCHANGED m_loggers
  BY <1>6 DEF LoggersInv
<1>7. CASE c.call = "level" /\ Becomes([ls[n] EXCEPT !.level = c.arg])
  <2> DEFINE h == [g EXCEPT !.level = c.arg]
  <2>1. IsLogger(h) /\ h.level = c.arg /\ h.appenders = g.appenders
    BY <1>3, SetLevelIs
  <2>2. Becomes(h)
    BY <1>3, <1>7
  <2> HIDE DEF h, Goal
  <2>3. Effect(c, g, h)
    BY <1>7, <2>1 DEF Effect
  <2>4. QED
    BY <1>5, <1>7, <2>1, <2>2, <2>3
<1>8. CASE c.call = "formatter" /\ Becomes(setFormatter(ls[n], LogFormatter(c.arg)))
  <2> DEFINE h == setFormatter(g, LogFormatter(c.arg))
  <2>1. /\ IsLogger(h) /\ h.level = g.level /\ Len(h.appenders) = Len(g.appenders)
        /\ \A k \in 1 .. Len(g.appenders) : Alike(h.appenders[k], g.appenders[k])
        /\ ~LogFormatter(c.arg).error => h.formatter = LogFormatter(c.arg)
    BY <1>3, SetFormatterIs
  <2>2. Becomes(h)
    BY <1>3, <1>8
  <2> HIDE DEF h, Goal
  <2>5. InUse(c.arg) # <<>> => h.formatter.pattern = c.arg
    BY <2>1, PatternIs DEF InUse
  <2>3. Effect(c, g, h)
    BY <1>8, <2>1, <2>5 DEF Effect
  <2>4. QED
    BY <1>5, <1>8, <2>1, <2>2, <2>3
<1>9. CASE c.call = "clear" /\ Becomes([ls[n] EXCEPT !.appenders = <<>>])
  <2> DEFINE h == [g EXCEPT !.appenders = <<>>]
  <2>1. IsLogger(h) /\ h.level = g.level /\ h.appenders = <<>> /\ h.formatter = g.formatter
    BY <1>3, ClearIs
  <2>2. Becomes(h)
    BY <1>3, <1>9
  <2> HIDE DEF h, Goal
  <2>3. Effect(c, g, h)
    BY <1>9, <2>1 DEF Effect
  <2>4. QED
    BY <1>5, <1>9, <2>1, <2>2, <2>3
<1>10. CASE c.call = "add" /\ Becomes(addAppender(ls[n], Configured(c.arg)))
  <2> DEFINE a == Configured(c.arg)
             h == addAppender(g, a)
  <2>1. IsFresh(a) /\ MadeFor(a, c.arg)
    BY ConfiguredIs
  <2> HIDE DEF a
  <2>2. /\ IsLogger(h) /\ h.level = g.level /\ Len(h.appenders) = Len(g.appenders) + 1
        /\ \A k \in 1 .. Len(g.appenders) : h.appenders[k] = g.appenders[k]
        /\ Alike(h.appenders[Len(g.appenders) + 1], a) /\ OwnAlike(h.appenders[Len(g.appenders) + 1], a)
        /\ h.formatter = g.formatter
    BY <1>3, <2>1, AddAppenderIs
  <2>3. Becomes(h)
    BY <1>3, <1>10 DEF a
  <2> HIDE DEF h, Goal
  <2>4. MadeFor(h.appenders[Len(g.appenders) + 1], c.arg)
    BY <2>1, <2>2 DEF Alike, OwnAlike, MadeFor
  <2>5. Effect(c, g, h)
    BY <1>10, <2>2, <2>4 DEF Effect
  <2>6. QED
    BY <1>5, <1>10, <2>2, <2>3, <2>5
<1>11. CASE c.call = "delete" /\ Becomes([ls[n] EXCEPT !.level = Deleted, !.appenders = <<>>])
  <2> DEFINE h == [g EXCEPT !.level = Deleted, !.appenders = <<>>]
  <2>1. IsLogger(h) /\ h.level = Deleted /\ h.appenders = <<>>
    BY <1>3, SilenceIs, Zenon
  <2>2. Becomes(h)
    BY <1>3, <1>11, Zenon
  <2> HIDE DEF h, Goal
  <2>3. Effect(c, g, h)
    BY <1>11, <2>1 DEF Effect
  <2>4. QED
    BY <1>5, <1>11, <2>1, <2>2, <2>3
<1>12. QED
  BY <1>1, <1>6, <1>7, <1>8, <1>9, <1>10, <1>11

\* A change by hand: the logger was there, and no file is new.
LEMMA HandIs ==
    ASSUME LoggersInv, NEW n \in LoggerNames, NEW f, LogClient(n, f)
    PROVE  /\ IsLogger(m_loggers[n]) /\ IsLogger(m_loggers'[n]) /\ DOMAIN m_loggers' = LoggerNames
           /\ \A x \in LoggerNames : x # n => m_loggers'[x] = m_loggers[x]
           /\ \A k \in DOMAIN m_loggers'[n].appenders :
                \/ m_loggers'[n].appenders[k].file = ""
                \/ \E j \in DOMAIN m_loggers[n].appenders :
                     m_loggers'[n].appenders[k].file = m_loggers[n].appenders[j].file
           /\ touched' = touched \union {n} /\ written' = <<>> /\ UNCHANGED <<event, reload, crashed>>
<1> DEFINE lg == m_loggers[n]
           Fine(h) == /\ IsLogger(h)
                      /\ \A k \in DOMAIN h.appenders :
                           \/ h.appenders[k].file = ""
                           \/ \E j \in DOMAIN lg.appenders : h.appenders[k].file = lg.appenders[j].file
<1>1. lg # NoLogger
  BY DEF LogClient, ByHand
<1>2. IsLogger(lg) /\ DOMAIN m_loggers = LoggerNames
  BY <1>1 DEF LoggersInv
<1>3. DOMAIN lg.appenders = 1 .. Len(lg.appenders) /\ Len(lg.appenders) \in Nat
  BY <1>2, ListIs DEF IsLogger
<1> HIDE DEF lg
<1>4. Fine([lg EXCEPT !.level = 4])
  <2> DEFINE h == [lg EXCEPT !.level = 4]
  <2>1. IsLogger(h) /\ h.appenders = lg.appenders
    BY <1>2, SetLevelIs
  <2> HIDE DEF h
  <2>2. Fine(h)
    BY <2>1
  <2>3. QED
    BY <2>2 DEF h
<1>5. Fine(setFormatter(lg, f))
  <2> DEFINE h == setFormatter(lg, f)
  <2>1. /\ IsLogger(h) /\ Len(h.appenders) = Len(lg.appenders)
        /\ \A k \in 1 .. Len(lg.appenders) : Alike(h.appenders[k], lg.appenders[k])
    BY <1>2, SetFormatterIs
  <2> HIDE DEF h
  <2>2. DOMAIN h.appenders = 1 .. Len(h.appenders)
    BY <2>1, ListIs DEF IsLogger
  <2>3. Fine(h)
    BY <1>3, <2>1, <2>2 DEF Alike
  <2>4. QED
    BY <2>3 DEF h
<1>6. Fine(addAppender(lg, NewAppender(2, "")))
  <2> DEFINE a == NewAppender(2, "")
             h == addAppender(lg, a)
  <2>1. IsFresh(a) /\ a.file = ""
    BY NewAppenderIs
  <2> HIDE DEF a
  <2>2. /\ IsLogger(h) /\ Len(h.appenders) = Len(lg.appenders) + 1
        /\ \A k \in 1 .. Len(lg.appenders) : h.appenders[k] = lg.appenders[k]
        /\ Alike(h.appenders[Len(lg.appenders) + 1], a)
    BY <1>2, <2>1, AddAppenderIs
  <2> HIDE DEF h
  <2>3. DOMAIN h.appenders = 1 .. (Len(lg.appenders) + 1)
    BY <2>2, ListIs DEF IsLogger
  <2>4. ASSUME NEW k \in DOMAIN h.appenders
        PROVE  \/ h.appenders[k].file = ""
               \/ \E j \in DOMAIN lg.appenders : h.appenders[k].file = lg.appenders[j].file
    <3>1. k = Len(lg.appenders) + 1 \/ k \in 1 .. Len(lg.appenders)
      BY <1>3, <2>3
    <3>2. QED
      BY <1>3, <2>1, <2>2, <3>1 DEF Alike
  <2>5. Fine(h)
    BY <2>2, <2>4
  <2>6. QED
    BY <2>5 DEF h, a
<1>7. lg.appenders # <<>> => Fine(delAppender(lg, lg.appenders[1]))
  <2> HAVE lg.appenders # <<>>
  <2> DEFINE h == delAppender(lg, lg.appenders[1])
  <2>1. IsLogger(h) /\ \A k \in DOMAIN h.appenders : \E j \in DOMAIN lg.appenders : h.appenders[k] = lg.appenders[j]
    BY <1>2, DelFirstIs
  <2> HIDE DEF h
  <2>2. Fine(h)
    BY <2>1
  <2>3. QED
    BY <2>2 DEF h
<1>8. Fine([lg EXCEPT !.appenders = <<>>])
  <2> DEFINE h == [lg EXCEPT !.appenders = <<>>]
  <2>1. IsLogger(h) /\ h.appenders = <<>>
    BY <1>2, ClearIs
  <2> HIDE DEF h
  <2>2. Fine(h)
    BY <2>1
  <2>3. QED
    BY <2>2 DEF h
<1>9. lg.appenders # <<>> /\ ~f.error => Fine([lg EXCEPT !.appenders[1] = appenderSetFormatter(@, f)])
  <2> HAVE lg.appenders # <<>> /\ ~f.error
  <2> DEFINE h == [lg EXCEPT !.appenders[1] = appenderSetFormatter(@, f)]
  <2>1. /\ IsLogger(h) /\ DOMAIN h.appenders = DOMAIN lg.appenders
        /\ \A k \in DOMAIN lg.appenders : Alike(h.appenders[k], lg.appenders[k])
    BY <1>2, FirstSetFormatterIs
  <2> HIDE DEF h
  <2>2. Fine(h)
    BY <2>1 DEF Alike
  <2>3. QED
    BY <2>2 DEF h
<1> HIDE DEF Fine
<1>10. PICK h : Fine(h) /\ ByHand(n, h)
  BY <1>4, <1>5, <1>6, <1>7, <1>8, <1>9, Zenon DEF LogClient, lg
<1>11. /\ m_loggers' = [m_loggers EXCEPT ![n] = h] /\ touched' = touched \union {n} /\ written' = <<>>
       /\ UNCHANGED <<event, reload, crashed>>
  BY <1>10 DEF ByHand
<1>12. m_loggers'[n] = h /\ DOMAIN m_loggers' = LoggerNames /\ \A x \in LoggerNames : x # n => m_loggers'[x] = m_loggers[x]
  BY <1>2, <1>11
<1>13. QED
  BY <1>2, <1>10, <1>11, <1>12 DEF Fine, lg

(***************************************************************************)
(* One name while the listener is at work.                                 *)
(***************************************************************************)
\* A file that D names for n, and a logger that writes to no other.
Named(D, n, x) ==
    x = "" \/ \E d \in D : d.name = n /\ \E k \in DOMAIN d.appenders : d.appenders[k].file = x
Within(lg, D, n) ==
    lg # NoLogger => \A k \in DOMAIN lg.appenders : Named(D, n, lg.appenders[k].file)
\* A logger that has been given a definition's level, and its first q appenders.
HasLevel(lg, d) == lg # NoLogger /\ lg.level = d.level
HasFirst(lg, d, q) ==
    /\ lg # NoLogger /\ Len(lg.appenders) = q
    /\ \A k \in 1 .. q : MadeFor(lg.appenders[k], d.appenders[k])
\* ... and its formatter, if it names one without an error.
HasFormat(lg, d) ==
    lg # NoLogger /\ (InUse(d.formatter) # <<>> => lg.formatter.pattern = d.formatter)
HasNone(lg) == lg # NoLogger /\ lg.level = Deleted /\ lg.appenders = <<>>

\* The logger of name n (changed by hand if tch) is as the definitions D say.
Settled(lg, n, D, tch) ==
    /\ Within(lg, D, n)
    /\ ~tch => /\ \A d \in D : d.name = n =>
                    HasLevel(lg, d) /\ HasFormat(lg, d) /\ HasFirst(lg, d, Len(d.appenders))
               /\ (\A d \in D : d.name # n) /\ lg # NoLogger => lg.level = 1 \/ HasNone(lg)

\* After p calls of the list, whose block for definition d is behind s.
Reached(x, m) == IF x <= m THEN x ELSE m
HalfDone(lg, d, s, p, tch, old, new) ==
    /\ p < s + ClearAt(d) => Within(lg, old, d.name)
    /\ p >= s + ClearAt(d) => Within(lg, new, d.name)
    /\ ~tch /\ p >= s + 1 => HasLevel(lg, d)
    /\ ~tch /\ p + 1 >= s + ClearAt(d) => HasFormat(lg, d)
    /\ ~tch /\ p >= s + ClearAt(d) =>
         HasFirst(lg, d, Reached(p - (s + ClearAt(d)), Len(d.appenders)))
\* After p calls, for a name that the new value does not have.
HalfGone(lg, n, l, p, tch, old) ==
    /\ Within(lg, old, n)
    /\ (\A i \in (p + 1) .. Len(l) : ~(l[i].call = "delete" /\ l[i].name = n)) =>
         Within(lg, {}, n) /\ (~tch => HasNone(lg))
Half(lg, n, old, new, l, start, p, tch) ==
    /\ \A d \in new : d.name = n => HalfDone(lg, d, start[d], p, tch, old, new)
    /\ n \in Removed(old, new) => HalfGone(lg, n, l, p, tch, old)
    /\ (\A d \in old : d.name # n) /\ (\A d \in new : d.name # n) => Settled(lg, n, {}, tch)

\* Nothing else than the named files matters to Within.
LEMMA WithinIs ==
    ASSUME NEW lg, NEW h, NEW D, NEW n, Within(lg, D, n), lg # NoLogger,
           \A k \in DOMAIN h.appenders : \/ h.appenders[k].file = ""
                                         \/ \E j \in DOMAIN lg.appenders :
                                               h.appenders[k].file = lg.appenders[j].file
    PROVE  Within(h, D, n)
<1>1. \A j \in DOMAIN lg.appenders : Named(D, n, lg.appenders[j].file)
  BY DEF Within
<1>2. Named(D, n, "")
  BY DEF Named
<1>3. ASSUME NEW k \in DOMAIN h.appenders PROVE Named(D, n, h.appenders[k].file)
  <2>1. CASE h.appenders[k].file = ""
    BY <1>2, <2>1
  <2>2. CASE \E j \in DOMAIN lg.appenders : h.appenders[k].file = lg.appenders[j].file
    BY <1>1, <2>2
  <2>3. QED
    BY <2>1, <2>2
<1>4. QED
  BY <1>3 DEF Within

\* More definitions name more files.
LEMMA WithinMore ==
    ASSUME NEW lg, NEW D, NEW E, NEW n, Within(lg, D, n), \A d \in D : d.name = n => d \in E
    PROVE  Within(lg, E, n)
  BY DEF Within, Named

\* The empty list of appenders.
LEMMA NoAppenders ==
    ASSUME NEW h, h.appenders = <<>>
    PROVE  /\ \A D, n : Within(h, D, n)
           /\ h # NoLogger => \A d : HasFirst(h, d, 0)
<1>1. DOMAIN h.appenders = {} /\ Len(h.appenders) = 0
  OBVIOUS
<1>2. \A D, n : Within(h, D, n)
  BY <1>1 DEF Within
<1>3. h # NoLogger => \A d : HasFirst(h, d, 0)
  BY <1>1 DEF HasFirst
<1>4. QED
  BY <1>2, <1>3

\* A change by hand.
LEMMA HandKeeps ==
    ASSUME NEW lg, NEW h, lg # NoLogger, NEW n,
           \A k \in DOMAIN h.appenders : \/ h.appenders[k].file = ""
                                         \/ \E j \in DOMAIN lg.appenders :
                                               h.appenders[k].file = lg.appenders[j].file
    PROVE  /\ \A D, tch : Settled(lg, n, D, tch) => Settled(h, n, D, TRUE)
           /\ \A old, new, l, start, p, tch :
                Half(lg, n, old, new, l, start, p, tch) => Half(h, n, old, new, l, start, p, TRUE)
<1>1. \A D, m : Within(lg, D, m) => Within(h, D, m)
  BY WithinIs
<1>2. \A D, tch : Settled(lg, n, D, tch) => Settled(h, n, D, TRUE)
  BY <1>1 DEF Settled
<1>3. ASSUME NEW old, NEW new, NEW l, NEW start, NEW p, NEW tch, Half(lg, n, old, new, l, start, p, tch)
      PROVE  Half(h, n, old, new, l, start, p, TRUE)
  <2>1. \A d \in new : d.name = n => HalfDone(h, d, start[d], p, TRUE, old, new)
    <3> SUFFICES ASSUME NEW d \in new, d.name = n PROVE HalfDone(h, d, start[d], p, TRUE, old, new)
      OBVIOUS
    <3>1. HalfDone(lg, d, start[d], p, tch, old, new)
      BY <1>3 DEF Half
    <3>2. QED
      BY <1>1, <3>1 DEF HalfDone
  <2>2. n \in Removed(old, new) => HalfGone(h, n, l, p, TRUE, old)
    <3> HAVE n \in Removed(old, new)
    <3>1. HalfGone(lg, n, l, p, tch, old)
      BY <1>3 DEF Half
    <3>2. QED
      BY <1>1, <3>1 DEF HalfGone
  <2>3. QED
    BY <1>2, <1>3, <2>1, <2>2 DEF Half
<1>4. QED
  BY <1>2, <1>3

\* A logger that is made.
LEMMA MakeKeeps ==
    ASSUME NEW n
    PROVE  /\ \A D, tch : Settled(NoLogger, n, D, tch) => Settled(Logger, n, D, tch)
           /\ \A old, new, l, start, p, tch :
                Half(NoLogger, n, old, new, l, start, p, tch) => Half(Logger, n, old, new, l, start, p, tch)
<1>1. Logger # NoLogger /\ Logger.level = 1 /\ Logger.appenders = <<>>
  BY LoggerIs
<1>2. \A D, m : Within(Logger, D, m)
  BY <1>1, NoAppenders
<1>3. \A d, q : /\ ~HasLevel(NoLogger, d) /\ ~HasFormat(NoLogger, d) /\ ~HasFirst(NoLogger, d, q)
                /\ ~HasNone(NoLogger)
  BY DEF HasLevel, HasFormat, HasFirst, HasNone
<1>4. \A D, tch : Settled(NoLogger, n, D, tch) => Settled(Logger, n, D, tch)
  BY <1>1, <1>2, <1>3 DEF Settled
<1>5. ASSUME NEW old, NEW new, NEW l, NEW start, NEW p, NEW tch, Half(NoLogger, n, old, new, l, start, p, tch)
      PROVE  Half(Logger, n, old, new, l, start, p, tch)
  <2>1. \A d \in new : d.name = n => HalfDone(Logger, d, start[d], p, tch, old, new)
    <3> SUFFICES ASSUME NEW d \in new, d.name = n PROVE HalfDone(Logger, d, start[d], p, tch, old, new)
      OBVIOUS
    <3>1. HalfDone(NoLogger, d, start[d], p, tch, old, new)
      BY <1>5 DEF Half
    <3>2. QED
      BY <1>2, <1>3, <3>1 DEF HalfDone
  <2>2. n \in Removed(old, new) => HalfGone(Logger, n, l, p, tch, old)
    <3> HAVE n \in Removed(old, new)
    <3>1. HalfGone(NoLogger, n, l, p, tch, old)
      BY <1>5 DEF Half
    <3>2. QED
      BY <1>2, <1>3, <3>1 DEF HalfGone
  <2>3. QED
    BY <1>4, <1>5, <2>1, <2>2 DEF Half
<1>6. QED
  BY <1>4, <1>5

\* Before the first call.
LEMMA HalfStarts ==
    ASSUME NEW old, NEW new, IsDefines(new), NEW l, NEW start, IsScript(l, old, new, start),
           Len(l) \in Nat, NEW lg, NEW n, NEW tch, Settled(lg, n, old, tch)
    PROVE  Half(lg, n, old, new, l, start, 0, tch)
<1>1. \A d \in new : d.name = n => HalfDone(lg, d, start[d], 0, tch, old, new)
  <2> SUFFICES ASSUME NEW d \in new, d.name = n PROVE HalfDone(lg, d, start[d], 0, tch, old, new)
    OBVIOUS
  <2>1. start[d] \in Nat /\ ClearAt(d) \in {2, 3}
    BY DEF IsScript, ClearAt
  <2>2. /\ 0 < start[d] + ClearAt(d) /\ ~(0 >= start[d] + ClearAt(d)) /\ ~(0 >= start[d] + 1)
        /\ ~(0 + 1 >= start[d] + ClearAt(d))
    BY <2>1
  <2>3. QED
    BY <2>2 DEF HalfDone, Settled
<1>2. n \in Removed(old, new) => HalfGone(lg, n, l, 0, tch, old)
  <2> HAVE n \in Removed(old, new)
  <2>1. PICK i \in 1 .. Len(l) : l[i].call = "delete" /\ l[i].name = n
    BY DEF IsScript
  <2>2. i \in (0 + 1) .. Len(l)
    OBVIOUS
  <2>3. QED
    BY <2>1, <2>2 DEF HalfGone, Settled
<1>3. (\A d \in old : d.name # n) => Settled(lg, n, {}, tch)
  <2> HAVE \A d \in old : d.name # n
  <2>1. Within(lg, {}, n)
    BY WithinMore DEF Settled
  <2>2. QED
    BY <2>1 DEF Settled
<1>4. QED
  BY <1>1, <1>2, <1>3 DEF Half

\* After the last.
LEMMA HalfEnds ==
    ASSUME NEW old, NEW new, IsDefines(new), NEW l, NEW start, IsScript(l, old, new, start),
           Len(l) \in Nat, NEW lg, NEW n, NEW tch, Half(lg, n, old, new, l, start, Len(l), tch)
    PROVE  Settled(lg, n, new, tch)
<1>1. ASSUME NEW d \in new, d.name = n
      PROVE  /\ Within(lg, new, n)
             /\ ~tch => HasLevel(lg, d) /\ HasFormat(lg, d) /\ HasFirst(lg, d, Len(d.appenders))
  <2> DEFINE p == Len(l)
             s == start[d]
             m == ClearAt(d)
             a == Len(d.appenders)
  <2>1. s \in Nat /\ m \in {2, 3} /\ a \in Nat /\ s + (m + a) <= p /\ p \in Nat
    <3>1. IsDefine(d) /\ BlockAt(l, s, d) /\ s \in Nat
      BY DEF IsScript, IsDefines
    <3>2. a \in Nat
      BY <3>1, ListIs DEF IsDefine
    <3>3. QED
      BY <3>1, <3>2 DEF BlockAt, Size, ClearAt
  <2>2. HalfDone(lg, d, s, p, tch, old, new)
    BY <1>1 DEF Half
  <2> HIDE DEF p, s, m, a
  <2>3. p >= s + m /\ p >= s + 1 /\ p + 1 >= s + m
    BY <2>1
  <2>4. Reached(p - (s + m), a) = a
    BY <2>1 DEF Reached
  <2>5. QED
    BY <1>1, <2>2, <2>3, <2>4 DEF HalfDone, m, a
<1>2. CASE \E d \in new : d.name = n
  <2>1. Within(lg, new, n)
    BY <1>1, <1>2
  <2>2. QED
    BY <1>1, <1>2, <2>1 DEF Settled
<1>3. CASE \A d \in new : d.name # n
  <2>1. CASE \E d \in old : d.name = n
    <3>1. n \in Removed(old, new)
      BY <1>3, <2>1 DEF Removed
    <3>2. HalfGone(lg, n, l, Len(l), tch, old)
      BY <3>1 DEF Half
    <3>3. \A i \in (Len(l) + 1) .. Len(l) : ~(l[i].call = "delete" /\ l[i].name = n)
      OBVIOUS
    <3>4. Within(lg, {}, n) /\ (~tch => HasNone(lg))
      BY <3>2, <3>3 DEF HalfGone
    <3>5. Within(lg, new, n)
      BY <3>4, WithinMore
    <3>6. QED
      BY <1>3, <3>4, <3>5 DEF Settled
  <2>2. CASE \A d \in old : d.name # n
    <3>1. Settled(lg, n, {}, tch)
      BY <1>3, <2>2 DEF Half
    <3>2. Within(lg, new, n)
      BY <3>1, WithinMore DEF Settled
    <3>3. QED
      BY <1>3, <3>1, <3>2 DEF Settled
  <2>3. QED
    BY <2>1, <2>2
<1>4. QED
  BY <1>2, <1>3

\* The entries of a block, by their place.
LEMMA BlockEntry ==
    ASSUME NEW l, NEW s \in Nat, NEW d, IsDefine(d), BlockAt(l, s, d), NEW i \in Nat, s < i, i <= s + Size(d)
    PROVE  /\ l[i].name = d.name
           /\ \/ i = s + 1 /\ l[i].call \in {"null", "level"} /\ l[i].arg = d.level
              \/ ClearAt(d) = 3 /\ i = s + 2 /\ l[i].call = "formatter" /\ l[i].arg = d.formatter
              \/ i = s + ClearAt(d) /\ l[i].call = "clear"
              \/ \E k \in 1 .. Len(d.appenders) : /\ i = s + ClearAt(d) + k /\ l[i].call = "add"
                                                  /\ l[i].arg = d.appenders[k]
<1> DEFINE m == ClearAt(d)
           a == Len(d.appenders)
<1>1. m \in {2, 3} /\ a \in Nat /\ Size(d) = m + a
  BY ListIs DEF ClearAt, Size, IsDefine
<1>2. /\ l[s + 1].call \in {"null", "level"} /\ l[s + 1].name = d.name /\ l[s + 1].arg = d.level
      /\ m = 3 => l[s + 2].call = "formatter" /\ l[s + 2].name = d.name /\ l[s + 2].arg = d.formatter
      /\ l[s + m].call = "clear" /\ l[s + m].name = d.name
      /\ \A k \in 1 .. a : /\ l[s + m + k].call = "add" /\ l[s + m + k].name = d.name
                           /\ l[s + m + k].arg = d.appenders[k]
  BY DEF BlockAt
<1> HIDE DEF m, a
<1>3. \/ i = s + 1 \/ (m = 3 /\ i = s + 2) \/ i = s + m \/ (i - (s + m) \in 1 .. a /\ i = s + m + (i - (s + m)))
  BY <1>1
<1>4. QED
  BY <1>2, <1>3 DEF m, a

\* A logger of another name sees the calls go by.
LEMMA HalfPasses ==
    ASSUME NEW old, NEW new, IsDefines(new), NEW l, NEW start, IsScript(l, old, new, start),
           Len(l) \in Nat, NEW p \in Nat, p + 1 <= Len(l), NEW lg, NEW n, NEW tch,
           Half(lg, n, old, new, l, start, p, tch), l[p + 1].name # n
    PROVE  Half(lg, n, old, new, l, start, p + 1, tch)
<1>1. ASSUME NEW d \in new, d.name = n PROVE HalfDone(lg, d, start[d], p + 1, tch, old, new)
  <2> DEFINE s == start[d]
             m == ClearAt(d)
             a == Len(d.appenders)
  <2>1. IsDefine(d) /\ BlockAt(l, s, d) /\ s \in Nat
    BY DEF IsScript, IsDefines
  <2>2. a \in Nat /\ m \in {2, 3} /\ Size(d) = m + a
    BY <2>1, ListIs DEF IsDefine, Size, ClearAt
  <2>3. ~(s < p + 1 /\ p + 1 <= s + (m + a))
    BY <1>1, <2>1, <2>2, BlockEntry
  <2>4. HalfDone(lg, d, s, p, tch, old, new)
    BY <1>1 DEF Half
  <2> HIDE DEF s, m, a
  <2>5. CASE p + 1 <= s
    <3>1. /\ p < s + m /\ p + 1 < s + m /\ ~(p + 1 >= s + m) /\ ~(p + 1 >= s + 1)
          /\ ~((p + 1) + 1 >= s + m)
      BY <2>1, <2>2, <2>5
    <3>2. QED
      BY <2>4, <3>1 DEF HalfDone, m, s
  <2>6. CASE s + (m + a) < p + 1
    <3>1. p >= s + m /\ p >= s + 1 /\ ~(p + 1 < s + m) /\ p + 1 >= s + m
      BY <2>1, <2>2, <2>6
    <3>2. Reached(p - (s + m), a) = a /\ Reached((p + 1) - (s + m), a) = a
      BY <2>1, <2>2, <2>6 DEF Reached
    <3>3. QED
      BY <2>4, <3>1, <3>2 DEF HalfDone, m, s, a
  <2>7. QED
    BY <2>1, <2>2, <2>3, <2>5, <2>6
<1>2. n \in Removed(old, new) => HalfGone(lg, n, l, p + 1, tch, old)
  <2> HAVE n \in Removed(old, new)
  <2>1. HalfGone(lg, n, l, p, tch, old)
    BY DEF Half
  <2>2. (\A i \in ((p + 1) + 1) .. Len(l) : ~(l[i].call = "delete" /\ l[i].name = n)) =>
        (\A i \in (p + 1) .. Len(l) : ~(l[i].call = "delete" /\ l[i].name = n))
    <3> SUFFICES ASSUME \A i \in ((p + 1) + 1) .. Len(l) : ~(l[i].call = "delete" /\ l[i].name = n),
                        NEW i \in (p + 1) .. Len(l), l[i].name = n
                 PROVE  l[i].call # "delete"
      OBVIOUS
    <3>1. i # p + 1
      OBVIOUS
    <3>2. i \in ((p + 1) + 1) .. Len(l)
      BY <3>1
    <3>3. QED
      BY <3>2
  <2>3. QED
    BY <2>1, <2>2 DEF HalfGone
<1>3. QED
  BY <1>1, <1>2 DEF Half

\* The logger of the name that is called.
LEMMA HalfCalled ==
    ASSUME NEW old, NEW new, IsDefines(new), NEW l, NEW start, IsScript(l, old, new, start),
           Len(l) \in Nat, NEW p \in Nat, p + 1 <= Len(l), NEW lg, NEW n, NEW tch, NEW tch2,
           Half(lg, n, old, new, l, start, p, tch), l[p + 1].name = n, l[p + 1].call # "null",
           NEW g, IsLogger(g), g = IF lg = NoLogger THEN Logger ELSE lg,
           NEW h, IsLogger(h), Effect(l[p + 1], g, h), l[p + 1].call # "level" => tch2 = tch
    PROVE  Half(h, n, old, new, l, start, p + 1, tch2)
<1> DEFINE c == l[p + 1]
<1>1. /\ h # NoLogger /\ g # NoLogger
      /\ DOMAIN g.appenders = 1 .. Len(g.appenders) /\ Len(g.appenders) \in Nat
      /\ DOMAIN h.appenders = 1 .. Len(h.appenders) /\ Len(h.appenders) \in Nat
  BY LoggerIs, ListIs DEF IsLogger
<1>2. Half(g, n, old, new, l, start, p, tch)
  BY MakeKeeps
<1>3. CASE c.call = "delete" /\ n \in Removed(old, new)
  <2>1. h.level = Deleted /\ h.appenders = <<>>
    BY <1>3 DEF Effect
  <2>2. \A D, m : Within(h, D, m)
    BY <2>1, NoAppenders
  <2>3. HasNone(h)
    BY <1>1, <2>1 DEF HasNone
  <2>4. HalfGone(h, n, l, p + 1, tch2, old)
    BY <2>2, <2>3 DEF HalfGone
  <2>5. (\A d \in new : d.name # n) /\ ~(\A d \in old : d.name # n)
    BY <1>3 DEF Removed
  <2>6. QED
    BY <2>4, <2>5 DEF Half
<1>4. ASSUME NEW d \in new, start[d] < p + 1, p + 1 <= start[d] + Size(d)
      PROVE  Half(h, n, old, new, l, start, p + 1, tch2)
  <2> DEFINE s == start[d]
             m == ClearAt(d)
             a == Len(d.appenders)
  <2>1. IsDefine(d) /\ BlockAt(l, s, d) /\ s \in Nat
    BY DEF IsScript, IsDefines
  <2>2. a \in Nat /\ m \in {2, 3} /\ DOMAIN d.appenders = 1 .. a
    BY <2>1, ListIs DEF IsDefine, ClearAt
  <2>3. d.name = n
    BY <1>4, <2>1, BlockEntry
  <2>4. HalfDone(g, d, s, p, tch, old, new)
    BY <1>2, <2>3 DEF Half
  <2>5. \/ p + 1 = s + 1 /\ c.call \in {"null", "level"} /\ c.arg = d.level
        \/ m = 3 /\ p + 1 = s + 2 /\ c.call = "formatter" /\ c.arg = d.formatter
        \/ p + 1 = s + m /\ c.call = "clear"
        \/ \E k \in 1 .. a : p + 1 = s + m + k /\ c.call = "add" /\ c.arg = d.appenders[k]
    BY <1>4, <2>1, BlockEntry, SMTT(40)
  <2> SUFFICES HalfDone(h, d, s, p + 1, tch2, old, new)
    <3>1. \A e \in new : e.name = n => e = d
      BY <2>3 DEF IsDefines
    <3>2. n \notin Removed(old, new) /\ ~(\A e \in new : e.name # n)
      BY <2>3 DEF Removed
    <3> HIDE DEF s
    <3>3. QED
      BY <3>1, <3>2 DEF Half, s
  <2> HIDE DEF s, m, a, c
  <2>6. CASE p + 1 = s + 1 /\ c.call \in {"null", "level"} /\ c.arg = d.level
    <3>1. c.call = "level" /\ h.level = d.level /\ h.appenders = g.appenders
      BY <2>6 DEF Effect, c
    <3>2. p < s + m /\ p + 1 < s + m /\ ~(p + 1 >= s + m)
      BY <2>1, <2>2, <2>6
    <3>3. Within(g, old, n)
      BY <2>3, <2>4, <3>2 DEF HalfDone, m
    <3>4. Within(h, old, n)
      BY <1>1, <3>1, <3>3 DEF Within
    <3>5. HasLevel(h, d)
      BY <1>1, <3>1 DEF HasLevel
    <3>7. (p + 1) + 1 >= s + m => HasFormat(h, d)
      <4> HAVE (p + 1) + 1 >= s + m
      <4>1. m = 2
        BY <2>1, <2>2, <2>6
      <4>2. d.formatter = <<>>
        BY <4>1 DEF m, ClearAt
      <4>3. QED
        BY <1>1, <4>2 DEF HasFormat, InUse
    <3>6. QED
      BY <2>3, <3>2, <3>4, <3>5, <3>7 DEF HalfDone, m
  <2>7. CASE m = 3 /\ p + 1 = s + 2 /\ c.call = "formatter" /\ c.arg = d.formatter
    <3>1. /\ h.level = g.level /\ Len(h.appenders) = Len(g.appenders) /\ tch2 = tch
          /\ \A k \in 1 .. Len(g.appenders) : Alike(h.appenders[k], g.appenders[k])
          /\ InUse(d.formatter) # <<>> => h.formatter.pattern = d.formatter
      BY <2>7 DEF Effect, c
    <3>2. p < s + m /\ p + 1 < s + m /\ ~(p + 1 >= s + m) /\ p >= s + 1
      BY <2>1, <2>2, <2>7
    <3>3. Within(g, old, n) /\ (~tch => HasLevel(g, d))
      BY <2>3, <2>4, <3>2 DEF HalfDone, m
    <3>4. Within(h, old, n)
      BY <1>1, <3>1, <3>3, WithinIs, ZenonT(60) DEF Alike
    <3>5. (~tch2 => HasLevel(h, d)) /\ HasFormat(h, d)
      BY <1>1, <3>1, <3>3 DEF HasLevel, HasFormat
    <3>6. QED
      BY <2>3, <3>2, <3>4, <3>5 DEF HalfDone, m
  <2>8. CASE p + 1 = s + m /\ c.call = "clear"
    <3>1. h.level = g.level /\ h.appenders = <<>> /\ h.formatter = g.formatter /\ tch2 = tch
      BY <2>8 DEF Effect, c
    <3>2. ~(p + 1 < s + m) /\ p >= s + 1 /\ (p + 1) - (s + m) = 0 /\ p + 1 >= s + m
      BY <2>1, <2>2, <2>8
    <3>3. ~tch => HasLevel(g, d) /\ HasFormat(g, d)
      BY <2>4, <3>2 DEF HalfDone, m
    <3>4. Within(h, new, n) /\ HasFirst(h, d, 0)
      BY <1>1, <3>1, NoAppenders
    <3>5. ~tch2 => HasLevel(h, d) /\ HasFormat(h, d)
      BY <1>1, <3>1, <3>3 DEF HasLevel, HasFormat
    <3>6. Reached(0, a) = 0
      BY <2>2 DEF Reached
    <3>7. QED
      BY <2>3, <3>2, <3>4, <3>5, <3>6 DEF HalfDone, m, a
  <2>9. ASSUME NEW k \in 1 .. a, p + 1 = s + m + k, c.call = "add", c.arg = d.appenders[k]
        PROVE  HalfDone(h, d, s, p + 1, tch2, old, new)
    <3> DEFINE b == Len(g.appenders)
    <3>1. /\ h.level = g.level /\ Len(h.appenders) = b + 1 /\ tch2 = tch
          /\ \A j \in 1 .. b : h.appenders[j] = g.appenders[j]
          /\ MadeFor(h.appenders[b + 1], d.appenders[k]) /\ h.formatter = g.formatter
      BY <2>9 DEF Effect, c
    <3>2. /\ ~(p + 1 < s + m) /\ p + 1 >= s + m /\ p >= s + m /\ p >= s + 1 /\ (p + 1) - (s + m) = k
          /\ p - (s + m) = k - 1
      BY <2>1, <2>2, <2>9
    <3>3. Reached(k - 1, a) = k - 1 /\ Reached(k, a) = k
      BY <2>2 DEF Reached
    <3>4. Within(g, new, n) /\ (~tch => HasLevel(g, d) /\ HasFormat(g, d) /\ HasFirst(g, d, k - 1))
      BY <2>3, <2>4, <3>2, <3>3 DEF HalfDone, m, a
    <3>5. Within(h, new, n)
      <4>1. ASSUME NEW j \in DOMAIN h.appenders PROVE Named(new, n, h.appenders[j].file)
        <5>1. j = b + 1 \/ j \in 1 .. b
          BY <1>1, <3>1
        <5>2. CASE j \in 1 .. b
          BY <1>1, <3>1, <3>4, <5>2 DEF Within
        <5>3. CASE j = b + 1
          BY <2>2, <2>3, <3>1, <5>3 DEF Named, Alike, MadeFor
        <5>4. QED
          BY <5>1, <5>2, <5>3
      <4>2. QED
        BY <4>1 DEF Within
    <3>6. ~tch2 => HasLevel(h, d) /\ HasFormat(h, d)
      BY <1>1, <3>1, <3>4 DEF HasLevel, HasFormat
    <3>7. ~tch2 => HasFirst(h, d, k)
      <4> HAVE ~tch2
      <4>1. b = k - 1 /\ \A j \in 1 .. (k - 1) : MadeFor(g.appenders[j], d.appenders[j])
        BY <3>1, <3>4 DEF HasFirst
      <4> HIDE DEF b
      <4>2. b + 1 = k
        BY <4>1
      <4>3. ASSUME NEW j \in 1 .. k PROVE MadeFor(h.appenders[j], d.appenders[j])
        <5>1. j = k \/ j \in 1 .. b
          BY <4>1
        <5>2. QED
          BY <3>1, <4>1, <4>2, <5>1
      <4>4. QED
        BY <1>1, <3>1, <4>2, <4>3 DEF HasFirst
    <3>8. QED
      BY <2>3, <3>2, <3>3, <3>5, <3>6, <3>7 DEF HalfDone, m, a
  <2>10. QED
    BY <2>5, <2>6, <2>7, <2>8, <2>9
<1>5. p + 1 \in 1 .. Len(l)
  OBVIOUS
<1>6. QED
  BY <1>3, <1>4, <1>5 DEF IsScript

(***************************************************************************)
(* Loggers and the value of "logs".                                        *)
(***************************************************************************)
\* One thread at most loads log definitions.
OneLoader == \A t, u \in Threads : LoadsLogs(t) /\ LoadsLogs(u) => t = u

\* The value in force, and a thread that is changing it.
LogsValue == IF var[LogsVar].type = "logs" THEN var[LogsVar].value ELSE {}
Loading(t) == load[t].var = LogsVar /\ load[t].at \in {"notify", "assign"}

\* r is what is left of the list l after p calls.
Rest(r, l, p) ==
    /\ p \in 0 .. Len(l) /\ IsList(r) /\ Len(r) = Len(l) - p
    /\ \A i \in 1 .. Len(r) : r[i] = l[p + i]
StartOf(old, new) == CHOOSE start : IsScript(Listener(old, new), old, new, start)
\* The loggers ls after the calls that are no longer in r; tch was changed by hand.
Progress(ls, tch, old, new, r) ==
    \E p : /\ Rest(r, Listener(old, new), p)
           /\ \A n \in LoggerNames : Half(ls[n], n, old, new, Listener(old, new), StartOf(old, new),
                                          p, n \in tch)

\* A line went to a file of its event's logger, or of the root logger.
Written ==
    \A k \in DOMAIN written :
        /\ written[k].logger \in LoggerNames
        /\ \E n \in {written[k].logger, "root"} :
             /\ m_loggers[n] # NoLogger
             /\ \E j \in DOMAIN m_loggers[n].appenders : written[k].file = m_loggers[n].appenders[j].file
InForce ==
    ~crashed =>
        /\ \A t \in Threads : Loading(t) =>
             Progress(m_loggers, touched, var[LogsVar].value, load[t].value, reload[t])
        /\ (\A t \in Threads : ~Loading(t)) =>
             \A n \in LoggerNames : Settled(m_loggers[n], n, LogsValue, n \in touched)
MatchInv == Written /\ (crashed => written = <<>>) /\ InForce

\* Listener's list and the positions of its blocks.
LEMMA StartOfIs ==
    ASSUME NEW old, IsDefines(old), NEW new, IsDefines(new)
    PROVE  /\ IsList(Listener(old, new)) /\ Len(Listener(old, new)) \in Nat
           /\ IsScript(Listener(old, new), old, new, StartOf(old, new))
<1>1. IsList(Listener(old, new)) /\ \E start : IsScript(Listener(old, new), old, new, start)
  BY ListenerIs
<1>2. QED
  BY <1>1, ListIs DEF StartOf

\* At first, and at the end of the list.
LEMMA ProgressStarts ==
    ASSUME NEW old, IsDefines(old), NEW new, IsDefines(new), NEW ls, NEW tch,
           \A n \in LoggerNames : Settled(ls[n], n, old, n \in tch)
    PROVE  Progress(ls, tch, old, new, Listener(old, new))
<1> DEFINE l == Listener(old, new)
           start == StartOf(old, new)
<1>1. IsList(l) /\ Len(l) \in Nat /\ IsScript(l, old, new, start)
  BY StartOfIs
<1> HIDE DEF l, start
<1>2. Rest(l, l, 0)
  <2>1. \A i \in 1 .. Len(l) : l[i] = l[0 + i]
    BY <1>1
  <2>2. QED
    BY <1>1, <2>1 DEF Rest
<1>3. \A n \in LoggerNames : Half(ls[n], n, old, new, l, start, 0, n \in tch)
  BY <1>1, HalfStarts
<1>4. QED
  BY <1>2, <1>3 DEF Progress, l, start

\* When no call is left the new value is in force.
LEMMA ProgressEnds ==
    ASSUME NEW old, IsDefines(old), NEW new, IsDefines(new), NEW ls, NEW tch,
           Progress(ls, tch, old, new, <<>>)
    PROVE  \A n \in LoggerNames : Settled(ls[n], n, new, n \in tch)
<1> DEFINE l == Listener(old, new)
           start == StartOf(old, new)
<1>1. IsList(l) /\ Len(l) \in Nat /\ IsScript(l, old, new, start)
  BY StartOfIs
<1> HIDE DEF l, start
<1>2. PICK p : /\ Rest(<<>>, l, p)
               /\ \A n \in LoggerNames : Half(ls[n], n, old, new, l, start, p, n \in tch)
  BY DEF Progress, l, start
<1>3. p = Len(l)
  <2>1. Len(<<>>) = 0
    OBVIOUS
  <2>2. p \in 0 .. Len(l) /\ 0 = Len(l) - p
    BY <1>2, <2>1 DEF Rest
  <2>3. QED
    BY <1>1, <2>2
<1>4. \A n \in LoggerNames : Half(ls[n], n, old, new, l, start, Len(l), n \in tch)
  BY <1>2, <1>3
<1>5. QED
  BY <1>1, <1>4, HalfEnds

\* Loggers that change one by one, as HandKeeps and MakeKeeps say.
LEMMA ProgressKeeps ==
    ASSUME NEW old, NEW new, NEW ls, NEW tch, NEW ls2, NEW tch2, NEW r, Progress(ls, tch, old, new, r),
           \A n \in LoggerNames : \A l, start, p :
             Half(ls[n], n, old, new, l, start, p, n \in tch) =>
               Half(ls2[n], n, old, new, l, start, p, n \in tch2)
    PROVE  Progress(ls2, tch2, old, new, r)
  BY DEF Progress

\* What is in force while a setValue of "logs" may be under way: the loggers stay
\* within the files of the old and the new value.
LEMMA ProgressWithin ==
    ASSUME NEW old, IsDefines(old), NEW new, IsDefines(new), NEW ls, NEW tch, NEW r,
           Progress(ls, tch, old, new, r), NEW n \in LoggerNames
    PROVE  Within(ls[n], old \union new, n)
<1> DEFINE l == Listener(old, new)
           start == StartOf(old, new)
<1>1. Len(l) \in Nat /\ IsScript(l, old, new, start)
  BY StartOfIs
<1> HIDE DEF l, start
<1>2. PICK p : Rest(r, l, p) /\ Half(ls[n], n, old, new, l, start, p, n \in tch)
  BY DEF Progress, l, start
<1>3. p \in Nat
  BY <1>1, <1>2 DEF Rest
<1>4. CASE \E d \in new : d.name = n
  <2>1. PICK d \in new : d.name = n
    BY <1>4
  <2>2. HalfDone(ls[n], d, start[d], p, n \in tch, old, new)
    BY <1>2, <2>1 DEF Half
  <2>3. start[d] \in Nat /\ ClearAt(d) \in Nat
    BY <1>1 DEF IsScript, ClearAt
  <2>4. Within(ls[n], old, n) \/ Within(ls[n], new, n)
    BY <1>3, <2>1, <2>2, <2>3 DEF HalfDone
  <2>5. QED
    BY <2>4, WithinMore
<1>5. CASE (\A d \in new : d.name # n) /\ \E d \in old : d.name = n
  <2>1. n \in Removed(old, new)
    BY <1>5 DEF Removed
  <2>2. Within(ls[n], old, n)
    BY <1>2, <2>1 DEF Half, HalfGone
  <2>3. QED
    BY <2>2, WithinMore
<1>6. CASE (\A d \in new : d.name # n) /\ \A d \in old : d.name # n
  <2>1. Within(ls[n], {}, n)
    BY <1>2, <1>6 DEF Half, Settled
  <2>2. QED
    BY <2>1, WithinMore
<1>7. QED
  BY <1>4, <1>5, <1>6

\* The next call of the list.
LEMMA NextCall ==
    ASSUME NEW old, IsDefines(old), NEW new, IsDefines(new), NEW ls, NEW tch, NEW r, r # <<>>,
           Progress(ls, tch, old, new, r)
    PROVE  /\ Head(r).name \in LoggerNames
           /\ \E p \in Nat :
                /\ p + 1 <= Len(Listener(old, new)) /\ Head(r) = Listener(old, new)[p + 1]
                /\ Rest(Tail(r), Listener(old, new), p + 1)
                /\ \A n \in LoggerNames : Half(ls[n], n, old, new, Listener(old, new), StartOf(old, new),
                                               p, n \in tch)
<1> DEFINE l == Listener(old, new)
           start == StartOf(old, new)
           c == Head(r)
<1>1. IsList(l) /\ Len(l) \in Nat /\ IsScript(l, old, new, start)
  BY StartOfIs
<1> HIDE DEF l, start
<1>2. PICK p : Rest(r, l, p) /\ \A n \in LoggerNames : Half(ls[n], n, old, new, l, start, p, n \in tch)
  BY DEF Progress, l, start
<1>3. r \in Seq(ToSet(r)) /\ Len(r) \in Nat \ {0}
  BY <1>2, EmptySeq DEF Rest, IsList
<1>4. p \in Nat /\ p + 1 <= Len(l) /\ c = l[p + 1] /\ p + 1 \in 0 .. Len(l)
  <2>1. c = r[1]
    BY <1>3
  <2>2. p \in 0 .. Len(l) /\ Len(r) = Len(l) - p /\ r[1] = l[p + 1]
    BY <1>2, <1>3 DEF Rest
  <2> HIDE DEF c
  <2>3. QED
    BY <1>1, <1>3, <2>1, <2>2
<1>5. Rest(Tail(r), l, p + 1)
  <2> DEFINE q == Tail(r)
  <2>1. q \in Seq(ToSet(r)) /\ Len(q) = Len(r) - 1 /\ \A i \in 1 .. Len(q) : q[i] = r[i + 1]
    BY <1>3
  <2> HIDE DEF q
  <2>2. Len(r) = Len(l) - p /\ \A i \in 1 .. Len(r) : r[i] = l[p + i]
    BY <1>2 DEF Rest
  <2>3. Len(q) = Len(l) - (p + 1)
    BY <1>1, <1>4, <2>1, <2>2
  <2>4. ASSUME NEW i \in 1 .. Len(q) PROVE q[i] = l[(p + 1) + i]
    <3>1. i + 1 \in 1 .. Len(r) /\ p + (i + 1) = (p + 1) + i
      BY <1>3, <1>4, <2>1
    <3>2. QED
      BY <2>1, <2>2, <3>1
  <2>5. IsList(q)
    BY <2>1, SeqIsList
  <2>6. QED
    BY <1>4, <2>3, <2>4, <2>5 DEF Rest, q
<1> HIDE DEF c
<1>6. c.name \in LoggerNames
  <2>1. p + 1 \in 1 .. Len(l)
    BY <1>1, <1>4
  <2>2. CASE \E d \in new : start[d] < p + 1 /\ p + 1 <= start[d] + Size(d)
    <3>1. PICK d \in new : start[d] < p + 1 /\ p + 1 <= start[d] + Size(d)
      BY <2>2
    <3>2. IsDefine(d) /\ BlockAt(l, start[d], d) /\ start[d] \in Nat /\ p + 1 \in Nat
      BY <1>1, <1>4 DEF IsScript, IsDefines
    <3>3. l[p + 1].name = d.name
      BY <3>1, <3>2, BlockEntry
    <3>4. QED
      BY <1>4, <3>2, <3>3 DEF IsDefine
  <2>3. CASE l[p + 1].name \in Removed(old, new)
    BY <1>4, <2>3 DEF Removed, IsDefines, IsDefine
  <2>4. QED
    BY <1>1, <2>1, <2>2, <2>3 DEF IsScript
<1>7. QED
  BY <1>2, <1>4, <1>5, <1>6 DEF c, l, start

\* What it does.
LEMMA ProgressCall ==
    ASSUME NEW old, IsDefines(old), NEW new, IsDefines(new), NEW ls, NEW tch, NEW r, r # <<>>,
           Progress(ls, tch, old, new, r), NEW c, c = Head(r),
           NEW ls2, NEW tch2, c.call # "null",
           \A n \in LoggerNames : n # c.name => ls2[n] = ls[n] /\ (n \in tch2 <=> n \in tch),
           c.call # "level" => tch2 = tch,
           NEW g, IsLogger(g), g = IF ls[c.name] = NoLogger THEN Logger ELSE ls[c.name],
           IsLogger(ls2[c.name]), Effect(c, g, ls2[c.name])
    PROVE  Progress(ls2, tch2, old, new, Tail(r))
<1> DEFINE l == Listener(old, new)
           start == StartOf(old, new)
<1>1. IsList(l) /\ Len(l) \in Nat /\ IsScript(l, old, new, start)
  BY StartOfIs
<1>2. PICK p \in Nat :
        /\ p + 1 <= Len(l) /\ c = l[p + 1] /\ Rest(Tail(r), l, p + 1) /\ c.name \in LoggerNames
        /\ \A n \in LoggerNames : Half(ls[n], n, old, new, l, start, p, n \in tch)
  BY NextCall
<1> HIDE DEF l, start
<1>3. ASSUME NEW n \in LoggerNames, n # c.name
      PROVE  Half(ls2[n], n, old, new, l, start, p + 1, n \in tch2)
  <2>1. Half(ls[n], n, old, new, l, start, p, n \in tch)
    BY <1>2
  <2>2. Half(ls[n], n, old, new, l, start, p + 1, n \in tch)
    BY <1>1, <1>2, <1>3, <2>1, HalfPasses
  <2>3. ls2[n] = ls[n] /\ (n \in tch2) = (n \in tch)
    BY <1>3
  <2>4. QED
    BY <2>2, <2>3
<1>4. Half(ls2[c.name], c.name, old, new, l, start, p + 1, c.name \in tch2)
  <2> DEFINE n == c.name
             h == ls2[n]
             lg == ls[n]
             b == n \in tch
             b2 == n \in tch2
  <2>1. Half(lg, n, old, new, l, start, p, b)
    BY <1>2
  <2>2. /\ l[p + 1].name = n /\ l[p + 1].call # "null" /\ IsLogger(h) /\ Effect(l[p + 1], g, h)
        /\ g = IF lg = NoLogger THEN Logger ELSE lg
        /\ l[p + 1].call # "level" => b2 = b
    BY <1>2
  <2> HIDE DEF n, h, lg, b, b2
  <2>3. Half(h, n, old, new, l, start, p + 1, b2)
    BY <1>1, <1>2, <2>1, <2>2, HalfCalled
  <2>4. QED
    BY <2>3 DEF n, h, b2
<1>5. \A n \in LoggerNames : Half(ls2[n], n, old, new, l, start, p + 1, n \in tch2)
  <2> SUFFICES ASSUME NEW n \in LoggerNames PROVE Half(ls2[n], n, old, new, l, start, p + 1, n \in tch2)
    OBVIOUS
  <2>1. CASE n = c.name
    BY <1>4, <2>1
  <2>2. CASE n # c.name
    BY <1>3, <2>2
  <2>3. QED
    BY <2>1, <2>2
<1>6. QED
  BY <1>2, <1>5 DEF Progress, l, start

\* Nothing about "logs" and its loggers moves.
LEMMA MatchStays ==
    ASSUME MatchInv, UNCHANGED <<m_loggers, written, touched, crashed>>, LogsValue' = LogsValue,
           \A t \in Threads : /\ Loading(t)' <=> Loading(t)
                              /\ Loading(t) => /\ load'[t].value = load[t].value /\ reload'[t] = reload[t]
                                               /\ var'[LogsVar].value = var[LogsVar].value
    PROVE  MatchInv'
<1>1. Written' /\ (crashed' => written' = <<>>)
  BY DEF MatchInv, Written
<1>2. InForce'
  <2> SUFFICES ASSUME ~crashed PROVE InForce'
    BY DEF InForce
  <2>1. ASSUME NEW t \in Threads, Loading(t)'
        PROVE  Progress(m_loggers', touched', var'[LogsVar].value, load'[t].value, reload'[t])
    <3>1. Progress(m_loggers, touched, var[LogsVar].value, load[t].value, reload[t])
      BY <2>1 DEF MatchInv, InForce
    <3>2. QED
      BY <2>1, <3>1
  <2>2. ASSUME \A t \in Threads : ~Loading(t)', NEW n \in LoggerNames
        PROVE  Settled(m_loggers'[n], n, LogsValue', n \in touched')
    BY <2>2 DEF MatchInv, InForce
  <2>3. QED
    BY <2>1, <2>2 DEF InForce
<1>3. QED
  BY <1>1, <1>2 DEF MatchInv

\* Static initialisation.
LEMMA StaticMatch ==
    ASSUME ToldInv, LogsInv, MatchInv, Static
    PROVE  MatchInv'
<1>1. UNCHANGED <<load, loads, logVars>> /\ Starting
  BY DEF Static, Lookup, addListener
<1>2. \A t \in Threads : load[t].at = "idle"
  BY <1>1 DEF Starting, ToldInv, LoadCounted
<1>3. \A t \in Threads : ~Loading(t) /\ ~Loading(t)'
  BY <1>1, <1>2 DEF Loading
<1>4. DOMAIN var = Vars /\ \A v \in Vars : IsVar(var[v])
  BY DEF ToldInv, ConfigTyped
<1>5. ASSUME NEW v \in Vars, Lookup(v, Declared[v].key, Declared[v].type, Declared[v].default)
      PROVE  LogsValue' = LogsValue
  <2>1. PICK r : /\ r = [NoVar EXCEPT !.type = Declared[v].type, !.value = Declared[v].default]
                 /\ var' = [var EXCEPT ![v] = r] /\ var[v] = NoVar
    BY <1>5 DEF Lookup
  <2>2. r.type = Declared[v].type /\ r.value = Declared[v].default
    BY <2>1 DEF NoVar
  <2>3. var'[LogsVar] = IF LogsVar = v THEN r ELSE var[LogsVar]
    BY <1>4, <2>1, LogsVarIs
  <2>4. QED
    BY <2>1, <2>2, <2>3, LogsVarIs, LogsAssumption DEF LogsValue
<1>6. ASSUME addListener(LogsVar, LogsListener)
      PROVE  LogsValue' = LogsValue
  <2> DEFINE v == LogsVar
             r == [var[v] EXCEPT !.cbs = @ \union {LogsListener}]
  <2>1. v \in Vars /\ var' = [var EXCEPT ![v].cbs = @ \union {LogsListener}]
    BY <1>6, LogsVarIs DEF addListener
  <2> HIDE DEF v
  <2>2. r.type = var[v].type /\ r.value = var[v].value
    BY <1>4, <2>1 DEF IsVar
  <2>3. var'[LogsVar] = IF LogsVar = v THEN r ELSE var[LogsVar]
    BY <1>4, <2>1, LogsVarIs
  <2> HIDE DEF r
  <2>4. QED
    BY <2>2, <2>3 DEF LogsValue, v
<1>7. LogsValue' = LogsValue
  BY <1>5, <1>6 DEF Static
<1>8. QED
  BY <1>1, <1>3, <1>7, MatchStays DEF logVars

\* Steps of LoadFromYaml.
LEMMA LoadMatch ==
    ASSUME ToldInv, LogsInv, MatchInv, NEW t \in Threads,
           (\E doc \in Docs[t] : LoadFromYaml(t, doc)) \/ fromString(t) \/ LoadEnds(t)
    PROVE  MatchInv'
<1>1. UNCHANGED <<var, logVars>>
  BY DEF LoadFromYaml, fromString, LoadEnds
<1>2. LogsValue' = LogsValue
  BY <1>1 DEF LogsValue
<1>3. DOMAIN load = Threads /\ IsLoad(load[t])
  BY DEF ToldInv, ConfigTyped
<1>4. /\ load[t].at \in {"idle", "load"} /\ load'[t].at \in {"idle", "load", "compare"}
      /\ \A u \in Threads : u # t => load'[u] = load[u]
  <2>1. CASE \E doc \in Docs[t] : LoadFromYaml(t, doc)
    <3>1. PICK doc \in Docs[t] : LoadFromYaml(t, doc)
      BY <2>1
    <3>2. load[t] = Idle /\ load' = [load EXCEPT ![t].nodes = ListAllMember(doc), ![t].at = "load"]
      BY <3>1 DEF LoadFromYaml
    <3>3. Idle.at = "idle"
      BY DEF Idle
    <3>4. QED
      BY <1>3, <3>2, <3>3 DEF IsLoad
  <2>2. CASE fromString(t)
    <3> DEFINE n == Head(load[t].nodes)
               v == IF n.path = <<>> THEN None ELSE LookupBase(n.path)
               cast == FromStr(var[v].type, n.node)
               passed == [load[t] EXCEPT !.nodes = Tail(@)]
               set == [load[t] EXCEPT !.nodes = Tail(@), !.var = v, !.value = cast.value,
                                      !.at = "compare"]
    <3>1. /\ load[t].at = "load"
          /\ load' = [load EXCEPT ![t] = IF v = None \/ ~cast.ok THEN passed ELSE set]
      BY <2>2 DEF fromString
    <3>2. passed.at = "load" /\ set.at = "compare"
      <4> HIDE DEF n, v, cast
      <4>1. QED
        BY <1>3, <3>1 DEF IsLoad
    <3> HIDE DEF n, v, cast, passed, set
    <3>3. QED
      BY <1>3, <3>1, <3>2
  <2>3. CASE LoadEnds(t)
    <3>1. load[t].at = "load" /\ load' = [load EXCEPT ![t] = Idle]
      BY <2>3 DEF LoadEnds
    <3>2. Idle.at = "idle"
      BY DEF Idle
    <3>3. QED
      BY <1>3, <3>1, <3>2
  <2>4. QED
    BY <2>1, <2>2, <2>3
<1>5. \A u \in Threads : (Loading(u)' <=> Loading(u)) /\ (Loading(u) => u # t)
  BY <1>4 DEF Loading
<1>6. QED
  BY <1>1, <1>2, <1>4, <1>5, MatchStays DEF logVars

\* Only one thread at a time sets "logs".
LEMMA OneSets ==
    ASSUME OneLoader, LogsInv, NEW t \in Threads, NEW u \in Threads,
           load[t].var = LogsVar, load[u].var = LogsVar
    PROVE  t = u
  BY DEF OneLoader, LogsInv, LoadShape

\* The steps of setValue.
LEMMA SetMatch ==
    ASSUME OneLoader, ToldInv, LogsInv, MatchInv, NEW t \in Threads, ~crashed,
           Compare(t) \/ Release(t) \/ Assign(t)
             \/ \E cb \in Listeners \union {LogsListener} : CallBack(t, cb)
    PROVE  MatchInv'
<1>1. load[t].at \in {"compare", "notify", "assign"} /\ UNCHANGED <<m_loggers, written, touched, crashed>>
  BY DEF Compare, Release, Assign, CallBack, logVars
<1>2. /\ LoadShape(t) /\ var[LogsVar].type = "logs" /\ IsDefines(var[LogsVar].value) /\ LogsVar \in Vars
      /\ load[t].var = LogsVar => IsDefines(load[t].value)
  <2>1. LoadShape(t)
    BY <1>1, SetKnows
  <2>2. QED
    BY <1>1, <2>1, SetKnows, LogsVarIs DEF LoadShape
<1>3. LogsValue = var[LogsVar].value
  BY <1>2 DEF LogsValue
<1>4. ASSUME Loading(t)' <=> Loading(t), load'[t].value = load[t].value,
             Loading(t) => reload'[t] = reload[t],
             \A u \in Threads : u # t => load'[u] = load[u] /\ reload'[u] = reload[u],
             var'[LogsVar].value = var[LogsVar].value, var'[LogsVar].type = var[LogsVar].type
      PROVE  MatchInv'
  <2>1. LogsValue' = LogsValue
    BY <1>4 DEF LogsValue
  <2>2. \A u \in Threads : /\ Loading(u)' <=> Loading(u)
                           /\ Loading(u) => load'[u].value = load[u].value /\ reload'[u] = reload[u]
    <3> SUFFICES ASSUME NEW u \in Threads
                 PROVE  /\ Loading(u)' <=> Loading(u)
                        /\ Loading(u) => load'[u].value = load[u].value /\ reload'[u] = reload[u]
      OBVIOUS
    <3>1. CASE u = t
      BY <1>4, <3>1
    <3>2. CASE u # t
      BY <1>4, <3>2 DEF Loading
    <3>3. QED
      BY <3>1, <3>2
  <2>3. QED
    BY <1>1, <1>4, <2>1, <2>2, MatchStays
<1>5. CASE Compare(t)
  <2>1. /\ load[t].at = "compare" /\ load'[t].var = load[t].var /\ load'[t].value = load[t].value
        /\ \A u \in Threads : u # t => load'[u] = load[u] /\ reload'[u] = reload[u]
        /\ var'[LogsVar].value = var[LogsVar].value /\ var'[LogsVar].type = var[LogsVar].type
        /\ \/ load'[t].at = "load"
           \/ /\ load'[t].at = "notify"
              /\ load[t].var = LogsVar => reload'[t] = Listener(var[LogsVar].value, load[t].value)
    BY <1>2, <1>5, CompareIs
  <2>2. ~Loading(t)
    BY <2>1 DEF Loading
  <2>3. CASE load'[t].at = "load" \/ load[t].var # LogsVar
    <3>1. ~Loading(t)'
      BY <2>1, <2>3 DEF Loading
    <3>2. QED
      BY <1>4, <2>1, <2>2, <3>1
  <2>4. CASE load'[t].at = "notify" /\ load[t].var = LogsVar
    <3>1. \A u \in Threads : u # t => ~Loading(u) /\ ~Loading(u)'
      BY <2>1, <2>4, OneSets DEF Loading
    <3>2. \A n \in LoggerNames : Settled(m_loggers[n], n, var[LogsVar].value, n \in touched)
      BY <1>3, <2>2, <3>1 DEF MatchInv, InForce
    <3> DEFINE old == var[LogsVar].value
               new == load[t].value
    <3>3. Progress(m_loggers, touched, old, new, Listener(old, new))
      <4>1. IsDefines(old) /\ IsDefines(new) /\ \A n \in LoggerNames : Settled(m_loggers[n], n, old, n \in touched)
        BY <1>2, <2>4, <3>2
      <4> HIDE DEF old, new
      <4>2. QED
        BY <4>1, ProgressStarts
    <3>4. Loading(t)'
      BY <2>1, <2>4 DEF Loading
    <3>5. Progress(m_loggers', touched', var'[LogsVar].value, load'[t].value, reload'[t])
      <4>1. /\ m_loggers' = m_loggers /\ touched' = touched /\ var'[LogsVar].value = old
            /\ load'[t].value = new /\ reload'[t] = Listener(old, new)
        BY <1>1, <2>1, <2>4
      <4>2. QED
        BY <3>3, <4>1
    <3>6. InForce'
      BY <3>1, <3>4, <3>5 DEF InForce
    <3>7. QED
      BY <1>1, <3>6 DEF MatchInv, Written
  <2>5. QED
    BY <2>1, <2>3, <2>4
<1>6. CASE Release(t) \/ \E cb \in Listeners \union {LogsListener} : CallBack(t, cb)
  <2>1. /\ load[t].at = "notify" /\ UNCHANGED reload /\ load'[t].var = load[t].var
        /\ load'[t].value = load[t].value /\ load'[t].at \in {"notify", "assign"}
        /\ \A u \in Threads : u # t => load'[u] = load[u]
        /\ var'[LogsVar].value = var[LogsVar].value /\ var'[LogsVar].type = var[LogsVar].type
    BY <1>2, <1>6, NotifyIs
  <2>2. Loading(t)' <=> Loading(t)
    BY <2>1 DEF Loading
  <2>3. QED
    BY <1>4, <2>1, <2>2
<1>7. CASE Assign(t)
  <2>1. /\ load[t].at = "assign" /\ UNCHANGED reload /\ load'[t].var = load[t].var /\ reload[t] = <<>>
        /\ load'[t].value = load[t].value /\ load'[t].at = "load"
        /\ \A u \in Threads : u # t => load'[u] = load[u]
        /\ var'[LogsVar].type = var[LogsVar].type
        /\ var'[LogsVar].value = IF LogsVar = load[t].var THEN load[t].value ELSE var[LogsVar].value
    BY <1>2, <1>7, AssignIs
  <2>2. ~Loading(t)'
    BY <2>1 DEF Loading
  <2>3. CASE load[t].var # LogsVar
    <3>1. ~Loading(t)
      BY <2>3 DEF Loading
    <3>2. QED
      BY <1>4, <2>1, <2>2, <2>3, <3>1
  <2>4. CASE load[t].var = LogsVar
    <3>1. Loading(t)
      BY <2>1, <2>4 DEF Loading
    <3>2. Progress(m_loggers, touched, var[LogsVar].value, load[t].value, <<>>)
      BY <2>1, <3>1 DEF MatchInv, InForce
    <3>3. \A n \in LoggerNames : Settled(m_loggers[n], n, load[t].value, n \in touched)
      BY <1>2, <2>4, <3>2, ProgressEnds
    <3>4. LogsValue' = load[t].value
      BY <1>2, <2>1, <2>4 DEF LogsValue
    <3>5. \A u \in Threads : ~Loading(u)'
      <4> SUFFICES ASSUME NEW u \in Threads, u # t PROVE ~Loading(u)'
        BY <2>2
      <4>1. load'[u].var # LogsVar
        BY <2>1, <2>4, OneSets
      <4>2. QED
        BY <4>1 DEF Loading
    <3>6. InForce'
      BY <1>1, <3>3, <3>4, <3>5 DEF InForce
    <3>7. QED
      BY <1>1, <3>6 DEF MatchInv, Written
  <2>5. QED
    BY <2>3, <2>4
<1>8. QED
  BY <1>5, <1>6, <1>7

\* The lines that a logger's appenders write.
Lines(lg, level, e) ==
    FlattenSeq([k \in DOMAIN lg.appenders |-> appenderLog(lg.appenders[k], level, e)])

\* They carry the name of the event's logger and go to the files of the appenders.
LEMMA LinesIs ==
    ASSUME NEW lg, IsLogger(lg), NEW level, NEW e
    PROVE  LET w == Lines(lg, level, e)
           IN \A i \in DOMAIN w : /\ w[i].logger = e.logger
                                  /\ \E j \in DOMAIN lg.appenders : w[i].file = lg.appenders[j].file
<1> DEFINE as == lg.appenders
           n == Len(as)
           Line(k) == [file |-> as[k].file, logger |-> e.logger, line |-> format(as[k].formatter, level, e)]
           S == {Line(k) : k \in 1 .. n}
           seqs == [k \in DOMAIN as |-> appenderLog(as[k], level, e)]
           w == FlattenSeq(seqs)
<1>1. n \in Nat /\ DOMAIN as = 1 .. n
  BY ListIs DEF IsLogger
<1>2. \A x \in S : x.logger = e.logger /\ \E j \in DOMAIN as : x.file = as[j].file
  <2> SUFFICES ASSUME NEW k \in 1 .. n
               PROVE  Line(k).logger = e.logger /\ \E j \in DOMAIN as : Line(k).file = as[j].file
    OBVIOUS
  <2>1. Line(k).logger = e.logger /\ Line(k).file = as[k].file
    OBVIOUS
  <2> HIDE DEF as, n, Line
  <2>2. QED
    BY <1>1, <2>1
<1>3. ASSUME NEW k \in 1 .. n PROVE appenderLog(as[k], level, e) \in Seq(S)
  <2>1. Line(k) \in S
    OBVIOUS
  <2>2. appenderLog(as[k], level, e) \in {<<>>, <<Line(k)>>}
    BY DEF appenderLog
  <2> HIDE DEF S, Line
  <2>3. <<>> \in Seq(S) /\ <<Line(k)>> \in Seq(S)
    BY <2>1
  <2>4. QED
    BY <2>2, <2>3
<1> HIDE DEF S
<1>4. seqs \in [1 .. n -> Seq(S)]
  BY <1>1, <1>3
<1> HIDE DEF seqs, n
<1>5. w \in Seq(S)
  BY <1>1, <1>4, FlattenStands
<1> HIDE DEF w
<1>6. \A i \in DOMAIN w : w[i] \in S
  BY <1>5
<1>7. QED
  BY <1>2, <1>6 DEF Lines, w, seqs

\* The event after a test of a logger's level.
LEMMA EntersIs ==
    ASSUME LoggersInv, NEW t \in Threads, event[t] # None, NEW n \in {event[t].logger, "root"},
           Enters(t, n)
    PROVE  \E x : event' = [event EXCEPT ![t] = x] /\ (x # None => IsEvent(x, m_loggers))
<1> DEFINE e == event[t]
           y == [e EXCEPT !.in = n]
           x == IF e.level >= m_loggers[n].level THEN y ELSE None
<1>1. event' = [event EXCEPT ![t] = x]
  BY DEF Enters, LoggersInv
<1>2. IsEvent(e, m_loggers)
  BY DEF LoggersInv
<1>3. n \in {e.logger, "root"}
  OBVIOUS
<1> HIDE DEF e
<1>4. DOMAIN y = DOMAIN e /\ y.logger = e.logger /\ y.in = n
  BY <1>2 DEF IsEvent
<1> HIDE DEF y
<1>5. IsEvent(y, m_loggers)
  BY <1>2, <1>3, <1>4 DEF IsEvent
<1>6. x # None => IsEvent(x, m_loggers)
  BY <1>5
<1> HIDE DEF x
<1>7. QED
  BY <1>1, <1>6

\* What is delivered.
LEMMA DeliverIs ==
    ASSUME LoggersInv, NEW t \in Threads, Deliver(t)
    PROVE  Written'
<1> DEFINE e == event[t]
           n == e.logger
           x == e.in
           lg == m_loggers[x]
           w == Lines(lg, e.level, e)
<1>1. e # None /\ x # None /\ UNCHANGED m_loggers /\ written' = w
  BY DEF Deliver, Lines
<1>2. n \in LoggerNames /\ x \in {n, "root"} /\ IsLogger(lg)
  <2>1. IsEvent(e, m_loggers) /\ IsLogger(m_loggers["root"])
    BY <1>1 DEF LoggersInv
  <2>2. QED
    BY <1>1, <2>1 DEF IsEvent
<1>3. lg # NoLogger
  BY <1>2, LoggerIs
<1>4. \A i \in DOMAIN w : /\ w[i].logger = n
                         /\ \E j \in DOMAIN lg.appenders : w[i].file = lg.appenders[j].file
  <2> DEFINE lv == e.level
  <2>1. w = Lines(lg, lv, e) /\ n = e.logger
    OBVIOUS
  <2> HIDE DEF w, n, e, lv, lg
  <2>2. QED
    BY <1>2, <2>1, LinesIs
<1>5. m_loggers'[x] = lg
  BY <1>1
<1> HIDE DEF w, n, x, lg, e
<1>6. QED
  BY <1>1, <1>2, <1>3, <1>4, <1>5 DEF Written

\* Loggers and what is in force, when the lines written before are forgotten.
LEMMA LoggersMove ==
    ASSUME MatchInv, ~crashed, UNCHANGED <<var, load, reload>>, written' = <<>>,
           NEW tch, touched' = tch,
           \A n \in LoggerNames : \A D : Settled(m_loggers[n], n, D, n \in touched) =>
                                           Settled(m_loggers'[n], n, D, n \in touched'),
           \A n \in LoggerNames : \A old, new, l, start, p :
             Half(m_loggers[n], n, old, new, l, start, p, n \in touched) =>
               Half(m_loggers'[n], n, old, new, l, start, p, n \in touched')
    PROVE  MatchInv'
<1>1. Written' /\ (crashed' => written' = <<>>)
  BY DEF Written
<1>2. LogsValue' = LogsValue
  BY DEF LogsValue
<1>3. ASSUME NEW t \in Threads, Loading(t)'
      PROVE  Progress(m_loggers', touched', var'[LogsVar].value, load'[t].value, reload'[t])
  <2>1. Loading(t)
    BY <1>3 DEF Loading
  <2>2. Progress(m_loggers, touched, var[LogsVar].value, load[t].value, reload[t])
    BY <2>1 DEF MatchInv, InForce
  <2>3. Progress(m_loggers', touched', var[LogsVar].value, load[t].value, reload[t])
    BY <2>2, ProgressKeeps
  <2>4. QED
    BY <2>3
<1>4. ASSUME \A t \in Threads : ~Loading(t)', NEW n \in LoggerNames
      PROVE  Settled(m_loggers'[n], n, LogsValue', n \in touched')
  <2>1. \A t \in Threads : ~Loading(t)
    BY <1>4 DEF Loading
  <2>2. Settled(m_loggers[n], n, LogsValue, n \in touched)
    BY <2>1 DEF MatchInv, InForce
  <2>3. QED
    BY <1>2, <2>2
<1>5. QED
  BY <1>1, <1>3, <1>4 DEF MatchInv, InForce

\* Steps of a thread that logs.
LEMMA ClientKeeps ==
    ASSUME LoggersInv, MatchInv, ~crashed, NEW t \in Threads, UNCHANGED configVars,
           \/ \E n \in LoggerNames, l \in EventLevels : MakeEvent(t, n, l)
           \/ TestLevel(t) \/ Deliver(t)
           \/ \E n \in ByHandNames \ touched, p \in Patterns : LogClient(n, LogFormatter(p))
    PROVE  LoggersInv' /\ MatchInv'
<1>1. UNCHANGED <<var, load>>
  BY DEF configVars
<1>2. ASSUME NEW n \in LoggerNames, NEW l, MakeEvent(t, n, l) PROVE LoggersInv' /\ MatchInv'
  <2> DEFINE Fresh(x) == /\ DOMAIN x = {"logger", "level", "thread", "threadName", "in"}
                         /\ x.logger = n /\ x.in = None
  <2>1. /\ m_loggers' = getLogger(m_loggers, n) /\ written' = <<>> /\ UNCHANGED <<reload, touched, crashed>>
        /\ \E x : event' = [event EXCEPT ![t] = x] /\ (x # None => Fresh(x))
    <3> DEFINE x == IF m_loggers'[n].level <= l
                    THEN [logger |-> n, level |-> l, thread |-> m_id[t], threadName |-> t_thread_name[t],
                          in |-> None]
                    ELSE None
    <3>1. m_loggers' = getLogger(m_loggers, n) /\ written' = <<>> /\ UNCHANGED <<reload, touched, crashed>>
      BY <1>2 DEF MakeEvent
    <3>2. event' = [event EXCEPT ![t] = x]
      BY <1>2 DEF MakeEvent
    <3>3. x # None => Fresh(x)
      OBVIOUS
    <3> HIDE DEF x, Fresh
    <3>4. QED
      BY <3>1, <3>2, <3>3
  <2>2. PICK x : event' = [event EXCEPT ![t] = x] /\ (x # None => Fresh(x))
    BY <2>1
  <2>3. /\ DOMAIN m_loggers' = LoggerNames /\ m_loggers'[n] = Got(n) /\ IsLogger(Got(n))
        /\ \A y \in LoggerNames : y # n => m_loggers'[y] = m_loggers[y]
    BY <2>1, GotIs
  <2>4. \A y \in LoggerNames : IsLogger(m_loggers[y]) => IsLogger(m_loggers'[y])
    BY <2>3
  <2>5. LoggersInv'
    <3>1. "root" \in LoggerNames
      BY LogsAssumption
    <3>2. DOMAIN event' = Threads /\ \A u \in Threads : event'[u] = IF u = t THEN x ELSE event[u]
      BY <2>2 DEF LoggersInv
    <3>3. ASSUME NEW u \in Threads, event'[u] # None PROVE IsEvent(event'[u], m_loggers')
      <4>1. CASE u = t
        BY <2>2, <2>3, <3>2, <3>3, <4>1 DEF IsEvent
      <4>2. CASE u # t
        <5>1. event'[u] = event[u] /\ IsEvent(event[u], m_loggers)
          BY <3>2, <3>3, <4>2 DEF LoggersInv
        <5>2. QED
          BY <2>4, <5>1 DEF IsEvent
      <4>3. QED
        BY <4>1, <4>2
    <3>4. \A y \in LoggerNames : m_loggers'[y] # NoLogger => IsLogger(m_loggers'[y])
      BY <2>3 DEF LoggersInv
    <3>5. IsLogger(m_loggers'["root"])
      BY <2>4, <3>1 DEF LoggersInv
    <3>6. QED
      BY <2>3, <3>2, <3>3, <3>4, <3>5 DEF LoggersInv
  <2>6. \A y \in LoggerNames : m_loggers'[y] = m_loggers[y] \/ (m_loggers[y] = NoLogger /\ m_loggers'[y] = Logger)
    BY <2>3 DEF Got
  <2>7. \A y \in LoggerNames : \A D : Settled(m_loggers[y], y, D, y \in touched) =>
                                        Settled(m_loggers'[y], y, D, y \in touched')
    BY <2>1, <2>6, MakeKeeps
  <2>8. \A y \in LoggerNames : \A old, new, k, start, p :
          Half(m_loggers[y], y, old, new, k, start, p, y \in touched) =>
            Half(m_loggers'[y], y, old, new, k, start, p, y \in touched')
    BY <2>1, <2>6, MakeKeeps
  <2>9. MatchInv'
    BY <1>1, <2>1, <2>7, <2>8, LoggersMove
  <2>10. QED
    BY <2>5, <2>9
<1>3. CASE TestLevel(t) \/ Deliver(t)
  <2>1. event[t] # None /\ UNCHANGED <<m_loggers, reload, touched, crashed>>
    BY <1>3 DEF TestLevel, Deliver
  <2>6. PICK x : event' = [event EXCEPT ![t] = x] /\ (x # None => IsEvent(x, m_loggers))
    <3>1. CASE Enters(t, event[t].logger) \/ Enters(t, "root")
      BY <2>1, <3>1, EntersIs
    <3>2. CASE event' = [event EXCEPT ![t] = None]
      BY <3>2
    <3>3. QED
      BY <1>3, <3>1, <3>2 DEF TestLevel, Deliver
  <2>2. LoggersInv'
    <3>1. DOMAIN event' = Threads /\ \A u \in Threads : event'[u] = IF u = t THEN x ELSE event[u]
      BY <2>6 DEF LoggersInv
    <3>2. QED
      BY <2>1, <2>6, <3>1 DEF LoggersInv
  <2>3. Written'
    <3>1. CASE written' = <<>>
      BY <3>1 DEF Written
    <3>2. QED
      BY <1>3, <3>1, DeliverIs DEF TestLevel
  <2>4. InForce'
    BY <1>1, <2>1 DEF MatchInv, InForce, Loading, LogsValue
  <2>5. QED
    BY <2>1, <2>2, <2>3, <2>4 DEF MatchInv
<1>4. ASSUME NEW n \in ByHandNames, NEW f, LogClient(n, f) PROVE LoggersInv' /\ MatchInv'
  <2>1. n \in LoggerNames
    BY LogsAssumption
  <2> DEFINE lg == m_loggers[n]
             h == m_loggers'[n]
  <2>2. /\ IsLogger(lg) /\ IsLogger(h) /\ DOMAIN m_loggers' = LoggerNames
        /\ \A x \in LoggerNames : x # n => m_loggers'[x] = m_loggers[x]
        /\ \A k \in DOMAIN h.appenders :
             \/ h.appenders[k].file = ""
             \/ \E j \in DOMAIN lg.appenders : h.appenders[k].file = lg.appenders[j].file
        /\ touched' = touched \union {n} /\ written' = <<>> /\ UNCHANGED <<event, reload, crashed>>
    BY <1>4, <2>1, HandIs
  <2>3. LoggersInv'
    <3>1. "root" \in LoggerNames
      BY LogsAssumption
    <3>2. \A y \in LoggerNames : m_loggers'[y] = m_loggers[y] \/ IsLogger(m_loggers'[y])
      BY <2>2
    <3>3. \A u \in Threads : event'[u] # None => IsEvent(event'[u], m_loggers')
      BY <2>2, <3>2 DEF LoggersInv, IsEvent
    <3>4. QED
      BY <2>2, <3>1, <3>2, <3>3 DEF LoggersInv
  <2>4. lg # NoLogger
    BY <2>2, LoggerIs
  <2>5. /\ \A D, tch : Settled(lg, n, D, tch) => Settled(h, n, D, TRUE)
        /\ \A old, new, l, start, p, tch :
             Half(lg, n, old, new, l, start, p, tch) => Half(h, n, old, new, l, start, p, TRUE)
    <3>1. \A k \in DOMAIN h.appenders :
             \/ h.appenders[k].file = ""
             \/ \E j \in DOMAIN lg.appenders : h.appenders[k].file = lg.appenders[j].file
      BY <2>2
    <3> HIDE DEF lg, h
    <3>2. QED
      BY <2>4, <3>1, HandKeeps
  <2>6. ASSUME NEW y \in LoggerNames
        PROVE  /\ \A D : Settled(m_loggers[y], y, D, y \in touched) =>
                           Settled(m_loggers'[y], y, D, y \in touched')
               /\ \A old, new, k, start, p :
                    Half(m_loggers[y], y, old, new, k, start, p, y \in touched) =>
                      Half(m_loggers'[y], y, old, new, k, start, p, y \in touched')
    <3>1. CASE y = n
      <4>1. (y \in touched') = TRUE
        BY <2>2, <3>1
      <4>2. QED
        BY <2>5, <3>1, <4>1
    <3>2. CASE y # n
      <4>1. m_loggers'[y] = m_loggers[y] /\ (y \in touched' <=> y \in touched)
        BY <2>2, <3>2
      <4>2. CASE y \in touched
        <5>1. (y \in touched') = TRUE /\ (y \in touched) = TRUE
          BY <4>1, <4>2
        <5>2. QED
          BY <4>1, <5>1
      <4>3. CASE y \notin touched
        <5>1. (y \in touched') = FALSE /\ (y \in touched) = FALSE
          BY <4>1, <4>3
        <5>2. QED
          BY <4>1, <5>1
      <4>4. QED
        BY <4>2, <4>3
    <3>3. QED
      BY <3>1, <3>2
  <2>7. MatchInv'
    BY <1>1, <2>2, <2>6, LoggersMove
  <2>8. QED
    BY <2>3, <2>7
<1>5. QED
  BY <1>2, <1>3, <1>4

\* A call of the listener.
LEMMA CallKeeps ==
    ASSUME OneLoader, LogsInv, LoggersInv, MatchInv, ~crashed, NEW t \in Threads,
           UNCHANGED configVars, ListenerCall(t)
    PROVE  LoggersInv' /\ MatchInv'
<1> DEFINE c == Head(reload[t])
           old == var[LogsVar].value
           new == load[t].value
<1>1. /\ UNCHANGED <<var, load, event>> /\ reload[t] # <<>> /\ written' = <<>>
      /\ reload' = [reload EXCEPT ![t] = Tail(@)]
      /\ crashed' = (c.call = "null")
      /\ touched' = IF c.call = "level" THEN touched \ {c.name} ELSE touched
  BY DEF configVars, ListenerCall
<1>2. load[t].var = LogsVar /\ load[t].at = "notify"
  BY <1>1 DEF LogsInv, LoadShape
<1>3. IsDefines(old) /\ IsDefines(new) /\ var[LogsVar].type = "logs"
  BY <1>2, LogsVarIs DEF LogsInv, LoadShape, VarShape
<1>4. Progress(m_loggers, touched, old, new, reload[t])
  BY <1>2 DEF MatchInv, InForce, Loading
<1> HIDE DEF old, new
<1>5. c.name \in LoggerNames
  BY <1>1, <1>3, <1>4, NextCall
<1>6. /\ DOMAIN m_loggers' = LoggerNames
      /\ \A x \in LoggerNames : x # c.name => m_loggers'[x] = m_loggers[x]
      /\ c.call = "null" => UNCHANGED m_loggers
      /\ c.call # "null" => IsLogger(m_loggers'[c.name]) /\ Effect(c, Got(c.name), m_loggers'[c.name])
  BY <1>5, CallIs
<1>7. IsLogger(Got(c.name))
  BY <1>5, GotIs
<1> HIDE DEF c
<1>8. LoggersInv'
  <2>1. "root" \in LoggerNames
    BY LogsAssumption
  <2>2. \A y \in LoggerNames : m_loggers'[y] = m_loggers[y] \/ IsLogger(m_loggers'[y])
    BY <1>6
  <2>3. \A u \in Threads : event'[u] # None => IsEvent(event'[u], m_loggers')
    BY <1>1, <2>2 DEF LoggersInv, IsEvent
  <2>4. QED
    BY <1>1, <1>6, <2>1, <2>2, <2>3 DEF LoggersInv
<1>9. Written' /\ (crashed' => written' = <<>>)
  BY <1>1 DEF Written
<1>10. InForce'
  <2> SUFFICES ASSUME c.call # "null" PROVE InForce'
    BY <1>1 DEF InForce
  <2>1. Progress(m_loggers', touched', old, new, Tail(reload[t]))
    <3> DEFINE r == reload[t]
               g == Got(c.name)
               ls2 == m_loggers'
               tch2 == touched'
    <3>1. /\ r # <<>> /\ c = Head(r)
          /\ \A n \in LoggerNames : n # c.name => ls2[n] = m_loggers[n] /\ (n \in tch2 <=> n \in touched)
          /\ c.call # "level" => tch2 = touched
          /\ IsLogger(g) /\ g = IF m_loggers[c.name] = NoLogger THEN Logger ELSE m_loggers[c.name]
          /\ IsLogger(ls2[c.name]) /\ Effect(c, g, ls2[c.name])
      BY <1>1, <1>6, <1>7 DEF Got, c
    <3>2. Progress(m_loggers, touched, old, new, r)
      BY <1>4
    <3> HIDE DEF r, g, ls2, tch2
    <3>3. Progress(ls2, tch2, old, new, Tail(r))
      BY <1>3, <3>1, <3>2, ProgressCall
    <3>4. QED
      BY <3>3 DEF r, ls2, tch2
  <2>2. reload'[t] = Tail(reload[t]) /\ Loading(t)'
    BY <1>1, <1>2 DEF LogsInv, Loading
  <2>3. \A u \in Threads : Loading(u)' => u = t
    BY <1>1, <1>2, OneSets DEF Loading
  <2>4. \A u \in Threads : Loading(u)' =>
          Progress(m_loggers', touched', var'[LogsVar].value, load'[u].value, reload'[u])
    BY <1>1, <2>1, <2>2, <2>3 DEF old, new
  <2>5. QED
    BY <2>2, <2>4 DEF InForce
<1>11. QED
  BY <1>8, <1>9, <1>10 DEF MatchInv

\* A step that leaves the loggers and the events.
LEMMA LoggersStay == LoggersInv /\ UNCHANGED <<m_loggers, event>> => LoggersInv'
  BY DEF LoggersInv

\* Every step.
LEMMA NextMatch ==
    ASSUME OneLoader
    PROVE  ToldInv /\ LogsInv /\ LoggersInv /\ MatchInv /\ [Next]_vars => LoggersInv' /\ MatchInv'
<1> SUFFICES ASSUME ToldInv, LogsInv, LoggersInv, MatchInv, [Next]_vars PROVE LoggersInv' /\ MatchInv'
  OBVIOUS
<1>1. ASSUME UNCHANGED <<logVars, var, load>> PROVE LoggersInv' /\ MatchInv'
  <2>1. /\ UNCHANGED <<m_loggers, event, written, touched, crashed, reload, var, load>>
        /\ LogsValue' = LogsValue /\ \A t \in Threads : Loading(t)' <=> Loading(t)
    BY <1>1 DEF logVars, LogsValue, Loading
  <2>2. QED
    BY <2>1, MatchStays, LoggersStay
<1>2. CASE UNCHANGED vars
  BY <1>1, <1>2 DEF vars, configVars
<1>3. ASSUME Static PROVE LoggersInv' /\ MatchInv'
  <2>1. UNCHANGED <<m_loggers, event>>
    BY <1>3 DEF Static, Lookup, addListener, logVars
  <2>2. QED
    BY <1>3, <2>1, LoggersStay, StaticMatch
<1>4. ASSUME NEW t \in Threads, ThreadStep(t) PROVE LoggersInv' /\ MatchInv'
  BY <1>1, <1>4 DEF ThreadStep, configVars
<1>5. ASSUME ~crashed, NEW t \in Threads, ConfigStep(t) PROVE LoggersInv' /\ MatchInv'
  <2>1. UNCHANGED <<m_loggers, event>>
    BY <1>5 DEF ConfigStep, LoadFromYaml, fromString, LoadEnds, Compare, Release, Assign, CallBack, logVars
  <2>2. MatchInv'
    <3>1. CASE (\E doc \in Docs[t] : LoadFromYaml(t, doc)) \/ fromString(t) \/ LoadEnds(t)
      BY <3>1, LoadMatch
    <3>2. CASE Compare(t) \/ Release(t) \/ Assign(t)
                 \/ \E cb \in Listeners \union {LogsListener} : CallBack(t, cb)
      BY <1>5, <3>2, SetMatch
    <3>3. QED
      BY <1>5, <3>1, <3>2 DEF ConfigStep
  <2>3. QED
    BY <2>1, <2>2, LoggersStay
<1>6. ASSUME ~crashed, NEW t \in Threads, LogStep(t) PROVE LoggersInv' /\ MatchInv'
  <2>1. UNCHANGED configVars
    BY <1>6 DEF LogStep
  <2>2. CASE ListenerCall(t)
    BY <1>6, <2>1, <2>2, CallKeeps
  <2>3. CASE \/ \E n \in LoggerNames, l \in EventLevels : MakeEvent(t, n, l)
             \/ TestLevel(t) \/ Deliver(t)
             \/ \E n \in ByHandNames \ touched, p \in Patterns : LogClient(n, LogFormatter(p))
    BY <1>6, <2>1, <2>3, ClientKeeps
  <2>4. QED
    BY <1>6, <2>2, <2>3 DEF LogStep
<1>7. ASSUME UNCHANGED <<load, logVars>>,
             \A w \in Vars : var'[w].value = var[w].value /\ var'[w].type = var[w].type
      PROVE  LoggersInv' /\ MatchInv'
  <2>2. /\ UNCHANGED <<m_loggers, event, written, touched, crashed, reload, load>>
        /\ var'[LogsVar].value = var[LogsVar].value
        /\ LogsValue' = LogsValue /\ \A t \in Threads : Loading(t)' <=> Loading(t)
    BY <1>7, LogsVarIs DEF logVars, LogsValue, Loading
  <2>3. QED
    BY <2>2, MatchStays, LoggersStay
<1>8. ASSUME NEW v \in Vars, NEW cb \in Listeners, cb \in var[v].cbs, delListener(v, {cb})
      PROVE  LoggersInv' /\ MatchInv'
  BY <1>7, <1>8, DelLogs
<1>9. ASSUME NEW cb \in Listeners, addListener(ListensTo[cb], cb) PROVE LoggersInv' /\ MatchInv'
  BY <1>7, <1>9, AddLogs
<1>10. ASSUME NEW t \in Threads, NEW n, SetNameCrashes(t, n) PROVE LoggersInv' /\ MatchInv'
  <2>1. crashed' /\ written' = <<>> /\ UNCHANGED <<m_loggers, event>>
    BY <1>10 DEF SetNameCrashes
  <2>2. QED
    BY <2>1, LoggersStay DEF MatchInv, InForce, Written
<1>11. QED
  BY <1>2, <1>3, <1>4, <1>5, <1>6, <1>8, <1>9, <1>10 DEF Next

\* It holds at first: "logs" has no definition, and the root logger writes to
\* standard output.
LEMMA InitMatch == Init => LoggersInv /\ MatchInv
<1> SUFFICES ASSUME Init PROVE LoggersInv /\ MatchInv
  OBVIOUS
<1> DEFINE a == NewAppender(2, "")
           root == addAppender(Logger, a)
<1>1. /\ m_loggers = [n \in LoggerNames |-> IF n = "root" THEN root ELSE NoLogger]
      /\ event = [t \in Threads |-> None] /\ written = <<>> /\ touched = {} /\ ~crashed
      /\ var = [v \in Vars |-> NoVar] /\ load = [t \in Threads |-> Idle]
  BY DEF Init, LogInit, ConfigInit
<1>2. IsFresh(a) /\ a.file = ""
  BY NewAppenderIs
<1> HIDE DEF a
<1>3. /\ IsLogger(root) /\ root.level = 1 /\ Len(root.appenders) = 1
      /\ root.appenders[1].file = ""
  <2>1. IsLogger(Logger) /\ Logger.level = 1 /\ Len(Logger.appenders) = 0
    BY LoggerIs
  <2>2. /\ IsLogger(root) /\ root.level = Logger.level /\ Len(root.appenders) = Len(Logger.appenders) + 1
        /\ Alike(root.appenders[Len(Logger.appenders) + 1], a)
    BY <1>2, <2>1, AddAppenderIs
  <2> HIDE DEF root
  <2>3. Len(Logger.appenders) + 1 = 1
    BY <2>1
  <2>4. /\ IsLogger(root) /\ root.level = 1 /\ Len(root.appenders) = 1 /\ Alike(root.appenders[1], a)
    BY <2>1, <2>2, <2>3
  <2>5. QED
    BY <1>2, <2>4 DEF Alike
<1> HIDE DEF root
<1>4. \A k \in DOMAIN root.appenders : root.appenders[k].file = ""
  <2> SUFFICES ASSUME NEW k \in DOMAIN root.appenders PROVE root.appenders[k].file = ""
    OBVIOUS
  <2>1. DOMAIN root.appenders = 1 .. 1
    BY <1>3, ListIs DEF IsLogger
  <2>2. k = 1
    BY <2>1
  <2>3. QED
    BY <1>3, <2>2
<1>5. "root" \in LoggerNames /\ var[LogsVar].type # "logs"
  BY <1>1, LogsAssumption, LogsVarIs
<1>6. LoggersInv
  BY <1>1, <1>3, <1>5 DEF LoggersInv
<1>7. \A t \in Threads : ~Loading(t)
  BY <1>1 DEF Loading, Idle
<1>8. ASSUME NEW n \in LoggerNames PROVE Settled(m_loggers[n], n, LogsValue, n \in touched)
  <2>1. LogsValue = {}
    BY <1>5 DEF LogsValue
  <2>2. m_loggers[n] = root \/ m_loggers[n] = NoLogger
    BY <1>1
  <2>3. Within(root, {}, n) /\ Within(NoLogger, {}, n)
    BY <1>4 DEF Within, Named
  <2>4. QED
    BY <1>3, <2>1, <2>2, <2>3 DEF Settled
<1>9. Written
  BY <1>1 DEF Written
<1>10. QED
  BY <1>1, <1>6, <1>7, <1>8, <1>9 DEF MatchInv, InForce

\* A logger that has a definition's level, formatter and appenders writes it as
\* YAML that reads back so.
LEMMA DefineReadsBack ==
    ASSUME NEW d, IsDefine(d), NEW lg, IsLogger(lg), HasLevel(lg, d), HasFormat(lg, d),
           HasFirst(lg, d, Len(d.appenders)), NEW n, d.name = n
    PROVE  LET back == LogDefine(toYamlString(n, lg))
           IN /\ back.level = d.level /\ (InUse(d.formatter) # <<>> => back.formatter = d.formatter)
              /\ Len(back.appenders) = Len(d.appenders)
              /\ \A k \in DOMAIN d.appenders :
                    /\ sameAppender(back.appenders[k], d.appenders[k])
                    /\ back.appenders[k].formatter = InUse(d.appenders[k].formatter)
<1> DEFINE node == toYamlString(n, lg)
           as == AppenderDefines(node)
           back == LogDefine(node)
           q == Len(d.appenders)
           One(k) == node.appenders[k]
<1>1. /\ q \in Nat /\ Len(lg.appenders) = q /\ lg.level = d.level /\ d.level \in 0 .. 5
      /\ \A k \in 1 .. q : MadeFor(lg.appenders[k], d.appenders[k])
      /\ DOMAIN d.appenders = 1 .. q /\ DOMAIN lg.appenders = 1 .. q
      /\ \A k \in 1 .. q : IsAppenderDefine(d.appenders[k])
  <2>1. IsList(d.appenders) /\ IsList(lg.appenders)
    BY DEF IsDefine, IsLogger
  <2>2. QED
    BY <2>1, ListIs DEF HasLevel, HasFirst, IsDefine
<1>2. /\ node.name = n /\ node.formatter = lg.formatter.pattern /\ node.level = LogLevelToString(lg.level)
      /\ DOMAIN node.appenders = 1 .. q
      /\ \A k \in 1 .. q :
           /\ One(k).type = (IF lg.appenders[k].type = 1 THEN "FileLogAppender" ELSE "StdoutLogAppender")
           /\ One(k).file = (IF lg.appenders[k].type = 1 THEN lg.appenders[k].file ELSE Undef)
           /\ One(k).formatter = (IF lg.appenders[k].hasFormatter THEN lg.appenders[k].formatter.pattern
                                                                  ELSE <<>>)
  BY <1>1 DEF toYamlString
<1>3. IsList(node.appenders) /\ Len(node.appenders) = q
  <2>1. node.appenders = [k \in 1 .. q |-> One(k)]
    BY <1>1 DEF toYamlString
  <2> HIDE DEF node
  <2>2. QED
    <3> DEFINE S == {One(k) : k \in 1 .. q}
               f == [k \in 1 .. q |-> One(k)]
    <3>1. f \in [1 .. q -> S]
      OBVIOUS
    <3> HIDE DEF S, f
    <3>2. f \in Seq(S) /\ Len(f) = q
      BY <1>1, <3>1
    <3>3. node.appenders = f
      BY <2>1 DEF f
    <3>4. QED
      BY <3>2, <3>3, SeqIsList
<1> HIDE DEF node
<1>4. ASSUME NEW k \in 1 .. q
      PROVE  /\ Usable(One(k))
             /\ LET x == AppenderDefine(One(k))
                IN /\ x.type = d.appenders[k].type /\ x.level = 0 /\ x.file = d.appenders[k].file
                   /\ x.formatter = InUse(d.appenders[k].formatter)
  <2> DEFINE r == d.appenders[k]
             o == One(k)
             l == lg.appenders[k]
  <2>1. /\ IsAppenderDefine(r) /\ l.type = r.type /\ l.file = r.file
        /\ o.type = (IF l.type = 1 THEN "FileLogAppender" ELSE "StdoutLogAppender")
        /\ o.file = (IF l.type = 1 THEN l.file ELSE Undef)
        /\ o.formatter = (IF l.hasFormatter THEN l.formatter.pattern ELSE <<>>)
        /\ (l.hasFormatter <=> InUse(r.formatter) # <<>>)
        /\ l.hasFormatter => l.formatter.pattern = r.formatter
    BY <1>1, <1>2 DEF Alike, MadeFor
  <2> HIDE DEF r, o, l
  <2>2. Usable(o)
    <3>1. \/ r.type = 1 /\ r.file # Undef
          \/ r.type = 2
      BY <2>1 DEF IsAppenderDefine
    <3>2. CASE r.type = 1 /\ r.file # Undef
      <4>1. o.type = "FileLogAppender" /\ o.file = r.file
        BY <2>1, <3>2
      <4>2. QED
        BY <3>2, <4>1 DEF Usable
    <3>3. CASE r.type = 2
      <4>1. l.type # 1
        BY <2>1, <3>3
      <4>2. o.type = "StdoutLogAppender"
        BY <2>1, <4>1
      <4>3. QED
        BY <4>2 DEF Usable
    <3>4. QED
      BY <3>1, <3>2, <3>3
  <2>3. LET x == AppenderDefine(o) IN x.type = r.type /\ x.level = 0 /\ x.file = r.file
    BY <2>1 DEF AppenderDefine, IsAppenderDefine
  <2>5. o.formatter = InUse(r.formatter)
    <3>1. CASE l.hasFormatter
      BY <2>1, <3>1 DEF InUse
    <3>2. CASE ~l.hasFormatter
      BY <2>1, <3>2
    <3>3. QED
      BY <3>1, <3>2
  <2>6. AppenderDefine(o).formatter = o.formatter
    BY DEF AppenderDefine
  <2>4. QED
    BY <2>2, <2>3, <2>5, <2>6 DEF o, r
<1>5. /\ IsList(as) /\ Len(as) = q /\ \A k \in 1 .. q : as[k] = AppenderDefine(One(k))
  BY <1>2, <1>3, <1>4, AppenderDefinesIs
<1>6. back.level = d.level /\ back.appenders = as /\ back.formatter = lg.formatter.pattern
  BY <1>1, <1>2, LevelReadsBack DEF LogDefine
<1> HIDE DEF as, back
<1>7. \A k \in 1 .. q : /\ sameAppender(as[k], d.appenders[k])
                       /\ as[k].formatter = InUse(d.appenders[k].formatter)
  BY <1>1, <1>4, <1>5 DEF sameAppender, IsAppenderDefine
<1>8. InUse(d.formatter) # <<>> => lg.formatter.pattern = d.formatter
  BY DEF HasFormat
<1>9. QED
  BY <1>1, <1>5, <1>6, <1>7, <1>8 DEF node, back, q

\* The loggers are as the value in force says.
LEMMA MatchMatches ==
    ASSUME LogsInv, LoggersInv, MatchInv
    PROVE  LoggersMatchConfig
<1> SUFFICES ASSUME NEW v \in Vars, var[v].type = "logs", ~crashed,
                    \A t \in Threads : load[t].at \notin {"notify", "assign"},
                    NEW n \in LoggerNames, n \notin touched
             PROVE  LET lg == m_loggers[n]
                        ds == {d \in var[v].value : d.name = n}
                    IN /\ \A d \in ds :
                            LET back == LogDefine(toYamlString(n, lg))
                            IN /\ back.level = d.level
                               /\ InUse(d.formatter) # <<>> => back.formatter = d.formatter
                               /\ Len(back.appenders) = Len(d.appenders)
                               /\ \A k \in DOMAIN d.appenders :
                                     /\ sameAppender(back.appenders[k], d.appenders[k])
                                     /\ back.appenders[k].formatter = InUse(d.appenders[k].formatter)
                       /\ ds = {} /\ lg # NoLogger =>
                            lg.level = 1 \/ (lg.level = Deleted /\ lg.appenders = <<>>)
  BY DEF LoggersMatchConfig
<1> DEFINE lg == m_loggers[n]
           D == var[v].value
           ds == {d \in D : d.name = n}
<1>1. v = LogsVar /\ IsDefines(D) /\ LogsValue = D
  BY LogsVarIs DEF LogsInv, VarShape, LogsValue
<1>2. \A t \in Threads : ~Loading(t)
  BY DEF Loading
<1>3. Settled(lg, n, D, n \in touched)
  BY <1>1, <1>2 DEF MatchInv, InForce
<1>4. lg # NoLogger => IsLogger(lg)
  BY DEF LoggersInv
<1> HIDE DEF lg, D
<1>5. ASSUME NEW d \in ds
      PROVE  LET back == LogDefine(toYamlString(n, lg))
             IN /\ back.level = d.level
                /\ InUse(d.formatter) # <<>> => back.formatter = d.formatter
                /\ Len(back.appenders) = Len(d.appenders)
                /\ \A k \in DOMAIN d.appenders :
                      /\ sameAppender(back.appenders[k], d.appenders[k])
                      /\ back.appenders[k].formatter = InUse(d.appenders[k].formatter)
  <2>1. d \in D /\ d.name = n
    OBVIOUS
  <2>2. IsDefine(d) /\ HasLevel(lg, d) /\ HasFormat(lg, d) /\ HasFirst(lg, d, Len(d.appenders))
    BY <1>1, <1>3, <2>1 DEF IsDefines, Settled
  <2>3. IsLogger(lg)
    BY <1>4, <2>2 DEF HasLevel
  <2>4. QED
    BY <2>1, <2>2, <2>3, DefineReadsBack
<1>6. ds = {} /\ lg # NoLogger => lg.level = 1 \/ (lg.level = Deleted /\ lg.appenders = <<>>)
  BY <1>3 DEF Settled, HasNone
<1>7. QED
  BY <1>5, <1>6 DEF lg, D

\* Lines stay within the files of the value in force and of the one being loaded.
LEMMA MatchNoStray ==
    ASSUME LogsInv, LoggersInv, MatchInv
    PROVE  NoStrayLine
<1>1. AttachedHasFormatter
  <2> SUFFICES ASSUME NEW n \in LoggerNames, m_loggers[n] # NoLogger, NEW k \in DOMAIN m_loggers[n].appenders
               PROVE  LET a == m_loggers[n].appenders[k]
                      IN /\ a.formatter # NoFormatter /\ ~a.formatter.error
                         /\ ~a.hasFormatter => a.formatter = m_loggers[n].formatter
    BY DEF AttachedHasFormatter
  <2>1. IsLogger(m_loggers[n])
    BY DEF LoggersInv
  <2>2. IsAppender(m_loggers[n].appenders[k], m_loggers[n].formatter)
    BY <2>1 DEF IsLogger
  <2>3. NoFormatter.error
    BY DEF NoFormatter
  <2>4. QED
    BY <2>2, <2>3 DEF IsAppender
<1>2. ASSUME NEW v \in Vars, NEW k \in DOMAIN written, var[v].type = "logs"
      PROVE  LET pending == UNION {load[t].value : t \in {u \in Threads : load[u].var = v}}
             IN written[k].file \in FilesOf(var[v].value \union pending, written[k].logger) \union {""}
  <2> DEFINE pending == UNION {load[t].value : t \in {u \in Threads : load[u].var = v}}
             D == var[v].value
             x == written[k].file
             m == written[k].logger
  <2>1. v = LogsVar /\ IsDefines(D) /\ LogsValue = D
    BY <1>2, LogsVarIs DEF LogsInv, VarShape, LogsValue
  <2>2. ~crashed
    BY <1>2 DEF MatchInv
  <2>3. PICK n \in {m, "root"} :
          /\ m_loggers[n] # NoLogger
          /\ \E j \in DOMAIN m_loggers[n].appenders : x = m_loggers[n].appenders[j].file
    BY <1>2 DEF MatchInv, Written
  <2>4. n \in LoggerNames
    BY <1>2, LogsAssumption DEF MatchInv, Written
  <2> HIDE DEF D, x, m
  <2>5. Within(m_loggers[n], D \union pending, n)
    <3>1. CASE \E t \in Threads : Loading(t)
      <4>1. PICK t \in Threads : Loading(t)
        BY <3>1
      <4>2. Progress(m_loggers, touched, D, load[t].value, reload[t])
        BY <2>1, <2>2, <4>1 DEF MatchInv, InForce, D
      <4>3. load[t].var = v /\ IsDefines(load[t].value)
        BY <2>1, <4>1 DEF Loading, LogsInv, LoadShape
      <4>4. Within(m_loggers[n], D \union load[t].value, n)
        BY <2>1, <2>4, <4>2, <4>3, ProgressWithin
      <4>5. load[t].value \subseteq pending
        BY <4>3
      <4> HIDE DEF pending
      <4>6. QED
        BY <4>4, <4>5, WithinMore
    <3>2. CASE \A t \in Threads : ~Loading(t)
      <4>1. Settled(m_loggers[n], n, D, n \in touched)
        BY <2>1, <2>2, <2>4, <3>2 DEF MatchInv, InForce
      <4> HIDE DEF pending
      <4>2. QED
        BY <4>1, WithinMore DEF Settled
    <3>3. QED
      BY <3>1, <3>2
  <2> HIDE DEF pending
  <2>6. Named(D \union pending, n, x)
    BY <2>3, <2>5 DEF Within
  <2>7. x \in FilesOf(D \union pending, m) \union {""}
    <3>1. CASE x = ""
      BY <3>1
    <3>2. CASE \E d \in D \union pending : d.name = n /\ \E j \in DOMAIN d.appenders : d.appenders[j].file = x
      <4>1. PICK d \in D \union pending : d.name = n /\ \E j \in DOMAIN d.appenders : d.appenders[j].file = x
        BY <3>2
      <4>2. x \in {d.appenders[j].file : j \in DOMAIN d.appenders}
        BY <4>1
      <4>3. d \in {e \in D \union pending : e.name \in {m, "root"}}
        BY <2>3, <4>1
      <4>4. QED
        BY <4>2, <4>3, ZenonT(60) DEF FilesOf
    <3>3. QED
      BY <2>6, <3>1, <3>2 DEF Named
  <2>8. QED
    BY <2>7 DEF D, x, m, pending
<1>3. QED
  BY <1>1, <1>2 DEF NoStrayLine

\* While at most one thread loads log definitions, whatever the documents, the
\* loggers and the threads that log meanwhile: whenever no setValue of "logs" is
\* under way the loggers are what its value says (log.cc:799-866).
THEOREM LoggersMatchConfigAlways ==
    ASSUME OneLoader PROVE Spec => []LoggersMatchConfig
<1>1. Init => ToldInv /\ ReadLocked /\ LogsInv /\ LoggersInv /\ MatchInv
  BY InitTold, InitLogs, InitMatch
<1>2. ToldInv /\ ReadLocked /\ LogsInv /\ LoggersInv /\ MatchInv /\ [Next]_vars
        => ToldInv' /\ ReadLocked' /\ LogsInv' /\ LoggersInv' /\ MatchInv'
  BY NextTold, NextLocked, NextLogs, NextMatch
<1>3. LogsInv /\ LoggersInv /\ MatchInv => LoggersMatchConfig
  BY MatchMatches
<1>4. QED
  BY <1>1, <1>2, <1>3, PTL DEF Spec

\* Under the same hypothesis, in every state and so between any two calls of the
\* listener: a line is written only to standard output or to a file that the
\* value in force or the one being loaded names for it, through an appender that
\* has a formatter (log.cc:96-116, 799-866).
THEOREM NoStrayLineAlways ==
    ASSUME OneLoader PROVE Spec => []NoStrayLine
<1>1. Init => ToldInv /\ ReadLocked /\ LogsInv /\ LoggersInv /\ MatchInv
  BY InitTold, InitLogs, InitMatch
<1>2. ToldInv /\ ReadLocked /\ LogsInv /\ LoggersInv /\ MatchInv /\ [Next]_vars
        => ToldInv' /\ ReadLocked' /\ LogsInv' /\ LoggersInv' /\ MatchInv'
  BY NextTold, NextLocked, NextLogs, NextMatch
<1>3. LogsInv /\ LoggersInv /\ MatchInv => NoStrayLine
  BY MatchNoStray
<1>4. QED
  BY <1>1, <1>2, <1>3, PTL DEF Spec
=============================================================================
