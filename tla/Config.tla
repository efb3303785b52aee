------------------------------- MODULE Config -------------------------------
(***************************************************************************)
(* Config variables (src/code/config.{hpp,cc}): the table of variables,    *)
(* their values, listeners and locks, the conversions between a value and  *)
(* its YAML text, and loading a YAML document.                             *)
(*                                                                         *)
(* YAML itself is external: the text of a value is its YAML node, and a    *)
(* document is the preorder list of its nodes, each with its path of keys. *)
(* setValue runs the listeners under the read lock and assigns under a     *)
(* write lock taken afterwards; each is a step of its own.  The listener   *)
(* of "logs" is the one of module Log; any other listener is one step.     *)
(***************************************************************************)
EXTENDS Log, Functions

CONSTANTS Vars,         \* ConfigVar objects
          Keys,         \* the names that are looked up: sequences of words
          ValidWords,   \* words of the letters find_first_not_of accepts
          LogsListener, \* the listener LogIniter registers
          Listeners,    \* the others
          Declared,     \* the Lookup of each variable: key, type, default
          ListensTo,    \* the variable each listener registers with
          Docs,         \* the documents each thread may load
          Clients,      \* threads that log and change loggers by hand
          ByHandNames,  \* loggers changed by hand
          Patterns,     \* ... with these formatters
          EventLevels,  \* levels of the events that are logged
          MaxLoads      \* bound: documents loaded by each thread

ASSUME ConfigAssumption ==
    /\ None \notin Vars /\ MainThread \in Threads /\ LogsListener \notin Listeners
    /\ \A cb \in Listeners \union {LogsListener} : ListensTo[cb] \in Vars
    /\ \A t \in Threads : MaxLoads[t] \in Nat

\* "logs" is the one variable of log definitions and has none at first
\* (log.cc:792); its listener registers with it.
LogsVar == ListensTo[LogsListener]
ASSUME LogsAssumption ==
    /\ Declared[LogsVar].type = "logs" /\ Declared[LogsVar].default = {}
    /\ \A v \in Vars \ {LogsVar} : Declared[v].type # "logs"
    /\ "root" \in LoggerNames /\ ByHandNames \subseteq LoggerNames

\* Documents are lists of nodes.  A list under the key of "logs" is one of
\* loggers, each with a list of appenders; LoggerNames has all their names.
IsList(s) == s \in Seq(ToSet(s))
ASSUME DocsAssumption ==
    \A t \in Threads : \A doc \in Docs[t] :
        /\ IsList(doc)
        /\ \A k \in DOMAIN doc :
              doc[k].path = Declared[LogsVar].key /\ doc[k].node.kind = "Sequence" =>
                  /\ IsList(doc[k].node.seq)
                  /\ \A j \in DOMAIN doc[k].node.seq :
                        /\ IsList(doc[k].node.seq[j].appenders)
                        /\ doc[k].node.seq[j].name \in LoggerNames \union {Undef}

VARIABLES datas,        \* Config::GetDatas(): the variable of a name
          var,          \* each ConfigVar: type, value, listeners, lock
          load,         \* each thread: nodes left of LoadFromYaml, and setValue
          loads,
          told          \* the new values a listener was called with

configVars == <<datas, var, load, loads, told>>
vars == <<threadVars, logVars, configVars>>

(***************************************************************************)
(* LexicalCast: a value to and from a YAML node.                           *)
(***************************************************************************)
Scalar(s) == [kind |-> "Scalar", scalar |-> s]
Sequence(q) == [kind |-> "Sequence", seq |-> q]
Map(m) == [kind |-> "Map", pairs |-> m]     \* a sequence of <<key, node>>
Throws == [ok |-> FALSE, value |-> <<>>]
Cast(v) == [ok |-> TRUE, value |-> v]

SequenceTypes == {"vector", "list"}
SetTypes == {"set", "unordered_set"}
MapTypes == {"map", "unordered_map"}

\* boost::lexical_cast of one element.
CastScalar(node) ==
    IF node.kind = "Scalar" /\ node.scalar # "text" THEN Cast(node.scalar) ELSE Throws


\* node[i] for i < node.size(): a scalar has size 0; what a map holds is not
\* found by number and does not convert.
Elements(node) ==
    CASE node.kind = "Sequence" -> [i \in DOMAIN node.seq |-> CastScalar(node.seq[i])]
      [] node.kind = "Scalar" -> <<>>
      [] node.kind = "Map" -> [i \in DOMAIN node.pairs |-> Throws]
\* insert() keeps the first of several pairs with one key.
MapFrom(pairs) ==
    [k \in {pairs[i][1] : i \in DOMAIN pairs} |->
        CastScalar(SelectSeq(pairs, LAMBDA p : p[1] = k)[1][2]).value]

FromStr(type, node) ==
    CASE type = "scalar" -> CastScalar(node)
      [] type \in SequenceTypes \union SetTypes ->
           LET es == Elements(node)
               vs == [i \in DOMAIN es |-> es[i].value]
           IN IF \E i \in DOMAIN es : ~es[i].ok THEN Throws
              ELSE Cast(IF type \in SequenceTypes THEN vs ELSE ToSet(vs))
      [] type \in MapTypes ->
           IF \/ node.kind = "Sequence" /\ node.seq # <<>>    \* i->first has no Scalar()
              \/ node.kind = "Map" /\ \E i \in DOMAIN node.pairs :
                                          ~CastScalar(node.pairs[i][2]).ok
           THEN Throws
           ELSE Cast(IF node.kind = "Map" THEN MapFrom(node.pairs) ELSE <<>>)
      [] type = "logs" ->
           LET nodes == IF node.kind = "Sequence" THEN node.seq ELSE <<>>
           IN IF LogDefinesReadable(nodes) /\ (node.kind = "Map" => node.pairs = <<>>)
              THEN Cast(LogDefines(nodes)) ELSE Throws

\* The order in which a set or a map is iterated does not matter to FromStr.
ToStr(type, value) ==
    CASE type = "scalar" -> Scalar(value)
      [] type \in SequenceTypes -> Sequence([i \in DOMAIN value |-> Scalar(value[i])])
      [] type \in SetTypes ->
           LET vs == SetToSeq(value) IN Sequence([i \in DOMAIN vs |-> Scalar(vs[i])])
      [] type \in MapTypes ->
           LET ks == SetToSeq(DOMAIN value)
           IN Map([i \in DOMAIN ks |-> <<ks[i], Scalar(value[ks[i]])>>])
      [] type = "logs" ->
           LET ds == SetToSeq(value) IN Sequence([i \in DOMAIN ds |-> LogDefineNode(ds[i])])

\* operator== of the value's type.
SameValue(type, v, w) == IF type = "logs" THEN sameDefines(v, w) ELSE v = w

(***************************************************************************)
(* Variables and listeners.                                                *)
(***************************************************************************)
NoVar == [type |-> "none", value |-> None, cbs |-> {}, mutex |-> Unlocked]
Idle == [nodes |-> <<>>, var |-> None, value |-> None, left |-> {}, at |-> "idle"]
ValidKey(path) == \A k \in DOMAIN path : path[k] \in ValidWords

ConfigInit ==
    /\ datas = [k \in Keys |-> None]
    /\ var = [v \in Vars |-> NoVar]
    /\ load = [t \in Threads |-> Idle]
    /\ loads = [t \in Threads |-> 0]
    /\ told = [cb \in Listeners |-> {}]

\* Lookup is called by static initialisers, before any thread, and so is
\* addListener for "logs".
Starting == \A t \in Threads : object[t] = "none" /\ loads[t] = 0

\* Lookup(name, default): an existing variable of the type is returned (no
\* change); one of another type is replaced, whoever holds it.
Lookup(v, key, type, default) ==
    /\ Starting /\ var[v] = NoVar
    /\ ~(datas[key] # None /\ var[datas[key]].type = type)
    /\ ValidKey(key)
    /\ datas' = [datas EXCEPT ![key] = v]
    /\ var' = [var EXCEPT ![v] = [NoVar EXCEPT !.type = type, !.value = default]]
    /\ UNCHANGED <<load, loads, told, logVars, threadVars>>

\* The values of the setValue calls that have called the listeners of v and
\* wait for the write lock.
UnderWay(v) == {load[t].value : t \in {u \in Threads : load[u].at = "assign" /\ load[u].var = v}}

\* At any time.  The value a listener finds when it registers counts as told,
\* and so does one under way, which is assigned without a call of the listener.
addListener(v, cb) ==
    /\ var[v] # NoVar /\ MayLock(var[v].mutex)
    /\ \A w \in Vars : cb \notin var[w].cbs
    /\ var' = [var EXCEPT ![v].cbs = @ \union {cb}]
    /\ told' = IF cb \in Listeners
               THEN [told EXCEPT ![cb] = {var[v].value} \union UnderWay(v)] ELSE told
    /\ UNCHANGED <<datas, load, loads, logVars, threadVars>>

\* delListener, and clearListener when cbs is all of them.
delListener(v, cbs) ==
    /\ cbs # {} /\ MayLock(var[v].mutex)
    /\ var' = [var EXCEPT ![v].cbs = @ \ cbs]
    /\ UNCHANGED <<datas, load, loads, told, logVars, threadVars>>

(***************************************************************************)
(* LoadFromYaml and setValue by a running thread.                          *)
(***************************************************************************)
LookupBase(key) == IF key \in Keys THEN datas[key] ELSE None

\* A node is listed when its path and every path above it is valid as written;
\* the tolower that follows finds nothing to change in such a path.
ListAllMember(doc) ==
    LET listed[k \in 0..Len(doc)] ==
            IF k = 0 THEN <<>>
            ELSE IF ValidKey(doc[k].path) THEN Append(listed[k - 1], doc[k]) ELSE listed[k - 1]
    IN listed[Len(doc)]

LoadFromYaml(t, doc) ==
    /\ run[t] = "running" /\ load[t] = Idle /\ loads[t] < MaxLoads[t]
    /\ loads' = [loads EXCEPT ![t] = @ + 1]
    /\ load' = [load EXCEPT ![t].nodes = ListAllMember(doc), ![t].at = "load"]
    /\ UNCHANGED <<datas, var, told, logVars, threadVars>>

\* The next node: the root and unknown names are passed over, a text that does
\* not convert is reported and passed over, and setValue starts otherwise.
fromString(t) ==
    /\ load[t].at = "load" /\ load[t].nodes # <<>>
    /\ LET n == Head(load[t].nodes)
           v == IF n.path = <<>> THEN None ELSE LookupBase(n.path)
           cast == FromStr(var[v].type, n.node)
       IN load' = [load EXCEPT ![t] =
             IF v = None \/ ~cast.ok THEN [load[t] EXCEPT !.nodes = Tail(@)]
             ELSE [load[t] EXCEPT !.nodes = Tail(@), !.var = v, !.value = cast.value,
                                  !.at = "compare"]]
    /\ UNCHANGED <<datas, var, loads, told, logVars, threadVars>>

LoadEnds(t) ==
    /\ load[t].at = "load" /\ load[t].nodes = <<>>
    /\ load' = [load EXCEPT ![t] = Idle]
    /\ UNCHANGED <<datas, var, loads, told, logVars, threadVars>>

\* setValue takes the read lock and compares.
Compare(t) ==
    LET v == load[t].var IN
    /\ load[t].at = "compare" /\ MayRdlock(var[v].mutex)
    /\ IF SameValue(var[v].type, load[t].value, var[v].value)
       THEN /\ load' = [load EXCEPT ![t].at = "load"]
            /\ UNCHANGED <<var, reload>>
       ELSE /\ load' = [load EXCEPT ![t].at = "notify", ![t].left = var[v].cbs]
            /\ var' = [var EXCEPT ![v].mutex = rdlock(@, t)]
            /\ reload' = IF LogsListener \in var[v].cbs
                         THEN [reload EXCEPT ![t] = Listener(var[v].value, load[t].value)]
                         ELSE reload
    /\ UNCHANGED <<datas, loads, told, m_loggers, event, written, touched, crashed, threadVars>>

\* The callbacks, in the order of an unordered_map, with the read lock held.
CallBack(t, cb) ==
    /\ load[t].at = "notify" /\ cb \in load[t].left
    /\ cb = LogsListener => reload[t] = <<>>
    /\ load' = [load EXCEPT ![t].left = @ \ {cb}]
    /\ told' = IF cb \in Listeners THEN [told EXCEPT ![cb] = @ \union {load[t].value}] ELSE told
    /\ UNCHANGED <<datas, var, loads, logVars, threadVars>>

ReleaseEarly(t) ==
    /\ load[t].at = "notify"
    /\ load' = [load EXCEPT ![t].at = "assign"]
    /\ var' = [var EXCEPT ![load[t].var].mutex = unlock(@, t)]
    /\ UNCHANGED <<datas, loads, told, logVars, threadVars>>
Release(t) ==
    /\ load[t].at = "notify" /\ load[t].left = {}
    /\ load' = [load EXCEPT ![t].at = "assign"]
    /\ var' = [var EXCEPT ![load[t].var].mutex = unlock(@, t)]
    /\ UNCHANGED <<datas, loads, told, logVars, threadVars>>


\* The second critical section of setValue, under the write lock.
Assign(t) ==
    /\ load[t].at = "assign" /\ MayLock(var[load[t].var].mutex)
    /\ var' = [var EXCEPT ![load[t].var].value = load[t].value]
    /\ load' = [load EXCEPT ![t].at = "load"]
    /\ UNCHANGED <<datas, loads, told, logVars, threadVars>>

(***************************************************************************)
(* The whole: static initialisation, then threads that load documents and  *)
(* log.  After a null dereference nothing runs.                            *)
(***************************************************************************)
Init == ThreadInit /\ LogInit /\ ConfigInit

Main == /\ \A v \in Vars : var[v] # NoVar
        /\ LogsListener \in var[ListensTo[LogsListener]].cbs
        /\ \A cb \in Listeners : told[cb] # {}

Static ==
    \/ \E v \in Vars : Lookup(v, Declared[v].key, Declared[v].type, Declared[v].default)
    \/ Starting /\ addListener(LogsVar, LogsListener)

\* SetName through a pointer to a destroyed object ends the process.
SetNameCrashes(t, name) ==
    /\ Main /\ object[t] = "gone" /\ SetName(t, name)
    /\ crashed' = TRUE /\ written' = <<>>
    /\ UNCHANGED <<m_loggers, event, reload, touched, configVars>>

ThreadStep(t) ==
    /\ Main
    /\ \/ ThreadStart(t)
       \/ \E n \in Renames[t] : t_thread_name[t] # n /\ loads[t] = MaxLoads[t]
                                /\ load[t] = Idle /\ SetName(t, n)
       \/ load[t] = Idle /\ event[t] = None /\ ThreadEnd(t)
    /\ UNCHANGED <<logVars, configVars>>

ConfigStep(t) ==
    \/ Main /\ \E doc \in Docs[t] : LoadFromYaml(t, doc)
    \/ fromString(t) \/ LoadEnds(t)
    \/ Compare(t) \/ Release(t) \/ Assign(t)
    \/ \E cb \in Listeners \union {LogsListener} : CallBack(t, cb)

LogStep(t) ==
    /\ \/ ListenerCall(t)
       \/ /\ t \in Clients /\ run[t] = "running" /\ load[t] = Idle
          /\ \/ \E n \in LoggerNames, l \in EventLevels : MakeEvent(t, n, l)
             \/ TestLevel(t) \/ Deliver(t)
             \/ \E n \in ByHandNames \ touched, p \in Patterns : LogClient(n, LogFormatter(p))
    /\ UNCHANGED <<threadVars, configVars>>

Next ==
    /\ ~crashed
    /\ \/ Static
       \/ \E t \in Threads : ThreadStep(t) \/ ConfigStep(t) \/ LogStep(t)
       \/ \E t \in Threads : \E n \in Renames[t] : SetNameCrashes(t, n)
       \/ \E cb \in Listeners : addListener(ListensTo[cb], cb)
       \/ Main /\ \E v \in Vars, cb \in Listeners :
                     cb \in var[v].cbs /\ delListener(v, {cb})

Spec == Init /\ [][Next]_vars

(***************************************************************************)
(* Properties.                                                             *)
(***************************************************************************)

\* The values that are converted.
SmallValues(type) ==
    CASE type = "scalar" -> {"1", "2"}
      [] type \in SequenceTypes -> UNION {[1..n -> {"1", "2"}] : n \in 0..2}
      [] type \in SetTypes -> SUBSET {"1", "2", "3"}
      [] type \in MapTypes -> UNION {[ks -> {"1", "2"}] : ks \in SUBSET {"a", "b"}}

CastsInvert ==
    /\ \A type \in {"scalar"} \union SequenceTypes \union SetTypes \union MapTypes :
          \A v \in SmallValues(type) : FromStr(type, ToStr(type, v)) = Cast(v)
    /\ \A type \in SequenceTypes \union SetTypes :
          FromStr(type, Sequence(<<Scalar("1"), Scalar("text")>>)) = Throws

\* ConvertersReadBack: log patterns are read as what they were put together
\* from, as FormatterReadsBack says.  For every container type toString() followed by fromString()
\* gives the value back, a text with an element that does not convert is
\* refused, and what a variable holds, log definitions included, survives
\* being written and read (config.hpp:32-255, log.cc:680-790).
ConvertersReadBack ==
    /\ FormatterReadsBack /\ CastsInvert
    /\ \A v \in Vars : var[v].type # "none" =>
          LET back == FromStr(var[v].type, ToStr(var[v].type, var[v].value))
          IN back.ok /\ back.value = var[v].value

\* The pattern that is in use of one that a definition names.
InUse(p) == IF LogFormatter(p).error THEN <<>> ELSE p

\* LoggersMatchConfig: when no setValue of "logs" is under way, the YAML the
\* logger manager writes for a configured logger reads back as its definition
\* in the config value: the level, the appenders in order, and every formatter
\* that the definition names and that has no error.  A logger whose definition
\* names none, or one with an error, is left with whatever formatter it had
\* (log.cc:821-824), and nothing is said of that one.  A logger that is not in
\* the value has no appender left from an earlier one and is silent if it was
\* configured once (log.cc:799-866).
LoggersMatchConfig ==
    \A v \in Vars :
        /\ var[v].type = "logs" /\ LogsListener \in var[v].cbs
        /\ ~crashed /\ \A t \in Threads : load[t].at \notin {"notify", "assign"}
        => \A n \in LoggerNames \ touched :
              LET lg == m_loggers[n]
                  ds == {d \in var[v].value : d.name = n}
              IN /\ \A d \in ds :
                      LET back == LogDefine(toYamlString(n, lg))
                      IN /\ back.level = d.level
                         /\ InUse(d.formatter) # <<>> => back.formatter = d.formatter
                         /\ Len(back.appenders) = Len(d.appenders)
                         /\ \A k \in DOMAIN d.appenders :
                               /\ sameAppender(back.appenders[k], d.appenders[k])
                               /\ back.appenders[k].formatter = InUse(d.appenders[k].formatter)
                 /\ ds = {} /\ lg # NoLogger =>
                      lg.level = 1 \/ (lg.level = Deleted /\ lg.appenders = <<>>)

\* AnnouncedFirst: a value a variable holds was announced to every listener it
\* has, whichever of two concurrent setValue calls assigned it, unless the
\* listener registered when the variable already held the value or when its
\* setValue had already left the first critical section (config.hpp:328-353).
AnnouncedFirst ==
    \A v \in Vars : \A cb \in var[v].cbs \intersect Listeners : var[v].value \in told[cb]

FilesOf(defines, n) ==
    UNION {{d.appenders[k].file : k \in DOMAIN d.appenders} :
              d \in {e \in defines : e.name \in {n, "root"}}}

\* NoStrayLine: whatever the listener has half done, a line is written to
\* standard output or to a file that the configuration in force, or the one
\* being loaded, names for the event's logger or for the root logger, and
\* through an appender that has its formatter, as AttachedHasFormatter says
\* (log.cc:96-116, 799-866).
NoStrayLine ==
    /\ AttachedHasFormatter
    /\ \A v \in Vars, k \in DOMAIN written : var[v].type = "logs" =>
        LET pending == UNION {load[t].value : t \in {u \in Threads : load[u].var = v}}
        IN written[k].file \in FilesOf(var[v].value \union pending, written[k].logger) \union {""}
=============================================================================
