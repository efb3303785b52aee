-------------------------------- MODULE Log --------------------------------
(***************************************************************************)
(* Loggers (src/code/log.{h,cc}): events, formatters, appenders, the       *)
(* loggers of LoggerManager, their YAML form, and the listener of the      *)
(* "logs" config variable, which rebuilds loggers while others use them.   *)
(*                                                                         *)
(* Every critical section under a CASLock is one step; the lock order is   *)
(* logger, root logger, appender, and no section waits for anything else.  *)
(* A pattern is a sequence of characters of a small alphabet; what matters *)
(* of a line is which field of the event stands where.  An appender        *)
(* belongs to one logger.  Wording and the layout of dates are left out.   *)
(***************************************************************************)
EXTENDS Thread, FiniteSets, Sequences, SequencesExt, FiniteSetsExt

CONSTANTS LoggerNames, Unwritable   \* files that cannot be opened

VARIABLES m_loggers,    \* LoggerManager: the logger of a name, or NoLogger
          event,        \* each thread: the LogEvent it holds, or None
          written,      \* the lines the last delivery wrote
          reload,       \* each thread: what is left of the "logs" listener
          touched,      \* loggers changed by hand since they were configured
          crashed       \* a null logger was dereferenced

logVars == <<m_loggers, event, written, reload, touched, crashed>>

Undef == "undef"
Deleted == 100                      \* (LogLevel)100 of the listener
LevelNames == <<"DEBUG", "INFO", "WARN", "ERROR", "FATAL">>
LogLevelToString(level) == IF level \in 1..5 THEN LevelNames[level] ELSE "UNKNOW"
LowerLevels == <<"debug", "info", "warn", "error", "fatal">>
fromsStringToLevel(str) ==
    LET named == {l \in 1..5 : LevelNames[l] = str \/ LowerLevels[l] = str}
    IN IF named = {} THEN 0 ELSE CHOOSE l \in named : TRUE

(***************************************************************************)
(* LogFormatter::init: the pattern becomes a sequence of items.            *)
(***************************************************************************)
Registered == {"m", "c", "p", "r", "t", "n", "d", "f", "l", "T", "F", "N"}
isalpha(c) == c \in Registered \union {"x"}
Text(chars) == [k \in DOMAIN chars |-> [type |-> 0, str |-> chars[k], fmt |-> <<>>]]
FirstFrom(p, n, P(_)) ==
    LET at == {k \in n..Len(p) : P(p[k])} IN IF at = {} THEN Len(p) + 1 ELSE Min(at)
StopFrom(p, n) == FirstFrom(p, n, LAMBDA c : ~isalpha(c) /\ c \notin {"{", "}"})
BraceFrom(p, n) == FirstFrom(p, n, LAMBDA c : c = "{")
CloseFrom(p, n) == FirstFrom(p, n, LAMBDA c : c = "}")

\* The item that starts at the '%' in position i: its name, the text between
\* braces, the position after it, and whether the closing brace is missing.
ScanNoBrace(p, i) ==
    LET stop == StopFrom(p, i + 1)
    IN [str |-> SubSeq(p, i + 1, stop - 1), fmt |-> <<>>, next |-> stop, open |-> FALSE]
Scan(p, i) ==
    LET stop == StopFrom(p, i + 1)
        brace == BraceFrom(p, i + 1)
        close == CloseFrom(p, brace + 1)
    IN IF brace > stop \/ brace = Len(p) + 1 THEN ScanNoBrace(p, i)
       ELSE IF close > Len(p)
       THEN [str |-> <<>>, fmt |-> <<>>, next |-> i + 1, open |-> TRUE]
       ELSE [str |-> SubSeq(p, i + 1, brace - 1), fmt |-> SubSeq(p, brace + 1, close - 1),
             next |-> close + 1, open |-> FALSE]

\* What an item found at a '%' does to the loop's state; nstr is literal text
\* not yet put into items.
ParseItem(s, a) ==
    IF a.open
    THEN [s EXCEPT !.items = Append(@, [type |-> 0, str |-> "<<pattern error>>", fmt |-> <<>>]),
                   !.error = TRUE, !.i = @ + 1]
    ELSE [s EXCEPT !.items = @ \o Text(s.nstr) \o <<[type |-> 1, str |-> a.str, fmt |-> a.fmt]>>,
                   !.nstr = <<>>, !.i = a.next]
\* One turn of the loop.
ParseTurn(p, s) ==
    IF s.i > Len(p) THEN s
    ELSE IF p[s.i] # "%" THEN [s EXCEPT !.nstr = Append(@, p[s.i]), !.i = @ + 1]
    ELSE IF s.i < Len(p) /\ p[s.i + 1] = "%"
    THEN [s EXCEPT !.nstr = Append(@, "%"), !.i = @ + 1]
    ELSE ParseItem(s, Scan(p, s.i))

\* The items, and isError(): a brace left open or a name nobody registered.
IsKnown(it) == it.type = 1 => (Len(it.str) = 1 /\ it.str[1] \in Registered)
Built(p, error, items) ==
    [pattern |-> p,
     items |-> [k \in DOMAIN items |->
        IF items[k].type = 0 THEN items[k]
        ELSE IF IsKnown(items[k]) THEN [items[k] EXCEPT !.str = @[1]]
        ELSE [type |-> 0, str |-> "<<ERROR FORMAT>>", fmt |-> <<>>]],
     error |-> error \/ \E k \in DOMAIN items : ~IsKnown(items[k])]
LogFormatter(p) ==
    LET turn[k \in 0..Len(p)] ==
            IF k = 0 THEN [i |-> 1, nstr |-> <<>>, items |-> <<>>, error |-> FALSE]
            ELSE ParseTurn(p, turn[k - 1])
        end == turn[Len(p)]
    IN Built(p, end.error, end.items \o Text(end.nstr))

\* The null pointer: no pattern gives it, and like one with an error it is
\* never used.
NoFormatter == [pattern |-> <<>>, items |-> <<>>, error |-> TRUE]
DefaultFormatter == LogFormatter(<<"%", "p", "%", "c", "%", "m", "%", "n">>)

\* The FormatItem classes: the field of event e an item writes.  %c names the
\* logger the event was made for, also when the root logger writes it.
Field(it, level, e) ==
    IF it.type = 0 THEN it.str
    ELSE CASE it.str = "m" -> "message" [] it.str = "c" -> e.logger
           [] it.str = "p" -> LogLevelToString(level)
           [] it.str = "t" -> e.thread [] it.str = "N" -> e.threadName
           [] it.str \in {"r", "F", "d", "f", "l"} -> it.str
           [] it.str = "n" -> "newline" [] it.str = "T" -> "tab"
format(f, level, e) == [k \in DOMAIN f.items |-> Field(f.items[k], level, e)]

(***************************************************************************)
(* Appenders and loggers.                                                  *)
(***************************************************************************)
NoLogger == [made |-> FALSE]
\* FileLogAppender opens its file; StdoutAppender has nothing to open.
reopen(a) == [a EXCEPT !.open = a.file \notin Unwritable]
NewAppender(type, file) ==
    reopen([type |-> type, file |-> file, level |-> 1, formatter |-> NoFormatter,
            hasFormatter |-> FALSE, open |-> FALSE])
appenderSetFormatter(a, f) == [a EXCEPT !.formatter = f, !.hasFormatter = f # NoFormatter]

Logger == [level |-> 1, appenders |-> <<>>, formatter |-> DefaultFormatter]
\* Logger::setFormatter also reaches the appenders without one of their own.
setFormatter(lg, f) ==
    IF f.error THEN lg
    ELSE [lg EXCEPT !.formatter = f,
               !.appenders = [k \in DOMAIN @ |->
                   IF @[k].hasFormatter THEN @[k] ELSE [@[k] EXCEPT !.formatter = f]]]
addAppender(lg, a) ==
    [lg EXCEPT !.appenders = Append(@,
        IF a.formatter = NoFormatter THEN [a EXCEPT !.formatter = lg.formatter] ELSE a)]
delAppender(lg, a) ==
    LET at == {k \in DOMAIN lg.appenders : lg.appenders[k] = a}
    IN IF at = {} THEN lg ELSE [lg EXCEPT !.appenders = RemoveAt(@, Min(at))]

\* LoggerManager::getLogger, under the manager's lock.
getLogger(ls, name) == IF ls[name] = NoLogger THEN [ls EXCEPT ![name] = Logger] ELSE ls

LogInit ==
    /\ m_loggers = [n \in LoggerNames |->
                      IF n = "root" THEN addAppender(Logger, NewAppender(2, "")) ELSE NoLogger]
    /\ event = [t \in Threads |-> None]
    /\ written = <<>>
    /\ reload = [t \in Threads |-> <<>>]
    /\ touched = {}
    /\ crashed = FALSE

\* StdoutAppender::log and FileLogAppender::log: the line an appender writes.
appenderLog(a, level, e) ==
    IF level >= a.level /\ a.open
    THEN <<[file |-> a.file, logger |-> e.logger, line |-> format(a.formatter, level, e)]>> ELSE <<>>

\* CXS_LOG_LEVEL(CXS_LOG_NAME(name), level): the level is tested, the event
\* made, and ~LogEventWrap calls log() at the end of the statement.
MakeEvent(t, name, level) ==
    /\ event[t] = None
    /\ m_loggers' = getLogger(m_loggers, name)
    /\ event' = [event EXCEPT ![t] =
                    IF m_loggers'[name].level <= level
                    THEN [logger |-> name, level |-> level, thread |-> m_id[t],
                          threadName |-> t_thread_name[t], in |-> None]
                    ELSE None]
    /\ written' = <<>>
    /\ UNCHANGED <<reload, touched, crashed>>

\* Logger::log of logger name: the level is tested before the lock is taken.
Enters(t, name) ==
    event' = [event EXCEPT ![t] = IF @.level >= m_loggers[name].level THEN [@ EXCEPT !.in = name]
                                                                      ELSE None]
TestLevel(t) ==
    /\ event[t] # None /\ event[t].in = None
    /\ Enters(t, event[t].logger)
    /\ written' = <<>>
    /\ UNCHANGED <<m_loggers, reload, touched, crashed>>

\* Under the logger's lock: its appenders, or, when it has none, log() of the
\* root logger; m_root is null in the root logger itself.
Deliver(t) ==
    /\ event[t] # None /\ event[t].in # None
    /\ LET e == event[t]
           as == m_loggers[e.in].appenders
       IN /\ written' = FlattenSeq([k \in DOMAIN as |-> appenderLog(as[k], e.level, e)])
          /\ IF as = <<>> /\ e.in # "root" THEN Enters(t, "root")
             ELSE event' = [event EXCEPT ![t] = None]
    /\ UNCHANGED <<m_loggers, reload, touched, crashed>>

\* Changes made by hand through the Logger and LogAppender interfaces.
ByHand(name, lg) ==
    /\ m_loggers[name] # NoLogger /\ m_loggers[name] # lg
    /\ m_loggers' = [m_loggers EXCEPT ![name] = lg]
    /\ touched' = touched \union {name}
    /\ written' = <<>>
    /\ UNCHANGED <<event, reload, crashed>>
LogClient(name, f) ==
    LET lg == m_loggers[name] IN
    \/ m_loggers[name] # NoLogger /\ ByHand(name, [lg EXCEPT !.level = 4])
    \/ m_loggers[name] # NoLogger /\ ByHand(name, setFormatter(lg, f))
    \/ m_loggers[name] # NoLogger /\ Len(lg.appenders) < 2
       /\ ByHand(name, addAppender(lg, NewAppender(2, "")))
    \/ m_loggers[name] # NoLogger /\ lg.appenders # <<>>
       /\ \/ ByHand(name, delAppender(lg, lg.appenders[1]))
          \/ ByHand(name, [lg EXCEPT !.appenders = <<>>])
          \/ ~f.error /\ ByHand(name, [lg EXCEPT !.appenders[1] = appenderSetFormatter(@, f)])

(***************************************************************************)
(* LogDefine: the YAML form of a logger, read and written.                 *)
(***************************************************************************)
\* LexicalCast<string, LogDefine>: an appender without a type, or a file
\* appender without a file, is skipped, and an appender's level is not read.
AppenderDefine(ap) ==
    IF ap.type = "FileLogAppender"
    THEN [type |-> 1, level |-> 0, formatter |-> ap.formatter, file |-> ap.file]
    ELSE [type |-> 2, level |-> 0, formatter |-> ap.formatter, file |-> ""]
Usable(ap) == \/ ap.type = "FileLogAppender" /\ ap.file # Undef
              \/ ap.type = "StdoutLogAppender"
AppenderDefines(node) ==
    LET read[k \in 0..Len(node.appenders)] ==
            IF k = 0 THEN <<>>
            ELSE IF ~Usable(node.appenders[k]) THEN read[k - 1]
            ELSE Append(read[k - 1], AppenderDefine(node.appenders[k]))
    IN read[Len(node.appenders)]
LogDefine(node) ==
    [name |-> node.name, formatter |-> node.formatter,
     level |-> fromsStringToLevel(node.level), appenders |-> AppenderDefines(node)]
\* std::set<LogDefine> ordered by name: a second definition of a name is not
\* inserted; a node without a name makes the whole conversion throw.
LogDefinesReadable(nodes) == \A k \in DOMAIN nodes : nodes[k].name # Undef
LogDefines(nodes) ==
    {LogDefine(nodes[k]) : k \in {j \in DOMAIN nodes :
                                     \A i \in 1..(j - 1) : nodes[i].name # nodes[j].name}}

\* operator== of LogAppenderDefine leaves the formatter out.
sameAppender(a, b) == a.type = b.type /\ a.level = b.level /\ a.file = b.file
sameDefine(d, e) ==
    /\ d.name = e.name /\ d.level = e.level /\ d.formatter = e.formatter
    /\ Len(d.appenders) = Len(e.appenders)
    /\ \A k \in DOMAIN d.appenders : sameAppender(d.appenders[k], e.appenders[k])
sameDefines(ds, es) ==
    /\ Cardinality(ds) = Cardinality(es)
    /\ \A d \in ds : \E e \in es : sameDefine(d, e)

\* Logger::toYamlString and the appenders' (which write their own formatter only).
toYamlString(name, lg) ==
    [name |-> name, level |-> LogLevelToString(lg.level), formatter |-> lg.formatter.pattern,
     appenders |-> [k \in DOMAIN lg.appenders |->
        LET a == lg.appenders[k]
        IN [type |-> IF a.type = 1 THEN "FileLogAppender" ELSE "StdoutLogAppender",
            file |-> IF a.type = 1 THEN a.file ELSE Undef,
            formatter |-> IF a.hasFormatter THEN a.formatter.pattern ELSE <<>>]]]

\* LexicalCast<LogDefine, string>.
LogDefineNode(d) ==
    [name |-> d.name, level |-> IF d.level = 0 THEN "" ELSE LogLevelToString(d.level),
     formatter |-> d.formatter,
     appenders |-> [k \in DOMAIN d.appenders |->
        [type |-> IF d.appenders[k].type = 1 THEN "FileLogAppender" ELSE "StdoutLogAppender",
         file |-> IF d.appenders[k].type = 1 THEN d.appenders[k].file ELSE Undef,
         formatter |-> d.appenders[k].formatter]]]

(***************************************************************************)
(* The listener of "logs", as the calls it makes for an old and a new      *)
(* value.  A definition found unchanged leaves its logger pointer null.    *)
(***************************************************************************)
CallsNoClear(d, old) ==
    <<[call |-> "level", name |-> d.name, arg |-> d.level]>>
       \o [k \in DOMAIN d.appenders |->
              [call |-> "add", name |-> d.name, arg |-> d.appenders[k]]]
Calls(d, old) ==
    LET found == {e \in old : e.name = d.name}
    IN <<[call |-> IF found # {} /\ sameDefine(d, CHOOSE e \in found : TRUE)
                   THEN "null" ELSE "level", name |-> d.name, arg |-> d.level]>>
       \o (IF d.formatter = <<>> THEN <<>>
           ELSE <<[call |-> "formatter", name |-> d.name, arg |-> d.formatter]>>)
       \o <<[call |-> "clear", name |-> d.name, arg |-> 0]>>
       \o [k \in DOMAIN d.appenders |->
              [call |-> "add", name |-> d.name, arg |-> d.appenders[k]]]
Removed(old, new) == {d.name : d \in old} \ {d.name : d \in new}
KeepsRemoved(old, new) == FlattenSeq([k \in 1..Cardinality(new) |-> Calls(SetToSeq(new)[k], old)])
Listener(old, new) ==
    LET defines == SetToSeq(new)
        gone == SetToSeq(Removed(old, new))
    IN FlattenSeq([k \in DOMAIN defines |-> Calls(defines[k], old)])
       \o [k \in DOMAIN gone |-> [call |-> "delete", name |-> gone[k], arg |-> 0]]

\* new FileLogAppender or StdoutAppender, setLevel, setFormatter, addAppender.
Configured(a) ==
    LET raw == [NewAppender(a.type, a.file) EXCEPT !.level = a.level]
        f == LogFormatter(a.formatter)
    IN IF a.formatter = <<>> \/ f.error THEN raw ELSE appenderSetFormatter(raw, f)

ListenerCall(t) ==
    /\ reload[t] # <<>> /\ ~crashed
    /\ reload' = [reload EXCEPT ![t] = Tail(@)]
    /\ LET c == Head(reload[t])
           ls == getLogger(m_loggers, c.name)
           becomes(lg) == m_loggers' = [ls EXCEPT ![c.name] = lg]
       IN /\ \/ c.call = "null" /\ UNCHANGED m_loggers
             \/ c.call = "level" /\ becomes([ls[c.name] EXCEPT !.level = c.arg])
             \/ c.call = "formatter" /\ becomes(setFormatter(ls[c.name], LogFormatter(c.arg)))
             \/ c.call = "clear" /\ becomes([ls[c.name] EXCEPT !.appenders = <<>>])
             \/ c.call = "add" /\ becomes(addAppender(ls[c.name], Configured(c.arg)))
             \/ c.call = "delete"
                /\ becomes([ls[c.name] EXCEPT !.level = Deleted, !.appenders = <<>>])
          /\ crashed' = (c.call = "null")
          /\ touched' = IF c.call = "level" THEN touched \ {c.name} ELSE touched
    /\ written' = <<>>
    /\ UNCHANGED event

(***************************************************************************)
(* Properties.                                                             *)
(***************************************************************************)

\* The patterns the check of the formatter ranges over: up to three tokens,
\* each a literal, %m, or %d with a text in braces.
Tokens == {[type |-> 0, str |-> "-", fmt |-> <<>>], [type |-> 1, str |-> "m", fmt |-> <<>>],
           [type |-> 1, str |-> "d", fmt |-> <<"%", "x">>], [type |-> 1, str |-> "d", fmt |-> <<>>]}
Render(tok) ==
    IF tok.type = 0 THEN <<tok.str>>
    ELSE <<"%", tok.str>> \o (IF tok.str = "d" THEN <<"{">> \o tok.fmt \o <<"}">> ELSE <<>>)
TokenSeqs == UNION {[1..n -> Tokens] : n \in 0..3}

ReadsTokens ==
    \A toks \in TokenSeqs :
        LET p == FlattenSeq([k \in DOMAIN toks |-> Render(toks[k])])
        IN /\ LogFormatter(p).items = toks /\ ~LogFormatter(p).error
           /\ LogFormatter(Append(p, "%")).error
           /\ LogFormatter(p \o <<"%", "d", "{">>).error

\* FormatterReadsBack: LogFormatter::init (log.cc:471) reads a pattern as the
\* items it was put together from, in order and with their texts, and reports
\* no error for it; one more '%' or '{' behind it is an error, and a pattern
\* with an error never becomes a logger's formatter.
FormatterReadsBack ==
    /\ ReadsTokens
    /\ \A n \in LoggerNames : m_loggers[n] # NoLogger => ~m_loggers[n].formatter.error

\* AttachedHasFormatter: an appender a logger can reach always has a formatter,
\* its own if it was given one (log() calls through the pointer untested,
\* log.cc:395, 436).
AttachedHasFormatter ==
    \A n \in LoggerNames : m_loggers[n] # NoLogger =>
        \A k \in DOMAIN m_loggers[n].appenders :
            LET a == m_loggers[n].appenders[k]
            IN /\ a.formatter # NoFormatter /\ ~a.formatter.error
               /\ ~a.hasFormatter => a.formatter = m_loggers[n].formatter
=============================================================================
