------------------------------ MODULE MCConfig ------------------------------
(* A loader of log definitions, and a thread that logs and loads numbers.   *)
EXTENDS Config

CONSTANTS tA, tB, v1, v2, v3, cbLogs, cb1

Pm == <<"%", "m">>
Pd == <<"-", "%", "p">>
Bad == <<"%", "x">>
Stdout(f) == [type |-> "StdoutLogAppender", file |-> Undef, formatter |-> f]
File(name, f) == [type |-> "FileLogAppender", file |-> name, formatter |-> f]
L(n, lv, f, as) == [name |-> n, level |-> lv, formatter |-> f, appenders |-> as]

Doc(q) == <<[path |-> <<>>, node |-> Map(<<>>)], [path |-> <<"logs">>, node |-> Sequence(q)]>>
Port(s) == <<[path |-> <<"system">>, node |-> Map(<<>>)],
             [path |-> <<"system", "Port">>, node |-> Scalar("2")],
             [path |-> <<"system", "port">>, node |-> Scalar(s)]>>

LogDocs == {Doc(<<L("root", "info", Pm, <<File("root.txt", Bad)>>),
                  L("system", "debug", <<>>, <<File(Undef, Pd), File("system.txt", Pd)>>)>>),
            Doc(<<L("root", "bogus", Bad, <<Stdout(<<>>)>>), L("root", "warn", Pm, <<>>)>>)
              \o <<[path |-> <<"system", "port">>, node |-> Scalar("text")]>>,
            Doc(<<L("root", "info", Pm, <<File("root.txt", Pd)>>), L("system", "INFO", <<>>, <<>>)>>),
            <<[path |-> <<"logs">>, node |-> Scalar("")]>> \o Port("2")}
MCDocs == [t \in {tA, tB} |-> IF t = tA THEN LogDocs
                              ELSE {Doc(<<L(Undef, "info", Pm, <<>>)>>) \o Port("3")}]
MCDeclared == [v \in {v1, v2, v3} |->
    CASE v = v1 -> [key |-> <<"logs">>, type |-> "logs", default |-> {}]
      [] v = v2 -> [key |-> <<"system", "port">>, type |-> "scalar", default |-> "1"]
      [] v = v3 -> [key |-> <<"system", "port">>, type |-> "vector", default |-> <<>>]]
MCKeys == {<<"logs">>, <<"system", "port">>}
MCListensTo == [c \in {cbLogs, cb1} |-> IF c = cbLogs THEN v1 ELSE v2]
MCPatterns == {Pd, Bad}
MCGivenName == [t \in {tB} |-> ""]
MCMaxLoads == [t \in {tA, tB} |-> IF t = tA THEN 2 ELSE 1]
MCRenames == [t \in {tA, tB} |-> IF t = tB THEN {"renamed"} ELSE {}]
MCWords == {"logs", "system", "port"}
=============================================================================
