------------------------------- MODULE MCNet --------------------------------
EXTENDS HttpServer
MCServers == {<<"tcp", 2>>, <<"close", 1>>, <<"keepalive", 1>>}
\* The first connection may fail in every way, the second is made.
MCFates == [c \in Conns |-> IF c = 1 THEN ConnectResults \union {"context"} ELSE {"connected"}]
=============================================================================
