------------------------------- MODULE MCHttp -------------------------------
EXTENDS HttpParser
MCBuffers == [k \in Kinds |-> IF k = "request" THEN 4 ELSE 2]
=============================================================================
