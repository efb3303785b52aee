---------------------------- MODULE MCByteArray ----------------------------
(* ByteArray on small instances: what the client writes.                   *)
EXTENDS ByteArray

MCNumbers == {-3, 1}
MCStrings == {<<2, 1>>}
=============================================================================
