----------------------------- MODULE FlatBuffer -----------------------------
(***************************************************************************)
(* What a ByteArray promises: one flat sequence of bytes with a position.  *)
(* Writes overwrite and extend, reads return what lies at the position,    *)
(* and neither shows where one node ends and the next begins.  Bytes that  *)
(* setPosition() skipped over may have any value.                          *)
(***************************************************************************)
EXTENDS Integers, Sequences

VARIABLES content,      \* bytes 0 .. size-1, as a sequence
          position,
          in, out       \* of the last call: what was written, what was read

vars == <<content, position, in, out>>

Init == content = <<>> /\ position = 0 /\ in = <<>> /\ out = <<>>

\* The contents after bs is written at the position.
Overwritten(bs) ==
    LET end == position + Len(bs)
    IN  [i \in 1..(IF end > Len(content) THEN end ELSE Len(content)) |->
            IF i > position /\ i <= end THEN bs[i - position] ELSE content[i]]

Write ==
    /\ content' = Overwritten(in')
    /\ position' = position + Len(in')
    /\ out' = <<>>

\* A read consumes what it returns.
Read ==
    /\ position' \in position..Len(content)
    /\ out' = SubSeq(content, position + 1, position')
    /\ in' = <<>> /\ UNCHANGED content

\* toString, buffers and files: a read that leaves the position alone.
Peek ==
    /\ out' = SubSeq(content, position + 1, position + Len(out'))
    /\ in' = <<>> /\ UNCHANGED <<content, position>>

\* Moving past the end makes the array longer.
Seek ==
    /\ \/ position' \in 0..Len(content) /\ UNCHANGED content
       \/ /\ position' > Len(content) /\ Len(content') = position'
          /\ SubSeq(content', 1, Len(content)) = content
    /\ in' = <<>> /\ out' = <<>>

Clear == content' = <<>> /\ position' = 0 /\ in' = <<>> /\ out' = <<>>

Next == Write \/ Read \/ Peek \/ Seek \/ Clear

Spec == Init /\ [][Next]_vars
=============================================================================
