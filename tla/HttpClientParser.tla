-------------------------- MODULE HttpClientParser --------------------------
(***************************************************************************)
(* The machine of the response parser that Ragel generated into            *)
(* src/http/httpclient_paeser.rl.cc: a status line with header fields, or  *)
(* the header of a chunk.                                                  *)
(*                                                                         *)
(* Bytes are the 33 classes that no state tells apart: a letter stands for *)
(* both cases except H, T and P of the version, "any" for the bytes that   *)
(* no token holds, "!" for the other bytes of a token, "VT" for 11 and 12  *)
(* and the tab.  A state is a tuple; the comments give its numbers.        *)
(***************************************************************************)
EXTENDS Integers, Sequences, FiniteSets

XDigits == {"0", "A", "B", "C", "D", "E", "F"}
CToken == XDigits \union {"!", "-", ".", "G", "H", "I", "K", "L", "N", "O", "P", "R", "S", "T", "U",
                          "h", "t"}
Spaces == {"VT", "SP", "LF", "CR"}
CChars == CToken \union Spaces \union {"any", "/", ":", ";", "="}

Fold(c) == CASE c = "h" -> "H" [] c = "t" -> "T" [] OTHER -> c

\* The fields the machine knows, and what their values must spell.
Keywords == {"Connection", "Content-Length", "Transfer-Encoding"}
Name == [w \in Keywords |->
    CASE w = "Connection"     -> <<"C", "O", "N", "N", "E", "C", "T", "I", "O", "N">>
      [] w = "Content-Length" -> <<"C", "O", "N", "T", "E", "N", "T", "-", "L", "E", "N", "G", "T", "H">>
      [] OTHER -> <<"T", "R", "A", "N", "S", "F", "E", "R", "-", "E", "N", "C", "O", "D", "I", "N", "G">>]
Word == [w \in Keywords |->
    CASE w = "Connection"     -> <<"C", "L", "O", "S", "E">>
      [] w = "Content-Length" -> <<"0">>                        \* and more digits
      [] OTHER                -> <<"C", "H", "U", "N", "K", "E", "D">>]

To(cs, do) == [cs |-> cs, do |-> do]
Error == To(<<"error">>, <<>>)                   \* st0
Done(do) == To(<<"done">>, do \o <<"done">>)     \* state 120, the only one is_finished accepts

(***************************************************************************)
(* The header of a chunk.                                                  *)
(***************************************************************************)
\* State 1.
CStart(c) ==
    CASE c \in XDigits -> To(<<"chunk">>, <<"mark">>)
      [] c = "H"       -> To(<<"version", 2>>, <<"mark">>)
      [] OTHER         -> Error

\* What follows a chunk's size or extension.
ChunkEnds(c, do) ==
    CASE c = "LF" -> Done(do)
      [] c = "CR" -> To(<<"lastCR">>, do)
      [] c = ";"  -> To(<<"extension">>, do)
      [] OTHER    -> Error

\* State 2.
Chunk(c) == IF c \in XDigits THEN To(<<"chunk">>, <<>>) ELSE ChunkEnds(c, <<"chunk_size">>)

\* States 4-7: ;name or ;name=value.
Extension(cs, c) ==
    CASE cs[1] = "extension" ->
           IF c \in CToken THEN To(<<"extName">>, <<"start_field">>) ELSE Error
      [] cs[1] = "extName" ->
           IF c \in CToken THEN To(cs, <<>>)
           ELSE IF c = "=" THEN To(<<"extEq">>, <<"write_field", "start_value">>)
           ELSE ChunkEnds(c, <<"write_field", "start_value", "write_value">>)
      [] cs[1] = "extEq" ->
           IF c \in CToken THEN To(<<"extValue">>, <<"start_value">>) ELSE Error
      [] cs[1] = "extValue" ->
           IF c \in CToken THEN To(cs, <<>>) ELSE ChunkEnds(c, <<"write_value">>)

\* State 3.
CLastCR(c) == IF c = "LF" THEN Done(<<>>) ELSE Error

(***************************************************************************)
(* Status line.                                                            *)
(***************************************************************************)
\* States 8-15: HTTP/ and two numbers.
CVersion(cs, c) ==
    LET i == cs[2]
        Expected == <<"H", "T", "T", "P", "/">>
    IN CASE i <= 5 -> IF c = Expected[i] THEN To(<<"version", i + 1>>, <<>>) ELSE Error
         [] c = "0" /\ i > 5 -> To(<<"version", IF i \in {6, 8} THEN i + 1 ELSE i>>, <<>>)
         [] c = "." /\ i = 7 -> To(<<"version", 8>>, <<>>)
         [] c = "SP" /\ i = 9 -> To(<<"status", 1>>, <<"http_version">>)
         [] OTHER -> Error

\* States 16 and 17.
Status(cs, c) ==
    CASE c = "0" -> To(<<"status", 2>>, IF cs[2] = 1 THEN <<"mark">> ELSE <<>>)
      [] c = "SP" /\ cs[2] = 2 -> To(<<"reason", 1>>, <<"status_code">>)
      [] OTHER -> Error

\* States 18 and 19; a reason may begin with a return.
Reason(cs, c) ==
    IF cs[2] = 1 THEN IF c = "LF" THEN Error ELSE To(<<"reason", 2>>, <<"mark">>)
    ELSE CASE c = "LF" -> To(<<"header">>, <<"reason_phrase">>)
           [] c = "CR" -> To(<<"crlf">>, <<"reason_phrase">>)
           [] OTHER    -> To(cs, <<>>)

(***************************************************************************)
(* Header fields.                                                          *)
(***************************************************************************)
\* A byte that begins a field name: perhaps that of a keyword.
NameBegins(c, do) ==
    LET ws == {w \in Keywords : Name[w][1] = Fold(c)}
    IN IF c \notin CToken THEN Error
       ELSE To(IF ws = {} THEN <<"field">> ELSE <<"keyword", ws, 1>>, do \o <<"start_field">>)

\* State 20, and 43 behind a line Connection: close.
CHeader(cs, c) ==
    LET do == IF cs[1] = "closed" THEN <<"write_connection_close">> ELSE <<>>
    IN CASE c = "LF" -> Done(do)
         [] c = "CR" -> To(<<"lastCR">>, do)
         [] OTHER    -> NameBegins(c, do)

\* State 21.
CField(c) ==
    CASE c \in CToken -> To(<<"field">>, <<>>)
      [] c = ":"      -> To(<<"value", 1>>, <<"write_field">>)
      [] OTHER        -> Error

\* States 25-34, 44-60 and 101-111: i bytes of the names in cs[2] were met.
Keyword(cs, c) ==
    LET i == cs[3]
        full == {w \in cs[2] : Len(Name[w]) = i}
        ws == {w \in cs[2] \ full : Name[w][i + 1] = Fold(c)}
    IN CASE ws # {} -> To(<<"keyword", ws, i + 1>>, <<>>)
         [] c = ":" /\ full # {} -> To(<<"known", CHOOSE w \in full : TRUE>>, <<"write_field">>)
         [] OTHER -> CField(c)

\* States 22 and 23.
CValue(cs, c) ==
    LET do == IF cs[2] = 1 THEN <<"start_value">> ELSE <<>>
    IN CASE c = "LF" -> To(<<"header">>, do \o <<"write_value">>)
         [] c = "CR" -> To(<<"crlf">>, do \o <<"write_value">>)
         [] c \in {"VT", "SP"} -> To(cs, do)
         [] OTHER    -> To(<<"value", 2>>, do)

\* States 24, 71 and 88: the line feed behind a return.
CCrlf(cs, c) ==
    IF c # "LF" THEN Error
    ELSE CASE cs[1] = "crlf" -> To(<<"header">>, <<>>)
           [] cs[1] = "chunkedCR" -> To(<<"header">>, <<"trans_chunked">>)
           [] cs[1] = "closedCR" -> To(<<"closed">>, <<>>)

(***************************************************************************)
(* The value of a keyword w.  The grammar's space holds the bytes that end *)
(* a line, so that a value may be on a later line than its name; until it  *)
(* is met, the machine also follows the other reading of the bytes.        *)
(***************************************************************************)
\* What ends the line when the word is complete.
WordEnds(w, c, do) ==
    CASE w = "Connection" -> To(IF c = "LF" THEN <<"closed">> ELSE <<"closedCR">>, do)
      [] w = "Transfer-Encoding" ->
           IF c = "LF" THEN To(<<"header">>, <<"write_value", "trans_chunked">>)
           ELSE To(<<"chunkedCR">>, <<"write_value">>)
      [] OTHER -> To(IF c = "LF" THEN <<"header">> ELSE <<"crlf">>, <<"write_content_len", "write_value">>)

\* The next byte of the word: i were met; digits go on.
WordGoes(w, i, c) ==
    IF w = "Content-Length" THEN c = "0" ELSE i < Len(Word[w]) /\ Word[w][i + 1] = Fold(c)
Longer(w, i) == IF w = "Content-Length" THEN 1 ELSE i + 1
StartsValue(w) == IF w = "Connection" THEN <<>> ELSE <<"start_value">>

\* States 35, 61 and 112: behind the colon.
Known(cs, c) ==
    LET w == cs[2]
    IN CASE WordGoes(w, 0, c) -> To(<<"valueWord", w, 1>>, <<"start_value">>)
         [] c \in {"VT", "SP"} -> To(cs, <<"start_value">>)
         [] c = "LF" -> To(<<"emptyLF", w>>, <<"start_value", "write_value">>)
         [] c = "CR" -> To(<<"emptyCR", w>>, <<"start_value", "write_value">>)
         [] OTHER    -> To(<<"value", 2>>, <<"start_value">>)

\* States 81-87, 96-100 and 119: the word, or any other value.
ValueWord(cs, c) ==
    LET w == cs[2]
        i == cs[3]
    IN CASE WordGoes(w, i, c) -> To(<<"valueWord", w, Longer(w, i)>>, <<>>)
         [] c \in {"LF", "CR"} /\ i = Len(Word[w]) -> WordEnds(w, c, <<"write_value">>)
         [] OTHER -> CValue(<<"value", 2>>, c)

\* States 36, 62 and 113: the line ended; the next one goes on, ends the head,
\* begins a field, or, for a byte the word begins with, does either.
EmptyLF(cs, c) ==
    LET w == cs[2]
    IN CASE c \in {"VT", "SP"} -> To(<<"spaces", w>>, <<>>)
         [] c = "LF" -> To(<<"doneOpen", w>>, <<"done">>)
         [] c = "CR" -> To(<<"emptyLFCR", w>>, <<>>)
         [] WordGoes(w, 0, c) -> To(<<"nameOrWord", w, 1>>, StartsValue(w) \o <<"start_field">>)
         [] OTHER -> NameBegins(c, <<>>)

\* States 37, 63 and 114, and the final states 121-123, which go on as they do.
SpacesStep(cs, c) ==
    LET w == cs[2]
    IN CASE c \in Spaces -> To(<<"spaces", w>>, <<>>)
         [] WordGoes(w, 0, c) -> To(<<"word", w, 1>>, StartsValue(w))
         [] OTHER -> Error

\* States 80, 95 and 118, and 72, 89 and 116: a return behind the empty value.
EmptyCR(cs, c) ==
    IF c # "LF" THEN SpacesStep(cs, c)
    ELSE IF cs[1] = "emptyCR" THEN To(<<"emptyLF", cs[2]>>, <<>>)
    ELSE To(<<"doneOpen", cs[2]>>, <<"done">>)

\* States 38-42, 64-70 and 115: the word and nothing else.
WordOnly(cs, c) ==
    LET w == cs[2]
        i == cs[3]
    IN CASE WordGoes(w, i, c) -> To(<<"word", w, Longer(w, i)>>, <<>>)
         [] c \in {"LF", "CR"} /\ i = Len(Word[w]) -> WordEnds(w, c, <<>>)
         [] OTHER -> Error

\* States 73-79, 90-94 and 117: the word on a later line, or a field name.
NameOrWord(cs, c) ==
    LET w == cs[2]
        i == cs[3]
    IN CASE WordGoes(w, i, c) -> To(<<"nameOrWord", w, Longer(w, i)>>, <<>>)
         [] c \in {"LF", "CR"} /\ i = Len(Word[w]) -> WordEnds(w, c, <<>>)
         [] c = "O" /\ i = 1 /\ w # "Content-Length" ->
              To(<<"keyword", {"Connection", "Content-Length"}, 2>>, <<>>)
         [] OTHER -> CField(c)

\* The switch over cs; state 120 takes no byte.
HttpClientStep(cs, c) ==
    CASE cs[1] = "start"      -> CStart(c)
      [] cs[1] = "chunk"      -> Chunk(c)
      [] cs[1] \in {"extension", "extName", "extEq", "extValue"} -> Extension(cs, c)
      [] cs[1] = "lastCR"     -> CLastCR(c)
      [] cs[1] = "version"    -> CVersion(cs, c)
      [] cs[1] = "status"     -> Status(cs, c)
      [] cs[1] = "reason"     -> Reason(cs, c)
      [] cs[1] \in {"header", "closed"} -> CHeader(cs, c)
      [] cs[1] = "field"      -> CField(c)
      [] cs[1] = "keyword"    -> Keyword(cs, c)
      [] cs[1] = "value"      -> CValue(cs, c)
      [] cs[1] \in {"crlf", "chunkedCR", "closedCR"} -> CCrlf(cs, c)
      [] cs[1] = "known"      -> Known(cs, c)
      [] cs[1] = "valueWord"  -> ValueWord(cs, c)
      [] cs[1] = "emptyLF"    -> EmptyLF(cs, c)
      [] cs[1] \in {"spaces", "doneOpen"} -> SpacesStep(cs, c)
      [] cs[1] \in {"emptyCR", "emptyLFCR"} -> EmptyCR(cs, c)
      [] cs[1] = "word"       -> WordOnly(cs, c)
      [] cs[1] = "nameOrWord" -> NameOrWord(cs, c)
      [] OTHER                -> Error
=============================================================================
