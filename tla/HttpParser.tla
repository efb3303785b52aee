----------------------------- MODULE HttpParser -----------------------------
(***************************************************************************)
(* HttpRequestParser and HttpResponseParser (src/http/http_parser.cc) over *)
(* the two generated machines: execute() on one buffer after another, the  *)
(* marks that the actions set and use, and the callbacks that fill in the  *)
(* message.  Every input of every length is followed, cut into buffers in  *)
(* every way: a mark is represented by what begins where it points, and    *)
(* not by an offset.                                                       *)
(*                                                                         *)
(* Which token a byte begins is told by a reference lexer (RefStep) made   *)
(* from the separators of a message.  Only in a field line without a colon *)
(* does it follow the machine, which takes the next line for more of the   *)
(* name; cut remembers that there was such a line.                         *)
(***************************************************************************)
EXTENDS Http11Parser, HttpMessage

CONSTANTS Kinds,      \* what is parsed, or "message" for a message being edited
          MaxBuffers  \* bound, for each kind: buffers that an input is cut into

Client == INSTANCE HttpClientParser

VARIABLES kind, relaxed,    \* uri_relaxed is never initialised
          m,                \* the parser: the machine's state, marks and the message
          began,            \* whether the buffer has a byte already
          buffers,          \* calls of execute()
          ref, cut          \* the reference lexer; the tokens cut by a buffer's end,
                            \* and the kinds of malformed lines that were met
parserVars == <<kind, relaxed, m, began, buffers, ref, cut>>
vars == <<parserVars, messageVars>>

Zero == {"buffer"}          \* a mark at the start of the buffer
Old == {"old"}              \* an offset into an earlier buffer
RequestTokens  == {"method", "path", "query", "fragment", "version"}
ResponseTokens == {"version", "status", "reason", "size", "length"}
Tokens == RequestTokens \union ResponseTokens

\* http_parser_init and httpclient_parser_init, and the new message.
NewParser == [cs |-> <<"start">>, mark |-> Zero, field_start |-> Zero, field_len |-> "zero",
              query_start |-> Old, m_error |-> 0, data |-> [t \in Tokens |-> "default"],
              field |-> [name |-> "none", value |-> "none", cut |-> {}], done |-> FALSE]
Init ==
    /\ kind \in Kinds /\ relaxed \in (IF kind = "request" THEN BOOLEAN ELSE {FALSE})
    /\ m = NewParser /\ began = FALSE /\ buffers = 1 /\ ref = "start" /\ cut = {}
    /\ MessageInit

(***************************************************************************)
(* The reference lexer.                                                    *)
(***************************************************************************)
\* Blanks before a value; the class VT of a response holds the tabulator.
Blank(c) == c = "SP" \/ c = (IF kind = "request" THEN "TAB" ELSE "VT")
\* The tokens that begin at byte c.
Begins(c) ==
    CASE ref = "start" -> IF kind = "request" THEN {"method", "path"} ELSE {"version", "size"}
      [] ref \in {"target", "hier"} -> {"path"}
      [] ref = "query0"    -> {"query"}
      [] ref = "fragment0" -> {"fragment"}
      [] ref = "version0"  -> {"version"}
      [] ref = "status0"   -> {"status"}
      [] ref = "reason0"   -> {"reason"}
      [] ref = "line"      -> {"name", "value"}
      [] ref = "ext0"      -> {"name"}
      [] ref = "extEq"     -> {"value"}
      [] ref = "ext" /\ c \in {"LF", "CR", ";"} -> {"value"}
      [] ref = "blank" /\ ~Blank(c) -> {"value"}
      [] OTHER -> {}

LineEnds(c, else) == CASE c = "LF" -> "line" [] c = "CR" -> "eol" [] OTHER -> else
TargetEnds(c, else) ==
    CASE c = "SP" -> "version0" [] c = "?" -> "query0" [] c = "#" -> "fragment0" [] OTHER -> else

RefRequest(c) ==
    CASE ref = "start" -> IF c \in {"<", "@"} THEN "socket" ELSE "method"
      [] ref = "method" -> IF c = "SP" THEN "target" ELSE "method"
      [] ref = "target" -> TargetEnds(c, IF c \in Alpha THEN "scheme" ELSE "path")
      [] ref = "scheme" ->
           IF c = ":" THEN "hier"
           ELSE TargetEnds(c, IF c \in Alpha \union Digits \union {"+", "-", "."} THEN "scheme" ELSE "path")
      [] ref \in {"hier", "path"} -> TargetEnds(c, "path")
      [] ref \in {"query0", "query"} ->
           CASE c = "SP" -> "version0" [] c = "#" -> "fragment0" [] OTHER -> "query"
      [] ref \in {"fragment0", "fragment"} -> IF c = "SP" THEN "version0" ELSE "fragment"
      [] ref \in {"version0", "version"} -> LineEnds(c, "version")
      [] OTHER -> ref

\* A status line, or the size of a chunk with extensions.
RefResponse(c) ==
    LET extEnds(else) == CASE c = "LF" -> "end" [] c = "CR" -> "endCR" [] c = ";" -> "ext0" [] OTHER -> else
    IN CASE ref = "start" -> IF c = "H" THEN "version" ELSE "size"
         [] ref = "version" -> IF c = "SP" THEN "status0" ELSE "version"
         [] ref \in {"status0", "status"} -> IF c = "SP" THEN "reason0" ELSE "status"
         [] ref \in {"reason0", "reason"} -> IF ref = "reason0" THEN "reason" ELSE LineEnds(c, "reason")
         [] ref = "size" -> extEnds("size")
         [] ref \in {"ext0", "ext"} -> IF c = "=" THEN "extEq" ELSE extEnds("ext")
         [] ref \in {"extEq", "extValue"} -> extEnds("extValue")
         [] OTHER -> ref

\* Header fields are the same for both; a line that begins with a blank goes on,
\* and so does a name whose line ends before its colon.
RefStep(c) ==
    CASE ref = "line" ->
           CASE c = "LF" -> "end" [] c = "CR" -> "lineCR" [] Blank(c) -> "blank"
             [] OTHER -> "name"
      [] ref = "lineCR" -> CASE c = "LF" -> "end" [] c = ":" -> "blank" [] OTHER -> "name"
      [] ref = "endCR" -> "end"
      [] ref = "name"  -> IF c = ":" THEN "blank" ELSE "name"
      [] ref = "blank" -> IF Blank(c) THEN "blank" ELSE LineEnds(c, "value")
      [] ref = "value" -> LineEnds(c, "value")
      [] ref = "eol"   -> "line"
      [] OTHER -> IF kind = "request" THEN RefRequest(c) ELSE RefResponse(c)

\* What the end of a buffer cuts when it falls before the next byte: a token,
\* or a field between the start of its name and the end of its value.
Cuts ==
    CASE ref \in Tokens -> {ref}
      [] ref \in {"scheme", "socket"} -> {"path"}
      [] ref \in {"name", "lineCR", "ext0", "ext"} -> {"name"}
      [] ref \in {"blank", "value", "extEq", "extValue"} -> {"field", "length"}
      [] OTHER -> {}
\* A name that begins ends what was cut in the field before; that a response
\* had an empty value, behind which its machine takes lines for others, stays,
\* and so does that a line ended before its colon.
CutAfter(c) ==
    CASE ref = "line" -> cut \ {"name", "field"}
      [] ref = "blank" /\ c \in {"LF", "CR"} /\ kind = "response" -> cut \union {"empty", "length"}
      [] ref = "name" /\ c \in {"LF", "CR"} -> cut \union {"colonless"}
      [] OTHER -> cut

(***************************************************************************)
(* Actions and callbacks.  choice stands for what the bytes themselves     *)
(* decide: whether a method or version is one the code knows, and where an *)
(* offset into an earlier buffer points.                                   *)
(***************************************************************************)
\* The text from a mark to p: the whole token, or what the buffer has of it.
Delivered(token, start) ==
    CASE token \in start -> "whole"
      [] start = Zero -> IF began THEN "tail" ELSE "empty"
      [] OTHER -> "other"

Fails(s, error) == [s EXCEPT !.m_error = error]
Sets(s, token, value) == [s EXCEPT !.data[token] = value]

\* on_request_method: CharsToHttpMethod compares only as far as each name goes.
on_request_method(s, choice) ==
    LET d == Delivered("method", s.mark)
    IN IF d = "empty" \/ ~choice.known THEN Fails(s, 1000) ELSE Sets(s, "method", d)

\* on_request_version and on_response_version: strncmp over no bytes is equal.
on_version(s, choice) ==
    LET d == Delivered("version", s.mark)
    IN IF d \in {"tail", "other"} \/ (d = "whole" /\ kind = "response" /\ ~choice.known)
       THEN Fails(s, 1001) ELSE Sets(s, "version", d)

\* on_request_query: LEN(query_start) is negative when the offset is behind p,
\* and std::string throws.
on_request_query(s, choice) ==
    IF s.query_start # Old THEN Sets(s, "query", Delivered("query", s.query_start))
    ELSE IF choice.slice = "crash" THEN [s EXCEPT !.data["query"] = "crash", !.cs = <<"crash">>]
    ELSE Sets(s, "query", IF began THEN choice.slice ELSE "empty")

\* on_request_http_field and on_response_http_field.
on_http_field(s) ==
    IF s.field_len = "zero" THEN Fails(s, 1002)
    ELSE [s EXCEPT !.field = [name |-> IF s.field_len = "stale" THEN "other"
                                       ELSE Delivered("name", s.field_start),
                              value |-> Delivered("value", s.mark),
                              cut |-> cut \intersect {"name", "field", "empty"}]]

Act(a, s, c, choice) ==
    CASE a \in {"mark", "start_value"} -> [s EXCEPT !.mark = Begins(c)]
      [] a = "start_query" -> [s EXCEPT !.query_start = Begins(c)]
      [] a = "start_field" ->
           [s EXCEPT !.field_start = Begins(c),
                     !.field_len = IF @ = "zero" THEN "zero" ELSE "stale"]
      [] a = "write_field" ->
           [s EXCEPT !.field_len = IF s.field_start = Zero /\ ~began THEN "zero" ELSE "some"]
      [] a = "write_value"    -> on_http_field(s)
      [] a = "request_method" -> on_request_method(s, choice)
      [] a = "request_path"   -> Sets(s, "path", Delivered("path", s.mark))
      [] a = "query_string"   -> on_request_query(s, choice)
      [] a = "fragment"       -> Sets(s, "fragment", Delivered("fragment", s.mark))
      [] a = "http_version"   -> on_version(s, choice)
      [] a = "status_code"    -> Sets(s, "status", Delivered("status", s.mark))
      [] a = "reason_phrase"  -> Sets(s, "reason", Delivered("reason", s.mark))
      [] a = "chunk_size"     -> Sets(s, "size", Delivered("size", s.mark))
      [] a = "write_content_len" -> Sets(s, "length", Delivered("value", s.mark))
      [] a = "done"           -> [s EXCEPT !.done = TRUE]
      [] OTHER -> s      \* request_uri, xml, json, trans_chunked, write_connection_close

ByteChoices(do) ==
    [known : IF \E a \in {"request_method", "http_version"} : Contains(do, a) THEN BOOLEAN ELSE {TRUE},
     slice : IF Contains(do, "query_string") THEN {"slice", "empty", "crash"} ELSE {"slice"}]
Acts(do, s, c, choice) ==
    LET f[i \in 0 .. Len(do)] == IF i = 0 THEN s ELSE Act(do[i], f[i - 1], c, choice)
    IN f[Len(do)]

hasError == m.cs \in {<<"error">>, <<"crash">>} \/ m.m_error # 0
isFinished ==
    IF kind = "request" THEN m.cs \in {<<"done">>, <<"socketDone">>} ELSE m.cs = <<"done">>

(***************************************************************************)
(* execute.                                                                *)
(***************************************************************************)
\* One byte of the buffer; the machine leaves the loop at an error and at done.
Byte(c) ==
    /\ ~m.done /\ m.cs \notin {<<"error">>, <<"crash">>}
    /\ LET step == IF kind = "request" THEN Http11Step(m.cs, c, relaxed)
                   ELSE Client!HttpClientStep(m.cs, c)
       IN \E choice \in ByteChoices(step.do) : m' = Acts(step.do, [m EXCEPT !.cs = step.cs], c, choice)
    /\ began' = TRUE /\ ref' = RefStep(c) /\ cut' = CutAfter(c)
    /\ UNCHANGED <<kind, relaxed, buffers, messageVars>>

\* The buffer is used up and the caller calls execute() with the next one: the
\* state stays, mark, field_start and field_len are reset, query_start is not.
\* The buffer of a request may be empty.
NextBuffer ==
    /\ kind = "request" \/ began
    /\ ~hasError /\ ~isFinished
    /\ buffers < MaxBuffers[kind] /\ buffers' = buffers + 1
    /\ m' = [m EXCEPT !.mark = Zero, !.field_start = Zero, !.field_len = "zero",
                      !.query_start = Old, !.done = FALSE]
    /\ began' = FALSE /\ cut' = cut \union Cuts
    /\ UNCHANGED <<kind, relaxed, ref, messageVars>>

\* A buffer of a response that no byte ends (the assertion on *pe), or an empty
\* one: the checks of the offsets fail with -1, as a size_t the largest number,
\* and memmove reads in front of the buffer.
RefusedBuffer ==
    /\ kind = "response" /\ ~hasError /\ ~isFinished
    /\ m' = [m EXCEPT !.cs = <<"crash">>]
    /\ UNCHANGED <<kind, relaxed, began, buffers, ref, cut, messageVars>>

Next ==
    \/ kind = "request" /\ \E c \in Chars : Byte(c)
    \/ kind = "response" /\ \E c \in Client!CChars : Byte(c)
    \/ NextBuffer \/ RefusedBuffer
    \/ kind = "message" /\ MessageNext /\ UNCHANGED parserVars
Spec == Init /\ [][Next]_vars

(***************************************************************************)
(* Properties.                                                             *)
(***************************************************************************)

\* WholeTokens: a part of the message is the whole token that was sent, of any
\* length and in any message the machine accepts, unless the end of a buffer
\* fell into that very token; the length_error of a query too needs that
\* (http11_parser.rl:53-98, http_parser.cc:47-98).
WholeTokens == \A t \in Tokens : m.data[t] \in {"default", "whole"} \/ t \in cut

\* FieldWhole: a header field is stored with its whole name and value, unless
\* a buffer ended within the name; one whose name and value are in two buffers
\* is refused, never stored under a wrong name.  In a response no field had an
\* empty value: the machine may take the line behind one for a part of it.  A
\* name is what stands before the colon, also over the end of its line.
FieldWhole ==
    m.field.name # "none" =>
        \/ m.field.name = "whole" /\ m.field.value = "whole"
        \/ m.field.name = "tail" /\ m.field.value = "whole" /\ m.field.cut # {}
        \/ kind = "response" /\ "empty" \in m.field.cut

\* HeadEnds: when every field line so far has a colon, and in a response a value,
\* the machine is done exactly at the empty line that ends the head, and says so
\* to isFinished().  Behind a line without a colon a request goes on over that
\* empty line, and behind an empty value a response may; nothing is said of
\* these heads.  When the machine is finished without an error every part of
\* the first line was delivered (http_parser.cc:121-131, 185-195).
HeadEnds ==
    /\ m.cs \notin {<<"error">>, <<"crash">>, <<"socketDone">>} /\ cut \intersect {"colonless", "empty"} = {} =>
        /\ m.done <=> ref = "end"
        /\ m.done => isFinished
    /\ m.cs = <<"done">> /\ m.m_error = 0 =>
         \/ kind = "request" /\ \A t \in {"method", "path", "version"} : m.data[t] # "default"
         \/ kind = "response" /\ (\/ m.data["size"] # "default"
                                  \/ \A t \in {"version", "status", "reason"} : m.data[t] # "default")
=============================================================================
