---------------------------- MODULE Http11Parser ----------------------------
(***************************************************************************)
(* The machine of the request parser that Ragel generated into             *)
(* src/http/http11_paeser.rl.cc: one operator per group of its 349 states, *)
(* each giving the next state and the actions for one byte.                *)
(*                                                                         *)
(* Bytes are the 46 classes that no state tells apart, each named by one   *)
(* of its bytes: "high" is 128-255, "ctl" the control bytes, "`" and "|",  *)
(* "VT" 11 and 12, "'" also !$&*_~, "(" also ),;= and "3" also 4 and 6-9.  *)
(* A state is a tuple; the comments give its numbers in the code.  The     *)
(* states of a URI carry the line they are in, "http" or "json", because   *)
(* the code has a copy of them for each.                                   *)
(***************************************************************************)
EXTENDS Integers, Sequences, FiniteSets

Digits  == {"0", "1", "2", "3", "5"}
Hex     == Digits \union {"A", "a"}
Upper   == {"A", "G", "H", "P", "T"}
Alpha   == Upper \union {"a", "g", "v"}
Marks   == {"'", "(", "+", "-", "."}           \* unreserved and sub_delims
Relaxed == {"^", "{", "}"}                     \* more_delims
Chars ==
    Hex \union Alpha \union Marks \union Relaxed
    \union {"high", "NUL", "ctl", "x2", "x3", "x4", "x5", "x6", "TAB", "LF", "VT", "CR", "SP",
            "\"", "#", "%", "/", ":", "<", ">", "?", "@", "[", "]", "DEL"}
Token == (Alpha \union Digits \union {"'", "+", "-", ".", "#", "%", "^", "ctl", "x2", "x3", "x4", "x5",
                                      "x6", "VT"})
         \* HTTP_CTL is (0 - 31), which Ragel reads as a difference: only the byte 0

To(cs, do) == [cs |-> cs, do |-> do]
Error == To(<<"error">>, <<>>)                 \* st0

\* reg_name: unreserved | sub_delims, with more_delims when uri_relaxed.
RegName(c, relaxed) == c \in Alpha \union Digits \union Marks \/ (relaxed /\ c \in Relaxed)
Pchar(c, relaxed) == RegName(c, relaxed) \/ c \in {":", "@", "high"}

\* States 22-25, 27-28, 31-32, ...: % and two hex digits, then back.
Pct(cs, c) ==
    IF c \notin Hex THEN Error
    ELSE IF cs[2] = 1 THEN To(<<"pct", 2, cs[3]>>, <<>>) ELSE To(cs[3], <<>>)
PctFrom(cs, do) == To(<<"pct", 1, cs>>, do)

(***************************************************************************)
(* Request line.                                                           *)
(***************************************************************************)
\* State 1.
Start(c) ==
    IF c \in Upper \union Digits THEN To(<<"method", 1>>, <<"mark">>)
    ELSE IF c = "<" THEN To(<<"xml", "open">>, <<"mark">>)
    ELSE IF c = "@" THEN To(<<"json", "first">>, <<"mark">>)
    ELSE Error

\* States 2 and 175-193: at most 20 bytes.
Method(cs, c) ==
    IF c = "SP" THEN To(<<"target">>, <<"request_method">>)
    ELSE IF c \in Upper \union Digits /\ cs[2] < 20 THEN To(<<"method", cs[2] + 1>>, <<>>)
    ELSE Error

\* The transitions that end a path: to the version, the fragment or the query,
\* and in a JSON line to its data.
PathEnds(line, c, do) ==
    IF line = "json"
    THEN IF c = "SP" THEN To(<<"json", "data">>, <<"request_path">>) ELSE Error
    ELSE CASE c = "SP" -> To(<<"version", 1>>, do \o <<"request_path", "request_uri">>)
           [] c = "#"  -> To(<<"fragment", 1>>, do \o <<"request_path", "request_uri">>)
           [] c = "?"  -> To(<<"query", 1>>, do \o <<"request_path">>)
           [] OTHER    -> Error

\* State 3: the first byte of the request target.
Target(c, relaxed) ==
    IF c \in Alpha THEN To(<<"scheme">>, <<"mark">>)
    ELSE IF RegName(c, relaxed) \/ c = "@" THEN To(<<"noscheme", "http">>, <<"mark">>)
    ELSE IF c = "%" THEN PctFrom(<<"noscheme", "http">>, <<"mark">>)
    ELSE IF c = "/" THEN To(<<"slash", "http">>, <<"mark">>)
    ELSE PathEnds("http", c, <<"mark">>)

\* States 19 and 202: path_noscheme up to its first slash.
Noscheme(cs, c, relaxed) ==
    IF RegName(c, relaxed) \/ c = "@" THEN To(cs, <<>>)
    ELSE IF c = "%" THEN PctFrom(cs, <<>>)
    ELSE IF c = "/" THEN To(<<"segments", cs[2]>>, <<>>)
    ELSE PathEnds(cs[2], c, <<>>)

\* State 173: a scheme, or path_noscheme that begins with a letter.
Scheme(c, relaxed) ==
    IF c \in Alpha \union Digits \union {"+", "-", "."} THEN To(<<"scheme">>, <<>>)
    ELSE IF c = ":" THEN To(<<"hier">>, <<>>)
    ELSE Noscheme(<<"noscheme", "http">>, c, relaxed)

HierUnmarked(c, relaxed) ==
    IF Pchar(c, relaxed) \/ c = "/" THEN To(<<"segments", "http">>, <<>>)
    ELSE PathEnds("http", c, <<>>)
\* State 174: hier_part, the colon behind it.
Hier(c, relaxed) ==
    IF Pchar(c, relaxed) THEN To(<<"segments", "http">>, <<"mark">>)
    ELSE IF c = "%" THEN PctFrom(<<"segments", "http">>, <<"mark">>)
    ELSE IF c = "/" THEN To(<<"slash", "http">>, <<"mark">>)
    ELSE PathEnds("http", c, <<"mark">>)

\* States 26 and 205.
Segments(cs, c, relaxed) ==
    IF Pchar(c, relaxed) \/ c = "/" THEN To(cs, <<>>)
    ELSE IF c = "%" THEN PctFrom(cs, <<>>)
    ELSE PathEnds(cs[2], c, <<>>)

\* States 33 and 208: a second slash begins an authority.
Slash(cs, c, relaxed) ==
    IF c = "/" THEN To(<<"authority", cs[2]>>, <<>>)
    ELSE Segments(<<"segments", cs[2]>>, c, relaxed)

\* States 29 and 30: the query, which starts behind the question mark.
Query(cs, c, relaxed) ==
    LET do == IF cs[2] = 1 THEN <<"start_query">> ELSE <<>>
        end == do \o <<"query_string", "request_uri">>
    IN IF Pchar(c, relaxed) \/ c \in {"/", "?"} THEN To(<<"query", 2>>, do)
       ELSE CASE c = "%"  -> PctFrom(<<"query", 2>>, do)
              [] c = "SP" -> To(<<"version", 1>>, end)
              [] c = "#"  -> To(<<"fragment", 1>>, end)
              [] OTHER    -> Error

\* States 20 and 21.
Fragment(cs, c, relaxed) ==
    LET do == IF cs[2] = 1 THEN <<"mark">> ELSE <<>>
    IN IF Pchar(c, relaxed) \/ c \in {"/", "?"} THEN To(<<"fragment", 2>>, do)
       ELSE CASE c = "%"  -> PctFrom(<<"fragment", 2>>, do)
              [] c = "SP" -> To(<<"version", 1>>, do \o <<"fragment">>)
              [] OTHER    -> Error

\* States 4-12: HTTP/1.0 or HTTP/1.1 and the end of the line.
Version(cs, c) ==
    LET i == cs[2]
        Expected == <<{"H"}, {"T"}, {"T"}, {"P"}, {"/"}, {"1"}, {"."}, {"0", "1"}>>
    IN IF i <= 8
       THEN IF c \in Expected[i] THEN To(<<"version", i + 1>>, IF i = 1 THEN <<"mark">> ELSE <<>>)
            ELSE Error
       ELSE CASE c = "LF" -> To(<<"header">>, <<"http_version">>)
              [] c = "CR" -> To(<<"crlf">>, <<"http_version">>)
              [] OTHER    -> Error

(***************************************************************************)
(* Authority.                                                              *)
(***************************************************************************)
\* States 34 and 35 (209, 210): userinfo or host, still undecided.
UserOrHost(cs, c, relaxed) ==
    IF RegName(c, relaxed) THEN To(<<"userOrHost", cs[2]>>, <<>>)
    ELSE CASE c = "%" -> PctFrom(<<"userOrHost", cs[2]>>, <<>>)
           [] c = "/" -> To(<<"segments", cs[2]>>, <<>>)
           [] c = ":" -> To(<<"portOrUser", cs[2]>>, <<>>)
           [] c = "@" -> To(<<"host", cs[2]>>, <<>>)
           [] c = "[" /\ cs[1] = "authority" -> To(<<"literal", cs[2]>>, <<>>)
           [] OTHER   -> PathEnds(cs[2], c, <<>>)

\* States 38 and 39 (213, 214): a port, or the rest of userinfo.
PortOrUser(cs, c, relaxed) ==
    IF c \in Digits /\ cs[1] = "portOrUser" THEN To(cs, <<>>)
    ELSE IF RegName(c, relaxed) \/ c = ":" THEN To(<<"user", cs[2]>>, <<>>)
    ELSE CASE c = "%" -> PctFrom(<<"user", cs[2]>>, <<>>)
           [] c = "@" -> To(<<"host", cs[2]>>, <<>>)
           [] c = "/" /\ cs[1] = "portOrUser" -> To(<<"segments", cs[2]>>, <<>>)
           [] OTHER   -> IF cs[1] = "user" THEN Error ELSE PathEnds(cs[2], c, <<>>)

\* States 42 and 43 (217, 218).
Host(cs, c, relaxed) ==
    IF RegName(c, relaxed) THEN To(<<"name", cs[2]>>, <<>>)
    ELSE CASE c = "%" -> PctFrom(<<"name", cs[2]>>, <<>>)
           [] c = "/" -> To(<<"segments", cs[2]>>, <<>>)
           [] c = ":" -> To(<<"port", cs[2]>>, <<>>)
           [] c = "[" /\ cs[1] = "host" -> To(<<"literal", cs[2]>>, <<>>)
           [] OTHER   -> PathEnds(cs[2], c, <<>>)

\* States 46 and 61 (221, 236).
Port(cs, c) ==
    CASE c \in Digits /\ cs[1] = "port" -> To(cs, <<>>)
      [] c = ":" /\ cs[1] = "literalEnd" -> To(<<"port", cs[2]>>, <<>>)
      [] c = "/"  -> To(<<"segments", cs[2]>>, <<>>)
      [] OTHER    -> PathEnds(cs[2], c, <<>>)

(***************************************************************************)
(* IP_literal.  What may still follow is a set of items <<p, rest>>, rest  *)
(* the elements to come and p the progress in the first of them.           *)
(***************************************************************************)
ls32 == {<<"h16", ":", "h16", "]">>, <<"octet", ".", "octet", ".", "octet", ".", "octet", "]">>}
Counted == {<<"h16", ":">> \o l : l \in ls32}   \* 6( h16 ":" ) ls32: Ragel reads the byte 6

\* States 163-168, 126, 150 and 151: behind "::" with n groups before it.
Elided(n) ==
    (UNION {{<<x>> \o r : r \in Counted} :
            x \in {b \in {"x2", "x3", "x4", "x5"} :
                      \/ b = "x5" /\ n = 0
                      \/ b = "x4" /\ n <= 1
                      \/ b = "x3" /\ n # 1
                      \/ b = "x2" /\ (n = 0 \/ n >= 3)}})
    \union (IF n = 0 \/ n >= 4 THEN Counted ELSE {})
    \union (IF n = 0 \/ n >= 5 THEN ls32 ELSE {})
    \union (IF n = 0 \/ n >= 6 THEN {<<"h16", "]">>} ELSE {})
    \union (IF n = 0 \/ n >= 7 THEN {<<"]">>} ELSE {})
Tail6(rests) == <<"tail", {<<"", r>> : r \in rests}>>

\* dec_octet: "1"-"9" and "0"-"4" are differences in Ragel, so that a second
\* digit follows a 1 only, and a 2 is followed by 0 and a digit or by 50.
Octet(p, c) ==
    CASE p = "" /\ c \in Digits -> IF c \in {"1", "2"} THEN c ELSE "full"
      [] p = "1" /\ c \in Digits -> "1d"
      [] p = "1d" /\ c \in Digits -> "full"
      [] p = "2" /\ c \in {"0", "5"} -> IF c = "0" THEN "20" ELSE "25"
      [] p = "20" /\ c \in Digits -> "full"
      [] p = "25" /\ c = "0" -> "full"
      [] OTHER -> "none"
OctetDone(p) == p \in {"1", "1d", "2", "full"}

H16(p, c) ==
    IF c \notin Hex THEN "none"
    ELSE CASE p = "" -> "1" [] p = "1" -> "2" [] p = "2" -> "3" [] p = "3" -> "4" [] OTHER -> "none"

\* The items an item becomes with c.
ItemStep(item, c) ==
    LET p == item[1]
        rest == item[2]
        more == CASE rest[1] = "h16" -> H16(p, c) [] rest[1] = "octet" -> Octet(p, c) [] OTHER -> "none"
        done == CASE rest[1] = "h16" -> p # "" [] rest[1] = "octet" -> OctetDone(p) [] OTHER -> FALSE
    IN (IF more # "none" THEN {<<more, rest>>} ELSE {})
       \union (IF done /\ rest[2] = c THEN {<<"", SubSeq(rest, 3, Len(rest))>>} ELSE {})
       \union (IF rest[1] = c THEN {<<"", Tail(rest)>>} ELSE {})

\* States 48-90, 127-149 and 152-162 (the copies in a JSON line too).
Items(cs, c) ==
    LET next == UNION {ItemStep(i, c) : i \in cs[2]}
    IN IF next = {} THEN Error
       ELSE IF <<"", <<>>>> \in next THEN To(<<"literalEnd", cs[3]>>, <<>>)
       ELSE To(<<"tail", next, cs[3]>>, <<>>)

\* State 47 (222): behind the bracket.
Literal(cs, c) ==
    CASE c \in Hex -> To(<<"groups", 1, 1, cs[2]>>, <<>>)
      [] c = ":"   -> To(<<"colon", cs[2]>>, <<>>)
      [] c = "v"   -> To(<<"future", 1, cs[2]>>, <<>>)
      [] c = "x6"  -> To(Tail6(Counted) \o <<cs[2]>>, <<>>)
      [] OTHER     -> Error

\* State 167: the first of two colons in front.
Colon(cs, c) == IF c = ":" THEN To(Tail6(Elided(0)) \o <<cs[2]>>, <<>>) ELSE Error

\* States 91-125: n groups, 7 for any more, and d digits in the last one.
Groups(cs, c) ==
    LET n == cs[2]
        d == cs[3]
    IN CASE c \in Hex /\ d \in 1 .. 3 -> To(<<"groups", n, d + 1, cs[4]>>, <<>>)
         [] c \in Hex /\ d = 0 -> To(<<"groups", IF n = 7 THEN 7 ELSE n + 1, 1, cs[4]>>, <<>>)
         [] c = ":" /\ d > 0 -> To(<<"groups", n, 0, cs[4]>>, <<>>)
         [] c = ":" /\ d = 0 -> To(Tail6(Elided(n)) \o <<cs[4]>>, <<>>)
         [] OTHER -> Error

\* States 169-172: IPvFuture.
Future(cs, c, relaxed) ==
    LET i == cs[2]
    IN CASE c \in Hex /\ i \in {1, 2} -> To(<<"future", 2, cs[3]>>, <<>>)
         [] c = "." /\ i = 2 -> To(<<"future", 3, cs[3]>>, <<>>)
         [] i \in {3, 4} /\ (RegName(c, relaxed) \/ c = ":") -> To(<<"future", 4, cs[3]>>, <<>>)
         [] c = "]" /\ i = 4 -> To(<<"literalEnd", cs[3]>>, <<>>)
         [] OTHER -> Error

(***************************************************************************)
(* Header fields.                                                          *)
(***************************************************************************)
\* State 13: the line is empty or begins a field.
Header(c) ==
    CASE c \in Token -> To(<<"field">>, <<"start_field">>)
      [] c = "CR" -> To(<<"lastCR">>, <<"start_field">>)
      [] c = "LF" -> To(<<"done">>, <<"start_field", "done">>)
      [] OTHER    -> Error

\* State 14; a field name may hold the bytes that end a line.
FieldName(c) ==
    CASE c \in Token \union {"LF", "CR"} -> To(<<"field">>, <<>>)
      [] c = ":"  -> To(<<"value", 1>>, <<"write_field">>)
      [] OTHER    -> Error

LastCRGoesOn(c) == FieldName(c)
\* State 18: a return at the start of a line ends the head, or belongs to a name.
LastCR(c) == IF c = "LF" THEN To(<<"done">>, <<"done">>) ELSE FieldName(c)

\* State 348, which the head's last line feed reached with done: another byte
\* would take that line feed for part of a name.
HeadDone(c) == FieldName(c)

ValueFromColon(cs, c) ==
    CASE c = "LF" -> To(<<"header">>, <<"write_value">>)
      [] c \in {"CR", "NUL", "DEL"} -> Error
      [] OTHER -> To(<<"value", 2>>, <<>>)
\* States 15 and 16.
FieldValue(cs, c) ==
    LET do == IF cs[2] = 1 THEN <<"start_value">> ELSE <<>>
    IN CASE c = "LF" -> To(<<"header">>, do \o <<"write_value">>)
         [] c = "CR" -> To(<<"crlf">>, do \o <<"write_value">>)
         [] c \in {"SP", "TAB"} -> To(cs, do)
         [] c \in {"NUL", "DEL"} -> Error
         [] OTHER    -> To(<<"value", 2>>, do)

\* State 17.
Crlf(c) == IF c = "LF" THEN To(<<"header">>, <<>>) ELSE Error

(***************************************************************************)
(* Lines of a socket that are not HTTP.                                    *)
(***************************************************************************)
\* States 194-197: <name ... > and the byte 0.
Xml(cs, c) ==
    LET name == Alpha \union Digits \union {"-", "."}
        next(s, do) == To(<<"xml", s>>, do)
    IN CASE cs[2] = "open" -> IF c \in name THEN next("name", <<>>) ELSE Error
         [] cs[2] = "name" ->
              IF c \in name THEN next("name", <<>>)
              ELSE IF c \in {"TAB", "LF", "VT", "CR", "SP", "/", ">"} THEN next("any", <<"request_path">>)
              ELSE Error
         [] cs[2] = "any" -> IF c = ">" THEN next("close", <<>>) ELSE next("any", <<>>)
         [] cs[2] = "close" ->
              IF c = "NUL" THEN To(<<"socketDone">>, <<"xml", "done">>)
              ELSE IF c = ">" THEN next("close", <<>>) ELSE next("any", <<>>)

\* States 198-201: @path {...} and the byte 0.
Json(cs, c, relaxed) ==
    LET next(s, do) == To(<<"json", s>>, do)
    IN CASE cs[2] = "first" ->
              IF c = "/" THEN To(<<"slash", "json">>, <<>>)
              ELSE Noscheme(<<"noscheme", "json">>, c, relaxed)
         [] cs[2] = "data" -> IF c = "{" THEN next("any", <<"mark">>) ELSE Error
         [] cs[2] = "any" -> IF c = "}" THEN next("close", <<>>) ELSE next("any", <<>>)
         [] cs[2] = "close" ->
              IF c = "NUL" THEN To(<<"socketDone">>, <<"json", "done">>)
              ELSE IF c = "}" THEN next("close", <<>>) ELSE next("any", <<>>)

\* The switch over cs; state 349 takes no byte.
Http11Step(cs, c, relaxed) ==
    CASE cs[1] = "start"     -> Start(c)
      [] cs[1] = "method"    -> Method(cs, c)
      [] cs[1] = "target"    -> Target(c, relaxed)
      [] cs[1] = "scheme"    -> Scheme(c, relaxed)
      [] cs[1] = "hier"      -> Hier(c, relaxed)
      [] cs[1] = "noscheme"  -> Noscheme(cs, c, relaxed)
      [] cs[1] = "segments"  -> Segments(cs, c, relaxed)
      [] cs[1] = "slash"     -> Slash(cs, c, relaxed)
      [] cs[1] = "pct"       -> Pct(cs, c)
      [] cs[1] = "query"     -> Query(cs, c, relaxed)
      [] cs[1] = "fragment"  -> Fragment(cs, c, relaxed)
      [] cs[1] = "version"   -> Version(cs, c)
      [] cs[1] \in {"authority", "userOrHost"} -> UserOrHost(cs, c, relaxed)
      [] cs[1] \in {"portOrUser", "user"} -> PortOrUser(cs, c, relaxed)
      [] cs[1] \in {"host", "name"} -> Host(cs, c, relaxed)
      [] cs[1] \in {"port", "literalEnd"} -> Port(cs, c)
      [] cs[1] = "literal"   -> Literal(cs, c)
      [] cs[1] = "colon"     -> Colon(cs, c)
      [] cs[1] = "groups"    -> Groups(cs, c)
      [] cs[1] = "tail"      -> Items(cs, c)
      [] cs[1] = "future"    -> Future(cs, c, relaxed)
      [] cs[1] = "header"    -> Header(c)
      [] cs[1] = "field"     -> FieldName(c)
      [] cs[1] = "lastCR"    -> LastCR(c)
      [] cs[1] = "done"      -> HeadDone(c)
      [] cs[1] = "value"     -> FieldValue(cs, c)
      [] cs[1] = "crlf"      -> Crlf(c)
      [] cs[1] = "xml"       -> Xml(cs, c)
      [] cs[1] = "json"      -> Json(cs, c, relaxed)
      [] OTHER               -> Error
=============================================================================
