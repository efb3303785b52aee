---------------------------- MODULE HttpMessage -----------------------------
(***************************************************************************)
(* HttpRequest and HttpResponse (src/http/http.{h,cc}): the map of fields  *)
(* with its order that ignores case, the accessors, and dump.              *)
(*                                                                         *)
(* A key is <<word, spelling>>: keys of one word differ in case only.  A   *)
(* value is a number, which lexical_cast reads, or a text that is no       *)
(* number.  No value is empty: what the parsers store of a line with an    *)
(* empty one is in HttpParser, and in a response depends on the next line. *)
(***************************************************************************)
EXTENDS Integers, Sequences, FiniteSets, SequencesExt

CONSTANTS Words, Spellings,
          MaxBody,      \* bound: the size of a body, and of the numbers in fields
          MaxEdits      \* bound: changes of a message

ASSUME MessageAssumption == MaxBody \in Nat

VARIABLES m_headers,    \* word -> [key, value], for the words that are there
          m_close, m_body, edits
messageVars == <<m_headers, m_close, m_body, edits>>

Keys == Words \X Spellings
\* Field values as small records, so that numbers and text can be compared.
Number(n) == [num |-> TRUE, n |-> n]
Text == [num |-> FALSE, n |-> 0]
Values == {Number(n) : n \in 0 .. MaxBody} \union {Text}
Empty == [w \in {} |-> Text]

\* The constructors: close by default, no fields, no body.
MessageInit == m_headers = Empty /\ m_close = TRUE /\ m_body = 0 /\ edits = 0

\* m_headers[key] = value: CaseInsensitiveLess finds the key of another
\* spelling, which stays as it was first written.
Put(h, key, value) ==
    [w \in DOMAIN h \union {key[1]} |->
        IF w = key[1] THEN [key |-> IF w \in DOMAIN h THEN h[w].key ELSE key, value |-> value]
        ELSE h[w]]

Edits == edits < MaxEdits /\ edits' = edits + 1
setHeader(key, value) ==
    /\ Edits /\ m_headers' = Put(m_headers, key, value) /\ UNCHANGED <<m_close, m_body>>
delHeader(key) ==
    /\ Edits /\ key[1] \in DOMAIN m_headers
    /\ m_headers' = [w \in DOMAIN m_headers \ {key[1]} |-> m_headers[w]]
    /\ UNCHANGED <<m_close, m_body>>
setBody(n) == Edits /\ m_body # n /\ m_body' = n /\ UNCHANGED <<m_headers, m_close>>
setClose(b) == Edits /\ m_close # b /\ m_close' = b /\ UNCHANGED <<m_headers, m_body>>

\* getHeader with its default, and getAs, which casts what is there.
getHeader(h, word, def) == IF word \in DOMAIN h THEN h[word].value ELSE def
getAs(h, word, def) ==
    LET v == getHeader(h, word, Number(def)) IN IF v.num THEN v.n ELSE def

\* dump: the field lines a request or a response writes, the stored connection
\* field left out, and the size of a body behind them.
LinesOf(h) ==
    LET ws == SetToSeq(DOMAIN h \ {"connection"})
    IN [i \in DOMAIN ws |-> [key |-> h[ws[i]].key, value |-> h[ws[i]].value]]
ConnectionLine(close) == <<[key |-> <<"connection", "lower">>, value |-> Number(IF close THEN 1 ELSE 0)]>>
LengthLine(body) ==
    IF body = 0 THEN <<>> ELSE <<[key |-> <<"content-length", "lower">>, value |-> Number(body)]>>
lengthBeforeFields(h, close, body) == LengthLine(body) \o ConnectionLine(close) \o LinesOf(h)
dumpRequest(h, close, body) == ConnectionLine(close) \o LinesOf(h) \o LengthLine(body)
dumpResponse(h, close, body) == LinesOf(h) \o ConnectionLine(close) \o LengthLine(body)

MessageNext ==
    \/ \E key \in Keys, v \in Values : setHeader(key, v)
    \/ \E key \in Keys : delHeader(key)
    \/ \E n \in 0 .. MaxBody : setBody(n)
    \/ \E b \in BOOLEAN : setClose(b)

\* What a parser stores of lines whose values are not empty:
\* on_request_http_field and on_response_http_field.
Stored(lines) ==
    LET f[i \in 0 .. Len(lines)] ==
          IF i = 0 THEN Empty ELSE Put(f[i - 1], lines[i].key, lines[i].value)
    IN f[Len(lines)]

(***************************************************************************)
(* DumpReadsBack: the lines that dump writes, stored by a parser, give the *)
(* same fields whatever their spelling and the connection that m_close     *)
(* says, not one set as a field.  The content-length read back is the size *)
(* of the body, whatever was set as a field; with an empty body it is just *)
(* what was set, also when that is not 0 (http.cc:139-161, 173-195).       *)
(***************************************************************************)
DumpReadsBack ==
    \A lines \in {dumpRequest(m_headers, m_close, m_body), dumpResponse(m_headers, m_close, m_body)} :
        LET back == Stored(lines)
        IN /\ \A w \in DOMAIN m_headers \ {"connection", "content-length"} : back[w] = m_headers[w]
           /\ back["connection"].value = Number(IF m_close THEN 1 ELSE 0)
           /\ getAs(back, "content-length", 0) =
                IF m_body > 0 THEN m_body ELSE getAs(m_headers, "content-length", 0)
           /\ Cardinality({i \in DOMAIN lines : lines[i].key[1] = "connection"}) = 1
=============================================================================
