-------------------------- MODULE HttpParserProofs --------------------------
(***************************************************************************)
(* Proofs about HttpParser: what dump of a message writes is what a parser *)
(* reads, whatever words, spellings and values the fields have and however *)
(* often they are changed; and what the parsers store is what was sent,    *)
(* whatever the bytes are and in however many buffers they come.           *)
(***************************************************************************)
EXTENDS HttpParser, TLAPS, WellFoundedInduction, FiniteSetTheorems, SequenceTheorems

(***************************************************************************)
(* The switch over the actions of the generated machine, one by one.       *)
(***************************************************************************)

\* mark and start_value: the place where the token begins.
LEMMA DoMark ==
    ASSUME NEW s, NEW c, NEW choice
    PROVE  /\ Act("mark", s, c, choice) = [s EXCEPT !.mark = Begins(c)]
           /\ Act("start_value", s, c, choice) = [s EXCEPT !.mark = Begins(c)]
<1>1. Act("mark", s, c, choice) = [s EXCEPT !.mark = Begins(c)]
  BY Zenon DEF Act
<1>2. Act("start_value", s, c, choice) = [s EXCEPT !.mark = Begins(c)]
  BY Zenon DEF Act
<1>3. QED
  BY <1>1, <1>2, Zenon

\* start_query: the place where the query begins.
LEMMA DoStartQuery ==
    ASSUME NEW s, NEW c, NEW choice
    PROVE  Act("start_query", s, c, choice) = [s EXCEPT !.query_start = Begins(c)]
  BY Zenon DEF Act

\* start_field: the place where the name begins; the length is not reset.
LEMMA DoStartField ==
    ASSUME NEW s, NEW c, NEW choice
    PROVE  Act("start_field", s, c, choice)
             = [s EXCEPT !.field_start = Begins(c), !.field_len = IF @ = "zero" THEN "zero" ELSE "stale"]
  BY Zenon DEF Act

\* write_field: the length of the name.
LEMMA DoWriteField ==
    ASSUME NEW s, NEW c, NEW choice
    PROVE  Act("write_field", s, c, choice)
             = [s EXCEPT !.field_len = IF s.field_start = Zero /\ ~began THEN "zero" ELSE "some"]
  BY Zenon DEF Act

\* write_value calls on_http_field.
LEMMA DoWriteValue ==
    ASSUME NEW s, NEW c, NEW choice
    PROVE  Act("write_value", s, c, choice) = on_http_field(s)
  BY Zenon DEF Act

\* request_method calls on_request_method.
LEMMA DoRequestMethod ==
    ASSUME NEW s, NEW c, NEW choice
    PROVE  Act("request_method", s, c, choice) = on_request_method(s, choice)
  BY Zenon DEF Act

\* query_string calls on_request_query.
LEMMA DoQueryString ==
    ASSUME NEW s, NEW c, NEW choice
    PROVE  Act("query_string", s, c, choice) = on_request_query(s, choice)
  BY Zenon DEF Act

\* http_version calls on_version.
LEMMA DoHttpVersion ==
    ASSUME NEW s, NEW c, NEW choice
    PROVE  Act("http_version", s, c, choice) = on_version(s, choice)
  BY Zenon DEF Act

\* The actions whose callback only sets its field.
LEMMA DoSets ==
    ASSUME NEW s, NEW c, NEW choice
    PROVE  /\ Act("request_path", s, c, choice) = Sets(s, "path", Delivered("path", s.mark))
           /\ Act("fragment", s, c, choice) = Sets(s, "fragment", Delivered("fragment", s.mark))
           /\ Act("status_code", s, c, choice) = Sets(s, "status", Delivered("status", s.mark))
           /\ Act("reason_phrase", s, c, choice) = Sets(s, "reason", Delivered("reason", s.mark))
           /\ Act("chunk_size", s, c, choice) = Sets(s, "size", Delivered("size", s.mark))
<1>1. Act("request_path", s, c, choice) = Sets(s, "path", Delivered("path", s.mark))
  BY Zenon DEF Act
<1>2. Act("fragment", s, c, choice) = Sets(s, "fragment", Delivered("fragment", s.mark))
  BY Zenon DEF Act
<1>3. Act("status_code", s, c, choice) = Sets(s, "status", Delivered("status", s.mark))
  BY Zenon DEF Act
<1>4. Act("reason_phrase", s, c, choice) = Sets(s, "reason", Delivered("reason", s.mark))
  BY Zenon DEF Act
<1>5. Act("chunk_size", s, c, choice) = Sets(s, "size", Delivered("size", s.mark))
  BY Zenon DEF Act
<1>6. QED
  BY <1>1, <1>2, <1>3, <1>4, <1>5, Zenon

\* write_content_len: the length of the body.
LEMMA DoContentLen ==
    ASSUME NEW s, NEW c, NEW choice
    PROVE  Act("write_content_len", s, c, choice) = Sets(s, "length", Delivered("value", s.mark))
  BY Zenon DEF Act

\* done stops the machine.
LEMMA DoDone ==
    ASSUME NEW s, NEW c, NEW choice
    PROVE  Act("done", s, c, choice) = [s EXCEPT !.done = TRUE]
  BY Zenon DEF Act

\* The actions without an effect on what is modelled.
LEMMA DoNone ==
    ASSUME NEW s, NEW c, NEW choice
    PROVE  /\ Act("request_uri", s, c, choice) = s
           /\ Act("xml", s, c, choice) = s
           /\ Act("json", s, c, choice) = s
           /\ Act("trans_chunked", s, c, choice) = s
           /\ Act("write_connection_close", s, c, choice) = s
<1>1. Act("request_uri", s, c, choice) = s
  BY Zenon DEF Act
<1>2. Act("xml", s, c, choice) = s
  BY Zenon DEF Act
<1>3. Act("json", s, c, choice) = s
  BY Zenon DEF Act
<1>4. Act("trans_chunked", s, c, choice) = s
  BY Zenon DEF Act
<1>5. Act("write_connection_close", s, c, choice) = s
  BY Zenon DEF Act
<1>6. QED
  BY <1>1, <1>2, <1>3, <1>4, <1>5, Zenon

\* on_request_method fails or sets the method.
LEMMA OnMethodIs ==
    ASSUME NEW s, NEW choice
    PROVE  \/ on_request_method(s, choice) = Fails(s, 1000)
           \/ on_request_method(s, choice) = Sets(s, "method", Delivered("method", s.mark))
  BY Zenon DEF on_request_method

\* on_version fails or sets the version.
LEMMA OnVersionIs ==
    ASSUME NEW s, NEW choice
    PROVE  \/ on_version(s, choice) = Fails(s, 1001)
           \/ on_version(s, choice) = Sets(s, "version", Delivered("version", s.mark))
  BY Zenon DEF on_version

(***************************************************************************)
(* Natural numbers and sequences of a set.                                 *)
(***************************************************************************)

\* Induction: a set with 0 and every successor is all of Nat.
LEMMA Induction ==
    ASSUME NEW S \in SUBSET Nat, 0 \in S, \A n \in S : n + 1 \in S
    PROVE  S = Nat
<1> SUFFICES ASSUME NEW x \in Nat \ S PROVE FALSE
  OBVIOUS
<1>1. PICK y \in Nat \ S : \A z \in Nat \ S : ~(<<z, y>> \in OpToRel(<, Nat))
  BY NatLessThanWellFounded, WFMin
<1>2. y # 0 /\ y - 1 \in Nat
  OBVIOUS
<1>3. <<y - 1, y>> \in OpToRel(<, Nat)
  BY <1>2 DEF OpToRel
<1>4. y - 1 \in S
  BY <1>1, <1>2, <1>3, Zenon
<1>5. QED
  BY <1>4

\* SetToSeq lists every member of a finite set exactly once.
LEMMA SetToSeqLists ==
    ASSUME NEW S, IsFiniteSet(S)
    PROVE  /\ Cardinality(S) \in Nat
           /\ SetToSeq(S) \in [1 .. Cardinality(S) -> S]
           /\ \A i, j \in 1 .. Cardinality(S) : SetToSeq(S)[i] = SetToSeq(S)[j] => i = j
           /\ \A x \in S : \E i \in 1 .. Cardinality(S) : SetToSeq(S)[i] = x
<1> DEFINE n == Cardinality(S)
           s == SetToSeq(S)
<1>1. n \in Nat /\ ExistsBijection(1 .. n, S)
  BY FS_CardinalityType
<1>2. \E f \in [1 .. n -> S] : IsInjective(f)
  BY <1>1 DEF ExistsBijection, Bijection, Injection
<1>3. s \in [1 .. n -> S] /\ IsInjective(s)
  BY <1>2 DEF SetToSeq
<1> HIDE DEF s
<1>4. s \in Injection(1 .. n, S)
  BY <1>3 DEF Injection
<1>5. IsFiniteSet(1 .. n) /\ Cardinality(1 .. n) = n
  BY <1>1, FS_Interval
<1>6. s \in Surjection(1 .. n, S)
  BY <1>4, <1>5, FS_Injection
<1>7. \A x \in S : \E i \in 1 .. n : s[i] = x
  BY <1>6 DEF Surjection
<1>8. \A i, j \in 1 .. n : s[i] = s[j] => i = j
  BY <1>3 DEF IsInjective
<1>9. QED
  BY <1>1, <1>3, <1>7, <1>8 DEF s

\* Where three sequences end up when they are put behind each other.
IsThreeParts(l, x, y, z) ==
    /\ Len(l) = Len(x) + Len(y) + Len(z)
    /\ \A i \in 1 .. Len(x) : l[i] = x[i]
    /\ \A i \in 1 .. Len(y) : l[i + Len(x)] = y[i]
    /\ \A i \in 1 .. Len(z) : l[i + Len(x) + Len(y)] = z[i]

\* Concatenation puts them there.
LEMMA ThreeParts ==
    ASSUME NEW S, NEW x \in Seq(S), NEW y \in Seq(S), NEW z \in Seq(S)
    PROVE  x \o y \o z \in Seq(S) /\ IsThreeParts(x \o y \o z, x, y, z)
<1> DEFINE a == x \o y
           l == a \o z
<1>1. a \in Seq(S) /\ Len(a) = Len(x) + Len(y) /\ Len(x) \in Nat /\ Len(y) \in Nat /\ Len(z) \in Nat
  OBVIOUS
<1>2. /\ \A i \in 1 .. Len(x) : a[i] = x[i]
      /\ \A i \in 1 .. Len(y) : a[i + Len(x)] = y[i]
  OBVIOUS
<1> HIDE DEF a
<1>3. l \in Seq(S) /\ Len(l) = Len(a) + Len(z)
  BY <1>1, SMTT(40)
<1>4. /\ \A i \in 1 .. Len(a) : l[i] = a[i]
      /\ \A i \in 1 .. Len(z) : l[i + Len(a)] = z[i]
  BY <1>1
<1> HIDE DEF l
<1>5. \A i \in 1 .. Len(x) : l[i] = x[i]
  BY <1>1, <1>2, <1>4
<1>6. \A i \in 1 .. Len(y) : l[i + Len(x)] = y[i]
  BY <1>1, <1>2, <1>4
<1>7. \A i \in 1 .. Len(z) : l[i + Len(x) + Len(y)] = z[i]
  BY <1>1, <1>4
<1>8. QED
  BY <1>1, <1>3, <1>5, <1>6, <1>7 DEF a, l, IsThreeParts

(***************************************************************************)
(* Fields as lines.                                                        *)
(***************************************************************************)

\* The lines of a head: fields of any word, spelling and value, and the two
\* that dump adds.
LineKeys == (Words \union {"connection", "content-length"}) \X (Spellings \union {"lower"})
LineValues == [num : BOOLEAN, n : Nat]
HeadLines == [key : LineKeys, value : LineValues]

\* The map of fields: finite, each field under the word of its key.
Fields(h) ==
    /\ h \in [DOMAIN h -> HeadLines]
    /\ IsFiniteSet(DOMAIN h)
    /\ \A w \in DOMAIN h : h[w].key[1] = w

\* What Stored is after the first k of n lines.
IsStored(f, lines, k) ==
    f = [i \in 0 .. k |-> IF i = 0 THEN Empty ELSE Put(f[i - 1], lines[i].key, lines[i].value)]

\* The function by which Stored is defined exists, as one for k lines extends
\* to one for k + 1.
LEMMA StoredExists ==
    ASSUME NEW lines, NEW n \in Nat
    PROVE  \E f : IsStored(f, lines, n)
<1> DEFINE S == {k \in Nat : \E f : IsStored(f, lines, k)}
<1>1. 0 \in S
  <2>1. IsStored([i \in 0 .. 0 |-> Empty], lines, 0)
    BY DEF IsStored
  <2>2. QED
    BY <2>1
<1>2. ASSUME NEW k \in S PROVE k + 1 \in S
  <2>1. PICK f : IsStored(f, lines, k)
    OBVIOUS
  <2> DEFINE g == [i \in 0 .. (k + 1) |->
                    IF i = k + 1 THEN Put(f[k], lines[k + 1].key, lines[k + 1].value) ELSE f[i]]
  <2>2. ASSUME NEW i \in 0 .. (k + 1)
        PROVE  g[i] = IF i = 0 THEN Empty ELSE Put(g[i - 1], lines[i].key, lines[i].value)
    <3>1. CASE i = k + 1
      BY <3>1
    <3>2. CASE i # k + 1
      BY <2>1, <3>2 DEF IsStored
    <3>3. QED
      BY <3>1, <3>2
  <2>3. IsStored(g, lines, k + 1)
    BY <2>2 DEF IsStored
  <2> HIDE DEF g
  <2>4. k + 1 \in Nat
    OBVIOUS
  <2>5. QED
    BY <2>3, <2>4, Zenon
<1>3. S \in SUBSET Nat
  OBVIOUS
<1>4. S = Nat
  <2> HIDE DEF S
  <2>1. QED
    BY <1>1, <1>2, <1>3, Induction
<1>5. QED
  BY <1>4

\* What is stored after i lines of those that hold no word a second time.
StoredTo(f, lines, i) ==
    /\ DOMAIN f[i] = {lines[j].key[1] : j \in 1 .. i}
    /\ \A j \in 1 .. i :
         (\A k \in (j + 1) .. i : lines[k].key[1] # lines[j].key[1]) =>
            /\ f[i][lines[j].key[1]].value = lines[j].value
            /\ (\A k \in 1 .. (j - 1) : lines[k].key[1] # lines[j].key[1]) =>
                  f[i][lines[j].key[1]] = lines[j]

\* A parser stores under each word the value of the last line with it, and the
\* very line when it is the only one with its word; it stores no other word.
LEMMA StoredAll ==
    ASSUME NEW lines \in Seq(HeadLines)
    PROVE  \E f : Stored(lines) = f[Len(lines)] /\ StoredTo(f, lines, Len(lines))
<1> DEFINE n == Len(lines)
           f == CHOOSE f : IsStored(f, lines, n)
<1>1. n \in Nat /\ IsStored(f, lines, n)
  <2>1. n \in Nat
    OBVIOUS
  <2>2. \E g : IsStored(g, lines, n)
    BY <2>1, StoredExists
  <2>3. QED
    BY <2>1, <2>2
<1>2. Stored(lines) = f[n]
  BY DEF Stored, IsStored
<1> HIDE DEF f
<1> DEFINE S == {i \in Nat : i <= n => StoredTo(f, lines, i)}
<1>3. 0 \in S
  <2>1. f[0] = Empty
    BY <1>1 DEF IsStored
  <2>2. QED
    BY <2>1 DEF StoredTo, Empty
<1>4. ASSUME NEW i \in S PROVE i + 1 \in S
  <2> SUFFICES ASSUME i + 1 <= n PROVE StoredTo(f, lines, i + 1)
    OBVIOUS
  <2> DEFINE l == lines[i + 1]
  <2>1. i \in Nat /\ StoredTo(f, lines, i)
    BY <1>1
  <2>2. f[i + 1] = Put(f[i], l.key, l.value)
    <3>1. i + 1 \in 0 .. n /\ i + 1 # 0 /\ (i + 1) - 1 = i
      BY <2>1
    <3>2. QED
      BY <1>1, <3>1 DEF IsStored
  <2>3. l = [key |-> l.key, value |-> l.value]
    <3>1. i + 1 \in 1 .. Len(lines)
      BY <2>1
    <3>2. l \in HeadLines
      BY <3>1
    <3>3. QED
      BY <3>2 DEF HeadLines
  <2> DEFINE put == Put(f[i], l.key, l.value)
  <2>p. /\ DOMAIN put = DOMAIN f[i] \union {l.key[1]}
        /\ put[l.key[1]].value = l.value
        /\ l.key[1] \notin DOMAIN f[i] => put[l.key[1]] = [key |-> l.key, value |-> l.value]
        /\ \A w \in DOMAIN f[i] : w # l.key[1] => put[w] = f[i][w]
    BY DEF Put
  <2> HIDE DEF put
  <2>4. DOMAIN f[i + 1] = DOMAIN f[i] \union {l.key[1]}
    BY <2>2, <2>p DEF put
  <2>5. DOMAIN f[i + 1] = {lines[k].key[1] : k \in 1 .. (i + 1)}
    BY <2>1, <2>4 DEF StoredTo
  <2>6. ASSUME NEW k \in 1 .. (i + 1),
               \A p \in (k + 1) .. (i + 1) : lines[p].key[1] # lines[k].key[1]
        PROVE  /\ f[i + 1][lines[k].key[1]].value = lines[k].value
               /\ (\A p \in 1 .. (k - 1) : lines[p].key[1] # lines[k].key[1]) =>
                     f[i + 1][lines[k].key[1]] = lines[k]
    <3>1. CASE k = i + 1
      <4>1. f[i + 1][l.key[1]].value = l.value
        BY <2>2, <2>p DEF put
      <4>2. ASSUME \A p \in 1 .. (k - 1) : lines[p].key[1] # lines[k].key[1]
            PROVE  f[i + 1][l.key[1]] = l
        <5>1. l.key[1] \notin DOMAIN f[i]
          BY <2>1, <3>1, <4>2 DEF StoredTo
        <5>2. QED
          BY <2>2, <2>3, <2>p, <5>1 DEF put
      <4>3. QED
        BY <3>1, <4>1, <4>2
    <3>2. CASE k # i + 1
      <4>1. k \in 1 .. i /\ i + 1 \in (k + 1) .. (i + 1)
        BY <2>1, <3>2
      <4>2. l.key[1] # lines[k].key[1]
        BY <2>6, <4>1
      <4>3. lines[k].key[1] \in DOMAIN f[i]
        BY <2>1, <4>1 DEF StoredTo
      <4>4. f[i + 1][lines[k].key[1]] = f[i][lines[k].key[1]]
        BY <2>2, <2>p, <4>2, <4>3 DEF put
      <4>5. \A p \in (k + 1) .. i : lines[p].key[1] # lines[k].key[1]
        BY <2>1, <2>6
      <4>6. QED
        BY <2>1, <4>1, <4>4, <4>5 DEF StoredTo
    <3>3. QED
      BY <3>1, <3>2
  <2>7. QED
    BY <2>5, <2>6 DEF StoredTo
<1>5. S \in SUBSET Nat
  OBVIOUS
<1>6. S = Nat
  <2> HIDE DEF S
  <2>1. QED
    BY <1>3, <1>4, <1>5, Induction
<1>7. StoredTo(f, lines, n)
  BY <1>1, <1>6
<1>8. QED
  BY <1>2, <1>7

\* The same of one line that no later one with its word follows.
LEMMA StoredLast ==
    ASSUME NEW lines \in Seq(HeadLines), NEW j \in 1 .. Len(lines),
           \A k \in (j + 1) .. Len(lines) : lines[k].key[1] # lines[j].key[1]
    PROVE  /\ lines[j].key[1] \in DOMAIN Stored(lines)
           /\ Stored(lines)[lines[j].key[1]].value = lines[j].value
           /\ (\A k \in 1 .. (j - 1) : lines[k].key[1] # lines[j].key[1]) =>
                 Stored(lines)[lines[j].key[1]] = lines[j]
<1>1. PICK f : Stored(lines) = f[Len(lines)] /\ StoredTo(f, lines, Len(lines))
  BY StoredAll
<1>2. QED
  BY <1>1 DEF StoredTo

\* And of a word that no line has.
LEMMA StoredNone ==
    ASSUME NEW lines \in Seq(HeadLines), NEW w, \A k \in 1 .. Len(lines) : lines[k].key[1] # w
    PROVE  w \notin DOMAIN Stored(lines)
<1>1. PICK f : Stored(lines) = f[Len(lines)] /\ StoredTo(f, lines, Len(lines))
  BY StoredAll
<1>2. QED
  BY <1>1 DEF StoredTo

\* The fields that dump writes: every one but connection, each exactly once.
LEMMA LinesOfFields ==
    ASSUME NEW h, Fields(h)
    PROVE  /\ LinesOf(h) \in Seq(HeadLines)
           /\ \A i \in 1 .. Len(LinesOf(h)) :
                /\ LinesOf(h)[i].key[1] \in DOMAIN h \ {"connection"}
                /\ LinesOf(h)[i] = h[LinesOf(h)[i].key[1]]
           /\ \A w \in DOMAIN h \ {"connection"} :
                \E i \in 1 .. Len(LinesOf(h)) :
                    /\ LinesOf(h)[i] = h[w]
                    /\ \A k \in 1 .. Len(LinesOf(h)) : LinesOf(h)[k].key[1] = w => k = i
<1> DEFINE D == DOMAIN h \ {"connection"}
           n == Cardinality(D)
           ws == SetToSeq(D)
           ls == LinesOf(h)
<1>1. IsFiniteSet(D)
  BY FS_Subset DEF Fields
<1>2. /\ n \in Nat
      /\ ws \in [1 .. n -> D]
      /\ \A i, j \in 1 .. n : ws[i] = ws[j] => i = j
      /\ \A x \in D : \E i \in 1 .. n : ws[i] = x
  BY <1>1, SetToSeqLists
<1>3. ls = [i \in 1 .. n |-> [key |-> h[ws[i]].key, value |-> h[ws[i]].value]]
  BY <1>2 DEF LinesOf
<1> HIDE DEF ws, n, ls
<1>4. ASSUME NEW i \in 1 .. n
      PROVE  ws[i] \in D /\ ls[i] = h[ws[i]] /\ ls[i] \in HeadLines /\ ls[i].key[1] = ws[i]
  <2>1. ws[i] \in D
    BY <1>2
  <2>2. h[ws[i]] \in HeadLines /\ h[ws[i]].key[1] = ws[i]
    BY <2>1 DEF Fields
  <2>3. ls[i] = h[ws[i]]
    BY <1>3, <2>2 DEF HeadLines
  <2>4. QED
    BY <2>1, <2>2, <2>3
<1>5. ls \in Seq(HeadLines) /\ Len(ls) = n
  BY <1>2, <1>3, <1>4
<1>6. \A i \in 1 .. Len(ls) : ls[i].key[1] \in D /\ ls[i] = h[ls[i].key[1]]
  BY <1>4, <1>5
<1>7. ASSUME NEW w \in D
      PROVE  \E i \in 1 .. Len(ls) : ls[i] = h[w] /\ \A k \in 1 .. Len(ls) : ls[k].key[1] = w => k = i
  <2>1. PICK i \in 1 .. n : ws[i] = w
    BY <1>2
  <2>2. ASSUME NEW k \in 1 .. n, ls[k].key[1] = w PROVE k = i
    BY <1>2, <1>4, <2>1, <2>2
  <2>3. QED
    BY <1>4, <1>5, <2>1, <2>2
<1>8. QED
  BY <1>5, <1>6, <1>7 DEF ls

\* The fields that go out as they were set: a body has a content-length of its own.
AsSet(h, body) ==
    {w \in DOMAIN h : w # "connection" /\ (body > 0 => w # "content-length")}
\* What the head of a message must have for a parser to get the message back.
HeadOf(lines, h, close, body) ==
    /\ lines \in Seq(HeadLines)
    /\ \A w \in AsSet(h, body) :
         \E j \in 1 .. Len(lines) :
             lines[j] = h[w] /\ \A k \in 1 .. Len(lines) : lines[k].key[1] = w => k = j
    /\ \A k \in 1 .. Len(lines) : body > 0 \/ lines[k].key[1] \in DOMAIN h \union {"connection"}
    /\ \E j \in 1 .. Len(lines) :
         /\ lines[j].key[1] = "connection" /\ lines[j].value = Number(IF close THEN 1 ELSE 0)
         /\ \A k \in 1 .. Len(lines) : lines[k].key[1] = "connection" => k = j
    /\ body > 0 => /\ Len(lines) > 0 /\ lines[Len(lines)].key[1] = "content-length"
                   /\ lines[Len(lines)].value = Number(body)

\* The lines that dump adds.
LEMMA AddedLines ==
    ASSUME NEW close \in BOOLEAN, NEW body \in Nat
    PROVE  /\ ConnectionLine(close) \in Seq(HeadLines) /\ Len(ConnectionLine(close)) = 1
           /\ ConnectionLine(close)[1].key[1] = "connection"
           /\ ConnectionLine(close)[1].value = Number(IF close THEN 1 ELSE 0)
           /\ LengthLine(body) \in Seq(HeadLines)
           /\ Len(LengthLine(body)) = IF body = 0 THEN 0 ELSE 1
           /\ body > 0 => /\ LengthLine(body)[1].key[1] = "content-length"
                          /\ LengthLine(body)[1].value = Number(body)
<1>1. \A n \in Nat : Number(n) \in LineValues
  BY DEF Number, LineValues
<1>2. (IF close THEN 1 ELSE 0) \in Nat
  OBVIOUS
<1> DEFINE c == Number(IF close THEN 1 ELSE 0)
           b == Number(body)
<1>3. c \in LineValues /\ b \in LineValues
  BY <1>1, <1>2
<1>4. ConnectionLine(close) = <<[key |-> <<"connection", "lower">>, value |-> c]>>
  BY DEF ConnectionLine
<1>5. LengthLine(body) = IF body = 0 THEN <<>> ELSE <<[key |-> <<"content-length", "lower">>, value |-> b]>>
  BY DEF LengthLine
<1> HIDE DEF c, b
<1>6. /\ <<"connection", "lower">> \in LineKeys
      /\ <<"content-length", "lower">> \in LineKeys
  BY DEF LineKeys
<1>7. /\ [key |-> <<"connection", "lower">>, value |-> c] \in HeadLines
      /\ [key |-> <<"content-length", "lower">>, value |-> b] \in HeadLines
  BY <1>3, <1>6 DEF HeadLines
<1>8. QED
  BY <1>4, <1>5, <1>7 DEF c, b

\* A request writes connection before the fields, and the length behind them.
LEMMA RequestHead ==
    ASSUME NEW h, Fields(h), NEW close \in BOOLEAN, NEW body \in Nat
    PROVE  HeadOf(dumpRequest(h, close, body), h, close, body)
<1> DEFINE ls == LinesOf(h)
           c == ConnectionLine(close)
           b == LengthLine(body)
           n == Len(ls)
           lines == c \o ls \o b
<1>1. /\ ls \in Seq(HeadLines) /\ n \in Nat
      /\ \A i \in 1 .. n : ls[i].key[1] \in DOMAIN h \ {"connection"}
      /\ \A w \in DOMAIN h \ {"connection"} :
           \E i \in 1 .. n : ls[i] = h[w] /\ \A k \in 1 .. n : ls[k].key[1] = w => k = i
  BY LinesOfFields
<1>2. /\ c \in Seq(HeadLines) /\ Len(c) = 1
      /\ c[1].key[1] = "connection" /\ c[1].value = Number(IF close THEN 1 ELSE 0)
      /\ b \in Seq(HeadLines) /\ Len(b) = IF body = 0 THEN 0 ELSE 1
      /\ body > 0 => b[1].key[1] = "content-length" /\ b[1].value = Number(body)
  BY AddedLines
<1>3. dumpRequest(h, close, body) = lines
  BY DEF dumpRequest
<1> HIDE DEF ls, c, b
<1>4. /\ lines \in Seq(HeadLines) /\ Len(lines) = n + 1 + Len(b)
      /\ lines[1] = c[1]
      /\ \A i \in 1 .. n : lines[i + 1] = ls[i]
      /\ body > 0 => lines[n + 2] = b[1]
  <2>1. lines \in Seq(HeadLines) /\ IsThreeParts(lines, c, ls, b)
    BY <1>1, <1>2, ThreeParts
  <2> HIDE DEF lines
  <2>2. lines[1] = c[1] /\ \A i \in 1 .. n : lines[i + 1] = ls[i]
    BY <1>1, <1>2, <2>1 DEF IsThreeParts
  <2>3. body > 0 => lines[n + 2] = b[1]
    BY <1>1, <1>2, <2>1 DEF IsThreeParts
  <2>4. QED
    BY <1>1, <1>2, <2>1, <2>2, <2>3 DEF IsThreeParts
<1> HIDE DEF lines, n
<1>5. ASSUME NEW k \in 1 .. Len(lines)
      PROVE  k = 1 \/ (k - 1 \in 1 .. n /\ lines[k] = ls[k - 1]) \/ (body > 0 /\ k = n + 2)
  BY <1>1, <1>2, <1>4
<1>6. ASSUME NEW w \in AsSet(h, body)
      PROVE  \E j \in 1 .. Len(lines) :
                lines[j] = h[w] /\ \A k \in 1 .. Len(lines) : lines[k].key[1] = w => k = j
  <2>0. w \in DOMAIN h \ {"connection"} /\ (body > 0 => w # "content-length")
    BY DEF AsSet
  <2>1. PICK i \in 1 .. n : ls[i] = h[w] /\ \A k \in 1 .. n : ls[k].key[1] = w => k = i
    BY <1>1, <2>0
  <2>2. i + 1 \in 1 .. Len(lines) /\ lines[i + 1] = h[w]
    BY <1>1, <1>2, <1>4, <2>1
  <2>3. ASSUME NEW k \in 1 .. Len(lines), lines[k].key[1] = w PROVE k = i + 1
    <3>1. k # 1 /\ ~(body > 0 /\ k = n + 2)
      BY <1>1, <1>2, <1>4, <2>0, <2>3
    <3>2. QED
      BY <1>1, <1>5, <2>1, <2>3, <3>1
  <2>4. QED
    BY <2>2, <2>3
<1>7. 1 \in 1 .. Len(lines) /\ \A k \in 1 .. Len(lines) : lines[k].key[1] = "connection" => k = 1
  <2>1. 1 \in 1 .. Len(lines)
    BY <1>1, <1>2, <1>4
  <2>2. ASSUME NEW k \in 1 .. Len(lines), lines[k].key[1] = "connection" PROVE k = 1
    <3>1. CASE k - 1 \in 1 .. n /\ lines[k] = ls[k - 1]
      BY <1>1, <2>2, <3>1
    <3>2. CASE body > 0 /\ k = n + 2
      <4>1. lines[k].key[1] = "content-length"
        BY <1>2, <1>4, <3>2
      <4>2. QED
        BY <2>2, <4>1
    <3>3. QED
      BY <1>5, <3>1, <3>2
  <2>3. QED
    BY <2>1, <2>2
<1>8. body > 0 => Len(lines) = n + 2
  BY <1>1, <1>2, <1>4
<1>9. \E j \in 1 .. Len(lines) :
         /\ lines[j].key[1] = "connection" /\ lines[j].value = Number(IF close THEN 1 ELSE 0)
         /\ \A k \in 1 .. Len(lines) : lines[k].key[1] = "connection" => k = j
  <2>1. lines[1].key[1] = "connection" /\ lines[1].value = Number(IF close THEN 1 ELSE 0)
    BY <1>2, <1>4
  <2>2. QED
    BY <1>7, <2>1
<1>10. body > 0 => /\ Len(lines) > 0 /\ lines[Len(lines)].key[1] = "content-length"
                   /\ lines[Len(lines)].value = Number(body)
  BY <1>1, <1>2, <1>4, <1>8
<1>r. ASSUME NEW k \in 1 .. Len(lines) PROVE body > 0 \/ lines[k].key[1] \in DOMAIN h \union {"connection"}
  BY <1>1, <1>2, <1>4, <1>5
<1>11. HeadOf(lines, h, close, body)
  BY <1>4, <1>6, <1>r, <1>9, <1>10 DEF HeadOf
<1>12. QED
  BY <1>3, <1>11 DEF lines

\* A response writes the fields first.
LEMMA ResponseHead ==
    ASSUME NEW h, Fields(h), NEW close \in BOOLEAN, NEW body \in Nat
    PROVE  HeadOf(dumpResponse(h, close, body), h, close, body)
<1> DEFINE ls == LinesOf(h)
           c == ConnectionLine(close)
           b == LengthLine(body)
           n == Len(ls)
           lines == ls \o c \o b
<1>1. /\ ls \in Seq(HeadLines) /\ n \in Nat
      /\ \A i \in 1 .. n : ls[i].key[1] \in DOMAIN h \ {"connection"}
      /\ \A w \in DOMAIN h \ {"connection"} :
           \E i \in 1 .. n : ls[i] = h[w] /\ \A k \in 1 .. n : ls[k].key[1] = w => k = i
  BY LinesOfFields
<1>2. /\ c \in Seq(HeadLines) /\ Len(c) = 1
      /\ c[1].key[1] = "connection" /\ c[1].value = Number(IF close THEN 1 ELSE 0)
      /\ b \in Seq(HeadLines) /\ Len(b) = IF body = 0 THEN 0 ELSE 1
      /\ body > 0 => b[1].key[1] = "content-length" /\ b[1].value = Number(body)
  BY AddedLines
<1>3. dumpResponse(h, close, body) = lines
  BY DEF dumpResponse
<1> HIDE DEF ls, c, b
<1>4. /\ lines \in Seq(HeadLines) /\ Len(lines) = n + 1 + Len(b)
      /\ lines[n + 1] = c[1]
      /\ \A i \in 1 .. n : lines[i] = ls[i]
      /\ body > 0 => lines[n + 2] = b[1]
  <2>1. lines \in Seq(HeadLines) /\ IsThreeParts(lines, ls, c, b)
    BY <1>1, <1>2, ThreeParts
  <2> HIDE DEF lines
  <2>2. lines[n + 1] = c[1] /\ \A i \in 1 .. n : lines[i] = ls[i]
    BY <1>1, <1>2, <2>1 DEF IsThreeParts
  <2>3. body > 0 => lines[n + 2] = b[1]
    BY <1>1, <1>2, <2>1 DEF IsThreeParts
  <2>4. QED
    BY <1>1, <1>2, <2>1, <2>2, <2>3 DEF IsThreeParts
<1> HIDE DEF lines, n
<1>5. ASSUME NEW k \in 1 .. Len(lines)
      PROVE  k = n + 1 \/ (k \in 1 .. n /\ lines[k] = ls[k]) \/ (body > 0 /\ k = n + 2)
  BY <1>1, <1>2, <1>4
<1>6. ASSUME NEW w \in AsSet(h, body)
      PROVE  \E j \in 1 .. Len(lines) :
                lines[j] = h[w] /\ \A k \in 1 .. Len(lines) : lines[k].key[1] = w => k = j
  <2>0. w \in DOMAIN h \ {"connection"} /\ (body > 0 => w # "content-length")
    BY DEF AsSet
  <2>1. PICK i \in 1 .. n : ls[i] = h[w] /\ \A k \in 1 .. n : ls[k].key[1] = w => k = i
    BY <1>1, <2>0
  <2>2. i \in 1 .. Len(lines) /\ lines[i] = h[w]
    BY <1>1, <1>2, <1>4, <2>1
  <2>3. ASSUME NEW k \in 1 .. Len(lines), lines[k].key[1] = w PROVE k = i
    <3>1. k # n + 1 /\ ~(body > 0 /\ k = n + 2)
      BY <1>1, <1>2, <1>4, <2>0, <2>3
    <3>2. QED
      BY <1>1, <1>5, <2>1, <2>3, <3>1
  <2>4. QED
    BY <2>2, <2>3
<1>7. n + 1 \in 1 .. Len(lines) /\ \A k \in 1 .. Len(lines) : lines[k].key[1] = "connection" => k = n + 1
  <2>1. n + 1 \in 1 .. Len(lines)
    BY <1>1, <1>2, <1>4
  <2>2. ASSUME NEW k \in 1 .. Len(lines), lines[k].key[1] = "connection" PROVE k = n + 1
    <3>1. CASE k \in 1 .. n /\ lines[k] = ls[k]
      BY <1>1, <2>2, <3>1
    <3>2. CASE body > 0 /\ k = n + 2
      <4>1. lines[k].key[1] = "content-length"
        BY <1>2, <1>4, <3>2
      <4>2. QED
        BY <2>2, <4>1
    <3>3. QED
      BY <1>5, <3>1, <3>2
  <2>3. QED
    BY <2>1, <2>2
<1>8. body > 0 => Len(lines) = n + 2
  BY <1>1, <1>2, <1>4
<1>9. \E j \in 1 .. Len(lines) :
         /\ lines[j].key[1] = "connection" /\ lines[j].value = Number(IF close THEN 1 ELSE 0)
         /\ \A k \in 1 .. Len(lines) : lines[k].key[1] = "connection" => k = j
  <2>1. lines[n + 1].key[1] = "connection" /\ lines[n + 1].value = Number(IF close THEN 1 ELSE 0)
    BY <1>2, <1>4
  <2>2. QED
    BY <1>7, <2>1
<1>10. body > 0 => /\ Len(lines) > 0 /\ lines[Len(lines)].key[1] = "content-length"
                   /\ lines[Len(lines)].value = Number(body)
  BY <1>1, <1>2, <1>4, <1>8
<1>r. ASSUME NEW k \in 1 .. Len(lines) PROVE body > 0 \/ lines[k].key[1] \in DOMAIN h \union {"connection"}
  BY <1>1, <1>2, <1>4, <1>5
<1>11. HeadOf(lines, h, close, body)
  BY <1>4, <1>6, <1>r, <1>9, <1>10 DEF HeadOf
<1>12. QED
  BY <1>3, <1>11 DEF lines

\* A parser that stores such a head gets the message back.
LEMMA HeadReadsBack ==
    ASSUME NEW lines, NEW h, Fields(h), NEW close \in BOOLEAN, NEW body \in Nat,
           HeadOf(lines, h, close, body)
    PROVE  /\ \A w \in DOMAIN h \ {"connection", "content-length"} : Stored(lines)[w] = h[w]
           /\ Stored(lines)["connection"].value = Number(IF close THEN 1 ELSE 0)
           /\ getAs(Stored(lines), "content-length", 0) =
                IF body > 0 THEN body ELSE getAs(h, "content-length", 0)
           /\ Cardinality({i \in DOMAIN lines : lines[i].key[1] = "connection"}) = 1
<1> DEFINE n == Len(lines)
           back == Stored(lines)
<1>1. lines \in Seq(HeadLines) /\ n \in Nat
  BY DEF HeadOf
<1>2. ASSUME NEW j \in 1 .. n, \A k \in (j + 1) .. n : lines[k].key[1] # lines[j].key[1]
      PROVE  /\ lines[j].key[1] \in DOMAIN back
             /\ back[lines[j].key[1]].value = lines[j].value
             /\ (\A k \in 1 .. (j - 1) : lines[k].key[1] # lines[j].key[1]) =>
                   back[lines[j].key[1]] = lines[j]
  BY <1>1, <1>2, StoredLast
<1> HIDE DEF back
<1>3. ASSUME NEW w \in AsSet(h, body) PROVE w \in DOMAIN back /\ back[w] = h[w]
  <2>1. PICK j \in 1 .. n : lines[j] = h[w] /\ \A k \in 1 .. n : lines[k].key[1] = w => k = j
    BY DEF HeadOf
  <2>2. lines[j].key[1] = w
    BY <2>1 DEF Fields, AsSet
  <2>3. \A k \in (j + 1) .. n : lines[k].key[1] # lines[j].key[1]
    BY <1>1, <2>1, <2>2
  <2>4. \A k \in 1 .. (j - 1) : lines[k].key[1] # lines[j].key[1]
    BY <1>1, <2>1, <2>2
  <2>5. QED
    BY <1>2, <2>1, <2>2, <2>3, <2>4
<1>4. PICK j \in 1 .. n :
        /\ lines[j].key[1] = "connection" /\ lines[j].value = Number(IF close THEN 1 ELSE 0)
        /\ \A k \in 1 .. n : lines[k].key[1] = "connection" => k = j
  BY DEF HeadOf
<1>5. back["connection"].value = Number(IF close THEN 1 ELSE 0)
  <2>1. \A k \in (j + 1) .. n : lines[k].key[1] # lines[j].key[1]
    BY <1>1, <1>4
  <2>2. QED
    BY <1>2, <1>4, <2>1
<1>6. Cardinality({i \in DOMAIN lines : lines[i].key[1] = "connection"}) = 1
  <2>1. {i \in DOMAIN lines : lines[i].key[1] = "connection"} = {j}
    BY <1>1, <1>4
  <2>2. QED
    BY <2>1, FS_Singleton
<1>7. ASSUME body > 0 PROVE getAs(back, "content-length", 0) = body
  <2>1. n \in 1 .. n /\ lines[n].key[1] = "content-length" /\ lines[n].value = Number(body)
    BY <1>1, <1>7 DEF HeadOf
  <2>2. \A k \in (n + 1) .. n : lines[k].key[1] # lines[n].key[1]
    BY <1>1
  <2>3. "content-length" \in DOMAIN back /\ back["content-length"].value = Number(body)
    BY <1>2, <2>1, <2>2
  <2>4. QED
    BY <2>3 DEF getAs, getHeader, Number
<1>8. ASSUME ~(body > 0) PROVE getAs(back, "content-length", 0) = getAs(h, "content-length", 0)
  <2>1. CASE "content-length" \in DOMAIN h
    <3>1. "content-length" \in AsSet(h, body)
      BY <1>8, <2>1 DEF AsSet
    <3>2. "content-length" \in DOMAIN back /\ back["content-length"] = h["content-length"]
      BY <1>3, <3>1
    <3>3. QED
      BY <2>1, <3>2 DEF getAs, getHeader
  <2>2. CASE "content-length" \notin DOMAIN h
    <3>1. \A k \in 1 .. n : lines[k].key[1] # "content-length"
      BY <1>8, <2>2 DEF HeadOf
    <3>2. "content-length" \notin DOMAIN back
      BY <1>1, <3>1, StoredNone DEF back
    <3>3. QED
      BY <2>2, <3>2 DEF getAs, getHeader
  <2>3. QED
    BY <2>1, <2>2
<1>9. \A w \in DOMAIN h \ {"connection", "content-length"} : back[w] = h[w]
  BY <1>3 DEF AsSet
<1>10. QED
  BY <1>9, <1>5, <1>6, <1>7, <1>8 DEF back

(***************************************************************************)
(* The message being edited.                                               *)
(***************************************************************************)

\* The map of fields is one of Fields, and the body has a size.
MessageInv == Fields(m_headers) /\ m_close \in BOOLEAN /\ m_body \in Nat

\* A field that is set keeps the map one of Fields: the key of another
\* spelling stays under its word.
LEMMA PutFields ==
    ASSUME NEW h, Fields(h), NEW key \in Keys, NEW value \in LineValues
    PROVE  Fields(Put(h, key, value))
<1> DEFINE g == Put(h, key, value)
<1>1. key \in LineKeys
  BY DEF Keys, LineKeys
<1>2. DOMAIN g = DOMAIN h \union {key[1]}
  BY DEF Put
<1>3. IsFiniteSet(DOMAIN g)
  BY <1>2, FS_AddElement DEF Fields
<1>4. ASSUME NEW w \in DOMAIN g PROVE g[w] \in HeadLines /\ g[w].key[1] = w
  <2>1. CASE w # key[1]
    <3>1. w \in DOMAIN h /\ g[w] = h[w]
      BY <1>2, <2>1 DEF Put
    <3>2. QED
      BY <3>1 DEF Fields
  <2>2. CASE w = key[1]
    <3> DEFINE k == IF w \in DOMAIN h THEN h[w].key ELSE key
    <3>1. k \in LineKeys /\ k[1] = w
      <4>1. CASE w \in DOMAIN h
        BY <4>1 DEF Fields, HeadLines
      <4>2. CASE w \notin DOMAIN h
        BY <1>1, <2>2, <4>2
      <4>3. QED
        BY <4>1, <4>2
    <3>2. g[w] = [key |-> k, value |-> value]
      BY <1>2, <2>2 DEF Put
    <3> HIDE DEF k
    <3>3. QED
      BY <3>1, <3>2 DEF HeadLines
  <2>3. QED
    BY <2>1, <2>2
<1>5. g = [w \in DOMAIN g |-> g[w]]
  BY DEF Put
<1> HIDE DEF g
<1>6. QED
  BY <1>3, <1>4, <1>5 DEF Fields, g

\* MessageInv holds of a new message.
LEMMA MessageStarts == ASSUME Init PROVE MessageInv
<1>1. m_headers = Empty /\ m_close = TRUE /\ m_body = 0
  BY DEF Init, MessageInit
<1>2. DOMAIN Empty = {} /\ Empty = [w \in {} |-> Empty[w]]
  BY DEF Empty
<1>3. QED
  BY <1>1, <1>2, FS_EmptySet DEF MessageInv, Fields

\* Every change of a message keeps MessageInv.
LEMMA MessageStep == ASSUME MessageInv, [Next]_vars PROVE MessageInv'
<1>1. CASE UNCHANGED messageVars
  BY <1>1 DEF messageVars, MessageInv, Fields
<1>2. CASE MessageNext
  <2>1. ASSUME NEW key \in Keys, NEW v \in Values, setHeader(key, v) PROVE MessageInv'
    <3>1. v \in LineValues
      <4>1. \A n \in 0 .. MaxBody : n \in Nat
        BY MessageAssumption
      <4>2. \A n \in Nat : Number(n) \in LineValues
        BY DEF Number, LineValues
      <4>3. Text \in LineValues
        BY DEF Text, LineValues
      <4>4. CASE v = Text
        BY <4>3, <4>4
      <4>5. CASE \E n \in 0 .. MaxBody : v = Number(n)
        BY <4>1, <4>2, <4>5
      <4>6. QED
        BY <4>4, <4>5 DEF Values
    <3>2. Fields(Put(m_headers, key, v))
      BY <3>1, PutFields DEF MessageInv
    <3>3. m_headers' = Put(m_headers, key, v) /\ UNCHANGED <<m_close, m_body>>
      BY <2>1 DEF setHeader
    <3>4. QED
      BY <3>2, <3>3 DEF MessageInv, Fields
  <2>2. ASSUME NEW key \in Keys, delHeader(key) PROVE MessageInv'
    <3>1. /\ m_headers' = [w \in DOMAIN m_headers \ {key[1]} |-> m_headers[w]]
          /\ UNCHANGED <<m_close, m_body>>
      BY <2>2 DEF delHeader
    <3>2. DOMAIN m_headers' = DOMAIN m_headers \ {key[1]} /\ IsFiniteSet(DOMAIN m_headers')
      BY <3>1, FS_RemoveElement DEF MessageInv, Fields
    <3>3. QED
      BY <3>1, <3>2 DEF MessageInv, Fields
  <2>3. ASSUME NEW n \in 0 .. MaxBody, setBody(n) PROVE MessageInv'
    BY <2>3, MessageAssumption DEF setBody, MessageInv, Fields
  <2>4. ASSUME NEW b \in BOOLEAN, setClose(b) PROVE MessageInv'
    BY <2>4 DEF setClose, MessageInv, Fields
  <2>5. QED
    BY <1>2, <2>1, <2>2, <2>3, <2>4 DEF MessageNext
<1>3. QED
  BY <1>1, <1>2 DEF Next, Byte, NextBuffer, RefusedBuffer, vars

\* DumpReadsBack, for any words and spellings, values and bodies of any size
\* and any number of changes: what dump of a request and of a response writes,
\* stored by a parser, gives the fields and the connection back, and as
\* content-length the size of the body, or of an empty body what was set.  The
\* values are those of the model, none of them empty (http.cc:139-161, 173-195).
THEOREM DumpReadsBackAlways == Spec => []DumpReadsBack
<1>1. Init => MessageInv
  BY MessageStarts
<1>2. MessageInv /\ [Next]_vars => MessageInv'
  BY MessageStep
<1>3. MessageInv => DumpReadsBack
  <2> SUFFICES ASSUME MessageInv PROVE DumpReadsBack
    OBVIOUS
  <2>1. Fields(m_headers) /\ m_close \in BOOLEAN /\ m_body \in Nat
    BY DEF MessageInv
  <2>2. ASSUME NEW lines \in {dumpRequest(m_headers, m_close, m_body), dumpResponse(m_headers, m_close, m_body)}
        PROVE  HeadOf(lines, m_headers, m_close, m_body)
    BY <2>1, RequestHead, ResponseHead
  <2>3. QED
    BY <2>1, <2>2, HeadReadsBack DEF DumpReadsBack
<1>4. QED
  BY <1>1, <1>2, <1>3, PTL DEF Spec

(***************************************************************************)
(* Tokens and fields.  The machines are paired with the reference lexer:   *)
(* AtRequest and AtResponse say in which states a machine is when the      *)
(* lexer is at r, for as long as no response had a field with an empty     *)
(* value; behind one its machine is Astray, but only among header fields.  *)
(***************************************************************************)

\* What an IP_literal may still hold: the elements of Elided, ls32 and
\* Counted, up to the bracket.
Elements == {"h16", "octet", ":", ".", "]", "x2", "x3", "x4", "x5"}
Awaited == {r \in Seq(Elements) : Len(r) > 0 /\ r[Len(r)] = "]"}

\* The states between the start and the end of a path.
PathStates == {"noscheme", "segments", "slash", "authority", "userOrHost", "portOrUser", "user",
               "host", "name", "port", "literalEnd", "literal", "colon"}
InPath(cs, line) ==
    \/ \E x \in PathStates : cs = <<x, line>>
    \/ \E i \in {1, 2}, x \in PathStates : cs = <<"pct", i, <<x, line>>>>
    \/ \E n \in 1 .. 7, d \in 0 .. 4 : cs = <<"groups", n, d, line>>
    \/ \E i \in 1 .. 4 : cs = <<"future", i, line>>
    \/ cs[1] = "tail" /\ cs = <<"tail", cs[2], line>>
       /\ \A i \in cs[2] : i = <<i[1], i[2]>> /\ i[2] \in Awaited
\* A state, or two hex digits on the way back to it.
OnWay(cs, back) == cs = back \/ \E i \in {1, 2} : cs = <<"pct", i, back>>

\* The lines of a socket, before and after their path was delivered.
SocketPath(cs) ==
    \/ cs \in {<<"json", "first">>, <<"xml", "open">>, <<"xml", "name">>}
    \/ InPath(cs, "json")
SocketData(cs) ==
    cs \in {<<"json", "data">>, <<"json", "any">>, <<"json", "close">>, <<"xml", "any">>, <<"xml", "close">>}

AtRequest(cs, r) ==
    \/ r = "start"     /\ cs = <<"start">>
    \/ r = "method"    /\ \E i \in 1 .. 20 : cs = <<"method", i>>
    \/ r = "target"    /\ cs = <<"target">>
    \/ r = "scheme"    /\ cs = <<"scheme">>
    \/ r = "hier"      /\ cs = <<"hier">>
    \/ r = "path"      /\ InPath(cs, "http")
    \/ r = "query0"    /\ cs = <<"query", 1>>
    \/ r = "query"     /\ OnWay(cs, <<"query", 2>>)
    \/ r = "fragment0" /\ cs = <<"fragment", 1>>
    \/ r = "fragment"  /\ OnWay(cs, <<"fragment", 2>>)
    \/ r = "version0"  /\ cs = <<"version", 1>>
    \/ r = "version"   /\ \E i \in 2 .. 9 : cs = <<"version", i>>
    \/ r = "line"      /\ cs = <<"header">>
    \/ r = "name"      /\ cs = <<"field">>
    \/ r = "lineCR"    /\ cs = <<"lastCR">>
    \/ r = "blank"     /\ cs = <<"value", 1>>
    \/ r = "value"     /\ cs = <<"value", 2>>
    \/ r = "eol"       /\ cs = <<"crlf">>
    \/ r = "socket"    /\ (SocketPath(cs) \/ SocketData(cs))

\* A field name that begins like those of the keywords ws, for i bytes.
InKeyword(cs) ==
    \E ws \in SUBSET Client!Keywords, i \in 1 .. 17 :
        cs = <<"keyword", ws, i>> /\ \A w \in ws : i <= Len(Client!Name[w])
InWord(cs, x) == \E w \in Client!Keywords, i \in 1 .. 7 : cs = <<x, w, i>>
OfKeyword(cs, x) == \E w \in Client!Keywords : cs = <<x, w>>

AtResponse(cs, r) ==
    \/ r = "start"   /\ cs = <<"start">>
    \/ r = "size"    /\ cs = <<"chunk">>
    \/ r = "ext0"    /\ cs = <<"extension">>
    \/ r = "ext"     /\ cs = <<"extName">>
    \/ r = "extEq"   /\ cs = <<"extEq">>
    \/ r = "extValue" /\ cs = <<"extValue">>
    \/ r \in {"endCR", "lineCR"} /\ cs = <<"lastCR">>
    \/ r = "version" /\ \E i \in 2 .. 9 : cs = <<"version", i>>
    \/ r = "status0" /\ cs = <<"status", 1>>
    \/ r = "status"  /\ cs = <<"status", 2>>
    \/ r = "reason0" /\ cs = <<"reason", 1>>
    \/ r = "reason"  /\ cs = <<"reason", 2>>
    \/ r = "line"    /\ cs \in {<<"header">>, <<"closed">>}
    \/ r = "name"    /\ (cs = <<"field">> \/ InKeyword(cs))
    \/ r = "blank"   /\ (cs = <<"value", 1>> \/ OfKeyword(cs, "known"))
    \/ r = "value"   /\ (cs = <<"value", 2>> \/ InWord(cs, "valueWord"))
    \/ r = "eol"     /\ cs \in {<<"crlf">>, <<"chunkedCR">>, <<"closedCR">>}

\* The states of a response machine among header fields.
Astray(cs) ==
    \/ cs \in {<<"header">>, <<"closed">>, <<"field">>, <<"value", 1>>, <<"value", 2>>, <<"crlf">>,
               <<"chunkedCR">>, <<"closedCR">>, <<"lastCR">>, <<"done">>}
    \/ InKeyword(cs)
    \/ \E x \in {"known", "emptyLF", "spaces", "doneOpen", "emptyCR", "emptyLFCR"} : OfKeyword(cs, x)
    \/ \E x \in {"valueWord", "word", "nameOrWord"} : InWord(cs, x)

\* What a mark may point at, and the parser's fields; what cs may be is said above.
Points == Tokens \union {"name", "value", "buffer", "old"}
Slices == {"default", "whole", "tail", "empty", "other", "slice", "crash"}
Shaped(s) ==
    s \in [cs : {s.cs}, mark : SUBSET Points, field_start : SUBSET Points,
           field_len : {"zero", "some", "stale"}, query_start : SUBSET Points, m_error : Nat,
           data : [Tokens -> Slices],
           field : [name : Slices \union {"none"}, value : Slices \union {"none"},
                    cut : SUBSET {"name", "field", "empty"}],
           done : BOOLEAN]

\* The start of a name is in this buffer, or was cut off.
NameHeld(s) == "name" \in s.field_start \/ (s.field_start = Zero /\ "name" \in cut)
\* The length of the name is known when all of it that is in the buffer was
\* counted; it is not when the buffer began behind the name.
FieldHeld(s) ==
    \/ s.field_len = "zero"
    \/ s.field_len = "some" /\ NameHeld(s) /\ (s.field_start = Zero => began)
ValueHeld(s) ==
    /\ "value" \in s.mark \/ (s.field_len = "zero" /\ "length" \in cut)
    /\ FieldHeld(s)
Marked(s, t) == t \in s.mark \/ t \in cut

\* What the marks hold when the lexer is at r.
Held(s, r) ==
    /\ r \in {"method", "path", "fragment", "version", "status", "reason", "size"} => Marked(s, r)
    /\ r = "scheme" \/ (r = "socket" /\ ~SocketData(s.cs)) => Marked(s, "path")
    /\ r = "query" => "query" \in s.query_start \/ "query" \in cut
    /\ r \in {"name", "ext"} \/ (kind = "request" /\ r = "lineCR") => NameHeld(s)
    /\ r \in {"blank", "extEq"} => FieldHeld(s)
    /\ r \in {"value", "extValue"} => ValueHeld(s)

\* Which parts of the first line have been delivered when the lexer is at r.
HeadRefs == {"line", "name", "lineCR", "blank", "value", "eol", "ext0", "ext", "extEq", "extValue",
             "endCR", "end"}
FirstLine(s) ==
    s.m_error = 0 =>
        \/ kind = "request" /\ \A t \in {"method", "path", "version"} : s.data[t] # "default"
        \/ kind = "response" /\ (\/ s.data["size"] # "default"
                                 \/ \A t \in {"version", "status", "reason"} : s.data[t] # "default")
BehindMethod == {"target", "scheme", "hier", "path"}
BehindPath == {"query0", "query", "fragment0", "fragment", "version0", "version"}
HasDelivered(s, r) ==
    /\ r \in HeadRefs => FirstLine(s)
    /\ kind = "request" /\ s.m_error = 0 =>
         /\ r \in BehindMethod \union BehindPath => s.data["method"] # "default"
         /\ r \in BehindPath => s.data["path"] # "default"
    /\ kind = "response" /\ s.m_error = 0 =>
         /\ r \in {"status0", "status", "reason0", "reason"} => s.data["version"] # "default"
         /\ r \in {"reason0", "reason"} => s.data["status"] # "default"

\* Where machine and lexer are: the machine has given up, they are in the same
\* place, they are both at the end of the head, or the machine is astray.
Given(s) == s.cs \in {<<"error">>, <<"crash">>, <<"socketDone">>}
Paired(s, r) ==
    /\ ~s.done /\ "empty" \notin cut
    /\ \/ kind = "request" /\ AtRequest(s.cs, r)
       \/ kind = "response" /\ AtResponse(s.cs, r)
    /\ Held(s, r) /\ HasDelivered(s, r)
Ended(s, r) == s.done /\ s.cs = <<"done">> /\ r = "end" /\ "empty" \notin cut /\ FirstLine(s)
Gone(s) ==
    /\ kind = "response" /\ "empty" \in cut /\ "length" \in cut
    /\ Astray(s.cs) /\ FirstLine(s)

\* A field as FieldWhole wants it.
FieldFine(f) ==
    f.name # "none" =>
        \/ f.name = "whole" /\ f.value = "whole"
        \/ f.name = "tail" /\ f.value = "whole" /\ f.cut # {}
        \/ kind = "response" /\ "empty" \in f.cut

\* A parser whose texts are as the properties want them and which is where the
\* lexer is.
Texts(s) ==
    /\ \A t \in Tokens : s.data[t] \in {"default", "whole"} \/ t \in cut
    /\ FieldFine(s.field)
Sound(s, r) == Shaped(s) /\ Texts(s) /\ (Given(s) \/ Paired(s, r) \/ Ended(s, r) \/ Gone(s))

\* ParserInv: the inductive invariant of the parser.
ParserInv ==
    /\ relaxed \in BOOLEAN /\ began \in BOOLEAN
    /\ \/ kind \in {"request", "response"} /\ Sound(m, ref)
       \/ kind \notin {"request", "response"} /\ m = NewParser /\ ~began /\ ref = "start" /\ cut = {}

(***************************************************************************)
(* What the actions leave.                                                 *)
(***************************************************************************)

\* What Acts is after the first k actions.
IsActs(f, do, s, c, choice, k) ==
    f = [i \in 0 .. k |-> IF i = 0 THEN s ELSE Act(do[i], f[i - 1], c, choice)]

\* The function by which Acts is defined exists.
LEMMA ActsExists ==
    ASSUME NEW do, NEW s, NEW c, NEW choice, NEW n \in Nat
    PROVE  \E f : IsActs(f, do, s, c, choice, n)
<1> DEFINE S == {k \in Nat : \E f : IsActs(f, do, s, c, choice, k)}
<1>1. 0 \in S
  <2>1. IsActs([i \in 0 .. 0 |-> s], do, s, c, choice, 0)
    BY DEF IsActs
  <2>2. QED
    BY <2>1
<1>2. ASSUME NEW k \in S PROVE k + 1 \in S
  <2>1. PICK f : IsActs(f, do, s, c, choice, k)
    OBVIOUS
  <2> DEFINE g == [i \in 0 .. (k + 1) |-> IF i = k + 1 THEN Act(do[k + 1], f[k], c, choice) ELSE f[i]]
  <2>2. ASSUME NEW i \in 0 .. (k + 1)
        PROVE  g[i] = IF i = 0 THEN s ELSE Act(do[i], g[i - 1], c, choice)
    <3>1. CASE i = k + 1
      BY <3>1
    <3>2. CASE i # k + 1
      BY <2>1, <3>2 DEF IsActs
    <3>3. QED
      BY <3>1, <3>2
  <2>3. IsActs(g, do, s, c, choice, k + 1)
    BY <2>2 DEF IsActs
  <2> HIDE DEF g
  <2>4. k + 1 \in Nat
    OBVIOUS
  <2>5. QED
    BY <2>3, <2>4
<1> HIDE DEF S
<1>3. S = Nat
  <2>1. S \in SUBSET Nat
    BY DEF S
  <2>2. QED
    BY <1>1, <1>2, <2>1, Induction
<1>4. QED
  BY <1>3 DEF S

\* Acts is the last value of that function.
LEMMA ActsIs ==
    ASSUME NEW do, NEW s, NEW c, NEW choice, NEW n \in Nat, Len(do) = n
    PROVE  \E f : IsActs(f, do, s, c, choice, n) /\ Acts(do, s, c, choice) = f[n]
<1> DEFINE F == CHOOSE f : f = [i \in 0 .. Len(do) |-> IF i = 0 THEN s ELSE Act(do[i], f[i - 1], c, choice)]
<1>1. IsActs(F, do, s, c, choice, n)
  BY ActsExists, SMTT(40) DEF IsActs
<1>2. Acts(do, s, c, choice) = F[n]
  BY DEF Acts
<1>3. QED
  BY <1>1, <1>2

\* Actions run one after the other.
LEMMA Acts0 ==
    ASSUME NEW s, NEW c, NEW choice
    PROVE  Acts(<<>>, s, c, choice) = s
  BY ActsIs DEF IsActs

\* One action.
LEMMA Acts1 ==
    ASSUME NEW s, NEW c, NEW choice, NEW p
    PROVE  Acts(<<p>>, s, c, choice) = Act(p, s, c, choice)
<1> DEFINE do == <<p>>
           n == 1
<1>1. n \in Nat /\ Len(do) = n
  OBVIOUS
<1> HIDE DEF do, n
<1>2. PICK f : IsActs(f, do, s, c, choice, n) /\ Acts(do, s, c, choice) = f[n]
  BY <1>1, ActsIs
<1>3. f[0] = s /\ f[1] = Act(p, f[0], c, choice)
  BY <1>2 DEF IsActs, do, n
<1>4. QED
  BY <1>2, <1>3 DEF do, n

\* Two actions.
LEMMA Acts2 ==
    ASSUME NEW s, NEW c, NEW choice, NEW p, NEW q
    PROVE  Acts(<<p, q>>, s, c, choice) = Act(q, Act(p, s, c, choice), c, choice)
<1> DEFINE do == <<p, q>>
           n == 2
<1>1. n \in Nat /\ Len(do) = n
  OBVIOUS
<1> HIDE DEF do, n
<1>2. PICK f : IsActs(f, do, s, c, choice, n) /\ Acts(do, s, c, choice) = f[n]
  BY <1>1, ActsIs
<1>3. f[0] = s /\ f[1] = Act(p, f[0], c, choice) /\ f[2] = Act(q, f[1], c, choice)
  BY <1>2 DEF IsActs, do, n
<1>4. QED
  BY <1>2, <1>3 DEF do, n

\* Three actions.
LEMMA Acts3 ==
    ASSUME NEW s, NEW c, NEW choice, NEW p, NEW q, NEW r
    PROVE  Acts(<<p, q, r>>, s, c, choice) = Act(r, Act(q, Act(p, s, c, choice), c, choice), c, choice)
<1> DEFINE do == <<p, q, r>>
           n == 3
<1>1. n \in Nat /\ Len(do) = n
  OBVIOUS
<1> HIDE DEF do, n
<1>2. PICK f : IsActs(f, do, s, c, choice, n) /\ Acts(do, s, c, choice) = f[n]
  BY <1>1, ActsIs
<1>3. /\ f[0] = s /\ f[1] = Act(p, f[0], c, choice) /\ f[2] = Act(q, f[1], c, choice)
      /\ f[3] = Act(r, f[2], c, choice)
  BY <1>2 DEF IsActs, do, n
<1>4. QED
  BY <1>2, <1>3 DEF do, n

\* Four actions.
LEMMA Acts4 ==
    ASSUME NEW s, NEW c, NEW choice, NEW p, NEW q, NEW r, NEW t
    PROVE  Acts(<<p, q, r, t>>, s, c, choice)
             = Act(t, Act(r, Act(q, Act(p, s, c, choice), c, choice), c, choice), c, choice)
<1> DEFINE do == <<p, q, r, t>>
           n == 4
<1>1. n \in Nat /\ Len(do) = n
  OBVIOUS
<1> HIDE DEF do, n
<1>2. PICK f : IsActs(f, do, s, c, choice, n) /\ Acts(do, s, c, choice) = f[n]
  BY <1>1, ActsIs
<1>3. /\ f[0] = s /\ f[1] = Act(p, f[0], c, choice) /\ f[2] = Act(q, f[1], c, choice)
      /\ f[3] = Act(r, f[2], c, choice) /\ f[4] = Act(t, f[3], c, choice)
  BY <1>2 DEF IsActs, do, n
<1>4. QED
  BY <1>2, <1>3 DEF do, n

(***************************************************************************)
(* The request machine.                                                    *)
(***************************************************************************)

\* The switch takes the operator of the state.
LEMMA RequestSwitch ==
    ASSUME NEW cs, NEW c, NEW relax
    PROVE  /\ cs[1] = "start" => Http11Step(cs, c, relax) = Start(c)
           /\ cs[1] = "method" => Http11Step(cs, c, relax) = Method(cs, c)
           /\ cs[1] = "target" => Http11Step(cs, c, relax) = Target(c, relax)
           /\ cs[1] = "scheme" => Http11Step(cs, c, relax) = Scheme(c, relax)
           /\ cs[1] = "hier" => Http11Step(cs, c, relax) = Hier(c, relax)
           /\ cs[1] = "noscheme" => Http11Step(cs, c, relax) = Noscheme(cs, c, relax)
           /\ cs[1] = "segments" => Http11Step(cs, c, relax) = Segments(cs, c, relax)
           /\ cs[1] = "slash" => Http11Step(cs, c, relax) = Slash(cs, c, relax)
           /\ cs[1] = "pct" => Http11Step(cs, c, relax) = Pct(cs, c)
           /\ cs[1] = "query" => Http11Step(cs, c, relax) = Query(cs, c, relax)
           /\ cs[1] = "fragment" => Http11Step(cs, c, relax) = Fragment(cs, c, relax)
           /\ cs[1] = "version" => Http11Step(cs, c, relax) = Version(cs, c)
           /\ cs[1] \in {"authority", "userOrHost"} => Http11Step(cs, c, relax) = UserOrHost(cs, c, relax)
           /\ cs[1] \in {"portOrUser", "user"} => Http11Step(cs, c, relax) = PortOrUser(cs, c, relax)
           /\ cs[1] \in {"host", "name"} => Http11Step(cs, c, relax) = Host(cs, c, relax)
           /\ cs[1] \in {"port", "literalEnd"} => Http11Step(cs, c, relax) = Port(cs, c)
           /\ cs[1] = "literal" => Http11Step(cs, c, relax) = Literal(cs, c)
           /\ cs[1] = "colon" => Http11Step(cs, c, relax) = Colon(cs, c)
           /\ cs[1] = "groups" => Http11Step(cs, c, relax) = Groups(cs, c)
           /\ cs[1] = "tail" => Http11Step(cs, c, relax) = Items(cs, c)
           /\ cs[1] = "future" => Http11Step(cs, c, relax) = Future(cs, c, relax)
           /\ cs[1] = "header" => Http11Step(cs, c, relax) = Header(c)
           /\ cs[1] = "field" => Http11Step(cs, c, relax) = FieldName(c)
           /\ cs[1] = "lastCR" => Http11Step(cs, c, relax) = LastCR(c)
           /\ cs[1] = "value" => Http11Step(cs, c, relax) = FieldValue(cs, c)
           /\ cs[1] = "crlf" => Http11Step(cs, c, relax) = Crlf(c)
           /\ cs[1] = "xml" => Http11Step(cs, c, relax) = Xml(cs, c)
           /\ cs[1] = "json" => Http11Step(cs, c, relax) = Json(cs, c, relax)
  BY DEF Http11Step

\* What a byte does in a path: nothing but a move within it, or its end.
PathMove(step, line, c) ==
    \/ step = Error
    \/ /\ step.do = <<>> /\ InPath(step.cs, line)
       /\ c \notin {"SP", "?", "#"}
    \/ step = PathEnds(line, c, <<>>)

\* The states of a path with two components.
LEMMA PlainPath ==
    ASSUME NEW x \in PathStates, NEW line
    PROVE  InPath(<<x, line>>, line)
  BY DEF InPath

\* The two digits of an escape within a path are within it.
LEMMA PctPath ==
    ASSUME NEW x \in PathStates, NEW i \in {1, 2}, NEW line
    PROVE  InPath(<<"pct", i, <<x, line>>>>, line)
  BY DEF InPath

\* The first segment of a path without a scheme.
LEMMA NoschemeMoves ==
    ASSUME NEW line \in {"http", "json"}, NEW c \in Chars, NEW relax \in BOOLEAN
    PROVE  PathMove(Noscheme(<<"noscheme", line>>, c, relax), line, c)
<1>1. InPath(<<"noscheme", line>>, line) /\ InPath(<<"segments", line>>, line)
      /\ InPath(<<"pct", 1, <<"noscheme", line>>>>, line)
  BY PlainPath, PctPath DEF PathStates
<1>2. QED
  BY <1>1 DEF Noscheme, PathMove, To, PctFrom, RegName, Alpha, Upper, Digits, Marks, Relaxed

\* The segments of a path.
LEMMA SegmentsMoves ==
    ASSUME NEW line \in {"http", "json"}, NEW c \in Chars, NEW relax \in BOOLEAN
    PROVE  PathMove(Segments(<<"segments", line>>, c, relax), line, c)
<1>1. InPath(<<"segments", line>>, line)
      /\ InPath(<<"pct", 1, <<"segments", line>>>>, line)
  BY PlainPath, PctPath DEF PathStates
<1>2. QED
  BY <1>1 DEF Segments, PathMove, To, PctFrom, RegName, Pchar, Alpha, Upper, Digits, Marks, Relaxed

\* Behind the slash a path begins with.
LEMMA SlashMoves ==
    ASSUME NEW line \in {"http", "json"}, NEW c \in Chars, NEW relax \in BOOLEAN
    PROVE  PathMove(Slash(<<"slash", line>>, c, relax), line, c)
<1>1. InPath(<<"authority", line>>, line)
  BY PlainPath DEF PathStates
<1>2. QED
  BY <1>1, SegmentsMoves DEF Slash, PathMove, To

\* The beginning of an authority: user or host.
LEMMA AuthorityMoves ==
    ASSUME NEW x \in {"authority", "userOrHost"}, NEW line \in {"http", "json"}, NEW c \in Chars,
           NEW relax \in BOOLEAN
    PROVE  PathMove(UserOrHost(<<x, line>>, c, relax), line, c)
<1>1. /\ InPath(<<"userOrHost", line>>, line) /\ InPath(<<"segments", line>>, line)
      /\ InPath(<<"portOrUser", line>>, line) /\ InPath(<<"host", line>>, line)
      /\ InPath(<<"literal", line>>, line) /\ InPath(<<"pct", 1, <<"userOrHost", line>>>>, line)
  BY PlainPath, PctPath DEF PathStates
<1>2. QED
  BY <1>1 DEF UserOrHost, PathMove, To, PctFrom, RegName, Alpha, Upper, Digits, Marks, Relaxed

\* A port, or a user's password.
LEMMA UserMoves ==
    ASSUME NEW x \in {"portOrUser", "user"}, NEW line \in {"http", "json"}, NEW c \in Chars,
           NEW relax \in BOOLEAN
    PROVE  PathMove(PortOrUser(<<x, line>>, c, relax), line, c)
<1>1. /\ InPath(<<x, line>>, line) /\ InPath(<<"user", line>>, line) /\ InPath(<<"segments", line>>, line)
      /\ InPath(<<"host", line>>, line) /\ InPath(<<"pct", 1, <<"user", line>>>>, line)
  BY PlainPath, PctPath DEF PathStates
<1>2. QED
  BY <1>1 DEF PortOrUser, PathMove, To, PctFrom, RegName, Alpha, Upper, Digits, Marks, Relaxed

\* A host.
LEMMA HostMoves ==
    ASSUME NEW x \in {"host", "name"}, NEW line \in {"http", "json"}, NEW c \in Chars,
           NEW relax \in BOOLEAN
    PROVE  PathMove(Host(<<x, line>>, c, relax), line, c)
<1>1. /\ InPath(<<"name", line>>, line) /\ InPath(<<"segments", line>>, line)
      /\ InPath(<<"port", line>>, line) /\ InPath(<<"literal", line>>, line)
      /\ InPath(<<"pct", 1, <<"name", line>>>>, line)
  BY PlainPath, PctPath DEF PathStates
<1>2. QED
  BY <1>1 DEF Host, PathMove, To, PctFrom, RegName, Alpha, Upper, Digits, Marks, Relaxed

\* A port, and what follows an IP literal.
LEMMA PortMoves ==
    ASSUME NEW x \in {"port", "literalEnd"}, NEW line \in {"http", "json"}, NEW c \in Chars
    PROVE  PathMove(Port(<<x, line>>, c), line, c)
<1>1. InPath(<<x, line>>, line) /\ InPath(<<"port", line>>, line) /\ InPath(<<"segments", line>>, line)
  BY PlainPath DEF PathStates
<1>2. QED
  BY <1>1 DEF Port, PathMove, To, Digits

\* Two hex digits lead back to where the % was met.
LEMMA PctMoves ==
    ASSUME NEW back, NEW i \in {1, 2}, NEW c \in Chars
    PROVE  \/ Pct(<<"pct", i, back>>, c) = Error
           \/ /\ Pct(<<"pct", i, back>>, c).do = <<>>
              /\ OnWay(Pct(<<"pct", i, back>>, c).cs, back)
              /\ c \in Hex
  BY DEF Pct, To, OnWay

\* What may follow in an IP_literal.
LEMMA Awaits ==
    /\ \A r \in Awaited, x \in Elements : <<x>> \o r \in Awaited
    /\ <<"]">> \in Awaited
    /\ \A r \in Awaited : Len(r) > 1 => Tail(r) \in Awaited
    /\ \A r \in Awaited : r[1] \in Elements /\ (r[1] # "]" => Len(r) > 1 /\ r[2] \in Elements)
<1>1. ASSUME NEW r \in Awaited, NEW x \in Elements PROVE <<x>> \o r \in Awaited
  <2> DEFINE l == <<x>> \o r
  <2>1. r \in Seq(Elements) /\ Len(r) \in Nat /\ Len(r) > 0 /\ r[Len(r)] = "]"
    BY DEF Awaited
  <2>2. l \in Seq(Elements) /\ Len(l) = Len(r) + 1
    BY <2>1
  <2>3. l[Len(r) + 1] = r[Len(r)]
    BY <2>1
  <2> HIDE DEF l
  <2>4. l \in Awaited
    BY <2>1, <2>2, <2>3 DEF Awaited
  <2>5. QED
    BY <2>4 DEF l
<1>2. <<"]">> \in Awaited
  BY DEF Awaited, Elements
<1>3. ASSUME NEW r \in Awaited, Len(r) > 1 PROVE Tail(r) \in Awaited
  <2> DEFINE l == Tail(r)
  <2>1. r \in Seq(Elements) /\ Len(r) \in Nat /\ r[Len(r)] = "]"
    BY DEF Awaited
  <2>2. l \in Seq(Elements) /\ Len(l) = Len(r) - 1
    BY <1>3, <2>1
  <2>3. l[Len(r) - 1] = r[Len(r)]
    BY <1>3, <2>1
  <2> HIDE DEF l
  <2>4. l \in Awaited
    BY <1>3, <2>1, <2>2, <2>3 DEF Awaited
  <2>5. QED
    BY <2>4 DEF l
<1>4. ASSUME NEW r \in Awaited PROVE r[1] \in Elements /\ (r[1] # "]" => Len(r) > 1 /\ r[2] \in Elements)
  BY DEF Awaited
<1>5. QED
  BY <1>1, <1>2, <1>3, <1>4

\* Tuples put behind each other.
LEMMA Joins ==
    ASSUME NEW a, NEW b, NEW d
    PROVE  <<a>> \o <<b>> = <<a, b>> /\ <<a, b>> \o <<d>> = <<a, b, d>>
<1> DEFINE S == {a, b, d}
           l == <<a>> \o <<b>>
           k == <<a, b>> \o <<d>>
<1>1. <<a>> \in Seq(S) /\ <<b>> \in Seq(S) /\ <<d>> \in Seq(S) /\ <<a, b>> \in Seq(S) /\ <<a, b, d>> \in Seq(S)
  OBVIOUS
<1>2. l \in Seq(S) /\ Len(l) = 2 /\ l[1] = a /\ l[2] = b
  BY <1>1
<1>3. k \in Seq(S) /\ Len(k) = 3 /\ k[1] = a /\ k[2] = b /\ k[3] = d
  BY <1>1
<1> HIDE DEF l, k, S
<1>4. \A i \in 1 .. Len(l) : l[i] = <<a, b>>[i]
  BY <1>2
<1>5. \A i \in 1 .. Len(k) : k[i] = <<a, b, d>>[i]
  BY <1>3
<1>6. Len(<<a, b>>) = Len(l) /\ Len(<<a, b, d>>) = Len(k)
  BY <1>2, <1>3
<1>7. l = <<a, b>>
  BY <1>1, <1>2, <1>4, <1>6, SeqEqual
<1>8. k = <<a, b, d>>
  BY <1>1, <1>3, <1>5, <1>6, SeqEqual
<1>9. QED
  BY <1>7, <1>8 DEF l, k

\* Everything that an IP_literal begins with is awaited up to its bracket.
LEMMA ElidedAwaited ==
    ASSUME NEW n
    PROVE  Elided(n) \subseteq Awaited /\ Counted \subseteq Awaited
<1>1. ASSUME NEW l \in ls32 PROVE l \in Awaited
  <2>1. CASE l = <<"h16", ":", "h16", "]">>
    BY <2>1 DEF Elements, Awaited
  <2>2. CASE l = <<"octet", ".", "octet", ".", "octet", ".", "octet", "]">>
    BY <2>2 DEF Elements, Awaited
  <2>3. QED
    BY <2>1, <2>2 DEF ls32
<1>2. ASSUME NEW l \in Counted PROVE l \in Awaited
  <2>1. PICK k \in ls32 : l = <<"h16", ":">> \o k
    BY DEF Counted
  <2>2. k \in Awaited /\ k \in Seq(Elements)
    BY <1>1 DEF Awaited
  <2>3. l = <<"h16">> \o (<<":">> \o k)
    <3>1. <<"h16">> \in Seq(Elements) /\ <<":">> \in Seq(Elements)
      BY DEF Elements
    <3>2. <<"h16">> \o <<":">> = <<"h16", ":">>
      BY Joins
    <3>3. QED
      BY <2>1, <2>2, <3>1, <3>2, ConcatAssociative
  <2>4. <<":">> \o k \in Awaited
    BY <2>2, Awaits DEF Elements
  <2>5. QED
    BY <2>3, <2>4, Awaits DEF Elements
<1>3. ASSUME NEW x \in {"x2", "x3", "x4", "x5"}, NEW r \in Counted PROVE <<x>> \o r \in Awaited
  BY <1>2, Awaits DEF Elements
<1>4. <<"h16", "]">> \in Awaited
  BY DEF Awaited, Elements
<1>5. ASSUME NEW l \in Elided(n) PROVE l \in Awaited
  <2> DEFINE B == {b \in {"x2", "x3", "x4", "x5"} :
                     \/ b = "x5" /\ n = 0
                     \/ b = "x4" /\ n <= 1
                     \/ b = "x3" /\ n # 1
                     \/ b = "x2" /\ (n = 0 \/ n >= 3)}
             P == UNION {{<<x>> \o r : r \in Counted} : x \in B}
  <2>1. Elided(n) = P \union (IF n = 0 \/ n >= 4 THEN Counted ELSE {})
                      \union (IF n = 0 \/ n >= 5 THEN ls32 ELSE {})
                      \union (IF n = 0 \/ n >= 6 THEN {<<"h16", "]">>} ELSE {})
                      \union (IF n = 0 \/ n >= 7 THEN {<<"]">>} ELSE {})
    BY DEF Elided
  <2>2. B \subseteq {"x2", "x3", "x4", "x5"}
    BY Zenon
  <2> HIDE DEF B
  <2>3. ASSUME NEW k \in P PROVE \E x \in {"x2", "x3", "x4", "x5"}, r \in Counted : k = <<x>> \o r
    <3>1. PICK x \in B, r \in Counted : k = <<x>> \o r
      OBVIOUS
    <3>2. QED
      BY <2>2, <3>1
  <2> HIDE DEF P
  <2>4. l \in P \/ l \in Counted \/ l \in ls32 \/ l = <<"h16", "]">> \/ l = <<"]">>
    BY <2>1, Zenon
  <2>5. QED
    BY <1>1, <1>2, <1>3, <1>4, <2>3, <2>4, Awaits
<1>6. QED
  BY <1>2, <1>5

\* The state in front of items is in a path.
LEMMA TailPath ==
    ASSUME NEW items, NEW line, \A i \in items : i = <<i[1], i[2]>> /\ i[2] \in Awaited
    PROVE  InPath(<<"tail", items, line>>, line)
  BY DEF InPath

\* The states in the rest of an IPv6 address are within the path.
LEMMA Tail6Path ==
    ASSUME NEW rests \in SUBSET Awaited, NEW line
    PROVE  InPath(Tail6(rests) \o <<line>>, line)
<1> DEFINE items == {<<"", r>> : r \in rests}
<1>1. Tail6(rests) \o <<line>> = <<"tail", items, line>>
  BY Joins DEF Tail6
<1>2. ASSUME NEW i \in items PROVE i = <<i[1], i[2]>> /\ i[2] \in Awaited
  <2>1. PICK r \in rests : i = <<"", r>>
    OBVIOUS
  <2>2. QED
    BY <2>1
<1> HIDE DEF items
<1>3. QED
  BY <1>1, <1>2, TailPath

\* A step that stays in the path is one that PathMove allows.
LEMMA Stays ==
    ASSUME NEW cs, NEW line, NEW c, InPath(cs, line), c \notin {"SP", "?", "#"}
    PROVE  PathMove(To(cs, <<>>), line, c)
  BY DEF PathMove, To

\* The bracket of an IP literal, and a colon it begins with.
LEMMA LiteralMoves ==
    ASSUME NEW line \in {"http", "json"}, NEW c \in Chars
    PROVE  /\ PathMove(Literal(<<"literal", line>>, c), line, c)
           /\ PathMove(Colon(<<"colon", line>>, c), line, c)
<1>1. /\ InPath(<<"groups", 1, 1, line>>, line) /\ InPath(<<"future", 1, line>>, line)
      /\ InPath(<<"colon", line>>, line)
      /\ InPath(Tail6(Counted) \o <<line>>, line) /\ InPath(Tail6(Elided(0)) \o <<line>>, line)
  <2>1. InPath(Tail6(Counted) \o <<line>>, line) /\ InPath(Tail6(Elided(0)) \o <<line>>, line)
    BY ElidedAwaited, Tail6Path
  <2>2. InPath(<<"groups", 1, 1, line>>, line) /\ InPath(<<"future", 1, line>>, line)
    BY DEF InPath
  <2>3. QED
    BY <2>1, <2>2, PlainPath DEF PathStates
<1>2. QED
  BY <1>1 DEF Literal, Colon, PathMove, To, Hex, Digits

\* The groups of an IPv6 address before any elision.
LEMMA GroupsMoves ==
    ASSUME NEW n \in 1 .. 7, NEW d \in 0 .. 4, NEW line \in {"http", "json"}, NEW c \in Chars
    PROVE  PathMove(Groups(<<"groups", n, d, line>>, c), line, c)
<1> DEFINE cs == <<"groups", n, d, line>>
           move == Groups(cs, c)
<1>2. InPath(Tail6(Elided(n)) \o <<line>>, line)
  BY ElidedAwaited, Tail6Path
<1>3. cs[2] = n /\ cs[3] = d /\ cs[4] = line
  OBVIOUS
<1> HIDE DEF cs
<1>4. c \in Hex => c \notin {"SP", "?", "#", ":"}
  BY DEF Hex, Digits
<1>5. CASE c \in Hex /\ d \in 1 .. 3
  <2> DEFINE k == d + 1
  <2>1. move = To(<<"groups", n, k, line>>, <<>>) /\ k \in 0 .. 4
    BY <1>3, <1>4, <1>5 DEF Groups
  <2> HIDE DEF k
  <2>2. InPath(<<"groups", n, k, line>>, line)
    BY <2>1 DEF InPath
  <2>3. QED
    BY <1>4, <1>5, <2>1, <2>2, Stays DEF cs
<1>6. CASE c \in Hex /\ d = 0
  <2> DEFINE k == IF n = 7 THEN 7 ELSE n + 1
  <2>1. move = To(<<"groups", k, 1, line>>, <<>>)
    BY <1>3, <1>4, <1>6 DEF Groups
  <2>2. k \in 1 .. 7
    OBVIOUS
  <2> HIDE DEF k
  <2>3. InPath(<<"groups", k, 1, line>>, line)
    BY <2>2 DEF InPath
  <2>4. QED
    BY <1>4, <1>6, <2>1, <2>3, Stays DEF cs
<1>7. CASE c = ":"
  <2>1. move \in {To(<<"groups", n, 0, line>>, <<>>), To(Tail6(Elided(n)) \o <<line>>, <<>>)}
    BY <1>3, <1>4, <1>7 DEF Groups
  <2>2. InPath(<<"groups", n, 0, line>>, line)
    BY DEF InPath
  <2>3. QED
    BY <1>2, <1>7, <2>1, <2>2, Stays DEF cs
<1>8. CASE ~(c \in Hex /\ d \in 0 .. 3) /\ c # ":"
  BY <1>3, <1>8 DEF Groups, PathMove, cs
<1>9. QED
  BY <1>5, <1>6, <1>7, <1>8

\* An address of a future version.
LEMMA FutureMoves ==
    ASSUME NEW i \in 1 .. 4, NEW line \in {"http", "json"}, NEW c \in Chars, NEW relax \in BOOLEAN
    PROVE  PathMove(Future(<<"future", i, line>>, c, relax), line, c)
<1> DEFINE cs == <<"future", i, line>>
           move == Future(cs, c, relax)
<1>1. cs[2] = i /\ cs[3] = line
  OBVIOUS
<1> HIDE DEF cs
<1>2. /\ InPath(<<"future", 2, line>>, line) /\ InPath(<<"future", 3, line>>, line)
      /\ InPath(<<"future", 4, line>>, line) /\ InPath(<<"literalEnd", line>>, line)
  BY PlainPath DEF InPath, PathStates
<1>3. \/ move = Error
      \/ /\ c \notin {"SP", "?", "#"}
         /\ move \in {To(<<"future", 2, line>>, <<>>), To(<<"future", 3, line>>, <<>>),
                      To(<<"future", 4, line>>, <<>>), To(<<"literalEnd", line>>, <<>>)}
  BY <1>1 DEF Future, RegName, Hex, Alpha, Upper, Digits, Marks, Relaxed
<1>4. CASE move = Error
  BY <1>4 DEF PathMove, cs
<1>5. QED
  BY <1>2, <1>3, <1>4, Stays DEF cs

\* An item becomes items of the same kind, or is used up at the bracket.
LEMMA ItemMoves ==
    ASSUME NEW item, item = <<item[1], item[2]>>, item[2] \in Awaited, NEW c \in Chars,
           NEW j \in ItemStep(item, c)
    PROVE  /\ c \notin {"SP", "?", "#"}
           /\ j = <<"", <<>>>> \/ (j = <<j[1], j[2]>> /\ j[2] \in Awaited)
<1> DEFINE p == item[1]
           rest == item[2]
<1>1. rest \in Awaited /\ rest \in Seq(Elements)
  BY DEF Awaited
<1>2. rest[1] \in Elements /\ (rest[1] # "]" => Len(rest) > 1 /\ rest[2] \in Elements)
  BY <1>1, Awaits
<1>3. Len(rest) > 1 => Tail(rest) \in Awaited
  BY <1>1, Awaits
<1>4. Len(rest) <= 1 => Tail(rest) = <<>>
  BY <1>1 DEF Awaited
<1>5. ASSUME Len(rest) > 1
      PROVE  SubSeq(rest, 3, Len(rest)) \in Awaited \/ SubSeq(rest, 3, Len(rest)) = <<>>
  <2> HIDE DEF rest
  <2>1. SubSeq(rest, 3, Len(rest)) = Tail(Tail(rest))
    <3> DEFINE k == Tail(rest)
    <3>1. k \in Seq(Elements) /\ Len(k) = Len(rest) - 1
      BY <1>1, <1>5
    <3>2. \A i \in 1 .. Len(k) : k[i] = rest[i + 1]
      BY <1>1, <1>5
    <3> HIDE DEF k
    <3>3. Tail(k) \in Seq(Elements) /\ Len(Tail(k)) = Len(rest) - 2
      BY <1>1, <1>5, <3>1
    <3>4. \A i \in 1 .. (Len(rest) - 2) : Tail(k)[i] = rest[i + 2]
      <4> SUFFICES ASSUME NEW i \in 1 .. (Len(rest) - 2) PROVE Tail(k)[i] = rest[i + 2]
        OBVIOUS
      <4>1. Tail(k)[i] = k[i + 1]
        BY <1>1, <1>5, <3>1
      <4>2. i + 1 \in 1 .. Len(k) /\ (i + 1) + 1 = i + 2
        BY <1>1, <1>5, <3>1
      <4>3. QED
        BY <3>2, <4>1, <4>2
    <3>5. /\ SubSeq(rest, 3, Len(rest)) \in Seq(Elements)
          /\ Len(SubSeq(rest, 3, Len(rest))) = Len(rest) - 2
          /\ \A i \in 1 .. (Len(rest) - 2) : SubSeq(rest, 3, Len(rest))[i] = rest[i + 2]
      BY <1>1, <1>5
    <3>6. SubSeq(rest, 3, Len(rest)) = Tail(k)
      BY <3>3, <3>4, <3>5, SeqEqual
    <3>7. QED
      BY <3>6 DEF k
  <2>2. Tail(rest) \in Awaited
    BY <1>3, <1>5
  <2>3. Len(Tail(rest)) > 1 => Tail(Tail(rest)) \in Awaited
    BY <2>2, Awaits
  <2>4. Len(Tail(rest)) <= 1 => Tail(Tail(rest)) = <<>>
    BY <2>2 DEF Awaited
  <2>5. Len(Tail(rest)) \in Nat
    BY <2>2 DEF Awaited
  <2>6. CASE Len(Tail(rest)) > 1
    BY <2>1, <2>3, <2>6
  <2>7. CASE Len(Tail(rest)) <= 1
    BY <2>1, <2>4, <2>7
  <2>8. QED
    BY <2>5, <2>6, <2>7
<1> HIDE DEF p, rest
<1>6. \/ j[2] = rest /\ j = <<j[1], j[2]>> /\ rest[1] \in {"h16", "octet"} /\ c \in Hex
      \/ j = <<"", SubSeq(rest, 3, Len(rest))>> /\ rest[1] \in {"h16", "octet"} /\ rest[2] = c
      \/ j = <<"", Tail(rest)>> /\ rest[1] = c
  <2> DEFINE more == CASE rest[1] = "h16" -> H16(p, c) [] rest[1] = "octet" -> Octet(p, c) [] OTHER -> "none"
             over == CASE rest[1] = "h16" -> p # "" [] rest[1] = "octet" -> OctetDone(p) [] OTHER -> FALSE
  <2>1. ItemStep(item, c) = (IF more # "none" THEN {<<more, rest>>} ELSE {})
          \union (IF over /\ rest[2] = c THEN {<<"", SubSeq(rest, 3, Len(rest))>>} ELSE {})
          \union (IF rest[1] = c THEN {<<"", Tail(rest)>>} ELSE {})
    BY DEF ItemStep, p, rest
  <2>2. more # "none" => rest[1] \in {"h16", "octet"} /\ c \in Hex
    BY DEF H16, Octet, Hex, Digits
  <2>3. over => rest[1] \in {"h16", "octet"}
    BY Zenon
  <2> HIDE DEF more, over
  <2>4. \/ more # "none" /\ j = <<more, rest>>
        \/ over /\ rest[2] = c /\ j = <<"", SubSeq(rest, 3, Len(rest))>>
        \/ rest[1] = c /\ j = <<"", Tail(rest)>>
    BY <2>1, Zenon
  <2>5. CASE more # "none" /\ j = <<more, rest>>
    <3>1. j[1] = more /\ j[2] = rest
      BY <2>5
    <3>2. QED
      BY <2>2, <2>5, <3>1, Zenon
  <2>6. QED
    BY <2>3, <2>4, <2>5, Zenon
<1>7. c \notin {"SP", "?", "#"}
  BY <1>2, <1>6 DEF Hex, Digits, Elements
<1>8. j = <<"", <<>>>> \/ (j = <<j[1], j[2]>> /\ j[2] \in Awaited)
  <2>1. Len(rest) \in Nat
    BY <1>1
  <2>2. CASE j = <<"", Tail(rest)>>
    <3>1. j[1] = "" /\ j[2] = Tail(rest)
      BY <2>2
    <3>2. CASE Len(rest) > 1
      BY <1>3, <2>2, <3>1, <3>2, Zenon
    <3>3. CASE Len(rest) <= 1
      BY <1>4, <2>2, <3>3, Zenon
    <3>4. Len(rest) > 1 \/ Len(rest) <= 1
      BY <2>1
    <3>5. QED
      BY <3>2, <3>3, <3>4, Zenon
  <2>3. CASE j = <<"", SubSeq(rest, 3, Len(rest))>> /\ rest[1] \in {"h16", "octet"}
    <3>1. j[1] = "" /\ j[2] = SubSeq(rest, 3, Len(rest))
      BY <2>3
    <3>2. SubSeq(rest, 3, Len(rest)) \in Awaited \/ SubSeq(rest, 3, Len(rest)) = <<>>
      BY <1>2, <1>5, <2>3
    <3>3. j = <<"", SubSeq(rest, 3, Len(rest))>>
      BY <2>3
    <3>4. CASE SubSeq(rest, 3, Len(rest)) = <<>>
      BY <3>3, <3>4
    <3>5. CASE SubSeq(rest, 3, Len(rest)) \in Awaited
      BY <3>1, <3>3, <3>5, Zenon
    <3>6. QED
      BY <3>2, <3>4, <3>5, Zenon
  <2>4. QED
    BY <1>1, <1>6, <2>2, <2>3, Zenon
<1>9. QED
  BY <1>7, <1>8

\* The rest of an IPv6 address: every reading of it is within the path.
LEMMA TailMoves ==
    ASSUME NEW items, NEW line \in {"http", "json"}, NEW c \in Chars,
           \A i \in items : i = <<i[1], i[2]>> /\ i[2] \in Awaited
    PROVE  PathMove(Items(<<"tail", items, line>>, c), line, c)
<1> DEFINE cs == <<"tail", items, line>>
           next == UNION {ItemStep(i, c) : i \in items}
           move == Items(cs, c)
<1>1. cs[2] = items /\ cs[3] = line
  OBVIOUS
<1> HIDE DEF cs
<1>2. move = IF next = {} THEN Error
             ELSE IF <<"", <<>>>> \in next THEN To(<<"literalEnd", line>>, <<>>)
             ELSE To(<<"tail", next, line>>, <<>>)
  BY <1>1 DEF Items
<1>3. ASSUME NEW j \in next
      PROVE  /\ c \notin {"SP", "?", "#"}
             /\ j = <<"", <<>>>> \/ (j = <<j[1], j[2]>> /\ j[2] \in Awaited)
  <2>1. PICK i \in items : j \in ItemStep(i, c)
    OBVIOUS
  <2>2. i = <<i[1], i[2]>> /\ i[2] \in Awaited
    OBVIOUS
  <2>3. QED
    BY <2>1, <2>2, ItemMoves
<1> HIDE DEF next, move
<1>4. CASE next = {}
  BY <1>2, <1>4 DEF PathMove, move, cs
<1>5. CASE next # {} /\ <<"", <<>>>> \in next
  <2>1. InPath(<<"literalEnd", line>>, line) /\ c \notin {"SP", "?", "#"}
    BY <1>3, <1>5, PlainPath DEF PathStates
  <2>2. move = To(<<"literalEnd", line>>, <<>>)
    BY <1>2, <1>5
  <2>3. QED
    BY <2>1, <2>2, Stays DEF move, cs
<1>6. CASE next # {} /\ <<"", <<>>>> \notin next
  <2>1. \A j \in next : j = <<j[1], j[2]>> /\ j[2] \in Awaited
    BY <1>3, <1>6, Zenon
  <2>2. InPath(<<"tail", next, line>>, line) /\ c \notin {"SP", "?", "#"}
    BY <1>3, <1>6, <2>1, TailPath
  <2>3. move = To(<<"tail", next, line>>, <<>>)
    BY <1>2, <1>6
  <2>4. QED
    BY <2>2, <2>3, Stays DEF move, cs
<1>7. QED
  BY <1>4, <1>5, <1>6

\* In every state of a path a byte moves within it, ends it or is refused.
LEMMA PathMoves ==
    ASSUME NEW cs, NEW line \in {"http", "json"}, InPath(cs, line), NEW c \in Chars, NEW relax \in BOOLEAN
    PROVE  PathMove(Http11Step(cs, c, relax), line, c)
<1> DEFINE move == Http11Step(cs, c, relax)
<1>1. ASSUME NEW x \in PathStates, cs = <<x, line>> PROVE PathMove(move, line, c)
  <2>1. cs[1] = x
    BY <1>1
  <2>2. CASE x = "noscheme"
    BY <1>1, <2>1, <2>2, RequestSwitch, NoschemeMoves
  <2>3. CASE x = "segments"
    BY <1>1, <2>1, <2>3, RequestSwitch, SegmentsMoves
  <2>4. CASE x = "slash"
    BY <1>1, <2>1, <2>4, RequestSwitch, SlashMoves
  <2>5. CASE x \in {"authority", "userOrHost"}
    BY <1>1, <2>1, <2>5, RequestSwitch, AuthorityMoves
  <2>6. CASE x \in {"portOrUser", "user"}
    BY <1>1, <2>1, <2>6, RequestSwitch, UserMoves
  <2>7. CASE x \in {"host", "name"}
    BY <1>1, <2>1, <2>7, RequestSwitch, HostMoves
  <2>8. CASE x \in {"port", "literalEnd"}
    BY <1>1, <2>1, <2>8, RequestSwitch, PortMoves
  <2>9. CASE x = "literal"
    BY <1>1, <2>1, <2>9, RequestSwitch, LiteralMoves
  <2>10. CASE x = "colon"
    BY <1>1, <2>1, <2>10, RequestSwitch, LiteralMoves
  <2>11. QED
    BY <2>2, <2>3, <2>4, <2>5, <2>6, <2>7, <2>8, <2>9, <2>10 DEF PathStates
<1>2. ASSUME NEW i \in {1, 2}, NEW x \in PathStates, cs = <<"pct", i, <<x, line>>>> PROVE PathMove(move, line, c)
  <2>1. move = Pct(cs, c)
    BY <1>2, RequestSwitch
  <2>2. OnWay(move.cs, <<x, line>>) => InPath(move.cs, line)
    BY PlainPath, PctPath DEF OnWay
  <2>3. c \in Hex => c \notin {"SP", "?", "#"}
    BY DEF Hex, Digits
  <2>4. QED
    BY <1>2, <2>1, <2>2, <2>3, PctMoves, ZenonT(60) DEF PathMove
<1>3. ASSUME NEW n \in 1 .. 7, NEW d \in 0 .. 4, cs = <<"groups", n, d, line>> PROVE PathMove(move, line, c)
  <2>1. move = Groups(<<"groups", n, d, line>>, c)
    BY <1>3, RequestSwitch
  <2>2. QED
    BY <2>1, GroupsMoves
<1>4. ASSUME NEW i \in 1 .. 4, cs = <<"future", i, line>> PROVE PathMove(move, line, c)
  <2>1. move = Future(<<"future", i, line>>, c, relax)
    BY <1>4, RequestSwitch
  <2>2. QED
    BY <2>1, FutureMoves
<1>5. ASSUME cs[1] = "tail", cs = <<"tail", cs[2], line>>, \A i \in cs[2] : i = <<i[1], i[2]>> /\ i[2] \in Awaited
      PROVE  PathMove(move, line, c)
  <2> DEFINE items == cs[2]
  <2>1. move = Items(<<"tail", items, line>>, c)
    BY <1>5, RequestSwitch
  <2>2. \A i \in items : i = <<i[1], i[2]>> /\ i[2] \in Awaited
    BY <1>5
  <2> HIDE DEF items, move
  <2>3. QED
    BY <2>1, <2>2, TailMoves
<1>6. QED
  BY <1>1, <1>2, <1>3, <1>4, <1>5 DEF InPath

(***************************************************************************)
(* What an action does to the parser.                                      *)
(***************************************************************************)

\* Two parsers with the same marks, texts or place.
SameMarks(s, t) ==
    /\ t.mark = s.mark /\ t.query_start = s.query_start
    /\ t.field_start = s.field_start /\ t.field_len = s.field_len
SameTexts(s, t) == t.data = s.data /\ t.field = s.field /\ t.m_error = s.m_error
SamePlace(s, t) == t.cs = s.cs /\ t.done = s.done

\* The text delivered for a token is something, and all of it when its mark is.
LEMMA DeliveredSlice ==
    ASSUME NEW token, token # "buffer", NEW start
    PROVE  /\ Delivered(token, start) \in {"whole", "tail", "empty", "other"}
           /\ token \in start => Delivered(token, start) = "whole"
           /\ token \notin start /\ start = Zero /\ began => Delivered(token, start) = "tail"
<1>1. CASE token \in start
  <2>1. start # Zero
    BY <1>1 DEF Zero
  <2>2. QED
    BY <1>1, <2>1 DEF Delivered
<1>2. CASE token \notin start
  BY <1>2 DEF Delivered
<1>3. QED
  BY <1>1, <1>2

\* What begins at a byte is something a mark may point at.
LEMMA BeginsTokens ==
    ASSUME NEW c
    PROVE  Begins(c) \in SUBSET Points
<1>1. Begins(c) \subseteq {"method", "path", "version", "size", "query", "fragment", "status", "reason",
                           "name", "value"}
  BY DEF Begins
<1>2. QED
  BY <1>1 DEF Points, Tokens, RequestTokens, ResponseTokens

\* mark and start_value set the mark and nothing else.
LEMMA ActMark ==
    ASSUME NEW s, Shaped(s), NEW c, NEW choice, NEW a \in {"mark", "start_value"}
    PROVE  LET t == Act(a, s, c, choice)
           IN /\ Shaped(t) /\ SameTexts(s, t) /\ SamePlace(s, t)
              /\ t.mark = Begins(c) /\ t.query_start = s.query_start
              /\ t.field_start = s.field_start /\ t.field_len = s.field_len
<1>1. Act(a, s, c, choice) = [s EXCEPT !.mark = Begins(c)]
  BY DoMark
<1>2. QED
  BY <1>1, BeginsTokens DEF Shaped, SameTexts, SamePlace

\* start_query sets query_start and nothing else.
LEMMA ActQuery ==
    ASSUME NEW s, Shaped(s), NEW c, NEW choice
    PROVE  LET t == Act("start_query", s, c, choice)
           IN /\ Shaped(t) /\ SameTexts(s, t) /\ SamePlace(s, t)
              /\ t.mark = s.mark /\ t.query_start = Begins(c)
              /\ t.field_start = s.field_start /\ t.field_len = s.field_len
<1>1. Act("start_query", s, c, choice) = [s EXCEPT !.query_start = Begins(c)]
  BY DoStartQuery
<1>2. QED
  BY <1>1, BeginsTokens DEF Shaped, SameTexts, SamePlace

\* start_field sets field_start; the length it leaves is zero or stale.
LEMMA ActStartField ==
    ASSUME NEW s, Shaped(s), NEW c, NEW choice
    PROVE  LET t == Act("start_field", s, c, choice)
           IN /\ Shaped(t) /\ SameTexts(s, t) /\ SamePlace(s, t)
              /\ t.mark = s.mark /\ t.query_start = s.query_start
              /\ t.field_start = Begins(c)
<1> DEFINE len == IF s.field_len = "zero" THEN "zero" ELSE "stale"
<1>1. Act("start_field", s, c, choice) = [s EXCEPT !.field_start = Begins(c), !.field_len = len]
  <2>1. Act("start_field", s, c, choice)
          = [s EXCEPT !.field_start = Begins(c), !.field_len = IF @ = "zero" THEN "zero" ELSE "stale"]
    BY DoStartField, Zenon
  <2>2. QED
    BY <2>1 DEF Shaped
<1>2. len \in {"zero", "some", "stale"}
  OBVIOUS
<1> HIDE DEF len
<1> DEFINE t == [s EXCEPT !.field_start = Begins(c), !.field_len = len]
<1>3. /\ SameTexts(s, t) /\ SamePlace(s, t) /\ t.mark = s.mark /\ t.query_start = s.query_start
      /\ t.field_start = Begins(c)
  BY DEF Shaped, SameTexts, SamePlace
<1>4. Shaped(t)
  BY <1>2, BeginsTokens DEF Shaped
<1>5. QED
  BY <1>1, <1>3, <1>4

\* write_field sets the length of the name.
LEMMA ActWriteField ==
    ASSUME NEW s, Shaped(s), NEW c, NEW choice
    PROVE  LET t == Act("write_field", s, c, choice)
           IN /\ Shaped(t) /\ SameTexts(s, t) /\ SamePlace(s, t)
              /\ t.mark = s.mark /\ t.query_start = s.query_start /\ t.field_start = s.field_start
              /\ t.field_len = IF s.field_start = Zero /\ ~began THEN "zero" ELSE "some"
<1>1. Act("write_field", s, c, choice)
        = [s EXCEPT !.field_len = IF s.field_start = Zero /\ ~began THEN "zero" ELSE "some"]
  BY DoWriteField
<1>2. QED
  BY <1>1 DEF Shaped, SameTexts, SamePlace

\* done stops the machine and leaves the rest.
LEMMA ActDone ==
    ASSUME NEW s, Shaped(s), NEW c, NEW choice
    PROVE  LET t == Act("done", s, c, choice)
           IN Shaped(t) /\ SameTexts(s, t) /\ SameMarks(s, t) /\ t.cs = s.cs /\ t.done
<1>1. Act("done", s, c, choice) = [s EXCEPT !.done = TRUE]
  BY DoDone
<1>2. QED
  BY <1>1 DEF Shaped, SameTexts, SameMarks

\* The actions without an effect on what is modelled.
LEMMA ActNone ==
    ASSUME NEW s, NEW c, NEW choice,
           NEW a \in {"request_uri", "xml", "json", "trans_chunked", "write_connection_close"}
    PROVE  Act(a, s, c, choice) = s
  BY DoNone

\* A token was delivered, whole unless a buffer's end cut it, or refused.
Written(s, t, token) ==
    /\ SameMarks(s, t) /\ t.field = s.field /\ t.done = s.done
    /\ \/ t.m_error # 0 /\ t.data = s.data
       \/ /\ t.m_error = s.m_error
          /\ \E d \in Slices \ {"default"} :
                (d = "whole" \/ token \in cut) /\ t.data = [s.data EXCEPT ![token] = d]

\* The action that delivers a token.
DeliveredBy == [path |-> "request_path", fragment |-> "fragment", status |-> "status_code",
                reason |-> "reason_phrase", size |-> "chunk_size"]

\* A new text for a token.
LEMMA SetsWrites ==
    ASSUME NEW s, Shaped(s), NEW token \in Tokens, NEW d \in Slices \ {"default"}, d = "whole" \/ token \in cut
    PROVE  Shaped(Sets(s, token, d)) /\ Written(s, Sets(s, token, d), token) /\ Sets(s, token, d).cs = s.cs
<1> DEFINE t == Sets(s, token, d)
<1>1. /\ SameMarks(s, t) /\ t.field = s.field /\ SamePlace(s, t) /\ t.m_error = s.m_error
      /\ t.data = [s.data EXCEPT ![token] = d]
  BY DEF Sets, Shaped, SameMarks, SamePlace
<1>2. t.data \in [Tokens -> Slices]
  BY <1>1 DEF Shaped
<1>3. Shaped(t)
  BY <1>2 DEF Shaped, Sets
<1> HIDE DEF t
<1>4. Written(s, t, token) /\ t.cs = s.cs
  BY <1>1 DEF Written, SamePlace
<1>5. QED
  BY <1>3, <1>4 DEF t

\* An error delivers nothing.
LEMMA FailsWrites ==
    ASSUME NEW s, Shaped(s), NEW token, NEW error \in Nat \ {0}
    PROVE  Shaped(Fails(s, error)) /\ Written(s, Fails(s, error), token) /\ Fails(s, error).cs = s.cs
  BY DEF Fails, Shaped, Written, SameMarks

\* The callbacks without a check deliver their token.
LEMMA ActDeliver ==
    ASSUME NEW s, Shaped(s), NEW c, NEW choice, NEW token \in DOMAIN DeliveredBy, Marked(s, token)
    PROVE  LET t == Act(DeliveredBy[token], s, c, choice)
           IN Shaped(t) /\ Written(s, t, token) /\ t.cs = s.cs
<1> DEFINE d == Delivered(token, s.mark)
<1>1. token \in {"path", "fragment", "status", "reason", "size"}
  BY DEF DeliveredBy
<1>2. Act(DeliveredBy[token], s, c, choice) = Sets(s, token, d)
  <2> DEFINE a == DeliveredBy[token]
  <2>1. \/ token = "path" /\ a = "request_path"
        \/ token = "fragment" /\ a = "fragment"
        \/ token = "status" /\ a = "status_code"
        \/ token = "reason" /\ a = "reason_phrase"
        \/ token = "size" /\ a = "chunk_size"
    BY <1>1 DEF DeliveredBy
  <2> HIDE DEF a
  <2>2. Act(a, s, c, choice) = Sets(s, token, d)
    BY <2>1, DoSets
  <2>3. QED
    BY <2>2 DEF a
<1>3. d \in Slices \ {"default"} /\ (d = "whole" \/ token \in cut) /\ token \in Tokens
  BY <1>1, DeliveredSlice DEF Marked, Slices, Tokens, RequestTokens, ResponseTokens
<1> HIDE DEF d
<1>4. QED
  BY <1>2, <1>3, SetsWrites

\* write_content_len delivers the length.
LEMMA ActLength ==
    ASSUME NEW s, Shaped(s), NEW c, NEW choice, "value" \in s.mark \/ "length" \in cut
    PROVE  LET t == Act("write_content_len", s, c, choice)
           IN Shaped(t) /\ Written(s, t, "length") /\ t.cs = s.cs
<1> DEFINE d == Delivered("value", s.mark)
<1>1. Act("write_content_len", s, c, choice) = Sets(s, "length", d)
  BY DoContentLen
<1>2. d \in Slices \ {"default"} /\ (d = "whole" \/ "length" \in cut) /\ "length" \in Tokens
  BY DeliveredSlice DEF Slices, Tokens, RequestTokens, ResponseTokens
<1> HIDE DEF d
<1>3. QED
  BY <1>1, <1>2, SetsWrites

\* request_method delivers the method or fails.
LEMMA ActMethod ==
    ASSUME NEW s, Shaped(s), NEW c, NEW choice, Marked(s, "method")
    PROVE  LET t == Act("request_method", s, c, choice)
           IN Shaped(t) /\ Written(s, t, "method") /\ t.cs = s.cs
<1> DEFINE d == Delivered("method", s.mark)
<1>1. Act("request_method", s, c, choice) \in {Fails(s, 1000), Sets(s, "method", d)}
  <2>1. Act("request_method", s, c, choice) = on_request_method(s, choice)
    BY DoRequestMethod
  <2>2. on_request_method(s, choice) = Fails(s, 1000) \/ on_request_method(s, choice) = Sets(s, "method", d)
    BY OnMethodIs
  <2>3. QED
    BY <2>1, <2>2
<1>2. d \in Slices \ {"default"} /\ (d = "whole" \/ "method" \in cut) /\ "method" \in Tokens
  BY DeliveredSlice DEF Marked, Slices, Tokens, RequestTokens, ResponseTokens
<1> HIDE DEF d
<1>3. QED
  BY <1>1, <1>2, SetsWrites, FailsWrites

\* http_version delivers the version or fails.
LEMMA ActVersion ==
    ASSUME NEW s, Shaped(s), NEW c, NEW choice, Marked(s, "version")
    PROVE  LET t == Act("http_version", s, c, choice)
           IN Shaped(t) /\ Written(s, t, "version") /\ t.cs = s.cs
<1> DEFINE d == Delivered("version", s.mark)
<1>1. Act("http_version", s, c, choice) \in {Fails(s, 1001), Sets(s, "version", d)}
  <2>1. Act("http_version", s, c, choice) = on_version(s, choice)
    BY DoHttpVersion
  <2>2. on_version(s, choice) = Fails(s, 1001) \/ on_version(s, choice) = Sets(s, "version", d)
    BY OnVersionIs
  <2>3. QED
    BY <2>1, <2>2
<1>2. d \in Slices \ {"default"} /\ (d = "whole" \/ "version" \in cut) /\ "version" \in Tokens
  BY DeliveredSlice DEF Marked, Slices, Tokens, RequestTokens, ResponseTokens
<1> HIDE DEF d
<1>3. QED
  BY <1>1, <1>2, SetsWrites, FailsWrites

\* The query, whose offset into an earlier buffer may throw.
LEMMA ActQueryString ==
    ASSUME NEW s, Shaped(s), NEW c, NEW choice, choice.slice \in {"slice", "empty", "crash"},
           "query" \in s.query_start \/ "query" \in cut
    PROVE  LET t == Act("query_string", s, c, choice)
           IN Shaped(t) /\ Written(s, t, "query") /\ t.cs \in {s.cs, <<"crash">>}
<1> DEFINE d == Delivered("query", s.query_start)
           e == IF began THEN choice.slice ELSE "empty"
           x == [s EXCEPT !.data["query"] = "crash", !.cs = <<"crash">>]
           t == Act("query_string", s, c, choice)
<1>1. \/ s.query_start # Old /\ t = Sets(s, "query", d)
      \/ s.query_start = Old /\ t \in {x, Sets(s, "query", e)}
  <2>1. t = on_request_query(s, choice)
    BY DoQueryString
  <2>2. s.query_start # Old => on_request_query(s, choice) = Sets(s, "query", d)
    BY Zenon DEF on_request_query
  <2>3. s.query_start = Old =>
            on_request_query(s, choice) = x \/ on_request_query(s, choice) = Sets(s, "query", e)
    BY Zenon DEF on_request_query
  <2>4. QED
    BY <2>1, <2>2, <2>3, Zenon
<1>2. s.query_start = Old => "query" \in cut
  BY DEF Old
<1>3. /\ d \in Slices \ {"default"} /\ (d = "whole" \/ "query" \in cut) /\ "query" \in Tokens
      /\ e \in Slices \ {"default"}
  BY DeliveredSlice DEF Slices, Tokens, RequestTokens, ResponseTokens
<1>4. ASSUME "query" \in cut PROVE Shaped(x) /\ Written(s, x, "query") /\ x.cs = <<"crash">>
  <2>1. /\ SameMarks(s, x) /\ x.field = s.field /\ x.done = s.done /\ x.m_error = s.m_error
        /\ x.data = [s.data EXCEPT !["query"] = "crash"] /\ x.cs = <<"crash">>
    BY DEF Shaped, SameMarks
  <2>2. "crash" \in Slices \ {"default"}
    BY DEF Slices
  <2>3. x.data \in [Tokens -> Slices]
    BY <2>1, <2>2 DEF Shaped
  <2>4. Shaped(x)
    BY <2>3 DEF Shaped
  <2> HIDE DEF x
  <2>5. Written(s, x, "query")
    BY <1>4, <2>1, <2>2 DEF Written
  <2>6. QED
    BY <2>1, <2>4, <2>5
<1> HIDE DEF d, e, x, t
<1>5. CASE s.query_start # Old
  <2>1. t = Sets(s, "query", d)
    BY <1>1, <1>5
  <2>2. Shaped(Sets(s, "query", d)) /\ Written(s, Sets(s, "query", d), "query")
        /\ Sets(s, "query", d).cs = s.cs
    BY <1>3, SetsWrites
  <2>3. Shaped(t) /\ Written(s, t, "query") /\ t.cs = s.cs
    BY <2>1, <2>2
  <2>4. QED
    BY <2>3 DEF t
<1>6. CASE s.query_start = Old
  <2>1. t \in {x, Sets(s, "query", e)} /\ "query" \in cut
    BY <1>1, <1>2, <1>6
  <2> SUFFICES Shaped(t) /\ Written(s, t, "query") /\ t.cs \in {s.cs, <<"crash">>}
    BY DEF t
  <2>2. CASE t = x
    <3>1. Shaped(x) /\ Written(s, x, "query") /\ x.cs = <<"crash">>
      BY <1>4, <2>1
    <3>2. QED
      BY <2>2, <3>1
  <2>3. CASE t = Sets(s, "query", e)
    <3>1. Shaped(Sets(s, "query", e)) /\ Written(s, Sets(s, "query", e), "query")
          /\ Sets(s, "query", e).cs = s.cs
      BY <1>3, <2>1, SetsWrites
    <3>2. QED
      BY <2>3, <3>1
  <2>4. QED
    BY <2>1, <2>2, <2>3
<1>7. QED
  BY <1>5, <1>6

\* A field was stored as it should be, or refused.
FieldWritten(s, t) ==
    /\ SameMarks(s, t) /\ t.data = s.data /\ SamePlace(s, t)
    /\ FieldFine(s.field) => FieldFine(t.field)
    /\ t.m_error = s.m_error \/ t.m_error # 0

\* The marks of a field's value are held, or the response is behind an empty value.
LEMMA ActWriteValue ==
    ASSUME NEW s, Shaped(s), NEW c, NEW choice,
           \/ FieldHeld(s) /\ ("value" \in s.mark \/ s.field_len = "zero")
           \/ kind = "response" /\ "empty" \in cut
    PROVE  LET t == Act("write_value", s, c, choice)
           IN Shaped(t) /\ FieldWritten(s, t)
<1> DEFINE t == Act("write_value", s, c, choice)
           n == IF s.field_len = "stale" THEN "other" ELSE Delivered("name", s.field_start)
           v == Delivered("value", s.mark)
           u == cut \intersect {"name", "field", "empty"}
           f == [name |-> n, value |-> v, cut |-> u]
<1>1. t = on_http_field(s)
  BY DoWriteValue
<1>2. n \in Slices \union {"none"} /\ v \in Slices \union {"none"} /\ n # "none"
  BY DeliveredSlice DEF Slices
<1>3. CASE s.field_len = "zero"
  <2>1. t = Fails(s, 1002)
    BY <1>1, <1>3, Zenon DEF on_http_field
  <2>2. Shaped(t) /\ t.field = s.field /\ t.data = s.data /\ SamePlace(s, t) /\ SameMarks(s, t) /\ t.m_error = 1002
    BY <2>1 DEF Fails, Shaped, SamePlace, SameMarks
  <2> HIDE DEF t
  <2>3. QED
    BY <2>2 DEF FieldWritten, t
<1>4. CASE s.field_len # "zero"
  <2>1. t = [s EXCEPT !.field = f]
    BY <1>1, <1>4, Zenon DEF on_http_field
  <2>2. FieldFine(f)
    <3>1. CASE kind = "response" /\ "empty" \in cut
      BY <3>1 DEF FieldFine
    <3>2. CASE FieldHeld(s) /\ "value" \in s.mark
      <4>1. s.field_len = "some" /\ NameHeld(s) /\ (s.field_start = Zero => began) /\ v = "whole"
        BY <1>4, <3>2, DeliveredSlice DEF FieldHeld
      <4>2. n = "whole" \/ (n = "tail" /\ "name" \in cut)
        BY <4>1, DeliveredSlice DEF NameHeld
      <4> HIDE DEF n, v
      <4>3. f.name = n /\ f.value = v /\ f.cut = u
        OBVIOUS
      <4> HIDE DEF f
      <4>4. "name" \in cut => u # {}
        OBVIOUS
      <4>5. QED
        BY <4>1, <4>2, <4>3, <4>4 DEF FieldFine
    <3>3. QED
      BY <1>4, <3>1, <3>2
  <2>3. f \in [name : Slices \union {"none"}, value : Slices \union {"none"},
               cut : SUBSET {"name", "field", "empty"}]
    <3> HIDE DEF n, v
    <3>1. u \in SUBSET {"name", "field", "empty"}
      OBVIOUS
    <3> HIDE DEF u
    <3>2. QED
      BY <1>2, <3>1
  <2> HIDE DEF f, t
  <2>4. Shaped(t) /\ t.field = f /\ t.data = s.data /\ SamePlace(s, t) /\ SameMarks(s, t) /\ t.m_error = s.m_error
    BY <2>1, <2>3 DEF Shaped, SamePlace, SameMarks
  <2>5. QED
    BY <2>2, <2>4 DEF FieldWritten, t
<1>5. QED
  BY <1>3, <1>4

(***************************************************************************)
(* One byte.                                                               *)
(***************************************************************************)

\* The parser behind the actions of a step.
After(step, c, choice) == Acts(step.do, [m EXCEPT !.cs = step.cs], c, choice)

\* What has been delivered stays delivered.
Keeps(s, t) ==
    t.m_error = 0 => s.m_error = 0 /\ \A u \in Tokens : s.data[u] # "default" => t.data[u] # "default"

\* Texts that were not touched are as before.
LEMMA TextsSame ==
    ASSUME NEW s, NEW t, Texts(s), SameTexts(s, t)
    PROVE  Texts(t) /\ Keeps(s, t)
  BY DEF Texts, SameTexts, Keeps

\* A token that was delivered whole, or cut, keeps the texts as wanted.
LEMMA TextsWritten ==
    ASSUME NEW s, Shaped(s), NEW t, NEW token \in Tokens, Texts(s), Written(s, t, token)
    PROVE  Texts(t) /\ Keeps(s, t) /\ (t.m_error = 0 => t.data[token] # "default")
<1>1. s.data \in [Tokens -> Slices] /\ t.field = s.field
  BY DEF Shaped, Written
<1>2. CASE t.m_error # 0 /\ t.data = s.data
  BY <1>1, <1>2 DEF Texts, Keeps
<1>3. ASSUME NEW d \in Slices \ {"default"}, d = "whole" \/ token \in cut,
             t.m_error = s.m_error, t.data = [s.data EXCEPT ![token] = d]
      PROVE  Texts(t) /\ Keeps(s, t) /\ t.data[token] # "default"
  BY <1>1, <1>3 DEF Texts, Keeps
<1>4. QED
  BY <1>2, <1>3 DEF Written

\* A field that was stored as wanted keeps the texts as wanted.
LEMMA TextsField ==
    ASSUME NEW s, NEW t, Texts(s), FieldWritten(s, t)
    PROVE  Texts(t) /\ Keeps(s, t)
  BY DEF Texts, FieldWritten, Keeps

\* The machine's move alone.
LEMMA Moves ==
    ASSUME NEW x, Shaped(m)
    PROVE  LET s == [m EXCEPT !.cs = x]
           IN Shaped(s) /\ SameMarks(m, s) /\ SameTexts(m, s) /\ s.done = m.done /\ s.cs = x
  BY DEF Shaped, SameMarks, SameTexts

\* A refused byte.
LEMMA ErrorSound ==
    ASSUME Shaped(m), Texts(m), NEW c, NEW choice, NEW r
    PROVE  Sound(After(Error, c, choice), r)
<1> DEFINE s == [m EXCEPT !.cs = <<"error">>]
<1>1. After(Error, c, choice) = s
  BY Acts0 DEF After, Error, To
<1>2. Shaped(s) /\ SameTexts(m, s) /\ s.cs = <<"error">>
  BY Moves
<1> HIDE DEF s
<1>3. QED
  BY <1>1, <1>2, TextsSame DEF Sound, Given

\* Machine and lexer in the same place.
InPlace(cs, r) ==
    \/ kind = "request" /\ AtRequest(cs, r)
    \/ kind = "response" /\ AtResponse(cs, r)

\* A step without actions, when what is held is what must be held behind it.
LEMMA QuietSound ==
    ASSUME Shaped(m), Texts(m), Paired(m, ref), NEW x, NEW c, NEW choice, NEW r, r # "socket",
           InPlace(x, r), Held(m, r), HasDelivered(m, r)
    PROVE  Sound(After(To(x, <<>>), c, choice), r)
<1> DEFINE s == [m EXCEPT !.cs = x]
<1>1. After(To(x, <<>>), c, choice) = s
  BY Acts0 DEF After, To
<1>2. Shaped(s) /\ SameTexts(m, s) /\ SameMarks(m, s) /\ s.cs = x /\ s.done = m.done
  BY Moves
<1> HIDE DEF s
<1>3. Held(s, r)
  BY <1>2 DEF Held, SameMarks, Marked, NameHeld, FieldHeld, ValueHeld
<1>4. HasDelivered(s, r)
  BY <1>2 DEF HasDelivered, FirstLine, SameTexts
<1>5. Paired(s, r)
  BY <1>2, <1>3, <1>4 DEF Paired, InPlace
<1>6. QED
  BY <1>1, <1>2, <1>5, TextsSame DEF Sound

\* The lexer's step, place by place.
LEMMA RefRequestIs ==
    ASSUME kind = "request", NEW c
    PROVE  /\ ref = "start" => RefStep(c) = IF c \in {"<", "@"} THEN "socket" ELSE "method"
           /\ ref = "method" => RefStep(c) = IF c = "SP" THEN "target" ELSE "method"
           /\ ref = "target" => RefStep(c) = TargetEnds(c, IF c \in Alpha THEN "scheme" ELSE "path")
           /\ ref = "scheme" => RefStep(c) =
                IF c = ":" THEN "hier"
                ELSE TargetEnds(c, IF c \in Alpha \union Digits \union {"+", "-", "."} THEN "scheme" ELSE "path")
           /\ ref \in {"hier", "path"} => RefStep(c) = TargetEnds(c, "path")
           /\ ref \in {"query0", "query"} => RefStep(c) =
                CASE c = "SP" -> "version0" [] c = "#" -> "fragment0" [] OTHER -> "query"
           /\ ref \in {"fragment0", "fragment"} => RefStep(c) = IF c = "SP" THEN "version0" ELSE "fragment"
           /\ ref \in {"version0", "version"} => RefStep(c) = LineEnds(c, "version")
           /\ ref = "socket" => RefStep(c) = "socket"
  BY DEF RefStep, RefRequest

\* Header fields are read in the same way in both kinds.
LEMMA RefFieldIs ==
    ASSUME NEW c
    PROVE  /\ ref = "line" => RefStep(c) =
                CASE c = "LF" -> "end" [] c = "CR" -> "lineCR" [] Blank(c) -> "blank" [] OTHER -> "name"
           /\ ref = "lineCR" => RefStep(c) = CASE c = "LF" -> "end" [] c = ":" -> "blank" [] OTHER -> "name"
           /\ ref = "name" => RefStep(c) = IF c = ":" THEN "blank" ELSE "name"
           /\ ref = "blank" => RefStep(c) = IF Blank(c) THEN "blank" ELSE LineEnds(c, "value")
           /\ ref = "value" => RefStep(c) = LineEnds(c, "value")
           /\ ref = "eol" => RefStep(c) = "line"
  BY DEF RefStep

\* The actions of a step begin where the machine has moved to.
LEMMA AfterIs ==
    ASSUME NEW x, NEW do, NEW c, NEW choice
    PROVE  After(To(x, do), c, choice) = Acts(do, [m EXCEPT !.cs = x], c, choice)
  BY DEF After, To

\* A step that only sets the mark.
LEMMA MarkSound ==
    ASSUME Shaped(m), Texts(m), Paired(m, ref), NEW x, NEW c, NEW choice, InPlace(x, RefStep(c)),
           RefStep(c) \in {"method", "path", "fragment", "version", "status", "reason", "size", "scheme", "socket"},
           RefStep(c) \in Tokens => RefStep(c) \in Begins(c),
           RefStep(c) \in {"scheme", "socket"} => "path" \in Begins(c),
           HasDelivered(m, RefStep(c))
    PROVE  Sound(After(To(x, <<"mark">>), c, choice), RefStep(c))
<1> DEFINE r == RefStep(c)
           s == [m EXCEPT !.cs = x]
           t == Act("mark", s, c, choice)
<1>1. After(To(x, <<"mark">>), c, choice) = Acts(<<"mark">>, s, c, choice)
  BY AfterIs, Zenon
<1>2. Shaped(s) /\ SameTexts(m, s) /\ SameMarks(m, s) /\ s.cs = x /\ s.done = m.done
  BY Moves
<1> HIDE DEF s
<1>0. Acts(<<"mark">>, s, c, choice) = t
  BY Acts1
<1>3. Shaped(t) /\ SameTexts(s, t) /\ SamePlace(s, t) /\ t.mark = Begins(c)
  BY <1>2, ActMark
<1> HIDE DEF t, r
<1>4. t.cs = x /\ ~t.done /\ SameTexts(m, t)
  BY <1>2, <1>3 DEF SamePlace, SameTexts, Paired
<1>5. Held(t, r)
  BY <1>3 DEF Held, Marked, r, Tokens, RequestTokens, ResponseTokens
<1>6. HasDelivered(t, r)
  BY <1>4 DEF HasDelivered, FirstLine, SameTexts, r
<1>7. Paired(t, r)
  BY <1>4, <1>5, <1>6 DEF Paired, InPlace, r
<1>8. QED
  BY <1>0, <1>1, <1>3, <1>4, <1>7, TextsSame DEF Sound, r

\* Where nothing need be held.
FreeRefs == {"target", "hier", "query0", "fragment0", "version0", "line", "eol", "status0", "reason0",
             "ext0", "endCR"}
\* At these places of the lexer no mark is needed.
LEMMA FreeSound ==
    ASSUME NEW t, Shaped(t), Texts(t), ~t.done, "empty" \notin cut, NEW r \in FreeRefs, InPlace(t.cs, r),
           HasDelivered(t, r)
    PROVE  Sound(t, r)
<1>1. Held(t, r)
  BY DEF Held, FreeRefs
<1>2. QED
  BY <1>1 DEF Sound, Paired, InPlace

\* What a byte chooses.
Decided == [known : BOOLEAN, slice : {"slice", "empty", "crash"}]
\* The parser of a request when the lexer is at r, and a byte that keeps it sound.
Reading(r) == kind = "request" /\ relaxed \in BOOLEAN /\ ref = r /\ Shaped(m) /\ Texts(m) /\ Paired(m, r)
RequestSound(c, choice) == Sound(After(Http11Step(m.cs, c, relaxed), c, choice), RefStep(c))

\* Where the machine is when the lexer is at r.
LEMMA ReadingAt ==
    ASSUME NEW r, Reading(r)
    PROVE  /\ ~m.done /\ "empty" \notin cut /\ AtRequest(m.cs, r) /\ Held(m, r) /\ HasDelivered(m, r)
           /\ Shaped(m) /\ Texts(m) /\ Paired(m, ref) /\ ref = r /\ kind = "request" /\ relaxed \in BOOLEAN
  BY DEF Reading, Paired

\* What begins at each place of the lexer.
LEMMA BeginsIs ==
    ASSUME NEW c
    PROVE  /\ ref = "start" /\ kind = "request" => Begins(c) = {"method", "path"}
           /\ ref = "start" /\ kind = "response" => Begins(c) = {"version", "size"}
           /\ ref \in {"target", "hier"} => Begins(c) = {"path"}
           /\ ref = "query0" => Begins(c) = {"query"}
           /\ ref = "fragment0" => Begins(c) = {"fragment"}
           /\ ref = "version0" => Begins(c) = {"version"}
           /\ ref = "status0" => Begins(c) = {"status"}
           /\ ref = "reason0" => Begins(c) = {"reason"}
           /\ ref = "line" => Begins(c) = {"name", "value"}
           /\ ref = "ext0" => Begins(c) = {"name"}
           /\ ref = "extEq" => Begins(c) = {"value"}
           /\ ref = "ext" /\ c \in {"LF", "CR", ";"} => Begins(c) = {"value"}
           /\ ref = "blank" /\ ~Blank(c) => Begins(c) = {"value"}
<1>1. CASE ref = "start"
  <2>1. Begins(c) = IF kind = "request" THEN {"method", "path"} ELSE {"version", "size"}
    BY <1>1, Zenon DEF Begins
  <2>2. QED
    BY <1>1, <2>1
<1>2. CASE ref # "start"
  BY <1>2 DEF Begins
<1>3. QED
  BY <1>1, <1>2

\* The first byte of a request.
LEMMA AtStart ==
    ASSUME Reading("start"), NEW c \in Chars, NEW choice
    PROVE  RequestSound(c, choice)
<1> USE ReadingAt
<1>1. m.cs = <<"start">>
  BY DEF AtRequest
<1>2. Http11Step(m.cs, c, relaxed) = Start(c)
  BY <1>1, RequestSwitch
<1>3. Begins(c) = {"method", "path"}
  BY BeginsIs
<1>0. RefStep(c) = IF c \in {"<", "@"} THEN "socket" ELSE "method"
  BY RefRequestIs
<1>4. HasDelivered(m, "method") /\ HasDelivered(m, "socket")
  BY DEF HasDelivered, HeadRefs, BehindMethod, BehindPath
<1>5. CASE c \in Upper \union Digits
  <2>1. Start(c) = To(<<"method", 1>>, <<"mark">>) /\ RefStep(c) = "method"
    BY <1>0, <1>5 DEF Start, Upper, Digits
  <2>2. InPlace(<<"method", 1>>, "method")
    BY DEF InPlace, AtRequest
  <2>3. QED
    BY <1>2, <1>3, <1>4, <2>1, <2>2, MarkSound DEF RequestSound
<1>6. CASE c = "<"
  <2>1. Start(c) = To(<<"xml", "open">>, <<"mark">>) /\ RefStep(c) = "socket"
    BY <1>0, <1>6 DEF Start, Upper, Digits
  <2>2. InPlace(<<"xml", "open">>, "socket")
    BY DEF InPlace, AtRequest, SocketPath
  <2>3. QED
    BY <1>2, <1>3, <1>4, <2>1, <2>2, MarkSound DEF RequestSound, Tokens, RequestTokens, ResponseTokens
<1>7. CASE c = "@"
  <2>1. Start(c) = To(<<"json", "first">>, <<"mark">>) /\ RefStep(c) = "socket"
    BY <1>0, <1>7 DEF Start, Upper, Digits
  <2>2. InPlace(<<"json", "first">>, "socket")
    BY DEF InPlace, AtRequest, SocketPath
  <2>3. QED
    BY <1>2, <1>3, <1>4, <2>1, <2>2, MarkSound DEF RequestSound, Tokens, RequestTokens, ResponseTokens
<1>8. CASE c \notin Upper \union Digits \union {"<", "@"}
  BY <1>2, <1>8, ErrorSound DEF Start, RequestSound
<1>9. QED
  BY <1>5, <1>6, <1>7, <1>8

\* A token that is delivered.
Passed(s, t, token) ==
    /\ Shaped(t) /\ Texts(t) /\ Keeps(s, t) /\ t.done = s.done
    /\ t.m_error = 0 => t.data[token] # "default"

\* The action that delivers a token, one of those that check what they deliver too.
Delivers(a, token) ==
    \/ token \in DOMAIN DeliveredBy /\ a = DeliveredBy[token]
    \/ token = "method" /\ a = "request_method"
    \/ token = "version" /\ a = "http_version"

\* Each of the callbacks passes its token on.
LEMMA PassedOn ==
    ASSUME NEW s, Shaped(s), Texts(s), NEW c, NEW choice, NEW a, NEW token, Delivers(a, token), Marked(s, token)
    PROVE  LET t == Act(a, s, c, choice) IN Passed(s, t, token) /\ t.cs = s.cs
<1> DEFINE t == Act(a, s, c, choice)
<1>1. token \in Tokens
  BY DEF Delivers, DeliveredBy, Tokens, RequestTokens, ResponseTokens
<1>2. Shaped(t) /\ Written(s, t, token) /\ t.cs = s.cs
  <2>1. CASE token \in DOMAIN DeliveredBy /\ a = DeliveredBy[token]
    BY <2>1, ActDeliver, Zenon
  <2>2. CASE token = "method" /\ a = "request_method"
    BY <2>2, ActMethod
  <2>3. CASE token = "version" /\ a = "http_version"
    BY <2>3, ActVersion
  <2>4. QED
    BY <2>1, <2>2, <2>3 DEF Delivers
<1> HIDE DEF t
<1>3. Passed(s, t, token)
  BY <1>1, <1>2, TextsWritten DEF Passed, Written
<1>4. QED
  BY <1>2, <1>3 DEF t

\* The actions of a step that ends a token: it may be an empty one, that begins there.
Ends(do, token, c) ==
    \E a : /\ Delivers(a, token)
           /\ \/ Marked(m, token) /\ do \in {<<a>>, <<a, "request_uri">>}
              \/ token \in Begins(c) /\ do \in {<<"mark", a>>, <<"mark", a, "request_uri">>}

\* Behind the end of a token it has been delivered, or an error is set.
LEMMA EndsPassed ==
    ASSUME Shaped(m), Texts(m), NEW x, NEW c, NEW choice, NEW do, NEW token, Ends(do, token, c)
    PROVE  LET t == After(To(x, do), c, choice) IN Passed(m, t, token) /\ t.cs = x
<1> DEFINE s == [m EXCEPT !.cs = x]
           u == Act("mark", s, c, choice)
<1>1. After(To(x, do), c, choice) = Acts(do, s, c, choice)
  BY AfterIs, Zenon
<1>2. Shaped(s) /\ SameTexts(m, s) /\ SameMarks(m, s) /\ s.cs = x /\ s.done = m.done
  BY Moves
<1> HIDE DEF s
<1>3. PICK a : /\ Delivers(a, token)
               /\ \/ Marked(m, token) /\ do \in {<<a>>, <<a, "request_uri">>}
                  \/ token \in Begins(c) /\ do \in {<<"mark", a>>, <<"mark", a, "request_uri">>}
  BY DEF Ends
<1>4. ASSUME NEW v, Shaped(v), SameTexts(m, v), v.cs = x, v.done = m.done, Marked(v, token)
      PROVE  LET t == Act(a, v, c, choice) IN Passed(m, t, token) /\ t.cs = x
  <2>1. Texts(v)
    BY <1>4, TextsSame
  <2> DEFINE t == Act(a, v, c, choice)
  <2>2. Passed(v, t, token) /\ t.cs = v.cs
    BY <1>3, <1>4, <2>1, PassedOn
  <2> HIDE DEF t
  <2>3. Keeps(m, t) /\ t.done = m.done
    BY <1>4, <2>2 DEF Keeps, Passed, SameTexts
  <2>4. Passed(m, t, token) /\ t.cs = x
    BY <1>4, <2>2, <2>3 DEF Passed
  <2>5. QED
    BY <2>4 DEF t
<1>5. CASE Marked(m, token) /\ do \in {<<a>>, <<a, "request_uri">>}
  <2>1. Marked(s, token)
    BY <1>2, <1>5 DEF Marked, SameMarks
  <2>2. Acts(do, s, c, choice) = Act(a, s, c, choice)
    BY <1>5, Acts1, Acts2, ActNone
  <2>3. QED
    BY <1>1, <1>2, <1>4, <2>1, <2>2
<1>6. CASE token \in Begins(c) /\ do \in {<<"mark", a>>, <<"mark", a, "request_uri">>}
  <2>1. Shaped(u) /\ SameTexts(s, u) /\ SamePlace(s, u) /\ u.mark = Begins(c)
    BY <1>2, ActMark
  <2>2. Acts(do, s, c, choice) = Act(a, u, c, choice)
    BY <1>6, Acts2, Acts3, ActNone
  <2> HIDE DEF u
  <2>3. SameTexts(m, u) /\ u.cs = x /\ u.done = m.done /\ Marked(u, token)
    BY <1>2, <1>6, <2>1 DEF SameTexts, SamePlace, Marked
  <2>4. QED
    BY <1>1, <1>4, <2>1, <2>2, <2>3
<1>7. QED
  BY <1>3, <1>5, <1>6

\* A step that ends a token, to where nothing need be held.
LEMMA EndSound ==
    ASSUME Shaped(m), Texts(m), Paired(m, ref), NEW x, NEW c, NEW choice, NEW do, NEW token, Ends(do, token, c),
           NEW r \in FreeRefs, InPlace(x, r),
           \A t : Passed(m, t, token) => HasDelivered(t, r)
    PROVE  Sound(After(To(x, do), c, choice), r)
<1> DEFINE t == After(To(x, do), c, choice)
<1>1. Passed(m, t, token) /\ t.cs = x
  BY EndsPassed
<1>2. HasDelivered(t, r)
  BY <1>1
<1> HIDE DEF t
<1>3. QED
  BY <1>1, <1>2, FreeSound DEF Passed, Paired, t

\* The method.
LEMMA AtMethod ==
    ASSUME Reading("method"), NEW c \in Chars, NEW choice
    PROVE  RequestSound(c, choice)
<1> USE ReadingAt
<1>1. PICK i \in 1 .. 20 : m.cs = <<"method", i>>
  BY DEF AtRequest
<1>2. Http11Step(m.cs, c, relaxed) = Method(m.cs, c) /\ m.cs[2] = i
  BY <1>1, RequestSwitch
<1>3. RefStep(c) = IF c = "SP" THEN "target" ELSE "method"
  BY RefRequestIs
<1>4. Marked(m, "method")
  BY DEF Held
<1>5. CASE c = "SP"
  <2>1. Method(m.cs, c) = To(<<"target">>, <<"request_method">>)
    BY <1>5 DEF Method
  <2>2. InPlace(<<"target">>, "target")
    BY DEF InPlace, AtRequest
  <2>3. ASSUME NEW t, Passed(m, t, "method") PROVE HasDelivered(t, "target")
    BY <2>3 DEF Passed, HasDelivered, HeadRefs, BehindPath
  <2>4. Ends(<<"request_method">>, "method", c)
    BY <1>4 DEF Ends, Delivers
  <2>5. Sound(After(To(<<"target">>, <<"request_method">>), c, choice), "target")
    BY <2>2, <2>3, <2>4, EndSound DEF FreeRefs
  <2>6. QED
    BY <1>2, <1>3, <1>5, <2>1, <2>5 DEF RequestSound
<1>6. CASE c # "SP" /\ c \in Upper \union Digits /\ i < 20
  <2> DEFINE j == i + 1
  <2>1. Method(m.cs, c) = To(<<"method", j>>, <<>>) /\ j \in 1 .. 20
    BY <1>2, <1>6 DEF Method
  <2> HIDE DEF j
  <2>2. InPlace(<<"method", j>>, "method")
    BY <2>1 DEF InPlace, AtRequest
  <2>3. QED
    BY <1>2, <1>3, <1>6, <2>1, <2>2, QuietSound DEF RequestSound
<1>7. CASE c # "SP" /\ ~(c \in Upper \union Digits /\ i < 20)
  BY <1>2, <1>7, ErrorSound DEF Method, RequestSound
<1>8. QED
  BY <1>5, <1>6, <1>7

\* An action and two more.
LEMMA JoinsMore ==
    ASSUME NEW a, NEW b, NEW d
    PROVE  <<a>> \o <<b, d>> = <<a, b, d>>
<1> DEFINE S == {a, b, d}
           l == <<a>> \o <<b, d>>
<1>1. <<a>> \in Seq(S) /\ <<b, d>> \in Seq(S) /\ <<a, b, d>> \in Seq(S)
  OBVIOUS
<1>2. l \in Seq(S) /\ Len(l) = 3 /\ l[1] = a /\ l[2] = b /\ l[3] = d
  BY <1>1
<1> HIDE DEF l, S
<1>3. l = <<a, b, d>>
  BY <1>1, <1>2, SeqEqual
<1>4. QED
  BY <1>3 DEF l

\* The end of a path.
LEMMA PathEndSound ==
    ASSUME NEW r \in BehindMethod, Reading(r), NEW c, NEW choice, NEW do, NEW else,
           (do = <<>> /\ Marked(m, "path")) \/ (do = <<"mark">> /\ "path" \in Begins(c))
    PROVE  Sound(After(PathEnds("http", c, do), c, choice), TargetEnds(c, else))
<1> USE ReadingAt
<1>1. ASSUME NEW t, Passed(m, t, "path"), NEW q \in {"version0", "fragment0", "query0"}
      PROVE  HasDelivered(t, q)
  <2>1. m.m_error = 0 => m.data["method"] # "default"
    BY DEF HasDelivered
  <2>2. t.m_error = 0 => t.data["method"] # "default" /\ t.data["path"] # "default"
    BY <1>1, <2>1 DEF Passed, Keeps, Tokens, RequestTokens
  <2>3. QED
    BY <1>1, <2>2 DEF HasDelivered, HeadRefs
<1>2. InPlace(<<"version", 1>>, "version0") /\ InPlace(<<"fragment", 1>>, "fragment0")
      /\ InPlace(<<"query", 1>>, "query0")
  BY DEF InPlace, AtRequest
<1>3. Ends(do \o <<"request_path", "request_uri">>, "path", c) /\ Ends(do \o <<"request_path">>, "path", c)
  <2>1. Delivers("request_path", "path")
    BY DEF Delivers, DeliveredBy
  <2>2. CASE do = <<>> /\ Marked(m, "path")
    <3>1. do \o <<"request_path", "request_uri">> = <<"request_path", "request_uri">>
          /\ do \o <<"request_path">> = <<"request_path">>
      BY <2>2
    <3>2. QED
      BY <2>1, <2>2, <3>1 DEF Ends
  <2>3. CASE do = <<"mark">> /\ "path" \in Begins(c)
    <3>1. do \o <<"request_path", "request_uri">> = <<"mark", "request_path", "request_uri">>
          /\ do \o <<"request_path">> = <<"mark", "request_path">>
      BY <2>3, Joins, JoinsMore
    <3>2. QED
      BY <2>1, <2>3, <3>1 DEF Ends
  <2>4. QED
    BY <2>2, <2>3
<1>4. CASE c = "SP"
  <2>1. PathEnds("http", c, do) = To(<<"version", 1>>, do \o <<"request_path", "request_uri">>)
        /\ TargetEnds(c, else) = "version0"
    BY <1>4 DEF PathEnds, TargetEnds
  <2>2. QED
    BY <1>1, <1>2, <1>3, <2>1, EndSound DEF FreeRefs
<1>5. CASE c = "#"
  <2>1. PathEnds("http", c, do) = To(<<"fragment", 1>>, do \o <<"request_path", "request_uri">>)
        /\ TargetEnds(c, else) = "fragment0"
    BY <1>5 DEF PathEnds, TargetEnds
  <2>2. QED
    BY <1>1, <1>2, <1>3, <2>1, EndSound DEF FreeRefs
<1>6. CASE c = "?"
  <2>1. PathEnds("http", c, do) = To(<<"query", 1>>, do \o <<"request_path">>)
        /\ TargetEnds(c, else) = "query0"
    BY <1>6 DEF PathEnds, TargetEnds
  <2>2. QED
    BY <1>1, <1>2, <1>3, <2>1, EndSound DEF FreeRefs
<1>7. CASE c \notin {"SP", "#", "?"}
  BY <1>7, ErrorSound DEF PathEnds
<1>8. QED
  BY <1>4, <1>5, <1>6, <1>7

\* A path.
LEMMA AtPath ==
    ASSUME Reading("path"), NEW c \in Chars, NEW choice
    PROVE  RequestSound(c, choice)
<1> USE ReadingAt
<1> DEFINE step == Http11Step(m.cs, c, relaxed)
<1>1. InPath(m.cs, "http")
  BY DEF AtRequest
<1>2. PathMove(step, "http", c)
  BY <1>1, PathMoves
<1>3. RefStep(c) = TargetEnds(c, "path")
  BY RefRequestIs
<1>4. Marked(m, "path")
  BY DEF Held
<1> HIDE DEF step
<1>5. CASE step = Error
  BY <1>5, ErrorSound DEF RequestSound, step
<1>6. CASE step.do = <<>> /\ InPath(step.cs, "http") /\ c \notin {"SP", "?", "#"}
  <2>1. RefStep(c) = "path"
    BY <1>3, <1>6 DEF TargetEnds
  <2>2. InPlace(step.cs, "path")
    BY <1>6 DEF InPlace, AtRequest
  <2>3. After(step, c, choice) = After(To(step.cs, <<>>), c, choice)
    BY <1>6 DEF After, To
  <2>4. Sound(After(To(step.cs, <<>>), c, choice), "path")
    BY <2>2, QuietSound
  <2>5. QED
    BY <2>1, <2>3, <2>4 DEF RequestSound, step
<1>7. CASE step = PathEnds("http", c, <<>>)
  <2>1. Sound(After(PathEnds("http", c, <<>>), c, choice), TargetEnds(c, "path"))
    BY <1>4, PathEndSound DEF BehindMethod
  <2>2. QED
    BY <1>3, <1>7, <2>1 DEF RequestSound, step
<1>8. QED
  BY <1>2, <1>5, <1>6, <1>7 DEF PathMove

\* A mark at the first byte of a path.
LEMMA PathBegins ==
    ASSUME NEW r \in {"target", "hier"}, Reading(r), NEW c, NEW choice, NEW x, InPath(x, "http"),
           c \notin {"SP", "?", "#"}, r = "target" => c \notin Alpha
    PROVE  Sound(After(To(x, <<"mark">>), c, choice), RefStep(c))
<1> USE ReadingAt
<1>1. RefStep(c) = "path"
  <2>1. CASE r = "target"
    <3>1. RefStep(c) = TargetEnds(c, IF c \in Alpha THEN "scheme" ELSE "path")
      BY <2>1, RefRequestIs
    <3>2. QED
      BY <2>1, <3>1 DEF TargetEnds
  <2>2. CASE r = "hier"
    <3>1. RefStep(c) = TargetEnds(c, "path")
      BY <2>2, RefRequestIs
    <3>2. QED
      BY <3>1 DEF TargetEnds
  <2>3. QED
    BY <2>1, <2>2
<1>2. Begins(c) = {"path"}
  <2>1. ref \in {"target", "hier"}
    OBVIOUS
  <2>2. QED
    BY <2>1, BeginsIs
<1>3. HasDelivered(m, "path")
  BY DEF HasDelivered, HeadRefs, BehindMethod, BehindPath
<1>4. InPlace(x, "path")
  BY DEF InPlace, AtRequest
<1>5. QED
  BY <1>1, <1>2, <1>3, <1>4, MarkSound

\* The first byte of a target.
LEMMA AtTarget ==
    ASSUME Reading("target"), NEW c \in Chars, NEW choice
    PROVE  RequestSound(c, choice)
<1> USE ReadingAt
<1>1. m.cs = <<"target">>
  BY DEF AtRequest
<1>2. Http11Step(m.cs, c, relaxed) = Target(c, relaxed)
  BY <1>1, RequestSwitch
<1>3. RefStep(c) = TargetEnds(c, IF c \in Alpha THEN "scheme" ELSE "path")
  BY RefRequestIs
<1>4. Begins(c) = {"path"}
  BY BeginsIs
<1>5. CASE c \in Alpha
  <2>1. Target(c, relaxed) = To(<<"scheme">>, <<"mark">>)
    BY <1>5 DEF Target
  <2>2. RefStep(c) = "scheme"
    BY <1>3, <1>5 DEF TargetEnds, Alpha, Upper
  <2>3. HasDelivered(m, "scheme")
    BY DEF HasDelivered, HeadRefs, BehindMethod, BehindPath
  <2>4. InPlace(<<"scheme">>, "scheme")
    BY DEF InPlace, AtRequest
  <2>5. QED
    BY <1>2, <1>4, <2>1, <2>2, <2>3, <2>4, MarkSound DEF RequestSound, Tokens, RequestTokens, ResponseTokens
<1>6. ASSUME NEW x, InPath(x, "http"), Target(c, relaxed) = To(x, <<"mark">>), c \notin {"SP", "?", "#"},
             c \notin Alpha
      PROVE  RequestSound(c, choice)
  BY <1>2, <1>6, PathBegins DEF RequestSound
<1>7. CASE c \notin Alpha /\ (RegName(c, relaxed) \/ c = "@")
  <2>1. Target(c, relaxed) = To(<<"noscheme", "http">>, <<"mark">>)
    BY <1>7 DEF Target
  <2>2. c \notin {"SP", "?", "#"}
    BY <1>7 DEF RegName, Alpha, Upper, Digits, Marks, Relaxed
  <2>3. InPath(<<"noscheme", "http">>, "http")
    BY PlainPath DEF PathStates
  <2>4. QED
    BY <1>6, <1>7, <2>1, <2>2, <2>3
<1>8. CASE c \notin Alpha /\ ~(RegName(c, relaxed) \/ c = "@") /\ c = "%"
  <2>1. Target(c, relaxed) = To(<<"pct", 1, <<"noscheme", "http">>>>, <<"mark">>)
    BY <1>8 DEF Target, PctFrom
  <2>2. InPath(<<"pct", 1, <<"noscheme", "http">>>>, "http")
    BY PctPath DEF PathStates
  <2>3. QED
    BY <1>6, <1>8, <2>1, <2>2
<1>9. CASE c \notin Alpha /\ ~(RegName(c, relaxed) \/ c = "@") /\ c = "/"
  <2>1. Target(c, relaxed) = To(<<"slash", "http">>, <<"mark">>)
    BY <1>9 DEF Target
  <2>2. InPath(<<"slash", "http">>, "http")
    BY PlainPath DEF PathStates
  <2>3. QED
    BY <1>6, <1>9, <2>1, <2>2
<1>10. CASE c \notin Alpha /\ ~(RegName(c, relaxed) \/ c = "@") /\ c \notin {"%", "/"}
  <2>1. Target(c, relaxed) = PathEnds("http", c, <<"mark">>)
    BY <1>10 DEF Target
  <2>2. QED
    BY <1>2, <1>3, <1>4, <2>1, PathEndSound DEF RequestSound, BehindMethod
<1>11. QED
  BY <1>5, <1>7, <1>8, <1>9, <1>10

\* Behind the colon of a scheme.
LEMMA AtHier ==
    ASSUME Reading("hier"), NEW c \in Chars, NEW choice
    PROVE  RequestSound(c, choice)
<1> USE ReadingAt
<1>1. m.cs = <<"hier">>
  BY DEF AtRequest
<1>2. Http11Step(m.cs, c, relaxed) = Hier(c, relaxed)
  BY <1>1, RequestSwitch
<1>3. RefStep(c) = TargetEnds(c, "path")
  BY RefRequestIs
<1>4. Begins(c) = {"path"}
  BY BeginsIs
<1>5. ASSUME NEW x, InPath(x, "http"), Hier(c, relaxed) = To(x, <<"mark">>), c \notin {"SP", "?", "#"}
      PROVE  RequestSound(c, choice)
  BY <1>2, <1>5, PathBegins DEF RequestSound
<1>6. CASE Pchar(c, relaxed)
  <2>1. Hier(c, relaxed) = To(<<"segments", "http">>, <<"mark">>)
    BY <1>6 DEF Hier
  <2>2. c \notin {"SP", "?", "#"}
    BY <1>6 DEF Pchar, RegName, Alpha, Upper, Digits, Marks, Relaxed
  <2>3. InPath(<<"segments", "http">>, "http")
    BY PlainPath DEF PathStates
  <2>4. QED
    BY <1>5, <2>1, <2>2, <2>3
<1>7. CASE ~Pchar(c, relaxed) /\ c = "%"
  <2>1. Hier(c, relaxed) = To(<<"pct", 1, <<"segments", "http">>>>, <<"mark">>)
    BY <1>7 DEF Hier, PctFrom
  <2>2. InPath(<<"pct", 1, <<"segments", "http">>>>, "http")
    BY PctPath DEF PathStates
  <2>3. QED
    BY <1>5, <1>7, <2>1, <2>2
<1>8. CASE ~Pchar(c, relaxed) /\ c = "/"
  <2>1. Hier(c, relaxed) = To(<<"slash", "http">>, <<"mark">>)
    BY <1>8 DEF Hier
  <2>2. InPath(<<"slash", "http">>, "http")
    BY PlainPath DEF PathStates
  <2>3. QED
    BY <1>5, <1>8, <2>1, <2>2
<1>9. CASE ~Pchar(c, relaxed) /\ c \notin {"%", "/"}
  <2>1. Hier(c, relaxed) = PathEnds("http", c, <<"mark">>)
    BY <1>9 DEF Hier
  <2>2. QED
    BY <1>2, <1>3, <1>4, <2>1, PathEndSound DEF RequestSound, BehindMethod
<1>10. QED
  BY <1>6, <1>7, <1>8, <1>9

\* A scheme, or the first segment of a path.
LEMMA AtScheme ==
    ASSUME Reading("scheme"), NEW c \in Chars, NEW choice
    PROVE  RequestSound(c, choice)
<1> USE ReadingAt
<1> DEFINE more == Alpha \union Digits \union {"+", "-", "."}
           step == Noscheme(<<"noscheme", "http">>, c, relaxed)
<1>1. m.cs = <<"scheme">>
  BY DEF AtRequest
<1>2. Http11Step(m.cs, c, relaxed) = Scheme(c, relaxed)
  BY <1>1, RequestSwitch
<1>3. RefStep(c) = IF c = ":" THEN "hier" ELSE TargetEnds(c, IF c \in more THEN "scheme" ELSE "path")
  BY RefRequestIs
<1>4. Marked(m, "path")
  BY DEF Held
<1>5. \A q \in BehindMethod : HasDelivered(m, q)
  BY DEF HasDelivered, HeadRefs, BehindMethod, BehindPath
<1>6. CASE c \in more
  <2>1. Scheme(c, relaxed) = To(<<"scheme">>, <<>>)
    BY <1>6 DEF Scheme
  <2>2. RefStep(c) = "scheme"
    BY <1>3, <1>6 DEF TargetEnds, Alpha, Upper, Digits
  <2>3. InPlace(<<"scheme">>, "scheme")
    BY DEF InPlace, AtRequest
  <2>4. QED
    BY <1>2, <2>1, <2>2, <2>3, QuietSound DEF RequestSound
<1>7. CASE c \notin more /\ c = ":"
  <2>1. Scheme(c, relaxed) = To(<<"hier">>, <<>>)
    BY <1>7 DEF Scheme
  <2>2. RefStep(c) = "hier"
    BY <1>3, <1>7
  <2>3. InPlace(<<"hier">>, "hier")
    BY DEF InPlace, AtRequest
  <2>4. Held(m, "hier")
    BY DEF Held
  <2>5. QED
    BY <1>2, <1>5, <2>1, <2>2, <2>3, <2>4, QuietSound DEF RequestSound, BehindMethod
<1>8. CASE c \notin more /\ c # ":"
  <2>1. Scheme(c, relaxed) = step
    BY <1>8 DEF Scheme
  <2>2. PathMove(step, "http", c)
    BY NoschemeMoves
  <2>3. RefStep(c) = TargetEnds(c, "path")
    BY <1>3, <1>8
  <2> HIDE DEF step
  <2>4. CASE step = Error
    BY <1>2, <2>1, <2>4, ErrorSound DEF RequestSound
  <2>5. CASE step.do = <<>> /\ InPath(step.cs, "http") /\ c \notin {"SP", "?", "#"}
    <3>1. RefStep(c) = "path"
      BY <2>3, <2>5 DEF TargetEnds
    <3>2. InPlace(step.cs, "path")
      BY <2>5 DEF InPlace, AtRequest
    <3>3. After(step, c, choice) = After(To(step.cs, <<>>), c, choice)
      BY <2>5 DEF After, To
    <3>4. Held(m, "path")
      BY <1>4 DEF Held
    <3>5. Sound(After(To(step.cs, <<>>), c, choice), "path")
      BY <1>5, <3>2, <3>4, QuietSound DEF BehindMethod
    <3>6. QED
      BY <1>2, <2>1, <3>1, <3>3, <3>5 DEF RequestSound
  <2>6. CASE step = PathEnds("http", c, <<>>)
    <3>1. Sound(After(PathEnds("http", c, <<>>), c, choice), TargetEnds(c, "path"))
      BY <1>4, PathEndSound DEF BehindMethod
    <3>2. QED
      BY <1>2, <2>1, <2>3, <2>6, <3>1 DEF RequestSound
  <2>7. QED
    BY <2>2, <2>4, <2>5, <2>6 DEF PathMove
<1>9. QED
  BY <1>6, <1>7, <1>8

\* What was delivered stays delivered.
LEMMA KeepsHas ==
    ASSUME NEW s, NEW t, NEW r, HasDelivered(s, r), Keeps(s, t)
    PROVE  HasDelivered(t, r)
<1>1. t.m_error = 0 => s.m_error = 0 /\ \A u \in Tokens : s.data[u] # "default" => t.data[u] # "default"
  BY DEF Keeps
<1>2. {"method", "path", "version", "status", "reason", "size"} \subseteq Tokens
  BY DEF Tokens, RequestTokens, ResponseTokens
<1>3. FirstLine(s) => FirstLine(t)
  BY <1>1, <1>2 DEF FirstLine
<1>4. QED
  BY <1>1, <1>2, <1>3 DEF HasDelivered

\* The start of the query is known, or it begins here.
QueryActs(do, rest, c) ==
    \/ do = <<>> \o rest /\ ("query" \in m.query_start \/ "query" \in cut)
    \/ do = <<"start_query">> \o rest /\ "query" \in Begins(c)

\* A query that goes on.
LEMMA QuerySound ==
    ASSUME NEW r \in {"query0", "query"}, Reading(r), NEW c, NEW choice, NEW x, InPlace(x, "query"),
           NEW do, QueryActs(do, <<>>, c)
    PROVE  Sound(After(To(x, do), c, choice), "query")
<1> USE ReadingAt
<1>1. HasDelivered(m, "query")
  BY DEF HasDelivered, HeadRefs, BehindMethod, BehindPath
<1>2. CASE do = <<>> /\ ("query" \in m.query_start \/ "query" \in cut)
  <2>1. Held(m, "query")
    BY <1>2 DEF Held
  <2>2. Sound(After(To(x, <<>>), c, choice), "query")
    BY <1>1, <2>1, QuietSound
  <2>3. QED
    BY <1>2, <2>2
<1>3. CASE do = <<"start_query">> /\ "query" \in Begins(c)
  <2> DEFINE s == [m EXCEPT !.cs = x]
             t == Act("start_query", s, c, choice)
  <2>1. After(To(x, do), c, choice) = Acts(do, s, c, choice)
    BY AfterIs, Zenon
  <2>2. Shaped(s) /\ SameTexts(m, s) /\ SameMarks(m, s) /\ s.cs = x /\ s.done = m.done
    BY Moves
  <2> HIDE DEF s
  <2>3. Acts(do, s, c, choice) = t
    BY <1>3, Acts1
  <2>4. Shaped(t) /\ SameTexts(s, t) /\ SamePlace(s, t) /\ t.query_start = Begins(c)
    BY <2>2, ActQuery
  <2> HIDE DEF t
  <2>5. SameTexts(m, t) /\ t.cs = x /\ ~t.done
    BY <2>2, <2>4 DEF SamePlace, SameTexts
  <2>6. Texts(t) /\ Keeps(m, t)
    BY <2>5, TextsSame
  <2>7. Held(t, "query")
    BY <1>3, <2>4 DEF Held
  <2>8. HasDelivered(t, "query")
    BY <1>1, <2>6, KeepsHas
  <2>9. Paired(t, "query")
    BY <2>5, <2>7, <2>8 DEF Paired, InPlace
  <2>10. QED
    BY <2>1, <2>3, <2>4, <2>6, <2>9 DEF Sound
<1>4. <<>> \o <<>> = <<>> /\ <<"start_query">> \o <<>> = <<"start_query">>
  OBVIOUS
<1>5. QED
  BY <1>2, <1>3, <1>4 DEF QueryActs

\* The end of a query, delivered, cut or thrown out of on_request_query.
LEMMA QueryEndSound ==
    ASSUME NEW r \in {"query0", "query"}, Reading(r), NEW c, NEW choice \in Decided, NEW x,
           NEW q \in {"version0", "fragment0"}, InPlace(x, q),
           NEW do, QueryActs(do, <<"query_string", "request_uri">>, c)
    PROVE  Sound(After(To(x, do), c, choice), q)
<1> USE ReadingAt
<1> DEFINE s == [m EXCEPT !.cs = x]
           u == Act("start_query", s, c, choice)
<1>1. After(To(x, do), c, choice) = Acts(do, s, c, choice)
  BY AfterIs, Zenon
<1>2. Shaped(s) /\ SameTexts(m, s) /\ SameMarks(m, s) /\ s.cs = x /\ s.done = m.done
  BY Moves
<1> HIDE DEF s
<1>3. ASSUME NEW v, Shaped(v), SameTexts(m, v), v.cs = x, v.done = m.done,
             "query" \in v.query_start \/ "query" \in cut
      PROVE  Sound(Act("query_string", v, c, choice), q)
  <2> DEFINE t == Act("query_string", v, c, choice)
  <2>1. choice.slice \in {"slice", "empty", "crash"}
    BY DEF Decided
  <2>2. Shaped(t) /\ Written(v, t, "query") /\ t.cs \in {v.cs, <<"crash">>}
    BY <1>3, <2>1, ActQueryString
  <2> HIDE DEF t
  <2>3. Texts(v) /\ Keeps(m, v)
    BY <1>3, TextsSame
  <2>4. Texts(t) /\ Keeps(v, t)
    BY <1>3, <2>2, <2>3, TextsWritten DEF Tokens, RequestTokens
  <2>5. t.done = m.done
    BY <1>3, <2>2 DEF Written
  <2>6. CASE t.cs = <<"crash">>
    BY <2>2, <2>4, <2>6 DEF Sound, Given, t
  <2>7. CASE t.cs = x
    <3>1. HasDelivered(m, q)
      BY DEF HasDelivered, HeadRefs, BehindMethod, BehindPath
    <3>2. HasDelivered(t, q)
      BY <2>3, <2>4, <3>1, KeepsHas
    <3>3. Sound(t, q)
      BY <2>2, <2>4, <2>5, <2>7, <3>2, FreeSound DEF FreeRefs
    <3>4. QED
      BY <3>3 DEF t
  <2>8. QED
    BY <1>3, <2>2, <2>6, <2>7
<1>4. <<>> \o <<"query_string", "request_uri">> = <<"query_string", "request_uri">>
  OBVIOUS
<1>5. <<"start_query">> \o <<"query_string", "request_uri">> = <<"start_query", "query_string", "request_uri">>
  BY JoinsMore
<1>6. CASE do = <<"query_string", "request_uri">> /\ ("query" \in m.query_start \/ "query" \in cut)
  <2>1. Acts(do, s, c, choice) = Act("query_string", s, c, choice)
    BY <1>6, Acts2, ActNone
  <2>2. "query" \in s.query_start \/ "query" \in cut
    BY <1>2, <1>6 DEF SameMarks
  <2>3. QED
    BY <1>1, <1>2, <1>3, <2>1, <2>2
<1>7. CASE do = <<"start_query", "query_string", "request_uri">> /\ "query" \in Begins(c)
  <2>1. Acts(do, s, c, choice) = Act("query_string", u, c, choice)
    BY <1>7, Acts3, ActNone
  <2>2. Shaped(u) /\ SameTexts(s, u) /\ SamePlace(s, u) /\ u.query_start = Begins(c)
    BY <1>2, ActQuery
  <2> HIDE DEF u
  <2>3. SameTexts(m, u) /\ u.cs = x /\ u.done = m.done
    BY <1>2, <2>2 DEF SamePlace, SameTexts
  <2>4. QED
    BY <1>1, <1>3, <1>7, <2>1, <2>2, <2>3
<1>8. QED
  BY <1>4, <1>5, <1>6, <1>7 DEF QueryActs

\* A query.
LEMMA AtQuery ==
    ASSUME NEW r \in {"query0", "query"}, Reading(r), NEW c \in Chars, NEW choice \in Decided
    PROVE  RequestSound(c, choice)
<1> USE ReadingAt
<1>1. RefStep(c) = CASE c = "SP" -> "version0" [] c = "#" -> "fragment0" [] OTHER -> "query"
  <2>1. ref \in {"query0", "query"}
    OBVIOUS
  <2>2. QED
    BY <2>1, RefRequestIs
<1>2. ASSUME NEW k \in {1, 2}, m.cs = <<"query", k>>,
             (k = 1 /\ "query" \in Begins(c)) \/ (k = 2 /\ ("query" \in m.query_start \/ "query" \in cut))
      PROVE  RequestSound(c, choice)
  <2> DEFINE do == IF k = 1 THEN <<"start_query">> ELSE <<>>
             end == do \o <<"query_string", "request_uri">>
             step == Query(m.cs, c, relaxed)
  <2>1. Http11Step(m.cs, c, relaxed) = step
    BY <1>2, RequestSwitch
  <2>2. QueryActs(do, <<>>, c)
    BY <1>2 DEF QueryActs
  <2>3. QueryActs(end, <<"query_string", "request_uri">>, c)
    <3>1. CASE k = 1
      <4>1. do = <<"start_query">>
        BY <3>1
      <4>2. "query" \in Begins(c)
        BY <1>2, <3>1
      <4>3. QED
        BY <4>1, <4>2, Zenon DEF QueryActs
    <3>2. CASE k = 2
      <4>1. do = <<>>
        BY <3>2
      <4>2. QED
        BY <1>2, <3>2, <4>1, Zenon DEF QueryActs
    <3>3. QED
      BY <3>1, <3>2
  <2>4. step = IF Pchar(c, relaxed) \/ c \in {"/", "?"} THEN To(<<"query", 2>>, do)
               ELSE CASE c = "%"  -> To(<<"pct", 1, <<"query", 2>>>>, do)
                      [] c = "SP" -> To(<<"version", 1>>, end)
                      [] c = "#"  -> To(<<"fragment", 1>>, end)
                      [] OTHER    -> Error
    BY <1>2 DEF Query, PctFrom
  <2>5. Pchar(c, relaxed) => c \notin {"SP", "?", "#"}
    BY DEF Pchar, RegName, Alpha, Upper, Digits, Marks, Relaxed
  <2>6. InPlace(<<"query", 2>>, "query") /\ InPlace(<<"pct", 1, <<"query", 2>>>>, "query")
        /\ InPlace(<<"version", 1>>, "version0") /\ InPlace(<<"fragment", 1>>, "fragment0")
    BY DEF InPlace, AtRequest, OnWay
  <2> HIDE DEF do, end, step
  <2>7. CASE Pchar(c, relaxed) \/ c \in {"/", "?"}
    <3>1. step = To(<<"query", 2>>, do) /\ RefStep(c) = "query"
      BY <1>1, <2>4, <2>5, <2>7
    <3>2. QED
      BY <2>1, <2>2, <2>6, <3>1, QuerySound DEF RequestSound
  <2>8. CASE ~(Pchar(c, relaxed) \/ c \in {"/", "?"}) /\ c = "%"
    <3>1. step = To(<<"pct", 1, <<"query", 2>>>>, do) /\ RefStep(c) = "query"
      BY <1>1, <2>4, <2>8
    <3>2. QED
      BY <2>1, <2>2, <2>6, <3>1, QuerySound DEF RequestSound
  <2>9. CASE ~(Pchar(c, relaxed) \/ c \in {"/", "?"}) /\ c = "SP"
    <3>1. step = To(<<"version", 1>>, end) /\ RefStep(c) = "version0"
      BY <1>1, <2>4, <2>9
    <3>2. QED
      BY <2>1, <2>3, <2>6, <3>1, QueryEndSound DEF RequestSound
  <2>10. CASE ~(Pchar(c, relaxed) \/ c \in {"/", "?"}) /\ c = "#"
    <3>1. step = To(<<"fragment", 1>>, end) /\ RefStep(c) = "fragment0"
      BY <1>1, <2>4, <2>10
    <3>2. QED
      BY <2>1, <2>3, <2>6, <3>1, QueryEndSound DEF RequestSound
  <2>11. CASE ~(Pchar(c, relaxed) \/ c \in {"/", "?"}) /\ c \notin {"%", "SP", "#"}
    <3>1. step = Error
      BY <2>4, <2>11
    <3>2. QED
      BY <2>1, <3>1, ErrorSound DEF RequestSound
  <2>12. QED
    BY <2>7, <2>8, <2>9, <2>10, <2>11
<1>3. CASE r = "query0"
  <2>1. m.cs = <<"query", 1>>
    BY <1>3 DEF AtRequest
  <2>2. "query" \in Begins(c)
    BY <1>3, BeginsIs
  <2>3. QED
    BY <1>2, <2>1, <2>2
<1>4. CASE r = "query"
  <2>1. OnWay(m.cs, <<"query", 2>>)
    BY <1>4 DEF AtRequest
  <2>2. "query" \in m.query_start \/ "query" \in cut
    BY <1>4 DEF Held
  <2>3. CASE m.cs = <<"query", 2>>
    BY <1>2, <2>2, <2>3
  <2>4. ASSUME NEW i \in {1, 2}, m.cs = <<"pct", i, <<"query", 2>>>>
        PROVE  RequestSound(c, choice)
    <3> DEFINE step == Pct(<<"pct", i, <<"query", 2>>>>, c)
    <3>1. Http11Step(m.cs, c, relaxed) = step
      BY <2>4, RequestSwitch
    <3>2. step = Error \/ (step.do = <<>> /\ OnWay(step.cs, <<"query", 2>>) /\ c \in Hex)
      BY PctMoves
    <3> HIDE DEF step
    <3>3. CASE step = Error
      BY <3>1, <3>3, ErrorSound DEF RequestSound
    <3>4. CASE step.do = <<>> /\ OnWay(step.cs, <<"query", 2>>) /\ c \in Hex
      <4>1. RefStep(c) = "query"
        BY <1>1, <3>4 DEF Hex, Digits
      <4>2. InPlace(step.cs, "query")
        BY <3>4 DEF InPlace, AtRequest
      <4>3. After(step, c, choice) = After(To(step.cs, <<>>), c, choice)
        BY <3>4 DEF After, To
      <4>4. Sound(After(To(step.cs, <<>>), c, choice), "query")
        BY <1>4, <4>2, QuietSound
      <4>5. QED
        BY <3>1, <4>1, <4>3, <4>4 DEF RequestSound
    <3>5. QED
      BY <3>2, <3>3, <3>4
  <2>5. QED
    BY <2>1, <2>3, <2>4 DEF OnWay
<1>5. QED
  BY <1>3, <1>4

\* A fragment.
LEMMA AtFragment ==
    ASSUME NEW r \in {"fragment0", "fragment"}, Reading(r), NEW c \in Chars, NEW choice
    PROVE  RequestSound(c, choice)
<1> USE ReadingAt
<1>1. RefStep(c) = IF c = "SP" THEN "version0" ELSE "fragment"
  <2>1. ref \in {"fragment0", "fragment"}
    OBVIOUS
  <2>2. QED
    BY <2>1, RefRequestIs
<1>2. HasDelivered(m, "fragment") /\ HasDelivered(m, "version0")
  BY DEF HasDelivered, HeadRefs, BehindMethod, BehindPath
<1>3. ASSUME NEW k \in {1, 2}, m.cs = <<"fragment", k>>,
             (k = 1 /\ "fragment" \in Begins(c)) \/ (k = 2 /\ Marked(m, "fragment"))
      PROVE  RequestSound(c, choice)
  <2> DEFINE do == IF k = 1 THEN <<"mark">> ELSE <<>>
             end == do \o <<"fragment">>
             step == Fragment(m.cs, c, relaxed)
  <2>1. Http11Step(m.cs, c, relaxed) = step
    BY <1>3, RequestSwitch
  <2>2. ASSUME NEW x, InPlace(x, "fragment"), RefStep(c) = "fragment"
        PROVE  Sound(After(To(x, do), c, choice), "fragment")
    <3>1. CASE k = 1
      <4>1. do = <<"mark">>
        BY <3>1
      <4>2. Sound(After(To(x, <<"mark">>), c, choice), RefStep(c))
        BY <1>2, <1>3, <2>2, <3>1, MarkSound
      <4>3. QED
        BY <2>2, <4>1, <4>2
    <3>2. CASE k = 2
      <4>1. do = <<>>
        BY <3>2
      <4>2. Held(m, "fragment")
        BY <1>3, <3>2 DEF Held
      <4>3. Sound(After(To(x, <<>>), c, choice), "fragment")
        BY <1>2, <2>2, <4>2, QuietSound
      <4>4. QED
        BY <4>1, <4>3
    <3>3. QED
      BY <3>1, <3>2
  <2>3. Ends(end, "fragment", c)
    <3>1. Delivers("fragment", "fragment")
      BY DEF Delivers, DeliveredBy
    <3>2. CASE k = 1
      <4>1. end = <<"mark", "fragment">>
        BY <3>2, Joins
      <4>2. QED
        BY <1>3, <3>1, <3>2, <4>1 DEF Ends
    <3>3. CASE k = 2
      <4>1. end = <<"fragment">>
        BY <3>3
      <4>2. QED
        BY <1>3, <3>1, <3>3, <4>1 DEF Ends
    <3>4. QED
      BY <3>2, <3>3
  <2>4. step = IF Pchar(c, relaxed) \/ c \in {"/", "?"} THEN To(<<"fragment", 2>>, do)
               ELSE CASE c = "%"  -> To(<<"pct", 1, <<"fragment", 2>>>>, do)
                      [] c = "SP" -> To(<<"version", 1>>, end)
                      [] OTHER    -> Error
    BY <1>3 DEF Fragment, PctFrom
  <2>5. Pchar(c, relaxed) => c # "SP"
    BY DEF Pchar, RegName, Alpha, Upper, Digits, Marks, Relaxed
  <2>6. InPlace(<<"fragment", 2>>, "fragment") /\ InPlace(<<"pct", 1, <<"fragment", 2>>>>, "fragment")
        /\ InPlace(<<"version", 1>>, "version0")
    BY DEF InPlace, AtRequest, OnWay
  <2> HIDE DEF do, end, step
  <2>7. CASE Pchar(c, relaxed) \/ c \in {"/", "?"}
    <3>1. step = To(<<"fragment", 2>>, do) /\ RefStep(c) = "fragment"
      BY <1>1, <2>4, <2>5, <2>7
    <3>2. QED
      BY <2>1, <2>2, <2>6, <3>1 DEF RequestSound
  <2>8. CASE ~(Pchar(c, relaxed) \/ c \in {"/", "?"}) /\ c = "%"
    <3>1. step = To(<<"pct", 1, <<"fragment", 2>>>>, do) /\ RefStep(c) = "fragment"
      BY <1>1, <2>4, <2>8
    <3>2. QED
      BY <2>1, <2>2, <2>6, <3>1 DEF RequestSound
  <2>9. CASE ~(Pchar(c, relaxed) \/ c \in {"/", "?"}) /\ c = "SP"
    <3>1. step = To(<<"version", 1>>, end) /\ RefStep(c) = "version0"
      BY <1>1, <2>4, <2>9
    <3>2. ASSUME NEW t, Passed(m, t, "fragment") PROVE HasDelivered(t, "version0")
      BY <1>2, <3>2, KeepsHas DEF Passed
    <3>3. Sound(After(To(<<"version", 1>>, end), c, choice), "version0")
      BY <2>3, <2>6, <3>2, EndSound DEF FreeRefs
    <3>4. QED
      BY <2>1, <3>1, <3>3 DEF RequestSound
  <2>10. CASE ~(Pchar(c, relaxed) \/ c \in {"/", "?"}) /\ c \notin {"%", "SP"}
    <3>1. step = Error
      BY <2>4, <2>10
    <3>2. QED
      BY <2>1, <3>1, ErrorSound DEF RequestSound
  <2>11. QED
    BY <2>7, <2>8, <2>9, <2>10
<1>4. CASE r = "fragment0"
  <2>1. m.cs = <<"fragment", 1>>
    BY <1>4 DEF AtRequest
  <2>2. "fragment" \in Begins(c)
    <3>1. Begins(c) = {"fragment"}
      BY <1>4, BeginsIs
    <3>2. QED
      BY <3>1
  <2>3. QED
    BY <1>3, <2>1, <2>2
<1>5. CASE r = "fragment"
  <2>1. OnWay(m.cs, <<"fragment", 2>>)
    BY <1>5 DEF AtRequest
  <2>2. Marked(m, "fragment")
    BY <1>5 DEF Held
  <2>3. CASE m.cs = <<"fragment", 2>>
    BY <1>3, <2>2, <2>3
  <2>4. ASSUME NEW i \in {1, 2}, m.cs = <<"pct", i, <<"fragment", 2>>>>
        PROVE  RequestSound(c, choice)
    <3> DEFINE step == Pct(<<"pct", i, <<"fragment", 2>>>>, c)
    <3>1. Http11Step(m.cs, c, relaxed) = step
      BY <2>4, RequestSwitch
    <3>2. step = Error \/ (step.do = <<>> /\ OnWay(step.cs, <<"fragment", 2>>) /\ c \in Hex)
      BY PctMoves
    <3> HIDE DEF step
    <3>3. CASE step = Error
      BY <3>1, <3>3, ErrorSound DEF RequestSound
    <3>4. CASE step.do = <<>> /\ OnWay(step.cs, <<"fragment", 2>>) /\ c \in Hex
      <4>1. RefStep(c) = "fragment"
        BY <1>1, <3>4 DEF Hex, Digits
      <4>2. InPlace(step.cs, "fragment")
        BY <3>4 DEF InPlace, AtRequest
      <4>3. After(step, c, choice) = After(To(step.cs, <<>>), c, choice)
        BY <3>4 DEF After, To
      <4>4. Sound(After(To(step.cs, <<>>), c, choice), "fragment")
        BY <1>5, <4>2, QuietSound
      <4>5. QED
        BY <3>1, <4>1, <4>3, <4>4 DEF RequestSound
    <3>5. QED
      BY <3>2, <3>3, <3>4
  <2>5. QED
    BY <2>1, <2>3, <2>4 DEF OnWay
<1>6. QED
  BY <1>4, <1>5

\* The version of a request.
LEMMA AtVersion ==
    ASSUME NEW r \in {"version0", "version"}, Reading(r), NEW c \in Chars, NEW choice
    PROVE  RequestSound(c, choice)
<1> USE ReadingAt
<1>1. RefStep(c) = LineEnds(c, "version")
  <2>1. ref \in {"version0", "version"}
    OBVIOUS
  <2>2. QED
    BY <2>1, RefRequestIs
<1>2. HasDelivered(m, "version")
  BY DEF HasDelivered, HeadRefs, BehindMethod, BehindPath
<1>3. PICK i \in 1 .. 9 : /\ m.cs = <<"version", i>>
                          /\ i = 1 => "version" \in Begins(c)
                          /\ i # 1 => Marked(m, "version")
  <2>1. CASE r = "version0"
    <3>1. m.cs = <<"version", 1>>
      BY <2>1 DEF AtRequest
    <3>2. "version" \in Begins(c)
      <4>1. Begins(c) = {"version"}
        BY <2>1, BeginsIs
      <4>2. QED
        BY <4>1
    <3>3. QED
      BY <3>1, <3>2
  <2>2. CASE r = "version"
    <3>1. \E i \in 2 .. 9 : m.cs = <<"version", i>>
      BY <2>2 DEF AtRequest
    <3>2. Marked(m, "version")
      BY <2>2 DEF Held
    <3>3. QED
      BY <3>1, <3>2
  <2>3. QED
    BY <2>1, <2>2
<1> DEFINE Expected == <<{"H"}, {"T"}, {"T"}, {"P"}, {"/"}, {"1"}, {"."}, {"0", "1"}>>
           do == IF i = 1 THEN <<"mark">> ELSE <<>>
<1>4. Http11Step(m.cs, c, relaxed) = Version(m.cs, c) /\ m.cs[2] = i
  BY <1>3, RequestSwitch
<1>5. CASE i <= 8
  <2> DEFINE j == i + 1
  <2>1. Version(m.cs, c) = IF c \in Expected[i] THEN To(<<"version", j>>, do) ELSE Error
    BY <1>4, <1>5 DEF Version
  <2>2. c \in Expected[i] => c \notin {"LF", "CR"}
    BY <1>5
  <2>3. j \in 2 .. 9
    BY <1>5
  <2> HIDE DEF j, Expected
  <2>4. InPlace(<<"version", j>>, "version")
    BY <2>3 DEF InPlace, AtRequest
  <2>5. CASE c \in Expected[i] /\ i = 1
    <3>1. RefStep(c) = "version"
      BY <1>1, <2>2, <2>5 DEF LineEnds
    <3>2. Version(m.cs, c) = To(<<"version", j>>, <<"mark">>)
      BY <2>1, <2>5
    <3>3. Sound(After(To(<<"version", j>>, <<"mark">>), c, choice), RefStep(c))
      BY <1>2, <1>3, <2>4, <2>5, <3>1, MarkSound
    <3>4. QED
      BY <1>4, <3>2, <3>3 DEF RequestSound
  <2>6. CASE c \in Expected[i] /\ i # 1
    <3>1. RefStep(c) = "version"
      BY <1>1, <2>2, <2>6 DEF LineEnds
    <3>2. Version(m.cs, c) = To(<<"version", j>>, <<>>)
      BY <2>1, <2>6
    <3>3. Held(m, "version")
      BY <1>3, <2>6 DEF Held
    <3>4. Sound(After(To(<<"version", j>>, <<>>), c, choice), "version")
      BY <1>2, <2>4, <3>3, QuietSound
    <3>5. QED
      BY <1>4, <3>1, <3>2, <3>4 DEF RequestSound
  <2>7. CASE c \notin Expected[i]
    BY <1>4, <2>1, <2>7, ErrorSound DEF RequestSound
  <2>8. QED
    BY <2>5, <2>6, <2>7
<1>6. CASE i = 9
  <2>1. Version(m.cs, c) = CASE c = "LF" -> To(<<"header">>, <<"http_version">>)
                             [] c = "CR" -> To(<<"crlf">>, <<"http_version">>)
                             [] OTHER    -> Error
    BY <1>4, <1>6 DEF Version
  <2>2. Ends(<<"http_version">>, "version", c)
    BY <1>3, <1>6 DEF Ends, Delivers
  <2>3. ASSUME NEW t, Passed(m, t, "version"), NEW q \in {"line", "eol"} PROVE HasDelivered(t, q)
    <3>1. m.m_error = 0 => m.data["method"] # "default" /\ m.data["path"] # "default"
      BY <1>2 DEF HasDelivered, BehindPath
    <3>2. t.m_error = 0 => \A u \in {"method", "path", "version"} : t.data[u] # "default"
      BY <2>3, <3>1 DEF Passed, Keeps, Tokens, RequestTokens
    <3>3. FirstLine(t)
      BY <3>2 DEF FirstLine
    <3>4. QED
      BY <2>3, <3>3 DEF HasDelivered, BehindMethod, BehindPath
  <2>4. InPlace(<<"header">>, "line") /\ InPlace(<<"crlf">>, "eol")
    BY DEF InPlace, AtRequest
  <2>5. CASE c = "LF"
    <3>1. Version(m.cs, c) = To(<<"header">>, <<"http_version">>) /\ RefStep(c) = "line"
      BY <1>1, <2>1, <2>5 DEF LineEnds
    <3>2. Sound(After(To(<<"header">>, <<"http_version">>), c, choice), "line")
      BY <2>2, <2>3, <2>4, EndSound DEF FreeRefs
    <3>3. QED
      BY <1>4, <3>1, <3>2 DEF RequestSound
  <2>6. CASE c = "CR"
    <3>1. Version(m.cs, c) = To(<<"crlf">>, <<"http_version">>) /\ RefStep(c) = "eol"
      BY <1>1, <2>1, <2>6 DEF LineEnds
    <3>2. Sound(After(To(<<"crlf">>, <<"http_version">>), c, choice), "eol")
      BY <2>2, <2>3, <2>4, EndSound DEF FreeRefs
    <3>3. QED
      BY <1>4, <3>1, <3>2 DEF RequestSound
  <2>7. CASE c \notin {"LF", "CR"}
    BY <1>4, <2>1, <2>7, ErrorSound DEF RequestSound
  <2>8. QED
    BY <2>5, <2>6, <2>7
<1>7. QED
  BY <1>3, <1>5, <1>6

\* A parser behind some actions of a step to x.
Carried(t, x) == Shaped(t) /\ Texts(t) /\ Keeps(m, t) /\ t.cs = x /\ t.done = m.done

\* The new state carries the parser on.
LEMMA CarriedMove ==
    ASSUME Shaped(m), Texts(m), NEW x
    PROVE  LET s == [m EXCEPT !.cs = x] IN Carried(s, x) /\ SameMarks(m, s)
<1> DEFINE s == [m EXCEPT !.cs = x]
<1>1. Shaped(s) /\ SameMarks(m, s) /\ SameTexts(m, s) /\ s.done = m.done /\ s.cs = x
  BY Moves
<1> HIDE DEF s
<1>2. Carried(s, x) /\ SameMarks(m, s)
  BY <1>1, TextsSame DEF Carried
<1>3. QED
  BY <1>2 DEF s

\* An action that leaves the texts carries it on.
LEMMA CarriedSame ==
    ASSUME NEW x, NEW s, Carried(s, x), NEW t, Shaped(t), SameTexts(s, t), SamePlace(s, t)
    PROVE  Carried(t, x)
  BY TextsSame DEF Carried, SameTexts, SamePlace, Keeps

\* mark and start_value carry it on.
LEMMA CarriedMark ==
    ASSUME NEW x, NEW s, Carried(s, x), NEW c, NEW choice, NEW a \in {"mark", "start_value"}
    PROVE  LET t == Act(a, s, c, choice)
           IN Carried(t, x) /\ t.mark = Begins(c) /\ t.field_start = s.field_start /\ t.field_len = s.field_len
<1> DEFINE t == Act(a, s, c, choice)
<1>1. Shaped(s)
  BY DEF Carried
<1>2. /\ Shaped(t) /\ SameTexts(s, t) /\ SamePlace(s, t)
      /\ t.mark = Begins(c) /\ t.field_start = s.field_start /\ t.field_len = s.field_len
  BY <1>1, ActMark
<1> HIDE DEF t
<1>3. Carried(t, x)
  BY <1>2, CarriedSame
<1>4. QED
  BY <1>2, <1>3 DEF t

\* start_field carries it on.
LEMMA CarriedStartField ==
    ASSUME NEW x, NEW s, Carried(s, x), NEW c, NEW choice
    PROVE  LET t == Act("start_field", s, c, choice) IN Carried(t, x) /\ t.field_start = Begins(c)
<1>1. Shaped(s)
  BY DEF Carried
<1>2. QED
  BY <1>1, ActStartField, CarriedSame, Zenon

\* write_field carries it on, and the length of the name is held.
LEMMA CarriedWriteField ==
    ASSUME NEW x, NEW s, Carried(s, x), NameHeld(s), NEW c, NEW choice
    PROVE  LET t == Act("write_field", s, c, choice) IN Carried(t, x) /\ FieldHeld(t)
<1> DEFINE t == Act("write_field", s, c, choice)
<1>1. Shaped(s)
  BY DEF Carried
<1>2. /\ Shaped(t) /\ SameTexts(s, t) /\ SamePlace(s, t) /\ t.field_start = s.field_start
      /\ t.field_len = IF s.field_start = Zero /\ ~began THEN "zero" ELSE "some"
  BY <1>1, ActWriteField, Zenon
<1> HIDE DEF t
<1>3. FieldHeld(t)
  BY <1>2 DEF FieldHeld, NameHeld
<1>4. Carried(t, x)
  BY <1>2, CarriedSame
<1>5. QED
  BY <1>3, <1>4 DEF t

\* write_value carries it on when the field is held.
LEMMA CarriedWriteValue ==
    ASSUME NEW x, NEW s, Carried(s, x), FieldHeld(s), "value" \in s.mark \/ s.field_len = "zero", NEW c, NEW choice
    PROVE  Carried(Act("write_value", s, c, choice), x)
<1> DEFINE t == Act("write_value", s, c, choice)
<1>1. Shaped(s) /\ Texts(s)
  BY DEF Carried
<1>2. Shaped(t) /\ FieldWritten(s, t)
  BY <1>1, ActWriteValue
<1> HIDE DEF t
<1>3. Texts(t) /\ Keeps(s, t)
  BY <1>1, <1>2, TextsField
<1>4. Carried(t, x)
  BY <1>2, <1>3 DEF Carried, FieldWritten, SamePlace, Keeps
<1>5. QED
  BY <1>4 DEF t

\* write_content_len carries it on.
LEMMA CarriedLength ==
    ASSUME NEW x, NEW s, Carried(s, x), "value" \in s.mark \/ "length" \in cut, NEW c, NEW choice
    PROVE  LET t == Act("write_content_len", s, c, choice) IN Carried(t, x) /\ SameMarks(s, t)
<1> DEFINE t == Act("write_content_len", s, c, choice)
<1>1. Shaped(s) /\ Texts(s)
  BY DEF Carried
<1>2. Shaped(t) /\ Written(s, t, "length") /\ t.cs = s.cs
  BY <1>1, ActLength
<1> HIDE DEF t
<1>3. Texts(t) /\ Keeps(s, t)
  BY <1>1, <1>2, TextsWritten DEF Tokens, ResponseTokens
<1>4. Carried(t, x) /\ SameMarks(s, t)
  BY <1>2, <1>3 DEF Carried, Written, Keeps
<1>5. QED
  BY <1>4 DEF t

\* A token that was passed on carries it on.
LEMMA CarriedPassed ==
    ASSUME NEW x, NEW t, NEW token, Passed(m, t, token), t.cs = x
    PROVE  Carried(t, x)
  BY DEF Carried, Passed

\* Machine and lexer are in the same place, and so they are behind the step.
Here == Shaped(m) /\ Texts(m) /\ Paired(m, ref)

\* A parser that was carried on is sound where it is, when its marks hold
\* what they must.
LEMMA CarriedSound ==
    ASSUME Here, NEW x, NEW t, Carried(t, x), NEW r, InPlace(x, r), Held(t, r), HasDelivered(m, r)
    PROVE  Sound(t, r)
<1>1. HasDelivered(t, r)
  BY KeepsHas DEF Carried
<1>2. Paired(t, r)
  BY <1>1 DEF Here, Paired, Carried, InPlace
<1>3. QED
  BY <1>2 DEF Sound, Carried

\* The action done ends the head.
LEMMA DoneSound ==
    ASSUME Here, NEW x, x = <<"done">>, NEW t, Carried(t, x), NEW c, NEW choice, FirstLine(t)
    PROVE  Sound(Act("done", t, c, choice), "end")
<1> DEFINE u == Act("done", t, c, choice)
<1>1. Shaped(t) /\ Texts(t)
  BY DEF Carried
<1>2. Shaped(u) /\ SameTexts(t, u) /\ SameMarks(t, u) /\ u.cs = t.cs /\ u.done
  BY <1>1, ActDone
<1> HIDE DEF u
<1>3. Texts(u) /\ FirstLine(u)
  BY <1>1, <1>2, TextsSame DEF FirstLine, SameTexts
<1>4. Ended(u, "end")
  BY <1>2, <1>3 DEF Ended, Here, Paired, Carried
<1>5. QED
  BY <1>2, <1>3, <1>4 DEF Sound, u

\* The first line has been delivered everywhere behind it.
LEMMA HeadHas ==
    ASSUME NEW s, NEW r \in HeadRefs
    PROVE  HasDelivered(s, r) <=> FirstLine(s)
  BY DEF HasDelivered, HeadRefs, BehindMethod, BehindPath
\* A first line that was delivered stays so.
LEMMA FirstLineKept ==
    ASSUME NEW s, NEW t, FirstLine(s), Keeps(s, t)
    PROVE  FirstLine(t)
  BY HeadHas, KeepsHas DEF HeadRefs

\* The start of a name.
LEMMA StartFieldSound ==
    ASSUME Here, FirstLine(m), NEW x, NEW c, NEW choice, NEW do,
           do \in {<<"start_field">>, <<"write_connection_close", "start_field">>}, "name" \in Begins(c),
           NEW r, r \in {"name", "ext"} \/ (kind = "request" /\ r = "lineCR"), InPlace(x, r)
    PROVE  LET t == After(To(x, do), c, choice) IN Sound(t, r) /\ "name" \in t.field_start
<1> DEFINE s == [m EXCEPT !.cs = x]
           t == Act("start_field", s, c, choice)
<1>1. After(To(x, do), c, choice) = Acts(do, s, c, choice)
  BY AfterIs, Zenon
<1>2. Carried(s, x)
  BY CarriedMove DEF Here
<1> HIDE DEF s
<1>3. Acts(do, s, c, choice) = t
  BY Acts1, Acts2, ActNone
<1>4. Carried(t, x) /\ t.field_start = Begins(c)
  BY <1>2, CarriedStartField
<1> HIDE DEF t
<1>5. Held(t, r)
  BY <1>4 DEF Held, NameHeld
<1>6. HasDelivered(m, r)
  BY HeadHas DEF HeadRefs
<1>7. Sound(t, r)
  BY <1>4, <1>5, <1>6, CarriedSound
<1>8. QED
  BY <1>1, <1>3, <1>4, <1>7

\* The colon behind a name.
LEMMA WriteFieldSound ==
    ASSUME Here, FirstLine(m), NameHeld(m), NEW x, NEW c, NEW choice, InPlace(x, "blank")
    PROVE  Sound(After(To(x, <<"write_field">>), c, choice), "blank")
<1> DEFINE s == [m EXCEPT !.cs = x]
           t == Act("write_field", s, c, choice)
<1>1. After(To(x, <<"write_field">>), c, choice) = Acts(<<"write_field">>, s, c, choice)
  BY AfterIs, Zenon
<1>2. Carried(s, x) /\ SameMarks(m, s)
  BY CarriedMove DEF Here
<1> HIDE DEF s
<1>3. Acts(<<"write_field">>, s, c, choice) = t
  BY Acts1
<1>4. NameHeld(s)
  BY <1>2 DEF NameHeld, SameMarks
<1>5. Carried(t, x) /\ FieldHeld(t)
  BY <1>2, <1>4, CarriedWriteField
<1> HIDE DEF t
<1>6. Held(t, "blank")
  BY <1>5 DEF Held
<1>7. HasDelivered(m, "blank")
  BY HeadHas DEF HeadRefs
<1>8. Sound(t, "blank")
  BY <1>5, <1>6, <1>7, CarriedSound
<1>9. QED
  BY <1>1, <1>3, <1>8

\* A blank before a value, or its first byte.
LEMMA StartValueSound ==
    ASSUME Here, FirstLine(m), FieldHeld(m), NEW x, NEW c, NEW choice,
           NEW r \in {"blank", "value", "extValue"}, InPlace(x, r), r # "blank" => "value" \in Begins(c)
    PROVE  Sound(After(To(x, <<"start_value">>), c, choice), r)
<1> DEFINE s == [m EXCEPT !.cs = x]
           t == Act("start_value", s, c, choice)
<1>1. After(To(x, <<"start_value">>), c, choice) = Acts(<<"start_value">>, s, c, choice)
  BY AfterIs, Zenon
<1>2. Carried(s, x) /\ SameMarks(m, s)
  BY CarriedMove DEF Here
<1> HIDE DEF s
<1>3. Acts(<<"start_value">>, s, c, choice) = t
  BY Acts1
<1>4. Carried(t, x) /\ t.mark = Begins(c) /\ t.field_start = s.field_start /\ t.field_len = s.field_len
  BY <1>2, CarriedMark
<1> HIDE DEF t
<1>5. FieldHeld(t)
  BY <1>2, <1>4 DEF FieldHeld, NameHeld, SameMarks
<1>6. Held(t, r)
  BY <1>4, <1>5 DEF Held, ValueHeld
<1>7. HasDelivered(m, r)
  BY HeadHas DEF HeadRefs
<1>8. Sound(t, r)
  BY <1>4, <1>6, <1>7, CarriedSound
<1>9. QED
  BY <1>1, <1>3, <1>8

\* The end of a value, that may be an empty one.
ValueActs(do, c) ==
    \/ do = <<"write_value">> /\ ValueHeld(m)
    \/ do = <<"start_value", "write_value">> /\ FieldHeld(m) /\ "value" \in Begins(c)
\* The end of a value carries the parser on.
LEMMA ValueCarried ==
    ASSUME Here, NEW x, NEW c, NEW choice, NEW do, ValueActs(do, c)
    PROVE  Carried(After(To(x, do), c, choice), x)
<1> DEFINE s == [m EXCEPT !.cs = x]
           u == Act("start_value", s, c, choice)
<1>1. After(To(x, do), c, choice) = Acts(do, s, c, choice)
  BY AfterIs, Zenon
<1>2. Carried(s, x) /\ SameMarks(m, s)
  BY CarriedMove DEF Here
<1> HIDE DEF s
<1>3. CASE do = <<"write_value">> /\ ValueHeld(m)
  <2>1. Acts(do, s, c, choice) = Act("write_value", s, c, choice)
    BY <1>3, Acts1
  <2>2. FieldHeld(s) /\ ("value" \in s.mark \/ s.field_len = "zero")
    BY <1>2, <1>3 DEF ValueHeld, FieldHeld, NameHeld, SameMarks
  <2>3. QED
    BY <1>1, <1>2, <2>1, <2>2, CarriedWriteValue
<1>4. CASE do = <<"start_value", "write_value">> /\ FieldHeld(m) /\ "value" \in Begins(c)
  <2>1. Acts(do, s, c, choice) = Act("write_value", u, c, choice)
    BY <1>4, Acts2
  <2>2. Carried(u, x) /\ u.mark = Begins(c) /\ u.field_start = s.field_start /\ u.field_len = s.field_len
    BY <1>2, CarriedMark
  <2> HIDE DEF u
  <2>3. FieldHeld(u) /\ "value" \in u.mark
    BY <1>2, <1>4, <2>2 DEF FieldHeld, NameHeld, SameMarks
  <2>4. QED
    BY <1>1, <2>1, <2>2, <2>3, CarriedWriteValue
<1>5. QED
  BY <1>3, <1>4 DEF ValueActs

\* The end of a value is sound at the end of its line.
LEMMA WriteValueSound ==
    ASSUME Here, FirstLine(m), NEW x, NEW c, NEW choice, NEW do, ValueActs(do, c),
           NEW r \in {"line", "eol", "ext0", "endCR"}, InPlace(x, r)
    PROVE  Sound(After(To(x, do), c, choice), r)
<1> DEFINE t == After(To(x, do), c, choice)
<1>1. Carried(t, x)
  BY ValueCarried
<1> HIDE DEF t
<1>2. Held(t, r)
  BY DEF Held
<1>3. HasDelivered(m, r)
  BY HeadHas DEF HeadRefs
<1>4. QED
  BY <1>1, <1>2, <1>3, CarriedSound DEF t

\* A byte at the start of a line: what was cut of the field before is forgotten,
\* and so the mark of the name must point at it.
LineSound(step, c, choice) ==
    LET t == After(step, c, choice)
    IN /\ Sound(t, RefStep(c))
       /\ \/ Given(t) \/ t.done \/ "name" \in t.field_start
          \/ kind = "response" /\ RefStep(c) = "lineCR"

\* A byte the machine refuses at the start of a line.
LEMMA ErrorLine ==
    ASSUME Shaped(m), Texts(m), NEW c, NEW choice
    PROVE  LineSound(Error, c, choice)
<1>1. Sound(After(Error, c, choice), RefStep(c))
  BY ErrorSound
<1>2. After(Error, c, choice) = [m EXCEPT !.cs = <<"error">>]
  BY Acts0 DEF After, Error, To
<1>3. [m EXCEPT !.cs = <<"error">>].cs = <<"error">>
  BY Moves
<1>4. Given(After(Error, c, choice))
  BY <1>2, <1>3 DEF Given
<1>5. QED
  BY <1>1, <1>4 DEF LineSound

\* Among the fields of a request the first line was delivered.
LEMMA HereIs ==
    ASSUME NEW r \in HeadRefs, Reading(r)
    PROVE  Here /\ FirstLine(m)
  BY ReadingAt, HeadHas DEF Here

\* A line of a request's head begins.
LEMMA AtLine ==
    ASSUME Reading("line"), NEW c \in Chars, NEW choice
    PROVE  LineSound(Http11Step(m.cs, c, relaxed), c, choice)
<1> USE ReadingAt
<1>1. m.cs = <<"header">>
  BY DEF AtRequest
<1>2. Http11Step(m.cs, c, relaxed) = Header(c)
  BY <1>1, RequestSwitch
<1>3. RefStep(c) = CASE c = "LF" -> "end" [] c = "CR" -> "lineCR" [] Blank(c) -> "blank" [] OTHER -> "name"
  BY RefFieldIs
<1>4. Begins(c) = {"name", "value"}
  BY BeginsIs
<1>5. Here /\ FirstLine(m)
  BY HereIs DEF HeadRefs
<1>6. InPlace(<<"field">>, "name") /\ InPlace(<<"lastCR">>, "lineCR")
  BY DEF InPlace, AtRequest
<1>7. c \in Token => c \notin {"LF", "CR"} /\ ~Blank(c)
  BY DEF Token, Alpha, Upper, Digits, Blank
<1>8. CASE c \in Token
  <2>1. Header(c) = To(<<"field">>, <<"start_field">>) /\ RefStep(c) = "name"
    BY <1>3, <1>7, <1>8 DEF Header
  <2> DEFINE t == After(To(<<"field">>, <<"start_field">>), c, choice)
  <2>2. Sound(t, "name") /\ "name" \in t.field_start
    BY <1>4, <1>5, <1>6, StartFieldSound
  <2>3. QED
    BY <1>2, <2>1, <2>2 DEF LineSound
<1>9. CASE c = "CR"
  <2>1. Header(c) = To(<<"lastCR">>, <<"start_field">>) /\ RefStep(c) = "lineCR"
    BY <1>3, <1>7, <1>9 DEF Header, Blank
  <2> DEFINE t == After(To(<<"lastCR">>, <<"start_field">>), c, choice)
  <2>2. Sound(t, "lineCR") /\ "name" \in t.field_start
    BY <1>4, <1>5, <1>6, StartFieldSound
  <2>3. QED
    BY <1>2, <2>1, <2>2 DEF LineSound
<1>10. CASE c = "LF"
  <2>1. Header(c) = To(<<"done">>, <<"start_field", "done">>) /\ RefStep(c) = "end"
    BY <1>3, <1>7, <1>10 DEF Header, Blank
  <2> DEFINE x == <<"done">>
             s == [m EXCEPT !.cs = x]
             u == Act("start_field", s, c, choice)
             t == Act("done", u, c, choice)
  <2>2. After(To(x, <<"start_field", "done">>), c, choice) = Acts(<<"start_field", "done">>, s, c, choice)
    BY AfterIs, Zenon
  <2>3. Acts(<<"start_field", "done">>, s, c, choice) = t
    BY Acts2
  <2>4. Carried(s, x)
    BY CarriedMove
  <2> HIDE DEF s
  <2>5. Carried(u, x)
    BY <2>4, CarriedStartField
  <2> HIDE DEF u
  <2>6. FirstLine(u)
    BY <1>5, <2>5, FirstLineKept DEF Carried
  <2>7. Sound(t, "end")
    BY <1>5, <2>5, <2>6, DoneSound
  <2>8. t.done
    BY <2>5, ActDone DEF Carried
  <2>9. QED
    BY <1>2, <2>1, <2>2, <2>3, <2>7, <2>8 DEF LineSound
<1>11. CASE c \notin Token \union {"CR", "LF"}
  BY <1>2, <1>11, ErrorLine DEF Header
<1>12. QED
  BY <1>8, <1>9, <1>10, <1>11

\* A name goes on or ends with its colon.
LEMMA InName ==
    ASSUME NEW r \in {"name", "lineCR"}, Reading(r), NEW c \in Chars, NEW choice,
           r = "lineCR" => c # "LF"
    PROVE  Sound(After(FieldName(c), c, choice), RefStep(c))
<1> USE ReadingAt
<1>1. RefStep(c) = IF c = ":" THEN "blank" ELSE "name"
  <2>1. CASE r = "name"
    BY <2>1, RefFieldIs
  <2>2. CASE r = "lineCR"
    <3>1. RefStep(c) = CASE c = "LF" -> "end" [] c = ":" -> "blank" [] OTHER -> "name"
      BY <2>2, RefFieldIs
    <3>2. QED
      BY <2>2, <3>1
  <2>3. QED
    BY <2>1, <2>2
<1>2. Here /\ FirstLine(m)
  BY HereIs DEF HeadRefs
<1>3. NameHeld(m)
  BY DEF Held
<1>4. InPlace(<<"field">>, "name") /\ InPlace(<<"value", 1>>, "blank")
  BY DEF InPlace, AtRequest
<1>5. CASE c \in Token \union {"LF", "CR"}
  <2>1. FieldName(c) = To(<<"field">>, <<>>) /\ RefStep(c) = "name"
    BY <1>1, <1>5 DEF FieldName, Token, Alpha, Upper, Digits
  <2>2. Held(m, "name")
    BY <1>3 DEF Held
  <2>3. HasDelivered(m, "name")
    BY <1>2, HeadHas DEF HeadRefs
  <2>4. Sound(After(To(<<"field">>, <<>>), c, choice), "name")
    BY <1>4, <2>2, <2>3, QuietSound
  <2>5. QED
    BY <2>1, <2>4
<1>6. CASE c = ":"
  <2>1. FieldName(c) = To(<<"value", 1>>, <<"write_field">>) /\ RefStep(c) = "blank"
    BY <1>1, <1>6 DEF FieldName, Token, Alpha, Upper, Digits
  <2>2. QED
    BY <1>2, <1>3, <1>4, <2>1, WriteFieldSound
<1>7. CASE c \notin Token \union {"LF", "CR", ":"}
  BY <1>7, ErrorSound DEF FieldName
<1>8. QED
  BY <1>5, <1>6, <1>7

\* The name of a field.
LEMMA AtName ==
    ASSUME Reading("name"), NEW c \in Chars, NEW choice
    PROVE  RequestSound(c, choice)
<1> USE ReadingAt
<1>1. m.cs = <<"field">>
  BY DEF AtRequest
<1>2. Http11Step(m.cs, c, relaxed) = FieldName(c)
  BY <1>1, RequestSwitch
<1>3. QED
  BY <1>2, InName DEF RequestSound

\* A return at the start of a line ends the head, or is the name's first byte.
LEMMA AtLineCR ==
    ASSUME Reading("lineCR"), NEW c \in Chars, NEW choice
    PROVE  RequestSound(c, choice)
<1> USE ReadingAt
<1>1. m.cs = <<"lastCR">>
  BY DEF AtRequest
<1>2. Http11Step(m.cs, c, relaxed) = LastCR(c)
  BY <1>1, RequestSwitch
<1>3. Here /\ FirstLine(m)
  BY HereIs DEF HeadRefs
<1>4. CASE c = "LF"
  <2>0. RefStep(c) = CASE c = "LF" -> "end" [] c = ":" -> "blank" [] OTHER -> "name"
    BY RefFieldIs
  <2>1. LastCR(c) = To(<<"done">>, <<"done">>) /\ RefStep(c) = "end"
    BY <1>4, <2>0 DEF LastCR
  <2> DEFINE x == <<"done">>
             s == [m EXCEPT !.cs = x]
  <2>2. After(To(x, <<"done">>), c, choice) = Acts(<<"done">>, s, c, choice)
    BY AfterIs, Zenon
  <2>3. Acts(<<"done">>, s, c, choice) = Act("done", s, c, choice)
    BY Acts1
  <2>4. Carried(s, x)
    BY CarriedMove
  <2> HIDE DEF s
  <2>5. FirstLine(s)
    BY <1>3, <2>4, FirstLineKept DEF Carried
  <2>6. Sound(Act("done", s, c, choice), "end")
    BY <1>3, <2>4, <2>5, DoneSound
  <2>7. QED
    BY <1>2, <2>1, <2>2, <2>3, <2>6 DEF RequestSound
<1>5. CASE c # "LF"
  BY <1>2, <1>5, InName DEF RequestSound, LastCR
<1>6. QED
  BY <1>4, <1>5

\* Between the colon and the value.
LEMMA AtBlank ==
    ASSUME Reading("blank"), NEW c \in Chars, NEW choice
    PROVE  RequestSound(c, choice)
<1> USE ReadingAt
<1>1. m.cs = <<"value", 1>>
  BY DEF AtRequest
<1>2. Http11Step(m.cs, c, relaxed) = FieldValue(m.cs, c)
  BY <1>1, RequestSwitch
<1>3. Here /\ FirstLine(m)
  BY HereIs DEF HeadRefs
<1>4. RefStep(c) = IF Blank(c) THEN "blank" ELSE LineEnds(c, "value")
  BY RefFieldIs
<1>5. FieldHeld(m)
  BY DEF Held
<1>6. Blank(c) <=> c \in {"SP", "TAB"}
  BY DEF Blank
<1>7. ~Blank(c) => Begins(c) = {"value"}
  BY BeginsIs
<1>8. InPlace(<<"header">>, "line") /\ InPlace(<<"crlf">>, "eol") /\ InPlace(<<"value", 1>>, "blank")
      /\ InPlace(<<"value", 2>>, "value")
  BY DEF InPlace, AtRequest
<1> DEFINE do == IF m.cs[2] = 1 THEN <<"start_value">> ELSE <<>>
           end == do \o <<"write_value">>
<1>0. do = <<"start_value">> /\ end = <<"start_value", "write_value">>
  <2>1. do = <<"start_value">>
    BY <1>1
  <2>2. QED
    BY <2>1, Joins
<1>16. FieldValue(m.cs, c) =
        CASE c = "LF" -> To(<<"header">>, end)
          [] c = "CR" -> To(<<"crlf">>, end)
          [] c \in {"SP", "TAB"} -> To(m.cs, do)
          [] c \in {"NUL", "DEL"} -> Error
          [] OTHER    -> To(<<"value", 2>>, do)
  BY DEF FieldValue
<1> HIDE DEF do, end
<1>9. FieldValue(m.cs, c) =
        CASE c = "LF" -> To(<<"header">>, <<"start_value", "write_value">>)
          [] c = "CR" -> To(<<"crlf">>, <<"start_value", "write_value">>)
          [] c \in {"SP", "TAB"} -> To(<<"value", 1>>, <<"start_value">>)
          [] c \in {"NUL", "DEL"} -> Error
          [] OTHER    -> To(<<"value", 2>>, <<"start_value">>)
  BY <1>0, <1>1, <1>16
<1>10. CASE c = "LF"
  <2>1. FieldValue(m.cs, c) = To(<<"header">>, <<"start_value", "write_value">>) /\ RefStep(c) = "line"
    BY <1>4, <1>6, <1>9, <1>10 DEF LineEnds
  <2>2. ValueActs(<<"start_value", "write_value">>, c)
    BY <1>5, <1>6, <1>7, <1>10 DEF ValueActs
  <2>3. QED
    BY <1>2, <1>3, <1>8, <2>1, <2>2, WriteValueSound DEF RequestSound
<1>11. CASE c = "CR"
  <2>1. FieldValue(m.cs, c) = To(<<"crlf">>, <<"start_value", "write_value">>) /\ RefStep(c) = "eol"
    BY <1>4, <1>6, <1>9, <1>11 DEF LineEnds
  <2>2. ValueActs(<<"start_value", "write_value">>, c)
    BY <1>5, <1>6, <1>7, <1>11 DEF ValueActs
  <2>3. QED
    BY <1>2, <1>3, <1>8, <2>1, <2>2, WriteValueSound DEF RequestSound
<1>12. CASE c \in {"SP", "TAB"}
  <2>1. FieldValue(m.cs, c) = To(<<"value", 1>>, <<"start_value">>) /\ RefStep(c) = "blank"
    BY <1>4, <1>6, <1>9, <1>12
  <2>2. QED
    BY <1>2, <1>3, <1>5, <1>8, <2>1, StartValueSound DEF RequestSound
<1>13. CASE c \in {"NUL", "DEL"}
  BY <1>2, <1>9, <1>13, ErrorSound DEF RequestSound
<1>14. CASE c \notin {"LF", "CR", "SP", "TAB", "NUL", "DEL"}
  <2>1. FieldValue(m.cs, c) = To(<<"value", 2>>, <<"start_value">>) /\ RefStep(c) = "value"
    BY <1>4, <1>6, <1>9, <1>14 DEF LineEnds
  <2>2. "value" \in Begins(c)
    BY <1>6, <1>7, <1>14
  <2>3. QED
    BY <1>2, <1>3, <1>5, <1>8, <2>1, <2>2, StartValueSound DEF RequestSound
<1>15. QED
  BY <1>10, <1>11, <1>12, <1>13, <1>14

\* The value of a field.
LEMMA AtValue ==
    ASSUME Reading("value"), NEW c \in Chars, NEW choice
    PROVE  RequestSound(c, choice)
<1> USE ReadingAt
<1>1. m.cs = <<"value", 2>>
  BY DEF AtRequest
<1>2. Http11Step(m.cs, c, relaxed) = FieldValue(m.cs, c)
  BY <1>1, RequestSwitch
<1>3. Here /\ FirstLine(m)
  BY HereIs DEF HeadRefs
<1>4. RefStep(c) = LineEnds(c, "value")
  BY RefFieldIs
<1>5. ValueHeld(m)
  BY DEF Held
<1>6. InPlace(<<"header">>, "line") /\ InPlace(<<"crlf">>, "eol") /\ InPlace(<<"value", 2>>, "value")
  BY DEF InPlace, AtRequest
<1>7. ValueActs(<<"write_value">>, c)
  BY <1>5 DEF ValueActs
<1>8. FieldValue(m.cs, c) =
        CASE c = "LF" -> To(<<"header">>, <<"write_value">>)
          [] c = "CR" -> To(<<"crlf">>, <<"write_value">>)
          [] c \in {"SP", "TAB"} -> To(<<"value", 2>>, <<>>)
          [] c \in {"NUL", "DEL"} -> Error
          [] OTHER    -> To(<<"value", 2>>, <<>>)
  BY <1>1 DEF FieldValue
<1>9. CASE c = "LF"
  <2>1. FieldValue(m.cs, c) = To(<<"header">>, <<"write_value">>) /\ RefStep(c) = "line"
    BY <1>4, <1>8, <1>9 DEF LineEnds
  <2>2. QED
    BY <1>2, <1>3, <1>6, <1>7, <2>1, WriteValueSound DEF RequestSound
<1>10. CASE c = "CR"
  <2>1. FieldValue(m.cs, c) = To(<<"crlf">>, <<"write_value">>) /\ RefStep(c) = "eol"
    BY <1>4, <1>8, <1>10 DEF LineEnds
  <2>2. QED
    BY <1>2, <1>3, <1>6, <1>7, <2>1, WriteValueSound DEF RequestSound
<1>11. CASE c \notin {"LF", "CR", "NUL", "DEL"}
  <2>1. FieldValue(m.cs, c) = To(<<"value", 2>>, <<>>) /\ RefStep(c) = "value"
    BY <1>4, <1>8, <1>11 DEF LineEnds
  <2>2. QED
    BY <1>2, <1>6, <2>1, QuietSound DEF RequestSound
<1>12. CASE c \in {"NUL", "DEL"}
  BY <1>2, <1>8, <1>12, ErrorSound DEF RequestSound
<1>13. QED
  BY <1>9, <1>10, <1>11, <1>12

\* The line feed behind a return.
LEMMA AtEol ==
    ASSUME Reading("eol"), NEW c \in Chars, NEW choice
    PROVE  RequestSound(c, choice)
<1> USE ReadingAt
<1>1. m.cs = <<"crlf">>
  BY DEF AtRequest
<1>2. Http11Step(m.cs, c, relaxed) = Crlf(c)
  BY <1>1, RequestSwitch
<1>3. FirstLine(m)
  BY HereIs DEF HeadRefs
<1>4. RefStep(c) = "line"
  BY RefFieldIs
<1>5. HasDelivered(m, "line") /\ Held(m, "line") /\ InPlace(<<"header">>, "line")
  BY <1>3, HeadHas DEF HeadRefs, Held, InPlace, AtRequest
<1>6. CASE c = "LF"
  <2>1. Crlf(c) = To(<<"header">>, <<>>)
    BY <1>6 DEF Crlf
  <2>2. QED
    BY <1>2, <1>4, <1>5, <2>1, QuietSound DEF RequestSound
<1>7. CASE c # "LF"
  BY <1>2, <1>7, ErrorSound DEF RequestSound, Crlf
<1>8. QED
  BY <1>6, <1>7

\* Lines of a socket.
LEMMA SocketSound ==
    ASSUME Reading("socket"), NEW x, NEW t, Carried(t, x), SocketPath(x) \/ SocketData(x),
           SocketData(x) \/ Marked(t, "path")
    PROVE  Sound(t, "socket")
<1> USE ReadingAt
<1>1. InPlace(x, "socket")
  BY DEF InPlace, AtRequest
<1>2. HasDelivered(m, "socket")
  BY DEF HasDelivered, HeadRefs, BehindMethod, BehindPath
<1>3. Held(t, "socket")
  BY DEF Held, Carried
<1>4. QED
  BY <1>1, <1>2, <1>3, CarriedSound DEF Here

\* A byte on the line of a socket that runs no action.
LEMMA SocketQuiet ==
    ASSUME Reading("socket"), NEW x, NEW c, NEW choice, SocketPath(x) \/ SocketData(x),
           SocketData(x) \/ Marked(m, "path")
    PROVE  Sound(After(To(x, <<>>), c, choice), "socket")
<1> USE ReadingAt
<1> DEFINE s == [m EXCEPT !.cs = x]
<1>1. After(To(x, <<>>), c, choice) = s
  BY Acts0 DEF After, To
<1>2. Carried(s, x) /\ SameMarks(m, s)
  BY CarriedMove
<1> HIDE DEF s
<1>3. SocketData(x) \/ Marked(s, "path")
  BY <1>2 DEF Marked, SameMarks
<1>4. QED
  BY <1>1, <1>2, <1>3, SocketSound

\* The end of the path on the line of a socket.
LEMMA SocketEnds ==
    ASSUME Reading("socket"), NEW x, NEW c, NEW choice, SocketData(x), Marked(m, "path")
    PROVE  Sound(After(To(x, <<"request_path">>), c, choice), "socket")
<1> USE ReadingAt
<1> DEFINE t == After(To(x, <<"request_path">>), c, choice)
<1>1. Ends(<<"request_path">>, "path", c)
  BY DEF Ends, Delivers, DeliveredBy
<1>2. Passed(m, t, "path") /\ t.cs = x
  BY <1>1, EndsPassed
<1> HIDE DEF t
<1>3. Carried(t, x)
  BY <1>2, CarriedPassed
<1>4. Sound(t, "socket")
  BY <1>3, SocketSound
<1>5. QED
  BY <1>4 DEF t

\* The line has ended.
LEMMA SocketDone ==
    ASSUME Reading("socket"), NEW c, NEW choice, NEW a \in {"xml", "json"}
    PROVE  Sound(After(To(<<"socketDone">>, <<a, "done">>), c, choice), "socket")
<1> USE ReadingAt
<1> DEFINE x == <<"socketDone">>
           s == [m EXCEPT !.cs = x]
           t == Act("done", s, c, choice)
<1>1. After(To(x, <<a, "done">>), c, choice) = Acts(<<a, "done">>, s, c, choice)
  BY AfterIs, Zenon
<1>2. Carried(s, x)
  BY CarriedMove
<1> HIDE DEF s
<1>3. Acts(<<a, "done">>, s, c, choice) = t
  BY Acts2, ActNone
<1>4. Shaped(t) /\ SameTexts(s, t) /\ t.cs = s.cs
  BY <1>2, ActDone DEF Carried
<1> HIDE DEF t
<1>5. Texts(t) /\ t.cs = <<"socketDone">>
  BY <1>2, <1>4, TextsSame DEF Carried
<1>6. QED
  BY <1>1, <1>3, <1>4, <1>5 DEF Sound, Given

\* The path on the line of a socket.
LEMMA InSocketPath ==
    ASSUME Reading("socket"), Marked(m, "path"), NEW c \in Chars, NEW choice, NEW step, PathMove(step, "json", c)
    PROVE  Sound(After(step, c, choice), "socket")
<1> USE ReadingAt
<1>1. CASE step = Error
  BY <1>1, ErrorSound
<1>2. CASE step.do = <<>> /\ InPath(step.cs, "json")
  <2>1. After(step, c, choice) = After(To(step.cs, <<>>), c, choice)
    BY <1>2 DEF After, To
  <2>2. SocketPath(step.cs)
    BY <1>2 DEF SocketPath
  <2>3. QED
    BY <2>1, <2>2, SocketQuiet
<1>3. CASE step = PathEnds("json", c, <<>>)
  <2>1. CASE c = "SP"
    <3>1. step = To(<<"json", "data">>, <<"request_path">>)
      BY <1>3, <2>1 DEF PathEnds
    <3>2. SocketData(<<"json", "data">>)
      BY DEF SocketData
    <3>3. QED
      BY <3>1, <3>2, SocketEnds
  <2>2. CASE c # "SP"
    BY <1>3, <2>2, ErrorSound DEF PathEnds
  <2>3. QED
    BY <2>1, <2>2
<1>4. QED
  BY <1>1, <1>2, <1>3 DEF PathMove

\* What the two machines for a socket's line do.
LEMMA SocketMoves ==
    ASSUME NEW c, NEW relax
    PROVE  /\ Json(<<"json", "first">>, c, relax) =
                IF c = "/" THEN To(<<"slash", "json">>, <<>>) ELSE Noscheme(<<"noscheme", "json">>, c, relax)
           /\ Json(<<"json", "data">>, c, relax) = IF c = "{" THEN To(<<"json", "any">>, <<"mark">>) ELSE Error
           /\ Json(<<"json", "any">>, c, relax) =
                IF c = "}" THEN To(<<"json", "close">>, <<>>) ELSE To(<<"json", "any">>, <<>>)
           /\ Json(<<"json", "close">>, c, relax) =
                IF c = "NUL" THEN To(<<"socketDone">>, <<"json", "done">>)
                ELSE IF c = "}" THEN To(<<"json", "close">>, <<>>) ELSE To(<<"json", "any">>, <<>>)
           /\ Xml(<<"xml", "any">>, c) =
                IF c = ">" THEN To(<<"xml", "close">>, <<>>) ELSE To(<<"xml", "any">>, <<>>)
           /\ Xml(<<"xml", "close">>, c) =
                IF c = "NUL" THEN To(<<"socketDone">>, <<"xml", "done">>)
                ELSE IF c = ">" THEN To(<<"xml", "close">>, <<>>) ELSE To(<<"xml", "any">>, <<>>)
  BY DEF Json, Xml

\* The line of a socket.
LEMMA AtSocket ==
    ASSUME Reading("socket"), NEW c \in Chars, NEW choice
    PROVE  RequestSound(c, choice)
<1> /\ ~m.done /\ "empty" \notin cut /\ AtRequest(m.cs, "socket") /\ Held(m, "socket")
    /\ Shaped(m) /\ Texts(m) /\ ref = "socket" /\ kind = "request" /\ relaxed \in BOOLEAN
  BY ReadingAt
<1> DEFINE step == Http11Step(m.cs, c, relaxed)
<1>1. RefStep(c) = "socket"
  BY RefRequestIs
<1>2. SUFFICES Sound(After(step, c, choice), "socket")
  BY <1>1 DEF RequestSound
<1>3. SocketPath(m.cs) \/ SocketData(m.cs)
  BY DEF AtRequest
<1>4. ~SocketData(m.cs) => Marked(m, "path")
  BY DEF Held
<1>10. m.cs[1] = "json" => step = Json(m.cs, c, relaxed)
  BY RequestSwitch
<1>11. m.cs[1] = "xml" => step = Xml(m.cs, c)
  BY RequestSwitch
<1>12. InPath(m.cs, "json") => PathMove(step, "json", c)
  BY PathMoves
<1> HIDE DEF step
<1>5. CASE InPath(m.cs, "json") /\ Marked(m, "path")
  <2>1. PathMove(step, "json", c)
    BY <1>5, <1>12
  <2>2. QED
    BY <1>5, <2>1, InSocketPath
<1>6. CASE m.cs = <<"json", "first">>
  <2>1. step = IF c = "/" THEN To(<<"slash", "json">>, <<>>) ELSE Noscheme(<<"noscheme", "json">>, c, relaxed)
    <3>1. step = Json(m.cs, c, relaxed)
      BY <1>6, <1>10
    <3>2. QED
      BY <1>6, <3>1, SocketMoves
  <2>2. Marked(m, "path")
    BY <1>4, <1>6 DEF SocketData
  <2>3. SocketPath(<<"slash", "json">>)
    BY PlainPath DEF SocketPath, PathStates
  <2>4. CASE c = "/"
    BY <2>1, <2>2, <2>3, <2>4, SocketQuiet
  <2>5. CASE c # "/"
    <3>1. PathMove(Noscheme(<<"noscheme", "json">>, c, relaxed), "json", c)
      BY NoschemeMoves
    <3>2. QED
      BY <2>1, <2>2, <2>5, <3>1, InSocketPath
  <2>6. QED
    BY <2>4, <2>5
<1>7. CASE m.cs \in {<<"xml", "open">>, <<"xml", "name">>}
  <2> DEFINE name == Alpha \union Digits \union {"-", "."}
  <2>1. step = Xml(m.cs, c)
    BY <1>7, <1>11
  <2>2. Marked(m, "path")
    BY <1>4, <1>7 DEF SocketData
  <2>3. \/ step = To(<<"xml", "name">>, <<>>)
        \/ step = To(<<"xml", "any">>, <<"request_path">>)
        \/ step = Error
    <3>1. CASE m.cs = <<"xml", "open">>
      BY <2>1, <3>1 DEF Xml
    <3>2. CASE m.cs = <<"xml", "name">>
      BY <2>1, <3>2 DEF Xml
    <3>3. QED
      BY <1>7, <3>1, <3>2
  <2>4. SocketPath(<<"xml", "name">>) /\ SocketData(<<"xml", "any">>)
    BY DEF SocketPath, SocketData
  <2>5. QED
    BY <2>2, <2>3, <2>4, SocketQuiet, SocketEnds, ErrorSound
<1>8. CASE SocketData(m.cs)
  <2>1. SocketData(<<"json", "any">>) /\ SocketData(<<"json", "close">>)
        /\ SocketData(<<"xml", "any">>) /\ SocketData(<<"xml", "close">>)
    BY DEF SocketData
  <2>2. CASE m.cs = <<"json", "data">> /\ c = "{"
    <3> DEFINE x == <<"json", "any">>
               s == [m EXCEPT !.cs = x]
               t == Act("mark", s, c, choice)
    <3>1. step = To(x, <<"mark">>)
      <4>3. m.cs = <<"json", "data">>
        BY <2>2
      <4>1. step = Json(m.cs, c, relaxed)
        BY <1>10, <4>3
      <4>2. QED
        BY <2>2, <4>1, SocketMoves
    <3>2. After(To(x, <<"mark">>), c, choice) = Acts(<<"mark">>, s, c, choice)
      BY AfterIs, Zenon
    <3>3. Carried(s, x)
      BY CarriedMove
    <3> HIDE DEF s
    <3>4. Acts(<<"mark">>, s, c, choice) = t
      BY Acts1
    <3>5. Carried(t, x)
      BY <3>3, CarriedMark
    <3> HIDE DEF t
    <3>6. Sound(t, "socket")
      BY <2>1, <3>5, SocketSound
    <3>7. QED
      BY <3>1, <3>2, <3>4, <3>6
  <2>3. CASE m.cs = <<"json", "data">> /\ c # "{"
    <3>1. step = Error
      <4>3. m.cs = <<"json", "data">>
        BY <2>3
      <4>1. step = Json(m.cs, c, relaxed)
        BY <1>10, <4>3
      <4>2. QED
        BY <2>3, <4>1, SocketMoves
    <3>2. QED
      BY <3>1, ErrorSound
  <2>4. CASE m.cs # <<"json", "data">>
    <3>1. \/ step = To(<<"json", "any">>, <<>>) \/ step = To(<<"json", "close">>, <<>>)
          \/ step = To(<<"xml", "any">>, <<>>) \/ step = To(<<"xml", "close">>, <<>>)
          \/ step = To(<<"socketDone">>, <<"xml", "done">>)
          \/ step = To(<<"socketDone">>, <<"json", "done">>)
      <4>1. CASE m.cs = <<"json", "any">>
        <5>1. step = Json(m.cs, c, relaxed)
          BY <4>1, <1>10
        <5>2. step = IF c = "}" THEN To(<<"json", "close">>, <<>>) ELSE To(<<"json", "any">>, <<>>)
          BY <4>1, <5>1, SocketMoves, Zenon
        <5>3. QED
          BY <5>2
      <4>2. CASE m.cs = <<"json", "close">>
        <5>1. step = Json(m.cs, c, relaxed)
          BY <4>2, <1>10
        <5>2. step = IF c = "NUL" THEN To(<<"socketDone">>, <<"json", "done">>)
                     ELSE IF c = "}" THEN To(<<"json", "close">>, <<>>) ELSE To(<<"json", "any">>, <<>>)
          BY <4>2, <5>1, SocketMoves, Zenon
        <5>3. QED
          BY <5>2
      <4>3. CASE m.cs = <<"xml", "any">>
        <5>1. step = Xml(m.cs, c)
          BY <4>3, <1>11
        <5>2. QED
          BY <4>3, <5>1, SocketMoves
      <4>4. CASE m.cs = <<"xml", "close">>
        <5>1. step = Xml(m.cs, c)
          BY <4>4, <1>11
        <5>2. QED
          BY <4>4, <5>1, SocketMoves
      <4>5. QED
        BY <1>8, <2>4, <4>1, <4>2, <4>3, <4>4 DEF SocketData
    <3>2. QED
      BY <2>1, <3>1, SocketQuiet, SocketDone
  <2>5. QED
    BY <2>2, <2>3, <2>4
<1>9. QED
  BY <1>3, <1>4, <1>5, <1>6, <1>7, <1>8 DEF SocketPath

\* A byte of a request, wherever the machine is, but for the start of a line.
LEMMA RequestByte ==
    ASSUME NEW r, Reading(r), r # "line", NEW c \in Chars, NEW choice \in Decided
    PROVE  RequestSound(c, choice)
<1>1. AtRequest(m.cs, r)
  BY ReadingAt
<1>2. r \in {"start", "method", "target", "scheme", "hier", "path", "query0", "query", "fragment0", "fragment",
             "version0", "version", "name", "lineCR", "blank", "value", "eol", "socket"}
  BY <1>1 DEF AtRequest
<1>3. CASE r \in {"start", "method", "target", "scheme", "hier", "path"}
  BY <1>3, AtStart, AtMethod, AtTarget, AtScheme, AtHier, AtPath
<1>4. CASE r \in {"query0", "query", "fragment0", "fragment", "version0", "version"}
  BY <1>4, AtQuery, AtFragment, AtVersion
<1>5. CASE r \in {"name", "lineCR", "blank", "value", "eol", "socket"}
  BY <1>5, AtName, AtLineCR, AtBlank, AtValue, AtEol, AtSocket
<1>6. QED
  BY <1>2, <1>3, <1>4, <1>5

(***************************************************************************)
(* The machine of a response.                                              *)
(***************************************************************************)
LEMMA ClientTo ==
    /\ \A x, do : Client!To(x, do) = To(x, do)
    /\ Client!Error = Error
  BY DEF Client!To, To, Client!Error, Error

\* The switch of the response machine takes the operator of the state.
LEMMA ClientSwitch ==
    ASSUME NEW cs, NEW c
    PROVE  /\ cs[1] = "start" => Client!HttpClientStep(cs, c) = Client!CStart(c)
           /\ cs[1] = "chunk" => Client!HttpClientStep(cs, c) = Client!Chunk(c)
           /\ cs[1] \in {"extension", "extName", "extEq", "extValue"} =>
                Client!HttpClientStep(cs, c) = Client!Extension(cs, c)
           /\ cs[1] = "lastCR" => Client!HttpClientStep(cs, c) = Client!CLastCR(c)
           /\ cs[1] = "version" => Client!HttpClientStep(cs, c) = Client!CVersion(cs, c)
           /\ cs[1] = "status" => Client!HttpClientStep(cs, c) = Client!Status(cs, c)
           /\ cs[1] = "reason" => Client!HttpClientStep(cs, c) = Client!Reason(cs, c)
           /\ cs[1] \in {"header", "closed"} => Client!HttpClientStep(cs, c) = Client!CHeader(cs, c)
           /\ cs[1] = "field" => Client!HttpClientStep(cs, c) = Client!CField(c)
           /\ cs[1] = "keyword" => Client!HttpClientStep(cs, c) = Client!Keyword(cs, c)
           /\ cs[1] = "value" => Client!HttpClientStep(cs, c) = Client!CValue(cs, c)
           /\ cs[1] \in {"crlf", "chunkedCR", "closedCR"} => Client!HttpClientStep(cs, c) = Client!CCrlf(cs, c)
           /\ cs[1] = "known" => Client!HttpClientStep(cs, c) = Client!Known(cs, c)
           /\ cs[1] = "valueWord" => Client!HttpClientStep(cs, c) = Client!ValueWord(cs, c)
           /\ cs[1] = "emptyLF" => Client!HttpClientStep(cs, c) = Client!EmptyLF(cs, c)
           /\ cs[1] \in {"spaces", "doneOpen"} => Client!HttpClientStep(cs, c) = Client!SpacesStep(cs, c)
           /\ cs[1] \in {"emptyCR", "emptyLFCR"} => Client!HttpClientStep(cs, c) = Client!EmptyCR(cs, c)
           /\ cs[1] = "word" => Client!HttpClientStep(cs, c) = Client!WordOnly(cs, c)
           /\ cs[1] = "nameOrWord" => Client!HttpClientStep(cs, c) = Client!NameOrWord(cs, c)
           /\ cs[1] = "done" => Client!HttpClientStep(cs, c) = Client!Error
  BY DEF Client!HttpClientStep

\* The names and words that the machine knows.
Ending == {"LF", "CR", "SP", "VT", ":"}
\* The names of the keywords: their lengths, and no byte of them ends a name.
LEMMA NameFacts ==
    ASSUME NEW w \in Client!Keywords
    PROVE  /\ Len(Client!Name[w]) \in 1 .. 17
           /\ \A i \in 1 .. Len(Client!Name[w]) : Client!Name[w][i] \notin Ending
<1>1. CASE w = "Connection"
  <2>1. Client!Name[w] = <<"C", "O", "N", "N", "E", "C", "T", "I", "O", "N">>
    BY <1>1 DEF Client!Name
  <2>2. QED
    BY <2>1 DEF Ending
<1>2. CASE w = "Content-Length"
  <2>1. Client!Name[w] = <<"C", "O", "N", "T", "E", "N", "T", "-", "L", "E", "N", "G", "T", "H">>
    BY <1>2 DEF Client!Name
  <2>2. QED
    BY <2>1 DEF Ending
<1>3. CASE w = "Transfer-Encoding"
  <2>1. Client!Name[w] = <<"T", "R", "A", "N", "S", "F", "E", "R", "-", "E", "N", "C", "O", "D", "I", "N", "G">>
    BY <1>3 DEF Client!Name
  <2>2. QED
    BY <2>1 DEF Ending
<1>4. QED
  BY <1>1, <1>2, <1>3 DEF Client!Keywords

\* The words of the keywords: their lengths, and no byte of them ends a value.
LEMMA WordFacts ==
    ASSUME NEW w \in Client!Keywords
    PROVE  /\ Len(Client!Word[w]) \in 1 .. 7
           /\ \A i \in 1 .. Len(Client!Word[w]) : Client!Word[w][i] \notin Ending
<1>1. CASE w = "Connection"
  <2>1. Client!Word[w] = <<"C", "L", "O", "S", "E">>
    BY <1>1 DEF Client!Word
  <2>2. QED
    BY <2>1 DEF Ending
<1>2. CASE w = "Content-Length"
  <2>1. Client!Word[w] = <<"0">>
    BY <1>2 DEF Client!Word
  <2>2. QED
    BY <2>1 DEF Ending
<1>3. CASE w = "Transfer-Encoding"
  <2>1. Client!Word[w] = <<"C", "H", "U", "N", "K", "E", "D">>
    BY <1>3 DEF Client!Word
  <2>2. QED
    BY <2>1 DEF Ending
<1>4. QED
  BY <1>1, <1>2, <1>3 DEF Client!Keywords

\* No byte of a token ends a name, a value or an extension.
LEMMA TokenEnding ==
    ASSUME NEW c \in Client!CToken
    PROVE  c \notin Ending \union {";", "="}
  BY DEF Client!CToken, Client!XDigits, Ending

\* The bytes that end a name or a value have no case.
LEMMA FoldEnding ==
    ASSUME NEW c \in Ending
    PROVE  Client!Fold(c) = c
  BY DEF Client!Fold, Ending

\* The next byte of a word is none that ends something.
LEMMA WordByte ==
    ASSUME NEW w \in Client!Keywords, NEW i \in 0 .. 7, NEW c, Client!WordGoes(w, i, c)
    PROVE  c \notin Ending /\ Client!Longer(w, i) \in 1 .. 7
<1>1. CASE w = "Content-Length"
  BY <1>1 DEF Client!WordGoes, Client!Longer, Ending
<1>2. CASE w # "Content-Length"
  <2> DEFINE l == Len(Client!Word[w])
             j == i + 1
  <2>1. i < l /\ Client!Word[w][j] = Client!Fold(c)
    BY <1>2 DEF Client!WordGoes
  <2>2. Client!Longer(w, i) = j
    BY <1>2 DEF Client!Longer
  <2>3. l \in 1 .. 7 /\ \A k \in 1 .. l : Client!Word[w][k] \notin Ending
    BY WordFacts
  <2> HIDE DEF l
  <2>4. j \in 1 .. l /\ j \in 1 .. 7
    BY <2>1, <2>3
  <2> HIDE DEF j
  <2>5. c \notin Ending
    BY <2>1, <2>3, <2>4, FoldEnding
  <2>6. QED
    BY <2>2, <2>4, <2>5
<1>3. QED
  BY <1>1, <1>2

\* The actions of a field, and a sequence of them.
FieldActs == {"start_value", "write_value", "write_content_len", "start_field", "write_field", "done",
              "trans_chunked", "write_connection_close"}
\* Sequences of the actions among fields.
LEMMA ActsSeq ==
    /\ <<>> \in Seq(FieldActs)
    /\ \A a \in FieldActs : <<a>> \in Seq(FieldActs)
    /\ \A a, b \in FieldActs : <<a, b>> \in Seq(FieldActs)
    /\ \A p, q \in Seq(FieldActs) : p \o q \in Seq(FieldActs)
  OBVIOUS
\* The sequences that the machine runs there.
LEMMA ActSeqs ==
    /\ <<>> \in Seq(FieldActs) /\ <<"start_field">> \in Seq(FieldActs) /\ <<"write_field">> \in Seq(FieldActs)
    /\ <<"start_value">> \in Seq(FieldActs) /\ <<"write_value">> \in Seq(FieldActs) /\ <<"done">> \in Seq(FieldActs)
    /\ <<"write_connection_close">> \in Seq(FieldActs) /\ <<"trans_chunked">> \in Seq(FieldActs)
    /\ <<"write_value", "trans_chunked">> \in Seq(FieldActs) /\ <<"start_value", "write_value">> \in Seq(FieldActs)
    /\ <<"write_content_len", "write_value">> \in Seq(FieldActs) /\ <<"start_value", "start_field">> \in Seq(FieldActs)
<1>1. "start_field" \in FieldActs /\ "write_field" \in FieldActs /\ "start_value" \in FieldActs
      /\ "write_value" \in FieldActs /\ "done" \in FieldActs /\ "write_connection_close" \in FieldActs
      /\ "trans_chunked" \in FieldActs /\ "write_content_len" \in FieldActs
  BY DEF FieldActs
<1>2. QED
  BY <1>1, ActsSeq, Zenon

\* A response behind a field with an empty value: whatever the actions of a
\* field write is excused.
Loose == kind = "response" /\ "empty" \in cut /\ "length" \in cut
LooseOk(t, x) == Shaped(t) /\ Texts(t) /\ FirstLine(t) /\ t.cs = x

\* Behind an empty value an action leaves the texts as wanted.
LEMMA LooseAct ==
    ASSUME Loose, NEW s, NEW x, LooseOk(s, x), NEW a \in FieldActs, NEW c, NEW choice
    PROVE  LooseOk(Act(a, s, c, choice), x)
<1> DEFINE t == Act(a, s, c, choice)
<1>1. Shaped(s) /\ Texts(s) /\ FirstLine(s) /\ s.cs = x
  BY DEF LooseOk
<1>2. ASSUME Shaped(t), Texts(t), Keeps(s, t), t.cs = s.cs PROVE LooseOk(t, x)
  BY <1>1, <1>2, FirstLineKept DEF LooseOk
<1>3. ASSUME Shaped(t), SameTexts(s, t), t.cs = s.cs PROVE LooseOk(t, x)
  BY <1>1, <1>2, <1>3, TextsSame
<1>4. CASE a = "start_value"
  BY <1>1, <1>3, <1>4, ActMark DEF SamePlace
<1>5. CASE a = "start_field"
  BY <1>1, <1>3, <1>5, ActStartField DEF SamePlace
<1>6. CASE a = "write_field"
  BY <1>1, <1>3, <1>6, ActWriteField DEF SamePlace
<1>7. CASE a = "done"
  BY <1>1, <1>3, <1>7, ActDone
<1>8. CASE a = "write_value"
  <2>1. Shaped(t) /\ FieldWritten(s, t)
    BY <1>1, <1>8, ActWriteValue DEF Loose
  <2>2. QED
    BY <1>1, <1>2, <2>1, TextsField DEF FieldWritten, SamePlace
<1>9. CASE a = "write_content_len"
  <2>1. Shaped(t) /\ Written(s, t, "length") /\ t.cs = s.cs
    BY <1>1, <1>9, ActLength DEF Loose
  <2>2. QED
    BY <1>1, <1>2, <2>1, TextsWritten DEF Tokens, ResponseTokens
<1>10. CASE a \in {"trans_chunked", "write_connection_close"}
  BY <1>10, ActNone DEF LooseOk
<1>11. QED
  BY <1>4, <1>5, <1>6, <1>7, <1>8, <1>9, <1>10 DEF FieldActs

\* And so do any number of them.
LEMMA LooseActs ==
    ASSUME Loose, NEW s, NEW x, LooseOk(s, x), NEW do \in Seq(FieldActs), NEW c, NEW choice
    PROVE  LooseOk(Acts(do, s, c, choice), x)
<1> DEFINE n == Len(do)
<1>1. n \in Nat /\ \A k \in 1 .. n : do[k] \in FieldActs
  OBVIOUS
<1>2. PICK f : IsActs(f, do, s, c, choice, n) /\ Acts(do, s, c, choice) = f[n]
  BY <1>1, ActsIs
<1> HIDE DEF n
<1> DEFINE S == {k \in Nat : k <= n => LooseOk(f[k], x)}
<1>3. 0 \in S
  BY <1>1, <1>2 DEF IsActs
<1>4. ASSUME NEW k \in S PROVE k + 1 \in S
  <2>1. SUFFICES ASSUME k + 1 <= n PROVE LooseOk(f[k + 1], x)
    BY <1>4
  <2>2. k \in Nat /\ LooseOk(f[k], x) /\ k + 1 \in 1 .. n
    BY <1>1, <1>4, <2>1
  <2>3. f[k + 1] = Act(do[k + 1], f[k], c, choice)
    BY <1>1, <1>2, <2>2 DEF IsActs
  <2>4. QED
    BY <1>1, <2>2, <2>3, LooseAct
<1>5. S = Nat
  <2> HIDE DEF S
  <2>1. S \in SUBSET Nat
    BY DEF S
  <2>2. QED
    BY <1>3, <1>4, <2>1, Induction
<1>6. QED
  BY <1>1, <1>2, <1>5

\* A step of a machine that is astray.
Stray(step) == step = Error \/ (Astray(step.cs) /\ step.do \in Seq(FieldActs))

\* A move to such a state.
LEMMA StrayTo ==
    ASSUME NEW x, Astray(x), NEW do \in Seq(FieldActs)
    PROVE  Stray(Client!To(x, do))
  BY DEF Stray, Client!To

\* Giving up.
LEMMA StrayError ==
    Stray(Client!Error)
  BY ClientTo DEF Stray

\* States with a keyword.
LEMMA StrayWord ==
    ASSUME NEW w \in Client!Keywords, NEW i \in 1 .. 7, NEW x \in {"valueWord", "word", "nameOrWord"}
    PROVE  Astray(<<x, w, i>>)
  BY DEF Astray, InWord
\* The states of a keyword.
LEMMA StrayOf ==
    ASSUME NEW w \in Client!Keywords,
           NEW x \in {"known", "emptyLF", "spaces", "doneOpen", "emptyCR", "emptyLFCR"}
    PROVE  Astray(<<x, w>>)
  BY DEF Astray, OfKeyword
\* The plain states among fields.
LEMMA StrayPlain ==
    ASSUME NEW x \in {"header", "closed", "field", "crlf", "chunkedCR", "closedCR", "lastCR", "done"}
    PROVE  Astray(<<x>>)
  BY DEF Astray
\* The states of a value.
LEMMA StrayValue ==
    ASSUME NEW k \in {1, 2}
    PROVE  Astray(<<"value", k>>)
  BY DEF Astray

\* The keywords whose names begin with a byte.
LEMMA BeginsKeyword ==
    ASSUME NEW ws \in SUBSET Client!Keywords
    PROVE  InKeyword(<<"keyword", ws, 1>>)
<1>1. ASSUME NEW w \in ws PROVE 1 <= Len(Client!Name[w])
  <2> DEFINE l == Len(Client!Name[w])
  <2>1. l \in 1 .. 17
    BY NameFacts
  <2> HIDE DEF l
  <2>2. 1 <= l
    BY <2>1
  <2>3. QED
    BY <2>2 DEF l
<1>2. QED
  BY <1>1 DEF InKeyword

\* What the first byte of a name does.
LEMMA NameBeginsIs ==
    ASSUME NEW c, NEW do \in {<<>>, <<"write_connection_close">>}
    PROVE  \/ Client!NameBegins(c, do) = Error
           \/ /\ c \in Client!CToken
              /\ \E x : /\ x = <<"field">> \/ InKeyword(x)
                        /\ Client!NameBegins(c, do) = To(x, do \o <<"start_field">>)
<1> DEFINE ws == {w \in Client!Keywords : Client!Name[w][1] = Client!Fold(c)}
           x == IF ws = {} THEN <<"field">> ELSE <<"keyword", ws, 1>>
<1>1. CASE c \notin Client!CToken
  BY <1>1, ClientTo DEF Client!NameBegins
<1>2. CASE c \in Client!CToken
  <2>1. Client!NameBegins(c, do) = To(x, do \o <<"start_field">>)
    BY <1>2, ClientTo DEF Client!NameBegins
  <2>2. ws \in SUBSET Client!Keywords
    OBVIOUS
  <2> HIDE DEF ws
  <2>3. x = <<"field">> \/ InKeyword(x)
    BY <2>2, BeginsKeyword
  <2> HIDE DEF x
  <2>4. QED
    BY <1>2, <2>1, <2>3
<1>3. QED
  BY <1>1, <1>2

\* A name that begins.
LEMMA StrayNameBegins ==
    ASSUME NEW c, NEW do \in {<<>>, <<"write_connection_close">>}
    PROVE  Stray(Client!NameBegins(c, do))
<1> DEFINE step == Client!NameBegins(c, do)
           acts == do \o <<"start_field">>
<1>1. acts \in Seq(FieldActs)
  <2>1. do \in Seq(FieldActs) /\ <<"start_field">> \in Seq(FieldActs)
    BY ActSeqs, Zenon
  <2>2. QED
    BY <2>1
<1>2. step = Error \/ \E x : (x = <<"field">> \/ InKeyword(x)) /\ step = To(x, acts)
  BY NameBeginsIs
<1> HIDE DEF step, acts
<1>3. CASE step = Error
  BY <1>3 DEF Stray, step
<1>4. ASSUME NEW x, x = <<"field">> \/ InKeyword(x), step = To(x, acts) PROVE Stray(step)
  <2>1. Astray(x)
    BY <1>4 DEF Astray
  <2>2. Stray(Client!To(x, acts))
    BY <1>1, <2>1, StrayTo
  <2>3. QED
    BY <1>4, <2>2, ClientTo
<1>5. QED
  BY <1>2, <1>3, <1>4 DEF step

\* A name that goes on.
LEMMA StrayField ==
    ASSUME NEW c
    PROVE  Stray(Client!CField(c))
<1>1. CASE c \in Client!CToken
  <2>1. Client!CField(c) = Client!To(<<"field">>, <<>>)
    BY <1>1, TokenEnding DEF Client!CField, Ending
  <2>2. QED
    BY <2>1, StrayTo, StrayPlain, ActsSeq
<1>2. CASE c \notin Client!CToken /\ c = ":"
  <2>1. Client!CField(c) = Client!To(<<"value", 1>>, <<"write_field">>)
    BY <1>2 DEF Client!CField
  <2>2. <<"write_field">> \in Seq(FieldActs)
    BY ActsSeq DEF FieldActs
  <2>3. Astray(<<"value", 1>>)
    BY StrayValue
  <2>4. QED
    BY <2>1, <2>2, <2>3, StrayTo
<1>3. CASE c \notin Client!CToken /\ c # ":"
  BY <1>3, StrayError DEF Client!CField
<1>4. QED
  BY <1>1, <1>2, <1>3

\* Values: whatever the byte.
LEMMA StrayCValue ==
    ASSUME NEW k \in {1, 2}, NEW c
    PROVE  Stray(Client!CValue(<<"value", k>>, c))
<1> DEFINE do == IF k = 1 THEN <<"start_value">> ELSE <<>>
           end == do \o <<"write_value">>
           step == Client!CValue(<<"value", k>>, c)
<1>1. do \in Seq(FieldActs) /\ <<"write_value">> \in Seq(FieldActs)
  BY ActSeqs, Zenon
<1>2. end \in Seq(FieldActs)
  BY <1>1
<1>3. step = CASE c = "LF" -> Client!To(<<"header">>, end)
               [] c = "CR" -> Client!To(<<"crlf">>, end)
               [] c \in {"VT", "SP"} -> Client!To(<<"value", k>>, do)
               [] OTHER    -> Client!To(<<"value", 2>>, do)
  BY DEF Client!CValue
<1> HIDE DEF do, end, step
<1>4. Astray(<<"header">>) /\ Astray(<<"crlf">>) /\ Astray(<<"value", k>>) /\ Astray(<<"value", 2>>)
  BY StrayPlain, StrayValue
<1>5. CASE c = "LF"
  BY <1>2, <1>3, <1>4, <1>5, StrayTo DEF step
<1>6. CASE c = "CR"
  BY <1>2, <1>3, <1>4, <1>6, StrayTo DEF step
<1>7. CASE c \in {"VT", "SP"}
  BY <1>1, <1>3, <1>4, <1>7, StrayTo DEF step
<1>8. CASE c \notin {"LF", "CR", "VT", "SP"}
  BY <1>1, <1>3, <1>4, <1>8, StrayTo DEF step
<1>9. QED
  BY <1>5, <1>6, <1>7, <1>8

\* The end of a word.
LEMMA StrayWordEnds ==
    ASSUME NEW w \in Client!Keywords, NEW c, NEW do \in {<<>>, <<"write_value">>}
    PROVE  Stray(Client!WordEnds(w, c, do))
<1>1. /\ do \in Seq(FieldActs) /\ <<"write_value">> \in Seq(FieldActs)
      /\ <<"write_value", "trans_chunked">> \in Seq(FieldActs)
      /\ <<"write_content_len", "write_value">> \in Seq(FieldActs)
  BY ActSeqs, Zenon
<1>2. Astray(<<"closed">>) /\ Astray(<<"closedCR">>) /\ Astray(<<"header">>) /\ Astray(<<"chunkedCR">>)
      /\ Astray(<<"crlf">>)
  BY StrayPlain
<1>3. CASE w = "Connection"
  <2>1. Client!WordEnds(w, c, do) = Client!To(IF c = "LF" THEN <<"closed">> ELSE <<"closedCR">>, do)
    BY <1>3 DEF Client!WordEnds
  <2>2. QED
    BY <1>1, <1>2, <2>1, StrayTo
<1>4. CASE w = "Transfer-Encoding"
  <2>1. Client!WordEnds(w, c, do) =
          IF c = "LF" THEN Client!To(<<"header">>, <<"write_value", "trans_chunked">>)
          ELSE Client!To(<<"chunkedCR">>, <<"write_value">>)
    BY <1>4 DEF Client!WordEnds
  <2>2. QED
    BY <1>1, <1>2, <2>1, StrayTo
<1>5. CASE w = "Content-Length"
  <2>1. Client!WordEnds(w, c, do) =
          Client!To(IF c = "LF" THEN <<"header">> ELSE <<"crlf">>, <<"write_content_len", "write_value">>)
    BY <1>5 DEF Client!WordEnds
  <2>2. QED
    BY <1>1, <1>2, <2>1, StrayTo
<1>6. QED
  BY <1>3, <1>4, <1>5 DEF Client!Keywords

\* A byte of a name that may be a keyword's.
LEMMA KeywordIs ==
    ASSUME NEW ws \in SUBSET Client!Keywords, NEW i \in 1 .. 17, \A w \in ws : i <= Len(Client!Name[w]), NEW c
    PROVE  LET step == Client!Keyword(<<"keyword", ws, i>>, c)
           IN \/ c # ":" /\ \E x : InKeyword(x) /\ step = To(x, <<>>)
              \/ c = ":" /\ \E w \in Client!Keywords : step = To(<<"known", w>>, <<"write_field">>)
              \/ step = Client!CField(c)
<1> DEFINE full == {w \in ws : Len(Client!Name[w]) = i}
           on == {w \in ws \ full : Client!Name[w][i + 1] = Client!Fold(c)}
           j == i + 1
           step == Client!Keyword(<<"keyword", ws, i>>, c)
<1>1. step = CASE on # {} -> Client!To(<<"keyword", on, j>>, <<>>)
               [] c = ":" /\ full # {} -> Client!To(<<"known", CHOOSE w \in full : TRUE>>, <<"write_field">>)
               [] OTHER -> Client!CField(c)
  BY DEF Client!Keyword
<1>2. \A w \in on : w \in Client!Keywords /\ j <= Len(Client!Name[w]) /\ Client!Name[w][j] = Client!Fold(c)
  BY NameFacts
<1>3. full \subseteq Client!Keywords
  OBVIOUS
<1>4. j \in 2 .. 18
  OBVIOUS
<1> HIDE DEF full, on, j, step
<1>5. CASE on # {}
  <2>1. PICK w \in on : TRUE
    BY <1>5
  <2>2. w \in Client!Keywords /\ j \in 1 .. Len(Client!Name[w]) /\ j \in 1 .. 17
    <3> DEFINE l == Len(Client!Name[w])
    <3>1. w \in Client!Keywords /\ j <= l
      BY <1>2
    <3>2. l \in 1 .. 17
      BY <3>1, NameFacts
    <3> HIDE DEF l
    <3>3. j \in 1 .. l /\ j \in 1 .. 17
      BY <1>4, <3>1, <3>2
    <3>4. QED
      BY <3>1, <3>3 DEF l
  <2>3. Client!Name[w][j] \notin Ending
    BY <2>2, NameFacts
  <2>4. c # ":"
    BY <1>2, <2>3, FoldEnding DEF Ending
  <2>5. on \in SUBSET Client!Keywords
    BY <1>2
  <2>6. InKeyword(<<"keyword", on, j>>)
    BY <1>2, <2>2, <2>5 DEF InKeyword
  <2>7. step = To(<<"keyword", on, j>>, <<>>)
    BY <1>1, <1>5, <2>4, ClientTo
  <2>8. QED
    BY <2>4, <2>6, <2>7 DEF step
<1>6. CASE on = {} /\ c = ":" /\ full # {}
  <2> DEFINE w == CHOOSE w \in full : TRUE
  <2>1. w \in Client!Keywords
    BY <1>3, <1>6
  <2>2. step = To(<<"known", w>>, <<"write_field">>)
    BY <1>1, <1>6, ClientTo
  <2> HIDE DEF w
  <2>3. QED
    BY <1>6, <2>1, <2>2 DEF step
<1>7. CASE on = {} /\ ~(c = ":" /\ full # {})
  BY <1>1, <1>7 DEF step
<1>8. QED
  BY <1>5, <1>6, <1>7

\* The name of a keyword.
LEMMA StrayKeyword ==
    ASSUME NEW cs, InKeyword(cs), NEW c
    PROVE  Stray(Client!Keyword(cs, c))
<1>1. PICK ws \in SUBSET Client!Keywords, i \in 1 .. 17 :
        cs = <<"keyword", ws, i>> /\ \A w \in ws : i <= Len(Client!Name[w])
  BY DEF InKeyword
<1> DEFINE step == Client!Keyword(cs, c)
<1>2. \/ \E x : InKeyword(x) /\ step = To(x, <<>>)
      \/ \E w \in Client!Keywords : step = To(<<"known", w>>, <<"write_field">>)
      \/ step = Client!CField(c)
  BY <1>1, KeywordIs
<1> HIDE DEF step
<1>3. ASSUME NEW x, InKeyword(x), step = To(x, <<>>) PROVE Stray(step)
  <2>1. Astray(x)
    BY <1>3 DEF Astray
  <2>2. Stray(Client!To(x, <<>>))
    BY <2>1, StrayTo, ActsSeq
  <2>3. QED
    BY <1>3, <2>2, ClientTo
<1>4. ASSUME NEW w \in Client!Keywords, step = To(<<"known", w>>, <<"write_field">>) PROVE Stray(step)
  <2>1. Astray(<<"known", w>>)
    BY StrayOf
  <2>2. <<"write_field">> \in Seq(FieldActs)
    BY DEF FieldActs
  <2>3. Stray(Client!To(<<"known", w>>, <<"write_field">>))
    BY <2>1, <2>2, StrayTo
  <2>4. QED
    BY <1>4, <2>3, ClientTo
<1>5. QED
  BY <1>2, <1>3, <1>4, StrayField DEF step

\* The first byte of a word.
LEMMA StrayWord1 ==
    ASSUME NEW w \in Client!Keywords, NEW x \in {"valueWord", "word", "nameOrWord"}
    PROVE  Astray(<<x, w, 1>>)
<1> DEFINE i == 1
<1>1. i \in 1 .. 7
  OBVIOUS
<1> HIDE DEF i
<1>2. Astray(<<x, w, i>>)
  BY <1>1, StrayWord
<1>3. QED
  BY <1>2 DEF i

\* The end of the head.
LEMMA StrayDone ==
    ASSUME NEW do \in Seq(FieldActs)
    PROVE  Stray(Client!Done(do))
<1>1. do \o <<"done">> \in Seq(FieldActs)
  BY ActsSeq, ActSeqs
<1>2. Astray(<<"done">>)
  BY StrayPlain
<1>3. QED
  BY <1>1, <1>2, StrayTo DEF Client!Done

\* The start of a line.
LEMMA StrayHeader ==
    ASSUME NEW cs, NEW c
    PROVE  Stray(Client!CHeader(cs, c))
<1> DEFINE do == IF cs[1] = "closed" THEN <<"write_connection_close">> ELSE <<>>
           step == Client!CHeader(cs, c)
<1>1. step = CASE c = "LF" -> Client!Done(do)
               [] c = "CR" -> Client!To(<<"lastCR">>, do)
               [] OTHER    -> Client!NameBegins(c, do)
  BY DEF Client!CHeader
<1>2. do \in {<<>>, <<"write_connection_close">>}
  OBVIOUS
<1>3. do \in Seq(FieldActs)
  BY ActSeqs, Zenon
<1> HIDE DEF do, step
<1>4. Astray(<<"lastCR">>)
  BY StrayPlain
<1>5. CASE c = "LF"
  BY <1>1, <1>3, <1>5, StrayDone DEF step
<1>6. CASE c = "CR"
  BY <1>1, <1>3, <1>4, <1>6, StrayTo DEF step
<1>7. CASE c \notin {"LF", "CR"}
  BY <1>1, <1>2, <1>7, StrayNameBegins DEF step
<1>8. QED
  BY <1>5, <1>6, <1>7

\* The line feed behind a return.
LEMMA StrayCrlf ==
    ASSUME NEW cs \in {<<"crlf">>, <<"chunkedCR">>, <<"closedCR">>}, NEW c
    PROVE  Stray(Client!CCrlf(cs, c)) /\ Stray(Client!CLastCR(c))
<1>1. Astray(<<"header">>) /\ Astray(<<"closed">>)
  BY StrayPlain
<1>2. CASE c # "LF"
  BY <1>2, StrayError DEF Client!CCrlf, Client!CLastCR
<1>3. CASE c = "LF"
  <2>1. Stray(Client!CLastCR(c))
    BY <1>3, StrayDone, ActSeqs DEF Client!CLastCR
  <2>2. CASE cs = <<"crlf">>
    <3>1. Client!CCrlf(cs, c) = Client!To(<<"header">>, <<>>)
      BY <1>3, <2>2 DEF Client!CCrlf
    <3>2. QED
      BY <1>1, <2>1, <3>1, StrayTo, ActSeqs
  <2>3. CASE cs = <<"chunkedCR">>
    <3>1. Client!CCrlf(cs, c) = Client!To(<<"header">>, <<"trans_chunked">>)
      BY <1>3, <2>3 DEF Client!CCrlf
    <3>2. QED
      BY <1>1, <2>1, <3>1, StrayTo, ActSeqs
  <2>4. CASE cs = <<"closedCR">>
    <3>1. Client!CCrlf(cs, c) = Client!To(<<"closed">>, <<>>)
      BY <1>3, <2>4 DEF Client!CCrlf
    <3>2. QED
      BY <1>1, <2>1, <3>1, StrayTo, ActSeqs
  <2>5. QED
    BY <2>2, <2>3, <2>4
<1>4. QED
  BY <1>2, <1>3

\* What a byte behind the colon of a keyword's name does.
LEMMA KnownIs ==
    ASSUME NEW w \in Client!Keywords, NEW c
    PROVE  LET step == Client!Known(<<"known", w>>, c)
           IN /\ c = "LF" => step = Client!To(<<"emptyLF", w>>, <<"start_value", "write_value">>)
              /\ c = "CR" => step = Client!To(<<"emptyCR", w>>, <<"start_value", "write_value">>)
              /\ c \in {"VT", "SP"} => step = Client!To(<<"known", w>>, <<"start_value">>)
              /\ c \notin {"LF", "CR", "VT", "SP"} =>
                   \/ step = Client!To(<<"valueWord", w, 1>>, <<"start_value">>)
                   \/ step = Client!To(<<"value", 2>>, <<"start_value">>)
<1>1. Client!WordGoes(w, 0, c) => c \notin Ending
  BY WordByte
<1>2. Client!Known(<<"known", w>>, c) =
        CASE Client!WordGoes(w, 0, c) -> Client!To(<<"valueWord", w, 1>>, <<"start_value">>)
          [] c \in {"VT", "SP"} -> Client!To(<<"known", w>>, <<"start_value">>)
          [] c = "LF" -> Client!To(<<"emptyLF", w>>, <<"start_value", "write_value">>)
          [] c = "CR" -> Client!To(<<"emptyCR", w>>, <<"start_value", "write_value">>)
          [] OTHER    -> Client!To(<<"value", 2>>, <<"start_value">>)
  BY DEF Client!Known
<1>3. QED
  BY <1>1, <1>2 DEF Ending

\* Behind the colon of a keyword.
LEMMA StrayKnown ==
    ASSUME NEW w \in Client!Keywords, NEW c
    PROVE  Stray(Client!Known(<<"known", w>>, c))
<1> DEFINE step == Client!Known(<<"known", w>>, c)
<1>1. \/ step = Client!To(<<"emptyLF", w>>, <<"start_value", "write_value">>)
      \/ step = Client!To(<<"emptyCR", w>>, <<"start_value", "write_value">>)
      \/ step = Client!To(<<"known", w>>, <<"start_value">>)
      \/ step = Client!To(<<"valueWord", w, 1>>, <<"start_value">>)
      \/ step = Client!To(<<"value", 2>>, <<"start_value">>)
  BY KnownIs
<1> HIDE DEF step
<1>2. Astray(<<"emptyLF", w>>) /\ Astray(<<"emptyCR", w>>) /\ Astray(<<"known", w>>)
  BY StrayOf
<1>3. Astray(<<"valueWord", w, 1>>) /\ Astray(<<"value", 2>>)
  BY StrayWord1, StrayValue
<1>4. QED
  BY <1>1, <1>2, <1>3, StrayTo, ActSeqs DEF step

\* A byte of a keyword's value.
LEMMA ValueWordIs ==
    ASSUME NEW w \in Client!Keywords, NEW i \in 1 .. 7, NEW c
    PROVE  LET step == Client!ValueWord(<<"valueWord", w, i>>, c)
           IN \/ c \notin Ending /\ \E j \in 1 .. 7 : step = Client!To(<<"valueWord", w, j>>, <<>>)
              \/ c \in {"LF", "CR"} /\ step = Client!WordEnds(w, c, <<"write_value">>)
              \/ step = Client!CValue(<<"value", 2>>, c)
<1> DEFINE j == Client!Longer(w, i)
           step == Client!ValueWord(<<"valueWord", w, i>>, c)
<1>1. Client!WordGoes(w, i, c) => c \notin Ending /\ j \in 1 .. 7
  BY WordByte
<1>2. step = CASE Client!WordGoes(w, i, c) -> Client!To(<<"valueWord", w, j>>, <<>>)
               [] c \in {"LF", "CR"} /\ i = Len(Client!Word[w]) -> Client!WordEnds(w, c, <<"write_value">>)
               [] OTHER -> Client!CValue(<<"value", 2>>, c)
  BY DEF Client!ValueWord
<1> HIDE DEF j, step
<1>3. CASE Client!WordGoes(w, i, c)
  BY <1>1, <1>2, <1>3 DEF Ending, step
<1>4. CASE ~Client!WordGoes(w, i, c)
  BY <1>2, <1>4 DEF step
<1>5. QED
  BY <1>3, <1>4

\* The word of a keyword, or another value.
LEMMA StrayValueWord ==
    ASSUME NEW w \in Client!Keywords, NEW i \in 1 .. 7, NEW c
    PROVE  Stray(Client!ValueWord(<<"valueWord", w, i>>, c))
<1> DEFINE step == Client!ValueWord(<<"valueWord", w, i>>, c)
<1>1. \/ \E j \in 1 .. 7 : step = Client!To(<<"valueWord", w, j>>, <<>>)
      \/ step = Client!WordEnds(w, c, <<"write_value">>)
      \/ step = Client!CValue(<<"value", 2>>, c)
  BY ValueWordIs
<1> HIDE DEF step
<1>2. ASSUME NEW j \in 1 .. 7, step = Client!To(<<"valueWord", w, j>>, <<>>) PROVE Stray(step)
  <2>1. Astray(<<"valueWord", w, j>>)
    BY StrayWord
  <2>2. QED
    BY <1>2, <2>1, StrayTo, ActSeqs
<1>3. Stray(Client!WordEnds(w, c, <<"write_value">>)) /\ Stray(Client!CValue(<<"value", 2>>, c))
  BY StrayWordEnds, StrayCValue
<1>4. QED
  BY <1>1, <1>2, <1>3 DEF step

\* Spaces behind an empty value.
LEMMA StraySpaces ==
    ASSUME NEW w \in Client!Keywords, NEW x, NEW c
    PROVE  Stray(Client!SpacesStep(<<x, w>>, c))
<1> DEFINE step == Client!SpacesStep(<<x, w>>, c)
           do == Client!StartsValue(w)
<1>1. step = CASE c \in Client!Spaces -> Client!To(<<"spaces", w>>, <<>>)
               [] Client!WordGoes(w, 0, c) -> Client!To(<<"word", w, 1>>, do)
               [] OTHER -> Client!Error
  BY DEF Client!SpacesStep
<1>2. Client!WordGoes(w, 0, c) => c \notin Ending
  BY WordByte
<1>3. do \in Seq(FieldActs)
  BY ActSeqs, Zenon DEF Client!StartsValue
<1> HIDE DEF step, do
<1>4. Astray(<<"spaces", w>>) /\ Astray(<<"word", w, 1>>)
  BY StrayOf, StrayWord1
<1>5. CASE c \in Client!Spaces
  <2>1. step = Client!To(<<"spaces", w>>, <<>>)
    BY <1>1, <1>2, <1>5 DEF Client!Spaces, Ending
  <2>2. QED
    BY <1>4, <2>1, StrayTo, ActSeqs DEF step
<1>6. CASE c \notin Client!Spaces /\ Client!WordGoes(w, 0, c)
  BY <1>1, <1>3, <1>4, <1>6, StrayTo DEF step
<1>7. CASE c \notin Client!Spaces /\ ~Client!WordGoes(w, 0, c)
  BY <1>1, <1>7, StrayError DEF step
<1>8. QED
  BY <1>5, <1>6, <1>7

\* The line behind an empty value.
LEMMA StrayEmptyLF ==
    ASSUME NEW w \in Client!Keywords, NEW c
    PROVE  Stray(Client!EmptyLF(<<"emptyLF", w>>, c))
<1> DEFINE step == Client!EmptyLF(<<"emptyLF", w>>, c)
           do == Client!StartsValue(w)
           both == do \o <<"start_field">>
<1>1. step = CASE c \in {"VT", "SP"} -> Client!To(<<"spaces", w>>, <<>>)
               [] c = "LF" -> Client!To(<<"doneOpen", w>>, <<"done">>)
               [] c = "CR" -> Client!To(<<"emptyLFCR", w>>, <<>>)
               [] Client!WordGoes(w, 0, c) -> Client!To(<<"nameOrWord", w, 1>>, both)
               [] OTHER -> Client!NameBegins(c, <<>>)
  BY DEF Client!EmptyLF
<1>2. Client!WordGoes(w, 0, c) => c \notin Ending
  BY WordByte
<1>3. do \in Seq(FieldActs)
  BY ActSeqs, Zenon DEF Client!StartsValue
<1> HIDE DEF step, do
<1>4. both \in Seq(FieldActs)
  BY <1>3, ActsSeq, ActSeqs
<1> HIDE DEF both
<1>5. Astray(<<"spaces", w>>) /\ Astray(<<"doneOpen", w>>) /\ Astray(<<"emptyLFCR", w>>)
  BY StrayOf
<1>6. Astray(<<"nameOrWord", w, 1>>)
  BY StrayWord1
<1>7. CASE c \in {"VT", "SP", "LF", "CR"}
  <2>1. \/ step = Client!To(<<"spaces", w>>, <<>>)
        \/ step = Client!To(<<"doneOpen", w>>, <<"done">>)
        \/ step = Client!To(<<"emptyLFCR", w>>, <<>>)
    BY <1>1, <1>2, <1>7 DEF Ending
  <2>2. QED
    BY <1>5, <2>1, StrayTo, ActSeqs DEF step
<1>8. CASE c \notin {"VT", "SP", "LF", "CR"} /\ Client!WordGoes(w, 0, c)
  BY <1>1, <1>4, <1>6, <1>8, StrayTo DEF step
<1>9. CASE c \notin {"VT", "SP", "LF", "CR"} /\ ~Client!WordGoes(w, 0, c)
  BY <1>1, <1>9, StrayNameBegins DEF step
<1>10. QED
  BY <1>7, <1>8, <1>9

\* A return behind an empty value.
LEMMA StrayEmptyCR ==
    ASSUME NEW w \in Client!Keywords, NEW x \in {"emptyCR", "emptyLFCR"}, NEW c
    PROVE  Stray(Client!EmptyCR(<<x, w>>, c))
<1>1. Astray(<<"emptyLF", w>>) /\ Astray(<<"doneOpen", w>>)
  BY StrayOf
<1>2. CASE c # "LF"
  <2>1. Client!EmptyCR(<<x, w>>, c) = Client!SpacesStep(<<x, w>>, c)
    BY <1>2 DEF Client!EmptyCR
  <2>2. QED
    BY <2>1, StraySpaces
<1>3. CASE c = "LF"
  <2>1. \/ Client!EmptyCR(<<x, w>>, c) = Client!To(<<"emptyLF", w>>, <<>>)
        \/ Client!EmptyCR(<<x, w>>, c) = Client!To(<<"doneOpen", w>>, <<"done">>)
    BY <1>3 DEF Client!EmptyCR
  <2>2. QED
    BY <1>1, <2>1, StrayTo, ActSeqs
<1>4. QED
  BY <1>2, <1>3

\* A word on a later line.
LEMMA StrayWordOnly ==
    ASSUME NEW w \in Client!Keywords, NEW i \in 1 .. 7, NEW c
    PROVE  Stray(Client!WordOnly(<<"word", w, i>>, c))
<1> DEFINE j == Client!Longer(w, i)
           step == Client!WordOnly(<<"word", w, i>>, c)
<1>1. Client!WordGoes(w, i, c) => c \notin Ending /\ j \in 1 .. 7
  BY WordByte
<1>2. step = CASE Client!WordGoes(w, i, c) -> Client!To(<<"word", w, j>>, <<>>)
               [] c \in {"LF", "CR"} /\ i = Len(Client!Word[w]) -> Client!WordEnds(w, c, <<>>)
               [] OTHER -> Client!Error
  BY DEF Client!WordOnly
<1> HIDE DEF j, step
<1>3. CASE Client!WordGoes(w, i, c)
  <2>1. step = Client!To(<<"word", w, j>>, <<>>)
    BY <1>1, <1>2, <1>3 DEF Ending
  <2>2. Astray(<<"word", w, j>>)
    BY <1>1, <1>3, StrayWord
  <2>3. QED
    BY <2>1, <2>2, StrayTo, ActSeqs DEF step
<1>4. CASE ~Client!WordGoes(w, i, c)
  <2>1. step = Client!WordEnds(w, c, <<>>) \/ step = Client!Error
    BY <1>2, <1>4
  <2>2. Stray(Client!WordEnds(w, c, <<>>))
    BY StrayWordEnds
  <2>3. QED
    BY <2>1, <2>2, StrayError DEF step
<1>5. QED
  BY <1>3, <1>4

\* A word on a later line, or a name.
LEMMA StrayNameOrWord ==
    ASSUME NEW w \in Client!Keywords, NEW i \in 1 .. 7, NEW c
    PROVE  Stray(Client!NameOrWord(<<"nameOrWord", w, i>>, c))
<1> DEFINE j == Client!Longer(w, i)
           x == <<"keyword", {"Connection", "Content-Length"}, 2>>
           step == Client!NameOrWord(<<"nameOrWord", w, i>>, c)
<1>1. Client!WordGoes(w, i, c) => c \notin Ending /\ j \in 1 .. 7
  BY WordByte
<1>2. step = CASE Client!WordGoes(w, i, c) -> Client!To(<<"nameOrWord", w, j>>, <<>>)
               [] c \in {"LF", "CR"} /\ i = Len(Client!Word[w]) -> Client!WordEnds(w, c, <<>>)
               [] c = "O" /\ i = 1 /\ w # "Content-Length" -> Client!To(x, <<>>)
               [] OTHER -> Client!CField(c)
  BY DEF Client!NameOrWord
<1>3. Client!WordGoes(w, i, c) => ~(c = "O" /\ i = 1 /\ w # "Content-Length")
  <2>1. SUFFICES ASSUME Client!WordGoes(w, 1, "O"), w # "Content-Length" PROVE FALSE
    OBVIOUS
  <2>2. Client!Word[w][2] = "O"
    BY <2>1 DEF Client!WordGoes, Client!Fold
  <2>3. Client!Word[w][2] \in {"L", "H"}
    BY <2>1 DEF Client!Word, Client!Keywords
  <2>4. QED
    BY <2>2, <2>3
<1>4. Astray(x)
  <2> DEFINE ws == {"Connection", "Content-Length"}
             k == 2
  <2>1. ws \in SUBSET Client!Keywords /\ k \in 1 .. 17
    BY DEF Client!Keywords
  <2>2. Len(Client!Name["Connection"]) = 10 /\ Len(Client!Name["Content-Length"]) = 14
    BY DEF Client!Name, Client!Keywords
  <2>5. \A v \in ws : k <= Len(Client!Name[v])
    <3> SUFFICES ASSUME NEW v \in ws PROVE 2 <= Len(Client!Name[v])
      OBVIOUS
    <3> DEFINE l == Len(Client!Name[v])
    <3>1. l = 10 \/ l = 14
      BY <2>2, Zenon
    <3> HIDE DEF l
    <3>2. 2 <= l
      BY <3>1
    <3>3. QED
      BY <3>2 DEF l
  <2> HIDE DEF ws, k
  <2>6. InKeyword(<<"keyword", ws, k>>)
    BY <2>1, <2>5 DEF InKeyword
  <2>3. InKeyword(x)
    BY <2>6 DEF ws, k
  <2>4. QED
    BY <2>3 DEF Astray
<1> HIDE DEF j, step, x
<1>5. CASE Client!WordGoes(w, i, c)
  <2>1. step = Client!To(<<"nameOrWord", w, j>>, <<>>)
    BY <1>1, <1>2, <1>3, <1>5 DEF Ending
  <2>2. Astray(<<"nameOrWord", w, j>>)
    BY <1>1, <1>5, StrayWord
  <2>3. QED
    BY <2>1, <2>2, StrayTo, ActSeqs DEF step
<1>6. CASE ~Client!WordGoes(w, i, c)
  <2>1. step = Client!WordEnds(w, c, <<>>) \/ step = Client!To(x, <<>>) \/ step = Client!CField(c)
    BY <1>2, <1>6
  <2>2. Stray(Client!WordEnds(w, c, <<>>)) /\ Stray(Client!To(x, <<>>)) /\ Stray(Client!CField(c))
    BY <1>4, StrayWordEnds, StrayTo, ActSeqs, StrayField
  <2>3. QED
    BY <2>1, <2>2 DEF step
<1>7. QED
  BY <1>5, <1>6

\* A machine that is astray stays so.
LEMMA StrayMoves ==
    ASSUME NEW cs, Astray(cs), NEW c
    PROVE  Stray(Client!HttpClientStep(cs, c))
<1>1. CASE cs \in {<<"header">>, <<"closed">>, <<"field">>, <<"value", 1>>, <<"value", 2>>, <<"crlf">>,
                   <<"chunkedCR">>, <<"closedCR">>, <<"lastCR">>, <<"done">>}
  <2>1. CASE cs \in {<<"header">>, <<"closed">>}
    <3>1. Client!HttpClientStep(cs, c) = Client!CHeader(cs, c)
      BY <2>1, ClientSwitch
    <3>2. QED
      BY <3>1, StrayHeader
  <2>2. CASE cs = <<"field">>
    <3>1. Client!HttpClientStep(cs, c) = Client!CField(c)
      BY <2>2, ClientSwitch
    <3>2. QED
      BY <3>1, StrayField
  <2>3. ASSUME NEW k \in {1, 2}, cs = <<"value", k>> PROVE Stray(Client!HttpClientStep(cs, c))
    <3>1. Client!HttpClientStep(cs, c) = Client!CValue(cs, c)
      BY <2>3, ClientSwitch
    <3>2. QED
      BY <2>3, <3>1, StrayCValue
  <2>4. CASE cs \in {<<"crlf">>, <<"chunkedCR">>, <<"closedCR">>}
    <3>1. Client!HttpClientStep(cs, c) = Client!CCrlf(cs, c)
      BY <2>4, ClientSwitch
    <3>2. QED
      BY <2>4, <3>1, StrayCrlf
  <2>5. CASE cs = <<"lastCR">>
    <3>1. Client!HttpClientStep(cs, c) = Client!CLastCR(c)
      BY <2>5, ClientSwitch
    <3>2. Stray(Client!CLastCR(c))
      BY StrayCrlf
    <3>3. QED
      BY <3>1, <3>2
  <2>6. CASE cs = <<"done">>
    <3>1. Client!HttpClientStep(cs, c) = Client!Error
      BY <2>6, ClientSwitch
    <3>2. QED
      BY <3>1, StrayError
  <2>7. QED
    BY <1>1, <2>1, <2>2, <2>3, <2>4, <2>5, <2>6
<1>2. CASE InKeyword(cs)
  <2>1. Client!HttpClientStep(cs, c) = Client!Keyword(cs, c)
    BY <1>2, ClientSwitch DEF InKeyword
  <2>2. QED
    BY <1>2, <2>1, StrayKeyword
<1>3. ASSUME NEW x \in {"known", "emptyLF", "spaces", "doneOpen", "emptyCR", "emptyLFCR"},
             NEW w \in Client!Keywords, cs = <<x, w>>
      PROVE  Stray(Client!HttpClientStep(cs, c))
  <2>1. CASE x = "known"
    <3>1. Client!HttpClientStep(cs, c) = Client!Known(cs, c)
      BY <1>3, <2>1, ClientSwitch
    <3>2. QED
      BY <1>3, <2>1, <3>1, StrayKnown
  <2>2. CASE x = "emptyLF"
    <3>1. Client!HttpClientStep(cs, c) = Client!EmptyLF(cs, c)
      BY <1>3, <2>2, ClientSwitch
    <3>2. QED
      BY <1>3, <2>2, <3>1, StrayEmptyLF
  <2>3. CASE x \in {"spaces", "doneOpen"}
    <3>1. Client!HttpClientStep(cs, c) = Client!SpacesStep(cs, c)
      BY <1>3, <2>3, ClientSwitch
    <3>2. QED
      BY <1>3, <3>1, StraySpaces
  <2>4. CASE x \in {"emptyCR", "emptyLFCR"}
    <3>1. Client!HttpClientStep(cs, c) = Client!EmptyCR(cs, c)
      BY <1>3, <2>4, ClientSwitch
    <3>2. QED
      BY <1>3, <2>4, <3>1, StrayEmptyCR
  <2>5. QED
    BY <2>1, <2>2, <2>3, <2>4
<1>4. ASSUME NEW x \in {"valueWord", "word", "nameOrWord"}, NEW w \in Client!Keywords, NEW i \in 1 .. 7,
             cs = <<x, w, i>>
      PROVE  Stray(Client!HttpClientStep(cs, c))
  <2>1. CASE x = "valueWord"
    <3>1. Client!HttpClientStep(cs, c) = Client!ValueWord(cs, c)
      BY <1>4, <2>1, ClientSwitch
    <3>2. QED
      BY <1>4, <2>1, <3>1, StrayValueWord
  <2>2. CASE x = "word"
    <3>1. Client!HttpClientStep(cs, c) = Client!WordOnly(cs, c)
      BY <1>4, <2>2, ClientSwitch
    <3>2. QED
      BY <1>4, <2>2, <3>1, StrayWordOnly
  <2>3. CASE x = "nameOrWord"
    <3>1. Client!HttpClientStep(cs, c) = Client!NameOrWord(cs, c)
      BY <1>4, <2>3, ClientSwitch
    <3>2. QED
      BY <1>4, <2>3, <3>1, StrayNameOrWord
  <2>4. QED
    BY <2>1, <2>2, <2>3
<1>5. QED
  BY <1>1, <1>2, <1>3, <1>4 DEF Astray, OfKeyword, InWord

\* The parser of a response when the lexer is at r, and a byte that keeps it sound.
Answering(r) == kind = "response" /\ ref = r /\ Shaped(m) /\ Texts(m) /\ Paired(m, r)
ResponseSound(c, choice) == Sound(After(Client!HttpClientStep(m.cs, c), c, choice), RefStep(c))

\* What is known of a parser of a response at r.
LEMMA AnsweringAt ==
    ASSUME NEW r, Answering(r)
    PROVE  /\ ~m.done /\ "empty" \notin cut /\ AtResponse(m.cs, r) /\ Held(m, r) /\ HasDelivered(m, r)
           /\ Shaped(m) /\ Texts(m) /\ Paired(m, ref) /\ Here /\ ref = r /\ kind = "response"
           /\ r \in HeadRefs => FirstLine(m)
  BY DEF Answering, Paired, Here, HasDelivered

\* What follows a chunk's size or extension, for the lexer.
ExtEnds(c, else) == CASE c = "LF" -> "end" [] c = "CR" -> "endCR" [] c = ";" -> "ext0" [] OTHER -> else

\* The lexer on the first line of a response.
LEMMA RefResponseIs ==
    ASSUME kind = "response", NEW c
    PROVE  /\ ref = "start" => RefStep(c) = IF c = "H" THEN "version" ELSE "size"
           /\ ref = "version" => RefStep(c) = IF c = "SP" THEN "status0" ELSE "version"
           /\ ref \in {"status0", "status"} => RefStep(c) = IF c = "SP" THEN "reason0" ELSE "status"
           /\ ref = "reason0" => RefStep(c) = "reason"
           /\ ref = "reason" => RefStep(c) = LineEnds(c, "reason")
           /\ ref = "size" => RefStep(c) = ExtEnds(c, "size")
           /\ ref \in {"ext0", "ext"} => RefStep(c) = IF c = "=" THEN "extEq" ELSE ExtEnds(c, "ext")
           /\ ref \in {"extEq", "extValue"} => RefStep(c) = ExtEnds(c, "extValue")
           /\ ref = "endCR" => RefStep(c) = "end"
  BY DEF RefStep, RefResponse, ExtEnds

\* The first byte of a response: the version or the size of a chunk begins.
LEMMA AtCStart ==
    ASSUME Answering("start"), NEW c, NEW choice
    PROVE  ResponseSound(c, choice)
<1> USE AnsweringAt
<1>1. m.cs = <<"start">>
  BY DEF AtResponse
<1>2. Client!HttpClientStep(m.cs, c) = Client!CStart(c)
  BY <1>1, ClientSwitch
<1>3. Begins(c) = {"version", "size"}
  BY BeginsIs
<1>4. RefStep(c) = IF c = "H" THEN "version" ELSE "size"
  BY RefResponseIs
<1>5. HasDelivered(m, "version") /\ HasDelivered(m, "size")
  BY DEF HasDelivered, HeadRefs
<1>6. CASE c \in Client!XDigits
  <2>1. Client!CStart(c) = To(<<"chunk">>, <<"mark">>) /\ RefStep(c) = "size"
    BY <1>4, <1>6 DEF Client!CStart, Client!XDigits, Client!To, To
  <2>2. InPlace(<<"chunk">>, "size")
    BY DEF InPlace, AtResponse
  <2>3. QED
    BY <1>2, <1>3, <1>5, <2>1, <2>2, MarkSound DEF ResponseSound
<1>7. CASE c = "H"
  <2>1. Client!CStart(c) = To(<<"version", 2>>, <<"mark">>) /\ RefStep(c) = "version"
    BY <1>4, <1>7 DEF Client!CStart, Client!XDigits, Client!To, To
  <2>2. InPlace(<<"version", 2>>, "version")
    BY DEF InPlace, AtResponse
  <2>3. QED
    BY <1>2, <1>3, <1>5, <2>1, <2>2, MarkSound DEF ResponseSound
<1>8. CASE c \notin Client!XDigits \union {"H"}
  BY <1>2, <1>8, ErrorSound, ClientTo DEF Client!CStart, ResponseSound
<1>9. QED
  BY <1>6, <1>7, <1>8

\* The version of a status line.
LEMMA AtCVersion ==
    ASSUME Answering("version"), NEW c, NEW choice
    PROVE  ResponseSound(c, choice)
<1> USE AnsweringAt
<1>1. PICK i \in 2 .. 9 : m.cs = <<"version", i>>
  BY DEF AtResponse
<1> DEFINE step == Client!CVersion(m.cs, c)
<1>2. Client!HttpClientStep(m.cs, c) = step /\ m.cs[2] = i
  BY <1>1, ClientSwitch
<1>3. RefStep(c) = IF c = "SP" THEN "status0" ELSE "version"
  BY RefResponseIs
<1>4. Marked(m, "version")
  BY DEF Held
<1>5. \/ c # "SP" /\ \E j \in 2 .. 9 : step = To(<<"version", j>>, <<>>)
      \/ c = "SP" /\ step = To(<<"status", 1>>, <<"http_version">>)
      \/ step = Error
  <2> DEFINE Expected == <<"H", "T", "T", "P", "/">>
  <2>1. CASE i <= 5
    <3> DEFINE j == i + 1
    <3>1. step = IF c = Expected[i] THEN To(<<"version", j>>, <<>>) ELSE Error
      BY <1>2, <2>1, ClientTo DEF Client!CVersion
    <3>2. j \in 2 .. 9 /\ Expected[i] # "SP"
      BY <2>1
    <3> HIDE DEF j, Expected, step
    <3>3. QED
      BY <3>1, <3>2
  <2>2. CASE i > 5
    <3> DEFINE j == IF i \in {6, 8} THEN i + 1 ELSE i
               k == 8
    <3>1. step = CASE c = "0" -> To(<<"version", j>>, <<>>)
                   [] c = "." /\ i = 7 -> To(<<"version", k>>, <<>>)
                   [] c = "SP" /\ i = 9 -> To(<<"status", 1>>, <<"http_version">>)
                   [] OTHER -> Error
      BY <1>2, <2>2, ClientTo DEF Client!CVersion
    <3>2. j \in 2 .. 9 /\ k \in 2 .. 9
      BY <2>2
    <3> HIDE DEF j, k, step
    <3>3. QED
      BY <3>1, <3>2
  <2>3. QED
    BY <2>1, <2>2
<1> HIDE DEF step
<1>6. CASE c # "SP" /\ \E j \in 2 .. 9 : step = To(<<"version", j>>, <<>>)
  <2>1. PICK j \in 2 .. 9 : step = To(<<"version", j>>, <<>>)
    BY <1>6
  <2>2. InPlace(<<"version", j>>, "version")
    BY DEF InPlace, AtResponse
  <2>3. QED
    BY <1>2, <1>3, <1>6, <2>1, <2>2, QuietSound DEF ResponseSound
<1>7. CASE c = "SP" /\ step = To(<<"status", 1>>, <<"http_version">>)
  <2>1. InPlace(<<"status", 1>>, "status0")
    BY DEF InPlace, AtResponse
  <2>2. Ends(<<"http_version">>, "version", c)
    BY <1>4 DEF Ends, Delivers
  <2>3. ASSUME NEW t, Passed(m, t, "version") PROVE HasDelivered(t, "status0")
    BY <2>3 DEF Passed, HasDelivered, HeadRefs
  <2>4. Sound(After(To(<<"status", 1>>, <<"http_version">>), c, choice), "status0")
    BY <2>1, <2>2, <2>3, EndSound DEF FreeRefs
  <2>5. QED
    BY <1>2, <1>3, <1>7, <2>4 DEF ResponseSound
<1>8. CASE step = Error
  BY <1>2, <1>8, ErrorSound DEF ResponseSound
<1>9. QED
  BY <1>5, <1>6, <1>7, <1>8

\* The status code.
LEMMA AtStatus ==
    ASSUME NEW r \in {"status0", "status"}, Answering(r), NEW c, NEW choice
    PROVE  ResponseSound(c, choice)
<1> USE AnsweringAt
<1> DEFINE step == Client!Status(m.cs, c)
<1>1. /\ r = "status0" => m.cs = <<"status", 1>>
      /\ r = "status" => m.cs = <<"status", 2>>
  BY DEF AtResponse
<1>2. Client!HttpClientStep(m.cs, c) = step
  BY <1>1, ClientSwitch
<1>3. RefStep(c) = IF c = "SP" THEN "reason0" ELSE "status"
  BY RefResponseIs
<1>4. HasDelivered(m, "status")
  BY DEF HasDelivered, HeadRefs
<1>5. InPlace(<<"status", 2>>, "status") /\ InPlace(<<"reason", 1>>, "reason0")
  BY DEF InPlace, AtResponse
<1>6. CASE r = "status0" /\ c = "0"
  <2>1. step = To(<<"status", 2>>, <<"mark">>)
    BY <1>1, <1>6, ClientTo DEF Client!Status
  <2>0. ref = "status0"
    BY <1>6
  <2>2. Begins(c) = {"status"}
    BY <2>0, BeginsIs
  <2>3. RefStep(c) = "status"
    BY <1>3, <1>6
  <2> HIDE DEF step
  <2>4. Sound(After(To(<<"status", 2>>, <<"mark">>), c, choice), RefStep(c))
    BY <1>4, <1>5, <2>2, <2>3, MarkSound
  <2>5. QED
    BY <1>2, <2>1, <2>4 DEF ResponseSound
<1>7. CASE r = "status" /\ c = "0"
  <2>1. step = To(<<"status", 2>>, <<>>)
    BY <1>1, <1>7, ClientTo DEF Client!Status
  <2> HIDE DEF step
  <2>2. QED
    BY <1>2, <1>3, <1>4, <1>5, <1>7, <2>1, QuietSound DEF ResponseSound
<1>8. CASE r = "status" /\ c = "SP"
  <2>1. step = To(<<"reason", 1>>, <<"status_code">>)
    BY <1>1, <1>8, ClientTo DEF Client!Status
  <2> HIDE DEF step
  <2>2. Ends(<<"status_code">>, "status", c)
    BY <1>8 DEF Ends, Delivers, DeliveredBy, Held
  <2>3. ASSUME NEW t, Passed(m, t, "status") PROVE HasDelivered(t, "reason0")
    <3>1. m.m_error = 0 => m.data["version"] # "default"
      BY <1>4 DEF HasDelivered
    <3>2. t.m_error = 0 => t.data["version"] # "default" /\ t.data["status"] # "default"
      BY <2>3, <3>1 DEF Passed, Keeps, Tokens, RequestTokens
    <3>3. QED
      BY <3>2 DEF HasDelivered, HeadRefs
  <2>4. Sound(After(To(<<"reason", 1>>, <<"status_code">>), c, choice), "reason0")
    BY <1>5, <2>2, <2>3, EndSound DEF FreeRefs
  <2>5. QED
    BY <1>2, <1>3, <1>8, <2>1, <2>4 DEF ResponseSound
<1>9. CASE c # "0" /\ ~(r = "status" /\ c = "SP")
  <2>1. step = Error
    BY <1>1, <1>9, ClientTo DEF Client!Status
  <2>2. QED
    BY <1>2, <2>1, ErrorSound DEF ResponseSound
<1>10. QED
  BY <1>6, <1>7, <1>8, <1>9

\* The reason of a status.
LEMMA AtReason ==
    ASSUME NEW r \in {"reason0", "reason"}, Answering(r), NEW c, NEW choice
    PROVE  ResponseSound(c, choice)
<1> USE AnsweringAt
<1> DEFINE step == Client!Reason(m.cs, c)
<1>1. /\ r = "reason0" => m.cs = <<"reason", 1>>
      /\ r = "reason" => m.cs = <<"reason", 2>>
  BY DEF AtResponse
<1>2. Client!HttpClientStep(m.cs, c) = step
  BY <1>1, ClientSwitch
<1>3. /\ r = "reason0" => RefStep(c) = "reason"
      /\ r = "reason" => RefStep(c) = LineEnds(c, "reason")
  BY RefResponseIs
<1>4. HasDelivered(m, "reason")
  BY DEF HasDelivered, HeadRefs
<1>5. InPlace(<<"reason", 2>>, "reason") /\ InPlace(<<"header">>, "line") /\ InPlace(<<"crlf">>, "eol")
  BY DEF InPlace, AtResponse
<1>6. CASE r = "reason0" /\ c # "LF"
  <2>1. step = To(<<"reason", 2>>, <<"mark">>)
    BY <1>1, <1>6, ClientTo DEF Client!Reason
  <2>0. ref = "reason0"
    BY <1>6
  <2>2. Begins(c) = {"reason"}
    BY <2>0, BeginsIs
  <2>3. RefStep(c) = "reason"
    BY <1>3, <1>6
  <2> HIDE DEF step
  <2>4. Sound(After(To(<<"reason", 2>>, <<"mark">>), c, choice), RefStep(c))
    BY <1>4, <1>5, <2>2, <2>3, MarkSound
  <2>5. QED
    BY <1>2, <2>1, <2>4 DEF ResponseSound
<1>7. CASE r = "reason0" /\ c = "LF"
  <2>1. step = Error
    BY <1>1, <1>7, ClientTo DEF Client!Reason
  <2>2. QED
    BY <1>2, <2>1, ErrorSound DEF ResponseSound
<1>8. CASE r = "reason"
  <2>1. step = CASE c = "LF" -> To(<<"header">>, <<"reason_phrase">>)
                 [] c = "CR" -> To(<<"crlf">>, <<"reason_phrase">>)
                 [] OTHER    -> To(<<"reason", 2>>, <<>>)
    BY <1>1, <1>8, ClientTo DEF Client!Reason
  <2> HIDE DEF step
  <2>2. Ends(<<"reason_phrase">>, "reason", c)
    BY <1>8 DEF Ends, Delivers, DeliveredBy, Held
  <2>3. ASSUME NEW t, Passed(m, t, "reason"), NEW q \in {"line", "eol"} PROVE HasDelivered(t, q)
    <3>1. m.m_error = 0 => m.data["version"] # "default" /\ m.data["status"] # "default"
      BY <1>4 DEF HasDelivered
    <3>2. t.m_error = 0 => \A u \in {"version", "status", "reason"} : t.data[u] # "default"
      BY <2>3, <3>1 DEF Passed, Keeps, Tokens, ResponseTokens
    <3>3. FirstLine(t)
      BY <3>2 DEF FirstLine
    <3>4. QED
      BY <2>3, <3>3, HeadHas DEF HeadRefs
  <2>5. CASE c = "LF"
    <3>1. step = To(<<"header">>, <<"reason_phrase">>) /\ RefStep(c) = "line"
      BY <1>3, <1>8, <2>1, <2>5 DEF LineEnds
    <3>2. Sound(After(To(<<"header">>, <<"reason_phrase">>), c, choice), "line")
      BY <1>5, <2>2, <2>3, EndSound DEF FreeRefs
    <3>3. QED
      BY <1>2, <3>1, <3>2 DEF ResponseSound
  <2>6. CASE c = "CR"
    <3>1. step = To(<<"crlf">>, <<"reason_phrase">>) /\ RefStep(c) = "eol"
      BY <1>3, <1>8, <2>1, <2>6 DEF LineEnds
    <3>2. Sound(After(To(<<"crlf">>, <<"reason_phrase">>), c, choice), "eol")
      BY <1>5, <2>2, <2>3, EndSound DEF FreeRefs
    <3>3. QED
      BY <1>2, <3>1, <3>2 DEF ResponseSound
  <2>7. CASE c \notin {"LF", "CR"}
    <3>1. step = To(<<"reason", 2>>, <<>>) /\ RefStep(c) = "reason"
      BY <1>3, <1>8, <2>1, <2>7 DEF LineEnds
    <3>2. QED
      BY <1>2, <1>4, <1>5, <1>8, <3>1, QuietSound DEF ResponseSound
  <2>8. QED
    BY <2>5, <2>6, <2>7
<1>10. QED
  BY <1>6, <1>7, <1>8
\* The head ends after the actions that the parser was carried through.
LEMMA EndsHead ==
    ASSUME Here, NEW x, x = <<"done">>, NEW c, NEW choice, NEW s, Carried(s, x), FirstLine(s)
    PROVE  Sound(Act("done", s, c, choice), "end") /\ Act("done", s, c, choice).done
<1>1. Sound(Act("done", s, c, choice), "end")
  BY DoneSound
<1>2. Shaped(s)
  BY DEF Carried
<1>3. QED
  BY <1>1, <1>2, ActDone

\* Three actions and one more.
LEMMA JoinsThree ==
    ASSUME NEW a, NEW b, NEW d, NEW e
    PROVE  <<a, b, d>> \o <<e>> = <<a, b, d, e>>
<1> DEFINE S == {a, b, d, e}
           l == <<a, b, d>> \o <<e>>
<1>1. <<a, b, d>> \in Seq(S) /\ <<e>> \in Seq(S) /\ <<a, b, d, e>> \in Seq(S)
  OBVIOUS
<1>2. l \in Seq(S) /\ Len(l) = 4 /\ l[1] = a /\ l[2] = b /\ l[3] = d /\ l[4] = e
  BY <1>1
<1> HIDE DEF l, S
<1>3. l = <<a, b, d, e>>
  BY <1>1, <1>2, SeqEqual
<1>4. QED
  BY <1>3 DEF l

\* The actions of Done.
LEMMA DoneIs ==
    /\ Client!Done(<<>>) = To(<<"done">>, <<"done">>)
    /\ \A a : Client!Done(<<a>>) = To(<<"done">>, <<a, "done">>)
    /\ \A a, b, d : Client!Done(<<a, b, d>>) = To(<<"done">>, <<a, b, d, "done">>)
<1>1. Client!Done(<<>>) = To(<<"done">>, <<"done">>)
  BY ClientTo DEF Client!Done
<1>2. ASSUME NEW a PROVE Client!Done(<<a>>) = To(<<"done">>, <<a, "done">>)
  <2>1. <<a>> \o <<"done">> = <<a, "done">>
    BY Joins
  <2>2. QED
    BY <2>1, ClientTo DEF Client!Done
<1>3. ASSUME NEW a, NEW b, NEW d PROVE Client!Done(<<a, b, d>>) = To(<<"done">>, <<a, b, d, "done">>)
  <2>1. <<a, b, d>> \o <<"done">> = <<a, b, d, "done">>
    BY JoinsThree
  <2>2. QED
    BY <2>1, ClientTo DEF Client!Done
<1>4. QED
  BY <1>1, <1>2, <1>3

\* What follows a chunk's size or extension, for the machine.
LEMMA ChunkEndsIs ==
    ASSUME NEW c, NEW do
    PROVE  /\ c = "LF" => Client!ChunkEnds(c, do) = Client!Done(do)
           /\ c = "CR" => Client!ChunkEnds(c, do) = To(<<"lastCR">>, do)
           /\ c = ";" => Client!ChunkEnds(c, do) = To(<<"extension">>, do)
           /\ c \notin {"LF", "CR", ";"} => Client!ChunkEnds(c, do) = Error
  BY ClientTo DEF Client!ChunkEnds

\* The size of a chunk.
LEMMA AtSize ==
    ASSUME Answering("size"), NEW c, NEW choice
    PROVE  ResponseSound(c, choice)
<1> USE AnsweringAt
<1>1. m.cs = <<"chunk">>
  BY DEF AtResponse
<1>2. Client!HttpClientStep(m.cs, c) = Client!Chunk(c)
  BY <1>1, ClientSwitch
<1>3. RefStep(c) = ExtEnds(c, "size")
  BY RefResponseIs
<1>4. Ends(<<"chunk_size">>, "size", c)
  BY DEF Ends, Delivers, DeliveredBy, Held
<1>5. ASSUME NEW t, Passed(m, t, "size") PROVE FirstLine(t)
  BY <1>5 DEF FirstLine, Passed
<1>6. InPlace(<<"chunk">>, "size") /\ InPlace(<<"lastCR">>, "endCR") /\ InPlace(<<"extension">>, "ext0")
  BY DEF InPlace, AtResponse
<1>7. CASE c \in Client!XDigits
  <2>1. Client!Chunk(c) = To(<<"chunk">>, <<>>)
    BY <1>7, ClientTo DEF Client!Chunk
  <2>2. RefStep(c) = "size"
    BY <1>3, <1>7 DEF Client!XDigits, ExtEnds
  <2>3. QED
    BY <1>2, <1>6, <2>1, <2>2, QuietSound DEF ResponseSound
<1>8. CASE c \notin Client!XDigits
  <2>1. Client!Chunk(c) = Client!ChunkEnds(c, <<"chunk_size">>)
    BY <1>8 DEF Client!Chunk
  <2>2. CASE c = "LF"
    <3> DEFINE x == <<"done">>
               s == [m EXCEPT !.cs = x]
               u == Act("chunk_size", s, c, choice)
    <3>1. Client!Chunk(c) = To(x, <<"chunk_size", "done">>) /\ RefStep(c) = "end"
      BY <1>3, <2>1, <2>2, ChunkEndsIs, DoneIs DEF ExtEnds
    <3>2. After(To(x, <<"chunk_size", "done">>), c, choice) = Act("done", u, c, choice)
      <4>1. After(To(x, <<"chunk_size", "done">>), c, choice) = Acts(<<"chunk_size", "done">>, s, c, choice)
        BY AfterIs, Zenon
      <4>2. QED
        BY <4>1, Acts2
    <3>3. After(To(x, <<"chunk_size">>), c, choice) = u
      <4>1. After(To(x, <<"chunk_size">>), c, choice) = Acts(<<"chunk_size">>, s, c, choice)
        BY AfterIs, Zenon
      <4>2. QED
        BY <4>1, Acts1
    <3> HIDE DEF u
    <3>4. Passed(m, u, "size") /\ u.cs = x
      BY <1>4, <3>3, EndsPassed
    <3>5. Carried(u, x) /\ FirstLine(u)
      BY <1>5, <3>4, CarriedPassed
    <3>6. Sound(Act("done", u, c, choice), "end")
      BY <3>5, EndsHead
    <3>7. QED
      BY <1>2, <3>1, <3>2, <3>6 DEF ResponseSound
  <2>3. CASE c \in {"CR", ";"}
    <3> DEFINE r == IF c = "CR" THEN "endCR" ELSE "ext0"
               x == IF c = "CR" THEN <<"lastCR">> ELSE <<"extension">>
    <3>1. Client!Chunk(c) = To(x, <<"chunk_size">>) /\ RefStep(c) = r
      BY <1>3, <2>1, <2>3, ChunkEndsIs DEF ExtEnds
    <3>2. InPlace(x, r) /\ r \in {"endCR", "ext0"}
      BY <1>6
    <3> HIDE DEF r, x
    <3>3. \A t : Passed(m, t, "size") => HasDelivered(t, r)
      BY <1>5, <3>2, HeadHas DEF HeadRefs
    <3>4. r \in FreeRefs
      BY <3>2 DEF FreeRefs
    <3>5. Sound(After(To(x, <<"chunk_size">>), c, choice), r)
      BY <1>4, <3>2, <3>3, <3>4, EndSound
    <3>6. QED
      BY <1>2, <3>1, <3>5 DEF ResponseSound
  <2>4. CASE c \notin {"LF", "CR", ";"}
    BY <1>2, <2>1, <2>4, ChunkEndsIs, ErrorSound DEF ResponseSound
  <2>5. QED
    BY <2>2, <2>3, <2>4
<1>9. QED
  BY <1>7, <1>8

\* The name of an extension begins, or its value.
LEMMA AtExtBegins ==
    ASSUME NEW r \in {"ext0", "extEq"}, Answering(r), NEW c, NEW choice
    PROVE  ResponseSound(c, choice)
<1> USE AnsweringAt
<1> DEFINE step == Client!Extension(m.cs, c)
<1>1. (r = "ext0" => m.cs = <<"extension">>) /\ (r = "extEq" => m.cs = <<"extEq">>)
  BY DEF AtResponse
<1>2. Client!HttpClientStep(m.cs, c) = step
  BY <1>1, ClientSwitch
<1>3. /\ r = "ext0" => step = IF c \in Client!CToken THEN To(<<"extName">>, <<"start_field">>) ELSE Error
      /\ r = "extEq" => step = IF c \in Client!CToken THEN To(<<"extValue">>, <<"start_value">>) ELSE Error
  BY <1>1, ClientTo DEF Client!Extension
<1> HIDE DEF step
<1>4. FirstLine(m)
  BY DEF HeadRefs
<1>5. InPlace(<<"extName">>, "ext") /\ InPlace(<<"extValue">>, "extValue")
  BY DEF InPlace, AtResponse
<1>6. ASSUME c \in Client!CToken
      PROVE  (r = "ext0" => RefStep(c) = "ext") /\ (r = "extEq" => RefStep(c) = "extValue")
  <2>1. c \notin {"LF", "CR", ";", "="}
    BY <1>6, TokenEnding DEF Ending
  <2>2. QED
    BY <2>1, RefResponseIs DEF ExtEnds
<1>7. CASE r = "ext0" /\ c \in Client!CToken
  <2>1. step = To(<<"extName">>, <<"start_field">>) /\ RefStep(c) = "ext" /\ ref = "ext0"
    BY <1>3, <1>6, <1>7
  <2>2. Begins(c) = {"name"}
    BY <2>1, BeginsIs
  <2> DEFINE t == After(To(<<"extName">>, <<"start_field">>), c, choice)
  <2>3. Sound(t, "ext")
    BY <1>4, <1>5, <2>2, StartFieldSound
  <2>4. QED
    BY <1>2, <2>1, <2>3 DEF ResponseSound
<1>8. CASE r = "extEq" /\ c \in Client!CToken
  <2>1. step = To(<<"extValue">>, <<"start_value">>) /\ RefStep(c) = "extValue" /\ ref = "extEq"
    BY <1>3, <1>6, <1>8
  <2>2. Begins(c) = {"value"}
    BY <2>1, BeginsIs
  <2>3. FieldHeld(m)
    BY <1>8 DEF Held
  <2>4. Sound(After(To(<<"extValue">>, <<"start_value">>), c, choice), "extValue")
    BY <1>4, <1>5, <2>2, <2>3, StartValueSound
  <2>5. QED
    BY <1>2, <2>1, <2>4 DEF ResponseSound
<1>9. CASE c \notin Client!CToken
  BY <1>2, <1>3, <1>9, ErrorSound DEF ResponseSound
<1>10. QED
  BY <1>7, <1>8, <1>9
\* The actions at the end of an extension's name.
LEMMA ExtCarried ==
    ASSUME Here, NameHeld(m), NEW x, NEW c, NEW choice
    PROVE  LET s == [m EXCEPT !.cs = x]
               u == Act("start_value", Act("write_field", s, c, choice), c, choice)
           IN /\ Carried(u, x) /\ FieldHeld(u) /\ u.mark = Begins(c)
              /\ "value" \in Begins(c) => Carried(Act("write_value", u, c, choice), x)
<1> DEFINE s == [m EXCEPT !.cs = x]
           f == Act("write_field", s, c, choice)
           u == Act("start_value", f, c, choice)
<1>1. Carried(s, x) /\ SameMarks(m, s)
  BY CarriedMove DEF Here
<1> HIDE DEF s
<1>2. NameHeld(s)
  BY <1>1 DEF NameHeld, SameMarks
<1>3. Carried(f, x) /\ FieldHeld(f)
  BY <1>1, <1>2, CarriedWriteField
<1> HIDE DEF f
<1>4. Carried(u, x) /\ u.mark = Begins(c) /\ u.field_start = f.field_start /\ u.field_len = f.field_len
  BY <1>3, CarriedMark
<1> HIDE DEF u
<1>5. FieldHeld(u)
  BY <1>3, <1>4 DEF FieldHeld, NameHeld
<1>6. "value" \in Begins(c) => Carried(Act("write_value", u, c, choice), x)
  BY <1>4, <1>5, CarriedWriteValue
<1>7. QED
  BY <1>4, <1>5, <1>6 DEF u, f, s

\* The name of an extension.
LEMMA AtExt ==
    ASSUME Answering("ext"), NEW c, NEW choice
    PROVE  ResponseSound(c, choice)
<1> USE AnsweringAt
<1>1. m.cs = <<"extName">>
  BY DEF AtResponse
<1> DEFINE do == <<"write_field", "start_value", "write_value">>
<1>2. Client!HttpClientStep(m.cs, c) = Client!Extension(m.cs, c)
  BY <1>1, ClientSwitch
<1>3. Client!Extension(m.cs, c) =
        IF c \in Client!CToken THEN To(<<"extName">>, <<>>)
        ELSE IF c = "=" THEN To(<<"extEq">>, <<"write_field", "start_value">>)
        ELSE Client!ChunkEnds(c, do)
  BY <1>1, ClientTo DEF Client!Extension
<1>4. RefStep(c) = IF c = "=" THEN "extEq" ELSE ExtEnds(c, "ext")
  BY RefResponseIs
<1>5. FirstLine(m) /\ NameHeld(m)
  BY DEF HeadRefs, Held
<1>6. InPlace(<<"extName">>, "ext") /\ InPlace(<<"extEq">>, "extEq") /\ InPlace(<<"lastCR">>, "endCR")
      /\ InPlace(<<"extension">>, "ext0")
  BY DEF InPlace, AtResponse
<1>7. c \in {"LF", "CR", ";"} => Begins(c) = {"value"}
  BY BeginsIs
<1>8. c \in Client!CToken => c \notin {"LF", "CR", ";", "="}
  BY TokenEnding DEF Ending
<1>9. CASE c \in Client!CToken
  <2>1. Client!Extension(m.cs, c) = To(<<"extName">>, <<>>) /\ RefStep(c) = "ext"
    BY <1>3, <1>4, <1>8, <1>9 DEF ExtEnds
  <2>2. QED
    BY <1>2, <1>6, <2>1, QuietSound DEF ResponseSound
<1>10. CASE c = "="
  <2> DEFINE x == <<"extEq">>
             s == [m EXCEPT !.cs = x]
             u == Act("start_value", Act("write_field", s, c, choice), c, choice)
  <2>1. Client!Extension(m.cs, c) = To(x, <<"write_field", "start_value">>) /\ RefStep(c) = "extEq"
    BY <1>3, <1>4, <1>8, <1>10
  <2>2. After(To(x, <<"write_field", "start_value">>), c, choice) = Acts(<<"write_field", "start_value">>, s, c, choice)
    BY AfterIs, Zenon
  <2>3. Acts(<<"write_field", "start_value">>, s, c, choice) = u
    BY Acts2
  <2>4. Carried(u, x) /\ FieldHeld(u)
    BY <1>5, ExtCarried
  <2> HIDE DEF u
  <2>5. Held(u, "extEq") /\ HasDelivered(m, "extEq")
    BY <1>5, <2>4, HeadHas DEF Held, HeadRefs
  <2>6. Sound(u, "extEq")
    BY <1>6, <2>4, <2>5, CarriedSound
  <2>7. QED
    BY <1>2, <2>1, <2>2, <2>3, <2>6 DEF ResponseSound
<1>11. CASE c \in {"LF", "CR", ";"}
  <2>1. Client!Extension(m.cs, c) = Client!ChunkEnds(c, do) /\ RefStep(c) = ExtEnds(c, "ext")
    BY <1>3, <1>4, <1>8, <1>11
  <2>2. ASSUME NEW x
        PROVE  LET u == Act("start_value", Act("write_field", [m EXCEPT !.cs = x], c, choice), c, choice)
               IN Carried(Act("write_value", u, c, choice), x)
    BY <1>5, <1>7, <1>11, ExtCarried
  <2>3. CASE c = "LF"
    <3> DEFINE x == <<"done">>
               s == [m EXCEPT !.cs = x]
               u == Act("write_value", Act("start_value", Act("write_field", s, c, choice), c, choice), c, choice)
    <3>1. Client!Extension(m.cs, c) = To(x, <<"write_field", "start_value", "write_value", "done">>) /\ RefStep(c) = "end"
      <4>1. Client!ChunkEnds(c, do) = Client!Done(do)
        BY <2>3, ChunkEndsIs
      <4>2. Client!Done(do) = To(x, <<"write_field", "start_value", "write_value", "done">>)
        BY DoneIs
      <4>3. QED
        BY <2>1, <2>3, <4>1, <4>2 DEF ExtEnds
    <3>2. After(To(x, <<"write_field", "start_value", "write_value", "done">>), c, choice)
            = Acts(<<"write_field", "start_value", "write_value", "done">>, s, c, choice)
      BY AfterIs, Zenon
    <3>3. Acts(<<"write_field", "start_value", "write_value", "done">>, s, c, choice) = Act("done", u, c, choice)
      BY Acts4
    <3>4. Carried(u, x)
      BY <2>2
    <3> HIDE DEF u
    <3>5. FirstLine(u)
      BY <1>5, <3>4, FirstLineKept DEF Carried
    <3>6. Sound(Act("done", u, c, choice), "end")
      BY <3>4, <3>5, EndsHead
    <3>7. QED
      BY <1>2, <3>1, <3>2, <3>3, <3>6 DEF ResponseSound
  <2>4. CASE c \in {"CR", ";"}
    <3> DEFINE r == IF c = "CR" THEN "endCR" ELSE "ext0"
               x == IF c = "CR" THEN <<"lastCR">> ELSE <<"extension">>
               s == [m EXCEPT !.cs = x]
               u == Act("write_value", Act("start_value", Act("write_field", s, c, choice), c, choice), c, choice)
    <3>1. Client!Extension(m.cs, c) = To(x, do) /\ RefStep(c) = r
      BY <2>1, <2>4, ChunkEndsIs DEF ExtEnds
    <3>2. InPlace(x, r) /\ r \in {"endCR", "ext0"}
      BY <1>6
    <3> HIDE DEF r, x
    <3>3. After(To(x, do), c, choice) = Acts(do, s, c, choice)
      BY AfterIs, Zenon
    <3>4. Acts(do, s, c, choice) = u
      BY Acts3
    <3>5. Carried(u, x)
      BY <2>2
    <3> HIDE DEF u
    <3>6. Held(u, r) /\ HasDelivered(m, r)
      BY <1>5, <3>2, HeadHas DEF Held, HeadRefs
    <3>7. Sound(u, r)
      BY <3>2, <3>5, <3>6, CarriedSound
    <3>8. QED
      BY <1>2, <3>1, <3>3, <3>4, <3>7 DEF ResponseSound
  <2>5. QED
    BY <1>11, <2>3, <2>4
<1>12. CASE c \notin Client!CToken \union {"LF", "CR", ";", "="}
  <2>1. Client!Extension(m.cs, c) = Error
    BY <1>3, <1>12, ChunkEndsIs
  <2>2. QED
    BY <1>2, <2>1, ErrorSound DEF ResponseSound
<1>13. QED
  BY <1>9, <1>10, <1>11, <1>12

\* The value of an extension.
LEMMA AtExtValue ==
    ASSUME Answering("extValue"), NEW c, NEW choice
    PROVE  ResponseSound(c, choice)
<1> USE AnsweringAt
<1>1. m.cs = <<"extValue">>
  BY DEF AtResponse
<1>2. Client!HttpClientStep(m.cs, c) = Client!Extension(m.cs, c)
  BY <1>1, ClientSwitch
<1>3. Client!Extension(m.cs, c) =
        IF c \in Client!CToken THEN To(<<"extValue">>, <<>>) ELSE Client!ChunkEnds(c, <<"write_value">>)
  BY <1>1, ClientTo DEF Client!Extension
<1>4. RefStep(c) = ExtEnds(c, "extValue")
  BY RefResponseIs
<1>5. FirstLine(m) /\ ValueHeld(m)
  BY DEF HeadRefs, Held
<1>6. InPlace(<<"extValue">>, "extValue") /\ InPlace(<<"lastCR">>, "endCR") /\ InPlace(<<"extension">>, "ext0")
  BY DEF InPlace, AtResponse
<1>7. c \in Client!CToken => c \notin {"LF", "CR", ";"}
  BY TokenEnding DEF Ending
<1>8. ValueActs(<<"write_value">>, c)
  BY <1>5 DEF ValueActs
<1>9. CASE c \in Client!CToken
  <2>1. Client!Extension(m.cs, c) = To(<<"extValue">>, <<>>) /\ RefStep(c) = "extValue"
    BY <1>3, <1>4, <1>7, <1>9 DEF ExtEnds
  <2>2. QED
    BY <1>2, <1>6, <2>1, QuietSound DEF ResponseSound
<1>10. CASE c = "LF"
  <2> DEFINE x == <<"done">>
             s == [m EXCEPT !.cs = x]
             u == Act("write_value", s, c, choice)
  <2>1. Client!Extension(m.cs, c) = To(x, <<"write_value", "done">>) /\ RefStep(c) = "end"
    <3>1. Client!ChunkEnds(c, <<"write_value">>) = Client!Done(<<"write_value">>)
      BY <1>10, ChunkEndsIs
    <3>2. Client!Done(<<"write_value">>) = To(x, <<"write_value", "done">>)
      BY DoneIs
    <3>3. QED
      BY <1>3, <1>4, <1>7, <1>10, <3>1, <3>2 DEF ExtEnds
  <2>2. After(To(x, <<"write_value", "done">>), c, choice) = Acts(<<"write_value", "done">>, s, c, choice)
    BY AfterIs, Zenon
  <2>3. Acts(<<"write_value", "done">>, s, c, choice) = Act("done", u, c, choice)
    BY Acts2
  <2>4. After(To(x, <<"write_value">>), c, choice) = Acts(<<"write_value">>, s, c, choice)
    BY AfterIs, Zenon
  <2>5. Acts(<<"write_value">>, s, c, choice) = u
    BY Acts1
  <2> HIDE DEF u
  <2>6. Carried(u, x)
    BY <1>8, <2>4, <2>5, ValueCarried
  <2>7. FirstLine(u)
    BY <1>5, <2>6, FirstLineKept DEF Carried
  <2>8. Sound(Act("done", u, c, choice), "end")
    BY <2>6, <2>7, EndsHead
  <2>9. QED
    BY <1>2, <2>1, <2>2, <2>3, <2>8 DEF ResponseSound
<1>11. CASE c \in {"CR", ";"}
  <2> DEFINE r == IF c = "CR" THEN "endCR" ELSE "ext0"
             x == IF c = "CR" THEN <<"lastCR">> ELSE <<"extension">>
  <2>1. Client!Extension(m.cs, c) = To(x, <<"write_value">>) /\ RefStep(c) = r
    BY <1>3, <1>4, <1>7, <1>11, ChunkEndsIs DEF ExtEnds
  <2>2. InPlace(x, r) /\ r \in {"endCR", "ext0"}
    BY <1>6
  <2> HIDE DEF r, x
  <2>3. Sound(After(To(x, <<"write_value">>), c, choice), r)
    BY <1>5, <1>8, <2>2, WriteValueSound
  <2>4. QED
    BY <1>2, <2>1, <2>3 DEF ResponseSound
<1>12. CASE c \notin Client!CToken \union {"LF", "CR", ";"}
  <2>1. Client!Extension(m.cs, c) = Error
    BY <1>3, <1>12, ChunkEndsIs
  <2>2. QED
    BY <1>2, <2>1, ErrorSound DEF ResponseSound
<1>13. QED
  BY <1>9, <1>10, <1>11, <1>12

\* The return before the last line feed.
LEMMA AtCLastCR ==
    ASSUME NEW r \in {"lineCR", "endCR"}, Answering(r), NEW c, NEW choice
    PROVE  ResponseSound(c, choice)
<1> USE AnsweringAt
<1>1. m.cs = <<"lastCR">>
  BY DEF AtResponse
<1>2. Client!HttpClientStep(m.cs, c) = Client!CLastCR(c)
  BY <1>1, ClientSwitch
<1>3. FirstLine(m)
  BY DEF HeadRefs
<1>4. CASE c = "LF"
  <2> DEFINE x == <<"done">>
             s == [m EXCEPT !.cs = x]
  <2>1. Client!CLastCR(c) = To(x, <<"done">>)
    BY <1>4, DoneIs DEF Client!CLastCR
  <2>2. RefStep(c) = "end"
    <3>1. CASE r = "lineCR"
      BY <1>4, <3>1, RefFieldIs
    <3>2. CASE r = "endCR"
      BY <3>2, RefResponseIs
    <3>3. QED
      BY <3>1, <3>2
  <2>3. After(To(x, <<"done">>), c, choice) = Acts(<<"done">>, s, c, choice)
    BY AfterIs, Zenon
  <2>4. Acts(<<"done">>, s, c, choice) = Act("done", s, c, choice)
    BY Acts1
  <2>5. Carried(s, x)
    BY CarriedMove
  <2> HIDE DEF s
  <2>6. FirstLine(s)
    BY <1>3, <2>5, FirstLineKept DEF Carried
  <2>7. Sound(Act("done", s, c, choice), "end")
    BY <2>5, <2>6, EndsHead
  <2>8. QED
    BY <1>2, <2>1, <2>2, <2>3, <2>4, <2>7 DEF ResponseSound
<1>5. CASE c # "LF"
  BY <1>2, <1>5, ClientTo, ErrorSound DEF Client!CLastCR, ResponseSound
<1>6. QED
  BY <1>4, <1>5
\* A line of a response's head begins.
LEMMA AtCLine ==
    ASSUME Answering("line"), NEW c, NEW choice
    PROVE  LineSound(Client!HttpClientStep(m.cs, c), c, choice)
<1> USE AnsweringAt
<1> DEFINE do == IF m.cs[1] = "closed" THEN <<"write_connection_close">> ELSE <<>>
           start == do \o <<"start_field">>
<1>1. m.cs \in {<<"header">>, <<"closed">>}
  BY DEF AtResponse
<1>2. Client!HttpClientStep(m.cs, c) = Client!CHeader(m.cs, c)
  BY <1>1, ClientSwitch
<1>3. do \in {<<>>, <<"write_connection_close">>}
  BY Zenon
<1>4. Client!CHeader(m.cs, c) = CASE c = "LF" -> Client!Done(do)
                                  [] c = "CR" -> To(<<"lastCR">>, do)
                                  [] OTHER    -> Client!NameBegins(c, do)
  BY ClientTo DEF Client!CHeader
<1> HIDE DEF do
<1>5. start \in {<<"start_field">>, <<"write_connection_close", "start_field">>}
  <2>1. CASE do = <<>>
    <3>1. <<>> \o <<"start_field">> = <<"start_field">>
      OBVIOUS
    <3>2. QED
      BY <2>1, <3>1
  <2>2. CASE do = <<"write_connection_close">>
    BY <2>2, Joins
  <2>3. QED
    BY <1>3, <2>1, <2>2
<1> HIDE DEF start
<1>6. RefStep(c) = CASE c = "LF" -> "end" [] c = "CR" -> "lineCR" [] Blank(c) -> "blank" [] OTHER -> "name"
  BY RefFieldIs
<1>7. Begins(c) = {"name", "value"}
  BY BeginsIs
<1>8. FirstLine(m) /\ HasDelivered(m, "lineCR")
  BY HeadHas DEF HeadRefs
<1>9. ASSUME NEW x
      PROVE  /\ Carried(After(To(x, do), c, choice), x)
             /\ After(To(x, do \o <<"done">>), c, choice) = Act("done", After(To(x, do), c, choice), c, choice)
  <2> DEFINE s == [m EXCEPT !.cs = x]
             end == do \o <<"done">>
  <2>1. After(To(x, do), c, choice) = Acts(do, s, c, choice)
    BY AfterIs, Zenon
  <2>2. After(To(x, end), c, choice) = Acts(end, s, c, choice)
    BY AfterIs, Zenon
  <2>3. Carried(s, x)
    BY CarriedMove
  <2>4. CASE do = <<>>
    <3>1. end = <<"done">>
      BY <2>4
    <3>2. Acts(do, s, c, choice) = s
      BY <2>4, Acts0
    <3>3. Acts(<<"done">>, s, c, choice) = Act("done", s, c, choice)
      BY Acts1
    <3> HIDE DEF end, s
    <3>4. QED
      BY <2>1, <2>2, <2>3, <3>1, <3>2, <3>3 DEF end
  <2>5. CASE do = <<"write_connection_close">>
    <3>1. end = <<"write_connection_close", "done">>
      BY <2>5, Joins
    <3>2. Act("write_connection_close", s, c, choice) = s
      BY ActNone
    <3>3. Acts(do, s, c, choice) = s
      BY <2>5, <3>2, Acts1
    <3>4. Acts(<<"write_connection_close", "done">>, s, c, choice) = Act("done", s, c, choice)
      BY <3>2, Acts2
    <3> HIDE DEF end, s
    <3>5. QED
      BY <2>1, <2>2, <2>3, <3>1, <3>3, <3>4 DEF end
  <2>6. QED
    BY <1>3, <2>4, <2>5
<1>10. CASE c = "LF"
  <2> DEFINE x == <<"done">>
             s == After(To(x, do), c, choice)
  <2>1. Client!CHeader(m.cs, c) = To(x, do \o <<"done">>) /\ RefStep(c) = "end"
    BY <1>4, <1>6, <1>10, ClientTo DEF Client!Done, Blank
  <2>2. Carried(s, x) /\ After(To(x, do \o <<"done">>), c, choice) = Act("done", s, c, choice)
    BY <1>9
  <2> HIDE DEF s
  <2>3. FirstLine(s)
    BY <1>8, <2>2, FirstLineKept DEF Carried
  <2>4. Sound(Act("done", s, c, choice), "end") /\ Act("done", s, c, choice).done
    BY <2>2, <2>3, EndsHead
  <2>5. QED
    BY <1>2, <2>1, <2>2, <2>4 DEF LineSound
<1>11. CASE c = "CR"
  <2> DEFINE x == <<"lastCR">>
             s == After(To(x, do), c, choice)
  <2>1. Client!CHeader(m.cs, c) = To(x, do) /\ RefStep(c) = "lineCR"
    BY <1>4, <1>6, <1>11 DEF Blank
  <2>2. Carried(s, x)
    BY <1>9
  <2> HIDE DEF s
  <2>3. InPlace(x, "lineCR") /\ Held(s, "lineCR")
    BY DEF InPlace, AtResponse, Held
  <2>4. Sound(s, "lineCR")
    BY <1>8, <2>2, <2>3, CarriedSound
  <2>5. QED
    BY <1>2, <2>1, <2>4 DEF LineSound, s
<1>12. CASE c \notin {"LF", "CR"}
  <2>1. Client!CHeader(m.cs, c) = Client!NameBegins(c, do)
    BY <1>4, <1>12
  <2>2. CASE Client!NameBegins(c, do) = Error
    BY <1>2, <2>1, <2>2, ErrorLine
  <2>3. CASE Client!NameBegins(c, do) # Error
    <3>1. c \in Client!CToken /\ \E x : /\ x = <<"field">> \/ InKeyword(x)
                                        /\ Client!NameBegins(c, do) = To(x, start)
      BY <1>3, <2>3, NameBeginsIs DEF start
    <3>2. PICK x : (x = <<"field">> \/ InKeyword(x)) /\ Client!NameBegins(c, do) = To(x, start)
      BY <3>1
    <3>3. InPlace(x, "name")
      BY <3>2 DEF InPlace, AtResponse
    <3>4. c \notin Ending
      BY <3>1, TokenEnding
    <3>5. ~Blank(c)
      BY <3>4 DEF Blank, Ending
    <3>6. RefStep(c) = "name"
      BY <1>6, <1>12, <3>5
    <3> DEFINE t == After(To(x, start), c, choice)
    <3>7. Sound(t, "name") /\ "name" \in t.field_start
      BY <1>5, <1>7, <1>8, <3>3, StartFieldSound
    <3>8. QED
      BY <1>2, <2>1, <3>2, <3>6, <3>7 DEF LineSound
  <2>4. QED
    BY <2>2, <2>3
<1>13. QED
  BY <1>10, <1>11, <1>12

\* The name of a field.
LEMMA AtCName ==
    ASSUME Answering("name"), NEW c, NEW choice
    PROVE  ResponseSound(c, choice)
<1> USE AnsweringAt
<1> DEFINE step == Client!HttpClientStep(m.cs, c)
<1>1. m.cs = <<"field">> \/ InKeyword(m.cs)
  BY DEF AtResponse
<1>2. \/ c # ":" /\ \E x : (x = <<"field">> \/ InKeyword(x)) /\ step = To(x, <<>>)
      \/ c = ":" /\ \E x : (x = <<"value", 1>> \/ OfKeyword(x, "known")) /\ step = To(x, <<"write_field">>)
      \/ step = Error
  <2>1. \/ c # ":" /\ Client!CField(c) = To(<<"field">>, <<>>)
        \/ c = ":" /\ Client!CField(c) = To(<<"value", 1>>, <<"write_field">>)
        \/ Client!CField(c) = Error
    <3>1. c \in Client!CToken => c # ":"
      BY TokenEnding DEF Ending
    <3>2. QED
      BY <3>1, ClientTo DEF Client!CField
  <2>2. CASE m.cs = <<"field">>
    <3>1. step = Client!CField(c)
      BY <2>2, ClientSwitch
    <3> HIDE DEF step
    <3>2. QED
      BY <2>1, <3>1
  <2>3. CASE InKeyword(m.cs)
    <3>1. PICK ws \in SUBSET Client!Keywords, i \in 1 .. 17 :
            m.cs = <<"keyword", ws, i>> /\ \A w \in ws : i <= Len(Client!Name[w])
      BY <2>3 DEF InKeyword
    <3>2. step = Client!Keyword(<<"keyword", ws, i>>, c)
      BY <3>1, ClientSwitch
    <3> HIDE DEF step
    <3>3. \/ c # ":" /\ \E x : InKeyword(x) /\ step = To(x, <<>>)
          \/ c = ":" /\ \E w \in Client!Keywords : step = To(<<"known", w>>, <<"write_field">>)
          \/ step = Client!CField(c)
      BY <3>1, <3>2, KeywordIs
    <3>4. ASSUME NEW w \in Client!Keywords PROVE OfKeyword(<<"known", w>>, "known")
      BY DEF OfKeyword
    <3>5. QED
      BY <2>1, <3>3, <3>4
  <2>4. QED
    BY <1>1, <2>2, <2>3
<1> HIDE DEF step
<1>3. RefStep(c) = IF c = ":" THEN "blank" ELSE "name"
  BY RefFieldIs
<1>4. FirstLine(m) /\ NameHeld(m)
  BY DEF HeadRefs, Held
<1>5. CASE c # ":" /\ \E x : (x = <<"field">> \/ InKeyword(x)) /\ step = To(x, <<>>)
  <2>1. PICK x : (x = <<"field">> \/ InKeyword(x)) /\ step = To(x, <<>>)
    BY <1>5
  <2>2. InPlace(x, "name")
    BY <2>1 DEF InPlace, AtResponse
  <2>3. Sound(After(To(x, <<>>), c, choice), "name")
    BY <2>2, QuietSound
  <2>4. QED
    BY <1>3, <1>5, <2>1, <2>3 DEF ResponseSound, step
<1>6. CASE c = ":" /\ \E x : (x = <<"value", 1>> \/ OfKeyword(x, "known")) /\ step = To(x, <<"write_field">>)
  <2>1. PICK x : (x = <<"value", 1>> \/ OfKeyword(x, "known")) /\ step = To(x, <<"write_field">>)
    BY <1>6
  <2>2. InPlace(x, "blank")
    BY <2>1 DEF InPlace, AtResponse
  <2>3. Sound(After(To(x, <<"write_field">>), c, choice), "blank")
    BY <1>4, <2>2, WriteFieldSound
  <2>4. QED
    BY <1>3, <1>6, <2>1, <2>3 DEF ResponseSound, step
<1>7. CASE step = Error
  BY <1>7, ErrorSound DEF ResponseSound, step
<1>8. QED
  BY <1>2, <1>5, <1>6, <1>7

\* The line feed behind a return.
LEMMA AtCEol ==
    ASSUME Answering("eol"), NEW c, NEW choice
    PROVE  ResponseSound(c, choice)
<1> USE AnsweringAt
<1>1. m.cs \in {<<"crlf">>, <<"chunkedCR">>, <<"closedCR">>}
  BY DEF AtResponse
<1>2. Client!HttpClientStep(m.cs, c) = Client!CCrlf(m.cs, c)
  BY <1>1, ClientSwitch
<1>3. RefStep(c) = "line"
  BY RefFieldIs
<1>4. HasDelivered(m, "line") /\ Held(m, "line")
  BY HeadHas DEF HeadRefs, Held
<1>5. InPlace(<<"header">>, "line") /\ InPlace(<<"closed">>, "line")
  BY DEF InPlace, AtResponse
<1>6. CASE c = "LF" /\ m.cs # <<"chunkedCR">>
  <2>1. \E x \in {<<"header">>, <<"closed">>} : Client!CCrlf(m.cs, c) = To(x, <<>>)
    BY <1>1, <1>6, ClientTo DEF Client!CCrlf
  <2>2. PICK x : x \in {<<"header">>, <<"closed">>} /\ Client!CCrlf(m.cs, c) = To(x, <<>>)
    BY <2>1
  <2>3. InPlace(x, "line")
    BY <1>5, <2>2
  <2>4. Sound(After(To(x, <<>>), c, choice), "line")
    BY <1>4, <2>3, QuietSound
  <2>5. QED
    BY <1>2, <1>3, <2>2, <2>4 DEF ResponseSound
<1>7. CASE c = "LF" /\ m.cs = <<"chunkedCR">>
  <2> DEFINE x == <<"header">>
             s == [m EXCEPT !.cs = x]
  <2>1. Client!CCrlf(m.cs, c) = To(x, <<"trans_chunked">>)
    BY <1>7, ClientTo DEF Client!CCrlf
  <2>2. After(To(x, <<"trans_chunked">>), c, choice) = Acts(<<"trans_chunked">>, s, c, choice)
    BY AfterIs, Zenon
  <2>3. Acts(<<"trans_chunked">>, s, c, choice) = Act("trans_chunked", s, c, choice)
    BY Acts1
  <2>4. Act("trans_chunked", s, c, choice) = s
    BY ActNone
  <2>5. Carried(s, x)
    BY CarriedMove
  <2> HIDE DEF s
  <2>6. Held(s, "line")
    BY DEF Held
  <2>7. Sound(s, "line")
    BY <1>4, <1>5, <2>5, <2>6, CarriedSound
  <2>8. QED
    BY <1>2, <1>3, <2>1, <2>2, <2>3, <2>4, <2>7 DEF ResponseSound
<1>8. CASE c # "LF"
  BY <1>2, <1>8, ClientTo, ErrorSound DEF Client!CCrlf, ResponseSound
<1>9. QED
  BY <1>6, <1>7, <1>8
\* What a value that begins is for the machine: of a keyword, or any other.
LEMMA BlankIs ==
    ASSUME NEW cs, cs = <<"value", 1>> \/ OfKeyword(cs, "known"), NEW c
    PROVE  LET step == Client!HttpClientStep(cs, c)
           IN /\ c \in {"LF", "CR"} =>
                   \E x : Astray(x) /\ step = To(x, <<"start_value", "write_value">>)
              /\ c \in {"VT", "SP"} => step = To(cs, <<"start_value">>)
              /\ c \notin {"LF", "CR", "VT", "SP"} =>
                   \E x : (x = <<"value", 2>> \/ InWord(x, "valueWord")) /\ step = To(x, <<"start_value">>)
<1> DEFINE step == Client!HttpClientStep(cs, c)
<1>1. CASE cs = <<"value", 1>>
  <2> DEFINE do == IF cs[2] = 1 THEN <<"start_value">> ELSE <<>>
             end == do \o <<"write_value">>
  <2>1. do = <<"start_value">>
    BY <1>1
  <2>2. end = <<"start_value", "write_value">>
    BY <2>1, Joins
  <2>3. step = Client!CValue(cs, c)
    BY <1>1, ClientSwitch
  <2>4. Client!CValue(cs, c) = CASE c = "LF" -> To(<<"header">>, end)
                                 [] c = "CR" -> To(<<"crlf">>, end)
                                 [] c \in {"VT", "SP"} -> To(cs, do)
                                 [] OTHER    -> To(<<"value", 2>>, do)
    BY ClientTo DEF Client!CValue
  <2> HIDE DEF do, end, step
  <2>5. Astray(<<"header">>) /\ Astray(<<"crlf">>)
    BY StrayPlain
  <2>6. QED
    BY <2>1, <2>2, <2>3, <2>4, <2>5 DEF step
<1>2. CASE OfKeyword(cs, "known")
  <2>1. PICK w \in Client!Keywords : cs = <<"known", w>>
    BY <1>2 DEF OfKeyword
  <2>2. step = Client!Known(<<"known", w>>, c)
    BY <2>1, ClientSwitch
  <2> HIDE DEF step
  <2>3. Astray(<<"emptyLF", w>>) /\ Astray(<<"emptyCR", w>>)
    BY StrayOf
  <2> DEFINE one == 1
  <2>4. one \in 1 .. 7
    OBVIOUS
  <2> HIDE DEF one
  <2>5. InWord(<<"valueWord", w, one>>, "valueWord")
    BY <2>4 DEF InWord
  <2>6. /\ c = "LF" => step = To(<<"emptyLF", w>>, <<"start_value", "write_value">>)
        /\ c = "CR" => step = To(<<"emptyCR", w>>, <<"start_value", "write_value">>)
        /\ c \in {"VT", "SP"} => step = To(<<"known", w>>, <<"start_value">>)
        /\ c \notin {"LF", "CR", "VT", "SP"} =>
             \/ step = To(<<"valueWord", w, one>>, <<"start_value">>)
             \/ step = To(<<"value", 2>>, <<"start_value">>)
    BY <2>2, KnownIs, ClientTo DEF one
  <2>7. QED
    BY <2>1, <2>3, <2>5, <2>6 DEF step
<1>3. QED
  BY <1>1, <1>2

\* Between the colon and the value; a value that is empty leads the machine astray.
LEMMA AtCBlank ==
    ASSUME Answering("blank"), NEW c, NEW choice
    PROVE  LET t == After(Client!HttpClientStep(m.cs, c), c, choice)
           IN IF c \in {"LF", "CR"} THEN Shaped(t) /\ Texts(t) /\ FirstLine(t) /\ Astray(t.cs)
              ELSE Sound(t, RefStep(c))
<1> USE AnsweringAt
<1> DEFINE step == Client!HttpClientStep(m.cs, c)
<1>1. m.cs = <<"value", 1>> \/ OfKeyword(m.cs, "known")
  BY DEF AtResponse
<1>2. /\ c \in {"LF", "CR"} => \E x : Astray(x) /\ step = To(x, <<"start_value", "write_value">>)
      /\ c \in {"VT", "SP"} => step = To(m.cs, <<"start_value">>)
      /\ c \notin {"LF", "CR", "VT", "SP"} =>
           \E x : (x = <<"value", 2>> \/ InWord(x, "valueWord")) /\ step = To(x, <<"start_value">>)
  BY <1>1, BlankIs
<1> HIDE DEF step
<1>3. FirstLine(m) /\ FieldHeld(m)
  BY DEF HeadRefs, Held
<1>4. RefStep(c) = IF Blank(c) THEN "blank" ELSE LineEnds(c, "value")
  BY RefFieldIs
<1>5. Blank(c) <=> c \in {"VT", "SP"}
  BY DEF Blank
<1>6. ~Blank(c) => Begins(c) = {"value"}
  BY BeginsIs
<1>7. CASE c \in {"LF", "CR"}
  <2>1. PICK x : Astray(x) /\ step = To(x, <<"start_value", "write_value">>)
    BY <1>2, <1>7
  <2>2. ValueActs(<<"start_value", "write_value">>, c)
    BY <1>3, <1>5, <1>6, <1>7 DEF ValueActs
  <2> DEFINE t == After(To(x, <<"start_value", "write_value">>), c, choice)
  <2>3. Carried(t, x)
    BY <2>2, ValueCarried
  <2> HIDE DEF t
  <2>4. FirstLine(t)
    BY <1>3, <2>3, FirstLineKept DEF Carried
  <2>5. Shaped(t) /\ Texts(t) /\ Astray(t.cs)
    BY <2>1, <2>3 DEF Carried
  <2>6. QED
    BY <1>7, <2>1, <2>4, <2>5 DEF t, step
<1>8. CASE c \in {"VT", "SP"}
  <2>1. step = To(m.cs, <<"start_value">>) /\ RefStep(c) = "blank"
    BY <1>2, <1>4, <1>5, <1>8
  <2>2. InPlace(m.cs, "blank")
    BY DEF InPlace
  <2>3. Sound(After(To(m.cs, <<"start_value">>), c, choice), "blank")
    BY <1>3, <2>2, StartValueSound
  <2>4. QED
    BY <1>8, <2>1, <2>3 DEF step
<1>9. CASE c \notin {"LF", "CR", "VT", "SP"}
  <2>1. PICK x : (x = <<"value", 2>> \/ InWord(x, "valueWord")) /\ step = To(x, <<"start_value">>)
    BY <1>2, <1>9
  <2>2. InPlace(x, "value")
    BY <2>1 DEF InPlace, AtResponse
  <2>3. RefStep(c) = "value" /\ "value" \in Begins(c)
    BY <1>4, <1>5, <1>6, <1>9 DEF LineEnds
  <2>4. Sound(After(To(x, <<"start_value">>), c, choice), "value")
    BY <1>3, <2>2, <2>3, StartValueSound
  <2>5. QED
    BY <1>9, <2>1, <2>3, <2>4 DEF step
<1>10. QED
  BY <1>7, <1>8, <1>9

\* The actions at the end of a value: what a keyword adds is not in a field.
ValueEnds == {<<"write_value">>, <<"write_value", "trans_chunked">>, <<"write_content_len", "write_value">>}

\* What a value that goes on is for the machine.
LEMMA ValueIs ==
    ASSUME NEW cs, cs = <<"value", 2>> \/ InWord(cs, "valueWord"), NEW c
    PROVE  LET step == Client!HttpClientStep(cs, c)
           IN /\ c = "LF" => \E x \in {<<"header">>, <<"closed">>}, do \in ValueEnds : step = To(x, do)
              /\ c = "CR" => \E x \in {<<"crlf">>, <<"chunkedCR">>, <<"closedCR">>}, do \in ValueEnds : step = To(x, do)
              /\ c \notin {"LF", "CR"} =>
                   \E x : (x = <<"value", 2>> \/ InWord(x, "valueWord")) /\ step = To(x, <<>>)
<1> DEFINE step == Client!HttpClientStep(cs, c)
           any == Client!CValue(<<"value", 2>>, c)
<1>0. <<"write_value">> \in ValueEnds /\ <<"write_value", "trans_chunked">> \in ValueEnds
      /\ <<"write_content_len", "write_value">> \in ValueEnds
  BY DEF ValueEnds
<1>1. /\ c = "LF" => any = To(<<"header">>, <<"write_value">>)
      /\ c = "CR" => any = To(<<"crlf">>, <<"write_value">>)
      /\ c \notin {"LF", "CR"} => any = To(<<"value", 2>>, <<>>)
  <2> DEFINE two == <<"value", 2>>
             do == IF two[2] = 1 THEN <<"start_value">> ELSE <<>>
             end == do \o <<"write_value">>
  <2>1. do = <<>>
    OBVIOUS
  <2>2. end = <<"write_value">>
    BY <2>1
  <2>3. Client!CValue(two, c) = CASE c = "LF" -> To(<<"header">>, end)
                                  [] c = "CR" -> To(<<"crlf">>, end)
                                  [] c \in {"VT", "SP"} -> To(two, do)
                                  [] OTHER    -> To(<<"value", 2>>, do)
    BY ClientTo DEF Client!CValue
  <2> HIDE DEF do, end
  <2>4. QED
    BY <2>1, <2>2, <2>3
<1>2. CASE cs = <<"value", 2>>
  <2>1. step = any
    BY <1>2, ClientSwitch
  <2> HIDE DEF any, step
  <2>2. QED
    BY <1>0, <1>1, <2>1 DEF step
<1>3. CASE InWord(cs, "valueWord")
  <2>1. PICK w \in Client!Keywords, i \in 1 .. 7 : cs = <<"valueWord", w, i>>
    BY <1>3 DEF InWord
  <2>2. step = Client!ValueWord(<<"valueWord", w, i>>, c)
    BY <2>1, ClientSwitch
  <2>3. \/ c \notin Ending /\ \E j \in 1 .. 7 : step = To(<<"valueWord", w, j>>, <<>>)
        \/ c \in {"LF", "CR"} /\ step = Client!WordEnds(w, c, <<"write_value">>)
        \/ step = any
    BY <2>2, ValueWordIs, ClientTo
  <2> HIDE DEF any, step
  <2>4. CASE c \notin Ending /\ \E j \in 1 .. 7 : step = To(<<"valueWord", w, j>>, <<>>)
    <3>1. PICK j \in 1 .. 7 : step = To(<<"valueWord", w, j>>, <<>>)
      BY <2>4
    <3>2. InWord(<<"valueWord", w, j>>, "valueWord")
      BY DEF InWord
    <3>3. c \notin {"LF", "CR"}
      BY <2>4 DEF Ending
    <3>4. QED
      BY <3>1, <3>2, <3>3 DEF step
  <2>5. CASE c \in {"LF", "CR"} /\ step = Client!WordEnds(w, c, <<"write_value">>)
    <3>1. /\ c = "LF" => \E x \in {<<"header">>, <<"closed">>}, do \in ValueEnds : step = To(x, do)
          /\ c = "CR" => \E x \in {<<"crlf">>, <<"chunkedCR">>, <<"closedCR">>}, do \in ValueEnds : step = To(x, do)
      <4>1. CASE w = "Connection"
        BY <1>0, <2>5, <4>1, ClientTo DEF Client!WordEnds
      <4>2. CASE w = "Transfer-Encoding"
        BY <1>0, <2>5, <4>2, ClientTo DEF Client!WordEnds
      <4>3. CASE w = "Content-Length"
        BY <1>0, <2>5, <4>3, ClientTo DEF Client!WordEnds
      <4>4. QED
        BY <4>1, <4>2, <4>3 DEF Client!Keywords
    <3>2. QED
      BY <2>5, <3>1 DEF step
  <2>6. CASE step = any
    BY <1>0, <1>1, <2>6 DEF step
  <2>7. QED
    BY <2>3, <2>4, <2>5, <2>6
<1>4. QED
  BY <1>2, <1>3

\* The actions at the end of a value.
LEMMA ValueEndsCarried ==
    ASSUME Here, ValueHeld(m), NEW x, NEW c, NEW choice, NEW do \in ValueEnds
    PROVE  Carried(After(To(x, do), c, choice), x)
<1> DEFINE s == [m EXCEPT !.cs = x]
<1>1. After(To(x, do), c, choice) = Acts(do, s, c, choice)
  BY AfterIs, Zenon
<1>2. Carried(s, x) /\ SameMarks(m, s)
  BY CarriedMove DEF Here
<1> HIDE DEF s
<1>3. FieldHeld(s) /\ ("value" \in s.mark \/ (s.field_len = "zero" /\ "length" \in cut))
  BY <1>2 DEF ValueHeld, FieldHeld, NameHeld, SameMarks
<1>4. Carried(Act("write_value", s, c, choice), x)
  BY <1>2, <1>3, CarriedWriteValue
<1>5. CASE do = <<"write_value">>
  BY <1>1, <1>4, <1>5, Acts1
<1>6. CASE do = <<"write_value", "trans_chunked">>
  <2> DEFINE u == Act("write_value", s, c, choice)
  <2>1. Acts(do, s, c, choice) = Act("trans_chunked", u, c, choice)
    BY <1>6, Acts2
  <2>2. Act("trans_chunked", u, c, choice) = u
    BY ActNone
  <2>3. QED
    BY <1>1, <1>4, <2>1, <2>2
<1>7. CASE do = <<"write_content_len", "write_value">>
  <2> DEFINE u == Act("write_content_len", s, c, choice)
  <2>1. Acts(do, s, c, choice) = Act("write_value", u, c, choice)
    BY <1>7, Acts2
  <2>2. Carried(u, x) /\ SameMarks(s, u)
    BY <1>2, <1>3, CarriedLength
  <2> HIDE DEF u
  <2>3. FieldHeld(u) /\ ("value" \in u.mark \/ u.field_len = "zero")
    BY <1>3, <2>2 DEF FieldHeld, NameHeld, SameMarks
  <2>4. Carried(Act("write_value", u, c, choice), x)
    BY <2>2, <2>3, CarriedWriteValue
  <2>5. QED
    BY <1>1, <2>1, <2>4
<1>8. QED
  BY <1>5, <1>6, <1>7 DEF ValueEnds

\* The value of a field.
LEMMA AtCValue ==
    ASSUME Answering("value"), NEW c, NEW choice
    PROVE  ResponseSound(c, choice)
<1> USE AnsweringAt
<1> DEFINE step == Client!HttpClientStep(m.cs, c)
<1>1. m.cs = <<"value", 2>> \/ InWord(m.cs, "valueWord")
  BY DEF AtResponse
<1>2. /\ c = "LF" => \E x \in {<<"header">>, <<"closed">>}, do \in ValueEnds : step = To(x, do)
      /\ c = "CR" => \E x \in {<<"crlf">>, <<"chunkedCR">>, <<"closedCR">>}, do \in ValueEnds : step = To(x, do)
      /\ c \notin {"LF", "CR"} =>
           \E x : (x = <<"value", 2>> \/ InWord(x, "valueWord")) /\ step = To(x, <<>>)
  BY <1>1, ValueIs
<1> HIDE DEF step
<1>3. FirstLine(m) /\ ValueHeld(m)
  BY DEF HeadRefs, Held
<1>4. RefStep(c) = LineEnds(c, "value")
  BY RefFieldIs
<1>5. CASE c \in {"LF", "CR"}
  <2> DEFINE r == IF c = "LF" THEN "line" ELSE "eol"
  <2>1. \E x, do : do \in ValueEnds /\ step = To(x, do) /\ InPlace(x, r)
    <3>1. CASE c = "LF"
      <4>1. \A x \in {<<"header">>, <<"closed">>} : InPlace(x, r)
        BY <3>1 DEF InPlace, AtResponse
      <4> HIDE DEF r
      <4>2. QED
        BY <1>2, <3>1, <4>1
    <3>2. CASE c = "CR"
      <4>1. \A x \in {<<"crlf">>, <<"chunkedCR">>, <<"closedCR">>} : InPlace(x, r)
        BY <3>2 DEF InPlace, AtResponse
      <4> HIDE DEF r
      <4>2. QED
        BY <1>2, <3>2, <4>1
    <3>3. QED
      BY <1>5, <3>1, <3>2
  <2>2. PICK x, do : do \in ValueEnds /\ step = To(x, do) /\ InPlace(x, r)
    BY <2>1
  <2>3. RefStep(c) = r /\ r \in {"line", "eol"}
    BY <1>4, <1>5 DEF LineEnds
  <2> HIDE DEF r
  <2> DEFINE t == After(To(x, do), c, choice)
  <2>4. Carried(t, x)
    BY <1>3, <2>2, ValueEndsCarried
  <2> HIDE DEF t
  <2>5. Held(t, r) /\ HasDelivered(m, r)
    BY <1>3, <2>3, HeadHas DEF Held, HeadRefs
  <2>6. Sound(t, r)
    BY <2>2, <2>4, <2>5, CarriedSound
  <2>7. QED
    BY <2>2, <2>3, <2>6 DEF ResponseSound, step, t
<1>6. CASE c \notin {"LF", "CR"}
  <2>1. PICK x : (x = <<"value", 2>> \/ InWord(x, "valueWord")) /\ step = To(x, <<>>)
    BY <1>2, <1>6
  <2>2. InPlace(x, "value")
    BY <2>1 DEF InPlace, AtResponse
  <2>3. RefStep(c) = "value"
    BY <1>4, <1>6 DEF LineEnds
  <2>4. Sound(After(To(x, <<>>), c, choice), "value")
    BY <2>2, QuietSound
  <2>5. QED
    BY <2>1, <2>3, <2>4 DEF ResponseSound, step
<1>7. QED
  BY <1>5, <1>6

\* Every byte of a response, but for those that begin a line and those that end
\* an empty value, keeps it sound.
LEMMA ResponseByte ==
    ASSUME NEW r, Answering(r), r \notin {"line", "blank"}, NEW c, NEW choice
    PROVE  ResponseSound(c, choice)
<1>1. r \in {"start", "size", "ext0", "ext", "extEq", "extValue", "endCR", "lineCR", "version", "status0",
             "status", "reason0", "reason", "name", "value", "eol"}
  BY AnsweringAt DEF AtResponse
<1>2. CASE r = "start"
  BY <1>2, AtCStart
<1>3. CASE r = "size"
  BY <1>3, AtSize
<1>4. CASE r \in {"ext0", "extEq"}
  BY <1>4, AtExtBegins
<1>5. CASE r = "ext"
  BY <1>5, AtExt
<1>6. CASE r = "extValue"
  BY <1>6, AtExtValue
<1>7. CASE r \in {"endCR", "lineCR"}
  BY <1>7, AtCLastCR
<1>8. CASE r = "version"
  BY <1>8, AtCVersion
<1>9. CASE r \in {"status0", "status"}
  BY <1>9, AtStatus
<1>10. CASE r \in {"reason0", "reason"}
  BY <1>10, AtReason
<1>11. CASE r = "name"
  BY <1>11, AtCName
<1>12. CASE r = "value"
  BY <1>12, AtCValue
<1>13. CASE r = "eol"
  BY <1>13, AtCEol
<1>14. QED
  BY <1>1, <1>2, <1>3, <1>4, <1>5, <1>6, <1>7, <1>8, <1>9, <1>10, <1>11, <1>12, <1>13

(***************************************************************************)
(* Steps.                                                                  *)
(***************************************************************************)

\* A response machine that is astray stays astray, or gives up.
LEMMA GoneMoves ==
    ASSUME Shaped(m), Texts(m), Gone(m), NEW c, NEW choice
    PROVE  LET t == After(Client!HttpClientStep(m.cs, c), c, choice)
           IN Shaped(t) /\ Texts(t) /\ FirstLine(t) /\ (Given(t) \/ Astray(t.cs))
<1> DEFINE step == Client!HttpClientStep(m.cs, c)
           s == [m EXCEPT !.cs = step.cs]
           t == Acts(step.do, s, c, choice)
<1>1. Loose /\ Astray(m.cs) /\ FirstLine(m)
  BY DEF Gone, Loose
<1>2. step = Error \/ (Astray(step.cs) /\ step.do \in Seq(FieldActs))
  BY <1>1, StrayMoves DEF Stray
<1>3. Error.cs = <<"error">> /\ Error.do \in Seq(FieldActs)
  BY ActSeqs DEF Error, To
<1>4. step.do \in Seq(FieldActs) /\ (step.cs = <<"error">> \/ Astray(step.cs))
  BY <1>2, <1>3
<1> HIDE DEF step
<1>5. Carried(s, step.cs)
  BY CarriedMove
<1> HIDE DEF s
<1>6. LooseOk(s, step.cs)
  BY <1>1, <1>5, FirstLineKept DEF Carried, LooseOk
<1>7. LooseOk(t, step.cs)
  BY <1>1, <1>4, <1>6, LooseActs
<1> HIDE DEF t
<1>8. Shaped(t) /\ Texts(t) /\ FirstLine(t) /\ (Given(t) \/ Astray(t.cs))
  BY <1>4, <1>7 DEF LooseOk, Given
<1>9. QED
  BY <1>8 DEF t, s, step, After

\* The tokens that were cut stay so, and with them the texts are as before.
LEMMA TextsLift ==
    ASSUME NEW t, Texts(t), m' = t, kind' = kind, cut \intersect Tokens \subseteq cut'
    PROVE  Texts(m)'
<1>1. \A u \in Tokens : t.data[u] \in {"default", "whole"} \/ u \in cut'
  BY DEF Texts
<1>2. FieldFine(t.field)
  BY DEF Texts
<1>3. FieldFine(m.field)'
  BY <1>2 DEF FieldFine
<1>4. QED
  BY <1>1, <1>3 DEF Texts

\* What a byte does to the cut tokens.
LEMMA CutKeeps ==
    ASSUME NEW c
    PROVE  /\ cut \intersect Tokens \subseteq CutAfter(c)
           /\ cut \intersect {"empty", "length"} \subseteq CutAfter(c)
           /\ ref = "line" => CutAfter(c) = cut \ {"name", "field"}
           /\ ref = "blank" /\ c \in {"LF", "CR"} /\ kind = "response" => CutAfter(c) = cut \union {"empty", "length"}
           /\ ref = "name" /\ c \in {"LF", "CR"} => CutAfter(c) = cut \union {"colonless"}
           /\ /\ ref # "line" /\ ~(ref = "name" /\ c \in {"LF", "CR"})
              /\ ~(ref = "blank" /\ c \in {"LF", "CR"} /\ kind = "response")
              => CutAfter(c) = cut
  BY DEF CutAfter, Tokens, RequestTokens, ResponseTokens

\* A sound parser is sound when its byte is taken.
LEMMA SoundLifts ==
    ASSUME NEW t, NEW r, Sound(t, r), m' = t, ref' = r, kind' = kind, began' = TRUE,
           cut' = cut \/ cut' = cut \union {"colonless"}
    PROVE  Sound(m, ref)'
<1>0. /\ \A u \in cut : u \in cut'
      /\ "empty" \in cut' => "empty" \in cut
  OBVIOUS
<1>1. Shaped(m)' /\ Texts(m)'
  <2>1. Shaped(t) /\ Texts(t)
    BY DEF Sound
  <2>2. QED
    BY <1>0, <2>1, TextsLift
<1>2. FirstLine(t) => FirstLine(m)'
  BY DEF FirstLine
<1>3. CASE Given(t)
  <2>1. Given(m)'
    BY <1>3
  <2>2. QED
    BY <1>1, <2>1 DEF Sound
<1>4. CASE Ended(t, r)
  <2>1. Ended(m, ref)'
    BY <1>0, <1>2, <1>4 DEF Ended
  <2>2. QED
    BY <1>1, <2>1 DEF Sound
<1>5. CASE Gone(t)
  <2>1. Gone(m)'
    BY <1>0, <1>2, <1>5 DEF Gone
  <2>2. QED
    BY <1>1, <2>1 DEF Sound
<1>6. CASE Paired(t, r)
  <2>1. NameHeld(t) => NameHeld(m)'
    BY <1>0 DEF NameHeld
  <2>2. FieldHeld(t) => FieldHeld(m)'
    BY <2>1 DEF FieldHeld
  <2>3. ValueHeld(t) => ValueHeld(m)'
    BY <1>0, <2>2 DEF ValueHeld
  <2>4. \A u : Marked(t, u) => Marked(m, u)'
    BY <1>0 DEF Marked
  <2>5. Held(m, ref)'
    BY <1>0, <1>6, <2>1, <2>2, <2>3, <2>4 DEF Paired, Held
  <2>6. HasDelivered(m, ref)'
    BY <1>2, <1>6 DEF Paired, HasDelivered
  <2>7. Paired(m, ref)'
    BY <1>0, <1>6, <2>5, <2>6 DEF Paired
  <2>8. QED
    BY <1>1, <2>7 DEF Sound
<1>7. QED
  BY <1>3, <1>4, <1>5, <1>6 DEF Sound

\* A byte that begins a line, and forgets what was cut in the field before.
LEMMA LineLifts ==
    ASSUME "empty" \notin cut, NEW t, NEW r, Sound(t, r), m' = t, ref' = r, kind' = kind,
           cut' = cut \ {"name", "field"}, began' = TRUE,
           \/ Given(t) \/ t.done \/ "name" \in t.field_start
           \/ kind = "response" /\ r = "lineCR"
    PROVE  Sound(m, ref)'
<1>1. Shaped(m)' /\ Texts(m)'
  <2>1. Shaped(t) /\ Texts(t)
    BY DEF Sound
  <2>2. cut \intersect Tokens \subseteq cut'
    BY DEF Tokens, RequestTokens, ResponseTokens
  <2>3. QED
    BY <2>1, <2>2, TextsLift
<1>2. FirstLine(t) => FirstLine(m)'
  BY DEF FirstLine
<1>3. CASE Given(t)
  <2>1. Given(m)'
    BY <1>3
  <2>2. QED
    BY <1>1, <2>1 DEF Sound
<1>4. CASE Ended(t, r)
  <2>1. Ended(m, ref)'
    BY <1>2, <1>4 DEF Ended
  <2>2. QED
    BY <1>1, <2>1 DEF Sound
<1>5. CASE Paired(t, r) /\ ~Given(t)
  <2>0. "name" \in t.field_start \/ (kind = "response" /\ r = "lineCR")
    BY <1>5 DEF Paired
  <2>1. "name" \in t.field_start => NameHeld(m)'
    BY DEF NameHeld
  <2>2. FieldHeld(t) /\ "name" \in t.field_start => FieldHeld(m)'
    BY <2>1 DEF FieldHeld
  <2>3. ValueHeld(t) /\ "name" \in t.field_start => ValueHeld(m)'
    BY <2>2 DEF ValueHeld
  <2>4. \A u \in Tokens : Marked(t, u) => Marked(m, u)'
    BY DEF Marked, Tokens, RequestTokens, ResponseTokens
  <2>5. Held(m, ref)'
    BY <1>5, <2>0, <2>1, <2>2, <2>3, <2>4 DEF Paired, Held, Tokens, RequestTokens, ResponseTokens
  <2>6. HasDelivered(m, ref)'
    BY <1>2, <1>5 DEF Paired, HasDelivered
  <2>7. Paired(m, ref)'
    BY <1>5, <2>5, <2>6 DEF Paired
  <2>8. QED
    BY <1>1, <2>7 DEF Sound
<1>6. ~Gone(t)
  BY DEF Gone
<1>7. QED
  BY <1>3, <1>4, <1>5, <1>6 DEF Sound

\* A parser that has given up, or is astray, stays so.
LEMMA LooseLifts ==
    ASSUME NEW t, Shaped(t), Texts(t), Given(t) \/ (Astray(t.cs) /\ FirstLine(t)), m' = t, kind' = kind,
           cut \intersect Tokens \subseteq cut',
           ~Given(t) => kind = "response" /\ "empty" \in cut' /\ "length" \in cut'
    PROVE  Sound(m, ref)'
<1>1. Shaped(m)' /\ Texts(m)'
  BY TextsLift
<1>2. FirstLine(t) => FirstLine(m)'
  BY DEF FirstLine
<1>3. Given(t) <=> Given(m)'
  OBVIOUS
<1>4. ~Given(t) => Gone(m)'
  BY <1>2 DEF Gone
<1>5. QED
  BY <1>1, <1>3, <1>4 DEF Sound
\* What the bytes decide is among the choices.
LEMMA DecidedHold ==
    ASSUME NEW do
    PROVE  ByteChoices(do) \subseteq Decided
  BY DEF ByteChoices, Decided

\* A byte of a request.
LEMMA RequestStep ==
    ASSUME ParserInv, kind = "request", NEW c \in Chars, Byte(c)
    PROVE  ParserInv'
<1> DEFINE step == Http11Step(m.cs, c, relaxed)
<1>1. /\ relaxed \in BOOLEAN /\ Sound(m, ref) /\ ~m.done /\ m.cs \notin {<<"error">>, <<"crash">>}
      /\ began' = TRUE /\ ref' = RefStep(c) /\ cut' = CutAfter(c) /\ kind' = kind /\ relaxed' = relaxed
  BY DEF ParserInv, Byte
<1>2. PICK choice \in Decided : m' = After(step, c, choice)
  <2>1. PICK choice \in ByteChoices(step.do) : m' = Acts(step.do, [m EXCEPT !.cs = step.cs], c, choice)
    BY DEF Byte
  <2> HIDE DEF step
  <2>2. QED
    BY <2>1, DecidedHold DEF After
<1> DEFINE t == After(step, c, choice)
<1>3. Shaped(m) /\ Texts(m) /\ (Given(m) \/ Paired(m, ref))
  BY <1>1 DEF Sound, Ended, Gone
<1>4. Sound(m, ref)'
  <2>1. CASE Given(m)
    <3>1. m.cs = <<"socketDone">>
      BY <1>1, <2>1 DEF Given
    <3>2. step = Error
      BY <3>1 DEF Http11Step
    <3>3. t = [m EXCEPT !.cs = <<"error">>]
      <4>1. After(To(<<"error">>, <<>>), c, choice) = Acts(<<>>, [m EXCEPT !.cs = <<"error">>], c, choice)
        BY AfterIs, Zenon
      <4>2. QED
        BY <3>2, <4>1, Acts0 DEF Error
    <3>4. Shaped(t) /\ Texts(t) /\ t.cs = <<"error">>
      BY <1>3, <3>3, CarriedMove DEF Carried
    <3>5. Given(t)
      BY <3>4 DEF Given
    <3> HIDE DEF t, step
    <3>6. QED
      BY <1>1, <1>2, <3>4, <3>5, CutKeeps, LooseLifts DEF t
  <2>2. CASE Paired(m, ref) /\ ref = "line"
    <3>1. Reading("line")
      BY <1>1, <1>3, <2>2 DEF Reading
    <3>2. LineSound(step, c, choice)
      BY <3>1, AtLine
    <3>3. Sound(t, RefStep(c)) /\ (Given(t) \/ t.done \/ "name" \in t.field_start)
      BY <3>2 DEF LineSound
    <3>4. cut' = cut \ {"name", "field"} /\ "empty" \notin cut
      BY <1>1, <2>2, CutKeeps DEF Paired
    <3> HIDE DEF t, step
    <3>5. QED
      BY <1>1, <1>2, <3>3, <3>4, LineLifts DEF t
  <2>3. CASE Paired(m, ref) /\ ref # "line"
    <3>1. Reading(ref)
      BY <1>1, <1>3, <2>3 DEF Reading
    <3>2. RequestSound(c, choice)
      BY <2>3, <3>1, RequestByte
    <3>3. Sound(t, RefStep(c))
      BY <3>2 DEF RequestSound
    <3>4. cut' = cut \/ cut' = cut \union {"colonless"}
      BY <1>1, <2>3, CutKeeps
    <3> HIDE DEF t, step
    <3>5. QED
      BY <1>1, <1>2, <3>3, <3>4, SoundLifts DEF t
  <2>4. QED
    BY <1>3, <2>1, <2>2, <2>3
<1>5. QED
  BY <1>1, <1>4 DEF ParserInv

\* A byte of a response.
LEMMA ResponseStep ==
    ASSUME ParserInv, kind = "response", NEW c, Byte(c)
    PROVE  ParserInv'
<1> DEFINE step == Client!HttpClientStep(m.cs, c)
<1>1. /\ relaxed \in BOOLEAN /\ Sound(m, ref) /\ ~m.done /\ m.cs \notin {<<"error">>, <<"crash">>}
      /\ began' = TRUE /\ ref' = RefStep(c) /\ cut' = CutAfter(c) /\ kind' = kind /\ relaxed' = relaxed
  BY DEF ParserInv, Byte
<1>2. PICK choice : m' = After(step, c, choice)
  <2>1. PICK choice \in ByteChoices(step.do) : m' = Acts(step.do, [m EXCEPT !.cs = step.cs], c, choice)
    BY DEF Byte
  <2> HIDE DEF step
  <2>2. QED
    BY <2>1 DEF After
<1> DEFINE t == After(step, c, choice)
<1>3. Shaped(m) /\ Texts(m) /\ (Given(m) \/ Paired(m, ref) \/ Gone(m))
  BY <1>1 DEF Sound, Ended
<1>4. Sound(m, ref)'
  <2>1. CASE Given(m)
    <3>1. m.cs = <<"socketDone">>
      BY <1>1, <2>1 DEF Given
    <3>2. step = Error
      BY <3>1, ClientTo DEF Client!HttpClientStep
    <3>3. t = [m EXCEPT !.cs = <<"error">>]
      <4>1. After(To(<<"error">>, <<>>), c, choice) = Acts(<<>>, [m EXCEPT !.cs = <<"error">>], c, choice)
        BY AfterIs, Zenon
      <4>2. QED
        BY <3>2, <4>1, Acts0 DEF Error
    <3>4. Shaped(t) /\ Texts(t) /\ t.cs = <<"error">>
      BY <1>3, <3>3, CarriedMove DEF Carried
    <3>5. Given(t)
      BY <3>4 DEF Given
    <3> HIDE DEF t, step
    <3>6. QED
      BY <1>1, <1>2, <3>4, <3>5, CutKeeps, LooseLifts DEF t
  <2>2. CASE Gone(m)
    <3>1. Shaped(t) /\ Texts(t) /\ FirstLine(t) /\ (Given(t) \/ Astray(t.cs))
      BY <1>3, <2>2, GoneMoves
    <3>2. "empty" \in cut' /\ "length" \in cut'
      BY <1>1, <2>2, CutKeeps DEF Gone
    <3> HIDE DEF t, step
    <3>3. QED
      BY <1>1, <1>2, <3>1, <3>2, CutKeeps, LooseLifts DEF t
  <2>3. CASE Paired(m, ref) /\ ref = "line"
    <3>1. Answering("line")
      BY <1>3, <2>3 DEF Answering
    <3>2. LineSound(step, c, choice)
      BY <3>1, AtCLine
    <3>3. Sound(t, RefStep(c)) /\ (\/ Given(t) \/ t.done \/ "name" \in t.field_start
                                   \/ kind = "response" /\ RefStep(c) = "lineCR")
      BY <3>2 DEF LineSound
    <3>4. cut' = cut \ {"name", "field"} /\ "empty" \notin cut
      BY <1>1, <2>3, CutKeeps DEF Paired
    <3> HIDE DEF t, step
    <3>5. QED
      BY <1>1, <1>2, <3>3, <3>4, LineLifts DEF t
  <2>4. CASE Paired(m, ref) /\ ref = "blank" /\ c \in {"LF", "CR"}
    <3>1. Answering("blank")
      BY <1>3, <2>4 DEF Answering
    <3>2. Shaped(t) /\ Texts(t) /\ FirstLine(t) /\ Astray(t.cs)
      BY <2>4, <3>1, AtCBlank
    <3>3. "empty" \in cut' /\ "length" \in cut'
      BY <1>1, <2>4, CutKeeps
    <3> HIDE DEF t, step
    <3>4. QED
      BY <1>1, <1>2, <3>2, <3>3, CutKeeps, LooseLifts DEF t
  <2>5. CASE Paired(m, ref) /\ ref # "line" /\ ~(ref = "blank" /\ c \in {"LF", "CR"})
    <3>1. Answering(ref)
      BY <1>3, <2>5 DEF Answering
    <3>2. Sound(t, RefStep(c))
      <4>1. CASE ref = "blank"
        BY <2>5, <3>1, <4>1, AtCBlank
      <4>2. CASE ref # "blank"
        <5>1. ResponseSound(c, choice)
          BY <2>5, <3>1, <4>2, ResponseByte
        <5>2. QED
          BY <5>1 DEF ResponseSound
      <4>3. QED
        BY <4>1, <4>2
    <3>3. cut' = cut \/ cut' = cut \union {"colonless"}
      BY <1>1, <2>5, CutKeeps
    <3> HIDE DEF t, step
    <3>4. QED
      BY <1>1, <1>2, <3>2, <3>3, SoundLifts DEF t
  <2>6. QED
    BY <1>3, <2>1, <2>2, <2>3, <2>4, <2>5
<1>5. QED
  BY <1>1, <1>4 DEF ParserInv

\* The next buffer: what its marks no longer hold is among the cut tokens.
LEMMA BufferStep ==
    ASSUME ParserInv, NextBuffer
    PROVE  ParserInv'
<1>1. /\ relaxed \in BOOLEAN /\ kind \in {"request", "response"} /\ Sound(m, ref) /\ ~hasError /\ ~isFinished
      /\ began' = FALSE /\ cut' = cut \union Cuts /\ kind' = kind /\ relaxed' = relaxed /\ ref' = ref
  BY DEF ParserInv, NextBuffer
<1>2. Shaped(m) /\ Texts(m)
  BY <1>1 DEF Sound
<1>3. m' = [m EXCEPT !.mark = Zero, !.field_start = Zero, !.field_len = "zero", !.query_start = Old, !.done = FALSE]
  BY DEF NextBuffer
<1>4. /\ m'.cs = m.cs /\ m'.mark = Zero /\ m'.field_start = Zero /\ m'.field_len = "zero" /\ m'.query_start = Old
      /\ m'.m_error = m.m_error /\ m'.data = m.data /\ m'.field = m.field /\ m'.done = FALSE
  BY <1>2, <1>3 DEF Shaped
<1>5. Shaped(m)'
  BY <1>2, <1>3 DEF Shaped, Zero, Old, Points
<1>6. Texts(m)'
  <2>1. FieldFine(m.field)'
    BY <1>1, <1>2, <1>4 DEF Texts, FieldFine
  <2>2. QED
    BY <1>1, <1>2, <1>4, <2>1 DEF Texts
<1>7. FirstLine(m) => FirstLine(m)'
  BY <1>1, <1>4 DEF FirstLine
<1>8. Given(m)' \/ Paired(m, ref)' \/ Gone(m)'
  <2>1. CASE Given(m)
    BY <1>4, <2>1 DEF Given
  <2>2. ~Ended(m, ref)
    BY <1>1 DEF Ended, isFinished
  <2>3. CASE Gone(m)
    BY <1>1, <1>4, <1>7, <2>3 DEF Gone
  <2>4. CASE Paired(m, ref)
    <3>1. "empty" \notin cut'
      BY <1>1, <2>4 DEF Paired, Cuts, Tokens, RequestTokens, ResponseTokens
    <3>2. HasDelivered(m, ref)'
      BY <1>1, <1>4, <1>7, <2>4 DEF Paired, HasDelivered
    <3>3. /\ ref \in Tokens => ref \in cut'
          /\ ref \in {"scheme", "socket"} => "path" \in cut'
          /\ ref \in {"name", "lineCR", "ext0", "ext"} => "name" \in cut'
          /\ ref \in {"blank", "value", "extEq", "extValue"} => "length" \in cut'
      BY <1>1 DEF Cuts, Tokens, RequestTokens, ResponseTokens
    <3>4. Held(m, ref)'
      <4>1. \A u : u \in cut' => Marked(m, u)'
        BY DEF Marked
      <4>2. "name" \in cut' => NameHeld(m)'
        BY <1>4 DEF NameHeld
      <4>3. FieldHeld(m)'
        BY <1>4 DEF FieldHeld
      <4>4. "length" \in cut' => ValueHeld(m)'
        BY <1>4, <4>3 DEF ValueHeld
      <4>5. QED
        BY <1>1, <3>3, <4>1, <4>2, <4>3, <4>4 DEF Held, Tokens, RequestTokens, ResponseTokens
    <3>5. AtRequest(m.cs, ref) => AtRequest(m.cs, ref)'
      BY <1>1, <1>4
    <3>6. AtResponse(m.cs, ref) => AtResponse(m.cs, ref)'
      BY <1>1, <1>4
    <3>7. QED
      BY <1>1, <1>4, <2>4, <3>1, <3>2, <3>4, <3>5, <3>6 DEF Paired
  <2>5. QED
    BY <1>1, <2>1, <2>2, <2>3, <2>4 DEF Sound
<1>9. QED
  BY <1>1, <1>5, <1>6, <1>8 DEF ParserInv, Sound

\* A buffer that a response parser refuses: it gives up.
LEMMA RefusedStep ==
    ASSUME ParserInv, RefusedBuffer
    PROVE  ParserInv'
<1>1. /\ relaxed \in BOOLEAN /\ began \in BOOLEAN /\ kind = "response" /\ Shaped(m) /\ Texts(m)
      /\ m' = [m EXCEPT !.cs = <<"crash">>]
      /\ began' = began /\ cut' = cut /\ kind' = kind /\ relaxed' = relaxed
  BY DEF ParserInv, RefusedBuffer, Sound
<1>2. m'.cs = <<"crash">> /\ m'.data = m.data /\ m'.field = m.field
  BY <1>1 DEF Shaped
<1>3. Shaped(m)'
  BY <1>1 DEF Shaped
<1>4. Texts(m)'
  BY <1>1, <1>2 DEF Texts, FieldFine
<1>5. Given(m)'
  BY <1>2 DEF Given
<1>6. QED
  BY <1>1, <1>3, <1>4, <1>5 DEF ParserInv, Sound

\* The invariant holds at first.
LEMMA ParserStarts ==
    ASSUME Init
    PROVE  ParserInv
<1>1. relaxed \in BOOLEAN /\ m = NewParser /\ began = FALSE /\ ref = "start" /\ cut = {}
  BY DEF Init
<1>2. CASE kind \in {"request", "response"}
  <2>1. Shaped(m)
    BY <1>1 DEF NewParser, Shaped, Zero, Old, Points, Slices
  <2>2. Texts(m)
    BY <1>1 DEF NewParser, Texts, FieldFine
  <2>3. m.cs = <<"start">> /\ m.done = FALSE
    BY <1>1 DEF NewParser
  <2>4. AtRequest(<<"start">>, "start") /\ AtResponse(<<"start">>, "start")
    BY DEF AtRequest, AtResponse
  <2>5. Held(m, ref)
    BY <1>1 DEF Held
  <2>6. HasDelivered(m, ref)
    BY <1>1 DEF HasDelivered, HeadRefs, BehindMethod, BehindPath
  <2>7. Paired(m, ref)
    BY <1>1, <1>2, <2>3, <2>4, <2>5, <2>6 DEF Paired
  <2>8. QED
    BY <1>1, <1>2, <2>1, <2>2, <2>7 DEF ParserInv, Sound
<1>3. CASE kind \notin {"request", "response"}
  BY <1>1, <1>3 DEF ParserInv
<1>4. QED
  BY <1>2, <1>3

\* Every step keeps it.
LEMMA ParserKeeps ==
    ASSUME ParserInv, [Next]_vars
    PROVE  ParserInv'
<1>1. CASE kind = "request" /\ \E c \in Chars : Byte(c)
  BY <1>1, RequestStep
<1>2. CASE kind = "response" /\ \E c \in Client!CChars : Byte(c)
  BY <1>2, ResponseStep
<1>3. CASE NextBuffer
  BY <1>3, BufferStep
<1>r. CASE RefusedBuffer
  BY <1>r, RefusedStep
<1>4. CASE UNCHANGED parserVars
  <2>1. kind' = kind /\ relaxed' = relaxed /\ m' = m /\ began' = began /\ ref' = ref /\ cut' = cut
    BY <1>4 DEF parserVars
  <2>2. Sound(m, ref) => Sound(m, ref)'
    BY <2>1 DEF Sound, Texts, FieldFine, Paired, Ended, Gone, Held, Marked, ValueHeld, FieldHeld, NameHeld,
                HasDelivered, FirstLine
  <2>3. QED
    BY <2>1, <2>2 DEF ParserInv
<1>5. QED
  BY <1>1, <1>2, <1>3, <1>r, <1>4 DEF Next, vars

\* No state of a machine that reads is the final one.
LEMMA NotDone ==
    ASSUME NEW r, AtRequest(<<"done">>, r) \/ AtResponse(<<"done">>, r)
    PROVE  FALSE
<1> DEFINE d == <<"done">>
<1>0. d[1] = "done"
  OBVIOUS
<1> HIDE DEF d
<1>1. ~InPath(d, "http") /\ ~InPath(d, "json")
  BY <1>0 DEF InPath, PathStates
<1>2. ~OnWay(d, <<"query", 2>>) /\ ~OnWay(d, <<"fragment", 2>>)
  BY <1>0 DEF OnWay
<1>3. ~SocketPath(d) /\ ~SocketData(d)
  BY <1>0, <1>1 DEF SocketPath, SocketData
<1>4. ~AtRequest(d, r)
  BY <1>0, <1>1, <1>2, <1>3 DEF AtRequest
<1>5. ~InKeyword(d) /\ ~OfKeyword(d, "known") /\ ~InWord(d, "valueWord")
  BY <1>0 DEF InKeyword, OfKeyword, InWord
<1>6. ~AtResponse(d, r)
  BY <1>0, <1>5 DEF AtResponse
<1>7. QED
  BY <1>4, <1>6 DEF d

\* The lexer is not at the end while a machine reads.
LEMMA NotEnd ==
    ASSUME NEW cs, NEW r, AtRequest(cs, r) \/ AtResponse(cs, r)
    PROVE  r # "end"
<1>1. AtRequest(cs, r) => r # "end"
  BY DEF AtRequest
<1>2. AtResponse(cs, r) => r # "end"
  BY DEF AtResponse
<1>3. QED
  BY <1>1, <1>2

\* The invariant has the properties.
LEMMA ParserShows ==
    ASSUME ParserInv
    PROVE  WholeTokens /\ FieldWhole /\ HeadEnds
<1>1. CASE kind \in {"request", "response"} /\ Sound(m, ref)
  <2>1. Texts(m) /\ (Given(m) \/ Paired(m, ref) \/ Ended(m, ref) \/ Gone(m))
    BY <1>1 DEF Sound
  <2>2. WholeTokens /\ FieldWhole
    BY <2>1 DEF Texts, FieldFine, WholeTokens, FieldWhole
  <2>3. HeadEnds
    <3>1. CASE Given(m)
      <4>1. m.cs # <<"done">> /\ m.cs \in {<<"error">>, <<"crash">>, <<"socketDone">>}
        BY <3>1 DEF Given
      <4>2. QED
        BY <4>1 DEF HeadEnds
    <3>2. CASE Paired(m, ref)
      <4>1. ~m.done /\ (AtRequest(m.cs, ref) \/ AtResponse(m.cs, ref))
        BY <3>2 DEF Paired
      <4>2. ref # "end"
        BY <4>1, NotEnd
      <4>3. m.cs # <<"done">>
        BY <4>1, NotDone
      <4>4. QED
        BY <4>1, <4>2, <4>3 DEF HeadEnds
    <3>3. CASE Ended(m, ref)
      BY <1>1, <3>3 DEF Ended, HeadEnds, FirstLine, isFinished
    <3>4. CASE Gone(m)
      BY <3>4 DEF Gone, HeadEnds, FirstLine
    <3>5. QED
      BY <2>1, <3>1, <3>2, <3>3, <3>4
  <2>4. QED
    BY <2>2, <2>3
<1>2. CASE m = NewParser /\ ref = "start"
  <2>1. m.cs = <<"start">> /\ m.done = FALSE /\ m.field.name = "none" /\ \A t \in Tokens : m.data[t] = "default"
    BY <1>2 DEF NewParser
  <2>2. m.cs # <<"done">>
    BY <2>1
  <2>3. QED
    BY <1>2, <2>1, <2>2 DEF WholeTokens, FieldWhole, HeadEnds
<1>3. QED
  BY <1>1, <1>2 DEF ParserInv

\* ParserInv always holds, for any number of buffers.
LEMMA ParserInvAlways == Spec => []ParserInv
<1>1. Init => ParserInv
  BY ParserStarts
<1>2. ParserInv /\ [Next]_vars => ParserInv'
  BY ParserKeeps
<1>3. QED
  BY <1>1, <1>2, PTL DEF Spec

\* WholeTokens, for inputs of any length, in any number of buffers that end at
\* any byte: each part that a callback stored is the whole token that was sent,
\* unless a buffer ended within it (http11_parser.rl:53-98,
\* http_parser.cc:47-98).
THEOREM WholeTokensAlways == Spec => []WholeTokens
<1>1. ParserInv => WholeTokens
  BY ParserShows
<1>2. QED
  BY <1>1, ParserInvAlways, PTL

\* FieldWhole, for any number of buffers: no field is stored under a name or
\* with a value that is not its own, unless a buffer ended within the name or a
\* response had an empty value (http_parser.cc:90-98, 162-171).
THEOREM FieldWholeAlways == Spec => []FieldWhole
<1>1. ParserInv => FieldWhole
  BY ParserShows
<1>2. QED
  BY <1>1, ParserInvAlways, PTL

\* HeadEnds, for any number of buffers: in a head whose field lines all have a
\* colon, and in a response a value, the machine is done exactly at the empty
\* line that ends it, with every part of the first line delivered
\* (http_parser.cc:121-131, 185-195).
THEOREM HeadEndsAlways == Spec => []HeadEnds
<1>1. ParserInv => HeadEnds
  BY ParserShows
<1>2. QED
  BY <1>1, ParserInvAlways, PTL
=============================================================================
