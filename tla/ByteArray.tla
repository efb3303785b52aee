----------------------------- MODULE ByteArray -----------------------------
(***************************************************************************)
(* ByteArray (src/code/bytearray.{h,cc}): bytes in a list of nodes of      *)
(* m_baseSize bytes, with a position, typed reads and writes, iovecs and   *)
(* files.  Integers of 16, 32 and 64 bits are 2, 4 and 8 bytes of ByteBits *)
(* bits; the code has ByteBits = 8.                                        *)
(*                                                                         *)
(* The array is one record, so that an operation made of several writes is *)
(* the composition of their effects.  The loops over nodes are in closed   *)
(* form: byte k from offset npos of node c lies in node                    *)
(* c + (npos + k) \div m_baseSize.  m_current = 0 is nullptr; following it *)
(* ends the process (segv).                                                *)
(***************************************************************************)
EXTENDS Integers, Sequences, FiniteSets

CONSTANTS BaseSizes,    \* constructor arguments
          ByteBits,
          MaxCapacity,  \* bound: bytes allocated
          MaxWrites,    \* bound: writes
          Numbers,      \* integers the client writes
          Strings,      \* byte sequences the client writes, or reads from a file
          Types,        \* the value types the client uses
          Lengths,      \* how many bytes the client asks buffers for
          Heaps,        \* what new char[] may hold
          ByteOrder     \* CXS_BYTE_ORDER of the machine: "little", "big"

ASSUME ByteArrayAssumption ==
    /\ BaseSizes \subseteq Nat \ {0} /\ ByteBits \in Nat \ {0, 1}
    /\ MaxCapacity \in Nat /\ MaxWrites \in Nat /\ Numbers \subseteq Int
    /\ Lengths \subseteq Nat /\ ByteOrder \in {"little", "big"}

Pow(b, n) == LET p[i \in 0..n] == IF i = 0 THEN 1 ELSE b * p[i - 1] IN p[n]
Base == Pow(2, ByteBits)

ASSUME BytesAssumption ==
    Heaps \subseteq 0..(Base - 1) /\ Strings \subseteq Seq(0..(Base - 1))

VARIABLES m_baseSize, m_endian,
          heap,      \* the value of the bytes of a new char[]
          ba,        \* nodes, m_current, m_position, m_size, segv
          in, out,   \* of the last call: bytes written, bytes read,
          iov,       \* the buffers it returned, as <<node, offset, length>>,
          result,    \* the value it returned and the one that was written
          file,      \* and what it wrote to a file
          written,   \* history: values that were written and not overwritten
          writes     \* counts writes, for MaxWrites

vars == <<m_baseSize, m_endian, heap, ba, in, out, iov, file, written, result, writes>>

NewNode(size) == [i \in 0..(size - 1) |-> heap]
NoResult == [type |-> "none", got |-> 0, want |-> 0]
NoIov == [op |-> "none", at |-> 0, len |-> 0, pieces |-> <<>>]

Init ==
    /\ m_baseSize \in BaseSizes
    /\ m_endian = "big"
    /\ heap \in Heaps
    /\ ba = [nodes |-> <<NewNode(m_baseSize)>>, m_current |-> 1, m_position |-> 0,
             m_size |-> 0, segv |-> FALSE]
    /\ in = <<>> /\ out = <<>> /\ iov = NoIov /\ file = <<>>
    /\ written = {} /\ result = NoResult /\ writes = 0

-----------------------------------------------------------------------------
(* Nodes, capacity and position.                                           *)

m_capacity(b) == Len(b.nodes) * m_baseSize
getCapacity(b) == m_capacity(b) - b.m_position
getReadSize(b) == b.m_size - b.m_position
Segv(b) == [b EXCEPT !.segv = TRUE]

\* Node and offset of the byte k after offset npos of node c.
NodeAt(c, npos, k) == c + (npos + k) \div m_baseSize
OffsetAt(npos, k) == (npos + k) % m_baseSize

\* A loop over size bytes that starts at npos of node c follows a null pointer.
RunsOff(b, c, npos, size) ==
    c = 0 \/ (size > 0 /\ NodeAt(c, npos, size - 1) > Len(b.nodes))

\* m_current after such a loop.
Advance(b, c, npos, size) ==
    IF NodeAt(c, npos, size) > Len(b.nodes) THEN 0 ELSE NodeAt(c, npos, size)

Bytes(b, c, npos, size) ==
    [k \in 1..size |-> b.nodes[NodeAt(c, npos, k - 1)][OffsetAt(npos, k - 1)]]

\* addCapacity: how many nodes are appended for size missing bytes.
NodeCount(size, old_cap) ==
    size \div m_baseSize + (IF size % m_baseSize > old_cap THEN 1 ELSE 0)

addCapacity(b, size) ==
    LET old_cap == getCapacity(b)
        count == NodeCount(size - old_cap, old_cap)
    IN  IF size <= old_cap THEN b
        ELSE [b EXCEPT !.nodes = @ \o [i \in 1..count |-> NewNode(m_baseSize)],
                       !.m_current = IF old_cap = 0 THEN Len(b.nodes) + 1 ELSE @]

\* Mutant of Stored: writing starts at the beginning of the node.
StoredFromNode(b, bs) ==
    [n \in DOMAIN b.nodes |-> [i \in 0..(m_baseSize - 1) |->
        LET k == (n - b.m_current) * m_baseSize + i
        IN  IF k \in 0..(Len(bs) - 1) THEN bs[k + 1] ELSE b.nodes[n][i]]]
\* How far byte i of node n lies behind the position, which lies in m_current.
Ahead(b, n, i) == (n - b.m_current) * m_baseSize + i - (b.m_position % m_baseSize)
\* The nodes after bs was copied to the position.
Stored(b, bs) ==
    [n \in DOMAIN b.nodes |-> [i \in 0..(m_baseSize - 1) |->
        IF Ahead(b, n, i) \in 0..(Len(bs) - 1) THEN bs[Ahead(b, n, i) + 1] ELSE b.nodes[n][i]]]

\* Mutant of write: m_current stays when the node was filled exactly.
writeStays(b0, bs) ==
    LET b == addCapacity(b0, Len(bs))
        npos == b.m_position % m_baseSize
        end == b.m_position + Len(bs)
    IN  IF bs = <<>> \/ b.segv THEN b0
        ELSE IF RunsOff(b, b.m_current, npos, Len(bs)) THEN Segv(b0)
        ELSE [b EXCEPT !.nodes = Stored(b, bs), !.m_position = end,
                       !.m_size = IF end > @ THEN end ELSE @,
                       !.m_current = NodeAt(@, npos, Len(bs) - 1)]

write(b0, bs) ==
    LET b == addCapacity(b0, Len(bs))
        npos == b.m_position % m_baseSize
        end == b.m_position + Len(bs)
    IN  IF bs = <<>> \/ b.segv THEN b0
        ELSE IF RunsOff(b, b.m_current, npos, Len(bs)) THEN Segv(b0)
        ELSE [b EXCEPT !.nodes = Stored(b, bs), !.m_position = end,
                       !.m_size = IF end > @ THEN end ELSE @,
                       !.m_current = Advance(b, @, npos, Len(bs))]

\* read(buf, size): what it leaves behind, the bytes, and whether it threw.  At
\* every node but the last it copies all that is still to be read instead of
\* ncap bytes; the next turn overwrites what came from behind the block, if
\* reading there did not end the process (readOverruns).
read(b, size) ==
    LET npos == b.m_position % m_baseSize
    IN  IF size > getReadSize(b) THEN [ba |-> b, out |-> <<>>, thrown |-> TRUE]
        ELSE IF RunsOff(b, b.m_current, npos, size)
        THEN [ba |-> Segv(b), out |-> <<>>, thrown |-> TRUE]
        ELSE [ba |-> [b EXCEPT !.m_position = @ + size,
                               !.m_current = IF size = 0 THEN @ ELSE Advance(b, @, npos, size)],
              out |-> Bytes(b, b.m_current, npos, size), thrown |-> FALSE]

\* setPosition: the walk from m_root ends at a null pointer for val = m_capacity.
MoveTo(b, val) ==
    IF val = m_capacity(b) THEN Segv(b)
    ELSE [b EXCEPT !.m_position = val, !.m_size = IF val > @ THEN val ELSE @,
                   !.m_current = 1 + val \div m_baseSize]

-----------------------------------------------------------------------------
(* Encodings.                                                              *)

Reverse(s) == [i \in 1..Len(s) |-> s[Len(s) + 1 - i]]

\* The bytes of an integer in the machine's order, and byteswap().
Native(v, width) ==
    LET little == [i \in 1..width |-> (v \div Pow(Base, i - 1)) % Base]
    IN  IF ByteOrder = "little" THEN little ELSE Reverse(little)
OfNative(bs) ==
    LET little == IF ByteOrder = "little" THEN bs ELSE Reverse(bs)
        sum[i \in 0..Len(bs)] == IF i = 0 THEN 0 ELSE sum[i - 1] + little[i] * Pow(Base, i - 1)
    IN  sum[Len(bs)]
byteswap(bs) == Reverse(bs)

\* writeFint8 .. writeFuint64, writeFloat, writeDouble and the reads.
EncodeF(v, width) ==
    LET bs == Native(v % Pow(Base, width), width)
    IN  IF width > 1 /\ m_endian # ByteOrder THEN byteswap(bs) ELSE bs
DecodeF(bs) == OfNative(IF Len(bs) > 1 /\ m_endian # ByteOrder THEN byteswap(bs) ELSE bs)

\* Variable length: ByteBits - 1 bits per byte, the top bit says that more follow.
Group == Base \div 2
\* One byte for each turn of the loop that shifts v, and the last one.
GroupsOf(v) == 1 + Cardinality({k \in 1..(8 * ByteBits) \div (ByteBits - 1) : v >= Pow(Group, k)})
EncodeVar(v) ==
    LET n == GroupsOf(v)
    IN  [i \in 1..n |-> ((v \div Pow(Group, i - 1)) % Group) + (IF i < n THEN Group ELSE 0)]
\* How many bytes readuint32/64 takes of bs: up to the first one without the
\* top bit, and at most one for each step of "i += 7" below the width.
VarLen(bs, width) ==
    LET last == {i \in 1..Len(bs) : bs[i] < Group}
        most == (width * ByteBits + ByteBits - 2) \div (ByteBits - 1)
        first == IF last = {} THEN most ELSE CHOOSE i \in last : \A j \in last : i <= j
    IN  IF first < most THEN first ELSE most
DecodeVar(bs, width) ==
    LET sum[i \in 0..Len(bs)] ==
            IF i = 0 THEN 0 ELSE sum[i - 1] + (bs[i] % Group) * Pow(Group, i - 1)
    IN  sum[Len(bs)] % Pow(Base, width)

\* Two's complement.
Signed(v, width) == IF v < Pow(Base, width) \div 2 THEN v ELSE v - Pow(Base, width)

\* EncodeZigzag64 returns uint32_t.
Zigzag(v) == IF v < 0 THEN -v * 2 - 1 ELSE v * 2
\* Mutant of EncodeZigzag32: the sign is lost.
ZigzagAbs(v) == (IF v < 0 THEN -v * 2 ELSE v * 2) % Pow(Base, 4)
EncodeZigzag32(v) == Zigzag(v) % Pow(Base, 4)
EncodeZigzag64(v) == Zigzag(v) % Pow(Base, 4)
DecodeZigzag(v) == IF v % 2 = 0 THEN v \div 2 ELSE -(v \div 2) - 1

-----------------------------------------------------------------------------
(* The client's calls.  An exception leaves what was consumed before it.   *)

Fixed == [fixed8 |-> 1, fixed16 |-> 2, fixed32 |-> 4, fixed64 |-> 8, float |-> 4, double |-> 8]
Length == [string16 |-> 2, string32 |-> 4, string64 |-> 8, stringVint |-> 8]
Variable == {"uint32", "uint64", "int32", "int64"}

ASSUME TypesAssumption ==
    Types \subseteq DOMAIN Fixed \union DOMAIN Length \union Variable \union {"raw"}

\* The writes a typed write makes, and the value as its type holds it.
Parts(type, v) ==
    CASE type \in DOMAIN Fixed -> <<EncodeF(v, Fixed[type])>>
      [] type \in DOMAIN Length -> <<EncodeF(Len(v), Length[type]), v>>
      [] type = "uint32" -> <<EncodeVar(v % Pow(Base, 4))>>
      [] type = "uint64" -> <<EncodeVar(v % Pow(Base, 8))>>
      [] type = "int32" -> <<EncodeVar(EncodeZigzag32(v))>>
      [] type = "int64" -> <<EncodeVar(EncodeZigzag64(v))>>
      [] OTHER -> <<v>>
AsHeld(type, v) ==
    CASE type \in DOMAIN Fixed -> v % Pow(Base, Fixed[type])
      [] type = "uint32" -> v % Pow(Base, 4)
      [] type = "uint64" -> v % Pow(Base, 8)
      [] OTHER -> v

WriteAll(b, parts) ==
    LET after[i \in 0..Len(parts)] == IF i = 0 THEN b ELSE write(after[i - 1], parts[i])
    IN  after[Len(parts)]
Joined(parts) ==
    LET to[i \in 0..Len(parts)] == IF i = 0 THEN <<>> ELSE to[i - 1] \o parts[i]
    IN  to[Len(parts)]

\* Values whose bytes are not touched by a write of [from, to).
Untouched(from, to) == {w \in written : w.at + w.len <= from \/ w.at >= to}

Live == ~ba.segv
NoAnswer ==
    /\ in' = <<>> /\ out' = <<>> /\ iov' = NoIov
    /\ result' = NoResult /\ file' = <<>>
Fits(b) == m_capacity(b) <= MaxCapacity
Write(parts, entry) ==
    LET bs == Joined(parts)
        b == WriteAll(ba, parts)
    IN  /\ Live /\ writes < MaxWrites /\ Fits(b)
        /\ ba' = IF b.segv THEN Segv(ba) ELSE b
        /\ in' = IF b.segv THEN <<>> ELSE bs
        /\ written' = IF b.segv THEN written
                      ELSE Untouched(ba.m_position, b.m_position) \union entry
        /\ writes' = writes + 1
        /\ out' = <<>> /\ iov' = NoIov /\ result' = NoResult /\ file' = <<>>
        /\ UNCHANGED <<m_baseSize, m_endian, heap>>

writeValue(type, v) ==
    Write(Parts(type, v),
          {[at |-> ba.m_position, len |-> Len(Joined(Parts(type, v))), type |-> type,
            v |-> AsHeld(type, v), m_endian |-> m_endian]})

\* readFromFile: the file in pieces of m_baseSize.
readFromFile(name) ==
    LET n == Len(name) \div m_baseSize
    IN  Write([i \in 1..(n + 1) |->
                  SubSeq(name, (i - 1) * m_baseSize + 1,
                         IF i <= n THEN i * m_baseSize ELSE Len(name))], {})

\* What a read of a type takes: readFint8 .. readStringVint.
Take(type) ==
    CASE type \in {"fixed8", "fixed16", "fixed32", "fixed64", "float"} -> read(ba, Fixed[type])
      [] type = "double" -> read(ba, 4)
      [] type \in Variable ->
            LET width == IF type \in {"uint32", "int32"} THEN 4 ELSE 8
                rest == read(ba, getReadSize(ba)).out
                n == VarLen(rest, width)
            IN  IF n <= getReadSize(ba) THEN read(ba, n)
                ELSE [read(ba, getReadSize(ba)) EXCEPT !.thrown = TRUE]
      [] type \in DOMAIN Length ->
            LET r == read(ba, Length[type])
                s == read(r.ba, DecodeF(r.out))
            IN  IF r.thrown THEN r ELSE [s EXCEPT !.out = r.out \o @]

\* readFloat and readDouble return the integer v converted, not the value
\* whose bits are v.
Converted(v) == IF v = 0 THEN 0 ELSE -1
Value(type, bs) ==
    CASE type \in {"float", "double"} -> Converted(DecodeF(bs))
      [] type \in DOMAIN Fixed -> DecodeF(bs)
      [] type = "uint32" -> DecodeVar(bs, 4)
      [] type = "uint64" -> DecodeVar(bs, 8)
      [] type = "int32" -> DecodeZigzag(DecodeVar(bs, 4))
      [] type = "int64" -> DecodeZigzag(DecodeVar(bs, 8))
      [] OTHER -> SubSeq(bs, Length[type] + 1, Len(bs))

readValue(type) ==
    LET r == Take(type)
        here == {w \in written : /\ w.at = ba.m_position /\ w.type = type
                                 /\ w.m_endian = m_endian}
    IN  /\ Live
        /\ ba' = r.ba /\ in' = <<>> /\ iov' = NoIov /\ file' = <<>>
        /\ out' = IF r.ba.segv THEN <<>> ELSE r.out
        /\ result' = IF r.thrown \/ here = {} THEN NoResult
                     ELSE [type |-> type, got |-> Value(type, r.out),
                           want |-> (CHOOSE w \in here : TRUE).v]
        /\ UNCHANGED <<m_baseSize, m_endian, heap, written, writes>>

\* A read or toString over the end of a node reads behind the node's block.
readOverruns ==
    /\ Live /\ ba.m_current # 0 /\ getReadSize(ba) > m_baseSize - (ba.m_position % m_baseSize)
    /\ ba' = Segv(ba)
    /\ NoAnswer
    /\ UNCHANGED <<m_baseSize, m_endian, heap, written, writes>>

setLittleEndian(val) ==
    /\ Live
    /\ m_endian' = IF val THEN "little" ELSE "big"
    /\ NoAnswer
    /\ UNCHANGED <<m_baseSize, heap, ba, written, writes>>

setPosition(val) ==
    /\ Live /\ val <= m_capacity(ba)
    /\ ba' = MoveTo(ba, val)
    /\ NoAnswer
    /\ UNCHANGED <<m_baseSize, m_endian, heap, written, writes>>

clear ==
    /\ Live
    /\ ba' = [ba EXCEPT !.nodes = <<@[1]>>, !.m_current = 1, !.m_position = 0, !.m_size = 0]
    /\ written' = {}
    /\ NoAnswer
    /\ UNCHANGED <<m_baseSize, m_endian, heap, writes>>

\* toString: read(buf, size, m_position), which starts at m_current too.
toString ==
    /\ Live
    /\ out' = read(ba, getReadSize(ba)).out
    /\ in' = <<>> /\ iov' = NoIov /\ result' = NoResult /\ file' = <<>>
    /\ UNCHANGED <<m_baseSize, m_endian, heap, ba, written, writes>>

-----------------------------------------------------------------------------
(* Buffers for scatter/gather I/O, and files.                              *)

\* The pieces of nodes that hold len bytes from offset npos of node c.
Pieces(c, npos, len) ==
    LET n == IF len = 0 THEN 0 ELSE (npos + len - 1) \div m_baseSize + 1
    IN  [j \in 1..n |->
            LET from == IF j = 1 THEN npos ELSE 0
                to == IF j = n THEN ((npos + len - 1) % m_baseSize) + 1 ELSE m_baseSize
            IN  <<c + j - 1, from, to - from>>]

Buffers(op, b, c, at, len, pieces) ==
    /\ ba' = IF len > 0 /\ RunsOff(b, c, at % m_baseSize, len) THEN Segv(ba) ELSE b
    /\ iov' = IF ba'.segv THEN NoIov ELSE [op |-> op, at |-> at, len |-> len, pieces |-> pieces]
    /\ in' = <<>> /\ out' = <<>> /\ result' = NoResult /\ file' = <<>>
    /\ UNCHANGED <<m_baseSize, m_endian, heap, written, writes>>

Least(x, y) == IF x < y THEN x ELSE y

\* getReadBuffers(buffers, len): only the last piece is pushed.
getReadBuffers(len) ==
    LET n == Least(len, getReadSize(ba))
        all == Pieces(ba.m_current, ba.m_position % m_baseSize, n)
    IN  /\ Live
        /\ Buffers("read", ba, ba.m_current, ba.m_position, n,
                   IF n = 0 THEN <<>> ELSE <<all[Len(all)]>>)

\* Mutant of getReadBuffersAt: the walk to the node starts at m_current.
readsFromCurrent(len, position) ==
    LET n == Least(len, getReadSize(ba))
    IN  /\ Live /\ position <= ba.m_size
        /\ Buffers("readAt", ba, ba.m_current, position, n,
                   Pieces(ba.m_current, position % m_baseSize, n))

\* getReadBuffers(buffers, len, position), which throws behind m_size.
getReadBuffersAt(len, position) ==
    LET n == Least(len, getReadSize(ba))
        c == 1 + position \div m_baseSize
    IN  /\ Live /\ position <= ba.m_size
        /\ Buffers("readAt", ba, c, position, n, Pieces(c, position % m_baseSize, n))

getWriteBuffers(len) ==
    LET b == addCapacity(ba, len)
    IN  /\ Live /\ len > 0 /\ Fits(b)
        /\ Buffers("write", b, b.m_current, b.m_position, len,
                   Pieces(b.m_current, b.m_position % m_baseSize, len))

\* writeToFile: one turn per node.  A negative length makes the stream bad,
\* and nothing more is written.
DumpTurn(d) ==
    LET diff == d.pos % m_baseSize
        len == Least(d.left, m_baseSize) - diff
    IN  IF d.left <= 0 \/ d.node = 0 THEN d
        ELSE [pos |-> d.pos + len, left |-> d.left - len,
              node |-> IF d.node = Len(ba.nodes) THEN 0 ELSE d.node + 1,
              bad |-> d.bad \/ len < 0,
              data |-> IF d.bad \/ len < 0 THEN d.data
                       ELSE d.data \o [k \in 1..len |-> ba.nodes[d.node][diff + k - 1]]]
Dump ==
    LET turn[i \in 0..Len(ba.nodes)] ==
            IF i = 0 THEN [pos |-> ba.m_position, left |-> getReadSize(ba),
                           node |-> ba.m_current, bad |-> FALSE, data |-> <<>>]
            ELSE DumpTurn(turn[i - 1])
    IN  turn[Len(ba.nodes)]

writeToFile ==
    /\ Live
    /\ ba' = IF Dump.left > 0 THEN Segv(ba) ELSE ba
    /\ file' = IF Dump.left > 0 THEN <<>> ELSE Dump.data
    /\ in' = <<>> /\ out' = <<>> /\ iov' = NoIov /\ result' = NoResult
    /\ UNCHANGED <<m_baseSize, m_endian, heap, written, writes>>

-----------------------------------------------------------------------------
Next ==
    \/ \E type \in Types \ (DOMAIN Length \union {"raw"}), v \in Numbers : writeValue(type, v)
    \/ \E type \in Types \intersect (DOMAIN Length \union {"raw"}), s \in Strings :
          writeValue(type, s)
    \/ \E name \in Strings : readFromFile(name)
    \/ \E type \in Types \ {"raw"} : readValue(type)
    \/ \E val \in BOOLEAN : setLittleEndian(val)
    \/ \E val \in 0..MaxCapacity : setPosition(val)
    \/ clear \/ toString \/ writeToFile \/ readOverruns
    \/ \E len \in Lengths :
          \/ getReadBuffers(len) \/ getWriteBuffers(len)
          \/ \E position \in 0..MaxCapacity : getReadBuffersAt(len, position)

Spec == Init /\ [][Next]_vars

-----------------------------------------------------------------------------
Content == [i \in 1..ba.m_size |->
               ba.nodes[1 + (i - 1) \div m_baseSize][(i - 1) % m_baseSize]]

\* CurrentInStep: m_current, moved by every loop on its own account, is the
\* node of m_position, and null exactly at the end of the last node; and
\* m_position <= m_size <= m_capacity, so that the unsigned differences of
\* getCapacity() and getReadSize() never wrap (bytearray.cc:320-442).
CurrentInStep ==
    /\ 0 <= ba.m_position /\ ba.m_position <= ba.m_size /\ ba.m_size <= m_capacity(ba)
    /\ ba.m_current = IF ba.m_position = m_capacity(ba) THEN 0
                      ELSE 1 + ba.m_position \div m_baseSize

\* ReadBack: the typed reads return what the typed writes of the same type put there,
\* in either byte order and wherever nodes end.  Left out: readFloat and
\* readDouble, which convert instead of copying bits, and an int64 whose
\* zigzag code needs more than the 32 bits EncodeZigzag64 returns.
ReadBack ==
    \/ result.type \in {"float", "double"}
    \/ result.type = "int64" /\ Zigzag(result.want) >= Pow(Base, 4)
    \/ result.got = result.want

\* BuffersCover: the buffers handed to readv/writev cover the bytes asked for,
\* in order and without gap, although they are cut at the ends of nodes, and a
\* file written from the start of a node holds the unread bytes.  (The overload
\* of getReadBuffers without a position returns the last piece only.)
\* (bytearray.cc:443-463, 558-620)
BuffersCover ==
    /\ file # <<>> /\ ba.m_position % m_baseSize = 0 =>
         file = SubSeq(Content, ba.m_position + 1, ba.m_size)
    /\ iov.op \in {"readAt", "write"} =>
        LET start[j \in 0..Len(iov.pieces)] ==
                IF j = 0 THEN iov.at ELSE start[j - 1] + iov.pieces[j][3]
        IN  /\ start[Len(iov.pieces)] = iov.at + iov.len
            /\ \A j \in 1..Len(iov.pieces) :
                  /\ iov.pieces[j][3] > 0
                  /\ start[j - 1] = (iov.pieces[j][1] - 1) * m_baseSize + iov.pieces[j][2]

Flat == INSTANCE FlatBuffer WITH content <- Content, position <- ba.m_position

\* IsFlatBuffer: the array behaves like one flat buffer, whatever the node
\* size: each call reads and writes what it would there (bytearray.cc:307-507).
IsFlatBuffer == Flat!Spec
=============================================================================
