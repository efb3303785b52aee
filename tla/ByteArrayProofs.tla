-------------------------- MODULE ByteArrayProofs --------------------------
(***************************************************************************)
(* Theorems about ByteArray, for nodes and bytes of any size, any strings  *)
(* and any sequence of calls: m_current stays in step with m_position, the *)
(* array implements a flat buffer, buffers and files cover the bytes they  *)
(* were asked for, and typed reads return what typed writes put there.     *)
(*                                                                         *)
(* A loop over nodes in closed form is arithmetic of quotient and          *)
(* remainder, which comes first.  What a recursive function computes is    *)
(* shown by induction on natural numbers, in the form that a set of        *)
(* naturals with 0 and every successor is all of them.                     *)
(***************************************************************************)
EXTENDS ByteArray, TLAPS, WellFoundedInduction, FiniteSetTheorems

-----------------------------------------------------------------------------
(* Natural numbers.                                                        *)

\* Induction: a set with 0 and every successor is all of Nat.
LEMMA Induction ==
    ASSUME NEW S \in SUBSET Nat, 0 \in S, \A n \in S : n + 1 \in S
    PROVE  S = Nat
<1> SUFFICES ASSUME NEW x \in Nat \ S PROVE FALSE
  OBVIOUS
<1>1. PICK y \in Nat \ S : \A z \in Nat \ S : ~(<<z, y>> \in OpToRel(<, Nat))
  BY NatLessThanWellFounded, WFMin
<1>2. y # 0 /\ y - 1 \in Nat
  OBVIOUS
<1>3. <<y - 1, y>> \in OpToRel(<, Nat)
  BY <1>2 DEF OpToRel
<1>4. y - 1 \in S
  BY <1>1, <1>2, <1>3, Zenon
<1>5. QED
  BY <1>4

\* A set of naturals that is not empty has a least member.
LEMMA LeastNatural ==
    ASSUME NEW S \in SUBSET Nat, S # {}
    PROVE  \E i \in S : \A j \in S : i <= j
<1>1. PICK i \in S : \A j \in S : ~(<<j, i>> \in OpToRel(<, Nat))
  BY NatLessThanWellFounded, WFMin
<1>2. ASSUME NEW j \in S, j < i PROVE FALSE
  <2>1. <<j, i>> \in OpToRel(<, Nat)
    BY <1>2 DEF OpToRel
  <2>2. QED
    BY <1>1, <2>1, Zenon
<1>3. QED
  BY <1>2

\* Quotient and remainder.
LEMMA DivMod ==
    ASSUME NEW m \in Nat \ {0}, NEW a \in Nat
    PROVE  /\ a \div m \in Nat /\ a % m \in Nat /\ a % m < m
           /\ a = (a \div m) * m + (a % m)
OBVIOUS

\* They are unique.
LEMMA DivModUnique ==
    ASSUME NEW m \in Nat \ {0}, NEW q \in Nat, NEW r \in Nat, r < m
    PROVE  (q * m + r) \div m = q /\ (q * m + r) % m = r
OBVIOUS

\* Byte a + k lies that many nodes behind the node of byte a, and there.
LEMMA DivModSum ==
    ASSUME NEW m \in Nat \ {0}, NEW a \in Nat, NEW k \in Nat
    PROVE  /\ (a + k) \div m = (a \div m) + (((a % m) + k) \div m)
           /\ (a + k) % m = ((a % m) + k) % m
<1> DEFINE b == (a % m) + k
           q == (a \div m) + (b \div m)
           r == b % m
<1>1. a % m \in Nat /\ a \div m \in Nat /\ a = (a \div m) * m + (a % m)
  BY DivMod
<1>2. b \in Nat
  BY <1>1
<1>3. b \div m \in Nat /\ r \in Nat /\ r < m /\ b = (b \div m) * m + r
  BY <1>2, DivMod
<1>4. q \in Nat
  BY <1>1, <1>3
<1>5. a + k = q * m + r
  <2> HIDE DEF r
  <2> DEFINE qa == a \div m
             qb == b \div m
  <2>1. qa \in Nat /\ qb \in Nat /\ r \in Nat
    BY <1>1, <1>3
  <2>2. a + k = qa * m + (qb * m + r)
    BY <1>1, <1>3
  <2> HIDE DEF qa, qb
  <2>3. q = qa + qb
    BY DEF qa, qb
  <2>4. QED
    BY <2>1, <2>2, <2>3
<1> HIDE DEF q, r
<1>6. (q * m + r) \div m = q /\ (q * m + r) % m = r
  BY <1>3, <1>4, DivModUnique
<1>7. QED
  BY <1>5, <1>6 DEF q, r

\* The bytes of whole nodes.
LEMMA Whole ==
    ASSUME NEW m \in Nat \ {0}, NEW q \in Nat, NEW k \in Nat
    PROVE  /\ (q * m) \div m = q /\ q * m \in Nat
           /\ (q + k) * m = q * m + k * m /\ (k > 0 => k * m > 0)
OBVIOUS

\* A byte lies in one of the first n nodes.
LEMMA DivLess ==
    ASSUME NEW m \in Nat \ {0}, NEW a \in Nat, NEW n \in Nat
    PROVE  a \div m < n <=> a < n * m
OBVIOUS

-----------------------------------------------------------------------------
(* Recursive functions of numbers.                                         *)

\* What Pow(b, n) is computed with.
IsPow(p, b, n) == p = [i \in 0..n |-> IF i = 0 THEN 1 ELSE b * p[i - 1]]

\* Powers of a positive number are positive, and those of 2 are even.
LEMMA PowType ==
    ASSUME NEW b \in Nat \ {0}, NEW n \in Nat
    PROVE  Pow(b, n) \in Nat \ {0} /\ (n > 0 /\ b = 2 => Pow(b, n) >= 2)
<1> DEFINE S == {k \in Nat : \E p \in [0..k -> Nat \ {0}] : IsPow(p, b, k)}
<1>1. 0 \in S
  <2>1. IsPow([i \in 0..0 |-> 1], b, 0)
    BY DEF IsPow
  <2>2. QED
    BY <2>1
<1>2. ASSUME NEW k \in S PROVE k + 1 \in S
  <2>1. PICK p \in [0..k -> Nat \ {0}] : IsPow(p, b, k)
    OBVIOUS
  <2> DEFINE q == [i \in 0..(k + 1) |-> IF i = k + 1 THEN b * p[k] ELSE p[i]]
  <2>2. q \in [0..(k + 1) -> Nat \ {0}]
    OBVIOUS
  <2>3. ASSUME NEW i \in 0..(k + 1) PROVE q[i] = IF i = 0 THEN 1 ELSE b * q[i - 1]
    BY <2>1, <2>3 DEF IsPow
  <2>4. IsPow(q, b, k + 1)
    BY <2>3 DEF IsPow
  <2> HIDE DEF q
  <2>5. \E h \in [0..(k + 1) -> Nat \ {0}] : IsPow(h, b, k + 1)
    BY <2>2, <2>4
  <2>6. k + 1 \in Nat
    OBVIOUS
  <2>7. QED
    BY <2>5, <2>6, Zenon
<1>3. S = Nat
  BY <1>1, <1>2, Induction
<1>4. PICK p \in [0..n -> Nat \ {0}] : IsPow(p, b, n)
  BY <1>3
<1> DEFINE f == CHOOSE h : h = [i \in 0..n |-> IF i = 0 THEN 1 ELSE b * h[i - 1]]
<1>5. f = [i \in 0..n |-> IF i = 0 THEN 1 ELSE b * f[i - 1]]
  BY <1>4 DEF IsPow
<1>6. Pow(b, n) = f[n]
  BY DEF Pow
<1> HIDE DEF f
<1>7. ASSUME NEW k \in Nat PROVE k <= n => f[k] \in Nat \ {0}
  <2> DEFINE T == {j \in Nat : j <= n => f[j] \in Nat \ {0}}
  <2>1. 0 \in T
    BY <1>5
  <2>2. ASSUME NEW j \in T PROVE j + 1 \in T
    BY <1>5, <2>2
  <2>3. T = Nat
    BY <2>1, <2>2, Induction
  <2>4. QED
    BY <2>3
<1>8. ASSUME n > 0, b = 2 PROVE Pow(b, n) >= 2
  <2>1. n - 1 \in Nat /\ n \in 0..n
    BY <1>8
  <2>2. f[n - 1] \in Nat \ {0}
    BY <1>7, <2>1
  <2>3. f[n] = b * f[n - 1]
    BY <1>5, <1>8, <2>1
  <2>4. QED
    BY <1>6, <1>8, <2>2, <2>3
<1>9. QED
  BY <1>6, <1>7, <1>8

-----------------------------------------------------------------------------
(* The node list.                                                          *)

Sizes == m_baseSize \in Nat \ {0} /\ heap \in Nat
Node == [0..(m_baseSize - 1) -> Nat]
Typed(b) ==
    /\ DOMAIN b = {"nodes", "m_current", "m_position", "m_size", "segv"}
    /\ b.nodes \in Seq(Node) /\ Len(b.nodes) > 0
    /\ b.m_position \in Nat /\ b.m_size \in Nat
\* CurrentInStep of any array.
InStep(b) ==
    /\ b.m_position <= b.m_size /\ b.m_size <= m_capacity(b)
    /\ b.m_current = IF b.m_position = m_capacity(b) THEN 0 ELSE 1 + b.m_position \div m_baseSize
Sound(b) == Typed(b) /\ InStep(b)

\* Content of any array.
ByteAt(b, i) == b.nodes[1 + (i - 1) \div m_baseSize][(i - 1) % m_baseSize]
ContentOf(b) == [i \in 1..b.m_size |-> ByteAt(b, i)]

\* Every byte below the capacity lies in a node.
LEMMA InNode ==
    ASSUME Sizes, NEW b, Typed(b), NEW i \in Nat, i >= 1, i <= m_capacity(b)
    PROVE  /\ 1 + (i - 1) \div m_baseSize \in 1..Len(b.nodes)
           /\ (i - 1) % m_baseSize \in 0..(m_baseSize - 1)
           /\ ByteAt(b, i) \in Nat
<1>1. i - 1 \in Nat /\ Len(b.nodes) \in Nat /\ i - 1 < Len(b.nodes) * m_baseSize
  BY DEF Sizes, Typed, m_capacity
<1>2. /\ (i - 1) \div m_baseSize \in Nat /\ (i - 1) \div m_baseSize < Len(b.nodes)
      /\ (i - 1) % m_baseSize \in Nat /\ (i - 1) % m_baseSize < m_baseSize
  BY <1>1, DivMod, DivLess DEF Sizes
<1>3. /\ 1 + (i - 1) \div m_baseSize \in 1..Len(b.nodes)
      /\ (i - 1) % m_baseSize \in 0..(m_baseSize - 1)
  BY <1>1, <1>2 DEF Sizes
<1>4. b.nodes[1 + (i - 1) \div m_baseSize] \in Node
  BY <1>3 DEF Typed
<1>5. QED
  BY <1>3, <1>4 DEF Node, ByteAt

\* The content is a sequence of bytes.
LEMMA ContentType ==
    ASSUME Sizes, NEW b, Sound(b)
    PROVE  ContentOf(b) \in Seq(Nat) /\ Len(ContentOf(b)) = b.m_size
<1>1. b.m_size \in Nat /\ \A i \in 1..b.m_size : ByteAt(b, i) \in Nat
  <2> SUFFICES ASSUME NEW i \in 1..b.m_size PROVE b.m_size \in Nat /\ ByteAt(b, i) \in Nat
    BY DEF Sound, Typed
  <2>1. b.m_size \in Nat /\ m_capacity(b) \in Nat /\ b.m_size <= m_capacity(b)
    BY DEF Sizes, Sound, Typed, InStep, m_capacity
  <2>2. QED
    BY <2>1, InNode DEF Sound
<1>2. QED
  BY <1>1 DEF ContentOf

\* c is b with more nodes.
Grown(b, c) ==
    /\ Sound(c) /\ c.m_position = b.m_position /\ c.m_size = b.m_size /\ c.segv = b.segv
    /\ Len(b.nodes) <= Len(c.nodes) /\ \A n \in 1..Len(b.nodes) : c.nodes[n] = b.nodes[n]

\* addCapacity keeps what is there, also when it appends too few nodes, and
\* moves m_current off the null pointer when it appends any.
LEMMA AddCapacity ==
    ASSUME Sizes, NEW b, Sound(b), NEW size \in Nat
    PROVE  Grown(b, addCapacity(b, size))
<1> DEFINE old_cap == getCapacity(b)
           count == NodeCount(size - old_cap, old_cap)
           more == [i \in 1..count |-> NewNode(m_baseSize)]
<1>0. Len(b.nodes) \in Nat \ {0} /\ m_capacity(b) \in Nat /\ old_cap \in Nat
  BY DEF Sizes, Sound, Typed, InStep, m_capacity, getCapacity
<1>1. CASE size <= old_cap
  BY <1>0, <1>1 DEF addCapacity, Grown, Sound
<1>2. CASE ~(size <= old_cap)
  <2> DEFINE c == addCapacity(b, size)
  <2>1. c = [b EXCEPT !.nodes = @ \o more,
                      !.m_current = IF old_cap = 0 THEN Len(b.nodes) + 1 ELSE @]
    BY <1>2 DEF addCapacity
  <2>2. count \in Nat /\ (old_cap = 0 => count > 0)
    <3> DEFINE x == size - old_cap
    <3>1. x \in Nat /\ x > 0
      BY <1>0, <1>2
    <3> HIDE DEF x, old_cap
    <3>2. x \div m_baseSize \in Nat /\ x % m_baseSize \in Nat
          /\ x = (x \div m_baseSize) * m_baseSize + (x % m_baseSize)
      BY <3>1, DivMod DEF Sizes
    <3>3. NodeCount(x, old_cap) \in Nat
      BY <3>2 DEF NodeCount
    <3>4. ASSUME old_cap = 0, NodeCount(x, old_cap) = 0 PROVE FALSE
      <4>1. x % m_baseSize = 0 /\ x \div m_baseSize = 0
        BY <3>2, <3>4 DEF NodeCount
      <4>2. QED
        BY <3>1, <3>2, <4>1 DEF Sizes
    <3>5. QED
      BY <3>3, <3>4 DEF x
  <2>3. NewNode(m_baseSize) \in Node
    BY DEF NewNode, Node, Sizes
  <2> HIDE DEF old_cap, count, c
  <2>4. more \in Seq(Node) /\ Len(more) = count
    BY <2>2, <2>3
  <2> HIDE DEF more
  <2>5. b.nodes \in Seq(Node)
    BY DEF Sound, Typed
  <2>6. /\ c.nodes = b.nodes \o more /\ c.m_position = b.m_position /\ c.m_size = b.m_size
        /\ c.segv = b.segv /\ c.m_current = IF old_cap = 0 THEN Len(b.nodes) + 1 ELSE b.m_current
        /\ DOMAIN c = {"nodes", "m_current", "m_position", "m_size", "segv"}
    BY <2>1 DEF Sound, Typed
  <2>7. /\ c.nodes \in Seq(Node) /\ Len(c.nodes) = Len(b.nodes) + count
        /\ \A n \in 1..Len(b.nodes) : c.nodes[n] = b.nodes[n]
    <3> DEFINE s == b.nodes
               N == Node
    <3>1. s \in Seq(N) /\ more \in Seq(N) /\ Len(more) = count /\ c.nodes = s \o more
      BY <2>4, <2>5, <2>6
    <3> HIDE DEF s, N
    <3>2. /\ s \o more \in Seq(N) /\ Len(s \o more) = Len(s) + count
          /\ \A n \in 1..Len(s) : (s \o more)[n] = s[n]
      BY <3>1, SMTT(40)
    <3>3. QED
      BY <3>1, <3>2 DEF s, N
  <2>8. Typed(c)
    BY <1>0, <2>2, <2>6, <2>7 DEF Typed, Sound
  <2>9. m_capacity(c) = m_capacity(b) + count * m_baseSize /\ m_capacity(c) >= m_capacity(b)
    <3>1. Len(b.nodes) * m_baseSize \in Nat /\ count * m_baseSize \in Nat
      BY <1>0, <2>2, Whole DEF Sizes
    <3>2. (Len(b.nodes) + count) * m_baseSize = Len(b.nodes) * m_baseSize + count * m_baseSize
      BY <1>0, <2>2, Whole DEF Sizes
    <3>3. QED
      BY <2>7, <3>1, <3>2 DEF m_capacity
  <2>10. InStep(c)
    <3>1. c.m_position <= c.m_size /\ c.m_size <= m_capacity(c)
      <4>1. /\ b.m_position <= b.m_size /\ b.m_size <= m_capacity(b)
            /\ b.m_size \in Nat /\ m_capacity(c) \in Int
        BY <1>0, <2>2, <2>9 DEF Sound, InStep, Typed, Sizes
      <4>2. QED
        BY <1>0, <2>6, <2>9, <4>1
    <3>2. CASE old_cap = 0
      <4>1. b.m_position = Len(b.nodes) * m_baseSize
        BY <1>0, <3>2 DEF old_cap, getCapacity, m_capacity, Sound, Typed, Sizes
      <4>2. b.m_position \div m_baseSize = Len(b.nodes)
        BY <1>0, <4>1, Whole DEF Sizes
      <4>3. c.m_position # m_capacity(c)
        <5>1. count * m_baseSize > 0 /\ count * m_baseSize \in Nat
          BY <2>2, <3>2, Whole DEF Sizes
        <5>2. m_capacity(b) = c.m_position
          BY <2>6, <4>1 DEF m_capacity
        <5>3. QED
          BY <1>0, <2>9, <5>1, <5>2
      <4>4. QED
        BY <1>0, <2>6, <3>1, <3>2, <4>2, <4>3 DEF InStep
    <3>3. CASE old_cap # 0
      <4>1. b.m_position # m_capacity(b) /\ b.m_position < m_capacity(b)
        BY <1>0, <3>3 DEF old_cap, getCapacity, Sound, Typed, InStep
      <4>2. c.m_position # m_capacity(c)
        <5>1. b.m_position \in Nat /\ m_capacity(c) \in Int
          BY <1>0, <2>2, <2>9 DEF Sound, Typed, Sizes
        <5>2. QED
          BY <1>0, <2>6, <2>9, <4>1, <5>1
      <4>3. QED
        BY <2>6, <3>1, <3>3, <4>1, <4>2 DEF InStep, Sound
    <3>4. QED
      BY <3>2, <3>3
  <2>11. QED
    BY <1>0, <2>2, <2>6, <2>7, <2>8, <2>10 DEF Grown, Sound, c
<1>3. QED
  BY <1>1, <1>2

\* What was written stays in place.
LEMMA GrownContent ==
    ASSUME Sizes, NEW b, Sound(b), NEW c, Grown(b, c)
    PROVE  /\ ContentOf(c) = ContentOf(b)
           /\ \A i \in 1..m_capacity(b) : ByteAt(c, i) = ByteAt(b, i)
<1>1. Len(b.nodes) \in Nat /\ m_capacity(b) \in Nat /\ b.m_size \in Nat /\ b.m_size <= m_capacity(b)
  BY DEF Sizes, Sound, Typed, InStep, m_capacity
<1>2. ASSUME NEW i \in 1..m_capacity(b) PROVE ByteAt(c, i) = ByteAt(b, i)
  <2>1. 1 + (i - 1) \div m_baseSize \in 1..Len(b.nodes)
    BY <1>1, InNode DEF Sound
  <2>2. QED
    BY <2>1 DEF ByteAt, Grown
<1>3. QED
  BY <1>1, <1>2 DEF ContentOf, Grown

\* The byte k behind the position, as a loop from m_current finds it.
LEMMA LoopAt ==
    ASSUME Sizes, NEW b, Sound(b), b.m_current # 0, NEW k \in Nat
    PROVE  /\ NodeAt(b.m_current, b.m_position % m_baseSize, k)
                = 1 + (b.m_position + k) \div m_baseSize
           /\ OffsetAt(b.m_position % m_baseSize, k) = (b.m_position + k) % m_baseSize
<1>1. b.m_position \in Nat /\ b.m_current = 1 + b.m_position \div m_baseSize
  BY DEF Sound, Typed, InStep
<1>2. /\ (b.m_position + k) \div m_baseSize
           = (b.m_position \div m_baseSize) + (((b.m_position % m_baseSize) + k) \div m_baseSize)
      /\ (b.m_position + k) % m_baseSize = ((b.m_position % m_baseSize) + k) % m_baseSize
  BY <1>1, DivModSum DEF Sizes
<1>3. b.m_position \div m_baseSize \in Nat /\ ((b.m_position % m_baseSize) + k) \div m_baseSize \in Nat
  BY <1>1, DivMod DEF Sizes
<1>4. QED
  BY <1>1, <1>2, <1>3 DEF NodeAt, OffsetAt

\* Where m_current is for a position at.
NodeOf(b, at) == IF at = m_capacity(b) THEN 0 ELSE 1 + at \div m_baseSize

\* A loop over size bytes follows a null pointer exactly if they do not lie
\* within the capacity, and leaves m_current in step otherwise.
LEMMA Loop ==
    ASSUME Sizes, NEW b, Sound(b), NEW size \in Nat, size > 0,
           ~RunsOff(b, b.m_current, b.m_position % m_baseSize, size)
    PROVE  /\ b.m_current # 0 /\ b.m_position + size <= m_capacity(b)
           /\ Advance(b, b.m_current, b.m_position % m_baseSize, size)
                = NodeOf(b, b.m_position + size)
<1>1. b.m_current # 0 /\ size - 1 \in Nat
  BY DEF RunsOff
<1>2. Len(b.nodes) \in Nat /\ m_capacity(b) \in Nat /\ b.m_position \in Nat
  BY Whole DEF Sizes, Sound, Typed, m_capacity
<1> DEFINE last == b.m_position + (size - 1)
           end == b.m_position + size
<1>3. last \in Nat /\ end \in Nat /\ end = last + 1
  BY <1>1, <1>2
<1>4. /\ NodeAt(b.m_current, b.m_position % m_baseSize, size - 1) = 1 + last \div m_baseSize
      /\ NodeAt(b.m_current, b.m_position % m_baseSize, size) = 1 + end \div m_baseSize
  BY <1>1, LoopAt
<1> HIDE DEF last, end
<1>5. last \div m_baseSize \in Nat /\ end \div m_baseSize \in Nat
  BY <1>3, DivMod DEF Sizes
<1>6. last \div m_baseSize < Len(b.nodes)
  <2>1. ~(1 + last \div m_baseSize > Len(b.nodes))
    BY <1>4 DEF RunsOff
  <2>2. QED
    BY <1>2, <1>5, <2>1
<1>7. last < m_capacity(b)
  BY <1>2, <1>3, <1>6, DivLess DEF Sizes, m_capacity
<1>8. end <= m_capacity(b)
  BY <1>2, <1>3, <1>7
<1>9. 1 + end \div m_baseSize > Len(b.nodes) <=> end = m_capacity(b)
  <2>1. end \div m_baseSize < Len(b.nodes) <=> end < m_capacity(b)
    BY <1>2, <1>3, DivLess DEF Sizes, m_capacity
  <2>2. QED
    BY <1>2, <1>3, <1>5, <1>8, <2>1
<1>10. Advance(b, b.m_current, b.m_position % m_baseSize, size) = NodeOf(b, end)
  BY <1>4, <1>9 DEF Advance, NodeOf
<1>11. QED
  BY <1>1, <1>8, <1>10 DEF end

\* Overwritten of FlatBuffer, for any content and position.
Over(c, p, bs) ==
    [i \in 1..(IF p + Len(bs) > Len(c) THEN p + Len(bs) ELSE Len(c)) |->
        IF i > p /\ i <= p + Len(bs) THEN bs[i - p] ELSE c[i]]

\* The copied bytes lie at the position, and the others are the same.
LEMMA StoredBytes ==
    ASSUME Sizes, NEW b, Sound(b), b.m_current # 0, NEW bs \in Seq(Nat),
           NEW i \in Nat, i >= 1, i <= m_capacity(b)
    PROVE  Stored(b, bs)[1 + (i - 1) \div m_baseSize][(i - 1) % m_baseSize]
             = IF i > b.m_position /\ i <= b.m_position + Len(bs)
               THEN bs[i - b.m_position] ELSE ByteAt(b, i)
<1> DEFINE p == b.m_position
           n == 1 + (i - 1) \div m_baseSize
           o == (i - 1) % m_baseSize
           k == Ahead(b, n, o)
<1>1. /\ n \in 1..Len(b.nodes) /\ o \in 0..(m_baseSize - 1) /\ b.nodes \in Seq(Node)
      /\ p \in Nat /\ i - 1 \in Nat /\ b.m_current = 1 + p \div m_baseSize
  BY InNode DEF Sound, Typed, InStep
<1>2. k = i - 1 - p
  <2> DEFINE q == (i - 1) \div m_baseSize
             r == p \div m_baseSize
             s == p % m_baseSize
             j == i - 1
  <2>1. /\ q \in Nat /\ r \in Nat /\ o \in Nat /\ s \in Nat
        /\ j = q * m_baseSize + o /\ p = r * m_baseSize + s
    BY <1>1, DivMod DEF Sizes
  <2>2. k = (q - r) * m_baseSize + o - s
    <3>1. n - b.m_current = q - r
      BY <1>1, <2>1
    <3>2. QED
      BY <3>1 DEF Ahead
  <2> HIDE DEF q, r, s, o, k, p
  <2>3. (q - r) * m_baseSize = q * m_baseSize - r * m_baseSize
    BY <2>1 DEF Sizes
  <2>4. q * m_baseSize \in Nat /\ r * m_baseSize \in Nat
    BY <2>1, Whole DEF Sizes
  <2> DEFINE x == q * m_baseSize
             y == r * m_baseSize
  <2>5. k = x - y + o - s /\ j = x + o /\ p = y + s /\ x \in Nat /\ y \in Nat
    BY <2>1, <2>2, <2>3, <2>4
  <2> HIDE DEF x, y
  <2>6. QED
    BY <2>1, <2>5, SMTT(40)
<1>3. Stored(b, bs)[n][o] = IF k \in 0..(Len(bs) - 1) THEN bs[k + 1] ELSE b.nodes[n][o]
  BY <1>1 DEF Stored
<1> HIDE DEF k, n, o
<1>4. Len(bs) \in Nat
  OBVIOUS
<1>5. k \in 0..(Len(bs) - 1) <=> i > p /\ i <= p + Len(bs)
  BY <1>1, <1>2, <1>4
<1>6. k + 1 = i - p
  BY <1>1, <1>2
<1>7. QED
  BY <1>3, <1>5, <1>6 DEF n, o, ByteAt

\* The nodes keep their number and size.
LEMMA StoredType ==
    ASSUME Sizes, NEW b, Sound(b), b.m_current # 0, NEW bs \in Seq(Nat)
    PROVE  Stored(b, bs) \in Seq(Node) /\ Len(Stored(b, bs)) = Len(b.nodes)
<1>1. b.nodes \in Seq(Node) /\ Len(b.nodes) \in Nat /\ DOMAIN b.nodes = 1..Len(b.nodes)
  BY DEF Sound, Typed
<1>2. ASSUME NEW n \in 1..Len(b.nodes) PROVE Stored(b, bs)[n] \in Node
  <2>1. b.nodes[n] \in Node
    BY <1>1
  <2>2. ASSUME NEW i \in 0..(m_baseSize - 1),
               NEW k \in 0..(Len(bs) - 1)
        PROVE  bs[k + 1] \in Nat
    OBVIOUS
  <2>3. QED
    BY <1>1, <2>1, <2>2 DEF Stored, Node
<1>3. Stored(b, bs) \in [1..Len(b.nodes) -> Node]
  BY <1>1, <1>2 DEF Stored
<1>4. QED
  BY <1>1, <1>3

\* Following a null pointer changes nothing else.
LEMMA SegvSame ==
    ASSUME NEW b, Sound(b)
    PROVE  /\ Sound(Segv(b)) /\ Segv(b).segv /\ ContentOf(Segv(b)) = ContentOf(b)
           /\ Segv(b).m_position = b.m_position /\ Segv(b).m_size = b.m_size
<1>1. /\ Segv(b).nodes = b.nodes /\ Segv(b).m_current = b.m_current
      /\ Segv(b).m_position = b.m_position /\ Segv(b).m_size = b.m_size
      /\ DOMAIN Segv(b) = DOMAIN b /\ Segv(b).segv = TRUE
  BY DEF Segv, Sound, Typed
<1>2. Sound(Segv(b))
  BY <1>1 DEF Sound, Typed, InStep, m_capacity
<1>3. ContentOf(Segv(b)) = ContentOf(b)
  BY <1>1 DEF ContentOf, ByteAt
<1>4. QED
  BY <1>1, <1>2, <1>3

\* b is what a write of bs leaves of b0: it is sound, and unless a null
\* pointer was followed it holds bs at the old position and is behind it.
Written(b0, bs, b) ==
    /\ Sound(b) /\ (b0.segv => b.segv)
    /\ ~b.segv => /\ b.m_position = b0.m_position + Len(bs)
                  /\ ContentOf(b) = Over(ContentOf(b0), b0.m_position, bs)

\* Writing nothing.
LEMMA WrittenNothing ==
    ASSUME Sizes, NEW b, Sound(b)
    PROVE  Written(b, <<>>, b)
<1>1. b.m_position \in Nat /\ ContentOf(b) \in Seq(Nat)
  BY ContentType DEF Sound, Typed
<1>2. Len(ContentOf(b)) = b.m_size /\ b.m_position <= b.m_size /\ b.m_size \in Nat
  BY ContentType DEF Sound, Typed, InStep
<1>3. Over(ContentOf(b), b.m_position, <<>>) = ContentOf(b)
  <2> DEFINE c == ContentOf(b)
             p == b.m_position
  <2>1. c \in Seq(Nat) /\ p \in Nat /\ p <= Len(c)
    BY <1>1, <1>2
  <2> HIDE DEF c, p
  <2>2. Over(c, p, <<>>) = [i \in 1..Len(c) |-> c[i]]
    BY <2>1 DEF Over
  <2>3. QED
    BY <2>1, <2>2 DEF c, p
<1>4. QED
  BY <1>1, <1>3 DEF Written

\* write.
LEMMA WriteOnce ==
    ASSUME Sizes, NEW b0, Sound(b0), NEW bs \in Seq(Nat)
    PROVE  Written(b0, bs, write(b0, bs))
<1> DEFINE b == addCapacity(b0, Len(bs))
           npos == b.m_position % m_baseSize
           end == b.m_position + Len(bs)
           w == [b EXCEPT !.nodes = Stored(b, bs), !.m_position = end,
                          !.m_size = IF end > @ THEN end ELSE @,
                          !.m_current = Advance(b, @, npos, Len(bs))]
<1>1. Grown(b0, b)
  BY AddCapacity
<1>2. write(b0, bs) = IF bs = <<>> \/ b.segv THEN b0
                      ELSE IF RunsOff(b, b.m_current, npos, Len(bs)) THEN Segv(b0) ELSE w
  BY DEF write
<1> HIDE DEF b
<1>3. CASE bs = <<>>
  BY <1>2, <1>3, WrittenNothing
<1>4. CASE bs # <<>> /\ b.segv
  BY <1>1, <1>2, <1>4 DEF Written, Grown
<1>5. CASE bs # <<>> /\ ~b.segv /\ RunsOff(b, b.m_current, npos, Len(bs))
  BY <1>2, <1>5, SegvSame DEF Written
<1>6. CASE bs # <<>> /\ ~b.segv /\ ~RunsOff(b, b.m_current, npos, Len(bs))
  <2>1. Len(bs) \in Nat /\ Len(bs) > 0 /\ Sound(b)
    BY <1>1, <1>6 DEF Grown
  <2>2. /\ b.m_current # 0 /\ end <= m_capacity(b)
        /\ Advance(b, b.m_current, npos, Len(bs)) = NodeOf(b, end)
    BY <1>6, <2>1, Loop
  <2>3. Stored(b, bs) \in Seq(Node) /\ Len(Stored(b, bs)) = Len(b.nodes)
    BY <2>1, <2>2, StoredType
  <2>4. /\ DOMAIN b = {"nodes", "m_current", "m_position", "m_size", "segv"}
        /\ b.m_position \in Nat /\ b.m_size \in Nat /\ b.m_position <= b.m_size
        /\ b.m_size <= m_capacity(b) /\ m_capacity(b) \in Nat /\ Len(b.nodes) \in Nat \ {0}
    BY <2>1, Whole DEF Sound, Typed, InStep, m_capacity, Sizes
  <2>5. /\ w.nodes = Stored(b, bs) /\ w.m_position = end /\ w.segv = b.segv
        /\ w.m_size = (IF end > b.m_size THEN end ELSE b.m_size)
        /\ w.m_current = NodeOf(b, end)
        /\ DOMAIN w = {"nodes", "m_current", "m_position", "m_size", "segv"}
    <3> HIDE DEF end, npos
    <3>1. QED
      BY <2>2, <2>4
  <2> HIDE DEF w
  <2>6. end \in Nat /\ m_capacity(w) = m_capacity(b)
    BY <2>1, <2>3, <2>4, <2>5 DEF m_capacity
  <2>7. Sound(w)
    <3>1. Typed(w)
      BY <2>3, <2>4, <2>5, <2>6 DEF Typed
    <3>2. InStep(w)
      <4> HIDE DEF end
      <4>1. w.m_position <= w.m_size /\ w.m_size <= m_capacity(w)
        BY <2>2, <2>4, <2>5, <2>6
      <4>2. QED
        BY <2>5, <2>6, <4>1 DEF InStep, NodeOf
    <3>3. QED
      BY <3>1, <3>2 DEF Sound
  <2>8. ContentOf(w) = Over(ContentOf(b), b.m_position, bs)
    <3> HIDE DEF end
    <3>1. ContentOf(b) \in Seq(Nat) /\ Len(ContentOf(b)) = b.m_size
      BY <2>1, ContentType
    <3>2. ASSUME NEW i \in 1..w.m_size
          PROVE  ByteAt(w, i) = IF i > b.m_position /\ i <= end THEN bs[i - b.m_position]
                                ELSE ContentOf(b)[i]
      <4>1. i \in Nat /\ i >= 1 /\ i <= m_capacity(b) /\ (i > b.m_size => i > b.m_position /\ i <= end)
        BY <2>2, <2>4, <2>5, <2>6
      <4>2. ByteAt(w, i) = IF i > b.m_position /\ i <= end THEN bs[i - b.m_position] ELSE ByteAt(b, i)
        BY <2>1, <2>2, <2>5, <4>1, StoredBytes DEF ByteAt, end
      <4>3. CASE i > b.m_size
        BY <4>1, <4>2, <4>3
      <4>4. CASE ~(i > b.m_size)
        <5>1. ContentOf(b)[i] = ByteAt(b, i)
          BY <2>4, <4>1, <4>4 DEF ContentOf
        <5>2. QED
          BY <4>2, <5>1
      <4>5. QED
        BY <4>3, <4>4
    <3>3. QED
      BY <2>5, <3>1, <3>2 DEF ContentOf, Over, end
  <2>9. ContentOf(b) = ContentOf(b0) /\ b.m_position = b0.m_position /\ (b0.segv => b.segv)
    BY <1>1, GrownContent DEF Grown
  <2>10. QED
    BY <1>2, <1>6, <2>5, <2>7, <2>8, <2>9 DEF Written
<1>7. QED
  BY <1>3, <1>4, <1>5, <1>6

-----------------------------------------------------------------------------
(* Operations made of several writes.                                      *)

\* Two writes are one write of both.
LEMMA OverTwice ==
    ASSUME NEW c \in Seq(Nat), NEW p \in Nat, p <= Len(c), NEW s \in Seq(Nat), NEW t \in Seq(Nat)
    PROVE  Over(Over(c, p, s), p + Len(s), t) = Over(c, p, s \o t)
<1> DEFINE ls == Len(s)
           lt == Len(t)
           lc == Len(c)
           d == Over(c, p, s)
           ld == IF p + ls > lc THEN p + ls ELSE lc
           u == s \o t
           le == IF p + ls + lt > ld THEN p + ls + lt ELSE ld
<1>1. ls \in Nat /\ lt \in Nat /\ lc \in Nat
  OBVIOUS
<1>2. ld \in Nat /\ le \in Nat
  BY <1>1
<1>3. d = [i \in 1..ld |-> IF i > p /\ i <= p + ls THEN s[i - p] ELSE c[i]]
  BY DEF Over
<1>4. Len(d) = ld
  BY <1>2, <1>3
<1>5. /\ Len(u) = ls + lt /\ \A i \in 1..ls : u[i] = s[i]
      /\ \A i \in 1..lt : u[ls + i] = t[i]
  OBVIOUS
<1> HIDE DEF d, u
<1>6. Over(d, p + ls, t) = [i \in 1..le |-> IF i > p + ls /\ i <= p + ls + lt THEN t[i - (p + ls)]
                                            ELSE d[i]]
  BY <1>4 DEF Over
<1>7. le = IF p + Len(u) > lc THEN p + Len(u) ELSE lc
  <2> HIDE DEF ls, lt, lc
  <2>1. Len(u) = ls + lt
    BY <1>5 DEF ls, lt
  <2>2. QED
    BY <1>1, <2>1
<1>8. Over(c, p, u) = [i \in 1..le |-> IF i > p /\ i <= p + (ls + lt) THEN u[i - p] ELSE c[i]]
  BY <1>5, <1>7 DEF Over
<1> HIDE DEF ls, lt, lc, ld, le
<1>9. ASSUME NEW i \in 1..le
      PROVE  (IF i > p + ls /\ i <= p + ls + lt THEN t[i - (p + ls)] ELSE d[i])
               = (IF i > p /\ i <= p + (ls + lt) THEN u[i - p] ELSE c[i])
  <2>1. CASE i > p + ls /\ i <= p + ls + lt
    <3>1. i - (p + ls) \in 1..lt /\ ls + (i - (p + ls)) = i - p
      BY <1>1, <1>2, <2>1
    <3>2. u[i - p] = t[i - (p + ls)]
      BY <1>5, <3>1
    <3>3. QED
      BY <1>1, <1>2, <2>1, <3>2, SMTT(40)
  <2>2. CASE ~(i > p + ls /\ i <= p + ls + lt)
    <3>1. i \in 1..ld
      BY <1>1, <1>2, <2>2 DEF le, ld
    <3>2. d[i] = IF i > p /\ i <= p + ls THEN s[i - p] ELSE c[i]
      BY <1>3, <3>1
    <3>3. CASE i > p /\ i <= p + ls
      <4>1. i - p \in 1..ls /\ i <= p + (ls + lt)
        BY <1>1, <1>2, <3>3
      <4>2. QED
        BY <1>5, <2>2, <3>2, <3>3, <4>1
    <3>4. CASE ~(i > p /\ i <= p + ls)
      <4>1. ~(i > p /\ i <= p + (ls + lt))
        BY <1>1, <1>2, <2>2, <3>4
      <4>2. QED
        BY <2>2, <3>2, <3>4, <4>1
    <3>5. QED
      BY <3>3, <3>4
  <2>3. QED
    BY <2>1, <2>2
<1>10. QED
  BY <1>6, <1>8, <1>9 DEF d, u, ls

\* A write after another.
LEMMA WrittenTwice ==
    ASSUME Sizes, NEW b, Sound(b), NEW s \in Seq(Nat), NEW t \in Seq(Nat),
           NEW b1, NEW b2, Written(b, s, b1), Written(b1, t, b2)
    PROVE  Written(b, s \o t, b2)
<1>1. Sound(b2) /\ (b.segv => b2.segv)
  BY DEF Written
<1>2. ASSUME ~b2.segv
      PROVE  /\ b2.m_position = b.m_position + Len(s \o t)
             /\ ContentOf(b2) = Over(ContentOf(b), b.m_position, s \o t)
  <2>1. /\ b1.m_position = b.m_position + Len(s) /\ b2.m_position = b1.m_position + Len(t)
        /\ ContentOf(b1) = Over(ContentOf(b), b.m_position, s)
        /\ ContentOf(b2) = Over(ContentOf(b1), b1.m_position, t)
    BY <1>2 DEF Written
  <2>2. /\ ContentOf(b) \in Seq(Nat) /\ b.m_position \in Nat
        /\ b.m_position <= Len(ContentOf(b))
    BY ContentType DEF Sound, Typed, InStep
  <2>3. Len(s) \in Nat /\ Len(t) \in Nat /\ Len(s \o t) = Len(s) + Len(t)
    OBVIOUS
  <2>4. b2.m_position = b.m_position + Len(s \o t)
    BY <2>1, <2>2, <2>3
  <2>5. ContentOf(b2) = Over(ContentOf(b), b.m_position, s \o t)
    BY <2>1, <2>2, OverTwice
  <2>6. QED
    BY <2>4, <2>5
<1>3. QED
  BY <1>1, <1>2 DEF Written

\* What WriteAll and Joined are computed with.
IsAfter(f, b, parts, n) == f = [i \in 0..n |-> IF i = 0 THEN b ELSE write(f[i - 1], parts[i])]
IsTo(f, parts, n) == f = [i \in 0..n |-> IF i = 0 THEN <<>> ELSE f[i - 1] \o parts[i]]

\* There are such functions.
LEMMA AfterExists ==
    ASSUME NEW b, NEW parts, NEW n \in Nat
    PROVE  (\E f : IsAfter(f, b, parts, n)) /\ (\E f : IsTo(f, parts, n))
<1> DEFINE S == {k \in Nat : (\E f : IsAfter(f, b, parts, k)) /\ (\E f : IsTo(f, parts, k))}
<1>1. 0 \in S
  <2>1. IsAfter([i \in 0..0 |-> b], b, parts, 0) /\ IsTo([i \in 0..0 |-> <<>>], parts, 0)
    BY DEF IsAfter, IsTo
  <2>2. QED
    BY <2>1
<1>2. ASSUME NEW k \in S PROVE k + 1 \in S
  <2>1. PICK f, g : IsAfter(f, b, parts, k) /\ IsTo(g, parts, k)
    OBVIOUS
  <2> DEFINE f1 == [i \in 0..(k + 1) |-> IF i = k + 1 THEN write(f[k], parts[k + 1]) ELSE f[i]]
             g1 == [i \in 0..(k + 1) |-> IF i = k + 1 THEN g[k] \o parts[k + 1] ELSE g[i]]
  <2>2. ASSUME NEW i \in 0..(k + 1)
        PROVE  /\ f1[i] = IF i = 0 THEN b ELSE write(f1[i - 1], parts[i])
               /\ g1[i] = IF i = 0 THEN <<>> ELSE g1[i - 1] \o parts[i]
    <3>1. CASE i = k + 1
      <4>1. f1[i] = write(f[k], parts[i]) /\ g1[i] = g[k] \o parts[i]
        BY <3>1
      <4>2. i # 0 /\ i - 1 = k /\ f1[i - 1] = f[k] /\ g1[i - 1] = g[k]
        BY <3>1
      <4>3. QED
        BY <4>1, <4>2
    <3>2. CASE i # k + 1
      <4>1. i \in 0..k /\ (i # 0 => i - 1 \in 0..k)
        BY <3>2
      <4>2. f1[i] = f[i] /\ g1[i] = g[i] /\ (i # 0 => f1[i - 1] = f[i - 1] /\ g1[i - 1] = g[i - 1])
        BY <3>2, <4>1
      <4>3. /\ f[i] = IF i = 0 THEN b ELSE write(f[i - 1], parts[i])
            /\ g[i] = IF i = 0 THEN <<>> ELSE g[i - 1] \o parts[i]
        BY <2>1, <4>1 DEF IsAfter, IsTo
      <4>4. QED
        BY <4>2, <4>3
    <3>3. QED
      BY <3>1, <3>2
  <2>3. IsAfter(f1, b, parts, k + 1) /\ IsTo(g1, parts, k + 1)
    BY <2>2 DEF IsAfter, IsTo
  <2> HIDE DEF f1, g1
  <2>4. k + 1 \in Nat
    OBVIOUS
  <2>5. QED
    BY <2>3, <2>4, Zenon
<1>3. S = Nat
  BY <1>1, <1>2, Induction
<1>4. QED
  BY <1>3

\* A typed write, or the pieces of a file, are one write of the joined bytes.
LEMMA WriteAllWritten ==
    ASSUME Sizes, NEW b, Sound(b), NEW parts, NEW n \in Nat, Len(parts) = n,
           \A i \in 1..n : parts[i] \in Seq(Nat)
    PROVE  Joined(parts) \in Seq(Nat) /\ Written(b, Joined(parts), WriteAll(b, parts))
<1> DEFINE f == CHOOSE h : h = [i \in 0..n |-> IF i = 0 THEN b ELSE write(h[i - 1], parts[i])]
           g == CHOOSE h : h = [i \in 0..n |-> IF i = 0 THEN <<>> ELSE h[i - 1] \o parts[i]]
<1>1. f = [i \in 0..n |-> IF i = 0 THEN b ELSE write(f[i - 1], parts[i])]
  <2>1. PICK h : IsAfter(h, b, parts, n)
    BY AfterExists
  <2>2. h = [i \in 0..n |-> IF i = 0 THEN b ELSE write(h[i - 1], parts[i])]
    BY <2>1 DEF IsAfter
  <2>3. QED
    BY <2>2
<1>2. g = [i \in 0..n |-> IF i = 0 THEN <<>> ELSE g[i - 1] \o parts[i]]
  BY AfterExists DEF IsTo
<1>3. WriteAll(b, parts) = f[n] /\ Joined(parts) = g[n]
  BY DEF WriteAll, Joined
<1> HIDE DEF f, g
<1> DEFINE T == {k \in Nat : k <= n => g[k] \in Seq(Nat) /\ Written(b, g[k], f[k])}
<1>4. 0 \in T
  <2>1. f[0] = b /\ g[0] = <<>>
    BY <1>1, <1>2
  <2>2. Written(b, <<>>, b)
    BY WrittenNothing
  <2>3. g[0] \in Seq(Nat) /\ Written(b, g[0], f[0])
    BY <2>1, <2>2
  <2>4. QED
    BY <2>3
<1>5. ASSUME NEW k \in T PROVE k + 1 \in T
  <2> SUFFICES ASSUME k + 1 <= n PROVE g[k + 1] \in Seq(Nat) /\ Written(b, g[k + 1], f[k + 1])
    OBVIOUS
  <2>1. k \in Nat /\ k + 1 \in 1..n /\ (k + 1) - 1 = k
    OBVIOUS
  <2>2. g[k] \in Seq(Nat) /\ Written(b, g[k], f[k])
    BY <2>1
  <2>3. f[k + 1] = write(f[k], parts[k + 1]) /\ g[k + 1] = g[k] \o parts[k + 1]
    <3>1. k + 1 \in 0..n /\ k + 1 # 0
      BY <2>1
    <3>2. f[k + 1] = write(f[(k + 1) - 1], parts[k + 1])
      BY <1>1, <3>1
    <3>3. g[k + 1] = g[(k + 1) - 1] \o parts[k + 1]
      BY <1>2, <3>1
    <3>4. QED
      BY <2>1, <3>2, <3>3
  <2>4. parts[k + 1] \in Seq(Nat) /\ Sound(f[k])
    BY <2>1, <2>2 DEF Written
  <2>5. Written(f[k], parts[k + 1], f[k + 1])
    BY <2>3, <2>4, WriteOnce
  <2>6. Written(b, g[k] \o parts[k + 1], f[k + 1])
    BY <2>2, <2>4, <2>5, WrittenTwice
  <2>7. QED
    BY <2>2, <2>3, <2>4, <2>6
<1>6. T = Nat
  BY <1>4, <1>5, Induction
<1>7. QED
  BY <1>3, <1>6

-----------------------------------------------------------------------------
(* Reading.                                                                *)

\* A part of a sequence, byte by byte.
LEMMA PartOf ==
    ASSUME NEW c \in Seq(Nat), NEW p \in Nat, NEW q \in Nat, p <= q, q <= Len(c)
    PROVE  /\ SubSeq(c, p + 1, q) = [k \in 1..(q - p) |-> c[p + k]]
           /\ SubSeq(c, p + 1, q) \in Seq(Nat) /\ Len(SubSeq(c, p + 1, q)) = q - p
OBVIOUS

\* Two parts that meet are one.
LEMMA PartsMeet ==
    ASSUME NEW c \in Seq(Nat), NEW p \in Nat, NEW q \in Nat, NEW z \in Nat,
           p <= q, q <= z, z <= Len(c)
    PROVE  SubSeq(c, p + 1, q) \o SubSeq(c, q + 1, z) = SubSeq(c, p + 1, z)
<1> DEFINE s == SubSeq(c, p + 1, q)
           t == SubSeq(c, q + 1, z)
           u == SubSeq(c, p + 1, z)
<1>1. /\ s = [k \in 1..(q - p) |-> c[p + k]] /\ s \in Seq(Nat) /\ Len(s) = q - p
      /\ t = [k \in 1..(z - q) |-> c[q + k]] /\ t \in Seq(Nat) /\ Len(t) = z - q
      /\ u = [k \in 1..(z - p) |-> c[p + k]] /\ u \in Seq(Nat) /\ Len(u) = z - p
  BY PartOf
<1> HIDE DEF s, t, u
<1>2. s \o t \in Seq(Nat) /\ Len(s \o t) = z - p
  BY <1>1
<1>3. ASSUME NEW i \in 1..(z - p) PROVE (s \o t)[i] = u[i]
  <2>1. CASE i <= q - p
    <3>1. i \in 1..Len(s) /\ i \in 1..(q - p)
      BY <1>1, <2>1
    <3>2. (s \o t)[i] = s[i]
      BY <1>1, <3>1
    <3>3. QED
      BY <1>1, <3>1, <3>2
  <2>2. CASE ~(i <= q - p)
    <3>1. i - (q - p) \in 1..(z - q) /\ q + (i - (q - p)) = p + i
      BY <2>2
    <3>2. (s \o t)[i] = t[i - (q - p)]
      BY <1>1, <2>2, <3>1
    <3>3. QED
      BY <1>1, <3>1, <3>2
  <2>3. QED
    BY <2>1, <2>2
<1>4. QED
  BY <1>1, <1>2, <1>3 DEF s, t, u

\* r is what a read leaves of b and returns: it consumed what it returns,
\* unless it followed a null pointer.
Took(b, r) ==
    /\ DOMAIN r = {"ba", "out", "thrown"}
    /\ Sound(r.ba) /\ ContentOf(r.ba) = ContentOf(b) /\ r.ba.m_size = b.m_size
    /\ b.m_position <= r.ba.m_position /\ r.ba.m_position <= b.m_size
    /\ r.out \in Seq(Nat)
    /\ ~r.ba.segv => r.out = SubSeq(ContentOf(b), b.m_position + 1, r.ba.m_position)

\* A read that takes nothing.
LEMMA TookNothing ==
    ASSUME Sizes, NEW b, Sound(b), NEW c, c = b \/ c = Segv(b), NEW thrown
    PROVE  Took(b, [ba |-> c, out |-> <<>>, thrown |-> thrown])
<1> DEFINE r == [ba |-> c, out |-> <<>>, thrown |-> thrown]
<1>1. /\ b.m_position \in Nat /\ b.m_position <= b.m_size /\ b.m_size \in Nat
      /\ ContentOf(b) \in Seq(Nat) /\ Len(ContentOf(b)) = b.m_size
  BY ContentType DEF Sound, Typed, InStep
<1>2. SubSeq(ContentOf(b), b.m_position + 1, b.m_position) = <<>>
  <2>1. /\ SubSeq(ContentOf(b), b.m_position + 1, b.m_position) \in Seq(Nat)
        /\ Len(SubSeq(ContentOf(b), b.m_position + 1, b.m_position)) = 0
    BY <1>1, PartOf
  <2>2. QED
    BY <2>1
<1>3. Sound(c) /\ ContentOf(c) = ContentOf(b) /\ c.m_position = b.m_position /\ c.m_size = b.m_size
  BY SegvSame
<1>4. DOMAIN r = {"ba", "out", "thrown"} /\ r.ba = c /\ r.out = <<>>
  OBVIOUS
<1> HIDE DEF r
<1>5. Took(b, r)
  BY <1>1, <1>2, <1>3, <1>4 DEF Took
<1>6. QED
  BY <1>5 DEF r

\* read.
LEMMA ReadTook ==
    ASSUME Sizes, NEW b, Sound(b), NEW size \in Nat
    PROVE  /\ Took(b, read(b, size))
           /\ ~read(b, size).thrown => read(b, size).ba.segv = b.segv
           /\ read(b, size).thrown => read(b, size).out = <<>>
<1> DEFINE npos == b.m_position % m_baseSize
           end == b.m_position + size
           a == [b EXCEPT !.m_position = @ + size,
                          !.m_current = IF size = 0 THEN @ ELSE Advance(b, @, npos, size)]
           o == Bytes(b, b.m_current, npos, size)
<1>1. read(b, size) = IF size > getReadSize(b) THEN [ba |-> b, out |-> <<>>, thrown |-> TRUE]
                      ELSE IF RunsOff(b, b.m_current, npos, size)
                      THEN [ba |-> Segv(b), out |-> <<>>, thrown |-> TRUE]
                      ELSE [ba |-> a, out |-> o, thrown |-> FALSE]
  BY DEF read
<1>2. /\ DOMAIN b = {"nodes", "m_current", "m_position", "m_size", "segv"}
      /\ b.m_position \in Nat /\ b.m_position <= b.m_size /\ b.m_size \in Nat
      /\ b.m_size <= m_capacity(b) /\ m_capacity(b) \in Nat
      /\ ContentOf(b) \in Seq(Nat) /\ Len(ContentOf(b)) = b.m_size
  BY ContentType, Whole DEF Sound, Typed, InStep, m_capacity, Sizes
<1>3. CASE size > getReadSize(b)
  BY <1>1, <1>3, TookNothing
<1>4. CASE ~(size > getReadSize(b)) /\ RunsOff(b, b.m_current, npos, size)
  BY <1>1, <1>4, TookNothing
<1>5. CASE ~(size > getReadSize(b)) /\ ~RunsOff(b, b.m_current, npos, size)
  <2>1. end \in Nat /\ end <= b.m_size /\ b.m_position <= end
    BY <1>2, <1>5 DEF getReadSize
  <2>2. a.m_current = NodeOf(b, end)
    <3>1. a.m_current = IF size = 0 THEN b.m_current ELSE Advance(b, b.m_current, npos, size)
      BY <1>2
    <3>2. CASE size = 0
      <4>1. end = b.m_position
        BY <1>2, <3>2
      <4>2. QED
        BY <3>1, <3>2, <4>1 DEF Sound, InStep, NodeOf
    <3>3. CASE size # 0
      BY <1>5, <3>1, <3>3, Loop
    <3>4. QED
      BY <3>2, <3>3
  <2>3. /\ a.nodes = b.nodes /\ a.m_position = end /\ a.m_size = b.m_size /\ a.segv = b.segv
        /\ DOMAIN a = {"nodes", "m_current", "m_position", "m_size", "segv"}
    BY <1>2
  <2> HIDE DEF a
  <2>4. Sound(a)
    BY <1>2, <2>1, <2>2, <2>3 DEF Sound, Typed, InStep, NodeOf, m_capacity
  <2>5. ContentOf(a) = ContentOf(b)
    BY <2>3 DEF ContentOf, ByteAt
  <2>6. o = SubSeq(ContentOf(b), b.m_position + 1, end)
    <3>1. /\ SubSeq(ContentOf(b), b.m_position + 1, end)
               = [k \in 1..(end - b.m_position) |-> ContentOf(b)[b.m_position + k]]
      <4> DEFINE c == ContentOf(b)
                 x == b.m_position
      <4>1. c \in Seq(Nat) /\ x \in Nat /\ end \in Nat /\ x <= end /\ end <= Len(c)
        BY <1>2, <2>1
      <4> HIDE DEF c, x, end
      <4>2. SubSeq(c, x + 1, end) = [k \in 1..(end - x) |-> c[x + k]]
        BY <4>1, PartOf
      <4>3. QED
        BY <4>2 DEF c, x
    <3>2. end - b.m_position = size
      BY <1>2
    <3>3. ASSUME NEW k \in 1..size
          PROVE  b.nodes[NodeAt(b.m_current, npos, k - 1)][OffsetAt(npos, k - 1)]
                   = ContentOf(b)[b.m_position + k]
      <4>1. b.m_current # 0 /\ k - 1 \in Nat
        BY <1>5, <3>3 DEF RunsOff
      <4>2. /\ NodeAt(b.m_current, npos, k - 1) = 1 + (b.m_position + (k - 1)) \div m_baseSize
            /\ OffsetAt(npos, k - 1) = (b.m_position + (k - 1)) % m_baseSize
        BY <4>1, LoopAt
      <4>3. b.m_position + (k - 1) = (b.m_position + k) - 1 /\ b.m_position + k \in 1..b.m_size
        BY <1>2, <2>1, <3>3
      <4>4. ContentOf(b)[b.m_position + k] = ByteAt(b, b.m_position + k)
        BY <4>3 DEF ContentOf
      <4>5. QED
        BY <4>2, <4>3, <4>4 DEF ByteAt
    <3>4. QED
      BY <3>1, <3>2, <3>3 DEF Bytes
  <2>7. o \in Seq(Nat)
    <3>1. SubSeq(ContentOf(b), b.m_position + 1, end) \in Seq(Nat)
      BY <1>2, <2>1, PartOf
    <3>2. QED
      BY <2>6, <3>1
  <2> HIDE DEF o
  <2> DEFINE r == [ba |-> a, out |-> o, thrown |-> FALSE]
  <2>8. DOMAIN r = {"ba", "out", "thrown"} /\ r.ba = a /\ r.out = o /\ r.thrown = FALSE
    OBVIOUS
  <2>9. read(b, size) = r
    BY <1>1, <1>5
  <2> HIDE DEF r
  <2>10. Took(b, r)
    BY <2>1, <2>3, <2>4, <2>5, <2>6, <2>7, <2>8 DEF Took
  <2>11. QED
    BY <2>3, <2>8, <2>9, <2>10
<1>6. QED
  BY <1>3, <1>4, <1>5

-----------------------------------------------------------------------------
(* The bytes of a value, and the sizes that are read.                      *)

\* A byte has more than one value.
LEMMA BaseType == Base \in Nat \ {0} /\ Base >= 2 /\ Group \in Nat \ {0}
<1>1. ByteBits \in Nat /\ ByteBits > 0
  BY ByteArrayAssumption
<1>2. Base \in Nat \ {0} /\ Base >= 2
  BY <1>1, PowType DEF Base
<1>3. QED
  BY <1>2 DEF Group

\* Turning a sequence of bytes round.
LEMMA ReverseType ==
    ASSUME NEW s \in Seq(Nat)
    PROVE  Reverse(s) \in Seq(Nat) /\ Len(Reverse(s)) = Len(s)
<1>1. Len(s) \in Nat /\ \A i \in 1..Len(s) : Len(s) + 1 - i \in 1..Len(s)
  OBVIOUS
<1>2. Reverse(s) \in [1..Len(s) -> Nat]
  BY <1>1 DEF Reverse
<1>3. QED
  BY <1>1, <1>2

\* The bytes of an integer.
LEMMA EncodeFType ==
    ASSUME NEW v \in Int, NEW width \in Nat
    PROVE  EncodeF(v, width) \in Seq(Nat)
<1> DEFINE x == v % Pow(Base, width)
           little == [i \in 1..width |-> (x \div Pow(Base, i - 1)) % Base]
<1>1. x \in Nat
  <2>1. Pow(Base, width) \in Nat \ {0}
    BY BaseType, PowType
  <2>2. QED
    BY <2>1
<1> HIDE DEF x
<1>2. ASSUME NEW i \in 1..width PROVE (x \div Pow(Base, i - 1)) % Base \in Nat
  <2>1. Pow(Base, i - 1) \in Nat \ {0}
    BY BaseType, PowType
  <2>2. x \div Pow(Base, i - 1) \in Nat
    BY <1>1, <2>1, DivMod
  <2>3. QED
    BY <2>2, BaseType, DivMod
<1>3. little \in Seq(Nat)
  <2>1. little \in [1..width -> Nat]
    BY <1>2
  <2>2. QED
    BY <2>1
<1>4. Native(x, width) = little \/ Native(x, width) = Reverse(little)
  BY DEF Native
<1> HIDE DEF little
<1>5. Native(x, width) \in Seq(Nat)
  BY <1>3, <1>4, ReverseType
<1>6. EncodeF(v, width) = Native(x, width) \/ EncodeF(v, width) = Reverse(Native(x, width))
  BY DEF EncodeF, x, byteswap
<1>7. QED
  BY <1>5, <1>6, ReverseType

\* The bytes of a variable-length integer.
LEMMA EncodeVarType ==
    ASSUME NEW v \in Nat
    PROVE  EncodeVar(v) \in Seq(Nat)
<1> DEFINE K == {k \in 1..(8 * ByteBits) \div (ByteBits - 1) : v >= Pow(Group, k)}
           n == GroupsOf(v)
<1>1. n \in Nat
  <2>1. 8 * ByteBits \in Nat /\ ByteBits - 1 \in Nat \ {0}
    BY ByteArrayAssumption
  <2>2. (8 * ByteBits) \div (ByteBits - 1) \in Nat
    BY <2>1, DivMod
  <2>3. IsFiniteSet(1..(8 * ByteBits) \div (ByteBits - 1))
    BY <2>2, FS_Interval
  <2>4. IsFiniteSet(K)
    BY <2>3, FS_Subset
  <2>5. Cardinality(K) \in Nat
    BY <2>4, FS_CardinalityType
  <2>6. QED
    BY <2>5 DEF GroupsOf
<1> HIDE DEF n
<1>2. ASSUME NEW i \in 1..n
      PROVE  ((v \div Pow(Group, i - 1)) % Group) + (IF i < n THEN Group ELSE 0) \in Nat
  <2>1. Pow(Group, i - 1) \in Nat \ {0}
    BY <1>1, BaseType, PowType
  <2>2. v \div Pow(Group, i - 1) \in Nat
    BY <2>1, DivMod
  <2>3. (v \div Pow(Group, i - 1)) % Group \in Nat
    BY <2>2, BaseType, DivMod
  <2>4. QED
    BY <2>3, BaseType
<1>3. EncodeVar(v) \in [1..n -> Nat]
  BY <1>2 DEF EncodeVar, n
<1>4. QED
  BY <1>1, <1>3

\* What OfNative is computed with.
IsSum(f, little, n) ==
    f = [i \in 0..n |-> IF i = 0 THEN 0 ELSE f[i - 1] + little[i] * Pow(Base, i - 1)]

\* What a byte counts for.
LEMMA TermType ==
    ASSUME NEW little \in Seq(Nat), NEW k \in Nat, k + 1 \in 1..Len(little)
    PROVE  little[k + 1] * Pow(Base, k) \in Nat
<1> DEFINE x == little[k + 1]
           y == Pow(Base, k)
<1>1. x \in Nat
  OBVIOUS
<1>2. y \in Nat
  BY BaseType, PowType
<1> HIDE DEF x, y
<1>3. x * y \in Nat
  BY <1>1, <1>2
<1>4. QED
  BY <1>3 DEF x, y

\* There is such a function, and it sums natural numbers.
LEMMA SumExists ==
    ASSUME NEW little \in Seq(Nat), NEW n \in Nat, n <= Len(little)
    PROVE  \E f \in [0..n -> Nat] : IsSum(f, little, n)
<1> DEFINE S == {k \in Nat : k <= n => \E f \in [0..k -> Nat] : IsSum(f, little, k)}
<1>1. 0 \in S
  <2>1. IsSum([i \in 0..0 |-> 0], little, 0)
    BY DEF IsSum
  <2>2. QED
    BY <2>1
<1>2. ASSUME NEW k \in S PROVE k + 1 \in S
  <2>0. k \in Nat /\ k + 1 \in Nat
    OBVIOUS
  <2>1. CASE k + 1 <= n
    <3>1. PICK f \in [0..k -> Nat] : IsSum(f, little, k)
      BY <2>0, <2>1
    <3> DEFINE d == f[k] + little[k + 1] * Pow(Base, k)
               g == [i \in 0..(k + 1) |-> IF i = k + 1 THEN d ELSE f[i]]
    <3>2. d \in Nat
      <4>1. f[k] \in Nat
        BY <2>0
      <4>2. k + 1 \in 1..Len(little)
        BY <2>0, <2>1
      <4>3. little[k + 1] * Pow(Base, k) \in Nat
        BY <2>0, <4>2, TermType
      <4>4. QED
        BY <4>1, <4>3
    <3>3. g \in [0..(k + 1) -> Nat]
      <4> HIDE DEF d
      <4>1. QED
        BY <2>0, <3>2
    <3>4. ASSUME NEW i \in 0..(k + 1)
          PROVE  g[i] = IF i = 0 THEN 0 ELSE g[i - 1] + little[i] * Pow(Base, i - 1)
      <4>1. CASE i = k + 1
        <5>1. g[i] = d /\ i # 0 /\ i - 1 = k /\ g[i - 1] = f[k]
          BY <2>0, <4>1
        <5>2. QED
          BY <4>1, <5>1
      <4>2. CASE i # k + 1
        <5>1. i \in 0..k /\ (i # 0 => i - 1 \in 0..k)
          BY <2>0, <4>2
        <5>2. g[i] = f[i] /\ (i # 0 => g[i - 1] = f[i - 1])
          BY <2>0, <4>2, <5>1
        <5>3. f[i] = IF i = 0 THEN 0 ELSE f[i - 1] + little[i] * Pow(Base, i - 1)
          BY <3>1, <5>1 DEF IsSum
        <5>4. QED
          BY <5>2, <5>3
      <4>3. QED
        BY <4>1, <4>2
    <3>5. IsSum(g, little, k + 1)
      BY <3>4 DEF IsSum
    <3> HIDE DEF g
    <3>6. \E h \in [0..(k + 1) -> Nat] : IsSum(h, little, k + 1)
      BY <3>3, <3>5
    <3>7. QED
      BY <2>0, <3>6, Zenon
  <2>2. CASE ~(k + 1 <= n)
    BY <2>0, <2>2
  <2>3. QED
    BY <2>1, <2>2
<1>3. S = Nat
  BY <1>1, <1>2, Induction
<1> HIDE DEF S
<1>4. n \in S
  BY <1>3
<1>5. n <= n
  OBVIOUS
<1>6. QED
  BY <1>4, <1>5, Zenon DEF S

\* The size in front of a string is a natural number.
LEMMA DecodeFType ==
    ASSUME NEW bs \in Seq(Nat)
    PROVE  DecodeF(bs) \in Nat
<1>1. ASSUME NEW s \in Seq(Nat) PROVE OfNative(s) \in Nat
  <2> DEFINE n == Len(s)
             little == IF ByteOrder = "little" THEN s ELSE Reverse(s)
             f == CHOOSE h : h = [i \in 0..n |->
                    IF i = 0 THEN 0 ELSE h[i - 1] + little[i] * Pow(Base, i - 1)]
  <2>1. OfNative(s) = f[n]
    BY DEF OfNative
  <2>2. little \in Seq(Nat) /\ Len(little) = n /\ n \in Nat
    BY ReverseType
  <2> HIDE DEF little, n
  <2>3. PICK g \in [0..n -> Nat] : IsSum(g, little, n)
    <3>1. n <= Len(little)
      BY <2>2
    <3>2. QED
      BY <2>2, <3>1, SumExists
  <2>4. g = [i \in 0..n |-> IF i = 0 THEN 0 ELSE g[i - 1] + little[i] * Pow(Base, i - 1)]
    BY <2>3 DEF IsSum
  <2>5. f = [i \in 0..n |-> IF i = 0 THEN 0 ELSE f[i - 1] + little[i] * Pow(Base, i - 1)]
    BY <2>4
  <2> HIDE DEF f
  <2> DEFINE T == {k \in Nat : k <= n => f[k] \in Nat}
  <2>6. 0 \in T
    BY <2>2, <2>5
  <2>7. ASSUME NEW k \in T PROVE k + 1 \in T
    <3>1. k \in Nat
      OBVIOUS
    <3>2. CASE k + 1 <= n
      <4>1. k + 1 \in 0..n /\ k + 1 # 0 /\ (k + 1) - 1 = k /\ f[k] \in Nat
        BY <2>2, <3>1, <3>2
      <4>2. f[k + 1] = f[(k + 1) - 1] + little[k + 1] * Pow(Base, (k + 1) - 1)
        BY <2>5, <4>1
      <4>3. little[k + 1] * Pow(Base, k) \in Nat
        <5>1. k + 1 \in 1..Len(little)
          BY <2>2, <3>1, <3>2
        <5>2. QED
          BY <2>2, <3>1, <5>1, TermType
      <4>4. f[k + 1] \in Nat
        BY <4>1, <4>2, <4>3
      <4>5. QED
        BY <3>1, <4>4
    <3>3. CASE ~(k + 1 <= n)
      BY <3>1, <3>3
    <3>4. QED
      BY <3>2, <3>3
  <2>8. T = Nat
    BY <2>6, <2>7, Induction
  <2> HIDE DEF T
  <2>9. n \in T
    BY <2>2, <2>8
  <2>10. n <= n
    BY <2>2
  <2>11. QED
    BY <2>1, <2>9, <2>10 DEF T
<1>2. QED
  BY <1>1, ReverseType DEF DecodeF, byteswap

\* readuint32 and readuint64 ask for a natural number of bytes.
LEMMA VarLenType ==
    ASSUME NEW bs \in Seq(Nat), NEW width \in Nat
    PROVE  VarLen(bs, width) \in Nat
<1> DEFINE last == {i \in 1..Len(bs) : bs[i] < Group}
           most == (width * ByteBits + ByteBits - 2) \div (ByteBits - 1)
           first == IF last = {} THEN most ELSE CHOOSE i \in last : \A j \in last : i <= j
<1>1. most \in Nat
  <2>1. width * ByteBits \in Nat /\ ByteBits - 1 \in Nat \ {0} /\ ByteBits - 2 \in Nat
    BY ByteArrayAssumption
  <2>2. width * ByteBits + ByteBits - 2 \in Nat
    BY <2>1, ByteArrayAssumption
  <2>3. QED
    BY <2>1, <2>2, DivMod
<1>2. last \in SUBSET Nat
  OBVIOUS
<1> HIDE DEF last, most
<1>3. first \in Nat
  BY <1>1, <1>2, LeastNatural
<1>4. VarLen(bs, width) = IF first < most THEN first ELSE most
  BY DEF VarLen, last, most
<1>5. QED
  BY <1>1, <1>3, <1>4

\* The client's strings are bytes.
LEMMA StringType == \A s \in Strings : s \in Seq(Nat)
<1> SUFFICES ASSUME NEW s \in Strings PROVE s \in Seq(Nat)
  OBVIOUS
<1>1. s \in Seq(0..(Base - 1))
  BY BytesAssumption
<1>2. s \in [1..Len(s) -> Nat] /\ Len(s) \in Nat
  BY <1>1, BaseType
<1>3. QED
  BY <1>2

\* The writes of a typed write.
LEMMA PartsType ==
    ASSUME NEW type \in Types, NEW v,
           \/ type \in Types \ (DOMAIN Length \union {"raw"}) /\ v \in Numbers
           \/ type \in Types \intersect (DOMAIN Length \union {"raw"}) /\ v \in Strings
    PROVE  \E n \in Nat : /\ Len(Parts(type, v)) = n
                          /\ \A i \in 1..n : Parts(type, v)[i] \in Seq(Nat)
<1>0. ASSUME NEW s \in Seq(Nat), Parts(type, v) = <<s>>
      PROVE  \E n \in Nat : /\ Len(Parts(type, v)) = n
                            /\ \A i \in 1..n : Parts(type, v)[i] \in Seq(Nat)
  <2>1. Len(<<s>>) = 1 /\ \A i \in 1..1 : <<s>>[i] \in Seq(Nat)
    OBVIOUS
  <2>2. QED
    BY <1>0, <2>1
<1>1. CASE type \in DOMAIN Length
  <2>1. v \in Seq(Nat) /\ Len(v) \in Int
    BY <1>1, StringType
  <2>2. Length[type] \in Nat /\ type \notin DOMAIN Fixed
    BY <1>1 DEF Length, Fixed
  <2>a. type \notin {"raw", "uint32", "uint64", "int32", "int64"}
    BY <1>1 DEF Length
  <2>3. Parts(type, v) = <<EncodeF(Len(v), Length[type]), v>>
    BY <1>1, <2>2, <2>a, Zenon DEF Parts
  <2>4. EncodeF(Len(v), Length[type]) \in Seq(Nat)
    <3> DEFINE l == Length[type]
               n == Len(v)
    <3>1. l \in Nat /\ n \in Int
      BY <2>1, <2>2
    <3> HIDE DEF l, n
    <3>2. EncodeF(n, l) \in Seq(Nat)
      BY <3>1, EncodeFType
    <3>3. QED
      BY <3>2 DEF l, n
  <2>5. QED
    BY <2>1, <2>3, <2>4
<1>2. CASE type = "raw"
  <2>1. v \in Seq(Nat)
    BY <1>2, StringType
  <2>2. Parts(type, v) = <<v>>
    BY <1>2 DEF Parts, Fixed, Length
  <2>3. QED
    BY <1>0, <2>1, <2>2
<1>3. CASE type \in DOMAIN Fixed
  <2>a. type \notin DOMAIN Length \union {"raw"}
    BY <1>3 DEF Fixed, Length
  <2>b. v \in Int
    BY <2>a, ByteArrayAssumption
  <2>c. Fixed[type] \in Nat
    BY <1>3 DEF Fixed
  <2>1. v \in Int /\ Fixed[type] \in Nat
    BY <2>b, <2>c
  <2>2. Parts(type, v) = <<EncodeF(v, Fixed[type])>>
    BY <1>3 DEF Parts, Fixed, Length
  <2>3. QED
    BY <1>0, <2>1, <2>2, EncodeFType
<1>4. CASE type \in Variable
  <2>1. v \in Int /\ type \notin DOMAIN Fixed \union DOMAIN Length
    BY <1>4, ByteArrayAssumption DEF Fixed, Length, Variable
  <2>2. Pow(Base, 4) \in Nat \ {0} /\ Pow(Base, 8) \in Nat \ {0}
    BY BaseType, PowType
  <2>3. Zigzag(v) \in Int
    BY <2>1 DEF Zigzag
  <2>4. /\ v % Pow(Base, 4) \in Nat /\ v % Pow(Base, 8) \in Nat
        /\ EncodeZigzag32(v) \in Nat /\ EncodeZigzag64(v) \in Nat
    BY <2>1, <2>2, <2>3 DEF EncodeZigzag32, EncodeZigzag64
  <2>5. \E x \in Nat : Parts(type, v) = <<EncodeVar(x)>>
    BY <1>4, <2>1, <2>4 DEF Parts, Variable
  <2>6. QED
    BY <1>0, <2>5, EncodeVarType
<1>5. QED
  BY <1>1, <1>2, <1>3, <1>4, TypesAssumption

\* The typed reads.
LEMMA TakeTook ==
    ASSUME Sizes, Sound(ba), ~ba.segv, NEW type \in Types \ {"raw"}
    PROVE  Took(ba, Take(type))
<1>0. getReadSize(ba) \in Nat
  BY DEF getReadSize, Sound, Typed, InStep
<1>1. CASE type \in DOMAIN Fixed
  <2>1. type \in {"fixed8", "fixed16", "fixed32", "fixed64", "float", "double"}
    BY <1>1 DEF Fixed
  <2>2. CASE type = "double"
    <3>0. /\ type \notin {"fixed8", "fixed16", "fixed32", "fixed64", "float"}
          /\ type \notin Variable /\ type \notin DOMAIN Length
      BY <2>2 DEF Variable, Length
    <3>1. Take(type) = read(ba, 4)
      BY <2>2, <3>0, Zenon DEF Take
    <3>2. QED
      BY <3>1, ReadTook
  <2>3. CASE type # "double"
    <3>1. type \in {"fixed8", "fixed16", "fixed32", "fixed64", "float"}
      BY <2>1, <2>3
    <3>2. Fixed[type] \in Nat
      BY <3>1 DEF Fixed
    <3>a. type \notin Variable /\ type \notin DOMAIN Length
      BY <3>1 DEF Variable, Length
    <3>3. Take(type) = read(ba, Fixed[type])
      BY <3>1, <3>a, <2>3, Zenon DEF Take
    <3>4. QED
      BY <3>2, <3>3, ReadTook
  <2>4. QED
    BY <2>2, <2>3
<1>2. CASE type \in Variable
  <2> DEFINE width == IF type \in {"uint32", "int32"} THEN 4 ELSE 8
             all == read(ba, getReadSize(ba))
             n == VarLen(all.out, width)
  <2>1. Took(ba, all)
    BY <1>0, ReadTook
  <2>2. n \in Nat
    BY <2>1, VarLenType DEF Took
  <2>3. Take(type) = IF n <= getReadSize(ba) THEN read(ba, n) ELSE [all EXCEPT !.thrown = TRUE]
    <3>1. /\ type \notin {"fixed8", "fixed16", "fixed32", "fixed64", "float"}
          /\ type # "double" /\ type \notin DOMAIN Length
      BY <1>2 DEF Variable, Length
    <3>2. QED
      BY <1>2, <3>1, Zenon DEF Take
  <2> HIDE DEF n, all
  <2>4. Took(ba, [all EXCEPT !.thrown = TRUE])
    BY <2>1 DEF Took
  <2>5. QED
    BY <2>2, <2>3, <2>4, ReadTook
<1>3. CASE type \in DOMAIN Length
  <2> DEFINE r == read(ba, Length[type])
             s == read(r.ba, DecodeF(r.out))
             t == [s EXCEPT !.out = r.out \o @]
  <2>1. Take(type) = IF r.thrown THEN r ELSE t
    BY <1>3 DEF Take, Length, Variable
  <2>2. Length[type] \in Nat
    BY <1>3 DEF Length
  <2>3. Took(ba, r) /\ (~r.thrown => r.ba.segv = ba.segv)
    BY <2>2, ReadTook
  <2>4. Sound(r.ba) /\ r.out \in Seq(Nat) /\ DecodeF(r.out) \in Nat
    BY <2>3, DecodeFType DEF Took
  <2>5. Took(r.ba, s)
    BY <2>4, ReadTook
  <2> HIDE DEF r, s
  <2>6. /\ DOMAIN t = {"ba", "out", "thrown"} /\ t.ba = s.ba /\ t.out = r.out \o s.out
    BY <2>5 DEF Took
  <2> HIDE DEF t
  <2>7. ASSUME ~r.thrown PROVE Took(ba, t)
    <3>1. /\ ContentOf(s.ba) = ContentOf(ba) /\ s.ba.m_size = ba.m_size /\ Sound(s.ba)
          /\ ContentOf(r.ba) = ContentOf(ba)
          /\ s.out \in Seq(Nat) /\ ba.m_position <= r.ba.m_position
          /\ r.ba.m_position <= s.ba.m_position /\ s.ba.m_position <= ba.m_size
      BY <2>3, <2>5 DEF Took
    <3>2. /\ ba.m_position \in Nat /\ r.ba.m_position \in Nat /\ s.ba.m_position \in Nat
          /\ ContentOf(ba) \in Seq(Nat) /\ Len(ContentOf(ba)) = ba.m_size
      BY <2>4, <3>1, ContentType DEF Sound, Typed
    <3>3. ba.m_position <= s.ba.m_position
      BY <3>1, <3>2
    <3>4. ASSUME ~s.ba.segv
          PROVE  t.out = SubSeq(ContentOf(ba), ba.m_position + 1, s.ba.m_position)
      <4>1. s.out = SubSeq(ContentOf(ba), r.ba.m_position + 1, s.ba.m_position)
        BY <2>5, <3>1, <3>4 DEF Took
      <4>2. r.out = SubSeq(ContentOf(ba), ba.m_position + 1, r.ba.m_position)
        BY <2>3, <2>7 DEF Took
      <4>3. SubSeq(ContentOf(ba), ba.m_position + 1, r.ba.m_position)
              \o SubSeq(ContentOf(ba), r.ba.m_position + 1, s.ba.m_position)
              = SubSeq(ContentOf(ba), ba.m_position + 1, s.ba.m_position)
        BY <3>1, <3>2, PartsMeet, ZenonT(60)
      <4>4. QED
        BY <2>6, <4>1, <4>2, <4>3
    <3>5. t.out \in Seq(Nat)
      BY <2>4, <2>6, <3>1
    <3>6. QED
      BY <2>6, <3>1, <3>3, <3>4, <3>5 DEF Took
  <2>8. QED
    BY <2>1, <2>3, <2>7
<1>4. QED
  BY <1>1, <1>2, <1>3, TypesAssumption

-----------------------------------------------------------------------------
(* The steps.  Each keeps the array sound and is a step of the flat buffer.*)

ArrayInv == Sizes /\ Sound(ba)

\* What a step has to show.
Keeps == Sound(ba') /\ m_baseSize' = m_baseSize /\ heap' = heap

\* The contents are those of the record.
LEMMA Abstract ==
    ASSUME Keeps
    PROVE  /\ Content = ContentOf(ba) /\ Content' = ContentOf(ba')
           /\ Sizes => Sizes' /\ Sound(ba)'
<1>1. m_baseSize' = m_baseSize /\ heap' = heap
  BY DEF Keeps
<1>2. Content = ContentOf(ba)
  BY DEF Content, ContentOf, ByteAt
<1>3. Content' = ContentOf(ba')
  BY <1>1 DEF Content, ContentOf, ByteAt
<1>4. Sizes => Sizes'
  BY <1>1 DEF Sizes
<1>5. Sound(ba)'
  BY <1>1 DEF Keeps, Sound, Typed, InStep, m_capacity, Node
<1>6. QED
  BY <1>2, <1>3, <1>4, <1>5

\* A step that writes in'.
LEMMA FlatWrite ==
    ASSUME ArrayInv, Keeps, out' = <<>>,
           ba'.m_position = ba.m_position + Len(in'),
           ContentOf(ba') = Over(ContentOf(ba), ba.m_position, in')
    PROVE  Flat!Next
<1>1. Content' = Over(Content, ba.m_position, in')
  BY Abstract DEF ArrayInv
<1>2. Over(Content, ba.m_position, in') = Flat!Overwritten(in')
  BY DEF Over, Flat!Overwritten
<1>3. QED
  BY <1>1, <1>2 DEF Flat!Next, Flat!Write

\* A step that reads and moves on.
LEMMA FlatRead ==
    ASSUME ArrayInv, Keeps, in' = <<>>, ContentOf(ba') = ContentOf(ba),
           ba.m_position <= ba'.m_position, ba'.m_position <= ba.m_size,
           \/ out' = <<>>
           \/ out' = SubSeq(ContentOf(ba), ba.m_position + 1, ba'.m_position)
    PROVE  Flat!Next
<1>1. Content' = Content /\ Content = ContentOf(ba)
  BY Abstract DEF ArrayInv
<1>2. Len(Content) = ba.m_size /\ ba.m_size \in Nat /\ ba.m_position \in Nat /\ ba'.m_position \in Nat
  BY <1>1, ContentType DEF ArrayInv, Keeps, Sound, Typed
<1>3. /\ ba'.m_position \in ba.m_position..Len(Content)
      /\ ba'.m_position \in 0..Len(Content)
  BY <1>2
<1>4. CASE out' = <<>>
  BY <1>1, <1>3, <1>4 DEF Flat!Next, Flat!Seek
<1>5. CASE out' = SubSeq(ContentOf(ba), ba.m_position + 1, ba'.m_position)
  BY <1>1, <1>3, <1>5 DEF Flat!Next, Flat!Read
<1>6. QED
  BY <1>4, <1>5

\* A step that leaves contents and position alone and returns no bytes.
LEMMA FlatSame ==
    ASSUME ArrayInv, Keeps, in' = <<>>, out' = <<>>,
           ContentOf(ba') = ContentOf(ba), ba'.m_position = ba.m_position
    PROVE  Flat!Next
<1>1. ba.m_position \in Nat /\ ba.m_size \in Nat /\ ba.m_position <= ba.m_size
  BY DEF ArrayInv, Sound, Typed, InStep
<1>2. ba.m_position <= ba'.m_position /\ ba'.m_position <= ba.m_size
  BY <1>1
<1>3. QED
  BY <1>2, FlatRead

\* A process that ended, and an array that did not change.
LEMMA FlatSegv ==
    ASSUME ArrayInv, ba' = ba \/ ba' = Segv(ba), m_baseSize' = m_baseSize, heap' = heap,
           in' = <<>>, out' = <<>>
    PROVE  Keeps /\ Flat!Next
<1>1. /\ Sound(ba') /\ ContentOf(ba') = ContentOf(ba)
      /\ ba'.m_position = ba.m_position
  BY SegvSame DEF ArrayInv
<1>2. Keeps
  BY <1>1 DEF Keeps
<1>3. QED
  BY <1>1, <1>2, FlatSame

\* write(): one or several of them, of bytes.
LEMMA WriteStep ==
    ASSUME ArrayInv, NEW parts, NEW entry, Write(parts, entry),
           NEW n \in Nat, Len(parts) = n, \A i \in 1..n : parts[i] \in Seq(Nat)
    PROVE  Keeps /\ Flat!Next
<1> DEFINE bs == Joined(parts)
           b == WriteAll(ba, parts)
<1>1. bs \in Seq(Nat) /\ Written(ba, bs, b)
  BY WriteAllWritten DEF ArrayInv
<1>2. /\ ba' = IF b.segv THEN Segv(ba) ELSE b
      /\ in' = IF b.segv THEN <<>> ELSE bs
      /\ out' = <<>> /\ m_baseSize' = m_baseSize /\ heap' = heap
  BY DEF Write
<1> HIDE DEF b, bs
<1>3. CASE b.segv
  BY <1>2, <1>3, FlatSegv
<1>4. CASE ~b.segv
  <2>1. ba' = b /\ in' = bs
    BY <1>2, <1>4
  <2>2. Keeps
    BY <1>1, <1>2, <2>1 DEF Keeps, Written
  <2>3. /\ ba'.m_position = ba.m_position + Len(in')
        /\ ContentOf(ba') = Over(ContentOf(ba), ba.m_position, in')
    BY <1>1, <1>4, <2>1 DEF Written
  <2>4. QED
    BY <1>2, <2>2, <2>3, FlatWrite
<1>5. QED
  BY <1>3, <1>4

\* The typed writes.
LEMMA WriteValueStep ==
    ASSUME ArrayInv, NEW type \in Types, NEW v, writeValue(type, v),
           \/ type \in Types \ (DOMAIN Length \union {"raw"}) /\ v \in Numbers
           \/ type \in Types \intersect (DOMAIN Length \union {"raw"}) /\ v \in Strings
    PROVE  Keeps /\ Flat!Next
<1>1. PICK n \in Nat : /\ Len(Parts(type, v)) = n
                       /\ \A i \in 1..n : Parts(type, v)[i] \in Seq(Nat)
  BY PartsType
<1>2. PICK entry : Write(Parts(type, v), entry)
  BY DEF writeValue
<1>3. QED
  BY <1>1, <1>2, WriteStep

\* readFromFile: its pieces are bytes of the file.
LEMMA FilePieces ==
    ASSUME ArrayInv, NEW name \in Strings, readFromFile(name)
    PROVE  \E parts, n : /\ Write(parts, {}) /\ n \in Nat /\ Len(parts) = n
                         /\ \A i \in 1..n : parts[i] \in Seq(Nat)
<1> DEFINE n == Len(name) \div m_baseSize
           piece(i) == SubSeq(name, (i - 1) * m_baseSize + 1,
                              IF i <= n THEN i * m_baseSize ELSE Len(name))
           parts == [i \in 1..(n + 1) |-> piece(i)]
<1>1. name \in Seq(Nat) /\ m_baseSize \in Nat \ {0} /\ Len(name) \in Nat
  BY StringType DEF ArrayInv, Sizes
<1>2. n \in Nat /\ n * m_baseSize <= Len(name)
  <2> DEFINE l == Len(name)
  <2>1. l \in Nat
    BY <1>1
  <2> HIDE DEF l
  <2>2. /\ l \div m_baseSize \in Nat /\ l % m_baseSize \in Nat
        /\ l = (l \div m_baseSize) * m_baseSize + (l % m_baseSize)
    BY <1>1, <2>1, DivMod
  <2> DEFINE k == l \div m_baseSize
             r == l % m_baseSize
             w == k * m_baseSize
  <2>3. k \in Nat /\ r \in Nat /\ l = w + r
    BY <2>2
  <2> HIDE DEF k, r
  <2>4. w \in Nat
    BY <1>1, <2>3
  <2> HIDE DEF w
  <2>5. w <= l
    BY <2>1, <2>3, <2>4
  <2>6. QED
    BY <2>3, <2>5 DEF k, w, l
<1>3. ASSUME NEW i \in 1..(n + 1) PROVE piece(i) \in Seq(Nat)
  <2> HIDE DEF n
  <2>1. i \in Nat /\ i - 1 \in Nat /\ i <= n + 1
    BY <1>2
  <2> DEFINE p == (i - 1) * m_baseSize
             q == IF i <= n THEN i * m_baseSize ELSE Len(name)
  <2>2. p \in Nat /\ i * m_baseSize = p + m_baseSize /\ i * m_baseSize \in Nat
    BY <1>1, <2>1
  <2>3. CASE i <= n
    <3>1. i * m_baseSize <= n * m_baseSize
      BY <1>1, <1>2, <2>1, <2>3
    <3>2. q = i * m_baseSize /\ n * m_baseSize \in Nat
      BY <2>3, <1>1, <1>2
    <3>3. q \in Nat /\ p <= q /\ q <= Len(name)
      BY <1>1, <1>2, <2>2, <3>1, <3>2
    <3> HIDE DEF p, q
    <3>4. SubSeq(name, p + 1, q) \in Seq(Nat)
      BY <1>1, <2>2, <3>3, PartOf
    <3>5. QED
      BY <3>4 DEF p, q
  <2>4. CASE ~(i <= n)
    <3>1. i = n + 1 /\ q = Len(name)
      BY <1>2, <2>1, <2>4
    <3>2. p = n * m_baseSize
      BY <1>2, <3>1
    <3>3. q \in Nat /\ p <= q /\ q <= Len(name)
      BY <1>1, <1>2, <2>2, <3>1, <3>2
    <3> HIDE DEF p, q
    <3>4. SubSeq(name, p + 1, q) \in Seq(Nat)
      BY <1>1, <2>2, <3>3, PartOf
    <3>5. QED
      BY <3>4 DEF p, q
  <2>5. QED
    BY <2>3, <2>4
<1>4. Write(parts, {})
  BY DEF readFromFile
<1> HIDE DEF n, piece
<1>5. Len(parts) = n + 1 /\ n + 1 \in Nat
  BY <1>2
<1>6. \A i \in 1..(n + 1) : parts[i] \in Seq(Nat)
  BY <1>3
<1> HIDE DEF parts
<1>7. QED
  BY <1>4, <1>5, <1>6

\* readFromFile.
LEMMA ReadFromFileStep ==
    ASSUME ArrayInv, NEW name \in Strings, readFromFile(name)
    PROVE  Keeps /\ Flat!Next
<1>1. PICK parts, n : /\ Write(parts, {}) /\ n \in Nat /\ Len(parts) = n
                      /\ \A i \in 1..n : parts[i] \in Seq(Nat)
  BY FilePieces
<1>2. QED
  BY <1>1, WriteStep

\* The typed reads.
LEMMA ReadValueStep ==
    ASSUME ArrayInv, NEW type \in Types \ {"raw"}, readValue(type)
    PROVE  Keeps /\ Flat!Next
<1> DEFINE r == Take(type)
<1>1. Took(ba, r)
  BY TakeTook DEF readValue, Live, ArrayInv
<1>2. /\ ba' = r.ba /\ in' = <<>> /\ out' = (IF r.ba.segv THEN <<>> ELSE r.out)
      /\ m_baseSize' = m_baseSize /\ heap' = heap
  BY DEF readValue
<1> HIDE DEF r
<1>3. Keeps
  BY <1>1, <1>2 DEF Keeps, Took
<1>4. /\ ContentOf(ba') = ContentOf(ba)
      /\ ba.m_position <= ba'.m_position /\ ba'.m_position <= ba.m_size
  BY <1>1, <1>2 DEF Took
<1>5. \/ out' = <<>>
      \/ out' = SubSeq(ContentOf(ba), ba.m_position + 1, ba'.m_position)
  BY <1>1, <1>2 DEF Took
<1>6. QED
  BY <1>2, <1>3, <1>4, <1>5, FlatRead

\* toString.
LEMMA ToStringStep ==
    ASSUME ArrayInv, toString
    PROVE  Keeps /\ Flat!Next
<1> DEFINE r == read(ba, getReadSize(ba))
           p == ba.m_position
           q == r.ba.m_position
<1>1. /\ ba' = ba /\ in' = <<>> /\ out' = r.out /\ ~ba.segv
      /\ m_baseSize' = m_baseSize /\ heap' = heap
  BY DEF toString, Live
<1>2. Keeps
  BY <1>1 DEF Keeps, ArrayInv
<1>3. getReadSize(ba) \in Nat
  BY DEF getReadSize, ArrayInv, Sound, Typed, InStep
<1>4. /\ Took(ba, r) /\ (~r.thrown => r.ba.segv = ba.segv) /\ (r.thrown => r.out = <<>>)
  BY <1>3, ReadTook DEF ArrayInv
<1> HIDE DEF r
<1>5. CASE r.thrown
  BY <1>1, <1>2, <1>4, <1>5, FlatSame
<1>6. CASE ~r.thrown
  <2>1. out' = SubSeq(ContentOf(ba), p + 1, q)
    BY <1>1, <1>4, <1>6 DEF Took
  <2>2. p <= q /\ q <= Len(ContentOf(ba)) /\ p \in Nat /\ q \in Nat /\ ContentOf(ba) \in Seq(Nat)
    BY <1>4, ContentType DEF Took, Sound, Typed, ArrayInv
  <2> HIDE DEF q
  <2>3. Len(out') = q - p
    BY <2>1, <2>2, PartOf
  <2>4. q = p + Len(out')
    BY <2>2, <2>3
  <2>5. Content' = Content /\ Content = ContentOf(ba)
    BY <1>1, <1>2, Abstract
  <2>6. out' = SubSeq(Content, ba.m_position + 1, ba.m_position + Len(out'))
    BY <2>1, <2>4, <2>5
  <2>7. QED
    BY <1>1, <1>2, <2>5, <2>6 DEF Flat!Next, Flat!Peek
<1>7. QED
  BY <1>5, <1>6

\* setLittleEndian.
LEMMA SetLittleEndianStep ==
    ASSUME ArrayInv, NEW val, setLittleEndian(val)
    PROVE  Keeps /\ Flat!Next
BY FlatSegv DEF setLittleEndian, NoAnswer

\* writeToFile.
LEMMA WriteToFileStep ==
    ASSUME ArrayInv, writeToFile
    PROVE  Keeps /\ Flat!Next
<1>1. /\ ba' = ba \/ ba' = Segv(ba)
      /\ in' = <<>> /\ out' = <<>> /\ m_baseSize' = m_baseSize /\ heap' = heap
  BY DEF writeToFile
<1>2. QED
  BY <1>1, FlatSegv

\* A read behind a node's block that ends the process.
LEMMA ReadOverrunsStep ==
    ASSUME ArrayInv, readOverruns
    PROVE  Keeps /\ Flat!Next
BY FlatSegv DEF readOverruns, NoAnswer

\* The calls that return buffers, from the array or from a longer one.
LEMMA BuffersStep ==
    ASSUME ArrayInv, NEW b, Grown(ba, b), NEW op, NEW c, NEW at, NEW len, NEW pieces,
           Buffers(op, b, c, at, len, pieces)
    PROVE  Keeps /\ Flat!Next
<1>1. /\ ba' = b \/ ba' = Segv(ba)
      /\ in' = <<>> /\ out' = <<>> /\ m_baseSize' = m_baseSize /\ heap' = heap
  BY DEF Buffers
<1>2. CASE ba' = Segv(ba)
  BY <1>1, <1>2, FlatSegv
<1>3. CASE ba' = b
  <2>1. ContentOf(ba') = ContentOf(ba)
    BY <1>3, GrownContent DEF ArrayInv
  <2>2. Sound(ba') /\ ba'.m_position = ba.m_position
    BY <1>3 DEF Grown
  <2>3. Keeps
    BY <1>1, <2>2 DEF Keeps
  <2>4. QED
    BY <1>1, <2>1, <2>2, <2>3, FlatSame
<1>4. QED
  BY <1>1, <1>2, <1>3

\* The array is as long as itself.
LEMMA GrownSame ==
    ASSUME ArrayInv
    PROVE  Grown(ba, ba)
<1>1. Len(ba.nodes) \in Nat
  BY DEF ArrayInv, Sound, Typed
<1>2. QED
  BY <1>1 DEF Grown, ArrayInv

\* getReadBuffers and getWriteBuffers.
LEMMA GetBuffersStep ==
    ASSUME ArrayInv, NEW len \in Lengths, NEW position,
           getReadBuffers(len) \/ getReadBuffersAt(len, position) \/ getWriteBuffers(len)
    PROVE  Keeps /\ Flat!Next
<1>1. CASE getReadBuffers(len)
  BY <1>1, GrownSame, BuffersStep DEF getReadBuffers
<1>2. CASE getReadBuffersAt(len, position)
  BY <1>2, GrownSame, BuffersStep DEF getReadBuffersAt
<1>3. CASE getWriteBuffers(len)
  <2>1. len \in Nat
    BY ByteArrayAssumption
  <2>2. Grown(ba, addCapacity(ba, len))
    BY <2>1, AddCapacity DEF ArrayInv
  <2>3. QED
    BY <1>3, <2>2, BuffersStep DEF getWriteBuffers
<1>4. QED
  BY <1>1, <1>2, <1>3

\* setPosition.
LEMMA SetPositionStep ==
    ASSUME ArrayInv, NEW val \in Nat, setPosition(val)
    PROVE  Keeps /\ Flat!Next
<1>1. /\ ba' = MoveTo(ba, val) /\ val <= m_capacity(ba)
      /\ in' = <<>> /\ out' = <<>> /\ m_baseSize' = m_baseSize /\ heap' = heap
  BY DEF setPosition, NoAnswer
<1>2. CASE val = m_capacity(ba)
  <2>1. ba' = Segv(ba)
    BY <1>1, <1>2 DEF MoveTo
  <2>2. QED
    BY <1>1, <2>1, FlatSegv
<1>3. CASE val # m_capacity(ba)
  <2>0. /\ DOMAIN ba = {"nodes", "m_current", "m_position", "m_size", "segv"}
        /\ ba.nodes \in Seq(Node) /\ Len(ba.nodes) > 0
        /\ ba.m_position \in Nat /\ ba.m_size \in Nat
        /\ ba.m_position <= ba.m_size /\ ba.m_size <= m_capacity(ba)
    BY DEF ArrayInv, Sound, Typed, InStep
  <2>1. ba' = [ba EXCEPT !.m_position = val, !.m_size = IF val > @ THEN val ELSE @,
                         !.m_current = 1 + val \div m_baseSize]
    BY <1>1, <1>3 DEF MoveTo
  <2>2. /\ DOMAIN ba' = {"nodes", "m_current", "m_position", "m_size", "segv"}
        /\ ba'.nodes = ba.nodes /\ ba'.m_position = val
        /\ ba'.m_size = (IF val > ba.m_size THEN val ELSE ba.m_size)
        /\ ba'.m_current = 1 + val \div m_baseSize
    BY <2>0, <2>1
  <2>3. Typed(ba')
    BY <2>0, <2>2 DEF Typed
  <2>4. m_capacity(ba') = m_capacity(ba) /\ m_capacity(ba) \in Nat
    BY <2>0, <2>2 DEF m_capacity, ArrayInv, Sizes
  <2>5. InStep(ba')
    BY <1>1, <1>3, <2>0, <2>2, <2>4 DEF InStep
  <2>6. Keeps
    BY <1>1, <2>3, <2>5 DEF Keeps, Sound
  <2>7. \A i \in 1..ba.m_size : ByteAt(ba', i) = ByteAt(ba, i)
    BY <2>2 DEF ByteAt
  <2>8. Content = ContentOf(ba) /\ Content' = ContentOf(ba')
    BY <2>6, Abstract
  <2>9. /\ ContentOf(ba) \in Seq(Nat) /\ Len(ContentOf(ba)) = ba.m_size
        /\ ContentOf(ba') \in Seq(Nat) /\ Len(ContentOf(ba')) = ba'.m_size
    BY <2>3, <2>5, ContentType DEF ArrayInv, Sound
  <2>10. CASE val <= ba.m_size
    <3>1. ba'.m_size = ba.m_size
      BY <2>0, <2>2, <2>10
    <3>2. ContentOf(ba') = ContentOf(ba)
      BY <2>7, <3>1 DEF ContentOf
    <3>3. ba'.m_position \in 0..Len(Content)
      BY <2>2, <2>8, <2>9, <2>10, <2>0
    <3>4. QED
      BY <1>1, <2>6, <2>8, <3>2, <3>3 DEF Flat!Next, Flat!Seek
  <2>11. CASE ~(val <= ba.m_size)
    <3>1. ba'.m_size = val /\ ba'.m_position > Len(Content) /\ Len(Content') = ba'.m_position
      BY <2>0, <2>2, <2>8, <2>9, <2>11
    <3>2. SubSeq(Content', 1, Len(Content)) = Content
      <4> DEFINE c == ContentOf(ba)
                 d == ContentOf(ba')
      <4>1. c \in Seq(Nat) /\ d \in Seq(Nat) /\ Len(c) <= Len(d)
        BY <2>0, <2>9, <2>11, <3>1
      <4>2. \A i \in 1..Len(c) : d[i] = c[i]
        BY <2>0, <2>7, <2>9, <2>11, <3>1 DEF ContentOf
      <4> HIDE DEF c, d
      <4>3. SubSeq(d, 0 + 1, Len(c)) = [k \in 1..(Len(c) - 0) |-> d[0 + k]]
        BY <4>1, PartOf
      <4>4. SubSeq(d, 1, Len(c)) = [k \in 1..Len(c) |-> d[k]]
        BY <4>1, <4>3
      <4>5. c = [k \in 1..Len(c) |-> c[k]]
        BY <4>1
      <4>6. QED
        BY <2>8, <4>2, <4>4, <4>5 DEF c, d
    <3>3. QED
      BY <1>1, <2>6, <3>1, <3>2 DEF Flat!Next, Flat!Seek
  <2>12. QED
    BY <2>10, <2>11
<1>4. QED
  BY <1>2, <1>3

\* clear.
LEMMA ClearStep ==
    ASSUME ArrayInv, clear
    PROVE  Keeps /\ Flat!Next
<1>0. /\ DOMAIN ba = {"nodes", "m_current", "m_position", "m_size", "segv"}
      /\ ba.nodes \in Seq(Node) /\ Len(ba.nodes) > 0 /\ m_baseSize \in Nat \ {0}
  BY DEF ArrayInv, Sizes, Sound, Typed
<1>1. /\ ba' = [ba EXCEPT !.nodes = <<ba.nodes[1]>>, !.m_current = 1, !.m_position = 0, !.m_size = 0]
      /\ in' = <<>> /\ out' = <<>> /\ m_baseSize' = m_baseSize /\ heap' = heap
  BY DEF clear, NoAnswer
<1>2. /\ DOMAIN ba' = {"nodes", "m_current", "m_position", "m_size", "segv"}
      /\ ba'.nodes = <<ba.nodes[1]>> /\ ba'.m_position = 0 /\ ba'.m_size = 0 /\ ba'.m_current = 1
  BY <1>0, <1>1
<1>3. ba.nodes[1] \in Node
  BY <1>0
<1>4. ba'.nodes \in Seq(Node) /\ Len(ba'.nodes) = 1
  BY <1>2, <1>3
<1>5. Typed(ba')
  BY <1>2, <1>4 DEF Typed
<1>6. m_capacity(ba') = m_baseSize
  BY <1>0, <1>4 DEF m_capacity
<1>7. InStep(ba')
  BY <1>0, <1>2, <1>6 DEF InStep
<1>8. Keeps
  BY <1>1, <1>5, <1>7 DEF Keeps, Sound
<1>9. ContentOf(ba') = <<>>
  BY <1>2 DEF ContentOf
<1>10. Content' = <<>>
  BY <1>8, <1>9, Abstract
<1>11. QED
  BY <1>1, <1>2, <1>8, <1>10 DEF Flat!Next, Flat!Clear

-----------------------------------------------------------------------------
(* The theorems.                                                           *)

\* A new array is sound and empty.
LEMMA InitArray == Init => ArrayInv /\ Flat!Init
<1> SUFFICES ASSUME Init PROVE ArrayInv /\ Flat!Init
  OBVIOUS
<1>1. /\ m_baseSize \in Nat \ {0} /\ heap \in Nat
      /\ ba = [nodes |-> <<NewNode(m_baseSize)>>, m_current |-> 1, m_position |-> 0,
               m_size |-> 0, segv |-> FALSE]
      /\ in = <<>> /\ out = <<>>
  BY ByteArrayAssumption, BytesAssumption, BaseType DEF Init
<1>2. /\ DOMAIN ba = {"nodes", "m_current", "m_position", "m_size", "segv"}
      /\ ba.nodes = <<NewNode(m_baseSize)>> /\ ba.m_position = 0 /\ ba.m_size = 0
      /\ ba.m_current = 1
  BY <1>1
<1>3. NewNode(m_baseSize) \in Node
  BY <1>1 DEF NewNode, Node
<1>4. ba.nodes \in Seq(Node) /\ Len(ba.nodes) = 1
  BY <1>2, <1>3
<1>5. m_capacity(ba) = m_baseSize
  BY <1>1, <1>4 DEF m_capacity
<1>6. Sound(ba)
  BY <1>1, <1>2, <1>4, <1>5 DEF Sound, Typed, InStep
<1>7. Content = <<>>
  BY <1>2 DEF Content
<1>8. QED
  BY <1>1, <1>2, <1>6, <1>7 DEF ArrayInv, Sizes, Flat!Init

\* Every step keeps the array sound and is one of the flat buffer.
LEMMA NextArray ==
    ArrayInv /\ [Next]_vars => ArrayInv' /\ [Flat!Next]_(Flat!vars)
<1> SUFFICES ASSUME ArrayInv, [Next]_vars
             PROVE  ArrayInv' /\ [Flat!Next]_(Flat!vars)
  OBVIOUS
<1>1. CASE UNCHANGED vars
  <2>1. m_baseSize' = m_baseSize /\ heap' = heap /\ ba' = ba /\ in' = in /\ out' = out
    BY <1>1 DEF vars
  <2>2. Keeps
    BY <2>1 DEF Keeps, ArrayInv
  <2>3. Content' = Content /\ Sizes' /\ Sound(ba)'
    BY <2>1, <2>2, Abstract DEF ArrayInv
  <2>4. QED
    BY <2>1, <2>3 DEF ArrayInv, Flat!vars
<1>2. ASSUME Keeps, Flat!Next PROVE ArrayInv' /\ [Flat!Next]_(Flat!vars)
  BY <1>2, Abstract DEF ArrayInv
<1>3. ASSUME NEW type \in Types \ (DOMAIN Length \union {"raw"}), NEW v \in Numbers,
             writeValue(type, v)
      PROVE  Keeps /\ Flat!Next
  BY <1>3, WriteValueStep
<1>4. ASSUME NEW type \in Types \intersect (DOMAIN Length \union {"raw"}), NEW s \in Strings,
             writeValue(type, s)
      PROVE  Keeps /\ Flat!Next
  BY <1>4, WriteValueStep
<1>5. ASSUME NEW name \in Strings, readFromFile(name) PROVE Keeps /\ Flat!Next
  BY <1>5, ReadFromFileStep
<1>6. ASSUME NEW type \in Types \ {"raw"}, readValue(type) PROVE Keeps /\ Flat!Next
  BY <1>6, ReadValueStep
<1>7. ASSUME NEW val \in BOOLEAN, setLittleEndian(val) PROVE Keeps /\ Flat!Next
  BY <1>7, SetLittleEndianStep
<1>8. ASSUME NEW val \in 0..MaxCapacity, setPosition(val) PROVE Keeps /\ Flat!Next
  <2>1. val \in Nat
    BY ByteArrayAssumption
  <2>2. QED
    BY <1>8, <2>1, SetPositionStep
<1>9. CASE clear
  BY <1>2, <1>9, ClearStep
<1>10. CASE toString
  BY <1>2, <1>10, ToStringStep
<1>11. CASE writeToFile
  BY <1>2, <1>11, WriteToFileStep
<1>15. CASE readOverruns
  BY <1>2, <1>15, ReadOverrunsStep
<1>12. ASSUME NEW len \in Lengths, NEW position \in 0..MaxCapacity,
              getReadBuffers(len) \/ getWriteBuffers(len) \/ getReadBuffersAt(len, position)
       PROVE  Keeps /\ Flat!Next
  BY <1>12, GetBuffersStep
<1>13. 0 \in 0..MaxCapacity
  BY ByteArrayAssumption
<1>14. QED
  BY <1>1, <1>2, <1>3, <1>4, <1>5, <1>6, <1>7, <1>8, <1>9, <1>10, <1>11, <1>12, <1>13, <1>15,
     Zenon DEF Next

\* The array is always sound: typed, m_position <= m_size <= m_capacity, and
\* m_current the node of m_position.  This is the inductive invariant of the
\* theorems below (bytearray.cc:307-507).
THEOREM ArrayInductive == Spec => []ArrayInv
<1>1. Init => ArrayInv
  BY InitArray
<1>2. ArrayInv /\ [Next]_vars => ArrayInv'
  BY NextArray
<1>3. QED
  BY <1>1, <1>2, PTL DEF Spec

\* m_current, which every loop over nodes moves on its own account, is always
\* the node of m_position, and getCapacity() and getReadSize() never wrap, for
\* nodes of any size and any sequence of calls (bytearray.cc:320-442).
THEOREM CurrentInStepAlways == Spec => []CurrentInStep
<1>1. ArrayInv => CurrentInStep
  BY DEF ArrayInv, CurrentInStep, Sound, Typed, InStep
<1>2. QED
  BY <1>1, ArrayInductive, PTL

\* The array implements the flat buffer: reads, typed writes, files, buffers
\* and setPosition do to Content what they would do to one sequence of bytes,
\* wherever nodes end (bytearray.cc:307-507).
THEOREM RefinesFlatBuffer == Spec => IsFlatBuffer
<1>1. Init => Flat!Init
  BY InitArray
<1>2. ArrayInv /\ [Next]_vars => [Flat!Next]_(Flat!vars)
  BY NextArray
<1>3. QED
  BY <1>1, <1>2, ArrayInductive, PTL DEF Spec, IsFlatBuffer, Flat!Spec

-----------------------------------------------------------------------------
(* Buffers and files.                                                      *)

\* The buffers v cover the bytes they were asked for, in nodes of m bytes.
Covered(v, m, start) ==
    /\ start[Len(v.pieces)] = v.at + v.len
    /\ \A j \in 1..Len(v.pieces) :
          /\ v.pieces[j][3] > 0
          /\ start[j - 1] = (v.pieces[j][1] - 1) * m + v.pieces[j][2]
Covers(v, m) ==
    LET start[j \in 0..Len(v.pieces)] == IF j = 0 THEN v.at ELSE start[j - 1] + v.pieces[j][3]
    IN  Covered(v, m, start)

\* Where the buffers begin and end: bytes at .. at + len - 1 in n pieces.
Edge(at, len, n, j) ==
    IF j = 0 THEN at ELSE IF j = n THEN at + len ELSE (at \div m_baseSize + j) * m_baseSize

EdgesMeet(at, len, p) ==
    \A j \in 1..Len(p) :
        /\ p[j][3] > 0
        /\ Edge(at, len, Len(p), j) = Edge(at, len, Len(p), j - 1) + p[j][3]
        /\ Edge(at, len, Len(p), j - 1) = (p[j][1] - 1) * m_baseSize + p[j][2]

\* The number of pieces and each of them.
LEMMA PieceAt ==
    ASSUME Sizes, NEW at \in Nat, NEW len \in Nat, len > 0, NEW p,
           p = Pieces(1 + at \div m_baseSize, at % m_baseSize, len)
    PROVE  Len(p) \in Nat /\ Len(p) > 0 /\ EdgesMeet(at, len, p)
<1> DEFINE m == m_baseSize
           q == at \div m
           r == at % m
           last == r + len - 1
           e == last % m
           n == last \div m + 1
<1>1. m \in Nat \ {0}
  BY DEF Sizes
<1>2. q \in Nat /\ r \in Nat /\ r < m /\ at = q * m + r
  BY <1>1, DivMod
<1> HIDE DEF m, q, r
<1>3. last \in Nat
  BY <1>2
<1>4. last \div m \in Nat /\ e \in Nat /\ e < m /\ last = (last \div m) * m + e
  BY <1>1, <1>3, DivMod
<1>5. n \in Nat /\ n > 0 /\ last = (n - 1) * m + e
  BY <1>4
<1>6. p = [j \in 1..n |-> LET from == IF j = 1 THEN r ELSE 0
                              to == IF j = n THEN e + 1 ELSE m
                          IN  <<1 + q + j - 1, from, to - from>>]
  BY DEF Pieces, m, q, r
<1> HIDE DEF n, e
<1>7. Len(p) = n
  BY <1>5, <1>6
<1>8. ASSUME NEW j \in 1..n
      PROVE  /\ p[j][1] = q + j /\ p[j][2] = (IF j = 1 THEN r ELSE 0)
             /\ p[j][3] = (IF j = n THEN e + 1 ELSE m) - (IF j = 1 THEN r ELSE 0)
  BY <1>2, <1>5, <1>6, <1>8
<1> HIDE DEF last
<1>9. ASSUME NEW j \in 1..n
      PROVE  /\ p[j][3] > 0
             /\ Edge(at, len, n, j) = Edge(at, len, n, j - 1) + p[j][3]
             /\ Edge(at, len, n, j - 1) = (p[j][1] - 1) * m + p[j][2]
  <2>1. Edge(at, len, n, j) = IF j = n THEN at + len ELSE (q + j) * m
    BY <1>5, <1>9 DEF Edge, q, m
  <2>2. Edge(at, len, n, j - 1) = IF j = 1 THEN at ELSE (q + (j - 1)) * m
    BY <1>5, <1>9 DEF Edge, q, m
  <2>3. p[j][1] - 1 = q + (j - 1)
    BY <1>2, <1>8
  <2>4. last + 1 = r + len
    BY <1>2 DEF last
  <2>5. CASE j = 1 /\ j = n
    <3>1. last = e
      BY <1>1, <1>4, <1>5, <2>5
    <3>2. QED
      BY <1>1, <1>2, <1>4, <1>8, <2>1, <2>2, <2>3, <2>4, <2>5, <3>1
  <2>6. CASE j = 1 /\ j # n
    <3>1. (q + j) * m = q * m + m
      BY <1>1, <1>2, <2>6
    <3>2. p[j][3] = m - r /\ p[j][2] = r /\ p[j][1] - 1 = q + 0
      BY <1>1, <1>2, <1>8, <2>3, <2>6
    <3>3. Edge(at, len, n, j) = q * m + m /\ Edge(at, len, n, j - 1) = at
      BY <2>1, <2>2, <2>6, <3>1
    <3>4. (p[j][1] - 1) * m + p[j][2] = q * m + r
      BY <1>1, <1>2, <3>2
    <3>5. q * m \in Nat
      BY <1>1, <1>2
    <3>6. QED
      BY <1>1, <1>2, <3>2, <3>3, <3>4, <3>5
  <2>7. CASE j # 1 /\ j = n
    <3>1. (q + (n - 1)) * m = q * m + (n - 1) * m
      BY <1>1, <1>2, <1>5
    <3>2. q * m \in Nat /\ (n - 1) * m \in Nat
      BY <1>1, <1>2, <1>5
    <3>3. p[j][3] = e + 1 /\ p[j][2] = 0 /\ p[j][1] - 1 = q + (n - 1)
      BY <1>4, <1>8, <2>3, <2>7
    <3>4. Edge(at, len, n, j) = at + len /\ Edge(at, len, n, j - 1) = (q + (n - 1)) * m
      BY <2>1, <2>2, <2>7
    <3> DEFINE x == q * m
               y == (n - 1) * m
    <3>5. x \in Nat /\ y \in Nat /\ at = x + r /\ last = y + e /\ (q + (n - 1)) * m = x + y
      BY <1>2, <1>5, <3>1, <3>2
    <3> HIDE DEF x, y
    <3>6. at + len = (x + y) + (e + 1)
      BY <1>2, <1>3, <1>4, <2>4, <3>5
    <3>7. QED
      BY <1>4, <3>3, <3>4, <3>5, <3>6
  <2>8. CASE j # 1 /\ j # n
    <3>1. (q + j) * m = (q + (j - 1)) * m + m
      BY <1>1, <1>2
    <3>2. (q + (j - 1)) * m \in Nat
      BY <1>1, <1>2
    <3>3. p[j][3] = m /\ p[j][2] = 0 /\ p[j][1] - 1 = q + (j - 1)
      BY <1>1, <1>8, <2>3, <2>8
    <3>4. Edge(at, len, n, j) = (q + j) * m /\ Edge(at, len, n, j - 1) = (q + (j - 1)) * m
      BY <2>1, <2>2, <2>8
    <3> DEFINE x == (q + (j - 1)) * m
    <3>5. (q + j) * m = x + m /\ x \in Nat
      BY <3>1, <3>2
    <3> HIDE DEF x
    <3>6. x = (q + (j - 1)) * m + 0
      BY <3>2 DEF x
    <3>7. QED
      BY <1>1, <3>3, <3>4, <3>5, <3>6 DEF x
  <2>9. QED
    BY <2>5, <2>6, <2>7, <2>8
<1>10. QED
  BY <1>5, <1>7, <1>9 DEF m, EdgesMeet

\* The pieces cover their bytes.
LEMMA PiecesCover ==
    ASSUME Sizes, NEW v, v.at \in Nat, v.len \in Nat,
           v.pieces = Pieces(1 + v.at \div m_baseSize, v.at % m_baseSize, v.len)
    PROVE  Covers(v, m_baseSize)
<1> DEFINE p == v.pieces
           n == Len(p)
           g == [j \in 0..n |-> Edge(v.at, v.len, n, j)]
           f == CHOOSE h : h = [j \in 0..n |-> IF j = 0 THEN v.at ELSE h[j - 1] + p[j][3]]
<1>1. n \in Nat /\ (v.len = 0 => n = 0) /\ (v.len > 0 => n > 0)
  <2>1. CASE v.len = 0
    <3>1. p = [j \in 1..0 |-> <<1 + v.at \div m_baseSize + j - 1,
                                IF j = 1 THEN v.at % m_baseSize ELSE 0,
                                0>>]
      BY <2>1 DEF Pieces
    <3>2. QED
      BY <2>1, <3>1
  <2>2. CASE v.len > 0
    <3>1. Len(p) \in Nat /\ Len(p) > 0
      BY <2>2, PieceAt, Zenon
    <3>2. QED
      BY <2>2, <3>1
  <2>3. QED
    BY <2>1, <2>2
<1>2. ASSUME NEW j \in 1..n
      PROVE  /\ p[j][3] > 0
             /\ Edge(v.at, v.len, n, j) = Edge(v.at, v.len, n, j - 1) + p[j][3]
             /\ Edge(v.at, v.len, n, j - 1) = (p[j][1] - 1) * m_baseSize + p[j][2]
  <2>1. v.len > 0
    BY <1>1, <1>2
  <2> HIDE DEF p
  <2>2. p = Pieces(1 + v.at \div m_baseSize, v.at % m_baseSize, v.len)
    BY DEF p
  <2>3. EdgesMeet(v.at, v.len, p)
    BY <2>1, <2>2, PieceAt
  <2>4. QED
    BY <2>3, Zenon DEF EdgesMeet
<1> HIDE DEF n, p
<1>3. g = [j \in 0..n |-> IF j = 0 THEN v.at ELSE g[j - 1] + p[j][3]]
  <2>1. ASSUME NEW j \in 0..n PROVE g[j] = IF j = 0 THEN v.at ELSE g[j - 1] + p[j][3]
    <3>1. CASE j = 0
      BY <1>1, <3>1 DEF Edge
    <3>2. CASE j # 0
      <4>1. j \in 1..n /\ j - 1 \in 0..n
        BY <1>1, <2>1, <3>2
      <4>2. g[j] = Edge(v.at, v.len, n, j) /\ g[j - 1] = Edge(v.at, v.len, n, j - 1)
        BY <4>1
      <4>3. QED
        BY <1>2, <3>2, <4>1, <4>2
    <3>3. QED
      BY <3>1, <3>2
  <2>2. QED
    BY <2>1
<1>4. f = [j \in 0..n |-> IF j = 0 THEN v.at ELSE f[j - 1] + p[j][3]]
  <2> HIDE DEF g
  <2>1. QED
    BY <1>3
<1> HIDE DEF f
<1> DEFINE S == {j \in Nat : j <= n => f[j] = Edge(v.at, v.len, n, j)}
<1>5. 0 \in S
  BY <1>1, <1>4 DEF Edge
<1>6. ASSUME NEW k \in S PROVE k + 1 \in S
  <2> SUFFICES ASSUME k + 1 <= n PROVE f[k + 1] = Edge(v.at, v.len, n, k + 1)
    OBVIOUS
  <2>1. k + 1 \in 1..n /\ (k + 1) - 1 = k /\ k + 1 # 0 /\ k + 1 \in 0..n /\ k <= n
    BY <1>1
  <2>2. f[k + 1] = f[k] + p[k + 1][3]
    BY <1>4, <2>1
  <2>3. f[k] = Edge(v.at, v.len, n, k)
    BY <2>1
  <2>4. Edge(v.at, v.len, n, k + 1) = Edge(v.at, v.len, n, k) + p[k + 1][3]
    BY <1>2, <2>1
  <2>5. QED
    BY <2>2, <2>3, <2>4
<1>7. S = Nat
  <2>1. S \in SUBSET Nat
    OBVIOUS
  <2> HIDE DEF S
  <2>2. QED
    BY <1>5, <1>6, <2>1, Induction
<1>8. \A j \in 0..n : f[j] = Edge(v.at, v.len, n, j)
  BY <1>1, <1>7
<1>9. f[n] = v.at + v.len
  <2>1. f[n] = Edge(v.at, v.len, n, n)
    BY <1>1, <1>8
  <2>2. QED
    BY <1>1, <2>1 DEF Edge
<1>10. ASSUME NEW j \in 1..n
       PROVE  p[j][3] > 0 /\ f[j - 1] = (p[j][1] - 1) * m_baseSize + p[j][2]
  <2>1. j - 1 \in 0..n
    BY <1>1
  <2>2. f[j - 1] = Edge(v.at, v.len, n, j - 1)
    BY <1>8, <2>1
  <2>3. QED
    BY <1>2, <2>2
<1>11. Covered(v, m_baseSize, f)
  BY <1>9, <1>10 DEF Covered, n, p
<1>12. QED
  BY <1>11 DEF Covers, f, n, p

\* The two parts of BuffersCover.
FileIsRest ==
    file # <<>> /\ ba.m_position % m_baseSize = 0 =>
        file = SubSeq(Content, ba.m_position + 1, ba.m_size)
IovCovers == iov.op \in {"readAt", "write"} => Covers(iov, m_baseSize)

\* The calls that return buffers.
LEMMA IovOfBuffers ==
    ASSUME ArrayInv, NEW op, NEW b, NEW c, NEW at \in Nat, NEW len \in Nat, NEW pieces,
           ~b.segv, ~ba.segv,
           op # "read" => pieces = Pieces(c, at % m_baseSize, len),
           op # "read" /\ (len = 0 \/ c # 0) => c = 1 + at \div m_baseSize,
           Buffers(op, b, c, at, len, pieces)
    PROVE  IovCovers' /\ file' = <<>>
<1> DEFINE v == [op |-> op, at |-> at, len |-> len, pieces |-> pieces]
<1>0. m_baseSize' = m_baseSize /\ file' = <<>> /\ Sizes
  BY DEF Buffers, ArrayInv
<1>1. CASE iov' = NoIov
  BY <1>0, <1>1 DEF IovCovers, NoIov
<1>2. CASE iov' # NoIov
  <2>1. iov' = v /\ ~ba'.segv
    BY <1>2 DEF Buffers
  <2>2. v.op = op /\ v.at = at /\ v.len = len /\ v.pieces = pieces
    OBVIOUS
  <2> HIDE DEF v
  <2>3. CASE op = "read"
    BY <1>0, <2>1, <2>2, <2>3 DEF IovCovers
  <2>4. CASE op # "read"
    <3>1. len = 0 \/ c # 0
      <4>1. ba' = IF len > 0 /\ RunsOff(b, c, at % m_baseSize, len) THEN Segv(ba) ELSE b
        BY DEF Buffers
      <4>2. Segv(ba).segv = TRUE
        BY DEF Segv, ArrayInv, Sound, Typed
      <4>3. ~(len > 0 /\ RunsOff(b, c, at % m_baseSize, len))
        BY <2>1, <4>1, <4>2
      <4>4. QED
        BY <4>3 DEF RunsOff
    <3>2. v.pieces = Pieces(1 + v.at \div m_baseSize, v.at % m_baseSize, v.len)
      BY <2>2, <2>4, <3>1
    <3>3. Covers(v, m_baseSize)
      BY <1>0, <2>2, <3>2, PiecesCover
    <3>4. QED
      BY <1>0, <2>1, <3>3 DEF IovCovers
  <2>5. QED
    BY <2>3, <2>4
<1>3. QED
  BY <1>0, <1>1, <1>2

\* getReadBuffers, with and without a position, and getWriteBuffers.
LEMMA GetBuffersCover ==
    ASSUME ArrayInv, NEW len \in Lengths, NEW position \in Nat,
           getReadBuffers(len) \/ getReadBuffersAt(len, position) \/ getWriteBuffers(len)
    PROVE  IovCovers' /\ file' = <<>>
<1>1. /\ len \in Nat /\ ba.m_position \in Nat /\ getReadSize(ba) \in Nat
      /\ Least(len, getReadSize(ba)) \in Nat
  <2>1. len \in Nat /\ ba.m_position \in Nat /\ getReadSize(ba) \in Nat
    BY ByteArrayAssumption DEF ArrayInv, Sound, Typed, InStep, getReadSize
  <2>2. QED
    BY <2>1 DEF Least
<1>2. CASE getReadBuffers(len)
  <2> DEFINE n == Least(len, getReadSize(ba))
             all == Pieces(ba.m_current, ba.m_position % m_baseSize, n)
             pieces == IF n = 0 THEN <<>> ELSE <<all[Len(all)]>>
  <2>1. ~ba.segv /\ Buffers("read", ba, ba.m_current, ba.m_position, n, pieces)
    BY <1>2 DEF getReadBuffers, Live
  <2> HIDE DEF n, pieces
  <2>2. iov'.op \in {"none", "read"} /\ file' = <<>>
    BY <2>1 DEF Buffers, NoIov
  <2>3. ~(iov'.op \in {"readAt", "write"})
    BY <2>2
  <2>4. QED
    BY <2>2, <2>3 DEF IovCovers
<1>3. CASE getReadBuffersAt(len, position)
  <2> DEFINE n == Least(len, getReadSize(ba))
             c == 1 + position \div m_baseSize
             pieces == Pieces(c, position % m_baseSize, n)
  <2>1. ~ba.segv /\ Buffers("readAt", ba, c, position, n, pieces)
    BY <1>3 DEF getReadBuffersAt, Live
  <2>2. n \in Nat
    BY <1>1
  <2>3. c = 1 + position \div m_baseSize /\ pieces = Pieces(c, position % m_baseSize, n)
    OBVIOUS
  <2> HIDE DEF n, c, pieces
  <2>4. QED
    BY <2>1, <2>2, <2>3, IovOfBuffers
<1>4. CASE getWriteBuffers(len)
  <2> DEFINE b == addCapacity(ba, len)
             c == b.m_current
             at == b.m_position
             pieces == Pieces(c, at % m_baseSize, len)
  <2>1. ~ba.segv /\ len > 0 /\ Buffers("write", b, c, at, len, pieces)
    BY <1>4 DEF getWriteBuffers, Live
  <2>2. Grown(ba, b)
    BY <1>1, AddCapacity DEF ArrayInv
  <2>3. pieces = Pieces(c, at % m_baseSize, len)
    OBVIOUS
  <2> HIDE DEF b, pieces
  <2>4. ~b.segv /\ at \in Nat /\ (c # 0 => c = 1 + at \div m_baseSize)
    BY <2>1, <2>2 DEF Grown, Sound, Typed, InStep
  <2>5. len # 0
    BY <1>1, <2>1
  <2> HIDE DEF c, at
  <2>6. QED
    BY <1>1, <2>1, <2>3, <2>4, <2>5, IovOfBuffers
<1>5. QED
  BY <1>2, <1>3, <1>4

\* What Dump is computed with.
FirstTurn == [pos |-> ba.m_position, left |-> getReadSize(ba), node |-> ba.m_current,
              bad |-> FALSE, data |-> <<>>]
IsTurn(f, n) == f = [i \in 0..n |-> IF i = 0 THEN FirstTurn ELSE DumpTurn(f[i - 1])]

\* There is such a function.
LEMMA TurnExists ==
    ASSUME NEW n \in Nat
    PROVE  \E f : IsTurn(f, n)
<1> DEFINE S == {k \in Nat : \E f : IsTurn(f, k)}
<1>1. 0 \in S
  <2>1. IsTurn([i \in 0..0 |-> FirstTurn], 0)
    BY DEF IsTurn
  <2>2. QED
    BY <2>1
<1>2. ASSUME NEW k \in S PROVE k + 1 \in S
  <2>1. PICK f : IsTurn(f, k)
    OBVIOUS
  <2> DEFINE f1 == [i \in 0..(k + 1) |-> IF i = k + 1 THEN DumpTurn(f[k]) ELSE f[i]]
  <2>2. ASSUME NEW i \in 0..(k + 1)
        PROVE  f1[i] = IF i = 0 THEN FirstTurn ELSE DumpTurn(f1[i - 1])
    <3>1. CASE i = k + 1
      <4>1. i # 0 /\ i - 1 = k /\ f1[i - 1] = f[k] /\ f1[i] = DumpTurn(f[k])
        BY <3>1
      <4>2. QED
        BY <4>1
    <3>2. CASE i # k + 1
      <4>1. i \in 0..k /\ (i # 0 => i - 1 \in 0..k)
        BY <3>2
      <4>2. f1[i] = f[i] /\ (i # 0 => f1[i - 1] = f[i - 1])
        BY <3>2, <4>1
      <4>3. f[i] = IF i = 0 THEN FirstTurn ELSE DumpTurn(f[i - 1])
        BY <2>1, <4>1 DEF IsTurn
      <4>4. QED
        BY <4>2, <4>3
    <3>3. QED
      BY <3>1, <3>2
  <2>3. IsTurn(f1, k + 1)
    BY <2>2 DEF IsTurn
  <2> HIDE DEF f1
  <2>4. k + 1 \in Nat
    OBVIOUS
  <2>5. QED
    BY <2>3, <2>4, Zenon
<1>3. S = Nat
  BY <1>1, <1>2, Induction
<1>4. QED
  BY <1>3

\* After some turns that began at the start of a node: the bytes up to pos are
\* in the file, and if bytes are left, pos is the start of the next node.
InFile(d) ==
    /\ d.bad = FALSE
    /\ d.pos \in Nat /\ ba.m_position <= d.pos /\ d.pos <= ba.m_size
    /\ d.left = ba.m_size - d.pos
    /\ d.data = SubSeq(ContentOf(ba), ba.m_position + 1, d.pos)
    /\ d.left > 0 => /\ d.pos % m_baseSize = 0
                     /\ d.node = 0 \/ d.node = 1 + d.pos \div m_baseSize

\* A turn keeps it so.
LEMMA TurnInFile ==
    ASSUME ArrayInv, NEW d, InFile(d)
    PROVE  InFile(DumpTurn(d))
<1>1. CASE d.left <= 0 \/ d.node = 0
  BY <1>1 DEF DumpTurn
<1>2. CASE ~(d.left <= 0 \/ d.node = 0)
  <2> DEFINE p == ba.m_position
             m == m_baseSize
             q == d.pos \div m
             len == Least(d.left, m)
             part == [k \in 1..len |-> ba.nodes[d.node][0 + k - 1]]
             e == DumpTurn(d)
             C == ContentOf(ba)
  <2>1. /\ m \in Nat \ {0} /\ p \in Nat /\ ba.m_size \in Nat /\ d.pos \in Nat /\ p <= d.pos
        /\ d.pos <= ba.m_size /\ d.left = ba.m_size - d.pos
    BY DEF ArrayInv, Sizes, Sound, Typed, InFile
  <2>2. d.left \in Nat /\ d.left > 0 /\ d.node # 0
    BY <1>2, <2>1
  <2>3. d.pos % m = 0 /\ d.node = 1 + q
    BY <2>2 DEF InFile
  <2>4. len \in Nat /\ len > 0 /\ len <= d.left /\ len <= m /\ (len < d.left => len = m)
    BY <2>1, <2>2 DEF Least
  <2>5. /\ e.pos = d.pos + len /\ e.left = d.left - len /\ e.bad = FALSE
        /\ e.node = IF d.node = Len(ba.nodes) THEN 0 ELSE d.node + 1
        /\ e.data = d.data \o part
    <3>1. Least(d.left, m_baseSize) - (d.pos % m_baseSize) = len
      BY <2>3, <2>4
    <3>2. ~(len < 0)
      BY <2>4
    <3> HIDE DEF len
    <3>3. d.bad = FALSE
      BY DEF InFile
    <3>4. e = [pos |-> d.pos + len, left |-> d.left - len,
               node |-> IF d.node = Len(ba.nodes) THEN 0 ELSE d.node + 1,
               bad |-> FALSE, data |-> d.data \o part]
      BY <1>2, <2>3, <3>1, <3>2, <3>3 DEF DumpTurn
    <3> HIDE DEF e, part
    <3>5. QED
      BY <3>4
  <2>6. q \in Nat /\ d.pos = q * m
    BY <2>1, <2>3, DivMod, SMTT(40)
  <2> HIDE DEF len, q, e
  <2>7. C \in Seq(Nat) /\ Len(C) = ba.m_size
    BY ContentType DEF ArrayInv
  <2>8. part = SubSeq(C, d.pos + 1, d.pos + len)
    <3>1. SubSeq(C, d.pos + 1, d.pos + len) = [k \in 1..((d.pos + len) - d.pos) |-> C[d.pos + k]]
      <4>1. d.pos + len \in Nat /\ d.pos <= d.pos + len /\ d.pos + len <= Len(C)
        BY <2>1, <2>2, <2>4, <2>7
      <4> HIDE DEF C
      <4>2. QED
        BY <2>1, <2>7, <4>1, PartOf
    <3>2. (d.pos + len) - d.pos = len
      BY <2>1, <2>4
    <3>3. ASSUME NEW k \in 1..len PROVE C[d.pos + k] = ba.nodes[d.node][0 + k - 1]
      <4>1. d.pos + k \in 1..ba.m_size /\ k - 1 \in Nat /\ k - 1 < m
            /\ (d.pos + k) - 1 = q * m + (k - 1)
        BY <2>1, <2>2, <2>4, <2>6
      <4>2. (q * m + (k - 1)) \div m = q /\ (q * m + (k - 1)) % m = k - 1
        <5> HIDE DEF m
        <5>1. QED
          BY <2>1, <2>6, <4>1, DivModUnique
      <4>3. C[d.pos + k] = ba.nodes[1 + ((d.pos + k) - 1) \div m][((d.pos + k) - 1) % m]
        BY <4>1 DEF ContentOf, ByteAt
      <4>4. ((d.pos + k) - 1) \div m = q /\ ((d.pos + k) - 1) % m = k - 1
        BY <4>1, <4>2
      <4>5. 0 + k - 1 = k - 1
        OBVIOUS
      <4> HIDE DEF C
      <4>6. QED
        BY <2>3, <4>3, <4>4, <4>5
    <3> HIDE DEF C
    <3>4. QED
      BY <3>1, <3>2, <3>3
  <2> HIDE DEF part
  <2>9. e.pos \in Nat /\ p <= e.pos /\ e.pos <= ba.m_size /\ e.left = ba.m_size - e.pos
    BY <2>1, <2>2, <2>4, <2>5, SMTT(40)
  <2>10. e.data = SubSeq(C, p + 1, e.pos)
    <3>1. d.data = SubSeq(C, p + 1, d.pos)
      BY DEF InFile
    <3> HIDE DEF C
    <3>2. SubSeq(C, p + 1, d.pos) \o SubSeq(C, d.pos + 1, e.pos) = SubSeq(C, p + 1, e.pos)
      <4>1. d.pos <= e.pos /\ e.pos <= Len(C)
        BY <2>1, <2>4, <2>5, <2>7, <2>9
      <4> DEFINE x == d.pos
                 z == e.pos
      <4>2. C \in Seq(Nat) /\ p \in Nat /\ x \in Nat /\ z \in Nat /\ p <= x /\ x <= z /\ z <= Len(C)
        BY <2>1, <2>7, <2>9, <4>1
      <4> HIDE DEF p, x, z
      <4>3. SubSeq(C, p + 1, x) \o SubSeq(C, x + 1, z) = SubSeq(C, p + 1, z)
        BY <4>2, PartsMeet
      <4>4. QED
        BY <4>3 DEF x, z
    <3>3. QED
      BY <2>5, <2>8, <3>1, <3>2
  <2>11. ASSUME e.left > 0
         PROVE  e.pos % m = 0 /\ (e.node = 0 \/ e.node = 1 + e.pos \div m)
    <3>1. len = m
      BY <2>2, <2>4, <2>5, <2>11
    <3>2. e.pos = (q + 1) * m + 0
      BY <2>1, <2>5, <2>6, <3>1
    <3>3. ((q + 1) * m + 0) \div m = q + 1 /\ ((q + 1) * m + 0) % m = 0
      <4> HIDE DEF m
      <4>1. q + 1 \in Nat /\ 0 < m
        BY <2>1, <2>6
      <4>2. QED
        BY <2>1, <4>1, DivModUnique
    <3>4. e.pos % m = 0 /\ e.pos \div m = q + 1
      BY <3>2, <3>3
    <3>5. e.node = 0 \/ e.node = (1 + q) + 1
      BY <2>3, <2>5
    <3>6. QED
      BY <2>6, <3>4, <3>5
  <2> HIDE DEF C
  <2>12. QED
    BY <2>5, <2>9, <2>10, <2>11 DEF InFile, C, e
<1>3. QED
  BY <1>1, <1>2

\* A dump that began at the start of a node and left nothing out holds the
\* unread bytes.
LEMMA DumpInFile ==
    ASSUME ArrayInv, ba.m_position % m_baseSize = 0, ~(Dump.left > 0)
    PROVE  Dump.data = SubSeq(ContentOf(ba), ba.m_position + 1, ba.m_size)
<1> DEFINE n == Len(ba.nodes)
           f == CHOOSE h : h = [i \in 0..n |-> IF i = 0 THEN FirstTurn ELSE DumpTurn(h[i - 1])]
<1>1. n \in Nat
  BY DEF ArrayInv, Sound, Typed
<1>2. f = [i \in 0..n |-> IF i = 0 THEN FirstTurn ELSE DumpTurn(f[i - 1])]
  <2> HIDE DEF n
  <2>1. PICK h : IsTurn(h, n)
    BY <1>1, TurnExists
  <2>2. h = [i \in 0..n |-> IF i = 0 THEN FirstTurn ELSE DumpTurn(h[i - 1])]
    BY <2>1 DEF IsTurn
  <2>3. QED
    BY <2>2
<1>3. Dump = f[n]
  BY DEF Dump, FirstTurn
<1> HIDE DEF f, n
<1>4. InFile(FirstTurn)
  <2>1. /\ FirstTurn.pos = ba.m_position /\ FirstTurn.left = ba.m_size - ba.m_position
        /\ FirstTurn.node = ba.m_current /\ FirstTurn.bad = FALSE /\ FirstTurn.data = <<>>
    BY DEF FirstTurn, getReadSize
  <2>2. /\ ba.m_position \in Nat /\ ba.m_size \in Nat /\ ba.m_position <= ba.m_size
        /\ ba.m_current = 0 \/ ba.m_current = 1 + ba.m_position \div m_baseSize
    BY DEF ArrayInv, Sound, Typed, InStep
  <2>3. SubSeq(ContentOf(ba), ba.m_position + 1, ba.m_position) = <<>>
    <3>1. ContentOf(ba) \in Seq(Nat)
      BY ContentType DEF ArrayInv
    <3>2. QED
      BY <2>2, <3>1
  <2>4. QED
    BY <2>1, <2>2, <2>3 DEF InFile
<1> DEFINE T == {k \in Nat : k <= n => InFile(f[k])}
<1>5. 0 \in T
  <2>1. f[0] = FirstTurn
    BY <1>1, <1>2
  <2>2. QED
    BY <1>4, <2>1
<1>6. ASSUME NEW k \in T PROVE k + 1 \in T
  <2> SUFFICES ASSUME k + 1 <= n PROVE InFile(f[k + 1])
    OBVIOUS
  <2>1. k \in Nat /\ k <= n /\ k + 1 \in 0..n /\ k + 1 # 0 /\ (k + 1) - 1 = k
    BY <1>1
  <2>2. f[k + 1] = DumpTurn(f[k])
    BY <1>2, <2>1
  <2>3. InFile(f[k])
    BY <2>1
  <2>4. QED
    BY <2>2, <2>3, TurnInFile
<1>7. T = Nat
  <2>1. T \in SUBSET Nat
    OBVIOUS
  <2> HIDE DEF T
  <2>2. QED
    BY <1>5, <1>6, <2>1, Induction
<1>8. InFile(Dump)
  BY <1>1, <1>3, <1>7
<1>9. Dump.pos = ba.m_size
  <2>1. Dump.pos \in Nat /\ Dump.pos <= ba.m_size /\ Dump.left = ba.m_size - Dump.pos
    BY <1>8 DEF InFile
  <2>2. ba.m_size \in Nat
    BY DEF ArrayInv, Sound, Typed
  <2>3. QED
    BY <2>1, <2>2
<1>10. QED
  BY <1>8, <1>9 DEF InFile

\* writeToFile.
LEMMA WriteToFileCovers ==
    ASSUME ArrayInv, writeToFile
    PROVE  FileIsRest' /\ IovCovers'
<1>1. Keeps
  BY WriteToFileStep
<1>2. IovCovers'
  BY DEF writeToFile, IovCovers, NoIov
<1>3. Content' = ContentOf(ba') /\ m_baseSize' = m_baseSize
  BY <1>1, Abstract DEF Keeps
<1>4. CASE Dump.left > 0
  <2>1. file' = <<>>
    BY <1>4 DEF writeToFile
  <2>2. QED
    BY <1>2, <2>1 DEF FileIsRest
<1>5. CASE ~(Dump.left > 0)
  <2>1. file' = Dump.data /\ ba' = ba
    BY <1>5 DEF writeToFile
  <2>2. ba.m_position % m_baseSize = 0
          => file' = SubSeq(ContentOf(ba), ba.m_position + 1, ba.m_size)
    BY <1>5, <2>1, DumpInFile
  <2>3. FileIsRest'
    BY <1>3, <2>1, <2>2 DEF FileIsRest
  <2>4. QED
    BY <1>2, <2>3
<1>6. QED
  BY <1>4, <1>5

\* BuffersCover without its LET.
Cover == FileIsRest /\ IovCovers

\* What the other calls return: neither buffers nor a file.
Neither == iov' = NoIov /\ file' = <<>>

\* They leave nothing to cover.
LEMMA NeitherCovers == Neither => Cover'
BY DEF Neither, Cover, FileIsRest, IovCovers, NoIov

\* Every step leaves a file and buffers that cover.
LEMMA NextCovers ==
    ArrayInv /\ Cover /\ [Next]_vars => Cover'
<1> SUFFICES ASSUME ArrayInv, Cover, [Next]_vars PROVE Cover'
  OBVIOUS
<1>1. CASE UNCHANGED vars
  <2>1. m_baseSize' = m_baseSize /\ ba' = ba /\ file' = file /\ iov' = iov /\ heap' = heap
    BY <1>1 DEF vars
  <2>2. Keeps
    BY <2>1 DEF Keeps, ArrayInv
  <2>3. Content' = Content
    BY <2>1, <2>2, Abstract
  <2>4. FileIsRest'
    BY <2>1, <2>3 DEF Cover, FileIsRest
  <2>5. IovCovers'
    BY <2>1 DEF Cover, IovCovers
  <2>6. QED
    BY <2>4, <2>5 DEF Cover
<1>2. ASSUME NEW type, NEW v, writeValue(type, v) PROVE Cover'
  BY <1>2, NeitherCovers DEF writeValue, Write, Neither
<1>3. ASSUME NEW name, readFromFile(name) PROVE Cover'
  BY <1>3, NeitherCovers DEF readFromFile, Write, Neither
<1>4. ASSUME NEW type, readValue(type) PROVE Cover'
  BY <1>4, NeitherCovers DEF readValue, Neither
<1>5. ASSUME NEW val, setLittleEndian(val) \/ setPosition(val) PROVE Cover'
  BY <1>5, NeitherCovers DEF setLittleEndian, setPosition, NoAnswer, Neither
<1>6. CASE clear \/ toString \/ readOverruns
  BY <1>6, NeitherCovers DEF clear, toString, readOverruns, NoAnswer, Neither
<1>7. CASE writeToFile
  BY <1>7, WriteToFileCovers DEF Cover
<1>8. ASSUME NEW len \in Lengths, NEW position \in 0..MaxCapacity,
             getReadBuffers(len) \/ getReadBuffersAt(len, position) \/ getWriteBuffers(len)
      PROVE  Cover'
  <2>1. position \in Nat
    BY ByteArrayAssumption
  <2>2. IovCovers' /\ file' = <<>>
    BY <1>8, <2>1, GetBuffersCover
  <2>3. QED
    BY <2>2 DEF Cover, FileIsRest
<1>9. 0 \in 0..MaxCapacity
  BY ByteArrayAssumption
<1>10. QED
  BY <1>1, <1>2, <1>3, <1>4, <1>5, <1>6, <1>7, <1>8, <1>9, Zenon DEF Next

\* The buffers returned for readv and writev always cover the bytes asked for,
\* in order and without gap, and a file written from the start of a node holds
\* the unread bytes: for nodes of any size, buffers of any length and arrays of
\* any number of nodes (bytearray.cc:443-463, 558-620).
THEOREM BuffersCoverAlways == Spec => []BuffersCover
<1>1. Init => Cover
  BY DEF Init, Cover, FileIsRest, IovCovers, NoIov
<1>2. ArrayInv /\ Cover /\ [Next]_vars => Cover'
  BY NextCovers
<1>3. Cover => BuffersCover
  BY DEF Cover, FileIsRest, IovCovers, Covers, Covered, BuffersCover
<1>4. QED
  BY <1>1, <1>2, <1>3, ArrayInductive, PTL DEF Spec

-----------------------------------------------------------------------------
(* Powers and digits.                                                      *)

\* A power, unfolded once.
LEMMA PowStep ==
    ASSUME NEW b \in Nat \ {0}, NEW n \in Nat
    PROVE  Pow(b, 0) = 1 /\ Pow(b, n + 1) = b * Pow(b, n)
<1> DEFINE F(k) == CHOOSE h : h = [i \in 0..k |-> IF i = 0 THEN 1 ELSE b * h[i - 1]]
<1>1. ASSUME NEW k \in Nat
      PROVE  F(k) = [i \in 0..k |-> IF i = 0 THEN 1 ELSE b * F(k)[i - 1]]
  <2> DEFINE S == {j \in Nat : \E p : IsPow(p, b, j)}
  <2>1. 0 \in S
    <3>1. IsPow([i \in 0..0 |-> 1], b, 0)
      BY DEF IsPow
    <3>2. QED
      BY <3>1
  <2>2. ASSUME NEW j \in S PROVE j + 1 \in S
    <3>1. PICK p : IsPow(p, b, j)
      OBVIOUS
    <3> DEFINE q == [i \in 0..(j + 1) |-> IF i = j + 1 THEN b * p[j] ELSE p[i]]
    <3>2. ASSUME NEW i \in 0..(j + 1) PROVE q[i] = IF i = 0 THEN 1 ELSE b * q[i - 1]
      BY <3>1, <3>2 DEF IsPow
    <3>3. IsPow(q, b, j + 1)
      BY <3>2 DEF IsPow
    <3> HIDE DEF q
    <3>4. j + 1 \in Nat
      OBVIOUS
    <3>5. QED
      BY <3>3, <3>4, Zenon
  <2>3. S = Nat
    BY <2>1, <2>2, Induction
  <2>4. PICK p : IsPow(p, b, k)
    BY <2>3
  <2>5. p = [i \in 0..k |-> IF i = 0 THEN 1 ELSE b * p[i - 1]]
    BY <2>4 DEF IsPow
  <2>6. QED
    BY <2>5
<1>2. ASSUME NEW k \in Nat PROVE Pow(b, k) = F(k)[k]
  BY DEF Pow
<1> HIDE DEF F
<1>3. F(0)[0] = 1
  BY <1>1
<1> DEFINE T == {k \in Nat : k <= n => F(n + 1)[k] = F(n)[k]}
<1>4. 0 \in T
  BY <1>1
<1>5. ASSUME NEW k \in T PROVE k + 1 \in T
  <2> SUFFICES ASSUME k + 1 <= n PROVE F(n + 1)[k + 1] = F(n)[k + 1]
    OBVIOUS
  <2>1. k \in Nat /\ k + 1 \in 0..n /\ k + 1 \in 0..(n + 1) /\ k + 1 # 0 /\ (k + 1) - 1 = k /\ n + 1 \in Nat
    OBVIOUS
  <2>2. F(n)[k + 1] = b * F(n)[k]
    BY <1>1, <2>1
  <2>3. F(n + 1)[k + 1] = b * F(n + 1)[k]
    BY <1>1, <2>1
  <2>4. F(n + 1)[k] = F(n)[k]
    BY <2>1
  <2>5. QED
    BY <2>2, <2>3, <2>4
<1>6. T = Nat
  <2>1. T \in SUBSET Nat
    OBVIOUS
  <2> HIDE DEF T
  <2>2. QED
    BY <1>4, <1>5, <2>1, Induction
<1>7. F(n + 1)[n] = F(n)[n]
  BY <1>6
<1>8. F(n + 1)[n + 1] = b * F(n + 1)[n]
  <2>1. n + 1 \in Nat /\ n + 1 \in 0..(n + 1) /\ n + 1 # 0 /\ (n + 1) - 1 = n
    OBVIOUS
  <2>2. QED
    BY <1>1, <2>1
<1>9. QED
  BY <1>2, <1>3, <1>7, <1>8

\* Powers of sums and of products.
LEMMA PowSum ==
    ASSUME NEW b \in Nat \ {0}, NEW m \in Nat, NEW n \in Nat
    PROVE  Pow(b, m + n) = Pow(b, m) * Pow(b, n)
<1> DEFINE T == {k \in Nat : Pow(b, m + k) = Pow(b, m) * Pow(b, k)}
<1>1. 0 \in T
  <2>1. Pow(b, 0) = 1 /\ Pow(b, m) \in Nat /\ m + 0 = m
    BY PowStep, PowType
  <2>2. QED
    BY <2>1
<1>2. ASSUME NEW k \in T PROVE k + 1 \in T
  <2>1. k \in Nat /\ k + 1 \in Nat /\ m + k \in Nat /\ m + (k + 1) = (m + k) + 1
    OBVIOUS
  <2>2. Pow(b, m) \in Nat /\ Pow(b, k) \in Nat
    BY <2>1, PowType
  <2>3. Pow(b, (m + k) + 1) = b * Pow(b, m + k) /\ Pow(b, k + 1) = b * Pow(b, k)
    BY <2>1, PowStep
  <2>4. Pow(b, m + k) = Pow(b, m) * Pow(b, k)
    OBVIOUS
  <2> DEFINE x == Pow(b, m)
             y == Pow(b, k)
  <2>5. b * (x * y) = x * (b * y)
    <3>1. x \in Nat /\ y \in Nat
      BY <2>2
    <3> HIDE DEF x, y
    <3>2. QED
      BY <3>1
  <2>6. Pow(b, m + (k + 1)) = Pow(b, m) * Pow(b, k + 1)
    BY <2>1, <2>3, <2>4, <2>5
  <2>7. QED
    BY <2>1, <2>6
<1>3. T = Nat
  <2>1. T \in SUBSET Nat
    OBVIOUS
  <2> HIDE DEF T
  <2>2. QED
    BY <1>1, <1>2, <2>1, Induction
<1>4. QED
  BY <1>3

\* Powers of powers.
LEMMA PowProduct ==
    ASSUME NEW b \in Nat \ {0}, NEW m \in Nat, NEW n \in Nat
    PROVE  Pow(Pow(b, m), n) = Pow(b, m * n)
<1> DEFINE c == Pow(b, m)
           T == {k \in Nat : Pow(c, k) = Pow(b, m * k)}
<1>0. c \in Nat \ {0}
  BY PowType
<1> HIDE DEF c
<1>1. 0 \in T
  <2>1. Pow(b, 0) = 1 /\ Pow(c, 0) = 1 /\ m * 0 = 0
    BY <1>0, PowStep
  <2>2. QED
    BY <2>1
<1>2. ASSUME NEW k \in T PROVE k + 1 \in T
  <2>1. k \in Nat /\ k + 1 \in Nat /\ m * k \in Nat /\ m * (k + 1) = m + m * k
    OBVIOUS
  <2>2. Pow(c, k + 1) = c * Pow(c, k)
    BY <1>0, <2>1, PowStep
  <2>3. Pow(b, m + m * k) = c * Pow(b, m * k)
    <3> DEFINE z == m * k
    <3>1. z \in Nat
      BY <2>1
    <3> HIDE DEF z
    <3>2. Pow(b, m + z) = c * Pow(b, z)
      BY <3>1, PowSum DEF c
    <3>3. QED
      BY <3>2 DEF z
  <2>4. QED
    BY <2>1, <2>2, <2>3
<1>3. T = Nat
  <2>1. T \in SUBSET Nat
    OBVIOUS
  <2> HIDE DEF T
  <2>2. QED
    BY <1>1, <1>2, <2>1, Induction
<1>4. QED
  BY <1>3 DEF c

\* A larger exponent gives no smaller power.
LEMMA PowMonotone ==
    ASSUME NEW b \in Nat \ {0}, NEW m \in Nat, NEW n \in Nat, m <= n
    PROVE  Pow(b, m) <= Pow(b, n)
<1> DEFINE x == Pow(b, m)
           y == Pow(b, n - m)
<1>1. n - m \in Nat /\ m + (n - m) = n
  OBVIOUS
<1>2. x \in Nat /\ y \in Nat \ {0}
  BY <1>1, PowType
<1>3. Pow(b, n) = x * y
  BY <1>1, PowSum
<1> HIDE DEF x, y
<1>4. x <= x * y
  BY <1>2
<1>5. QED
  BY <1>3, <1>4 DEF x

\* The digits of x to the base b, added up again.
LEMMA ModStep ==
    ASSUME NEW x \in Nat, NEW p \in Nat \ {0}, NEW b \in Nat \ {0}
    PROVE  x % (b * p) = (x % p) + ((x \div p) % b) * p
<1> DEFINE q == x \div p
           r == x % p
           s == q \div b
           t == q % b
<1>1. q \in Nat /\ r \in Nat /\ r < p /\ x = q * p + r
  BY DivMod
<1> HIDE DEF q, r
<1>2. s \in Nat /\ t \in Nat /\ t < b /\ q = s * b + t
  BY <1>1, DivMod
<1> HIDE DEF s, t
<1>3. q * p = s * (b * p) + t * p
  BY <1>1, <1>2
<1>4. t * p + r < b * p /\ t * p \in Nat
  <2>1. t + 1 <= b
    BY <1>2
  <2>2. (t + 1) * p <= b * p
    BY <1>2, <2>1
  <2>3. (t + 1) * p = t * p + p
    BY <1>2
  <2>4. t * p \in Nat /\ b * p \in Nat
    BY <1>2
  <2>5. QED
    BY <1>1, <2>2, <2>3, <2>4
<1>5. b * p \in Nat \ {0}
  OBVIOUS
<1> DEFINE u == b * p
           w == t * p + r
<1>6. u \in Nat \ {0} /\ w \in Nat /\ w < u
  BY <1>1, <1>4, <1>5
<1>7. x = s * u + w
  <2> DEFINE y == s * (b * p)
             z == t * p
  <2>1. y \in Nat /\ z \in Nat
    BY <1>2, <1>4, <1>5
  <2>2. x = (y + z) + r
    BY <1>1, <1>3
  <2> HIDE DEF y, z
  <2>3. x = y + (z + r)
    BY <1>1, <2>1, <2>2
  <2>4. QED
    BY <2>3 DEF y, z
<1> HIDE DEF u, w
<1>8. (s * u + w) % u = w
  BY <1>2, <1>6, DivModUnique
<1>9. x % u = w
  BY <1>7, <1>8
<1>10. x % (b * p) = t * p + r
  BY <1>9 DEF u, w
<1>11. t * p + r = r + t * p
  BY <1>1, <1>4
<1>12. QED
  BY <1>10, <1>11 DEF t, q, r

\* f adds up the digits d of a number to the base b.
IsDigitSum(f, b, d, n) ==
    f = [i \in 0..n |-> IF i = 0 THEN 0 ELSE f[i - 1] + d[i] * Pow(b, i - 1)]
DigitsOf(d, x, b, n) == \A i \in 1..n : d[i] = (x \div Pow(b, i - 1)) % b

\* The digits of x, added up again, are x without what lies above them.
LEMMA DigitSum ==
    ASSUME NEW b \in Nat \ {0}, NEW x \in Nat, NEW n \in Nat, NEW d, DigitsOf(d, x, b, n)
    PROVE  /\ \E f : IsDigitSum(f, b, d, n)
           /\ \A f : IsDigitSum(f, b, d, n) => f[n] = x % Pow(b, n)
<1> DEFINE g == [i \in 0..n |-> x % Pow(b, i)]
<1>0. ASSUME NEW i \in 0..n, i # 0
      PROVE  x % Pow(b, i) = (x % Pow(b, i - 1)) + d[i] * Pow(b, i - 1)
  <2>1. i - 1 \in Nat /\ i \in 1..n /\ (i - 1) + 1 = i
    BY <1>0
  <2>2. Pow(b, i - 1) \in Nat \ {0}
    BY <2>1, PowType
  <2>3. Pow(b, i) = b * Pow(b, i - 1)
    BY <2>1, PowStep
  <2>4. d[i] = (x \div Pow(b, i - 1)) % b
    BY <2>1 DEF DigitsOf
  <2> DEFINE p == Pow(b, i - 1)
  <2> HIDE DEF p
  <2>5. x % (b * p) = (x % p) + ((x \div p) % b) * p
    BY <2>2, ModStep DEF p
  <2>6. QED
    BY <2>3, <2>4, <2>5 DEF p
<1>1. x % Pow(b, 0) = 0
  <2>1. Pow(b, 0) = 1
    BY PowStep
  <2>2. x % 1 = 0
    OBVIOUS
  <2>3. QED
    BY <2>1, <2>2
<1>2. IsDigitSum(g, b, d, n)
  <2>1. ASSUME NEW i \in 0..n
        PROVE  g[i] = IF i = 0 THEN 0 ELSE g[i - 1] + d[i] * Pow(b, i - 1)
    <3>1. CASE i = 0
      BY <1>1, <3>1
    <3>2. CASE i # 0
      <4>1. i - 1 \in 0..n
        BY <3>2
      <4>2. QED
        BY <1>0, <3>2, <4>1
    <3>3. QED
      BY <3>1, <3>2
  <2>2. QED
    BY <2>1 DEF IsDigitSum
<1>3. ASSUME NEW f, IsDigitSum(f, b, d, n) PROVE f[n] = x % Pow(b, n)
  <2> DEFINE T == {k \in Nat : k <= n => f[k] = x % Pow(b, k)}
  <2>1. f = [i \in 0..n |-> IF i = 0 THEN 0 ELSE f[i - 1] + d[i] * Pow(b, i - 1)]
    BY <1>3 DEF IsDigitSum
  <2>2. 0 \in T
    BY <1>1, <2>1
  <2>3. ASSUME NEW k \in T PROVE k + 1 \in T
    <3> SUFFICES ASSUME k + 1 <= n PROVE f[k + 1] = x % Pow(b, k + 1)
      OBVIOUS
    <3>1. k \in Nat /\ k + 1 \in 0..n /\ k + 1 # 0 /\ (k + 1) - 1 = k
      OBVIOUS
    <3>2. f[k + 1] = f[(k + 1) - 1] + d[k + 1] * Pow(b, (k + 1) - 1)
      BY <2>1, <3>1
    <3>3. f[k] = x % Pow(b, k)
      BY <3>1
    <3>4. x % Pow(b, k + 1) = (x % Pow(b, (k + 1) - 1)) + d[k + 1] * Pow(b, (k + 1) - 1)
      BY <1>0, <3>1
    <3>5. QED
      BY <3>1, <3>2, <3>3, <3>4
  <2>4. T = Nat
    <3>1. T \in SUBSET Nat
      OBVIOUS
    <3> HIDE DEF T
    <3>2. QED
      BY <2>2, <2>3, <3>1, Induction
  <2>5. QED
    BY <2>4
<1> HIDE DEF g
<1>4. QED
  BY <1>2, <1>3

\* Turning round twice.
LEMMA ReverseTwice ==
    ASSUME NEW s \in Seq(Nat)
    PROVE  Reverse(Reverse(s)) = s
<1> DEFINE n == Len(s)
           t == Reverse(s)
<1>1. n \in Nat /\ s = [i \in 1..n |-> s[i]] /\ \A i \in 1..n : n + 1 - i \in 1..n
  OBVIOUS
<1>2. t = [i \in 1..n |-> s[n + 1 - i]]
  BY DEF Reverse
<1>3. Len(t) = n
  BY ReverseType
<1>4. Reverse(t) = [i \in 1..n |-> t[n + 1 - i]]
  BY <1>3 DEF Reverse
<1>5. ASSUME NEW i \in 1..n PROVE t[n + 1 - i] = s[i]
  <2>1. n + 1 - i \in 1..n /\ n + 1 - (n + 1 - i) = i
    BY <1>1
  <2>2. QED
    BY <1>2, <2>1
<1> HIDE DEF t, n
<1>6. Reverse(t) = [i \in 1..n |-> s[i]]
  BY <1>4, <1>5
<1>7. QED
  BY <1>1, <1>6 DEF t

\* EncodeF in the byte order en.
EncodeIn(en, v, width) ==
    LET bs == Native(v % Pow(Base, width), width)
    IN  IF width > 1 /\ en # ByteOrder THEN byteswap(bs) ELSE bs

\* The bytes of an integer in the machine's order give it back.
LEMMA NativeBack ==
    ASSUME NEW x \in Nat, NEW width \in Nat
    PROVE  /\ Native(x, width) \in Seq(Nat) /\ Len(Native(x, width)) = width
           /\ OfNative(Native(x, width)) = x % Pow(Base, width)
<1> DEFINE little == [i \in 1..width |-> (x \div Pow(Base, i - 1)) % Base]
           nat == Native(x, width)
<1>1. \A i \in 1..width : (x \div Pow(Base, i - 1)) % Base \in Nat
  <2> SUFFICES ASSUME NEW i \in 1..width PROVE (x \div Pow(Base, i - 1)) % Base \in Nat
    OBVIOUS
  <2>1. Pow(Base, i - 1) \in Nat \ {0}
    BY BaseType, PowType
  <2>2. x \div Pow(Base, i - 1) \in Nat
    BY <2>1, DivMod
  <2>3. QED
    BY <2>2, BaseType, DivMod
<1>2. little \in Seq(Nat) /\ Len(little) = width
  <2>1. little \in [1..width -> Nat]
    BY <1>1
  <2> HIDE DEF little
  <2>2. QED
    BY <2>1
<1>3. DigitsOf(little, x, Base, width)
  BY DEF DigitsOf
<1>4. nat = IF ByteOrder = "little" THEN little ELSE Reverse(little)
  BY DEF Native
<1> HIDE DEF little, nat
<1>5. nat \in Seq(Nat) /\ Len(nat) = width
  BY <1>2, <1>4, ReverseType
<1>6. (IF ByteOrder = "little" THEN nat ELSE Reverse(nat)) = little
  BY <1>2, <1>4, ReverseTwice
<1> DEFINE f == CHOOSE h : h = [i \in 0..width |->
                    IF i = 0 THEN 0 ELSE h[i - 1] + little[i] * Pow(Base, i - 1)]
<1>7. OfNative(nat) = f[width]
  BY <1>5, <1>6 DEF OfNative
<1>8. PICK g : IsDigitSum(g, Base, little, width)
  BY <1>3, BaseType, DigitSum
<1>9. g = [i \in 0..width |-> IF i = 0 THEN 0 ELSE g[i - 1] + little[i] * Pow(Base, i - 1)]
  BY <1>8 DEF IsDigitSum
<1>10. f = [i \in 0..width |-> IF i = 0 THEN 0 ELSE f[i - 1] + little[i] * Pow(Base, i - 1)]
  BY <1>9
<1> HIDE DEF f
<1>11. IsDigitSum(f, Base, little, width)
  BY <1>10 DEF IsDigitSum
<1>12. f[width] = x % Pow(Base, width)
  BY <1>3, <1>11, BaseType, DigitSum
<1>13. QED
  BY <1>5, <1>7, <1>12 DEF nat

\* A number is its remainder by a larger one, and a remainder its own.
LEMMA ModSmall ==
    ASSUME NEW p \in Nat \ {0}
    PROVE  /\ \A x \in Nat : x < p => x % p = x
           /\ \A v \in Int : v % p \in Nat /\ v % p < p
<1>1. ASSUME NEW x \in Nat, x < p PROVE x % p = x
  <2>1. (0 * p + x) % p = x
    BY <1>1, DivModUnique
  <2>2. 0 * p + x = x
    OBVIOUS
  <2>3. QED
    BY <2>1, <2>2
<1>2. ASSUME NEW v \in Int PROVE v % p \in Nat /\ v % p < p
  OBVIOUS
<1>3. QED
  BY <1>1, <1>2

\* readFint8 .. readFuint64 give back what writeFint8 .. writeFuint64 wrote in
\* the same byte order, whatever the machine's.
LEMMA FixedBack ==
    ASSUME NEW v \in Int, NEW width \in Nat, NEW en
    PROVE  /\ EncodeIn(en, v, width) \in Seq(Nat) /\ Len(EncodeIn(en, v, width)) = width
           /\ en = m_endian => DecodeF(EncodeIn(en, v, width)) = v % Pow(Base, width)
<1> DEFINE p == Pow(Base, width)
           x == v % p
           nat == Native(x, width)
           e == EncodeIn(en, v, width)
<1>1. p \in Nat \ {0}
  BY BaseType, PowType
<1>2. x \in Nat /\ x % p = x
  <2> HIDE DEF p
  <2>1. x \in Nat /\ x < p
    BY <1>1, ModSmall
  <2> HIDE DEF x
  <2>2. QED
    BY <1>1, <2>1, ModSmall
<1>3. e = IF width > 1 /\ en # ByteOrder THEN Reverse(nat) ELSE nat
  BY DEF EncodeIn, byteswap
<1> HIDE DEF x, e
<1>4. nat \in Seq(Nat) /\ Len(nat) = width /\ OfNative(nat) = x % p
  BY <1>2, NativeBack
<1> HIDE DEF nat, p
<1>5. e \in Seq(Nat) /\ Len(e) = width
  BY <1>3, <1>4, ReverseType
<1>6. ASSUME en = m_endian PROVE DecodeF(e) = x
  <2>1. DecodeF(e) = OfNative(IF width > 1 /\ en # ByteOrder THEN Reverse(e) ELSE e)
    BY <1>5, <1>6 DEF DecodeF, byteswap
  <2>2. (IF width > 1 /\ en # ByteOrder THEN Reverse(e) ELSE e) = nat
    BY <1>3, <1>4, ReverseTwice
  <2>3. QED
    BY <1>2, <1>4, <2>1, <2>2
<1>7. QED
  BY <1>5, <1>6 DEF e, x, p

-----------------------------------------------------------------------------
(* Variable-length integers.                                               *)

\* The bits of a byte, of its group, and how many groups width bytes take.
GroupBits == ByteBits - 1
Most(width) == (width * ByteBits + ByteBits - 2) \div GroupBits
MostGroups == (8 * ByteBits) \div GroupBits

\* Base and Group are powers of 2.
LEMMA Powers ==
    /\ GroupBits \in Nat \ {0} /\ Group = Pow(2, GroupBits) /\ Group \in Nat \ {0} /\ Group >= 2
    /\ \A k \in Nat : Pow(Base, k) = Pow(2, ByteBits * k) /\ Pow(Group, k) = Pow(2, GroupBits * k)
<1>1. GroupBits \in Nat \ {0} /\ ByteBits \in Nat /\ GroupBits + 1 = ByteBits
  BY ByteArrayAssumption DEF GroupBits
<1>2. Base = 2 * Pow(2, GroupBits)
  BY <1>1, PowStep DEF Base
<1>3. Pow(2, GroupBits) \in Nat \ {0} /\ Pow(2, GroupBits) >= 2
  BY <1>1, PowType
<1>4. Group = Pow(2, GroupBits)
  <2> DEFINE x == Pow(2, GroupBits)
  <2> HIDE DEF x
  <2>1. x \in Nat
    BY <1>3 DEF x
  <2>2. (2 * x) \div 2 = x
    BY <2>1
  <2>3. QED
    BY <1>2, <2>2 DEF Group, x
<1>5. ASSUME NEW k \in Nat
      PROVE  Pow(Base, k) = Pow(2, ByteBits * k) /\ Pow(Group, k) = Pow(2, GroupBits * k)
  <2>1. 2 \in Nat \ {0} /\ GroupBits \in Nat
    BY <1>1
  <2>2. Pow(Pow(2, ByteBits), k) = Pow(2, ByteBits * k)
    BY <1>1, <2>1, PowProduct
  <2>3. Pow(Pow(2, GroupBits), k) = Pow(2, GroupBits * k)
    BY <2>1, PowProduct
  <2>4. QED
    BY <1>4, <2>2, <2>3 DEF Base
<1>6. QED
  BY <1>1, <1>3, <1>4, <1>5

\* They are positive.
LEMMA BasePowers == \A k \in Nat : Pow(Base, k) \in Nat \ {0}
<1>1. Base \in Nat \ {0}
  BY BaseType
<1>2. QED
  BY <1>1, PowType

\* So are those of a group.
LEMMA GroupPowers == Group \in Nat \ {0} /\ \A k \in Nat : Pow(Group, k) \in Nat \ {0}
<1>1. Group \in Nat \ {0}
  BY Powers
<1>2. QED
  BY <1>1, PowType

\* Most(width) groups hold width bytes, and 8 bytes need at most one more than
\* the loop of the encoder counts.
LEMMA MostHolds ==
    ASSUME NEW width \in 1..8
    PROVE  /\ Most(width) \in Nat \ {0} /\ MostGroups \in Nat
           /\ width * ByteBits <= GroupBits * Most(width) /\ Most(width) <= MostGroups + 1
<1> DEFINE a == width * ByteBits
           b == a + ByteBits - 2
           m == Most(width)
           K == MostGroups
           z == 8 * ByteBits
<1>1. GroupBits \in Nat \ {0} /\ ByteBits \in Nat \ {0, 1} /\ ByteBits = GroupBits + 1
  BY ByteArrayAssumption DEF GroupBits
<1>2. a \in Nat /\ a >= 1 /\ a <= z /\ z \in Nat
  BY <1>1
<1> HIDE DEF a, z
<1>3. b \in Nat /\ b = a + (GroupBits - 1)
  BY <1>1, <1>2
<1> HIDE DEF b
<1>4. m = b \div GroupBits /\ K = z \div GroupBits
  BY DEF Most, MostGroups, a, b, z
<1>5. /\ m \in Nat /\ b % GroupBits \in Nat /\ b % GroupBits < GroupBits
      /\ b = m * GroupBits + (b % GroupBits)
      /\ K \in Nat /\ z % GroupBits \in Nat /\ z % GroupBits < GroupBits
      /\ z = K * GroupBits + (z % GroupBits)
  BY <1>1, <1>2, <1>3, <1>4, DivMod
<1> HIDE DEF m, K
<1>6. a <= m * GroupBits
  <2> DEFINE y == m * GroupBits
             r == b % GroupBits
  <2>1. y \in Nat /\ r \in Nat /\ r < GroupBits /\ b = y + r
    BY <1>1, <1>5
  <2> HIDE DEF y, r
  <2>2. a <= y
    BY <1>1, <1>2, <1>3, <2>1
  <2>3. QED
    BY <2>2 DEF y
<1>7. m # 0
  BY <1>1, <1>2, <1>6
<1>8. m <= K + 1
  <2>1. (K + 2) * GroupBits = K * GroupBits + 2 * GroupBits
    BY <1>1, <1>5
  <2>2. b < (K + 2) * GroupBits
    <3> DEFINE y == K * GroupBits
               r == z % GroupBits
    <3>1. y \in Nat /\ r \in Nat /\ r < GroupBits /\ z = y + r
      BY <1>1, <1>5
    <3> HIDE DEF y, r
    <3>2. b < y + 2 * GroupBits
      BY <1>1, <1>2, <1>3, <3>1
    <3>3. QED
      BY <2>1, <3>2 DEF y
  <2>3. b \div GroupBits < K + 2
    BY <1>1, <1>3, <1>5, <2>2, DivLess
  <2>4. QED
    BY <1>4, <1>5, <2>3 DEF m
<1>9. m * GroupBits = GroupBits * m
  BY <1>1, <1>5
<1>10. QED
  BY <1>5, <1>6, <1>7, <1>8, <1>9 DEF m, K, a

\* The size of 1..n.
LEMMA UpTo == \A n \in Nat : IsFiniteSet(1..n) /\ Cardinality(1..n) = n
<1> SUFFICES ASSUME NEW n \in Nat PROVE IsFiniteSet(1..n) /\ Cardinality(1..n) = n
  OBVIOUS
<1>1. IsFiniteSet(1..n) /\ Cardinality(1..n) = IF 1 > n THEN 0 ELSE n - 1 + 1
  BY FS_Interval
<1>2. QED
  BY <1>1

\* The encoder makes as many groups as x needs, and no more than are read.
LEMMA GroupsFit ==
    ASSUME NEW width \in 1..8, NEW x \in Nat, x < Pow(Base, width)
    PROVE  /\ GroupsOf(x) \in Nat \ {0} /\ GroupsOf(x) <= Most(width)
           /\ x < Pow(Group, GroupsOf(x))
<1> DEFINE m == Most(width)
           K == MostGroups
           S == {k \in 1..K : x >= Pow(Group, k)}
           n == GroupsOf(x)
<1>1. m \in Nat \ {0} /\ K \in Nat /\ width * ByteBits <= GroupBits * m /\ m <= K + 1
  BY MostHolds
<1> HIDE DEF m, K
<1>2. x < Pow(Group, m)
  <2>1. GroupBits * m \in Nat /\ ByteBits * width \in Nat /\ ByteBits * width <= GroupBits * m
    <3>1. GroupBits \in Nat /\ ByteBits \in Nat
      BY ByteArrayAssumption DEF GroupBits
    <3>2. ByteBits * width = width * ByteBits
      BY <3>1
    <3>3. QED
      BY <1>1, <3>1, <3>2
  <2>2. Pow(2, ByteBits * width) <= Pow(2, GroupBits * m)
    <3> DEFINE y == ByteBits * width
               z == GroupBits * m
    <3> HIDE DEF y, z
    <3>1. y \in Nat /\ z \in Nat /\ y <= z
      BY <2>1 DEF y, z
    <3>2. Pow(2, y) <= Pow(2, z)
      BY <3>1, PowMonotone
    <3>3. QED
      BY <3>2 DEF y, z
  <2>3. Pow(Base, width) = Pow(2, ByteBits * width) /\ Pow(Group, m) = Pow(2, GroupBits * m)
    BY <1>1, Powers
  <2>4. Pow(Base, width) \in Nat /\ Pow(Group, m) \in Nat
    BY <1>1, GroupPowers, BasePowers
  <2>5. QED
    BY <2>2, <2>3, <2>4
<1>3. ASSUME NEW j \in Nat, NEW k \in Nat, j <= k
      PROVE  Pow(Group, j) <= Pow(Group, k) /\ Pow(Group, j) \in Nat /\ Pow(Group, k) \in Nat
  BY <1>3, Powers, PowMonotone, PowType
<1>4. S \subseteq 1..(m - 1)
  <2> SUFFICES ASSUME NEW k \in S, ~(k < m) PROVE FALSE
    BY <1>1
  <2>1. k \in Nat /\ m <= k /\ x >= Pow(Group, k)
    BY <1>1
  <2>2. Pow(Group, m) <= Pow(Group, k) /\ Pow(Group, m) \in Nat /\ Pow(Group, k) \in Nat
    BY <1>1, <1>3, <2>1
  <2>3. QED
    BY <1>2, <2>1, <2>2
<1>5. IsFiniteSet(1..(m - 1)) /\ Cardinality(1..(m - 1)) = m - 1
  <2>1. m - 1 \in Nat
    BY <1>1
  <2>2. QED
    BY <2>1, UpTo
<1>6. IsFiniteSet(S) /\ Cardinality(S) <= m - 1 /\ Cardinality(S) \in Nat
  <2> HIDE DEF S
  <2>1. IsFiniteSet(S) /\ Cardinality(S) <= Cardinality(1..(m - 1))
    BY <1>4, <1>5, FS_Subset
  <2>2. Cardinality(S) \in Nat
    BY <2>1, FS_CardinalityType
  <2>3. QED
    BY <1>5, <2>1, <2>2
<1>7. n = 1 + Cardinality(S)
  BY DEF GroupsOf, K, MostGroups, GroupBits
<1>8. n \in Nat \ {0} /\ n <= m
  <2> HIDE DEF n, S
  <2>1. QED
    BY <1>1, <1>6, <1>7
<1>9. x < Pow(Group, n)
  <2> HIDE DEF n
  <2>1. Pow(Group, n) \in Nat
    BY <1>3, <1>8
  <2> SUFFICES ASSUME x >= Pow(Group, n) PROVE FALSE
    BY <2>1
  <2>2. n # m
    BY <1>2, <2>1
  <2>3. n <= K
    BY <1>1, <1>8, <2>2
  <2>4. 1..n \subseteq S
    <3> SUFFICES ASSUME NEW k \in 1..n PROVE k \in 1..K /\ x >= Pow(Group, k)
      OBVIOUS
    <3>1. k \in Nat /\ k <= n /\ k \in 1..K
      BY <1>1, <1>8, <2>3
    <3>2. Pow(Group, k) <= Pow(Group, n) /\ Pow(Group, k) \in Nat
      BY <1>3, <1>8, <3>1
    <3>3. QED
      BY <2>1, <3>1, <3>2
  <2> HIDE DEF S
  <2>5. Cardinality(1..n) <= Cardinality(S)
    BY <1>6, <2>4, FS_Subset
  <2>6. Cardinality(1..n) = n
    <3>1. n \in Nat
      BY <1>8
    <3>2. QED
      BY <3>1, UpTo
  <2>7. QED
    BY <1>6, <1>7, <1>8, <2>5, <2>6
<1>10. QED
  BY <1>8, <1>9 DEF n, m

\* The groups of x: all but the last have the top bit.
LEMMA GroupBytes ==
    ASSUME NEW x \in Nat, NEW n \in Nat, n = GroupsOf(x), NEW i \in 1..n
    PROVE  /\ EncodeVar(x)[i] % Group = (x \div Pow(Group, i - 1)) % Group
           /\ EncodeVar(x)[i] < Group <=> i = n
<1> DEFINE d == (x \div Pow(Group, i - 1)) % Group
<1>1. EncodeVar(x)[i] = d + (IF i < n THEN Group ELSE 0)
  BY DEF EncodeVar
<1>2. Group \in Nat \ {0} /\ i - 1 \in Nat
  BY Powers
<1>3. d \in Nat /\ d < Group
  <2>1. Pow(Group, i - 1) \in Nat \ {0}
    BY <1>2, PowType
  <2>2. x \div Pow(Group, i - 1) \in Nat
    BY <2>1, DivMod
  <2>3. QED
    BY <1>2, <2>2, DivMod
<1> HIDE DEF d
<1>4. (0 * Group + d) % Group = d /\ (1 * Group + d) % Group = d
  <2>1. 0 \in Nat /\ 1 \in Nat
    OBVIOUS
  <2>2. QED
    BY <1>2, <1>3, <2>1, DivModUnique
<1>5. 0 * Group + d = d + 0 /\ 1 * Group + d = d + Group
  BY <1>2, <1>3
<1>6. CASE i < n
  <2>1. EncodeVar(x)[i] = d + Group
    BY <1>1, <1>6
  <2>2. ~(d + Group < Group) /\ i # n
    BY <1>2, <1>3, <1>6
  <2>3. QED
    BY <1>4, <1>5, <2>1, <2>2 DEF d
<1>7. CASE ~(i < n)
  <2>1. EncodeVar(x)[i] = d + 0 /\ i = n
    BY <1>1, <1>7
  <2>2. d + 0 < Group
    BY <1>2, <1>3
  <2>3. QED
    BY <1>4, <1>5, <2>1, <2>2 DEF d
<1>8. QED
  BY <1>6, <1>7

\* rest begins with e.
Begins(rest, e) == Len(e) <= Len(rest) /\ \A i \in 1..Len(e) : rest[i] = e[i]

\* readuint32 and readuint64 stop where the encoder stopped, and give x back.
LEMMA VariableBack ==
    ASSUME NEW width \in 1..8, NEW x \in Nat, x < Pow(Base, width),
           NEW rest \in Seq(Nat), Begins(rest, EncodeVar(x))
    PROVE  /\ EncodeVar(x) \in Seq(Nat) /\ Len(EncodeVar(x)) > 0
           /\ VarLen(rest, width) = Len(EncodeVar(x))
           /\ DecodeVar(EncodeVar(x), width) = x
<1> DEFINE n == GroupsOf(x)
           e == EncodeVar(x)
           last == {i \in 1..Len(rest) : rest[i] < Group}
           most == Most(width)
           first == IF last = {} THEN most ELSE CHOOSE i \in last : \A j \in last : i <= j
<1>1. n \in Nat \ {0} /\ n <= most /\ x < Pow(Group, n) /\ most \in Nat
  BY GroupsFit, MostHolds
<1>2. e \in Seq(Nat) /\ Len(e) = n
  <2>1. e \in Seq(Nat)
    BY EncodeVarType
  <2>2. DOMAIN e = 1..n
    BY DEF EncodeVar
  <2> HIDE DEF n, e
  <2>3. QED
    BY <1>1, <2>1, <2>2
<1>3. ASSUME NEW i \in 1..n
      PROVE  /\ e[i] % Group = (x \div Pow(Group, i - 1)) % Group
             /\ e[i] < Group <=> i = n
  BY <1>1, GroupBytes
<1>4. n <= Len(rest) /\ \A i \in 1..n : rest[i] = e[i]
  BY <1>2 DEF Begins
<1>5. VarLen(rest, width) = IF first < most THEN first ELSE most
  BY DEF VarLen, Most, GroupBits
<1> HIDE DEF n, e, most
<1>6. n \in last /\ \A j \in last : n <= j
  <2>1. n \in last
    BY <1>1, <1>3, <1>4
  <2>2. ASSUME NEW j \in last, j < n PROVE FALSE
    <3>1. j \in 1..n /\ rest[j] < Group
      BY <1>1, <2>2
    <3>2. rest[j] = e[j] /\ (e[j] < Group <=> j = n)
      BY <1>3, <1>4, <3>1
    <3>3. j # n
      BY <1>1, <2>2, <3>1
    <3>4. QED
      BY <3>1, <3>2, <3>3
  <2>3. \A j \in last : j \in Nat
    OBVIOUS
  <2>4. QED
    BY <1>1, <2>1, <2>2, <2>3
<1>7. first = n
  <2>1. \A j \in last : j \in Nat
    OBVIOUS
  <2> HIDE DEF last
  <2>2. \A i \in last : (\A j \in last : i <= j) => i = n
    BY <1>1, <1>6, <2>1
  <2>3. (CHOOSE i \in last : \A j \in last : i <= j) = n
    BY <1>6, <2>2
  <2>4. QED
    BY <1>6, <2>3
<1> HIDE DEF first
<1>8. VarLen(rest, width) = n
  BY <1>1, <1>5, <1>7
<1> DEFINE d == [i \in 1..n |-> e[i] % Group]
           f == CHOOSE h : h = [i \in 0..n |->
                    IF i = 0 THEN 0 ELSE h[i - 1] + (e[i] % Group) * Pow(Group, i - 1)]
<1>9. DecodeVar(e, width) = f[n] % Pow(Base, width)
  BY <1>2 DEF DecodeVar
<1>10. DigitsOf(d, x, Group, n)
  BY <1>3 DEF DigitsOf
<1>11. PICK h : IsDigitSum(h, Group, d, n)
  <2>1. n \in Nat /\ Group \in Nat \ {0}
    BY <1>1, GroupPowers
  <2>2. QED
    BY <1>10, <2>1, DigitSum
<1>12. ASSUME NEW k
       PROVE  IsDigitSum(k, Group, d, n)
                <=> k = [i \in 0..n |->
                            IF i = 0 THEN 0 ELSE k[i - 1] + (e[i] % Group) * Pow(Group, i - 1)]
  <2>1. ASSUME NEW i \in 0..n
        PROVE  (IF i = 0 THEN 0 ELSE k[i - 1] + d[i] * Pow(Group, i - 1))
                 = (IF i = 0 THEN 0 ELSE k[i - 1] + (e[i] % Group) * Pow(Group, i - 1))
    <3>1. i # 0 => i \in 1..n
      BY <1>1
    <3>2. QED
      BY <3>1
  <2> HIDE DEF d
  <2>2. QED
    BY <2>1 DEF IsDigitSum
<1>13. f = [i \in 0..n |-> IF i = 0 THEN 0 ELSE f[i - 1] + (e[i] % Group) * Pow(Group, i - 1)]
  BY <1>11, <1>12
<1> HIDE DEF f
<1>14. IsDigitSum(f, Group, d, n)
  BY <1>12, <1>13
<1> HIDE DEF d
<1>15. f[n] = x % Pow(Group, n)
  <2>1. n \in Nat /\ Group \in Nat \ {0}
    BY <1>1, GroupPowers
  <2>2. QED
    BY <1>10, <1>14, <2>1, DigitSum
<1>16. x % Pow(Group, n) = x /\ x % Pow(Base, width) = x
  <2>0. width \in Nat /\ n \in Nat
    BY <1>1
  <2>1. Pow(Group, n) \in Nat \ {0} /\ Pow(Base, width) \in Nat \ {0}
    BY <2>0, GroupPowers, BasePowers
  <2>2. QED
    BY <1>1, <2>1, ModSmall
<1>17. QED
  BY <1>1, <1>2, <1>8, <1>9, <1>15, <1>16 DEF e

\* The zigzag code of a number gives it back.
LEMMA ZigzagBack ==
    ASSUME NEW v \in Int
    PROVE  Zigzag(v) \in Nat /\ DecodeZigzag(Zigzag(v)) = v
BY DEF Zigzag, DecodeZigzag

-----------------------------------------------------------------------------
(* The values in the array.                                                *)

\* One write, and two.
LEMMA JoinedOne ==
    ASSUME NEW s \in Seq(Nat)
    PROVE  Joined(<<s>>) = s
<1> DEFINE f == CHOOSE h : h = [i \in 0..1 |-> IF i = 0 THEN <<>> ELSE h[i - 1] \o <<s>>[i]]
<1>1. PICK h : IsTo(h, <<s>>, 1)
  BY AfterExists
<1>2. h = [i \in 0..1 |-> IF i = 0 THEN <<>> ELSE h[i - 1] \o <<s>>[i]]
  BY <1>1 DEF IsTo
<1>3. f = [i \in 0..1 |-> IF i = 0 THEN <<>> ELSE f[i - 1] \o <<s>>[i]]
  BY <1>2
<1>4. Joined(<<s>>) = f[1]
  BY DEF Joined
<1> HIDE DEF f
<1>5. f[0] = <<>> /\ f[1] = f[0] \o s
  <2>1. 0 \in 0..1 /\ 1 \in 0..1 /\ 1 - 1 = 0 /\ <<s>>[1] = s
    OBVIOUS
  <2>2. f[0] = <<>>
    BY <1>3, <2>1
  <2>3. f[1] = f[0] \o s
    BY <1>3, <2>1
  <2>4. QED
    BY <2>2, <2>3
<1>6. <<>> \o s = s
  OBVIOUS
<1>7. QED
  BY <1>4, <1>5, <1>6

\* The size of a string and its bytes.
LEMMA JoinedTwo ==
    ASSUME NEW s \in Seq(Nat), NEW t \in Seq(Nat)
    PROVE  Joined(<<s, t>>) = s \o t
<1> DEFINE p == <<s, t>>
           f == CHOOSE h : h = [i \in 0..2 |-> IF i = 0 THEN <<>> ELSE h[i - 1] \o p[i]]
<1>1. PICK h : IsTo(h, p, 2)
  BY AfterExists
<1>2. h = [i \in 0..2 |-> IF i = 0 THEN <<>> ELSE h[i - 1] \o p[i]]
  BY <1>1 DEF IsTo
<1>3. f = [i \in 0..2 |-> IF i = 0 THEN <<>> ELSE f[i - 1] \o p[i]]
  BY <1>2
<1>4. Joined(p) = f[2]
  BY DEF Joined
<1> HIDE DEF f
<1>5. f[0] = <<>> /\ f[1] = f[0] \o s /\ f[2] = f[1] \o t
  <2>1. 0 \in 0..2 /\ 1 \in 0..2 /\ 2 \in 0..2 /\ 1 - 1 = 0 /\ 2 - 1 = 1
    OBVIOUS
  <2>2. p[1] = s /\ p[2] = t
    OBVIOUS
  <2> HIDE DEF p
  <2>3. f[0] = <<>>
    BY <1>3, <2>1
  <2>4. f[1] = f[0] \o s
    BY <1>3, <2>1, <2>2
  <2>5. f[2] = f[1] \o t
    <3>1. \A i \in 0..2 : i # 0 => f[i] = f[i - 1] \o p[i]
      BY <1>3
    <3>2. f[2] = f[2 - 1] \o p[2]
      <4>1. 2 # 0
        OBVIOUS
      <4>2. QED
        BY <2>1, <3>1, <4>1, Zenon
    <3>3. QED
      BY <2>1, <2>2, <3>2
  <2>6. QED
    BY <2>3, <2>4, <2>5
<1>6. <<>> \o s = s
  OBVIOUS
<1>7. QED
  BY <1>4, <1>5, <1>6

\* What the client may write as a type.
OfType(type, v) ==
    \/ type \in Types \ (DOMAIN Length \union {"raw"}) /\ v \in Numbers
    \/ type \in Types \intersect (DOMAIN Length \union {"raw"}) /\ v \in Strings

\* The bytes of a value written in the byte order en.
EncodedIn(en, type, v) ==
    CASE type \in DOMAIN Fixed -> EncodeIn(en, v, Fixed[type])
      [] type \in DOMAIN Length -> EncodeIn(en, Len(v), Length[type]) \o v
      [] type = "uint32" -> EncodeVar(v % Pow(Base, 4))
      [] type = "uint64" -> EncodeVar(v % Pow(Base, 8))
      [] type = "int32" -> EncodeVar(EncodeZigzag32(v))
      [] type = "int64" -> EncodeVar(EncodeZigzag64(v))
      [] OTHER -> v

\* The four kinds of types.
LEMMA Kinds ==
    /\ DOMAIN Fixed = {"fixed8", "fixed16", "fixed32", "fixed64", "float", "double"}
    /\ DOMAIN Length = {"string16", "string32", "string64", "stringVint"}
    /\ \A type \in DOMAIN Fixed : Fixed[type] \in 1..8
    /\ \A type \in DOMAIN Length : Length[type] \in 1..8
BY DEF Fixed, Length

\* What a variable-length integer is made of.
LEMMA VariableType ==
    ASSUME NEW v \in Int
    PROVE  /\ v % Pow(Base, 4) \in Nat /\ v % Pow(Base, 4) < Pow(Base, 4)
           /\ v % Pow(Base, 8) \in Nat /\ v % Pow(Base, 8) < Pow(Base, 8)
           /\ EncodeZigzag32(v) \in Nat /\ EncodeZigzag32(v) < Pow(Base, 4)
           /\ EncodeZigzag64(v) \in Nat /\ EncodeZigzag64(v) < Pow(Base, 4)
           /\ Pow(Base, 4) <= Pow(Base, 8)
           /\ Pow(Base, 4) \in Nat \ {0} /\ Pow(Base, 8) \in Nat \ {0}
<1>1. Pow(Base, 4) \in Nat \ {0} /\ Pow(Base, 8) \in Nat \ {0}
  <2>1. 4 \in Nat /\ 8 \in Nat
    OBVIOUS
  <2>2. QED
    BY <2>1, BasePowers
<1>2. Pow(Base, 4) <= Pow(Base, 8)
  <2>1. Base \in Nat \ {0} /\ 4 \in Nat /\ 8 \in Nat /\ 4 <= 8
    BY BaseType
  <2>2. QED
    BY <2>1, PowMonotone
<1> DEFINE p == Pow(Base, 4)
           q == Pow(Base, 8)
<1> HIDE DEF p, q
<1>3. p \in Nat \ {0} /\ q \in Nat \ {0}
  BY <1>1 DEF p, q
<1>4. v % p \in Nat /\ v % p < p /\ v % q \in Nat /\ v % q < q
  BY <1>3, ModSmall
<1>5. Zigzag(v) \in Int
  BY ZigzagBack
<1>6. Zigzag(v) % p \in Nat /\ Zigzag(v) % p < p
  BY <1>3, <1>5, ModSmall
<1>7. QED
  BY <1>1, <1>2, <1>4, <1>6 DEF EncodeZigzag32, EncodeZigzag64, p, q

\* A typed write writes the bytes of its value, in the byte order of the array.
LEMMA JoinedParts ==
    ASSUME NEW type, NEW v, OfType(type, v)
    PROVE  /\ Joined(Parts(type, v)) = EncodedIn(m_endian, type, v)
           /\ \A en : EncodedIn(en, type, v) \in Seq(Nat)
<1>0. /\ type \in Types
      /\ (type \in DOMAIN Length \/ type = "raw") => v \in Seq(Nat)
      /\ ~(type \in DOMAIN Length \/ type = "raw") => v \in Int
  BY StringType, ByteArrayAssumption DEF OfType
<1>1. CASE type \in DOMAIN Fixed
  <2>1. ~(type \in DOMAIN Length \/ type = "raw") /\ Fixed[type] \in Nat
    BY <1>1, Kinds
  <2>a. type \notin DOMAIN Length /\ type \notin {"uint32", "uint64", "int32", "int64"}
    BY <1>1, Kinds
  <2>2. v \in Int
    BY <1>0, <2>1
  <2>3. \A en : EncodeIn(en, v, Fixed[type]) \in Seq(Nat)
    BY <2>1, <2>2, FixedBack
  <2>4. EncodeF(v, Fixed[type]) = EncodeIn(m_endian, v, Fixed[type])
    BY DEF EncodeF, EncodeIn
  <2>5. Parts(type, v) = <<EncodeF(v, Fixed[type])>>
    BY <1>1, <2>a, Zenon DEF Parts
  <2>6. \A en : EncodedIn(en, type, v) = EncodeIn(en, v, Fixed[type])
    BY <1>1, <2>a, Zenon DEF EncodedIn
  <2>7. QED
    BY <2>3, <2>4, <2>5, <2>6, JoinedOne
<1>2. CASE type \in DOMAIN Length
  <2>1. type \notin DOMAIN Fixed /\ Length[type] \in Nat
    BY <1>2, Kinds
  <2>a. type \notin {"uint32", "uint64", "int32", "int64"}
    BY <1>2, Kinds
  <2>2. v \in Seq(Nat) /\ Len(v) \in Int
    BY <1>0, <1>2
  <2>3. \A en : EncodeIn(en, Len(v), Length[type]) \in Seq(Nat)
    BY <2>1, <2>2, FixedBack
  <2>4. EncodeF(Len(v), Length[type]) = EncodeIn(m_endian, Len(v), Length[type])
    BY DEF EncodeF, EncodeIn
  <2>5. Parts(type, v) = <<EncodeF(Len(v), Length[type]), v>>
    BY <1>2, <2>1, <2>a, Zenon DEF Parts
  <2>6. \A en : EncodedIn(en, type, v) = EncodeIn(en, Len(v), Length[type]) \o v
    BY <1>2, <2>1, <2>a, Zenon DEF EncodedIn
  <2>7. Joined(Parts(type, v)) = EncodeIn(m_endian, Len(v), Length[type]) \o v
    BY <2>2, <2>3, <2>4, <2>5, JoinedTwo
  <2>8. \A en : EncodeIn(en, Len(v), Length[type]) \o v \in Seq(Nat)
    BY <2>2, <2>3
  <2>9. QED
    BY <2>6, <2>7, <2>8
<1>3. CASE type \in Variable
  <2>1. ~(type \in DOMAIN Fixed) /\ ~(type \in DOMAIN Length) /\ type # "raw"
    BY <1>3, Kinds DEF Variable
  <2>2. v \in Int
    BY <1>0, <2>1
  <2>3. PICK x \in Nat : /\ Parts(type, v) = <<EncodeVar(x)>>
                         /\ \A en : EncodedIn(en, type, v) = EncodeVar(x)
    <3>1. CASE type = "uint32"
      <4>1. v % Pow(Base, 4) \in Nat
        BY <2>2, VariableType
      <4>2. Parts(type, v) = <<EncodeVar(v % Pow(Base, 4))>>
        BY <2>1, <3>1 DEF Parts
      <4>3. \A en : EncodedIn(en, type, v) = EncodeVar(v % Pow(Base, 4))
        BY <2>1, <3>1 DEF EncodedIn
      <4>4. QED
        BY <4>1, <4>2, <4>3
    <3>2. CASE type = "uint64"
      <4>1. v % Pow(Base, 8) \in Nat
        BY <2>2, VariableType
      <4>2. Parts(type, v) = <<EncodeVar(v % Pow(Base, 8))>>
        BY <2>1, <3>2 DEF Parts
      <4>3. \A en : EncodedIn(en, type, v) = EncodeVar(v % Pow(Base, 8))
        BY <2>1, <3>2 DEF EncodedIn
      <4>4. QED
        BY <4>1, <4>2, <4>3
    <3>3. CASE type = "int32"
      <4>1. EncodeZigzag32(v) \in Nat
        BY <2>2, VariableType
      <4>2. Parts(type, v) = <<EncodeVar(EncodeZigzag32(v))>>
        BY <2>1, <3>3 DEF Parts
      <4>3. \A en : EncodedIn(en, type, v) = EncodeVar(EncodeZigzag32(v))
        BY <2>1, <3>3 DEF EncodedIn
      <4>4. QED
        BY <4>1, <4>2, <4>3
    <3>4. CASE type = "int64"
      <4>1. EncodeZigzag64(v) \in Nat
        BY <2>2, VariableType
      <4>2. Parts(type, v) = <<EncodeVar(EncodeZigzag64(v))>>
        BY <2>1, <3>4 DEF Parts
      <4>3. \A en : EncodedIn(en, type, v) = EncodeVar(EncodeZigzag64(v))
        BY <2>1, <3>4 DEF EncodedIn
      <4>4. QED
        BY <4>1, <4>2, <4>3
    <3>5. QED
      BY <1>3, <3>1, <3>2, <3>3, <3>4 DEF Variable
  <2>4. EncodeVar(x) \in Seq(Nat)
    BY EncodeVarType
  <2>5. QED
    BY <2>3, <2>4, JoinedOne
<1>4. CASE ~(type \in DOMAIN Fixed) /\ ~(type \in DOMAIN Length) /\ ~(type \in Variable)
  <2>1. type = "raw"
    BY <1>0, <1>4, TypesAssumption
  <2>2. v \in Seq(Nat)
    BY <1>0, <2>1
  <2>3. Parts(type, v) = <<v>>
    BY <1>4, <2>1 DEF Parts, Variable
  <2>4. \A en : EncodedIn(en, type, v) = v
    BY <1>4, <2>1 DEF EncodedIn, Variable
  <2>5. QED
    BY <2>2, <2>3, <2>4, JoinedOne
<1>5. QED
  BY <1>1, <1>2, <1>3, <1>4

\* The bytes e lie at the offset at of c.
Lies(e, at, c) ==
    /\ at \in Nat /\ e \in Seq(Nat) /\ at + Len(e) <= Len(c)
    /\ \A k \in 1..Len(e) : c[at + k] = e[k]
\* c holds the value w is the record of.
Holds(w, c) ==
    \E v : /\ OfType(w.type, v) /\ w.v = AsHeld(w.type, v)
           /\ w.len = Len(EncodedIn(w.m_endian, w.type, v))
           /\ Lies(EncodedIn(w.m_endian, w.type, v), w.at, c)
ValuesHold == \A w \in written : Holds(w, Content)

\* Bytes stay where they are in a longer content,
LEMMA LiesLonger ==
    ASSUME NEW c \in Seq(Nat), NEW d \in Seq(Nat), Begins(d, c), NEW e, NEW at, Lies(e, at, c)
    PROVE  Lies(e, at, d)
<1>1. at \in Nat /\ Len(e) \in Nat /\ Len(c) \in Nat /\ Len(d) \in Nat
      /\ at + Len(e) <= Len(c) /\ Len(c) <= Len(d)
  BY DEF Lies, Begins
<1>2. ASSUME NEW k \in 1..Len(e) PROVE d[at + k] = e[k]
  <2>1. at + k \in 1..Len(c)
    BY <1>1
  <2>2. QED
    BY <2>1 DEF Lies, Begins
<1>3. QED
  BY <1>1, <1>2 DEF Lies

\* and when others are overwritten,
LEMMA LiesOver ==
    ASSUME NEW c \in Seq(Nat), NEW p \in Nat, p <= Len(c), NEW bs \in Seq(Nat),
           NEW e, NEW at, Lies(e, at, c), at + Len(e) <= p \/ at >= p + Len(bs)
    PROVE  Lies(e, at, Over(c, p, bs))
<1> DEFINE d == Over(c, p, bs)
           n == IF p + Len(bs) > Len(c) THEN p + Len(bs) ELSE Len(c)
<1>1. /\ at \in Nat /\ Len(e) \in Nat /\ Len(c) \in Nat /\ Len(bs) \in Nat
      /\ at + Len(e) <= Len(c)
  BY DEF Lies
<1>2. n \in Nat /\ Len(c) <= n
  BY <1>1
<1>3. d = [i \in 1..n |-> IF i > p /\ i <= p + Len(bs) THEN bs[i - p] ELSE c[i]]
  BY DEF Over
<1> HIDE DEF n, d
<1>4. Len(d) = n
  BY <1>2, <1>3
<1>5. ASSUME NEW k \in 1..Len(e) PROVE d[at + k] = e[k]
  <2>1. at + k \in 1..n /\ ~(at + k > p /\ at + k <= p + Len(bs))
    BY <1>1, <1>2
  <2>2. d[at + k] = c[at + k]
    BY <1>3, <2>1
  <2>3. QED
    BY <2>2 DEF Lies
<1>6. QED
  BY <1>1, <1>2, <1>4, <1>5, SMTT(40) DEF Lies, d

\* and written bytes lie where they were written.
LEMMA LiesWritten ==
    ASSUME NEW c \in Seq(Nat), NEW p \in Nat, p <= Len(c), NEW bs \in Seq(Nat)
    PROVE  Lies(bs, p, Over(c, p, bs))
<1> DEFINE d == Over(c, p, bs)
           n == IF p + Len(bs) > Len(c) THEN p + Len(bs) ELSE Len(c)
<1>1. Len(c) \in Nat /\ Len(bs) \in Nat
  OBVIOUS
<1>2. n \in Nat /\ p + Len(bs) <= n
  BY <1>1
<1>3. d = [i \in 1..n |-> IF i > p /\ i <= p + Len(bs) THEN bs[i - p] ELSE c[i]]
  BY DEF Over
<1> HIDE DEF n, d
<1>4. Len(d) = n
  BY <1>2, <1>3
<1>5. ASSUME NEW k \in 1..Len(bs) PROVE d[p + k] = bs[k]
  <2>1. p + k \in 1..n /\ p + k > p /\ p + k <= p + Len(bs) /\ (p + k) - p = k
    BY <1>1, <1>2
  <2>2. QED
    BY <1>3, <2>1
<1>6. QED
  BY <1>1, <1>2, <1>4, <1>5 DEF Lies, d

\* A step that keeps the bytes, perhaps adding some, and writes no value.
LEMMA HoldsOn ==
    ASSUME NEW c \in Seq(Nat), NEW d \in Seq(Nat), Begins(d, c), NEW w, Holds(w, c)
    PROVE  Holds(w, d)
<1>1. PICK v : /\ OfType(w.type, v) /\ w.v = AsHeld(w.type, v)
               /\ w.len = Len(EncodedIn(w.m_endian, w.type, v))
               /\ Lies(EncodedIn(w.m_endian, w.type, v), w.at, c)
  BY DEF Holds
<1>2. Lies(EncodedIn(w.m_endian, w.type, v), w.at, d)
  BY <1>1, LiesLonger
<1>3. QED
  BY <1>1, <1>2 DEF Holds

\* A write elsewhere.
LEMMA HoldsOver ==
    ASSUME NEW c \in Seq(Nat), NEW p \in Nat, p <= Len(c), NEW bs \in Seq(Nat),
           NEW w, Holds(w, c), w.at + w.len <= p \/ w.at >= p + Len(bs)
    PROVE  Holds(w, Over(c, p, bs))
<1>1. PICK v : /\ OfType(w.type, v) /\ w.v = AsHeld(w.type, v)
               /\ w.len = Len(EncodedIn(w.m_endian, w.type, v))
               /\ Lies(EncodedIn(w.m_endian, w.type, v), w.at, c)
  BY DEF Holds
<1>2. Lies(EncodedIn(w.m_endian, w.type, v), w.at, Over(c, p, bs))
  BY <1>1, LiesOver
<1>3. QED
  BY <1>1, <1>2 DEF Holds

\* A content begins with itself.
LEMMA BeginsSame == \A c : Len(c) \in Nat => Begins(c, c)
BY DEF Begins

\* The steps that write nothing keep the values.
LEMMA ValuesStay ==
    ASSUME ArrayInv, Keeps, ValuesHold, written' = written,
           Begins(ContentOf(ba'), ContentOf(ba))
    PROVE  ValuesHold'
<1>1. Content = ContentOf(ba) /\ Content' = ContentOf(ba') /\ Sizes' /\ Sound(ba)'
  BY Abstract DEF ArrayInv
<1>2. ContentOf(ba) \in Seq(Nat)
  BY ContentType DEF ArrayInv
<1>3. ContentOf(ba') \in Seq(Nat)
  BY ContentType DEF ArrayInv, Keeps, Sizes
<1>4. ASSUME NEW w \in written PROVE Holds(w, ContentOf(ba'))
  <2>1. Holds(w, ContentOf(ba))
    BY <1>1 DEF ValuesHold
  <2>2. QED
    BY <1>2, <1>3, <2>1, HoldsOn
<1>5. QED
  BY <1>1, <1>4 DEF ValuesHold

\* So do the ones that leave the content as it is.
LEMMA ValuesSame ==
    ASSUME ArrayInv, Keeps, ValuesHold, written' = written, ContentOf(ba') = ContentOf(ba)
    PROVE  ValuesHold'
<1>1. ContentOf(ba) \in Seq(Nat)
  BY ContentType DEF ArrayInv
<1>2. Len(ContentOf(ba)) \in Nat
  BY <1>1
<1>3. Begins(ContentOf(ba'), ContentOf(ba))
  BY <1>2, BeginsSame
<1>4. QED
  BY <1>3, ValuesStay

\* An array that did not change, and a process that ended.
LEMMA ValuesSegv ==
    ASSUME ArrayInv, Keeps, ValuesHold, written' = written, ba' = ba \/ ba' = Segv(ba)
    PROVE  ValuesHold'
<1>1. ContentOf(ba') = ContentOf(ba)
  <2>1. ContentOf(Segv(ba)) = ContentOf(ba)
    BY SegvSame DEF ArrayInv
  <2>2. QED
    BY <2>1
<1>2. QED
  BY <1>1, ValuesSame

\* write(): what it does not overwrite stays, and what it adds is there.
LEMMA WriteValues ==
    ASSUME ArrayInv, ValuesHold, NEW parts, NEW entry, Write(parts, entry),
           NEW n \in Nat, Len(parts) = n, \A i \in 1..n : parts[i] \in Seq(Nat),
           \A w \in entry : Holds(w, Over(ContentOf(ba), ba.m_position, Joined(parts)))
    PROVE  ValuesHold'
<1> DEFINE bs == Joined(parts)
           b == WriteAll(ba, parts)
           c == ContentOf(ba)
           p == ba.m_position
<1>1. bs \in Seq(Nat) /\ Written(ba, bs, b)
  BY WriteAllWritten DEF ArrayInv
<1>2. /\ ba' = IF b.segv THEN Segv(ba) ELSE b
      /\ written' = IF b.segv THEN written
                    ELSE Untouched(ba.m_position, b.m_position) \union entry
  BY DEF Write
<1>3. Keeps
  BY WriteStep
<1>4. Content = c /\ Content' = ContentOf(ba')
  BY <1>3, Abstract
<1>5. \A w \in entry : Holds(w, Over(c, p, bs))
  OBVIOUS
<1>6. c \in Seq(Nat) /\ Len(c) = ba.m_size /\ p \in Nat /\ p <= ba.m_size
  BY ContentType DEF ArrayInv, Sound, Typed, InStep
<1> HIDE DEF b, bs, c
<1>7. CASE b.segv
  BY <1>2, <1>3, <1>7, ValuesSegv
<1>8. CASE ~b.segv
  <2>1. ContentOf(ba') = Over(c, p, bs) /\ b.m_position = p + Len(bs)
    BY <1>1, <1>2, <1>8 DEF Written, c
  <2>2. ASSUME NEW w \in Untouched(p, b.m_position) PROVE Holds(w, Over(c, p, bs))
    <3>1. w \in written /\ (w.at + w.len <= p \/ w.at >= p + Len(bs))
      BY <2>1 DEF Untouched
    <3>2. Holds(w, c)
      BY <1>4, <3>1 DEF ValuesHold
    <3> HIDE DEF p
    <3>3. p <= Len(c)
      BY <1>6
    <3>4. QED
      BY <1>1, <1>6, <3>1, <3>2, <3>3, HoldsOver
  <2>3. written' = Untouched(p, b.m_position) \union entry
    BY <1>2, <1>8
  <2>4. QED
    BY <1>4, <1>5, <2>1, <2>2, <2>3 DEF ValuesHold
<1>9. QED
  BY <1>7, <1>8

\* The typed writes.
LEMMA WriteValueValues ==
    ASSUME ArrayInv, ValuesHold, NEW type, NEW v, OfType(type, v), writeValue(type, v)
    PROVE  ValuesHold'
<1> DEFINE e == EncodedIn(m_endian, type, v)
           w == [at |-> ba.m_position, len |-> Len(Joined(Parts(type, v))), type |-> type,
                 v |-> AsHeld(type, v), m_endian |-> m_endian]
           c == ContentOf(ba)
<1>1. PICK n \in Nat : /\ Len(Parts(type, v)) = n
                       /\ \A i \in 1..n : Parts(type, v)[i] \in Seq(Nat)
  BY PartsType DEF OfType
<1>2. Write(Parts(type, v), {w})
  BY DEF writeValue
<1>3. Joined(Parts(type, v)) = e /\ e \in Seq(Nat)
  BY JoinedParts
<1>4. c \in Seq(Nat) /\ ba.m_position \in Nat /\ ba.m_position <= Len(c)
  BY ContentType DEF ArrayInv, Sound, Typed, InStep
<1>5. Holds(w, Over(c, ba.m_position, e))
  <2>1. /\ w.type = type /\ w.v = AsHeld(type, v) /\ w.m_endian = m_endian
        /\ w.at = ba.m_position /\ w.len = Len(e)
    BY <1>3
  <2> HIDE DEF w, c
  <2>2. Lies(e, ba.m_position, Over(c, ba.m_position, e))
    <3> HIDE DEF e
    <3>1. QED
      BY <1>3, <1>4, LiesWritten
  <2>3. QED
    BY <2>1, <2>2 DEF Holds
<1> HIDE DEF w, e
<1>6. \A x \in {w} : Holds(x, Over(ContentOf(ba), ba.m_position, Joined(Parts(type, v))))
  BY <1>3, <1>5
<1>7. QED
  BY <1>1, <1>2, <1>6, WriteValues

\* setPosition may make the array longer.
LEMMA SetPositionValues ==
    ASSUME ArrayInv, ValuesHold, NEW val \in Nat, setPosition(val)
    PROVE  ValuesHold'
<1>0. Keeps
  BY SetPositionStep
<1>1. ba' = MoveTo(ba, val) /\ written' = written
  BY DEF setPosition
<1>2. CASE val = m_capacity(ba)
  <2>1. ba' = Segv(ba)
    BY <1>1, <1>2 DEF MoveTo
  <2>2. QED
    BY <1>0, <1>1, <2>1, ValuesSegv
<1>3. CASE val # m_capacity(ba)
  <2>1. ba' = [ba EXCEPT !.m_position = val, !.m_size = IF val > @ THEN val ELSE @,
                         !.m_current = 1 + val \div m_baseSize]
    BY <1>1, <1>3 DEF MoveTo
  <2>2. /\ ba'.nodes = ba.nodes /\ ba.m_size \in Nat
        /\ ba'.m_size = (IF val > ba.m_size THEN val ELSE ba.m_size)
    BY <2>1 DEF ArrayInv, Sound, Typed
  <2>3. \A i \in 1..ba.m_size : ByteAt(ba', i) = ByteAt(ba, i)
    BY <2>2 DEF ByteAt
  <2>4. /\ ContentOf(ba) \in Seq(Nat) /\ Len(ContentOf(ba)) = ba.m_size
        /\ ContentOf(ba') \in Seq(Nat) /\ Len(ContentOf(ba')) = ba'.m_size
    BY <1>0, ContentType DEF ArrayInv, Keeps
  <2>5. ba.m_size <= ba'.m_size /\ 1..ba.m_size \subseteq 1..ba'.m_size
    BY <2>2
  <2>6. \A i \in 1..ba.m_size : ContentOf(ba')[i] = ContentOf(ba)[i]
    BY <2>3, <2>5 DEF ContentOf
  <2>7. Begins(ContentOf(ba'), ContentOf(ba))
    BY <2>4, <2>5, <2>6 DEF Begins
  <2>8. QED
    BY <1>0, <1>1, <2>7, ValuesStay
<1>4. QED
  BY <1>2, <1>3

\* The calls that return buffers.
LEMMA BuffersValues ==
    ASSUME ArrayInv, ValuesHold, NEW b, Grown(ba, b),
           NEW op, NEW c, NEW at, NEW len, NEW pieces, Buffers(op, b, c, at, len, pieces)
    PROVE  ValuesHold'
<1>1. (ba' = b \/ ba' = Segv(ba)) /\ written' = written
  BY DEF Buffers
<1>2. Keeps
  BY BuffersStep
<1>3. ContentOf(b) = ContentOf(ba)
  BY GrownContent DEF ArrayInv
<1>4. CASE ba' = b
  BY <1>1, <1>2, <1>3, <1>4, ValuesSame
<1>5. CASE ba' = Segv(ba)
  BY <1>1, <1>2, <1>5, ValuesSegv
<1>6. QED
  BY <1>1, <1>4, <1>5

\* getReadBuffers and getWriteBuffers.
LEMMA GetBuffersValues ==
    ASSUME ArrayInv, ValuesHold, NEW len \in Lengths, NEW position,
           getReadBuffers(len) \/ getReadBuffersAt(len, position) \/ getWriteBuffers(len)
    PROVE  ValuesHold'
<1>1. CASE getReadBuffers(len)
  BY <1>1, GrownSame, BuffersValues DEF getReadBuffers
<1>2. CASE getReadBuffersAt(len, position)
  BY <1>2, GrownSame, BuffersValues DEF getReadBuffersAt
<1>3. CASE getWriteBuffers(len)
  <2>1. len \in Nat
    BY ByteArrayAssumption
  <2>2. Grown(ba, addCapacity(ba, len))
    BY <2>1, AddCapacity DEF ArrayInv
  <2>3. QED
    BY <1>3, <2>2, BuffersValues DEF getWriteBuffers
<1>4. QED
  BY <1>1, <1>2, <1>3

\* Every step keeps the values in place.
LEMMA NextValues ==
    ArrayInv /\ ValuesHold /\ [Next]_vars => ValuesHold'
<1> SUFFICES ASSUME ArrayInv, ValuesHold, [Next]_vars PROVE ValuesHold'
  OBVIOUS
<1>1. CASE UNCHANGED vars
  <2>1. m_baseSize' = m_baseSize /\ heap' = heap /\ ba' = ba /\ written' = written
    BY <1>1 DEF vars
  <2>2. Keeps
    BY <2>1 DEF Keeps, ArrayInv
  <2>3. QED
    BY <2>1, <2>2, ValuesSegv
<1>2. ASSUME NEW type \in Types \ (DOMAIN Length \union {"raw"}), NEW v \in Numbers,
             writeValue(type, v)
      PROVE  ValuesHold'
  BY <1>2, WriteValueValues DEF OfType
<1>3. ASSUME NEW type \in Types \intersect (DOMAIN Length \union {"raw"}), NEW s \in Strings,
             writeValue(type, s)
      PROVE  ValuesHold'
  BY <1>3, WriteValueValues DEF OfType
<1>4. ASSUME NEW name \in Strings, readFromFile(name) PROVE ValuesHold'
  <2>1. PICK parts, n : /\ Write(parts, {}) /\ n \in Nat /\ Len(parts) = n
                        /\ \A i \in 1..n : parts[i] \in Seq(Nat)
    BY <1>4, FilePieces
  <2>2. QED
    BY <2>1, WriteValues
<1>5. ASSUME NEW type \in Types \ {"raw"}, readValue(type) PROVE ValuesHold'
  <2>1. Keeps
    BY <1>5, ReadValueStep
  <2>2. Took(ba, Take(type)) /\ ba' = Take(type).ba /\ written' = written
    BY <1>5, TakeTook DEF readValue, Live, ArrayInv
  <2>3. ContentOf(ba') = ContentOf(ba)
    BY <2>2 DEF Took
  <2>4. QED
    BY <2>1, <2>2, <2>3, ValuesSame
<1>6. ASSUME NEW val \in BOOLEAN, setLittleEndian(val) PROVE ValuesHold'
  <2>1. Keeps
    BY <1>6, SetLittleEndianStep
  <2>2. QED
    BY <1>6, <2>1, ValuesSegv DEF setLittleEndian
<1>7. ASSUME NEW val \in 0..MaxCapacity, setPosition(val) PROVE ValuesHold'
  <2>1. val \in Nat
    BY ByteArrayAssumption
  <2>2. QED
    BY <1>7, <2>1, SetPositionValues
<1>8. CASE clear
  BY <1>8 DEF clear, ValuesHold
<1>9. CASE toString
  <2>1. Keeps
    BY <1>9, ToStringStep
  <2>2. QED
    BY <1>9, <2>1, ValuesSegv DEF toString
<1>10. CASE writeToFile
  <2>1. Keeps
    BY <1>10, WriteToFileStep
  <2>2. ba' = (IF Dump.left > 0 THEN Segv(ba) ELSE ba) /\ written' = written
    BY <1>10 DEF writeToFile
  <2>3. QED
    BY <2>1, <2>2, ValuesSegv
<1>14. CASE readOverruns
  <2>1. Keeps
    BY <1>14, ReadOverrunsStep
  <2>2. QED
    BY <1>14, <2>1, ValuesSegv DEF readOverruns
<1>11. ASSUME NEW len \in Lengths, NEW position \in 0..MaxCapacity,
              getReadBuffers(len) \/ getWriteBuffers(len) \/ getReadBuffersAt(len, position)
       PROVE  ValuesHold'
  BY <1>11, GetBuffersValues
<1>12. 0 \in 0..MaxCapacity
  BY ByteArrayAssumption
<1>13. QED
  BY <1>1, <1>2, <1>3, <1>4, <1>5, <1>6, <1>7, <1>8, <1>9, <1>10, <1>11, <1>12, <1>14,
     Zenon DEF Next

-----------------------------------------------------------------------------
(* The typed reads.                                                        *)

\* A read that does not throw returns the bytes at the position.
LEMMA ReadExact ==
    ASSUME Sizes, NEW b, Sound(b), ~b.segv, NEW size \in Nat, ~read(b, size).thrown
    PROVE  /\ Sound(read(b, size).ba) /\ ContentOf(read(b, size).ba) = ContentOf(b)
           /\ ~read(b, size).ba.segv
           /\ read(b, size).ba.m_position = b.m_position + size
           /\ b.m_position + size <= b.m_size
           /\ read(b, size).out = SubSeq(ContentOf(b), b.m_position + 1, b.m_position + size)
<1> DEFINE r == read(b, size)
<1>1. Took(b, r) /\ r.ba.segv = b.segv
  BY ReadTook
<1>2. r.ba.m_position = b.m_position + size
  <2>1. CASE size > getReadSize(b)
    BY <2>1 DEF read
  <2>2. CASE RunsOff(b, b.m_current, b.m_position % m_baseSize, size) /\ ~(size > getReadSize(b))
    BY <2>2 DEF read
  <2>3. CASE ~RunsOff(b, b.m_current, b.m_position % m_baseSize, size) /\ ~(size > getReadSize(b))
    <3> DEFINE x == [b EXCEPT !.m_position = @ + size,
                     !.m_current = IF size = 0 THEN @ ELSE Advance(b, @, b.m_position % m_baseSize, size)]
    <3>1. r.ba = x
      BY <2>3 DEF read
    <3>2. x.m_position = b.m_position + size
      BY DEF Sound, Typed
    <3>3. QED
      BY <3>1, <3>2
  <2>4. QED
    BY <2>1, <2>2, <2>3
<1> HIDE DEF r
<1>3. QED
  BY <1>1, <1>2 DEF Took, r

\* Bytes that are there can be read.
LEMMA ReadRest ==
    ASSUME Sizes, NEW b, Sound(b), b.m_position < b.m_size
    PROVE  getReadSize(b) \in Nat /\ ~read(b, getReadSize(b)).thrown
<1> DEFINE size == getReadSize(b)
           npos == b.m_position % m_baseSize
           last == b.m_position + (size - 1)
<1>1. /\ b.m_position \in Nat /\ b.m_size \in Nat /\ b.m_size <= m_capacity(b)
      /\ m_capacity(b) \in Nat /\ Len(b.nodes) \in Nat
      /\ m_capacity(b) = Len(b.nodes) * m_baseSize
  BY DEF Sizes, Sound, Typed, InStep, m_capacity
<1>2. size \in Nat /\ size > 0 /\ size - 1 \in Nat /\ last = b.m_size - 1 /\ last \in Nat
  BY <1>1 DEF getReadSize
<1>3. b.m_current # 0
  <2>1. b.m_position # m_capacity(b)
    BY <1>1
  <2>2. b.m_current = 1 + b.m_position \div m_baseSize
    BY <2>1 DEF Sound, InStep
  <2>3. b.m_position \div m_baseSize \in Nat
    BY <1>1, DivMod DEF Sizes
  <2>4. QED
    BY <2>2, <2>3
<1>4. NodeAt(b.m_current, npos, size - 1) = 1 + last \div m_baseSize
  BY <1>2, <1>3, LoopAt
<1>5. last \div m_baseSize \in Nat /\ last \div m_baseSize < Len(b.nodes)
  <2>1. last < Len(b.nodes) * m_baseSize
    BY <1>1, <1>2
  <2> HIDE DEF last
  <2>2. last \div m_baseSize \in Nat
    BY <1>2, DivMod DEF Sizes
  <2>3. last \div m_baseSize < Len(b.nodes)
    BY <1>1, <1>2, <2>1, DivLess DEF Sizes
  <2>4. QED
    BY <2>2, <2>3
<1>6. ~RunsOff(b, b.m_current, npos, size)
  <2> HIDE DEF last
  <2>1. ~(NodeAt(b.m_current, npos, size - 1) > Len(b.nodes))
    BY <1>1, <1>4, <1>5
  <2>2. QED
    BY <1>3, <2>1 DEF RunsOff
<1>7. ~(size > getReadSize(b))
  BY <1>2
<1>8. ~read(b, size).thrown
  <2> HIDE DEF size
  <2>1. QED
    BY <1>6, <1>7 DEF read
<1>9. QED
  BY <1>2, <1>8

\* Bytes that lie at an offset are the part of the content there.
LEMMA LiesPart ==
    ASSUME NEW c \in Seq(Nat), NEW e, NEW at, Lies(e, at, c)
    PROVE  SubSeq(c, at + 1, at + Len(e)) = e
<1>1. /\ at \in Nat /\ Len(e) \in Nat /\ at + Len(e) <= Len(c)
      /\ e = [k \in 1..Len(e) |-> e[k]]
  BY DEF Lies
<1>2. at + Len(e) \in Nat /\ at <= at + Len(e) /\ (at + Len(e)) - at = Len(e)
  BY <1>1
<1>3. SubSeq(c, at + 1, at + Len(e)) = [k \in 1..((at + Len(e)) - at) |-> c[at + k]]
  BY <1>1, <1>2, PartOf
<1>4. \A k \in 1..Len(e) : c[at + k] = e[k]
  BY DEF Lies
<1>5. QED
  BY <1>1, <1>2, <1>3, <1>4

\* They begin what lies there.
LEMMA LiesFirst ==
    ASSUME NEW c \in Seq(Nat), NEW e, NEW at, Lies(e, at, c)
    PROVE  /\ SubSeq(c, at + 1, Len(c)) \in Seq(Nat)
           /\ Begins(SubSeq(c, at + 1, Len(c)), e)
<1> DEFINE rest == SubSeq(c, at + 1, Len(c))
           n == Len(c)
<1>1. /\ at \in Nat /\ Len(e) \in Nat /\ at + Len(e) <= Len(c) /\ Len(c) \in Nat
  BY DEF Lies
<1>2. at <= Len(c) /\ Len(c) <= Len(c)
  BY <1>1
<1>3. /\ rest = [k \in 1..(Len(c) - at) |-> c[at + k]]
      /\ rest \in Seq(Nat) /\ Len(rest) = Len(c) - at
  BY <1>1, <1>2, PartOf
<1> HIDE DEF rest
<1>4. ASSUME NEW k \in 1..Len(e) PROVE rest[k] = e[k]
  <2>1. k \in 1..(Len(c) - at)
    BY <1>1
  <2>2. rest[k] = c[at + k]
    BY <1>3, <2>1
  <2>3. QED
    BY <2>2 DEF Lies
<1>5. Len(e) <= Len(rest)
  BY <1>1, <1>3
<1>6. QED
  BY <1>3, <1>4, <1>5 DEF Begins, rest

\* Of two joined parts, each lies where it should.
LEMMA LiesTwo ==
    ASSUME NEW c \in Seq(Nat), NEW s \in Seq(Nat), NEW t \in Seq(Nat), NEW at,
           Lies(s \o t, at, c)
    PROVE  Lies(s, at, c) /\ Lies(t, at + Len(s), c)
<1> DEFINE e == s \o t
<1>1. /\ Len(e) = Len(s) + Len(t) /\ Len(s) \in Nat /\ Len(t) \in Nat
      /\ (\A k \in 1..Len(s) : e[k] = s[k]) /\ (\A k \in 1..Len(t) : e[Len(s) + k] = t[k])
  OBVIOUS
<1>2. at \in Nat /\ at + Len(e) <= Len(c) /\ \A k \in 1..Len(e) : c[at + k] = e[k]
  BY DEF Lies
<1> HIDE DEF e
<1>3. Lies(s, at, c)
  <2>1. ASSUME NEW k \in 1..Len(s) PROVE c[at + k] = s[k]
    <3>1. k \in 1..Len(e)
      BY <1>1
    <3>2. QED
      BY <1>1, <1>2, <3>1
  <2>2. at + Len(s) <= Len(c)
    BY <1>1, <1>2
  <2>3. QED
    BY <1>2, <2>1, <2>2 DEF Lies
<1>4. Lies(t, at + Len(s), c)
  <2>1. ASSUME NEW k \in 1..Len(t) PROVE c[(at + Len(s)) + k] = t[k]
    <3>1. Len(s) + k \in 1..Len(e) /\ (at + Len(s)) + k = at + (Len(s) + k)
      BY <1>1, <1>2
    <3>2. QED
      BY <1>1, <1>2, <3>1
  <2>2. (at + Len(s)) + Len(t) <= Len(c) /\ at + Len(s) \in Nat
    BY <1>1, <1>2
  <2>3. QED
    BY <2>1, <2>2 DEF Lies
<1>5. QED
  BY <1>3, <1>4

\* The strings a client writes fit the size in front of them, and what it
\* passes to writeint32 is an int32_t.
Fitting ==
    /\ \A type \in Types \intersect DOMAIN Length, s \in Strings : Len(s) < Pow(Base, Length[type])
    /\ "int32" \in Types => \A v \in Numbers : Zigzag(v) < Pow(Base, 4)

\* The integers of fixed width.
LEMMA TakeFixed ==
    ASSUME ArrayInv, ~ba.segv, NEW type \in DOMAIN Fixed \ {"float", "double"}, ~Take(type).thrown,
           NEW v \in Int, Lies(EncodeIn(m_endian, v, Fixed[type]), ba.m_position, ContentOf(ba))
    PROVE  Value(type, Take(type).out) = v % Pow(Base, Fixed[type])
<1> DEFINE n == Fixed[type]
           e == EncodeIn(m_endian, v, n)
           c == ContentOf(ba)
           r == read(ba, n)
<1>1. n \in Nat
  BY Kinds
<1>2. Take(type) = r
  <2>1. /\ type \in {"fixed8", "fixed16", "fixed32", "fixed64", "float"}
        /\ type # "double" /\ type \notin Variable /\ type \notin DOMAIN Length
    BY Kinds DEF Variable
  <2>2. QED
    BY <2>1, Zenon DEF Take
<1>3. Len(e) = n /\ DecodeF(e) = v % Pow(Base, n)
  BY <1>1, FixedBack
<1>4. r.out = SubSeq(c, ba.m_position + 1, ba.m_position + n)
  <2> HIDE DEF n
  <2>1. QED
    BY <1>1, <1>2, ReadExact DEF ArrayInv
<1>5. SubSeq(c, ba.m_position + 1, ba.m_position + Len(e)) = e
  <2>1. c \in Seq(Nat)
    BY ContentType DEF ArrayInv
  <2> HIDE DEF c, e
  <2>2. QED
    BY <2>1, LiesPart DEF c, e
<1>6. Value(type, e) = DecodeF(e)
  <2>1. /\ type \notin {"float", "double"} /\ type \in DOMAIN Fixed
        /\ type \notin {"uint32", "uint64", "int32", "int64"}
    BY Kinds
  <2> HIDE DEF e
  <2>2. QED
    BY <2>1, Zenon DEF Value
<1> HIDE DEF e, c, r, n
<1>7. Take(type).out = e
  BY <1>2, <1>3, <1>4, <1>5
<1>8. QED
  BY <1>3, <1>6, <1>7 DEF n

\* The strings.
LEMMA TakeString ==
    ASSUME ArrayInv, ~ba.segv, NEW type \in DOMAIN Length, ~Take(type).thrown,
           NEW v \in Seq(Nat), Len(v) < Pow(Base, Length[type]),
           Lies(EncodeIn(m_endian, Len(v), Length[type]) \o v, ba.m_position, ContentOf(ba))
    PROVE  Value(type, Take(type).out) = v
<1> DEFINE n == Length[type]
           e == EncodeIn(m_endian, Len(v), n)
           c == ContentOf(ba)
           p == ba.m_position
           r == read(ba, n)
           s == read(r.ba, DecodeF(r.out))
<1>1. n \in Nat /\ Len(v) \in Nat
  BY Kinds
<1>2. Take(type) = IF r.thrown THEN r ELSE [s EXCEPT !.out = r.out \o @]
  <2>1. /\ type \notin {"fixed8", "fixed16", "fixed32", "fixed64", "float"} /\ type # "double"
        /\ type \notin Variable
    BY Kinds DEF Variable
  <2>2. QED
    BY <2>1, Zenon DEF Take
<1>3. e \in Seq(Nat) /\ Len(e) = n /\ DecodeF(e) = Len(v)
  <2>1. Len(v) \in Int
    BY <1>1
  <2>2. e \in Seq(Nat) /\ Len(e) = n /\ DecodeF(e) = Len(v) % Pow(Base, n)
    BY <1>1, <2>1, FixedBack
  <2>3. Pow(Base, n) \in Nat \ {0}
    BY <1>1, BasePowers
  <2>4. Len(v) % Pow(Base, n) = Len(v)
    BY <1>1, <2>3, ModSmall
  <2>5. QED
    BY <2>2, <2>4
<1>4. c \in Seq(Nat) /\ p \in Nat
  BY ContentType DEF ArrayInv, Sound, Typed
<1>5. Lies(e, p, c) /\ Lies(v, p + Len(e), c)
  <2>1. Lies(e \o v, p, c)
    OBVIOUS
  <2> HIDE DEF e, p, c
  <2>2. QED
    BY <1>3, <1>4, <2>1, LiesTwo
<1>6. ~r.thrown
  BY <1>2
<1>7. /\ Sound(r.ba) /\ ContentOf(r.ba) = c /\ ~r.ba.segv /\ r.ba.m_position = p + n
      /\ r.out = SubSeq(c, p + 1, p + n)
  <2> HIDE DEF n
  <2>1. QED
    BY <1>1, <1>6, ReadExact DEF ArrayInv
<1>8. r.out = e
  <2> HIDE DEF e, p, c, r
  <2>1. SubSeq(c, p + 1, p + Len(e)) = e
    BY <1>4, <1>5, LiesPart
  <2>2. QED
    BY <1>3, <1>7, <2>1
<1>9. s = read(r.ba, Len(v))
  <2> HIDE DEF r, e
  <2>1. QED
    BY <1>3, <1>8
<1>10. DOMAIN s = {"ba", "out", "thrown"}
  <2> HIDE DEF r, s, c, p
  <2>1. Took(r.ba, read(r.ba, Len(v)))
    BY <1>1, <1>7, ReadTook DEF ArrayInv
  <2>2. QED
    BY <1>9, <2>1 DEF Took
<1> HIDE DEF r, s, e
<1>11. ~s.thrown /\ Take(type).out = r.out \o s.out
  BY <1>2, <1>6, <1>10
<1>12. s.out = SubSeq(c, (p + n) + 1, (p + n) + Len(v))
  <2> HIDE DEF n, c, p
  <2>1. ~read(r.ba, Len(v)).thrown
    BY <1>9, <1>11
  <2>2. read(r.ba, Len(v)).out
          = SubSeq(ContentOf(r.ba), r.ba.m_position + 1, r.ba.m_position + Len(v))
    BY <1>1, <1>7, <2>1, ReadExact DEF ArrayInv
  <2>3. QED
    BY <1>7, <1>9, <2>2
<1>13. s.out = v
  <2> HIDE DEF n, c, p
  <2>1. SubSeq(c, (p + Len(e)) + 1, (p + Len(e)) + Len(v)) = v
    BY <1>4, <1>5, LiesPart
  <2>2. QED
    BY <1>3, <1>12, <2>1
<1>14. Take(type).out = e \o v
  BY <1>8, <1>11, <1>13
<1>15. Value(type, e \o v) = SubSeq(e \o v, n + 1, Len(e \o v))
  <2> DEFINE bs == e \o v
  <2>1. /\ type \notin {"float", "double"} /\ type \notin DOMAIN Fixed
        /\ type # "uint32" /\ type # "uint64" /\ type # "int32" /\ type # "int64"
    BY Kinds
  <2> HIDE DEF bs
  <2>2. Value(type, bs) = SubSeq(bs, Length[type] + 1, Len(bs))
    BY <2>1, Zenon DEF Value
  <2>3. QED
    BY <2>2 DEF bs
<1>16. SubSeq(e \o v, n + 1, Len(e \o v)) = v
  <2> HIDE DEF n
  <2>1. QED
    BY <1>1, <1>3
<1>17. QED
  BY <1>14, <1>15, <1>16

\* The integers of variable length: x is what the encoder was given.
LEMMA TakeVariable ==
    ASSUME ArrayInv, ~ba.segv, NEW type \in Variable, ~Take(type).thrown,
           NEW width, width = IF type \in {"uint32", "int32"} THEN 4 ELSE 8,
           NEW x \in Nat, x < Pow(Base, width), Lies(EncodeVar(x), ba.m_position, ContentOf(ba))
    PROVE  DecodeVar(Take(type).out, width) = x
<1> DEFINE e == EncodeVar(x)
           c == ContentOf(ba)
           p == ba.m_position
           size == getReadSize(ba)
           rest == read(ba, size).out
           n == VarLen(rest, width)
<1>1. Take(type) = IF n <= size THEN read(ba, n)
                   ELSE [read(ba, size) EXCEPT !.thrown = TRUE]
  <2>1. /\ type \notin {"fixed8", "fixed16", "fixed32", "fixed64", "float"} /\ type # "double"
        /\ type \notin DOMAIN Length
    BY Kinds DEF Variable
  <2>2. QED
    BY <2>1, Zenon DEF Take
<1>2. c \in Seq(Nat) /\ Len(c) = ba.m_size /\ p \in Nat /\ ba.m_size \in Nat
  BY ContentType DEF ArrayInv, Sound, Typed
<1>3. width \in 1..8
  OBVIOUS
<1>4. SubSeq(c, p + 1, Len(c)) \in Seq(Nat) /\ Begins(SubSeq(c, p + 1, Len(c)), e)
  <2>1. Lies(e, p, c)
    OBVIOUS
  <2> HIDE DEF c, e, p
  <2>2. QED
    BY <1>2, <2>1, LiesFirst
<1>5. /\ e \in Seq(Nat) /\ Len(e) > 0 /\ DecodeVar(e, width) = x
      /\ VarLen(SubSeq(c, p + 1, Len(c)), width) = Len(e)
  <2> DEFINE all == SubSeq(c, p + 1, Len(c))
  <2>1. all \in Seq(Nat) /\ Begins(all, e)
    BY <1>4
  <2> HIDE DEF all
  <2>2. e \in Seq(Nat) /\ Len(e) > 0 /\ DecodeVar(e, width) = x /\ VarLen(all, width) = Len(e)
    BY <1>3, <2>1, VariableBack
  <2>3. QED
    BY <2>2 DEF all
<1>6. Len(e) \in Nat /\ p + Len(e) <= ba.m_size /\ p < ba.m_size /\ size = ba.m_size - p
  <2>1. p + Len(e) <= Len(c)
    BY DEF Lies
  <2>2. size = ba.m_size - p
    BY DEF getReadSize
  <2> HIDE DEF c, e, p, size
  <2>3. QED
    BY <1>2, <1>5, <2>1, <2>2
<1>7. size \in Nat /\ ~read(ba, size).thrown
  BY <1>6, ReadRest DEF ArrayInv
<1>8. rest = SubSeq(c, p + 1, p + size)
  <2> HIDE DEF size
  <2>1. QED
    BY <1>7, ReadExact DEF ArrayInv
<1>9. p + size = Len(c)
  BY <1>2, <1>6
<1> HIDE DEF rest, size, c, p, e
<1>10. n = Len(e)
  BY <1>5, <1>8, <1>9
<1> HIDE DEF n
<1>11. n <= size /\ n \in Nat
  BY <1>2, <1>6, <1>10
<1>12. Take(type) = read(ba, n)
  BY <1>1, <1>11
<1>13. read(ba, n).out = SubSeq(c, p + 1, p + n)
  BY <1>11, <1>12, ReadExact DEF ArrayInv, c, p
<1>14. SubSeq(c, p + 1, p + Len(e)) = e
  BY <1>2, LiesPart DEF c, p, e
<1>15. QED
  BY <1>5, <1>10, <1>12, <1>13, <1>14

\* A typed read of a value that lies at the position gives it back.
LEMMA TakeBack ==
    ASSUME Fitting, ArrayInv, ~ba.segv, NEW type \in Types \ {"raw", "float", "double"},
           ~Take(type).thrown, NEW v, OfType(type, v),
           ~(type = "int64" /\ Zigzag(v) >= Pow(Base, 4)),
           Lies(EncodedIn(m_endian, type, v), ba.m_position, ContentOf(ba))
    PROVE  Value(type, Take(type).out) = AsHeld(type, v)
<1> DEFINE c == ContentOf(ba)
           p == ba.m_position
<1>0. /\ type \in DOMAIN Length => v \in Strings /\ v \in Seq(Nat)
      /\ ~(type \in DOMAIN Length) => v \in Numbers /\ v \in Int
  BY StringType, ByteArrayAssumption DEF OfType
<1>1. CASE type \in DOMAIN Fixed
  <2>1. type \notin DOMAIN Length /\ type \notin {"uint32", "uint64", "int32", "int64"}
    BY <1>1, Kinds
  <2>2. EncodedIn(m_endian, type, v) = EncodeIn(m_endian, v, Fixed[type])
    BY <1>1, <2>1, Zenon DEF EncodedIn
  <2>3. AsHeld(type, v) = v % Pow(Base, Fixed[type])
    BY <1>1, <2>1, Zenon DEF AsHeld
  <2>4. type \in DOMAIN Fixed \ {"float", "double"} /\ v \in Int
    BY <1>0, <1>1, <2>1
  <2>5. Lies(EncodeIn(m_endian, v, Fixed[type]), ba.m_position, ContentOf(ba))
    BY <2>2
  <2>6. QED
    BY <2>3, <2>4, <2>5, TakeFixed
<1>2. CASE type \in DOMAIN Length
  <2>1. type \notin DOMAIN Fixed /\ type \notin {"uint32", "uint64", "int32", "int64"}
    BY <1>2, Kinds
  <2>2. EncodedIn(m_endian, type, v) = EncodeIn(m_endian, Len(v), Length[type]) \o v
    BY <1>2, <2>1, Zenon DEF EncodedIn
  <2>3. AsHeld(type, v) = v
    BY <1>2, <2>1, Zenon DEF AsHeld
  <2>4. v \in Seq(Nat) /\ Len(v) < Pow(Base, Length[type])
    BY <1>0, <1>2 DEF Fitting
  <2>5. Lies(EncodeIn(m_endian, Len(v), Length[type]) \o v, ba.m_position, ContentOf(ba))
    BY <2>2
  <2>6. QED
    BY <1>2, <2>3, <2>4, <2>5, TakeString
<1>3. CASE type \in Variable
  <2>1. type \notin DOMAIN Fixed /\ type \notin DOMAIN Length /\ type \notin {"float", "double"}
    BY <1>3, Kinds DEF Variable
  <2>2. v \in Int /\ v \in Numbers
    BY <1>0, <2>1
  <2>3. /\ v % Pow(Base, 4) \in Nat /\ v % Pow(Base, 4) < Pow(Base, 4)
        /\ v % Pow(Base, 8) \in Nat /\ v % Pow(Base, 8) < Pow(Base, 8)
        /\ Pow(Base, 4) \in Nat \ {0} /\ Pow(Base, 4) <= Pow(Base, 8) /\ Pow(Base, 8) \in Nat
    BY <2>2, VariableType
  <2>4. Zigzag(v) \in Nat /\ DecodeZigzag(Zigzag(v)) = v
    BY <2>2, ZigzagBack
  <2>5. ASSUME Zigzag(v) < Pow(Base, 4)
        PROVE  Zigzag(v) % Pow(Base, 4) = Zigzag(v) /\ Zigzag(v) < Pow(Base, 8)
    <3>1. Zigzag(v) % Pow(Base, 4) = Zigzag(v)
      BY <2>3, <2>4, <2>5, ModSmall
    <3>2. Zigzag(v) < Pow(Base, 8)
      BY <2>3, <2>4, <2>5
    <3>3. QED
      BY <3>1, <3>2
  <2>6. CASE type = "uint32"
    <3> DEFINE x == v % Pow(Base, 4)
    <3>1. EncodedIn(m_endian, type, v) = EncodeVar(x)
      BY <2>1, <2>6 DEF EncodedIn
    <3>2. AsHeld(type, v) = x
      BY <2>1, <2>6 DEF AsHeld
    <3>3. \A bs : Value(type, bs) = DecodeVar(bs, 4)
      BY <2>1, <2>6 DEF Value
    <3>4. x \in Nat /\ x < Pow(Base, 4) /\ Lies(EncodeVar(x), ba.m_position, ContentOf(ba))
      BY <2>3, <3>1
    <3> HIDE DEF x
    <3>5. 4 = IF type \in {"uint32", "int32"} THEN 4 ELSE 8
      BY <2>6
    <3>6. DecodeVar(Take(type).out, 4) = x
      BY <1>3, <3>4, <3>5, TakeVariable
    <3>7. QED
      BY <3>2, <3>3, <3>6
  <2>7. CASE type = "uint64"
    <3> DEFINE x == v % Pow(Base, 8)
    <3>1. EncodedIn(m_endian, type, v) = EncodeVar(x)
      BY <2>1, <2>7 DEF EncodedIn
    <3>2. AsHeld(type, v) = x
      BY <2>1, <2>7 DEF AsHeld
    <3>3. \A bs : Value(type, bs) = DecodeVar(bs, 8)
      BY <2>1, <2>7 DEF Value
    <3>4. x \in Nat /\ x < Pow(Base, 8) /\ Lies(EncodeVar(x), ba.m_position, ContentOf(ba))
      BY <2>3, <3>1
    <3> HIDE DEF x
    <3>5. 8 = IF type \in {"uint32", "int32"} THEN 4 ELSE 8
      BY <2>7
    <3>6. DecodeVar(Take(type).out, 8) = x
      BY <1>3, <3>4, <3>5, TakeVariable
    <3>7. QED
      BY <3>2, <3>3, <3>6
  <2>8. CASE type = "int32"
    <3> DEFINE x == Zigzag(v)
    <3>0. x < Pow(Base, 4)
      BY <2>2, <2>8 DEF Fitting
    <3>1. EncodedIn(m_endian, type, v) = EncodeVar(x)
      <4>1. EncodedIn(m_endian, type, v) = EncodeVar(EncodeZigzag32(v))
        BY <2>1, <2>8 DEF EncodedIn
      <4>2. EncodeZigzag32(v) = x
        BY <2>5, <3>0 DEF EncodeZigzag32
      <4>3. QED
        BY <4>1, <4>2
    <3>2. AsHeld(type, v) = v
      BY <2>1, <2>8 DEF AsHeld
    <3>3. \A bs : Value(type, bs) = DecodeZigzag(DecodeVar(bs, 4))
      BY <2>1, <2>8 DEF Value
    <3>4. x \in Nat /\ Lies(EncodeVar(x), ba.m_position, ContentOf(ba)) /\ DecodeZigzag(x) = v
      BY <2>4, <3>1
    <3> HIDE DEF x
    <3>5. 4 = IF type \in {"uint32", "int32"} THEN 4 ELSE 8
      BY <2>8
    <3>6. DecodeVar(Take(type).out, 4) = x
      BY <1>3, <3>0, <3>4, <3>5, TakeVariable
    <3>7. QED
      BY <3>2, <3>3, <3>4, <3>6
  <2>9. CASE type = "int64"
    <3> DEFINE x == Zigzag(v)
    <3>0. x < Pow(Base, 4)
      BY <2>3, <2>4, <2>9
    <3>1. EncodedIn(m_endian, type, v) = EncodeVar(x)
      <4>1. EncodedIn(m_endian, type, v) = EncodeVar(EncodeZigzag64(v))
        BY <2>1, <2>9 DEF EncodedIn
      <4>2. EncodeZigzag64(v) = x
        BY <2>5, <3>0 DEF EncodeZigzag64
      <4>3. QED
        BY <4>1, <4>2
    <3>2. AsHeld(type, v) = v
      BY <2>1, <2>9 DEF AsHeld
    <3>3. \A bs : Value(type, bs) = DecodeZigzag(DecodeVar(bs, 8))
      BY <2>1, <2>9 DEF Value
    <3>4. /\ x \in Nat /\ x < Pow(Base, 8) /\ DecodeZigzag(x) = v
          /\ Lies(EncodeVar(x), ba.m_position, ContentOf(ba))
      BY <2>4, <2>5, <3>0, <3>1
    <3> HIDE DEF x
    <3>5. 8 = IF type \in {"uint32", "int32"} THEN 4 ELSE 8
      BY <2>9
    <3>6. DecodeVar(Take(type).out, 8) = x
      BY <1>3, <3>4, <3>5, TakeVariable
    <3>7. QED
      BY <3>2, <3>3, <3>4, <3>6
  <2>10. QED
    BY <1>3, <2>6, <2>7, <2>8, <2>9 DEF Variable
<1>4. QED
  BY <1>1, <1>2, <1>3, TypesAssumption

\* The typed reads.
LEMMA ReadValueBack ==
    ASSUME Fitting, ArrayInv, ValuesHold, NEW type \in Types \ {"raw"}, readValue(type)
    PROVE  ReadBack'
<1> DEFINE r == Take(type)
           here == {w \in written : /\ w.at = ba.m_position /\ w.type = type
                                    /\ w.m_endian = m_endian}
           x == CHOOSE w \in here : TRUE
<1>1. /\ ~ba.segv
      /\ result' = IF r.thrown \/ here = {} THEN NoResult
                   ELSE [type |-> type, got |-> Value(type, r.out), want |-> x.v]
  BY DEF readValue, Live
<1>2. CASE r.thrown \/ here = {}
  <2>1. result' = NoResult
    BY <1>1, <1>2
  <2>2. QED
    BY <2>1 DEF ReadBack, NoResult
<1>3. CASE ~(r.thrown \/ here = {})
  <2>1. x \in here
    BY <1>3
  <2>2. x \in written /\ x.at = ba.m_position /\ x.type = type /\ x.m_endian = m_endian
    BY <2>1
  <2>3. result' = [type |-> type, got |-> Value(type, r.out), want |-> x.v]
    BY <1>1, <1>3
  <2> HIDE DEF here, x, r
  <2>4. result'.type = type /\ result'.got = Value(type, r.out) /\ result'.want = x.v
    BY <2>3
  <2>5. Content = ContentOf(ba)
    BY DEF Content, ContentOf, ByteAt
  <2>6. PICK v : /\ OfType(x.type, v) /\ x.v = AsHeld(x.type, v)
                 /\ Lies(EncodedIn(x.m_endian, x.type, v), x.at, ContentOf(ba))
    BY <2>2, <2>5 DEF ValuesHold, Holds
  <2>7. /\ OfType(type, v) /\ x.v = AsHeld(type, v)
        /\ Lies(EncodedIn(m_endian, type, v), ba.m_position, ContentOf(ba))
    BY <2>2, <2>6
  <2>8. CASE type \in {"float", "double"}
    BY <2>4, <2>8 DEF ReadBack
  <2>9. CASE type = "int64" /\ Zigzag(v) >= Pow(Base, 4)
    <3>1. x.v = v
      <4>1. AsHeld("int64", v) = v
        BY Kinds DEF AsHeld
      <4>2. QED
        BY <2>7, <2>9, <4>1
    <3>2. QED
      BY <2>4, <2>9, <3>1 DEF ReadBack
  <2>10. CASE /\ type \notin {"float", "double"}
              /\ ~(type = "int64" /\ Zigzag(v) >= Pow(Base, 4))
    <3>1. type \in Types \ {"raw", "float", "double"} /\ ~Take(type).thrown
      BY <1>3, <2>10 DEF r
    <3>2. Value(type, Take(type).out) = AsHeld(type, v)
      BY <1>1, <2>7, <2>10, <3>1, TakeBack
    <3>3. result'.got = result'.want
      BY <2>4, <2>7, <3>2 DEF r
    <3>4. QED
      BY <3>3 DEF ReadBack
  <2>11. QED
    BY <2>8, <2>9, <2>10
<1>4. QED
  BY <1>2, <1>3

\* The other calls return no value.
LEMMA NoneReadBack == result' = NoResult => ReadBack'
BY DEF ReadBack, NoResult

\* Every step leaves a result that was written.
LEMMA NextReadBack ==
    Fitting => (ArrayInv /\ ValuesHold /\ ReadBack /\ [Next]_vars => ReadBack')
<1> SUFFICES ASSUME Fitting, ArrayInv, ValuesHold, ReadBack, [Next]_vars PROVE ReadBack'
  OBVIOUS
<1>1. CASE UNCHANGED vars
  BY <1>1 DEF vars, ReadBack
<1>2. ASSUME NEW type, NEW v, writeValue(type, v) PROVE ReadBack'
  BY <1>2, NoneReadBack DEF writeValue, Write
<1>3. ASSUME NEW name, readFromFile(name) PROVE ReadBack'
  BY <1>3, NoneReadBack DEF readFromFile, Write
<1>4. ASSUME NEW type \in Types \ {"raw"}, readValue(type) PROVE ReadBack'
  BY <1>4, ReadValueBack
<1>5. ASSUME NEW val, setLittleEndian(val) \/ setPosition(val) PROVE ReadBack'
  BY <1>5, NoneReadBack DEF setLittleEndian, setPosition, NoAnswer
<1>6. CASE clear \/ toString \/ writeToFile \/ readOverruns
  BY <1>6, NoneReadBack DEF clear, toString, writeToFile, readOverruns, NoAnswer
<1>7. ASSUME NEW len, NEW position,
             getReadBuffers(len) \/ getReadBuffersAt(len, position) \/ getWriteBuffers(len)
      PROVE  ReadBack'
  BY <1>7, NoneReadBack DEF getReadBuffers, getReadBuffersAt, getWriteBuffers, Buffers
<1>8. QED
  BY <1>1, <1>2, <1>3, <1>4, <1>5, <1>6, <1>7, Zenon DEF Next

\* What was written is what the array holds at its place: the inductive
\* invariant of ReadBack.  Neither growing by nodes, nor setPosition beyond the
\* end, nor buffers, nor writes elsewhere change the bytes of a value
\* (bytearray.cc:307-507).
THEOREM ValuesHoldAlways == Spec => []ValuesHold
<1>1. Init => ValuesHold
  BY DEF Init, ValuesHold
<1>2. ArrayInv /\ ValuesHold /\ [Next]_vars => ValuesHold'
  BY NextValues
<1>3. QED
  BY <1>1, <1>2, ArrayInductive, PTL DEF Spec

\* The typed reads of integers and strings always return what the typed writes
\* put there: for bytes of any number of bits, nodes of any size, either byte
\* order of the array and of the machine, integers of fixed and variable
\* length, zigzag codes and strings, and any calls between the write and the
\* read.  Nothing is said of float and double, nor of an int64 whose zigzag code
\* needs more than 32 bits: the code loses those.  A string has to fit the size
\* field in front of it, which the code cuts silently, and writeint32 is called
\* with an int32_t (bytearray.cc:62-306).
THEOREM ReadBackAlways ==
    ASSUME Fitting
    PROVE  Spec => []ReadBack
<1>1. Init => ReadBack
  BY DEF Init, ReadBack, NoResult
<1>2. ArrayInv /\ ValuesHold /\ ReadBack /\ [Next]_vars => ReadBack'
  BY NextReadBack
<1>3. QED
  BY <1>1, <1>2, ArrayInductive, ValuesHoldAlways, PTL DEF Spec
=============================================================================
