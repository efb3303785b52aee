-------------------------- MODULE HttpServerProofs --------------------------
(***************************************************************************)
(* Theorems about HttpServer and the Socket objects under it, for any      *)
(* addresses, connections, descriptors and number of calls: every open     *)
(* descriptor has one owner, and the server reads a stream of requests at  *)
(* their boundaries.  And about Address, for any widths: masks, prefixes,  *)
(* texts, hosts and the order agree.                                       *)
(***************************************************************************)
EXTENDS HttpServer, TLAPS, WellFoundedInduction, SequenceTheorems, FiniteSetTheorems

\* Induction: a set with 0 and every successor is all of Nat.
LEMMA Induction ==
    ASSUME NEW S \in SUBSET Nat, 0 \in S, \A n \in S : n + 1 \in S
    PROVE  S = Nat
<1> SUFFICES ASSUME NEW x \in Nat \ S PROVE FALSE
  OBVIOUS
<1>1. PICK y \in Nat \ S : \A z \in Nat \ S : ~(<<z, y>> \in OpToRel(<, Nat))
  BY NatLessThanWellFounded, WFMin
<1>2. y # 0 /\ y - 1 \in Nat
  OBVIOUS
<1>3. <<y - 1, y>> \in OpToRel(<, Nat)
  BY <1>2 DEF OpToRel
<1>4. y - 1 \in S
  BY <1>1, <1>2, <1>3, Zenon
<1>5. QED
  BY <1>4

\* A set of naturals that is not empty has a least member.
LEMMA LeastNatural ==
    ASSUME NEW S \in SUBSET Nat, S # {}
    PROVE  \E i \in S : \A j \in S : i <= j
<1>1. PICK i \in S : \A j \in S : ~(<<j, i>> \in OpToRel(<, Nat))
  BY NatLessThanWellFounded, WFMin
<1>2. ASSUME NEW j \in S, j < i PROVE FALSE
  <2>1. <<j, i>> \in OpToRel(<, Nat)
    BY <1>2 DEF OpToRel
  <2>2. QED
    BY <1>1, <2>1, Zenon
<1>3. QED
  BY <1>2

-----------------------------------------------------------------------------
(* Part 1: descriptors and their owners.                                   *)

\* The shape of the record.
IsFile(f) == DOMAIN f = {"by", "st", "conn"}
IsSock(s) ==
    /\ DOMAIN s = {"alive", "m_sock", "m_isConnected", "m_remoteAddr", "closing", "closed"}
    /\ s.m_sock \in Fds \union {-1} /\ s.m_isConnected \in BOOLEAN /\ s.alive \in BOOLEAN
    /\ s.closing \in BOOLEAN /\ s.closed \in BOOLEAN
Net(n) ==
    /\ DOMAIN n = {"file", "sock"} /\ DOMAIN n.file = Fds /\ DOMAIN n.sock = Objects
    /\ \A fd \in Fds : IsFile(n.file[fd])
    /\ \A o \in Objects : IsSock(n.sock[o])

\* The object has the number of an open file, that it is not closing.
Has(s) == s.m_sock # -1 /\ ~s.closing
\* The file is open, and not one that init() lost.
IsOpen(f) == f.st \notin {"free", "lost"}
\* What an object knows of its peer: nothing before it connects for the first time.
Knows(s, c) ==
    /\ s.m_isConnected => Has(s) /\ (s.closed \/ s.m_remoteAddr \in {0, c})
    /\ ~s.m_isConnected => s.closed \/ s.m_remoteAddr = 0

\* FdOwned of any record of descriptors and objects, and what it needs.
Owned(n) ==
    /\ \A o \in Objects : Has(n.sock[o]) =>
         n.sock[o].alive /\ n.file[n.sock[o].m_sock].by = o /\ IsOpen(n.file[n.sock[o].m_sock])
    /\ \A fd \in Fds : IsOpen(n.file[fd]) =>
         /\ n.file[fd].by \in Objects /\ n.sock[n.file[fd].by].m_sock = fd
         /\ ~n.sock[n.file[fd].by].closing
    /\ \A o \in Objects : n.sock[o].closing => n.sock[o].alive
    /\ \A o \in Objects : Knows(n.sock[o], n.file[n.sock[o].m_sock].conn)
Good(n) == Net(n) /\ Owned(n)

\* A call on an object leaves the others alone.
Others(n, m, o) == \A p \in Objects \ {o} : m.sock[p] = n.sock[p]

\* The number -1 is no descriptor.
LEMMA NoFd == -1 \notin Fds
BY ServerAssumption

\* An object that has no file, before and after.
LEMMA IdleGood ==
    ASSUME NEW n, Good(n), NEW o \in Objects, ~Has(n.sock[o]), NEW s, NEW m,
           IsSock(s), ~Has(s), ~s.m_isConnected, s.closing => s.alive, s.closed \/ s.m_remoteAddr = 0,
           DOMAIN m = {"file", "sock"}, m.file = n.file, DOMAIN m.sock = Objects,
           m.sock[o] = s, \A p \in Objects \ {o} : m.sock[p] = n.sock[p]
    PROVE  Good(m) /\ Others(n, m, o)
<1>1. Net(m)
  BY DEF Good, Net
<1>2. \A p \in Objects : Has(m.sock[p]) => p # o /\ m.sock[p] = n.sock[p]
  OBVIOUS
<1>3. \A fd \in Fds : IsOpen(n.file[fd]) => n.file[fd].by # o
  BY NoFd DEF Good, Owned, Has
<1>4. \A p \in Objects : Has(m.sock[p]) =>
        m.sock[p].alive /\ m.file[m.sock[p].m_sock].by = p /\ IsOpen(m.file[m.sock[p].m_sock])
  BY <1>2 DEF Good, Owned
<1>5. \A fd \in Fds : IsOpen(m.file[fd]) =>
        /\ m.file[fd].by \in Objects /\ m.sock[m.file[fd].by].m_sock = fd
        /\ ~m.sock[m.file[fd].by].closing
  BY <1>3 DEF Good, Owned
<1>6. \A p \in Objects : m.sock[p].closing => m.sock[p].alive
  BY DEF Good, Owned
<1>7. \A p \in Objects : Knows(m.sock[p], m.file[m.sock[p].m_sock].conn)
  <2> SUFFICES ASSUME NEW p \in Objects PROVE Knows(m.sock[p], m.file[m.sock[p].m_sock].conn)
    OBVIOUS
  <2>1. CASE p = o
    BY <2>1 DEF Knows
  <2>2. CASE p # o
    BY <2>2 DEF Good, Owned
  <2>3. QED
    BY <2>1, <2>2
<1>8. QED
  BY <1>1, <1>4, <1>5, <1>6, <1>7 DEF Good, Owned, Others

\* The constructor.
LEMMA CreateGood ==
    ASSUME NEW n, Good(n), NEW o \in Objects, n.sock[o].m_sock = -1
    PROVE  /\ Good(Create(n, o)) /\ Others(n, Create(n, o), o)
           /\ Create(n, o).sock[o] = [Gone EXCEPT !.alive = TRUE] /\ Create(n, o).file = n.file
<1> DEFINE m == Create(n, o)
           s == [Gone EXCEPT !.alive = TRUE]
<1>1. m.file = n.file /\ m.sock = [n.sock EXCEPT ![o] = s] /\ DOMAIN m = {"file", "sock"}
  BY DEF Create, Good, Net
<1>2. /\ IsSock(s) /\ s.m_sock = -1 /\ ~s.m_isConnected /\ ~s.closing /\ s.m_remoteAddr = 0
  BY DEF Gone, IsSock
<1>3. DOMAIN m.sock = Objects /\ m.sock[o] = s /\ \A p \in Objects \ {o} : m.sock[p] = n.sock[p]
  BY <1>1 DEF Good, Net
<1>4. ~Has(n.sock[o]) /\ ~Has(s)
  BY <1>2 DEF Has
<1> HIDE DEF m, s
<1>5. Good(m) /\ Others(n, m, o)
  BY <1>1, <1>2, <1>3, <1>4, IdleGood
<1>6. QED
  BY <1>1, <1>3, <1>5 DEF m, s

\* The lowest free descriptor.
LEMMA NewFdFree ==
    ASSUME NEW n, FreeFds(n) # {}
    PROVE  NewFd(n) \in Fds /\ n.file[NewFd(n)].st = "free"
<1>1. FreeFds(n) \in SUBSET Nat /\ FreeFds(n) \subseteq Fds
  BY ServerAssumption DEF FreeFds
<1>2. \E i \in FreeFds(n) : \A j \in FreeFds(n) : i <= j
  BY <1>1, LeastNatural
<1>3. NewFd(n) \in FreeFds(n)
  BY <1>2 DEF NewFd
<1>4. QED
  BY <1>3 DEF FreeFds

\* An object takes a free descriptor, or changes what it says of its own.
LEMMA PutGood ==
    ASSUME NEW n, Good(n), NEW o \in Objects, NEW fd \in Fds, NEW f, NEW s, NEW m,
           ~n.sock[o].closing,
           \/ n.sock[o].m_sock = -1 /\ n.file[fd].st = "free"
           \/ n.sock[o].m_sock = fd,
           IsFile(f), f.by = o, IsOpen(f),
           IsSock(s), s.alive, s.m_sock = fd, ~s.closing, Knows(s, f.conn),
           DOMAIN m = {"file", "sock"}, DOMAIN m.file = Fds, DOMAIN m.sock = Objects,
           m.file[fd] = f, \A g \in Fds \ {fd} : m.file[g] = n.file[g],
           m.sock[o] = s, \A p \in Objects \ {o} : m.sock[p] = n.sock[p]
    PROVE  Good(m) /\ Others(n, m, o)
<1>1. fd # -1 /\ Net(m)
  BY NoFd DEF Net, Good
<1>2. n.sock[o].m_sock = fd => Has(n.sock[o]) /\ n.file[fd].by = o
  BY <1>1 DEF Good, Owned, Has
<1>3. \A p \in Objects \ {o} : Has(n.sock[p]) => n.sock[p].m_sock \in Fds \ {fd}
  <2> SUFFICES ASSUME NEW p \in Objects \ {o}, Has(n.sock[p]) PROVE n.sock[p].m_sock \in Fds \ {fd}
    OBVIOUS
  <2>1. n.sock[p].m_sock \in Fds
    BY DEF Good, Net, IsSock, Has
  <2>2. n.sock[p].m_sock = fd => n.file[fd].by = p /\ n.file[fd].st # "free"
    BY DEF Good, Owned, IsOpen
  <2>3. QED
    BY <1>2, <2>1, <2>2
<1>4. \A g \in Fds \ {fd} : IsOpen(n.file[g]) => n.file[g].by # o
  BY NoFd DEF Good, Owned
<1>5. \A p \in Objects : Has(m.sock[p]) =>
        m.sock[p].alive /\ m.file[m.sock[p].m_sock].by = p /\ IsOpen(m.file[m.sock[p].m_sock])
  <2> SUFFICES ASSUME NEW p \in Objects, Has(m.sock[p])
               PROVE  m.sock[p].alive /\ m.file[m.sock[p].m_sock].by = p /\ IsOpen(m.file[m.sock[p].m_sock])
    OBVIOUS
  <2>1. CASE p = o
    BY <2>1
  <2>2. CASE p # o
    BY <1>3, <2>2 DEF Good, Owned
  <2>3. QED
    BY <2>1, <2>2
<1>6. \A g \in Fds : IsOpen(m.file[g]) =>
        /\ m.file[g].by \in Objects /\ m.sock[m.file[g].by].m_sock = g
        /\ ~m.sock[m.file[g].by].closing
  BY <1>4 DEF Good, Owned
<1>7. \A p \in Objects : m.sock[p].closing => m.sock[p].alive
  BY DEF Good, Owned
<1>8. \A p \in Objects : Knows(m.sock[p], m.file[m.sock[p].m_sock].conn)
  <2> SUFFICES ASSUME NEW p \in Objects PROVE Knows(m.sock[p], m.file[m.sock[p].m_sock].conn)
    OBVIOUS
  <2>1. CASE p = o
    BY <2>1
  <2>2. CASE p # o
    <3>1. Knows(n.sock[p], n.file[n.sock[p].m_sock].conn) /\ m.sock[p] = n.sock[p]
      BY <2>2 DEF Good, Owned
    <3>2. QED
      BY <1>3, <2>2, <3>1 DEF Knows
  <2>3. QED
    BY <2>1, <2>2
<1>9. QED
  BY <1>1, <1>5, <1>6, <1>7, <1>8 DEF Good, Owned, Others

\* newSock, of an object that has no socket and is not connected.
LEMMA NewSockGood ==
    ASSUME NEW n, Good(n), NEW o \in Objects, n.sock[o].m_sock = -1, n.sock[o].alive,
           ~n.sock[o].closing
    PROVE  LET m == newSock(n, o)
           IN  /\ Good(m) /\ Others(n, m, o)
               /\ m.sock[o].alive /\ ~m.sock[o].closing /\ ~m.sock[o].m_isConnected
<1>0. IsSock(n.sock[o]) /\ Knows(n.sock[o], n.file[n.sock[o].m_sock].conn)
  BY DEF Good, Net, Owned
<1>a. ~n.sock[o].m_isConnected /\ (n.sock[o].closed \/ n.sock[o].m_remoteAddr = 0)
  BY <1>0 DEF Knows, Has
<1>1. CASE FreeFds(n) = {}
  BY <1>1, <1>a DEF newSock, Others
<1>2. CASE FreeFds(n) # {}
  <2> DEFINE fd == NewFd(n)
             f == [by |-> o, st |-> "new", conn |-> 0]
             s == [n.sock[o] EXCEPT !.m_sock = fd]
             m == newSock(n, o)
  <2>1. fd \in Fds /\ n.file[fd].st = "free"
    BY <1>2, NewFdFree
  <2>2. m = [n EXCEPT !.file[fd] = f, !.sock[o].m_sock = fd]
    BY <1>2 DEF newSock
  <2> HIDE DEF fd
  <2>3. /\ DOMAIN m = {"file", "sock"} /\ DOMAIN m.file = Fds /\ DOMAIN m.sock = Objects
        /\ m.file[fd] = f /\ \A g \in Fds \ {fd} : m.file[g] = n.file[g]
        /\ m.sock[o] = s /\ \A p \in Objects \ {o} : m.sock[p] = n.sock[p]
    BY <2>1, <2>2 DEF Good, Net
  <2>4. /\ IsSock(s) /\ s.alive /\ s.m_sock = fd /\ ~s.m_isConnected /\ ~s.closing
        /\ s.m_remoteAddr = n.sock[o].m_remoteAddr /\ s.closed = n.sock[o].closed
    BY <1>0, <1>a, <2>1 DEF IsSock
  <2>5. IsFile(f) /\ f.by = o /\ IsOpen(f)
    BY DEF IsFile, IsOpen
  <2> HIDE DEF m, s, f
  <2>6. Knows(s, f.conn)
    BY <1>a, <2>4 DEF Knows
  <2>7. Good(m) /\ Others(n, m, o) /\ m.sock[o] = s
    BY <2>1, <2>3, <2>4, <2>5, <2>6, PutGood
  <2>8. QED
    BY <2>4, <2>7 DEF m
<1>3. QED
  BY <1>1, <1>2

\* A socket is there when it is needed, or there was none to get.
LEMMA OpenedGood ==
    ASSUME NEW n, Good(n), NEW o \in Objects, n.sock[o].alive, ~n.sock[o].closing,
           ~n.sock[o].m_isConnected
    PROVE  LET m == Opened(n, o)
           IN  /\ Good(m) /\ Others(n, m, o)
               /\ m.sock[o].alive /\ ~m.sock[o].closing /\ ~m.sock[o].m_isConnected
BY NewSockGood DEF Opened, isValid, Others

\* The first step of close: the file goes, the number stays.
LEMMA CloseFileGood ==
    ASSUME NEW n, Good(n), NEW o \in Objects, ~n.sock[o].closing
    PROVE  LET m == closeFile(n, o)
           IN  /\ Good(m) /\ Others(n, m, o)
               /\ m.sock[o].closing \/ m.sock[o].m_sock = -1
               /\ ~m.sock[o].m_isConnected /\ m.sock[o].closed
               /\ m.sock[o].alive = n.sock[o].alive
<1> DEFINE s == n.sock[o]
           m == closeFile(n, o)
<1>0. IsSock(s) /\ DOMAIN n.file = Fds /\ DOMAIN n.sock = Objects /\ DOMAIN n = {"file", "sock"}
  BY DEF Good, Net
<1>1. CASE s.m_sock = -1
  <2> DEFINE t == [s EXCEPT !.m_isConnected = FALSE, !.closed = TRUE]
  <2>1. /\ DOMAIN m = {"file", "sock"} /\ m.file = n.file /\ DOMAIN m.sock = Objects
        /\ m.sock[o] = t /\ \A p \in Objects \ {o} : m.sock[p] = n.sock[p]
    BY <1>0, <1>1 DEF closeFile
  <2>2. /\ IsSock(t) /\ t.m_sock = -1 /\ ~t.m_isConnected /\ t.closed /\ ~t.closing
        /\ t.alive = s.alive
    BY <1>0, <1>1 DEF IsSock
  <2> HIDE DEF m, t
  <2>3. ~Has(n.sock[o]) /\ ~Has(t)
    BY <1>1, <2>2 DEF Has
  <2>4. Good(m) /\ Others(n, m, o)
    BY <2>1, <2>2, <2>3, IdleGood
  <2>5. QED
    BY <2>1, <2>2, <2>4 DEF m
<1>2. CASE s.m_sock # -1
  <2> DEFINE fd == s.m_sock
             t == [s EXCEPT !.m_isConnected = FALSE, !.closing = TRUE, !.closed = TRUE]
  <2>1. fd \in Fds /\ Has(s)
    BY <1>0, <1>2 DEF IsSock, Has
  <2>2. m = [n EXCEPT !.sock[o] = t, !.file[fd] = Free]
    BY <1>2 DEF closeFile
  <2>3. s.alive /\ n.file[fd].by = o
    BY <2>1 DEF Good, Owned
  <2> HIDE DEF fd
  <2>4. /\ DOMAIN m = {"file", "sock"} /\ DOMAIN m.file = Fds /\ DOMAIN m.sock = Objects
        /\ m.sock[o] = t /\ m.file[fd] = Free
        /\ \A p \in Objects \ {o} : m.sock[p] = n.sock[p]
        /\ \A g \in Fds \ {fd} : m.file[g] = n.file[g]
    BY <1>0, <2>1, <2>2
  <2>5. /\ IsSock(t) /\ t.closing /\ ~t.m_isConnected /\ t.closed /\ t.alive = s.alive
    BY <1>0 DEF IsSock
  <2>6. IsFile(Free) /\ ~IsOpen(Free)
    BY DEF Free, IsFile, IsOpen
  <2> HIDE DEF m, t
  <2>7. Net(m)
    BY <2>4, <2>5, <2>6 DEF Good, Net
  <2>8. \A p \in Objects \ {o} : Has(n.sock[p]) => n.sock[p].m_sock \in Fds \ {fd}
    <3> SUFFICES ASSUME NEW p \in Objects \ {o}, Has(n.sock[p]) PROVE n.sock[p].m_sock \in Fds \ {fd}
      OBVIOUS
    <3>1. n.sock[p].m_sock \in Fds
      BY DEF Good, Net, IsSock, Has
    <3>2. n.sock[p].m_sock = fd => n.file[fd].by = p
      BY DEF Good, Owned
    <3>3. QED
      BY <2>3, <3>1, <3>2
  <2>9. \A g \in Fds \ {fd} : IsOpen(n.file[g]) => n.file[g].by # o
    BY DEF Good, Owned, fd
  <2>10. Owned(m)
    <3>1. \A p \in Objects : Has(m.sock[p]) =>
            m.sock[p].alive /\ m.file[m.sock[p].m_sock].by = p /\ IsOpen(m.file[m.sock[p].m_sock])
      <4> SUFFICES ASSUME NEW p \in Objects, Has(m.sock[p])
                   PROVE  /\ m.sock[p].alive /\ m.file[m.sock[p].m_sock].by = p
                          /\ IsOpen(m.file[m.sock[p].m_sock])
        OBVIOUS
      <4>1. p # o
        BY <2>4, <2>5 DEF Has
      <4>2. /\ m.sock[p] = n.sock[p] /\ Has(n.sock[p])
            /\ n.sock[p].alive /\ n.file[n.sock[p].m_sock].by = p /\ IsOpen(n.file[n.sock[p].m_sock])
        BY <2>4, <4>1 DEF Good, Owned
      <4>3. m.file[n.sock[p].m_sock] = n.file[n.sock[p].m_sock]
        BY <2>4, <2>8, <4>1, <4>2
      <4>4. QED
        BY <4>2, <4>3
    <3>2. \A g \in Fds : IsOpen(m.file[g]) =>
            /\ m.file[g].by \in Objects /\ m.sock[m.file[g].by].m_sock = g
            /\ ~m.sock[m.file[g].by].closing
      BY <2>4, <2>6, <2>9 DEF Good, Owned
    <3>a. t.alive
      BY <2>3, <2>5, Zenon
    <3>3. \A p \in Objects : m.sock[p].closing => m.sock[p].alive
      BY <2>4, <3>a DEF Good, Owned
    <3>4. \A p \in Objects : Knows(m.sock[p], m.file[m.sock[p].m_sock].conn)
      <4> SUFFICES ASSUME NEW p \in Objects PROVE Knows(m.sock[p], m.file[m.sock[p].m_sock].conn)
        OBVIOUS
      <4>1. CASE p = o
        BY <2>4, <2>5, <4>1 DEF Knows
      <4>2. CASE p # o
        <5>1. Knows(n.sock[p], n.file[n.sock[p].m_sock].conn) /\ m.sock[p] = n.sock[p]
          BY <2>4, <4>2 DEF Good, Owned
        <5>2. QED
          BY <2>4, <2>8, <4>2, <5>1 DEF Knows
      <4>3. QED
        BY <4>1, <4>2
    <3>5. QED
      BY <3>1, <3>2, <3>3, <3>4 DEF Owned
  <2>11. QED
    BY <2>4, <2>5, <2>7, <2>10 DEF Good, Others, m
<1>3. QED
  BY <1>1, <1>2

\* The second step of close: the number is forgotten, whoever has it by now.
LEMMA ForgetGood ==
    ASSUME NEW n, Good(n), NEW o \in Objects, n.sock[o].closing \/ n.sock[o].m_sock = -1,
           n.sock[o].closed
    PROVE  LET m == forgetNumber(n, o)
           IN  /\ Good(m) /\ Others(n, m, o)
               /\ m.sock[o].m_sock = -1 /\ ~m.sock[o].closing /\ ~m.sock[o].m_isConnected
               /\ m.sock[o].alive = n.sock[o].alive /\ m.sock[o].closed
<1> DEFINE s == n.sock[o]
           t == [s EXCEPT !.m_sock = -1, !.closing = FALSE]
           m == forgetNumber(n, o)
<1>0. /\ IsSock(s) /\ Knows(s, n.file[s.m_sock].conn)
      /\ DOMAIN n.sock = Objects /\ DOMAIN n = {"file", "sock"}
  BY DEF Good, Net, Owned
<1>1. ~Has(s) /\ ~s.m_isConnected
  BY <1>0 DEF Has, Knows
<1>2. /\ DOMAIN m = {"file", "sock"} /\ m.file = n.file /\ DOMAIN m.sock = Objects
      /\ m.sock[o] = t /\ \A p \in Objects \ {o} : m.sock[p] = n.sock[p]
  BY <1>0 DEF forgetNumber
<1>3. /\ IsSock(t) /\ t.m_sock = -1 /\ ~t.closing /\ ~t.m_isConnected /\ t.alive = s.alive /\ t.closed
  BY <1>0, <1>1 DEF IsSock
<1> HIDE DEF m, t
<1>4. ~Has(t)
  BY <1>3 DEF Has
<1>5. Good(m) /\ Others(n, m, o)
  BY <1>1, <1>2, <1>3, <1>4, IdleGood
<1>6. QED
  BY <1>2, <1>3, <1>5 DEF m

\* close at once.
LEMMA CloseGood ==
    ASSUME NEW n, Good(n), NEW o \in Objects, ~n.sock[o].closing
    PROVE  LET m == close(n, o)
           IN  /\ Good(m) /\ Others(n, m, o)
               /\ m.sock[o].m_sock = -1 /\ ~m.sock[o].closing /\ ~m.sock[o].m_isConnected
               /\ m.sock[o].alive = n.sock[o].alive /\ m.sock[o].closed
<1> DEFINE k == closeFile(n, o)
           m == close(n, o)
<1>1. /\ Good(k) /\ Others(n, k, o) /\ (k.sock[o].closing \/ k.sock[o].m_sock = -1)
      /\ k.sock[o].alive = n.sock[o].alive /\ k.sock[o].closed
  BY CloseFileGood
<1>2. m = forgetNumber(k, o)
  BY DEF close
<1> HIDE DEF k, m
<1>3. /\ Good(m) /\ Others(k, m, o)
      /\ m.sock[o].m_sock = -1 /\ ~m.sock[o].closing /\ ~m.sock[o].m_isConnected
      /\ m.sock[o].alive = k.sock[o].alive /\ m.sock[o].closed
  BY <1>1, <1>2, ForgetGood
<1>4. QED
  BY <1>1, <1>3 DEF Others, m

\* The destructor.
LEMMA DestroyGood ==
    ASSUME NEW n, Good(n), NEW o \in Objects, ~n.sock[o].closing
    PROVE  LET m == Destroy(n, o)
           IN  /\ Good(m) /\ Others(n, m, o) /\ m.sock[o].m_sock = -1
               /\ ~m.sock[o].closing /\ ~m.sock[o].m_isConnected /\ ~m.sock[o].alive /\ m.sock[o].closed
<1> DEFINE c == close(n, o)
           t == [c.sock[o] EXCEPT !.alive = FALSE]
           m == Destroy(n, o)
<1>1. /\ Good(c) /\ Others(n, c, o) /\ c.sock[o].m_sock = -1 /\ ~c.sock[o].m_isConnected
      /\ ~c.sock[o].closing /\ c.sock[o].closed
  BY CloseGood
<1>2. m = [c EXCEPT !.sock[o].alive = FALSE]
  BY DEF Destroy
<1> HIDE DEF c
<1>3. IsSock(c.sock[o]) /\ DOMAIN c.sock = Objects /\ DOMAIN c = {"file", "sock"}
  BY <1>1 DEF Good, Net
<1>4. /\ DOMAIN m = {"file", "sock"} /\ m.file = c.file /\ DOMAIN m.sock = Objects
      /\ m.sock[o] = t /\ \A p \in Objects \ {o} : m.sock[p] = c.sock[p]
  BY <1>2, <1>3
<1>5. /\ IsSock(t) /\ t.m_sock = -1 /\ ~t.closing /\ ~t.m_isConnected /\ ~t.alive /\ t.closed
  BY <1>1, <1>3 DEF IsSock
<1> HIDE DEF m, t
<1>6. ~Has(t) /\ ~Has(c.sock[o])
  BY <1>1, <1>5 DEF Has
<1>7. Good(m) /\ Others(c, m, o)
  BY <1>1, <1>4, <1>5, <1>6, IdleGood
<1>8. QED
  BY <1>1, <1>4, <1>5, <1>7 DEF Others, m

\* bind, and the newSock it may make.
LEMMA BindGood ==
    ASSUME NEW n, Good(n), NEW o \in Objects, n.sock[o].alive, ~n.sock[o].closing,
           ~n.sock[o].m_isConnected, NEW ok
    PROVE  LET m == bind(n, o, ok).net
           IN  Good(m) /\ Others(n, m, o) /\ ~m.sock[o].closing /\ ~m.sock[o].m_isConnected
<1> DEFINE m == Opened(n, o)
<1>1. /\ Good(m) /\ Others(n, m, o) /\ m.sock[o].alive /\ ~m.sock[o].closing
      /\ ~m.sock[o].m_isConnected
  BY OpenedGood
<1> HIDE DEF m
<1>2. CASE isValid(m, o) /\ ok
  <2> DEFINE fd == m.sock[o].m_sock
             q == [m EXCEPT !.file[fd].st = "bound"]
             f == [m.file[fd] EXCEPT !.st = "bound"]
  <2>1. bind(n, o, ok).net = q
    BY <1>2 DEF bind, m
  <2>2. fd \in Fds /\ Has(m.sock[o])
    BY <1>1, <1>2 DEF isValid, Good, Net, IsSock, Has
  <2>3. /\ IsFile(m.file[fd]) /\ m.file[fd].by = o /\ IsSock(m.sock[o])
        /\ Knows(m.sock[o], m.file[fd].conn)
    BY <1>1, <2>2 DEF Good, Net, Owned
  <2>4. /\ IsFile(f) /\ f.by = o /\ IsOpen(f) /\ f.conn = m.file[fd].conn
    BY <2>3 DEF IsFile, IsOpen
  <2>5. DOMAIN m.sock = Objects /\ DOMAIN m.file = Fds /\ DOMAIN m = {"file", "sock"}
    BY <1>1 DEF Good, Net
  <2> HIDE DEF fd
  <2>6. /\ DOMAIN q = {"file", "sock"} /\ DOMAIN q.file = Fds
        /\ q.file[fd] = f /\ (\A g \in Fds \ {fd} : q.file[g] = m.file[g])
        /\ q.sock = m.sock
    BY <2>2, <2>5
  <2> HIDE DEF q, f
  <2>a. m.sock[o].m_sock = fd /\ Knows(m.sock[o], f.conn) /\ DOMAIN q.sock = Objects
    BY <2>3, <2>4, <2>5, <2>6 DEF fd
  <2>7. Good(q) /\ Others(m, q, o)
    BY <1>1, <2>2, <2>3, <2>4, <2>6, <2>a, PutGood
  <2>8. QED
    BY <1>1, <2>1, <2>6, <2>7 DEF Others
<1>3. CASE ~(isValid(m, o) /\ ok)
  <2>1. bind(n, o, ok).net = m
    BY <1>3 DEF bind, m
  <2>2. QED
    BY <1>1, <2>1
<1>4. QED
  BY <1>2, <1>3

\* listen.
LEMMA ListenGood ==
    ASSUME NEW n, Good(n), NEW o \in Objects, ~n.sock[o].closing
    PROVE  /\ Good(listen(n, o).net) /\ Others(n, listen(n, o).net, o)
           /\ listen(n, o).net.sock = n.sock
<1>1. CASE isValid(n, o)
  <2> DEFINE fd == n.sock[o].m_sock
             q == [n EXCEPT !.file[fd].st = "listen"]
             f == [n.file[fd] EXCEPT !.st = "listen"]
  <2>1. listen(n, o).net = q
    BY <1>1 DEF listen
  <2>2. fd \in Fds /\ Has(n.sock[o])
    BY <1>1 DEF isValid, Good, Net, IsSock, Has
  <2>3. /\ IsFile(n.file[fd]) /\ n.file[fd].by = o /\ IsSock(n.sock[o]) /\ n.sock[o].alive
        /\ Knows(n.sock[o], n.file[fd].conn)
    BY <2>2 DEF Good, Net, Owned
  <2>4. /\ IsFile(f) /\ f.by = o /\ IsOpen(f) /\ f.conn = n.file[fd].conn
    BY <2>3 DEF IsFile, IsOpen
  <2>5. DOMAIN n.sock = Objects /\ DOMAIN n.file = Fds /\ DOMAIN n = {"file", "sock"}
    BY DEF Good, Net
  <2> HIDE DEF fd
  <2>6. /\ DOMAIN q = {"file", "sock"} /\ DOMAIN q.file = Fds
        /\ q.file[fd] = f /\ (\A g \in Fds \ {fd} : q.file[g] = n.file[g])
        /\ q.sock = n.sock
    BY <2>2, <2>5
  <2> HIDE DEF q, f
  <2>a. n.sock[o].m_sock = fd /\ Knows(n.sock[o], f.conn) /\ DOMAIN q.sock = Objects
    BY <2>3, <2>4, <2>5, <2>6 DEF fd
  <2>7. Good(q) /\ Others(n, q, o)
    BY <2>2, <2>3, <2>4, <2>6, <2>a, PutGood
  <2>8. QED
    BY <2>1, <2>6, <2>7
<1>2. CASE ~isValid(n, o)
  BY <1>2 DEF listen, Others
<1>3. QED
  BY <1>1, <1>2

\* connect, also of an object that had a connection before.
LEMMA ConnectGood ==
    ASSUME NEW n, Good(n), NEW o \in Objects, n.sock[o].alive, ~n.sock[o].closing,
           ~n.sock[o].m_isConnected, NEW c, NEW result
    PROVE  LET r == connect(n, o, c, result).net
           IN  Good(r) /\ Others(n, r, o) /\ ~r.sock[o].closing
<1> DEFINE m == Opened(n, o)
           fd == m.sock[o].m_sock
           r == connect(n, o, c, result).net
           known == result = "connected"
<1>1. /\ Good(m) /\ Others(n, m, o) /\ m.sock[o].alive /\ ~m.sock[o].closing
      /\ ~m.sock[o].m_isConnected
  BY OpenedGood
<1> HIDE DEF m
<1>2. CASE ~isValid(m, o) \/ result = "family"
  <2>1. r = m
    BY <1>2 DEF connect, m
  <2>2. QED
    BY <1>1, <2>1
<1>3. CASE isValid(m, o) /\ result = "refused"
  <2>1. r = close(m, o)
    BY <1>3 DEF connect, m
  <2>2. Good(r) /\ Others(m, r, o) /\ ~r.sock[o].closing
    BY <1>1, <2>1, CloseGood
  <2>3. QED
    BY <1>1, <2>2 DEF Others
<1>4. CASE isValid(m, o) /\ result # "family" /\ result # "refused"
  <2> DEFINE q == [m EXCEPT !.file[fd].st = "conn", !.file[fd].conn = c, !.sock[o].m_isConnected = TRUE]
             f == [m.file[fd] EXCEPT !.st = "conn", !.conn = c]
             s0 == [m.sock[o] EXCEPT !.m_isConnected = TRUE]
             s == IF s0.m_remoteAddr # 0 \/ ~known THEN s0 ELSE [s0 EXCEPT !.m_remoteAddr = c]
  <2>1. r = getRemoteAddress(q, o, known)
    BY <1>4 DEF connect, m
  <2>2. fd \in Fds /\ Has(m.sock[o])
    BY <1>1, <1>4 DEF isValid, Good, Net, IsSock, Has
  <2>3. /\ IsFile(m.file[fd]) /\ m.file[fd].by = o /\ IsSock(m.sock[o])
        /\ Knows(m.sock[o], m.file[fd].conn)
        /\ DOMAIN m.sock = Objects /\ DOMAIN m.file = Fds /\ DOMAIN m = {"file", "sock"}
    BY <1>1, <2>2 DEF Good, Net, Owned
  <2>4. IsFile(f) /\ f.by = o /\ IsOpen(f) /\ f.conn = c
    BY <2>3 DEF IsFile, IsOpen
  <2>5. /\ IsSock(s0) /\ s0.alive = m.sock[o].alive /\ s0.m_sock = fd /\ s0.closing = m.sock[o].closing
        /\ s0.m_isConnected /\ s0.closed = m.sock[o].closed
        /\ s0.m_remoteAddr = m.sock[o].m_remoteAddr
    BY <2>3 DEF IsSock
  <2>a. m.sock[o].m_sock = fd
    OBVIOUS
  <2> HIDE DEF fd
  <2>6. /\ DOMAIN q = {"file", "sock"} /\ DOMAIN q.file = Fds /\ DOMAIN q.sock = Objects
        /\ q.file[fd] = f /\ \A g \in Fds \ {fd} : q.file[g] = m.file[g]
        /\ q.sock[o] = s0
        /\ \A p \in Objects \ {o} : q.sock[p] = m.sock[p]
    BY <2>2, <2>3
  <2> HIDE DEF q, s0, f, known
  <2>7. m.sock[o].closed \/ m.sock[o].m_remoteAddr = 0
    BY <1>1, <2>3 DEF Knows
  <2>8. /\ IsSock(s) /\ s.alive = s0.alive /\ s.m_sock = fd /\ s.closing = s0.closing
        /\ s.m_isConnected = s0.m_isConnected /\ s.closed = s0.closed
        /\ s.m_remoteAddr = s0.m_remoteAddr \/ s.m_remoteAddr = c
    BY <2>5 DEF IsSock
  <2>9. s.alive /\ ~s.closing /\ s.m_isConnected /\ (s.closed \/ s.m_remoteAddr \in {0, c})
    BY <1>1, <2>5, <2>7, <2>8
  <2>b. fd # -1
    BY <2>2, NoFd
  <2>10. Knows(s, f.conn)
    BY <2>4, <2>8, <2>9, <2>b DEF Knows, Has
  <2>11. /\ DOMAIN r = {"file", "sock"} /\ r.file = q.file /\ DOMAIN r.sock = Objects
         /\ r.sock[o] = s /\ \A p \in Objects \ {o} : r.sock[p] = q.sock[p]
    <3>1. q.file[q.sock[o].m_sock].conn = c
      BY <2>4, <2>5, <2>6
    <3>2. r = IF s0.m_remoteAddr # 0 \/ ~known THEN q ELSE [q EXCEPT !.sock[o].m_remoteAddr = c]
      BY <2>1, <2>6, <3>1 DEF getRemoteAddress
    <3> HIDE DEF r
    <3>3. CASE s0.m_remoteAddr # 0 \/ ~known
      BY <2>6, <3>2, <3>3
    <3>4. CASE ~(s0.m_remoteAddr # 0 \/ ~known)
      BY <2>6, <3>2, <3>4
    <3>5. QED
      BY <3>3, <3>4
  <2> HIDE DEF r, s
  <2>12. /\ DOMAIN r = {"file", "sock"} /\ DOMAIN r.file = Fds /\ DOMAIN r.sock = Objects
         /\ r.file[fd] = f /\ \A g \in Fds \ {fd} : r.file[g] = m.file[g]
         /\ r.sock[o] = s /\ \A p \in Objects \ {o} : r.sock[p] = m.sock[p]
    BY <2>6, <2>11
  <2>13. Good(r) /\ Others(m, r, o)
    BY <1>1, <2>2, <2>4, <2>8, <2>9, <2>10, <2>12, <2>a, PutGood
  <2>14. QED
    BY <1>1, <2>9, <2>12, <2>13 DEF Others, r
<1>5. QED
  BY <1>2, <1>3, <1>4

\* accept: a new object with a new descriptor, connected at once, or a
\* descriptor that is lost.
LEMMA AcceptGood ==
    ASSUME NEW n, Good(n), NEW o \in Objects, n.sock[o].m_sock = -1, ~n.sock[o].closing,
           FreeFds(n) # {}, NEW c, NEW result
    PROVE  LET r == accept(n, o, c, result)
           IN  Good(r) /\ Others(n, r, o) /\ ~r.sock[o].closing
<1> DEFINE fd == NewFd(n)
           r == accept(n, o, c, result)
<1>1. fd \in Fds /\ n.file[fd].st = "free"
  BY NewFdFree
<1>2. CASE result = "context"
  <2> DEFINE f == [by |-> o, st |-> "lost", conn |-> c]
  <2>1. r = [n EXCEPT !.file[fd] = f]
    BY <1>2 DEF accept
  <2> HIDE DEF fd
  <2>2. /\ DOMAIN r = {"file", "sock"} /\ DOMAIN r.file = Fds /\ r.sock = n.sock
        /\ r.file[fd] = f /\ \A g \in Fds \ {fd} : r.file[g] = n.file[g]
    BY <1>1, <2>1 DEF Good, Net
  <2>3. IsFile(f) /\ ~IsOpen(f)
    BY DEF IsFile, IsOpen
  <2> HIDE DEF r, f
  <2>4. \A p \in Objects : Has(n.sock[p]) => n.sock[p].m_sock \in Fds \ {fd}
    BY <1>1 DEF Good, Net, Owned, IsSock, Has, IsOpen
  <2>5. Net(r)
    BY <2>2, <2>3 DEF Good, Net
  <2>6. \A p \in Objects : Has(r.sock[p]) =>
          r.sock[p].alive /\ r.file[r.sock[p].m_sock].by = p /\ IsOpen(r.file[r.sock[p].m_sock])
    BY <2>2, <2>4 DEF Good, Owned
  <2>7. \A g \in Fds : IsOpen(r.file[g]) =>
          /\ r.file[g].by \in Objects /\ r.sock[r.file[g].by].m_sock = g
          /\ ~r.sock[r.file[g].by].closing
    BY <2>2, <2>3 DEF Good, Owned
  <2>8. \A p \in Objects : Knows(r.sock[p], r.file[r.sock[p].m_sock].conn)
    <3> SUFFICES ASSUME NEW p \in Objects PROVE Knows(r.sock[p], r.file[r.sock[p].m_sock].conn)
      OBVIOUS
    <3>1. Knows(n.sock[p], n.file[n.sock[p].m_sock].conn)
      BY DEF Good, Owned
    <3>2. QED
      BY <2>2, <2>4, <3>1 DEF Knows
  <2>9. \A p \in Objects : r.sock[p].closing => r.sock[p].alive
    BY <2>2 DEF Good, Owned
  <2>10. QED
    BY <2>2, <2>5, <2>6, <2>7, <2>8, <2>9 DEF Good, Owned, Others, r
<1>3. CASE result # "context"
  <2> DEFINE f == [by |-> o, st |-> "conn", conn |-> c]
             known == result = "connected"
             s0 == [Gone EXCEPT !.alive = TRUE]
             s1 == [s0 EXCEPT !.m_sock = fd, !.m_isConnected = TRUE]
             s == IF known THEN [s1 EXCEPT !.m_remoteAddr = c] ELSE s1
             m == [n EXCEPT !.file[fd] = f]
             k == Create(m, o)
             q == [k EXCEPT !.sock[o].m_sock = fd, !.sock[o].m_isConnected = TRUE]
  <2>2. r = getRemoteAddress(q, o, known)
    BY <1>3 DEF accept, init
  <2> HIDE DEF fd
  <2>3. /\ DOMAIN m = {"file", "sock"} /\ DOMAIN m.file = Fds /\ m.sock = n.sock
        /\ m.file[fd] = f /\ \A g \in Fds \ {fd} : m.file[g] = n.file[g]
        /\ DOMAIN n.sock = Objects
    BY <1>1 DEF Good, Net
  <2> HIDE DEF m
  <2>a. /\ DOMAIN k = {"file", "sock"} /\ k.file = m.file /\ DOMAIN k.sock = Objects
        /\ k.sock[o] = s0 /\ \A p \in Objects \ {o} : k.sock[p] = n.sock[p]
    BY <2>3 DEF Create
  <2> HIDE DEF k
  <2>4. /\ DOMAIN q = {"file", "sock"} /\ DOMAIN q.file = Fds /\ DOMAIN q.sock = Objects
        /\ q.file[fd] = f /\ \A g \in Fds \ {fd} : q.file[g] = n.file[g]
        /\ q.sock[o] = s1 /\ \A p \in Objects \ {o} : q.sock[p] = n.sock[p]
    BY <2>3, <2>a DEF Gone
  <2> HIDE DEF q
  <2>5. /\ IsSock(s1) /\ s1.m_remoteAddr = 0 /\ s1.m_sock = fd /\ s1.alive /\ ~s1.closing
        /\ s1.m_isConnected
    BY <1>1 DEF IsSock, Gone
  <2> HIDE DEF s1, known
  <2>6. /\ IsSock(s) /\ s.m_sock = fd /\ s.alive = s1.alive /\ s.closing = s1.closing
        /\ s.m_isConnected = s1.m_isConnected /\ s.m_remoteAddr \in {0, c}
    BY <2>5 DEF IsSock
  <2>7. s.alive /\ ~s.closing /\ s.m_isConnected
    BY <2>5, <2>6
  <2>8. IsFile(f) /\ f.by = o /\ IsOpen(f) /\ f.conn = c
    BY DEF IsFile, IsOpen
  <2>b. fd # -1
    BY <1>1, NoFd
  <2>9. Knows(s, f.conn)
    BY <2>6, <2>7, <2>8, <2>b DEF Knows, Has
  <2>10. /\ DOMAIN r = {"file", "sock"} /\ r.file = q.file /\ DOMAIN r.sock = Objects
         /\ r.sock[o] = s /\ \A p \in Objects \ {o} : r.sock[p] = q.sock[p]
    <3>1. q.file[q.sock[o].m_sock].conn = c
      BY <2>4, <2>5, <2>8
    <3>2. r = IF ~known THEN q ELSE [q EXCEPT !.sock[o].m_remoteAddr = c]
      BY <2>2, <2>4, <2>5, <3>1 DEF getRemoteAddress
    <3> HIDE DEF r
    <3>3. CASE ~known
      BY <2>4, <3>2, <3>3
    <3>4. CASE known
      BY <2>4, <3>2, <3>4
    <3>5. QED
      BY <3>3, <3>4
  <2> HIDE DEF r, f, s
  <2>11. /\ DOMAIN r = {"file", "sock"} /\ DOMAIN r.file = Fds /\ DOMAIN r.sock = Objects
         /\ r.file[fd] = f /\ \A g \in Fds \ {fd} : r.file[g] = n.file[g]
         /\ r.sock[o] = s /\ \A p \in Objects \ {o} : r.sock[p] = n.sock[p]
    BY <2>4, <2>10
  <2>12. Good(r) /\ Others(n, r, o)
    BY <1>1, <2>6, <2>7, <2>8, <2>9, <2>11, PutGood
  <2>13. QED
    BY <2>7, <2>11, <2>12 DEF r
<1>4. QED
  BY <1>2, <1>3

\* Listening sockets are objects.
LEMMA ObjectsKnown ==
    /\ \A a \in Addrs : Listener(a) \in Objects
    /\ \A c \in Conns : ServerEnd(c) \in Objects /\ ClientEnd(c) \in Objects
BY ServerAssumption DEF AllObjects

\* Only the listening sockets of addrs change.
OnlyListeners(n, m, addrs) ==
    \A p \in Objects : (\A a \in addrs : p # Listener(a)) => m.sock[p] = n.sock[p]
\* No object begins to close.
Calm(n, m) == \A o \in Objects : m.sock[o].closing => n.sock[o].closing

\* The sockets of several addresses go; none of them is just closing.
LEMMA DestroyAllGood ==
    ASSUME NEW n, Good(n), NEW addrs \in SUBSET Addrs, \A a \in addrs : ~n.sock[Listener(a)].closing
    PROVE  LET m == DestroyAll(n, addrs)
           IN  Good(m) /\ OnlyListeners(n, m, addrs) /\ Calm(n, m)
<1> DEFINE m == DestroyAll(n, addrs)
           shut(o) == \E a \in addrs : o = Listener(a)
           freed(fd) == \E a \in addrs : n.sock[Listener(a)].m_sock = fd
<1>1. /\ DOMAIN m = {"file", "sock"} /\ DOMAIN m.file = Fds /\ DOMAIN m.sock = Objects
      /\ \A fd \in Fds : m.file[fd] = IF freed(fd) THEN Free ELSE n.file[fd]
      /\ \A o \in Objects : m.sock[o] = IF shut(o) THEN Destroy(n, o).sock[o] ELSE n.sock[o]
  BY DEF DestroyAll
<1> HIDE DEF m
<1>2. ASSUME NEW o \in Objects, shut(o)
      PROVE  /\ IsSock(m.sock[o]) /\ m.sock[o].m_sock = -1 /\ ~m.sock[o].m_isConnected
             /\ ~m.sock[o].closing /\ m.sock[o].closed
  <2>1. ~n.sock[o].closing /\ m.sock[o] = Destroy(n, o).sock[o]
    BY <1>1, <1>2
  <2>2. /\ Good(Destroy(n, o)) /\ Destroy(n, o).sock[o].m_sock = -1
        /\ ~Destroy(n, o).sock[o].m_isConnected
        /\ ~Destroy(n, o).sock[o].closing /\ Destroy(n, o).sock[o].closed
    BY <2>1, DestroyGood
  <2>3. QED
    BY <2>1, <2>2 DEF Good, Net
<1>3. \A o \in Objects : ~shut(o) => m.sock[o] = n.sock[o]
  BY <1>1
<1>4. /\ IsFile(Free) /\ ~IsOpen(Free)
      /\ \A fd \in Fds : (freed(fd) => m.file[fd] = Free) /\ (~freed(fd) => m.file[fd] = n.file[fd])
  BY <1>1 DEF Free, IsFile, IsOpen
<1>5. \A o \in Objects : ~shut(o) /\ Has(n.sock[o]) =>
        n.sock[o].m_sock \in Fds /\ ~freed(n.sock[o].m_sock)
  <2> SUFFICES ASSUME NEW o \in Objects, ~shut(o), Has(n.sock[o])
               PROVE  n.sock[o].m_sock \in Fds /\ ~freed(n.sock[o].m_sock)
    OBVIOUS
  <2>1. n.sock[o].m_sock \in Fds /\ n.file[n.sock[o].m_sock].by = o
    BY DEF Good, Net, IsSock, Owned, Has
  <2>2. ASSUME NEW a \in addrs, n.sock[Listener(a)].m_sock = n.sock[o].m_sock PROVE FALSE
    <3>1. Listener(a) \in Objects /\ Listener(a) # o /\ ~n.sock[Listener(a)].closing
      BY ObjectsKnown
    <3>2. Has(n.sock[Listener(a)])
      BY <2>2, <3>1 DEF Has
    <3>3. n.file[n.sock[Listener(a)].m_sock].by = Listener(a)
      BY <3>1, <3>2 DEF Good, Owned
    <3>4. QED
      BY <2>1, <2>2, <3>1, <3>3
  <2>3. QED
    BY <2>1, <2>2
<1>6. \A fd \in Fds : ~freed(fd) /\ IsOpen(n.file[fd]) => ~shut(n.file[fd].by)
  BY DEF Good, Owned
<1>7. Net(m)
  BY <1>1, <1>2, <1>3, <1>4 DEF Good, Net
<1>a. \A o \in Objects : shut(o) =>
        /\ m.sock[o].m_sock = -1 /\ ~m.sock[o].m_isConnected /\ ~m.sock[o].closing /\ m.sock[o].closed
  BY <1>2
<1> HIDE DEF shut, freed
<1>8. \A o \in Objects : Has(m.sock[o]) =>
        m.sock[o].alive /\ m.file[m.sock[o].m_sock].by = o /\ IsOpen(m.file[m.sock[o].m_sock])
  <2> SUFFICES ASSUME NEW o \in Objects, Has(m.sock[o])
               PROVE  m.sock[o].alive /\ m.file[m.sock[o].m_sock].by = o /\ IsOpen(m.file[m.sock[o].m_sock])
    OBVIOUS
  <2>1. ~shut(o)
    BY <1>a DEF Has
  <2>2. QED
    BY <1>3, <1>4, <1>5, <2>1 DEF Good, Owned
<1>9. \A fd \in Fds : IsOpen(m.file[fd]) =>
        /\ m.file[fd].by \in Objects /\ m.sock[m.file[fd].by].m_sock = fd
        /\ ~m.sock[m.file[fd].by].closing
  BY <1>3, <1>4, <1>6 DEF Good, Owned
<1>10. \A o \in Objects : m.sock[o].closing => m.sock[o].alive
  BY <1>3, <1>a DEF Good, Owned
<1>11. \A o \in Objects : Knows(m.sock[o], m.file[m.sock[o].m_sock].conn)
  <2> SUFFICES ASSUME NEW o \in Objects PROVE Knows(m.sock[o], m.file[m.sock[o].m_sock].conn)
    OBVIOUS
  <2>1. CASE shut(o)
    BY <1>a, <2>1 DEF Knows
  <2>2. CASE ~shut(o)
    <3>1. Knows(n.sock[o], n.file[n.sock[o].m_sock].conn) /\ m.sock[o] = n.sock[o]
      BY <1>3, <2>2 DEF Good, Owned
    <3>2. QED
      BY <1>4, <1>5, <2>2, <3>1 DEF Knows
  <2>3. QED
    BY <2>1, <2>2
<1>12. Calm(n, m)
  BY <1>3, <1>a DEF Calm
<1>13. OnlyListeners(n, m, addrs)
  BY <1>3 DEF OnlyListeners, shut
<1>14. QED
  BY <1>7, <1>8, <1>9, <1>10, <1>11, <1>12, <1>13 DEF Good, Owned, m

\* One address of bind.
LEMMA BindOneGood ==
    ASSUME NEW s, DOMAIN s = {"net", "socks", "fails"}, Good(s.net), s.socks \subseteq Addrs,
           NEW a \in Addrs, s.net.sock[Listener(a)].m_sock = -1, NEW ok
    PROVE  LET t == bindOne(s, a, ok)
           IN  /\ DOMAIN t = {"net", "socks", "fails"} /\ Good(t.net) /\ t.socks \subseteq Addrs
               /\ Others(s.net, t.net, Listener(a)) /\ Calm(s.net, t.net)
<1> DEFINE o == Listener(a)
           c == Create(s.net, o)
           b == bind(c, o, ok)
           l == listen(b.net, o)
           d == Destroy(b.net, o)
           t == bindOne(s, a, ok)
<1>0. o \in Objects
  BY ObjectsKnown
<1>1. t = IF b.ok /\ l.ok THEN [s EXCEPT !.net = l.net, !.socks = s.socks \union {a}]
          ELSE [s EXCEPT !.net = d, !.fails = TRUE]
  BY DEF bindOne
<1>a. s.net.sock[o].m_sock = -1
  OBVIOUS
<1> HIDE DEF o
<1>2. Good(c) /\ Others(s.net, c, o) /\ c.sock[o] = [Gone EXCEPT !.alive = TRUE]
  BY <1>0, <1>a, CreateGood
<1>3. c.sock[o].alive /\ ~c.sock[o].closing /\ ~c.sock[o].m_isConnected
  BY <1>2 DEF Gone
<1> HIDE DEF c
<1>4. Good(b.net) /\ Others(c, b.net, o) /\ ~b.net.sock[o].closing
  BY <1>0, <1>2, <1>3, BindGood
<1> HIDE DEF b
<1>5. Good(l.net) /\ Others(b.net, l.net, o) /\ ~l.net.sock[o].closing
  BY <1>0, <1>4, ListenGood
<1>6. Good(d) /\ Others(b.net, d, o) /\ ~d.sock[o].closing
  BY <1>0, <1>4, DestroyGood
<1> HIDE DEF l, t, d
<1>7. \/ t = [s EXCEPT !.net = l.net, !.socks = s.socks \union {a}]
      \/ t = [s EXCEPT !.net = d, !.fails = TRUE]
  BY <1>1
<1>8. /\ DOMAIN t = {"net", "socks", "fails"} /\ t.socks \subseteq Addrs
      /\ t.net = l.net \/ t.net = d
  BY <1>7
<1>9. Good(t.net) /\ Others(s.net, t.net, o) /\ ~t.net.sock[o].closing
  BY <1>2, <1>4, <1>5, <1>6, <1>8 DEF Others
<1>10. Calm(s.net, t.net)
  BY <1>9 DEF Calm, Others
<1>11. QED
  BY <1>8, <1>9, <1>10 DEF t, o

\* What bindAll is computed with.
First(n, failed) == [net |-> n, socks |-> {}, fails |-> failed]
IsStep(f, n, addrs, refused, failed, k) ==
    f = [i \in 0..k |-> IF i = 0 THEN First(n, failed)
                        ELSE bindOne(f[i - 1], addrs[i], addrs[i] \notin refused)]

\* There is such a function.
LEMMA StepExists ==
    ASSUME NEW n, NEW addrs, NEW refused, NEW failed, NEW len \in Nat
    PROVE  \E f : IsStep(f, n, addrs, refused, failed, len)
<1> DEFINE S == {k \in Nat : \E f : IsStep(f, n, addrs, refused, failed, k)}
           next(v, i) == bindOne(v, addrs[i], addrs[i] \notin refused)
           first == First(n, failed)
<1>1. 0 \in S
  <2>1. IsStep([i \in 0..0 |-> First(n, failed)], n, addrs, refused, failed, 0)
    BY DEF IsStep
  <2>2. QED
    BY <2>1
<1>2. ASSUME NEW k \in S PROVE k + 1 \in S
  <2>1. PICK f : IsStep(f, n, addrs, refused, failed, k)
    OBVIOUS
  <2>a. f = [i \in 0..k |-> IF i = 0 THEN first ELSE next(f[i - 1], i)]
    BY <2>1 DEF IsStep
  <2> HIDE DEF next, first
  <2> DEFINE f1 == [i \in 0..(k + 1) |-> IF i = k + 1 THEN next(f[k], i) ELSE f[i]]
  <2>2. ASSUME NEW i \in 0..(k + 1)
        PROVE  f1[i] = IF i = 0 THEN first ELSE next(f1[i - 1], i)
    <3>1. CASE i = k + 1
      <4>1. f1[i] = next(f[k], i)
        BY <3>1
      <4>2. i # 0 /\ i - 1 = k /\ f1[i - 1] = f[k]
        BY <3>1
      <4>3. QED
        BY <4>1, <4>2
    <3>2. CASE i # k + 1
      <4>1. i \in 0..k /\ (i # 0 => i - 1 \in 0..k)
        BY <3>2
      <4>2. f1[i] = f[i] /\ (i # 0 => f1[i - 1] = f[i - 1])
        BY <3>2, <4>1
      <4>3. f[i] = IF i = 0 THEN first ELSE next(f[i - 1], i)
        BY <2>a, <4>1
      <4>4. QED
        BY <4>2, <4>3
    <3>3. QED
      BY <3>1, <3>2
  <2>3. f1 = [i \in 0..(k + 1) |-> IF i = 0 THEN first ELSE next(f1[i - 1], i)]
    BY <2>2
  <2> HIDE DEF f1
  <2>4. IsStep(f1, n, addrs, refused, failed, k + 1)
    BY <2>3 DEF IsStep, next, first
  <2>5. k + 1 \in Nat
    OBVIOUS
  <2>6. QED
    BY <2>4, <2>5, Zenon
<1>3. S = Nat
  BY <1>1, <1>2, Induction
<1>4. QED
  BY <1>3

\* bind of different addresses whose sockets are not there.
LEMMA BindAllGood ==
    ASSUME NEW n, Good(n), NEW len \in Nat, NEW addrs \in [1..len -> Addrs], Len(addrs) = len,
           \A i, j \in 1..len : addrs[i] = addrs[j] => i = j, NEW refused, NEW failed,
           \A i \in 1..len : n.sock[Listener(addrs[i])].m_sock = -1
    PROVE  LET b == bindAll(n, addrs, refused, failed)
           IN  /\ Good(b.net) /\ b.socks \subseteq Addrs /\ OnlyListeners(n, b.net, Addrs)
               /\ Calm(n, b.net)
<1> DEFINE next(v, i) == bindOne(v, addrs[i], addrs[i] \notin refused)
           f == CHOOSE h : h = [i \in 0..len |-> IF i = 0 THEN [net |-> n, socks |-> {}, fails |-> failed]
                                                 ELSE bindOne(h[i - 1], addrs[i], addrs[i] \notin refused)]
<1>1. f = [i \in 0..len |-> IF i = 0 THEN [net |-> n, socks |-> {}, fails |-> failed]
                            ELSE bindOne(f[i - 1], addrs[i], addrs[i] \notin refused)]
  <2>1. PICK h : IsStep(h, n, addrs, refused, failed, len)
    BY StepExists
  <2>2. h = [i \in 0..len |-> IF i = 0 THEN [net |-> n, socks |-> {}, fails |-> failed]
                              ELSE bindOne(h[i - 1], addrs[i], addrs[i] \notin refused)]
    BY <2>1 DEF IsStep, First
  <2>3. QED
    BY <2>2
<1>2. bindAll(n, addrs, refused, failed) = f[len]
  BY DEF bindAll
<1> HIDE DEF f
<1> DEFINE P(k) == /\ DOMAIN f[k] = {"net", "socks", "fails"} /\ Good(f[k].net)
                   /\ f[k].socks \subseteq Addrs /\ OnlyListeners(n, f[k].net, Addrs)
                   /\ Calm(n, f[k].net)
                   /\ \A i \in 1..len : i > k => f[k].net.sock[Listener(addrs[i])].m_sock = -1
           T == {k \in Nat : k <= len => P(k)}
<1>3. 0 \in T
  <2>1. f[0] = [net |-> n, socks |-> {}, fails |-> failed]
    BY <1>1
  <2>2. P(0)
    BY <2>1 DEF OnlyListeners, Calm
  <2>3. QED
    BY <2>2
<1>4. ASSUME NEW k \in T PROVE k + 1 \in T
  <2>0. k \in Nat /\ (k <= len => P(k))
    OBVIOUS
  <2> SUFFICES ASSUME k + 1 <= len PROVE P(k + 1)
    OBVIOUS
  <2> DEFINE i == k + 1
             a == addrs[i]
             s == f[k]
             t == f[i]
  <2>1. P(k) /\ i \in 1..len /\ i - 1 = k /\ i # 0 /\ i \in 0..len
    BY <2>0
  <2>2. t = bindOne(s, a, a \notin refused)
    BY <1>1, <2>1
  <2>3. a \in Addrs /\ s.net.sock[Listener(a)].m_sock = -1
    BY <2>1
  <2>4. DOMAIN s = {"net", "socks", "fails"} /\ Good(s.net) /\ s.socks \subseteq Addrs
    BY <2>1
  <2>5. OnlyListeners(n, s.net, Addrs) /\ Calm(n, s.net)
    BY <2>1
  <2>6. \A j \in 1..len : j > k => s.net.sock[Listener(addrs[j])].m_sock = -1
    BY <2>1
  <2> HIDE DEF a, s, t, T
  <2>7. /\ DOMAIN t = {"net", "socks", "fails"} /\ Good(t.net) /\ t.socks \subseteq Addrs
        /\ Others(s.net, t.net, Listener(a)) /\ Calm(s.net, t.net)
    BY <2>2, <2>3, <2>4, BindOneGood
  <2>8. OnlyListeners(n, t.net, Addrs)
    BY <2>3, <2>5, <2>7 DEF OnlyListeners, Others
  <2>a. Calm(n, t.net)
    BY <2>5, <2>7 DEF Calm
  <2>9. ASSUME NEW j \in 1..len, j > i PROVE t.net.sock[Listener(addrs[j])].m_sock = -1
    <3>1. addrs[j] # a
      BY <2>1, <2>9 DEF a
    <3>2. Listener(addrs[j]) # Listener(a) /\ Listener(addrs[j]) \in Objects
      BY <3>1, ObjectsKnown DEF Listener
    <3>3. t.net.sock[Listener(addrs[j])] = s.net.sock[Listener(addrs[j])]
      BY <2>7, <3>2 DEF Others
    <3>4. QED
      BY <2>1, <2>6, <2>9, <3>3
  <2>10. QED
    BY <2>7, <2>8, <2>9, <2>a DEF t
<1>5. T = Nat
  BY <1>3, <1>4, Induction
<1>6. P(len)
  BY <1>5
<1>7. QED
  BY <1>2, <1>6

-----------------------------------------------------------------------------
(* The objects of the server and its clients.                              *)

ConnShape(k) ==
    /\ DOMAIN k = Conns
    /\ \A c \in Conns :
         /\ DOMAIN k[c] = {"st", "at", "user", "up", "upEnd", "down", "downEnd", "sent", "pipelined"}
         /\ k[c].st # "none" => k[c].user \in Conns
\* A connection that has not got this far has no object yet.
Fresh(n, k) ==
    \A c \in Conns : /\ k[c].st = "none" => ~n.sock[ClientEnd(c)].alive
                     /\ k[c].st \in {"none", "backlog"} => n.sock[ServerEnd(c)].m_sock = -1
\* Only the socket that stop()'s callback is at is closing, and m_socks has it.
StopOk(n, socks, st) ==
    /\ DOMAIN st = {"on", "left", "at"} /\ st.left \subseteq socks /\ st.at \in socks \union {0}
    /\ ~st.on => st.left = {} /\ st.at = 0
    /\ \A o \in Objects : n.sock[o].closing => st.at # 0 /\ o = Listener(st.at)
    /\ st.at # 0 => LET s == n.sock[Listener(st.at)] IN (s.closing \/ s.m_sock = -1) /\ s.closed
NetInv ==
    /\ Good(net) /\ m_socks \subseteq Addrs /\ ConnShape(conn) /\ Fresh(net, conn)
    /\ StopOk(net, m_socks, stopping)

\* The objects are different.
LEMMA ObjectsDiffer ==
    /\ \A a, c : Listener(a) # ServerEnd(c) /\ Listener(a) # ClientEnd(c)
    /\ \A a, b : a # b => Listener(a) # Listener(b)
    /\ \A c, d : ServerEnd(c) # ClientEnd(d)
    /\ \A c, d : c # d => ServerEnd(c) # ServerEnd(d) /\ ClientEnd(c) # ClientEnd(d)
BY DEF Listener, ServerEnd, ClientEnd

\* Who is not closing.
LEMMA NotClosing ==
    ASSUME NetInv
    PROVE  /\ \A c \in Conns : ~net.sock[ServerEnd(c)].closing /\ ~net.sock[ClientEnd(c)].closing
           /\ \A a \in Addrs \ m_socks : ~net.sock[Listener(a)].closing
           /\ stopping.at = 0 => \A o \in Objects : ~net.sock[o].closing
           /\ ~stopping.on => stopping.at = 0
<1>1. \A o \in Objects : net.sock[o].closing =>
        /\ stopping.at # 0 /\ o = Listener(stopping.at) /\ stopping.at \in m_socks
  BY DEF NetInv, StopOk
<1>2. \A c \in Conns : ~net.sock[ServerEnd(c)].closing /\ ~net.sock[ClientEnd(c)].closing
  BY <1>1, ObjectsKnown, ObjectsDiffer
<1>3. \A a \in Addrs \ m_socks : ~net.sock[Listener(a)].closing
  BY <1>1, ObjectsKnown, ObjectsDiffer
<1>4. QED
  BY <1>1, <1>2, <1>3 DEF NetInv, StopOk

\* The sockets of m_socks stay as they are.
LEMMA KeepStop ==
    ASSUME NetInv, NEW n, Calm(net, n),
           \A a \in m_socks : n.sock[Listener(a)] = net.sock[Listener(a)]
    PROVE  StopOk(n, m_socks, stopping)
BY DEF NetInv, StopOk, Calm

\* Steps that change listening sockets only.
LEMMA ListenersFresh ==
    ASSUME NetInv, NEW n, OnlyListeners(net, n, Addrs)
    PROVE  Fresh(n, conn)
<1> SUFFICES ASSUME NEW c \in Conns
             PROVE  /\ n.sock[ClientEnd(c)] = net.sock[ClientEnd(c)]
                    /\ n.sock[ServerEnd(c)] = net.sock[ServerEnd(c)]
  BY DEF NetInv, Fresh
<1>1. ClientEnd(c) \in Objects /\ ServerEnd(c) \in Objects
  BY ObjectsKnown
<1>2. \A a \in Addrs : ClientEnd(c) # Listener(a) /\ ServerEnd(c) # Listener(a)
  BY ObjectsDiffer
<1>3. QED
  BY <1>1, <1>2 DEF OnlyListeners

\* Fewer addresses change fewer sockets.
LEMMA FewerListeners ==
    ASSUME NEW n, NEW m, NEW addrs \in SUBSET Addrs, OnlyListeners(n, m, addrs)
    PROVE  OnlyListeners(n, m, Addrs)
BY DEF OnlyListeners

\* Connections are reset.
LEMMA ResetFresh ==
    ASSUME NetInv, NEW n, Fresh(n, conn), NEW addrs
    PROVE  ConnShape(Reset(addrs)) /\ Fresh(n, Reset(addrs))
<1> DEFINE k == Reset(addrs)
<1>1. DOMAIN k = Conns
  BY DEF Reset
<1>2. ASSUME NEW c \in Conns
      PROVE  /\ DOMAIN k[c] = {"st", "at", "user", "up", "upEnd", "down", "downEnd", "sent", "pipelined"}
             /\ k[c].st # "none" => k[c].user \in Conns
             /\ k[c].st = "none" => conn[c].st = "none"
             /\ k[c].st = "backlog" => conn[c].st = "backlog"
  <2>1. /\ DOMAIN conn[c] = {"st", "at", "user", "up", "upEnd", "down", "downEnd", "sent", "pipelined"}
        /\ conn[c].st # "none" => conn[c].user \in Conns
    BY DEF NetInv, ConnShape
  <2>2. CASE conn[c].st = "backlog" /\ conn[c].at \in addrs
    <3>1. k[c] = [conn[c] EXCEPT !.st = "reset", !.downEnd = TRUE]
      BY <2>2 DEF Reset
    <3> HIDE DEF k
    <3>2. QED
      BY <2>1, <2>2, <3>1
  <2>3. CASE ~(conn[c].st = "backlog" /\ conn[c].at \in addrs)
    <3>1. k[c] = conn[c]
      BY <2>3 DEF Reset
    <3>2. QED
      BY <2>1, <3>1
  <2>4. QED
    BY <2>2, <2>3
<1> HIDE DEF k
<1>3. ConnShape(k) /\ Fresh(n, k)
  BY <1>1, <1>2 DEF ConnShape, Fresh
<1>4. QED
  BY <1>3 DEF k

\* bind.
LEMMA TcpBindNet ==
    ASSUME NetInv, NEW addrs \in AddressLists, NEW refused, NEW fresh, TcpBind(addrs, refused, fresh)
    PROVE  NetInv'
<1> DEFINE b == bindAll(net, addrs, refused, ~fresh /\ fails)
           dropped == IF b.fails THEN Unheld(m_socks) \union b.socks ELSE {}
           d == DestroyAll(b.net, dropped)
<1>0. stopping' = stopping
  BY DEF TcpBind, stopVars
<1>a. CASE stopping.on
  <2>1. net' = net /\ m_socks' = m_socks /\ conn' = conn
    BY <1>a DEF TcpBind
  <2>2. QED
    BY <1>0, <2>1 DEF NetInv
<1>b. CASE ~stopping.on
  <2>1. PICK len \in Nat : addrs \in Injection(1..len, Addrs)
    <3>2. PICK len \in 1..Cardinality(Addrs) : addrs \in Injection(1..len, Addrs)
      BY DEF AddressLists
    <3>3. len \in Nat
      BY <3>2
    <3>4. QED
      BY <3>2, <3>3
  <2>2. addrs \in [1..len -> Addrs] /\ \A i, j \in 1..len : addrs[i] = addrs[j] => i = j
    BY <2>1 DEF Injection, IsInjective
  <2>3. Len(addrs) = len /\ DOMAIN addrs = 1..len
    BY <2>1, <2>2
  <2>c. \A o \in Objects : ~net.sock[o].closing
    BY <1>b, NotClosing
  <2>4. \A i \in 1..len : net.sock[Listener(addrs[i])].m_sock = -1
    <3> SUFFICES ASSUME NEW i \in 1..len PROVE net.sock[Listener(addrs[i])].m_sock = -1
      OBVIOUS
    <3>1. ~net.sock[Listener(addrs[i])].alive
      BY <2>3 DEF TcpBind, IsNew
    <3>2. Listener(addrs[i]) \in Objects
      BY <2>2, ObjectsKnown
    <3>3. QED
      BY <2>c, <3>1, <3>2 DEF NetInv, Good, Owned, Has
  <2>5. Good(b.net) /\ b.socks \subseteq Addrs /\ OnlyListeners(net, b.net, Addrs) /\ Calm(net, b.net)
    BY <2>1, <2>2, <2>3, <2>4, BindAllGood DEF NetInv
  <2>6. /\ m_socks' = IF b.fails THEN {} ELSE m_socks \union b.socks
        /\ net' = d /\ conn' = Reset(dropped)
    BY <1>b DEF TcpBind
  <2> HIDE DEF b
  <2>7. dropped \in SUBSET Addrs
    BY <2>5 DEF NetInv, Unheld
  <2>d. \A o \in Objects : ~b.net.sock[o].closing
    BY <2>5, <2>c DEF Calm
  <2> HIDE DEF dropped
  <2>8. Good(d) /\ OnlyListeners(b.net, d, dropped) /\ Calm(b.net, d)
    BY <2>5, <2>7, <2>d, ObjectsKnown, DestroyAllGood
  <2>9. OnlyListeners(b.net, d, Addrs)
    BY <2>7, <2>8, FewerListeners
  <2> HIDE DEF d
  <2>10. OnlyListeners(net, d, Addrs)
    BY <2>5, <2>9 DEF OnlyListeners
  <2>11. Good(net') /\ OnlyListeners(net, net', Addrs) /\ \A o \in Objects : ~net'.sock[o].closing
    BY <2>6, <2>8, <2>10, <2>d DEF Calm
  <2>12. Fresh(net', conn)
    BY <2>11, ListenersFresh
  <2>13. ConnShape(conn') /\ Fresh(net', conn')
    BY <2>6, <2>12, ResetFresh
  <2>14. m_socks' \subseteq Addrs
    BY <2>5, <2>6 DEF NetInv
  <2>15. StopOk(net', m_socks', stopping')
    BY <1>0, <1>b, <2>11 DEF NetInv, StopOk
  <2>16. QED
    BY <2>11, <2>13, <2>14, <2>15 DEF NetInv
<1>1. QED
  BY <1>a, <1>b

\* The sockets of some addresses go, and m_socks has none of them or all of its
\* own are gone.
LEMMA DropNet ==
    ASSUME NetInv, NEW addrs \in SUBSET Addrs, net' = DestroyAll(net, addrs), conn' = Reset(addrs),
           \/ m_socks' = m_socks /\ stopping' = stopping /\ addrs \intersect m_socks = {}
           \/ /\ m_socks' = {} /\ stopping.at = 0
              /\ DOMAIN stopping' = {"on", "left", "at"} /\ stopping'.left = {} /\ stopping'.at = 0
    PROVE  NetInv'
<1>1. \A a \in addrs : ~net.sock[Listener(a)].closing
  BY NotClosing, ObjectsKnown
<1>2. Good(net') /\ OnlyListeners(net, net', addrs) /\ Calm(net, net')
  BY <1>1, DestroyAllGood DEF NetInv
<1>3. Fresh(net', conn)
  BY <1>2, FewerListeners, ListenersFresh
<1>4. ConnShape(conn') /\ Fresh(net', conn')
  BY <1>3, ResetFresh
<1>5. CASE m_socks' = m_socks /\ stopping' = stopping /\ addrs \intersect m_socks = {}
  <2>1. \A a \in m_socks : net'.sock[Listener(a)] = net.sock[Listener(a)]
    <3> SUFFICES ASSUME NEW a \in m_socks PROVE net'.sock[Listener(a)] = net.sock[Listener(a)]
      OBVIOUS
    <3>1. a \in Addrs /\ Listener(a) \in Objects /\ \A e \in addrs : Listener(e) # Listener(a)
      BY <1>5, ObjectsKnown, ObjectsDiffer DEF NetInv
    <3>2. QED
      BY <1>2, <3>1 DEF OnlyListeners
  <2>2. StopOk(net', m_socks, stopping)
    BY <1>2, <2>1, KeepStop
  <2>3. QED
    BY <1>2, <1>4, <1>5, <2>2 DEF NetInv
<1>6. CASE /\ m_socks' = {} /\ stopping.at = 0
           /\ DOMAIN stopping' = {"on", "left", "at"} /\ stopping'.left = {} /\ stopping'.at = 0
  <2>1. \A o \in Objects : ~net'.sock[o].closing
    BY <1>2, <1>6, NotClosing DEF Calm
  <2>2. StopOk(net', m_socks', stopping')
    BY <1>6, <2>1 DEF StopOk
  <2>3. QED
    BY <1>2, <1>4, <1>6, <2>2 DEF NetInv
<1>7. QED
  BY <1>5, <1>6

\* The destructor of the server.
LEMMA DestructorNet ==
    ASSUME NetInv, Destructor
    PROVE  NetInv'
<1>0. stopping' = stopping
  BY DEF Destructor, stopVars
<1>1. CASE stopping.on
  <2>1. net' = net /\ m_socks' = m_socks /\ conn' = conn
    BY <1>1 DEF Destructor
  <2>2. QED
    BY <1>0, <2>1 DEF NetInv
<1>2. CASE ~stopping.on
  <2>1. net' = DestroyAll(net, m_socks) /\ conn' = Reset(m_socks) /\ m_socks' = {}
    BY <1>2 DEF Destructor
  <2>2. m_socks \in SUBSET Addrs /\ stopping.at = 0 /\ stopping.left = {}
        /\ DOMAIN stopping = {"on", "left", "at"}
    BY <1>2 DEF NetInv, StopOk
  <2>3. QED
    BY <1>0, <2>1, <2>2, DropNet
<1>3. QED
  BY <1>1, <1>2

\* The steps of stop()'s callback.
LEMMA StopBeginsNet ==
    ASSUME NetInv, StopBegins
    PROVE  NetInv'
<1>1. net' = net /\ m_socks' = m_socks /\ conn' = conn
  BY DEF StopBegins
<1>2. CASE stopping' = stopping
  BY <1>1, <1>2 DEF NetInv
<1>3. CASE ~stopping.on /\ stopping' = [on |-> TRUE, left |-> m_socks, at |-> 0]
  <2>1. \A o \in Objects : ~net.sock[o].closing
    BY <1>3, NotClosing
  <2>2. StopOk(net, m_socks, stopping')
    BY <1>3, <2>1 DEF StopOk
  <2>3. QED
    BY <1>1, <2>2 DEF NetInv
<1>4. QED
  BY <1>2, <1>3 DEF StopBegins

LEMMA StopClosesNet ==
    ASSUME NetInv, NEW a \in Addrs, StopCloses(a)
    PROVE  NetInv'
<1> DEFINE o == Listener(a)
<1>1. /\ net' = closeFile(net, o) /\ conn' = Reset({a}) /\ m_socks' = m_socks
      /\ stopping.on /\ stopping.at = 0 /\ a \in stopping.left
      /\ stopping' = [stopping EXCEPT !.left = @ \ {a}, !.at = a]
  BY DEF StopCloses
<1>2. o \in Objects /\ \A p \in Objects : ~net.sock[p].closing
  BY <1>1, ObjectsKnown, NotClosing
<1>3. /\ Good(net') /\ Others(net, net', o) /\ (net'.sock[o].closing \/ net'.sock[o].m_sock = -1)
      /\ net'.sock[o].closed
  BY <1>1, <1>2, CloseFileGood DEF NetInv
<1>4. OnlyListeners(net, net', Addrs)
  BY <1>3 DEF OnlyListeners, Others
<1>5. ConnShape(conn') /\ Fresh(net', conn')
  BY <1>1, <1>4, ListenersFresh, ResetFresh
<1>6. /\ DOMAIN stopping = {"on", "left", "at"} /\ stopping.left \subseteq m_socks
  BY DEF NetInv, StopOk
<1>7. /\ DOMAIN stopping' = {"on", "left", "at"} /\ stopping'.left \subseteq m_socks
      /\ stopping'.at = a /\ a \in m_socks /\ stopping'.on = stopping.on
  BY <1>1, <1>6
<1>8. \A p \in Objects : net'.sock[p].closing => p = o
  BY <1>2, <1>3 DEF Others
<1>9. a # 0
  BY ServerAssumption
<1>10. StopOk(net', m_socks', stopping')
  BY <1>1, <1>3, <1>7, <1>8, <1>9 DEF StopOk
<1>11. QED
  BY <1>1, <1>3, <1>5, <1>10 DEF NetInv

LEMMA StopForgetsNet ==
    ASSUME NetInv, StopForgets
    PROVE  NetInv'
<1> DEFINE a == stopping.at
           o == Listener(a)
<1>1. /\ net' = forgetNumber(net, o) /\ conn' = conn /\ m_socks' = m_socks
      /\ stopping.on /\ a # 0 /\ stopping' = [stopping EXCEPT !.at = 0]
  BY DEF StopForgets
<1>2. /\ a \in m_socks /\ a \in Addrs /\ (net.sock[o].closing \/ net.sock[o].m_sock = -1)
      /\ net.sock[o].closed /\ \A p \in Objects : net.sock[p].closing => p = o
  BY <1>1 DEF NetInv, StopOk
<1>3. o \in Objects
  BY <1>2, ObjectsKnown
<1>4. Good(net') /\ Others(net, net', o) /\ ~net'.sock[o].closing
  BY <1>1, <1>2, <1>3, ForgetGood DEF NetInv
<1>5. OnlyListeners(net, net', Addrs)
  BY <1>2, <1>4 DEF OnlyListeners, Others
<1>6. Fresh(net', conn)
  BY <1>5, ListenersFresh
<1>7. \A p \in Objects : ~net'.sock[p].closing
  BY <1>2, <1>4 DEF Others
<1>8. /\ DOMAIN stopping' = {"on", "left", "at"} /\ stopping'.left \subseteq m_socks
      /\ stopping'.at = 0 /\ stopping'.on = stopping.on
  BY <1>1 DEF NetInv, StopOk
<1>9. StopOk(net', m_socks', stopping')
  BY <1>1, <1>7, <1>8 DEF StopOk
<1>10. QED
  BY <1>1, <1>4, <1>6, <1>9 DEF NetInv

LEMMA StopClearsNet ==
    ASSUME NetInv, StopClears
    PROVE  NetInv'
<1> DEFINE addrs == Unheld(m_socks)
<1>1. /\ net' = DestroyAll(net, addrs) /\ conn' = conn /\ m_socks' = {}
      /\ stopping.at = 0 /\ stopping' = NotStopping
  BY DEF StopClears
<1>2. addrs \in SUBSET Addrs
  BY DEF NetInv, Unheld
<1> HIDE DEF addrs
<1>3. \A a \in addrs : ~net.sock[Listener(a)].closing
  BY <1>1, <1>2, NotClosing, ObjectsKnown
<1>4. Good(net') /\ OnlyListeners(net, net', addrs) /\ Calm(net, net')
  BY <1>1, <1>2, <1>3, DestroyAllGood DEF NetInv
<1>5. Fresh(net', conn)
  BY <1>2, <1>4, FewerListeners, ListenersFresh
<1>6. \A o \in Objects : ~net'.sock[o].closing
  BY <1>1, <1>4, NotClosing DEF Calm
<1>7. StopOk(net', m_socks', stopping')
  BY <1>1, <1>6 DEF StopOk, NotStopping
<1>8. QED
  BY <1>1, <1>4, <1>5, <1>7 DEF NetInv

LEMMA StopCallbackNet ==
    ASSUME NetInv, StopCallback
    PROVE  NetInv'
BY StopBeginsNet, StopClosesNet, StopForgetsNet, StopClearsNet DEF StopCallback

\* The object o of a connection's server or client changes.
LEMMA EndNet ==
    ASSUME NetInv, NEW c \in Conns, NEW o \in {ServerEnd(c), ClientEnd(c)},
           Good(net'), Others(net, net', o), ~net'.sock[o].closing,
           m_socks' = m_socks, stopping' = stopping, ConnShape(conn'), Fresh(net', conn')
    PROVE  NetInv'
<1>1. Calm(net, net')
  BY DEF Others, Calm
<1>2. \A a \in m_socks : net'.sock[Listener(a)] = net.sock[Listener(a)]
  <2> SUFFICES ASSUME NEW a \in m_socks PROVE net'.sock[Listener(a)] = net.sock[Listener(a)]
    OBVIOUS
  <2>1. a \in Addrs /\ Listener(a) \in Objects /\ Listener(a) # o
    BY ObjectsKnown, ObjectsDiffer DEF NetInv
  <2>2. QED
    BY <2>1 DEF Others
<1>3. StopOk(net', m_socks, stopping)
  BY <1>1, <1>2, KeepStop
<1>4. QED
  BY <1>3 DEF NetInv

\* An object of one connection changes.
LEMMA OtherConns ==
    ASSUME NEW n, NEW m, NEW c \in Conns, NEW o \in {ServerEnd(c), ClientEnd(c)}, Others(n, m, o)
    PROVE  \A d \in Conns \ {c} : /\ m.sock[ServerEnd(d)] = n.sock[ServerEnd(d)]
                                  /\ m.sock[ClientEnd(d)] = n.sock[ClientEnd(d)]
<1> SUFFICES ASSUME NEW d \in Conns \ {c}
             PROVE  /\ m.sock[ServerEnd(d)] = n.sock[ServerEnd(d)]
                    /\ m.sock[ClientEnd(d)] = n.sock[ClientEnd(d)]
  OBVIOUS
<1>1. ServerEnd(d) \in Objects /\ ClientEnd(d) \in Objects
  BY ObjectsKnown
<1>2. ServerEnd(d) # o /\ ClientEnd(d) # o
  BY ObjectsDiffer
<1>3. QED
  BY <1>1, <1>2 DEF Others

\* The server's end of a connection changes, once the connection is accepted.
LEMMA ServerEndNet ==
    ASSUME NetInv, NEW c \in Conns, Good(net'), Others(net, net', ServerEnd(c)),
           ~net'.sock[ServerEnd(c)].closing, m_socks' = m_socks, stopping' = stopping,
           NEW k, conn' = [conn EXCEPT ![c] = k], DOMAIN k = DOMAIN conn[c], k.user = conn[c].user,
           conn[c].st = "none" => k.st = "none", k.st = "none" => conn[c].st = "none",
           net'.sock[ServerEnd(c)].m_sock = -1 \/ k.st \notin {"none", "backlog"}
    PROVE  NetInv'
<1>1. /\ DOMAIN conn' = Conns /\ conn'[c] = k /\ \A d \in Conns \ {c} : conn'[d] = conn[d]
  BY DEF NetInv, ConnShape
<1>2. ConnShape(conn')
  BY <1>1 DEF NetInv, ConnShape
<1>3. \A d \in Conns \ {c} : /\ net'.sock[ServerEnd(d)] = net.sock[ServerEnd(d)]
                             /\ net'.sock[ClientEnd(d)] = net.sock[ClientEnd(d)]
  BY OtherConns
<1>4. net'.sock[ClientEnd(c)] = net.sock[ClientEnd(c)]
  BY ObjectsKnown, ObjectsDiffer DEF Others
<1>5. Fresh(net', conn')
  BY <1>1, <1>3, <1>4 DEF Fresh, NetInv
<1>6. QED
  BY <1>2, <1>5, EndNet

\* The accept fibers.
LEMMA StartAcceptNet ==
    ASSUME NetInv, NEW f \in Addrs \X Calls, startAccept(f)
    PROVE  NetInv'
<1>0. m_socks' = m_socks /\ stopping' = stopping
  BY DEF startAccept, serverVars, stopVars
<1>1. CASE net' = net /\ conn' = conn
  BY <1>0, <1>1 DEF NetInv
<1>2. CASE Ends(f)
  <2> DEFINE last == {a \in {f[1]} \ m_socks : \A k \in Calls \ {f[2]} : fiber[<<a, k>>].pc \in {"none", "end"}}
  <2>1. net' = DestroyAll(net, last) /\ conn' = Reset(last)
    BY <1>2 DEF Ends
  <2>2. last \in SUBSET Addrs /\ last \intersect m_socks = {}
    OBVIOUS
  <2> HIDE DEF last
  <2>3. QED
    BY <1>0, <2>1, <2>2, DropNet
<1>3. ASSUME NEW c \in Conns, NEW result, conn[c].st = "backlog", FreeFds(net) # {},
             net' = accept(net, ServerEnd(c), c, result), conn' = [conn EXCEPT ![c].st = "open"]
      PROVE  NetInv'
  <2> DEFINE k == [conn[c] EXCEPT !.st = "open"]
  <2>1. /\ net.sock[ServerEnd(c)].m_sock = -1 /\ ServerEnd(c) \in Objects
        /\ ~net.sock[ServerEnd(c)].closing
    BY <1>3, ObjectsKnown, NotClosing DEF NetInv, Fresh
  <2>2. Good(net') /\ Others(net, net', ServerEnd(c)) /\ ~net'.sock[ServerEnd(c)].closing
    BY <1>3, <2>1, AcceptGood DEF NetInv
  <2>3. DOMAIN conn[c] = {"st", "at", "user", "up", "upEnd", "down", "downEnd", "sent", "pipelined"}
    BY DEF NetInv, ConnShape
  <2>4. /\ conn' = [conn EXCEPT ![c] = k] /\ DOMAIN k = DOMAIN conn[c] /\ k.st = "open"
        /\ k.user = conn[c].user
    BY <1>3, <2>3
  <2> HIDE DEF k
  <2>5. QED
    BY <1>0, <1>3, <2>2, <2>4, ServerEndNet
<1>4. ASSUME NEW fd, Accepts(f, fd) PROVE NetInv'
  <2>1. \/ net' = net /\ conn' = conn
        \/ \E c \in Conns, result \in AcceptResults :
             /\ conn[c].st = "backlog" /\ FreeFds(net) # {}
             /\ net' = accept(net, ServerEnd(c), c, result)
             /\ conn' = [conn EXCEPT ![c].st = "open"]
    BY <1>4 DEF Accepts, Registers, Backlog
  <2>2. QED
    BY <2>1, <1>1, <1>3
<1>5. CASE fiber[f].pc = "loop"
  <2>1. Ends(f) \/ Accepts(f, net.sock[Listener(f[1])].m_sock)
    BY <1>5 DEF startAccept
  <2>2. QED
    BY <1>2, <1>4, <2>1
<1>6. CASE fiber[f].pc = "woken"
  <2>1. Accepts(f, fiber[f].fd)
    BY <1>6 DEF startAccept
  <2>2. QED
    BY <1>4, <2>1
<1>7. CASE fiber[f].pc = "arm"
  <2>1. net' = net /\ conn' = conn
    BY <1>7 DEF startAccept, Registers
  <2>2. QED
    BY <1>1, <2>1
<1>8. QED
  BY <1>5, <1>6, <1>7 DEF startAccept

\* The socket of a client fiber is closed three times and goes.
LEMMA HangupNet ==
    ASSUME NetInv, NEW c \in Conns, NEW k, Hangup(c, k), m_socks' = m_socks, stopping' = stopping,
           k.st = conn[c].st, k.user = conn[c].user, DOMAIN k = DOMAIN conn[c]
    PROVE  NetInv'
<1> DEFINE o == ServerEnd(c)
           n1 == close(net, o)
           n2 == close(n1, o)
           k2 == [k EXCEPT !.downEnd = TRUE]
<1>1. net' = Destroy(n2, o) /\ conn' = [conn EXCEPT ![c] = k2]
  BY DEF Hangup
<1>2. o \in Objects /\ ~net.sock[o].closing
  BY ObjectsKnown, NotClosing
<1>3. Good(n1) /\ Others(net, n1, o) /\ ~n1.sock[o].closing
  BY <1>2, CloseGood DEF NetInv
<1> HIDE DEF n1
<1>4. Good(n2) /\ Others(n1, n2, o) /\ ~n2.sock[o].closing
  BY <1>2, <1>3, CloseGood
<1> HIDE DEF n2
<1>5. Good(net') /\ Others(n2, net', o) /\ net'.sock[o].m_sock = -1 /\ ~net'.sock[o].closing
  BY <1>1, <1>2, <1>4, DestroyGood
<1>6. Others(net, net', o)
  BY <1>3, <1>4, <1>5 DEF Others
<1>7. DOMAIN conn[c] = {"st", "at", "user", "up", "upEnd", "down", "downEnd", "sent", "pipelined"}
  BY DEF NetInv, ConnShape
<1>8. DOMAIN k2 = DOMAIN conn[c] /\ k2.st = conn[c].st /\ k2.user = conn[c].user
  BY <1>7
<1> HIDE DEF k2
<1>9. QED
  BY <1>1, <1>5, <1>6, <1>8, ServerEndNet

\* A step that keeps the sockets and how far the connections are.
LEMMA SameNet ==
    ASSUME NetInv, net' = net, m_socks' = m_socks, stopping' = stopping, ConnShape(conn'),
           \A c \in Conns : conn'[c].st = conn[c].st
    PROVE  NetInv'
<1>1. Fresh(net, conn')
  BY DEF Fresh, NetInv
<1>2. QED
  BY <1>1 DEF NetInv

\* A step that changes one connection.
LEMMA OneConnNet ==
    ASSUME NetInv, net' = net, m_socks' = m_socks, stopping' = stopping, NEW c \in Conns, NEW k,
           conn' = [conn EXCEPT ![c] = k], k.st = conn[c].st, k.user = conn[c].user,
           DOMAIN k = DOMAIN conn[c]
    PROVE  NetInv'
<1>1. ConnShape(conn') /\ \A d \in Conns : conn'[d].st = conn[d].st
  BY DEF NetInv, ConnShape
<1>2. QED
  BY <1>1, SameNet

\* The fibers of the clients.
LEMMA HandleClientNet ==
    ASSUME NetInv, NEW c \in Conns, handleClient(c)
    PROVE  NetInv'
<1>0. m_socks' = m_socks /\ stopping' = stopping
  BY DEF handleClient, serverVars, stopVars
<1>a. DOMAIN conn[c] = {"st", "at", "user", "up", "upEnd", "down", "downEnd", "sent", "pipelined"}
      /\ DOMAIN conn = Conns
  BY DEF NetInv, ConnShape
<1>1. CASE Hangup(c, conn[c])
  BY <1>0, <1>1, HangupNet
<1>b. CASE net' = net /\ conn' = conn
  BY <1>0, <1>b DEF NetInv
<1>2. CASE recvRequest(c)
  <2>1. ASSUME NEW up, NEW after, after = [conn[c] EXCEPT !.up = up],
               Hangup(c, after) \/ (conn' = [conn EXCEPT ![c] = after] /\ net' = net)
        PROVE  NetInv'
    <3>1. after.st = conn[c].st /\ after.user = conn[c].user /\ DOMAIN after = DOMAIN conn[c]
      BY <1>a, <2>1
    <3>2. QED
      BY <1>0, <2>1, <3>1, HangupNet, OneConnNet
  <2>2. CASE ~Hangup(c, conn[c])
    <3>1. PICK k \in 1..Len(conn[c].up) :
             LET after == [conn[c] EXCEPT !.up = SubSeq(@, k + 1, Len(@))]
             IN  Hangup(c, after) \/ (conn' = [conn EXCEPT ![c] = after] /\ net' = net)
      BY <1>2, <2>2 DEF recvRequest
    <3>2. QED
      BY <2>1, <3>1
  <2>3. QED
    BY <1>1, <2>2
<1>3. CASE readFixSize(c)
  <2>1. ASSUME NEW k, conn' = [conn EXCEPT ![c].up = SubSeq(@, k + 1, Len(@))], net' = net
        PROVE  NetInv'
    <3> DEFINE after == [conn[c] EXCEPT !.up = SubSeq(@, k + 1, Len(@))]
    <3>1. after.st = conn[c].st /\ after.user = conn[c].user /\ DOMAIN after = DOMAIN conn[c]
      BY <1>a
    <3>2. conn' = [conn EXCEPT ![c] = after]
      BY <2>1
    <3> HIDE DEF after
    <3>3. QED
      BY <1>0, <2>1, <3>1, <3>2, OneConnNet
  <2>2. QED
    BY <1>1, <1>3, <1>b, <2>1 DEF readFixSize
<1>4. CASE sendResponse(c)
  <2> DEFINE after == [conn[c] EXCEPT !.down = @ + 1]
  <2>1. after.st = conn[c].st /\ after.user = conn[c].user /\ DOMAIN after = DOMAIN conn[c]
    BY <1>a
  <2>2. \/ net' = net /\ conn' = [conn EXCEPT ![c] = after]
        \/ Hangup(c, after)
        \/ net' = net /\ conn' = conn
    BY <1>4 DEF sendResponse
  <2> HIDE DEF after
  <2>3. QED
    BY <1>0, <1>b, <2>1, <2>2, HangupNet, OneConnNet
<1>5. QED
  BY <1>1, <1>2, <1>3, <1>4, <1>b DEF handleClient

\* A client makes a connection, with a new object or one that it has.
LEMMA ClientConnectNet ==
    ASSUME NetInv, NEW c \in Conns, NEW d \in Conns, NEW a \in Addrs, NEW result,
           ClientConnect(c, d, a, result)
    PROVE  NetInv'
<1> DEFINE o == ClientEnd(d)
           n == IF net.sock[o].alive THEN net ELSE Create(net, o)
           r == connect(n, o, c, result)
           k == [conn[c] EXCEPT !.st = IF r.ok THEN "backlog" ELSE "failed", !.at = a, !.user = d]
<1>0. m_socks' = m_socks /\ stopping' = stopping
  BY DEF ClientConnect, ClientOnly, serverVars, stopVars
<1>1. /\ conn[c].st = "none" /\ net' = r.net
      /\ d = c \/ (net.sock[o].alive /\ ~net.sock[o].m_isConnected)
      /\ conn' = [conn EXCEPT ![c].st = IF r.ok THEN "backlog" ELSE "failed", ![c].at = a, ![c].user = d]
  BY DEF ClientConnect
<1>2. /\ DOMAIN conn[c] = {"st", "at", "user", "up", "upEnd", "down", "downEnd", "sent", "pipelined"}
      /\ DOMAIN conn = Conns
  BY DEF NetInv, ConnShape
<1>3. /\ conn' = [conn EXCEPT ![c] = k] /\ DOMAIN k = DOMAIN conn[c]
      /\ k.st \in {"backlog", "failed"} /\ k.user = d
  BY <1>1, <1>2
<1> HIDE DEF k
<1>4. o \in Objects /\ ~net.sock[o].closing
  BY ObjectsKnown, NotClosing
<1>5. d = c => ~net.sock[o].alive
  BY <1>1 DEF NetInv, Fresh
<1> HIDE DEF o
<1>6. Good(n) /\ Others(net, n, o) /\ n.sock[o].alive /\ ~n.sock[o].closing /\ ~n.sock[o].m_isConnected
  <2>1. CASE net.sock[o].alive
    BY <1>1, <1>4, <1>5, <2>1 DEF Others, NetInv
  <2>2. CASE ~net.sock[o].alive
    <3>1. net.sock[o].m_sock = -1
      BY <1>4, <2>2 DEF NetInv, Good, Owned, Has
    <3>2. /\ Good(Create(net, o)) /\ Others(net, Create(net, o), o)
          /\ Create(net, o).sock[o] = [Gone EXCEPT !.alive = TRUE]
      BY <1>4, <3>1, CreateGood DEF NetInv
    <3>3. n = Create(net, o)
      BY <2>2
    <3> HIDE DEF n
    <3>4. QED
      BY <3>2, <3>3 DEF Gone
  <2>3. QED
    BY <2>1, <2>2
<1> HIDE DEF n
<1>7. Good(r.net) /\ Others(n, r.net, o) /\ ~r.net.sock[o].closing
  BY <1>4, <1>6, ConnectGood
<1> HIDE DEF r
<1>8. Good(net') /\ Others(net, net', o) /\ ~net'.sock[o].closing
  BY <1>1, <1>6, <1>7 DEF Others
<1>9. /\ DOMAIN conn' = Conns /\ conn'[c] = k /\ \A e \in Conns \ {c} : conn'[e] = conn[e]
  BY <1>2, <1>3
<1>10. ConnShape(conn')
  BY <1>2, <1>3, <1>9 DEF NetInv, ConnShape
<1>11. Fresh(net', conn')
  <2> SUFFICES ASSUME NEW e \in Conns
               PROVE  /\ conn'[e].st = "none" => ~net'.sock[ClientEnd(e)].alive
                      /\ conn'[e].st \in {"none", "backlog"} => net'.sock[ServerEnd(e)].m_sock = -1
    BY DEF Fresh
  <2>1. net'.sock[ServerEnd(e)] = net.sock[ServerEnd(e)]
    BY <1>8, ObjectsKnown, ObjectsDiffer DEF Others, o
  <2>2. conn'[e].st \in {"none", "backlog"} => conn[e].st \in {"none", "backlog"}
    BY <1>1, <1>9
  <2>3. ASSUME conn'[e].st = "none" PROVE ~net'.sock[ClientEnd(e)].alive
    <3>1. e # c /\ conn[e].st = "none"
      BY <1>3, <1>9, <2>3
    <3>2. ~net.sock[ClientEnd(e)].alive
      BY <3>1 DEF NetInv, Fresh
    <3>3. e # d
      BY <1>1, <3>1, <3>2 DEF o
    <3>4. net'.sock[ClientEnd(e)] = net.sock[ClientEnd(e)]
      BY <1>8, <3>3, ObjectsKnown, ObjectsDiffer DEF Others, o
    <3>5. QED
      BY <3>2, <3>4
  <2>4. QED
    BY <2>1, <2>2, <2>3 DEF NetInv, Fresh
<1>12. QED
  BY <1>0, <1>8, <1>10, <1>11, EndNet DEF o

\* A client closes its object, or lets it go.
LEMMA ClientCloseNet ==
    ASSUME NetInv, NEW c \in Conns, NEW m, NEW keeps, ClientClose(c, m, keeps)
    PROVE  NetInv'
<1> DEFINE d == conn[c].user
           o == ClientEnd(d)
           k == [conn[c] EXCEPT !.upEnd = TRUE, !.up = SubSeq(@, 1, m),
                                !.pipelined = @ \/ m < Len(conn[c].up)]
<1>0. m_socks' = m_socks /\ stopping' = stopping
  BY DEF ClientClose, ClientOnly, serverVars, stopVars
<1>1. /\ conn[c].st # "none" /\ net' = (IF keeps THEN close(net, o) ELSE Destroy(net, o))
      /\ conn' = [conn EXCEPT ![c].upEnd = TRUE, ![c].up = SubSeq(@, 1, m),
                              ![c].pipelined = @ \/ m < Len(conn[c].up)]
  BY DEF ClientClose, Connected
<1>2. /\ DOMAIN conn[c] = {"st", "at", "user", "up", "upEnd", "down", "downEnd", "sent", "pipelined"}
      /\ DOMAIN conn = Conns /\ d \in Conns
  BY <1>1 DEF NetInv, ConnShape
<1>3. /\ conn' = [conn EXCEPT ![c] = k] /\ DOMAIN k = DOMAIN conn[c]
      /\ k.st = conn[c].st /\ k.user = d
  BY <1>1, <1>2
<1> HIDE DEF k, d
<1>4. o \in Objects /\ ~net.sock[o].closing
  BY <1>2, ObjectsKnown, NotClosing
<1>5. /\ Good(net') /\ Others(net, net', o) /\ ~net'.sock[o].closing
      /\ net'.sock[o].alive => net.sock[o].alive
  <2>1. CASE net' = close(net, o)
    BY <1>4, <2>1, CloseGood DEF NetInv
  <2>2. CASE net' = Destroy(net, o)
    BY <1>4, <2>2, DestroyGood DEF NetInv
  <2>3. QED
    BY <1>1, <2>1, <2>2
<1>6. /\ DOMAIN conn' = Conns /\ conn'[c] = k /\ \A e \in Conns \ {c} : conn'[e] = conn[e]
  BY <1>2, <1>3
<1>7. ConnShape(conn') /\ \A e \in Conns : conn'[e].st = conn[e].st
  BY <1>2, <1>3, <1>6 DEF NetInv, ConnShape
<1>8. Fresh(net', conn')
  <2> SUFFICES ASSUME NEW e \in Conns
               PROVE  /\ net'.sock[ClientEnd(e)].alive => net.sock[ClientEnd(e)].alive
                      /\ net'.sock[ServerEnd(e)] = net.sock[ServerEnd(e)]
    BY <1>7 DEF Fresh, NetInv
  <2>1. net'.sock[ServerEnd(e)] = net.sock[ServerEnd(e)]
    BY <1>5, ObjectsKnown, ObjectsDiffer DEF Others
  <2>2. e = d \/ net'.sock[ClientEnd(e)] = net.sock[ClientEnd(e)]
    BY <1>5, ObjectsKnown, ObjectsDiffer DEF Others
  <2>3. QED
    BY <1>5, <2>1, <2>2
<1>9. QED
  BY <1>0, <1>2, <1>5, <1>7, <1>8, EndNet

\* A client sends a request.
LEMMA ClientSendNet ==
    ASSUME NetInv, NEW c \in Conns, NEW n, ClientSend(c, n)
    PROVE  NetInv'
<1>0. m_socks' = m_socks /\ stopping' = stopping /\ net' = net
  BY DEF ClientSend, ClientOnly, serverVars, stopVars
<1> DEFINE k == [conn[c] EXCEPT !.sent = Append(@, n),
                                !.up = @ \o Pieces(Len(conn[c].sent) + 1, n),
                                !.pipelined = @ \/ conn[c].down < Len(conn[c].sent)]
<1>1. DOMAIN conn[c] = {"st", "at", "user", "up", "upEnd", "down", "downEnd", "sent", "pipelined"}
  BY DEF NetInv, ConnShape
<1>2. /\ conn' = [conn EXCEPT ![c] = k] /\ DOMAIN k = DOMAIN conn[c]
      /\ k.st = conn[c].st /\ k.user = conn[c].user
  BY <1>1 DEF ClientSend
<1> HIDE DEF k
<1>3. QED
  BY <1>0, <1>2, OneConnNet

\* Every step keeps the owners.
LEMMA NextNet == NetInv /\ [Next]_vars => NetInv'
<1> SUFFICES ASSUME NetInv, [Next]_vars PROVE NetInv'
  OBVIOUS
<1>1. CASE net' = net /\ m_socks' = m_socks /\ conn' = conn /\ stopping' = stopping
  BY <1>1 DEF NetInv
<1>2. CASE UNCHANGED vars
  BY <1>1, <1>2 DEF vars, serverVars, stopVars
<1>3. CASE start \/ stop \/ Release
  BY <1>1, <1>3 DEF start, stop, Release, stopVars
<1>4. ASSUME NEW f \in Addrs \X Calls, AcceptReady(f) PROVE NetInv'
  BY <1>1, <1>4 DEF AcceptReady, serverVars, stopVars
<1>5. CASE Unused /\ Ask /\ UNCHANGED <<net, serverVars, fiber, handler, conn, timeouts, died, calls>>
  BY <1>1, <1>5 DEF serverVars, stopVars
<1>6. ASSUME NEW addrs \in AddressLists, NEW refused \in SUBSET Addrs, NEW fresh \in BOOLEAN,
             TcpBind(addrs, refused, fresh)
      PROVE  NetInv'
  BY <1>6, TcpBindNet
<1>7. ASSUME NEW f \in Addrs \X Calls, startAccept(f) PROVE NetInv'
  BY <1>7, StartAcceptNet
<1>8. ASSUME NEW c \in Conns, handleClient(c) PROVE NetInv'
  BY <1>8, HandleClientNet
<1>9. ASSUME NEW c \in Conns, NEW k \in 0 .. Len(conn[c].up), NEW keeps \in BOOLEAN,
             ClientClose(c, k, keeps)
      PROVE  NetInv'
  BY <1>9, ClientCloseNet
<1>10. ASSUME NEW c \in Conns, NEW d \in Conns, NEW a \in Addrs,
              NEW result \in ConnectResults \intersect Fates[c], ClientConnect(c, d, a, result)
       PROVE  NetInv'
  BY <1>10, ClientConnectNet
<1>11. ASSUME NEW c \in Conns, NEW n \in BodySizes, ClientSend(c, n) PROVE NetInv'
  BY <1>11, ClientSendNet
<1>12. QED
  BY <1>2, <1>3, <1>4, <1>5, <1>6, <1>7, <1>8, <1>9, <1>10, <1>11, StopCallbackNet, DestructorNet, Zenon
     DEF Next

\* Nothing is open before the first call.
LEMMA InitNet == Init => NetInv
<1> SUFFICES ASSUME Init PROVE NetInv
  OBVIOUS
<1>1. /\ net = [file |-> [fd \in Fds |-> Free], sock |-> [o \in Objects |-> Gone]]
      /\ m_socks = {} /\ conn = [c \in Conns |-> NoConn] /\ stopping = NotStopping
  BY DEF Init, SocketInit
<1>2. /\ IsFile(Free) /\ ~IsOpen(Free) /\ IsSock(Gone) /\ Gone.m_sock = -1 /\ ~Gone.m_isConnected
      /\ ~Gone.closing /\ Gone.m_remoteAddr = 0 /\ ~Gone.alive
  BY DEF IsFile, IsOpen, IsSock, Free, Gone
<1>3. ~Has(Gone) /\ \A c : Knows(Gone, c)
  BY <1>2 DEF Has, Knows
<1>4. Good(net)
  BY <1>1, <1>2, <1>3 DEF Good, Net, Owned
<1>5. ConnShape(conn)
  BY <1>1 DEF ConnShape, NoConn
<1>6. Fresh(net, conn)
  BY <1>1, <1>2, ObjectsKnown DEF Fresh
<1>7. StopOk(net, m_socks, stopping)
  BY <1>1, <1>2 DEF StopOk, NotStopping
<1>8. QED
  BY <1>1, <1>4, <1>5, <1>6, <1>7 DEF NetInv

\* The owners in every reachable state.
THEOREM NetInductive == Spec => []NetInv
BY InitNet, NextNet, PTL DEF Spec

\* Outside of its close() an object has the number of no file but its own, and
\* every open file that init() did not lose is that of an object that lives and
\* has its number, however bind, start, stop, the destructor, the accept loops,
\* clients that connect again and their fibers interleave and numbers are
\* reused, also while stop()'s callback is between ::close and m_sock = -1.  An
\* object that was never closed knows its own peer or none
\* (socket.cc:28-30, 113-124, 213-223, 313-344; tcp_server.cc:28-106).
THEOREM FdOwnedAlways == Spec => []FdOwned
<1>1. NetInv => FdOwned
  <2> SUFFICES ASSUME Good(net) PROVE FdOwned
    BY DEF NetInv
  <2>1. \A o \in Objects : net.sock[o].m_sock # -1 /\ ~net.sock[o].closing =>
          net.file[net.sock[o].m_sock].by = o
    BY DEF Good, Owned, Has
  <2>2. \A fd \in Fds : net.file[fd].st \notin {"free", "lost"} =>
          LET s == net.sock[net.file[fd].by] IN s.alive /\ s.m_sock = fd /\ ~s.closing
    BY NoFd DEF Good, Owned, Has, IsOpen
  <2>3. \A o \in Objects : net.sock[o].m_isConnected /\ ~net.sock[o].closed =>
          net.sock[o].m_remoteAddr \in {0, net.file[net.sock[o].m_sock].conn}
    BY DEF Good, Owned, Knows
  <2>4. QED
    BY <2>1, <2>2, <2>3 DEF FdOwned
<1>2. QED
  BY <1>1, NetInductive, PTL

-----------------------------------------------------------------------------
(* Part 2: the stream of requests of a connection.                         *)

Piece == [k : {"h1", "h2", "b"}, req : Nat]
BodyPiece(i) == [k |-> "b", req |-> i]

\* The sequence q is n pieces of the body of request i.
IsBody(q, i, n) ==
    q \in Seq(Piece) /\ Len(q) = n /\ \A j \in 1..n : q[j] = BodyPiece(i)
\* The sequence q is request i, with a body of n pieces.
IsRequest(q, i, n) ==
    /\ q \in Seq(Piece) /\ Len(q) = n + 2
    /\ q[1] = [k |-> "h1", req |-> i] /\ q[2] = [k |-> "h2", req |-> i]
    /\ \A j \in 3..(n + 2) : q[j] = BodyPiece(i)

\* Where fiber h is in the stream of connection k: the request after the ones
\* it answered is not sent yet, unread, or read as far as its body is.
InStream(h, k) ==
    LET i == h.answers + 1
    IN /\ k.sent \in Seq(Nat) /\ h.answers \in Nat /\ h.answers <= Len(k.sent)
       /\ h.half \in BOOLEAN
       /\ h.pc # "end" => k.down = h.answers /\ Len(k.sent) <= i
       /\ h.pc \in {"none", "head"} /\ ~h.half =>
            \/ Len(k.sent) = h.answers /\ k.up = <<>>
            \/ Len(k.sent) = i /\ IsRequest(k.up, i, k.sent[i])
       /\ h.pc = "body" =>
            /\ Len(k.sent) = i /\ h.left \in Nat /\ IsBody(k.up, i, h.left)
            /\ IsBody(h.body, i, Len(h.body)) /\ Len(h.body) + h.left <= k.sent[i]
       /\ h.pc = "send" =>
            /\ Len(k.sent) = i /\ k.up = <<>>
            /\ IsBody(h.body, i, Len(h.body)) /\ Len(h.body) <= k.sent[i]
\* As long as InStep has something to say of them.
StreamOf(h, k) ==
    /\ k.st \in {"none", "backlog"} => h.pc = "none"
    /\ h.pc = "none" => h = NoHandler
    /\ ~k.pipelined /\ ~h.cut /\ ~h.late => InStream(h, k)

IsHandler(h) == DOMAIN h = {"pc", "half", "left", "body", "answers", "cut", "late"}
IsConn(k) == DOMAIN k = {"st", "at", "user", "up", "upEnd", "down", "downEnd", "sent", "pipelined"}
StreamInv ==
    /\ DOMAIN conn = Conns /\ DOMAIN handler = Conns
    /\ \A c \in Conns : IsConn(conn[c]) /\ IsHandler(handler[c]) /\ StreamOf(handler[c], conn[c])

\* Two pieces and n more.
LEMMA JoinedPieces ==
    ASSUME NEW n \in Nat, NEW s \in Seq(Piece), NEW t \in Seq(Piece), Len(s) = 2, Len(t) = n
    PROVE  /\ s \o t \in Seq(Piece) /\ Len(s \o t) = n + 2
           /\ (s \o t)[1] = s[1] /\ (s \o t)[2] = s[2]
           /\ \A j \in 3..(n + 2) : (s \o t)[j] = t[j - 2]
<1>1. s \o t \in Seq(Piece) /\ Len(s \o t) = Len(s) + Len(t)
  BY ConcatProperties, Zenon
<1>2. \A j \in 1..(Len(s) + Len(t)) : (s \o t)[j] = IF j <= Len(s) THEN s[j] ELSE t[j - Len(s)]
  BY ConcatProperties, Zenon
<1> DEFINE u == s \o t
<1> HIDE DEF u
<1>3. Len(u) = n + 2 /\ \A j \in 1..(n + 2) : u[j] = IF j <= 2 THEN s[j] ELSE t[j - 2]
  BY <1>1, <1>2 DEF u
<1>4. u[1] = s[1] /\ u[2] = s[2] /\ \A j \in 3..(n + 2) : u[j] = t[j - 2]
  BY <1>3
<1>5. QED
  BY <1>1, <1>3, <1>4 DEF u

\* What a client writes for a request.
LEMMA PiecesRequest ==
    ASSUME NEW i \in Nat, NEW n \in Nat
    PROVE  IsRequest(Pieces(i, n), i, n)
<1> DEFINE head == <<[k |-> "h1", req |-> i], [k |-> "h2", req |-> i]>>
           rest == [j \in 1..n |-> [k |-> "b", req |-> i]]
<1>1. head \in Seq(Piece) /\ Len(head) = 2 /\ rest \in Seq(Piece) /\ Len(rest) = n
  BY DEF Piece
<1>2. Pieces(i, n) = head \o rest
  BY DEF Pieces
<1>3. /\ head[1] = [k |-> "h1", req |-> i] /\ head[2] = [k |-> "h2", req |-> i]
      /\ \A j \in 1..n : rest[j] = BodyPiece(i)
  BY DEF BodyPiece
<1> HIDE DEF head, rest
<1>4. /\ head \o rest \in Seq(Piece) /\ Len(head \o rest) = n + 2
      /\ (head \o rest)[1] = head[1] /\ (head \o rest)[2] = head[2]
      /\ \A j \in 3..(n + 2) : (head \o rest)[j] = rest[j - 2]
  BY <1>1, JoinedPieces
<1>5. \A j \in 3..(n + 2) : (head \o rest)[j] = BodyPiece(i)
  <2>1. \A j \in 3..(n + 2) : j - 2 \in 1..n
    OBVIOUS
  <2>2. QED
    BY <1>3, <1>4, <2>1, Zenon
<1>6. QED
  BY <1>2, <1>3, <1>4, <1>5 DEF IsRequest

\* Parts of a body, and of a request behind its head, are parts of the body.
LEMMA BodyParts ==
    ASSUME NEW i \in Nat, NEW n \in Nat, NEW q, NEW a \in 1..(n + 1), NEW b \in 0..n, a <= b + 1,
           IsBody(q, i, n)
    PROVE  IsBody(SubSeq(q, a, b), i, b - a + 1)
<1>1. q \in Seq(Piece) /\ Len(q) = n
  BY DEF IsBody
<1>2. /\ SubSeq(q, a, b) \in Seq(Piece) /\ Len(SubSeq(q, a, b)) = b - a + 1
      /\ \A j \in 1..(b - a + 1) : SubSeq(q, a, b)[j] = q[j + a - 1]
  BY <1>1, SubSeqProperties
<1>3. QED
  BY <1>2 DEF IsBody

\* Parts of a request behind its head.
LEMMA RequestParts ==
    ASSUME NEW i \in Nat, NEW n \in Nat, NEW q, NEW a \in 3..(n + 3), NEW b \in 2..(n + 2), a <= b + 1,
           IsRequest(q, i, n)
    PROVE  IsBody(SubSeq(q, a, b), i, b - a + 1)
<1>1. q \in Seq(Piece) /\ Len(q) = n + 2
  BY DEF IsRequest
<1>2. /\ SubSeq(q, a, b) \in Seq(Piece) /\ Len(SubSeq(q, a, b)) = b - a + 1
      /\ \A j \in 1..(b - a + 1) : SubSeq(q, a, b)[j] = q[j + a - 1]
  BY <1>1, SubSeqProperties, SMTT(40)
<1>3. QED
  BY <1>2 DEF IsBody, IsRequest

\* A body is what InStep says a body is.
LEMMA BodyIs ==
    ASSUME NEW i \in Nat, NEW n \in Nat, NEW m \in Nat, m <= n, NEW q, IsBody(q, i, m)
    PROVE  q = SubSeq([j \in 1..n |-> [k |-> "b", req |-> i]], 1, m)
<1> DEFINE all == [j \in 1..n |-> [k |-> "b", req |-> i]]
           part == SubSeq(all, 1, m)
<1>1. all \in Seq(Piece) /\ Len(all) = n /\ \A j \in 1..n : all[j] = BodyPiece(i)
  BY DEF Piece, BodyPiece
<1> HIDE DEF all
<1>2. IsBody(all, i, n)
  BY <1>1 DEF IsBody
<1>3. IsBody(part, i, m)
  BY <1>2, BodyParts
<1>4. QED
  BY <1>3, SeqEqual DEF IsBody, all

\* A request is what InStep says a request is.
LEMMA RequestIs ==
    ASSUME NEW i \in Nat, NEW n \in Nat, NEW q, IsRequest(q, i, n)
    PROVE  q = Pieces(i, n)
<1> DEFINE p == Pieces(i, n)
<1>1. IsRequest(p, i, n)
  BY PiecesRequest
<1> HIDE DEF p
<1>2. \A j \in 1..Len(q) : j = 1 \/ j = 2 \/ j \in 3..(n + 2)
  BY DEF IsRequest
<1>3. \A j \in 1..Len(q) : q[j] = p[j]
  BY <1>1, <1>2 DEF IsRequest
<1>4. QED
  BY <1>1, <1>3, SeqEqual DEF IsRequest, p

\* What the stream of a connection is does not depend on more than this.
LEMMA SameStream ==
    ASSUME NEW h, NEW k, NEW k2, StreamOf(h, k),
           k2.st \in {"none", "backlog"} => k.st \in {"none", "backlog"},
           k2.up = k.up, k2.sent = k.sent, k2.down = k.down, k2.pipelined = k.pipelined
    PROVE  StreamOf(h, k2)
BY DEF StreamOf, InStream

\* A step of one connection and its fiber.
LEMMA OneStream ==
    ASSUME StreamInv, NEW c \in Conns, NEW h, NEW k,
           handler' = [handler EXCEPT ![c] = h], conn' = [conn EXCEPT ![c] = k],
           IsHandler(h), IsConn(k), StreamOf(h, k)
    PROVE  StreamInv'
<1>1. DOMAIN conn' = Conns /\ DOMAIN handler' = Conns /\ handler'[c] = h /\ conn'[c] = k
  BY DEF StreamInv
<1>2. \A d \in Conns \ {c} : handler'[d] = handler[d] /\ conn'[d] = conn[d]
  BY DEF StreamInv
<1>3. ASSUME NEW d \in Conns
      PROVE  IsConn(conn'[d]) /\ IsHandler(handler'[d]) /\ StreamOf(handler'[d], conn'[d])
  <2>1. CASE d = c
    BY <1>1, <2>1
  <2>2. CASE d # c
    BY <1>2, <2>2 DEF StreamInv
  <2>3. QED
    BY <2>1, <2>2
<1>4. QED
  BY <1>1, <1>3 DEF StreamInv

\* A step of one connection alone.
LEMMA OneConnStream ==
    ASSUME StreamInv, NEW c \in Conns, NEW k, handler' = handler, conn' = [conn EXCEPT ![c] = k],
           IsConn(k), StreamOf(handler[c], k)
    PROVE  StreamInv'
<1>1. DOMAIN conn' = Conns /\ conn'[c] = k /\ \A d \in Conns \ {c} : conn'[d] = conn[d]
  BY DEF StreamInv
<1>2. ASSUME NEW d \in Conns
      PROVE  IsConn(conn'[d]) /\ StreamOf(handler[d], conn'[d])
  <2>1. CASE d = c
    BY <1>1, <2>1
  <2>2. CASE d # c
    BY <1>1, <2>2 DEF StreamInv
  <2>3. QED
    BY <2>1, <2>2
<1>3. QED
  BY <1>1, <1>2 DEF StreamInv

\* A step of one fiber alone.
LEMMA OneHandlerStream ==
    ASSUME StreamInv, NEW c \in Conns, NEW h, handler' = [handler EXCEPT ![c] = h], conn' = conn,
           IsHandler(h), StreamOf(h, conn[c])
    PROVE  StreamInv'
<1>1. DOMAIN handler' = Conns /\ handler'[c] = h /\ \A d \in Conns \ {c} : handler'[d] = handler[d]
  BY DEF StreamInv
<1>2. \A d \in Conns : IsHandler(handler'[d]) /\ StreamOf(handler'[d], conn[d])
  BY <1>1 DEF StreamInv
<1>3. QED
  BY <1>1, <1>2 DEF StreamInv

\* Connections are reset with their listening sockets.
LEMMA ResetStream ==
    ASSUME StreamInv, NEW addrs, handler' = handler, conn' = Reset(addrs)
    PROVE  StreamInv'
<1>1. handler' = handler /\ conn' = Reset(addrs)
  OBVIOUS
<1>2. DOMAIN conn' = Conns
  BY <1>1 DEF Reset
<1>3. ASSUME NEW c \in Conns
      PROVE  IsConn(conn'[c]) /\ StreamOf(handler[c], conn'[c])
  <2>1. IsConn(conn[c]) /\ StreamOf(handler[c], conn[c])
    BY DEF StreamInv
  <2>2. conn'[c] = conn[c] \/ conn'[c] = [conn[c] EXCEPT !.st = "reset", !.downEnd = TRUE]
    BY <1>1 DEF Reset
  <2>3. CASE conn'[c] = [conn[c] EXCEPT !.st = "reset", !.downEnd = TRUE]
    <3>1. /\ IsConn(conn'[c]) /\ conn'[c].st = "reset" /\ conn'[c].up = conn[c].up
          /\ conn'[c].sent = conn[c].sent /\ conn'[c].down = conn[c].down
          /\ conn'[c].pipelined = conn[c].pipelined
      BY <2>1, <2>3 DEF IsConn
    <3>2. QED
      BY <2>1, <3>1, SameStream
  <2>4. QED
    BY <2>1, <2>2, <2>3
<1>4. QED
  BY <1>1, <1>2, <1>3 DEF StreamInv

\* The callback of stop().
LEMMA StopCallbackStream ==
    ASSUME StreamInv, StopCallback
    PROVE  StreamInv'
<1>1. handler' = handler
  BY DEF StopCallback
<1>2. CASE conn' = conn
  BY <1>1, <1>2 DEF StreamInv
<1>3. ASSUME NEW a \in Addrs, StopCloses(a) PROVE StreamInv'
  <2>1. conn' = Reset({a})
    BY <1>3 DEF StopCloses
  <2>2. QED
    BY <1>1, <2>1, ResetStream
<1>4. CASE StopBegins \/ StopForgets \/ StopClears
  BY <1>2, <1>4 DEF StopBegins, StopForgets, StopClears
<1>5. QED
  BY <1>3, <1>4 DEF StopCallback

\* bind and the destructor drop sockets.
LEMMA BindStream ==
    ASSUME StreamInv, NEW addrs, NEW refused, NEW fresh, TcpBind(addrs, refused, fresh)
    PROVE  StreamInv'
<1>1. handler' = handler
  BY DEF TcpBind
<1>2. conn' = conn \/ \E dropped : conn' = Reset(dropped)
  BY DEF TcpBind
<1>3. CASE conn' = conn
  BY <1>1, <1>3 DEF StreamInv
<1>4. QED
  BY <1>1, <1>2, <1>3, ResetStream

LEMMA DestructorStream ==
    ASSUME StreamInv, Destructor
    PROVE  StreamInv'
<1>1. handler' = handler /\ (conn' = conn \/ conn' = Reset(m_socks))
  BY DEF Destructor
<1>2. CASE conn' = conn
  BY <1>1, <1>2 DEF StreamInv
<1>3. QED
  BY <1>1, <1>2, ResetStream

\* The accept fibers: a connection of the backlog has no fiber yet.
LEMMA StartAcceptStream ==
    ASSUME StreamInv, NEW f \in Addrs \X Calls, startAccept(f)
    PROVE  StreamInv'
<1>1. CASE handler' = handler /\ conn' = conn
  BY <1>1 DEF StreamInv
<1>2. ASSUME NEW c \in Conns, conn[c].st = "backlog",
             handler' = [handler EXCEPT ![c] = NewHandler], conn' = [conn EXCEPT ![c].st = "open"]
      PROVE  StreamInv'
  <2> DEFINE k == [conn[c] EXCEPT !.st = "open"]
  <2>1. IsConn(conn[c]) /\ StreamOf(handler[c], conn[c]) /\ DOMAIN conn = Conns
    BY DEF StreamInv
  <2>2. conn' = [conn EXCEPT ![c] = k]
    BY <1>2
  <2>3. /\ IsConn(k) /\ k.st = "open" /\ k.up = conn[c].up /\ k.sent = conn[c].sent
        /\ k.down = conn[c].down /\ k.pipelined = conn[c].pipelined
    BY <2>1 DEF IsConn
  <2> HIDE DEF k
  <2>4. handler[c].pc = "none" /\ handler[c] = NoHandler
    BY <1>2, <2>1 DEF StreamOf
  <2>5. /\ IsHandler(NewHandler) /\ NewHandler.pc = "head" /\ NewHandler.half = FALSE
        /\ NewHandler.answers = 0 /\ NewHandler.cut = FALSE /\ NewHandler.late = FALSE
        /\ NoHandler.half = FALSE /\ NoHandler.pc = "none"
        /\ NoHandler.answers = 0 /\ NoHandler.cut = FALSE /\ NoHandler.late = FALSE
    BY DEF NewHandler, NoHandler, IsHandler
  <2>6. ~k.pipelined => InStream(NoHandler, conn[c])
    BY <2>1, <2>3, <2>4, <2>5 DEF StreamOf
  <2>7. ~k.pipelined => InStream(NewHandler, k)
    BY <2>3, <2>5, <2>6 DEF InStream
  <2>8. StreamOf(NewHandler, k)
    BY <2>3, <2>5, <2>7 DEF StreamOf
  <2>9. QED
    BY <1>2, <2>2, <2>3, <2>5, <2>8, OneStream
<1>a. ASSUME NEW c \in Conns, conn[c].st = "backlog", handler' = handler,
             conn' = [conn EXCEPT ![c].st = "open"]
      PROVE  StreamInv'
  <2> DEFINE k == [conn[c] EXCEPT !.st = "open"]
  <2>1. IsConn(conn[c]) /\ StreamOf(handler[c], conn[c]) /\ DOMAIN conn = Conns
    BY DEF StreamInv
  <2>2. conn' = [conn EXCEPT ![c] = k]
    BY <1>a
  <2>3. /\ IsConn(k) /\ k.st = "open" /\ k.up = conn[c].up /\ k.sent = conn[c].sent
        /\ k.down = conn[c].down /\ k.pipelined = conn[c].pipelined
    BY <2>1 DEF IsConn
  <2> HIDE DEF k
  <2>4. StreamOf(handler[c], k)
    BY <2>1, <2>3, SameStream
  <2>5. QED
    BY <1>a, <2>2, <2>3, <2>4, OneConnStream
<1>3. ASSUME NEW fd, Accepts(f, fd) PROVE StreamInv'
  <2>1. \/ handler' = handler /\ conn' = conn
        \/ \E c \in Conns : /\ conn[c].st = "backlog"
                            /\ \/ handler' = handler
                               \/ handler' = [handler EXCEPT ![c] = NewHandler]
                            /\ conn' = [conn EXCEPT ![c].st = "open"]
    BY <1>3 DEF Accepts, Registers, Backlog
  <2>2. QED
    BY <2>1, <1>1, <1>2, <1>a
<1>4. CASE fiber[f].pc = "loop"
  <2>1. Ends(f) \/ Accepts(f, net.sock[Listener(f[1])].m_sock)
    BY <1>4 DEF startAccept
  <2>2. CASE Ends(f)
    <3>1. handler' = handler /\ \E last : conn' = Reset(last)
      BY <2>2 DEF Ends
    <3>2. QED
      BY <3>1, ResetStream
  <2>3. QED
    BY <1>3, <2>1, <2>2
<1>5. CASE fiber[f].pc = "woken"
  <2>1. Accepts(f, fiber[f].fd)
    BY <1>5 DEF startAccept
  <2>2. QED
    BY <1>3, <2>1
<1>6. CASE fiber[f].pc = "arm"
  <2>1. handler' = handler /\ conn' = conn
    BY <1>6 DEF startAccept, Registers
  <2>2. QED
    BY <1>1, <2>1
<1>7. QED
  BY <1>4, <1>5, <1>6 DEF startAccept

\* A client that sends the next request while one is not answered pipelines.
LEMMA SendStream ==
    ASSUME NEW h, NEW k, NEW k2, NEW n \in Nat, StreamOf(h, k),
           k2.st = k.st, k2.down = k.down, k2.sent = Append(k.sent, n),
           k2.up = k.up \o Pieces(Len(k.sent) + 1, n),
           k2.pipelined = (k.pipelined \/ k.down < Len(k.sent))
    PROVE  StreamOf(h, k2)
<1> SUFFICES ASSUME ~k2.pipelined, ~h.cut, ~h.late PROVE InStream(h, k2)
  BY DEF StreamOf
<1>1. InStream(h, k) /\ ~(k.down < Len(k.sent))
  BY DEF StreamOf
<1> DEFINE i == h.answers + 1
           p == Pieces(i, n)
<1>2. k.sent \in Seq(Nat) /\ h.answers \in Nat /\ h.answers <= Len(k.sent) /\ Len(k.sent) \in Nat
  BY <1>1 DEF InStream
<1>3. /\ k2.sent \in Seq(Nat) /\ Len(k2.sent) = Len(k.sent) + 1 /\ k2.sent[Len(k.sent) + 1] = n
  BY <1>2
<1>4. CASE h.pc = "end"
  BY <1>1, <1>2, <1>3, <1>4 DEF InStream
<1>5. CASE h.pc # "end"
  <2>1. k.down = h.answers /\ Len(k.sent) = h.answers
    BY <1>1, <1>2, <1>5 DEF InStream
  <2>2. h.pc # "body" /\ h.pc # "send"
    BY <1>1, <1>2, <2>1 DEF InStream
  <2>3. IsRequest(p, i, n)
    <3>1. i \in Nat
      BY <1>2
    <3> HIDE DEF i
    <3>2. QED
      BY <3>1, PiecesRequest
  <2>4. k2.up = k.up \o p
    BY <2>1
  <2> HIDE DEF p
  <2>5. h.pc \in {"none", "head"} /\ ~h.half => IsRequest(k2.up, i, k2.sent[i])
    <3> SUFFICES ASSUME h.pc \in {"none", "head"}, ~h.half PROVE IsRequest(k2.up, i, k2.sent[i])
      OBVIOUS
    <3>1. k.up = <<>>
      BY <1>1, <1>2, <2>1 DEF InStream
    <3>2. <<>> \o p = p
      BY <2>3, ConcatEmptySeq, Zenon DEF IsRequest
    <3>3. k2.up = p
      BY <2>4, <3>1, <3>2
    <3>4. QED
      BY <1>3, <2>1, <2>3, <3>3
  <2>6. QED
    BY <1>1, <1>2, <1>3, <2>1, <2>2, <2>5 DEF InStream
<1>6. QED
  BY <1>4, <1>5

\* A fiber that runs has a connection that was accepted.
LEMMA RunsOpen ==
    ASSUME NEW h, NEW k, NEW h2, NEW k2, StreamOf(h, k), h.pc # "none", h2.pc # "none", k2.st = k.st,
           ~k2.pipelined /\ ~h2.cut /\ ~h2.late => InStream(h2, k2)
    PROVE  StreamOf(h2, k2)
BY DEF StreamOf

\* A session that is closed, wherever it was.
LEMMA HangupStream ==
    ASSUME StreamInv, NEW c \in Conns, NEW k, Hangup(c, k), handler[c].pc # "none", IsConn(k),
           k.st = conn[c].st, k.sent = conn[c].sent, k.pipelined = conn[c].pipelined
    PROVE  StreamInv'
<1> DEFINE h == handler[c]
           h2 == [h EXCEPT !.pc = "end"]
           k2 == [k EXCEPT !.downEnd = TRUE]
<1>1. IsHandler(h) /\ IsConn(conn[c]) /\ StreamOf(h, conn[c])
  BY DEF StreamInv
<1>2. handler' = [handler EXCEPT ![c] = h2] /\ conn' = [conn EXCEPT ![c] = k2]
  BY DEF Hangup, StreamInv
<1>3. /\ IsHandler(h2) /\ h2.pc = "end" /\ h2.answers = h.answers /\ h2.half = h.half
      /\ h2.cut = h.cut /\ h2.late = h.late
  BY <1>1 DEF IsHandler
<1>4. IsConn(k2) /\ k2.st = k.st /\ k2.sent = k.sent /\ k2.pipelined = k.pipelined
  BY DEF IsConn
<1> HIDE DEF h, h2, k2
<1>5. ~k2.pipelined /\ ~h2.cut /\ ~h2.late => InStream(h2, k2)
  BY <1>1, <1>3, <1>4 DEF StreamOf, InStream
<1>6. StreamOf(h2, k2)
  BY <1>1, <1>3, <1>4, <1>5, RunsOpen DEF h
<1>7. QED
  BY <1>2, <1>3, <1>4, <1>6, OneStream

\* The fiber after a head with a body of length pieces, rest behind it in the buffer.
TakesHead(h2, rest, length) ==
    /\ h2.body = SubSeq(rest, 1, IF length >= Len(rest) THEN Len(rest) ELSE length)
    /\ h2.left = (IF length > Len(rest) THEN length - Len(rest) ELSE 0)
    /\ h2.pc = (IF length > Len(rest) THEN "body" ELSE "send")

\* A fiber that is in step and completes a head goes on with its body.
LEMMA HeadStream ==
    ASSUME NEW h, NEW k, NEW h2, NEW k2, NEW size \in 2..Len(k.up), NEW rest,
           InStream(h, k), h.pc = "head", h.half = FALSE,
           k2.sent = k.sent, k2.down = k.down, k2.up = SubSeq(k.up, size + 1, Len(k.up)),
           rest = SubSeq(k.up, 3, size), h2.answers = h.answers, h2.half = FALSE,
           TakesHead(h2, rest, k.sent[h.answers + 1])
    PROVE  InStream(h2, k2)
<1> DEFINE i == h.answers + 1
           n == k.sent[i]
<1>1. /\ k.sent \in Seq(Nat) /\ h.answers \in Nat /\ h.answers <= Len(k.sent)
      /\ k.down = h.answers
  BY DEF InStream
<1>2. Len(k.sent) = i /\ IsRequest(k.up, i, n)
  <2>1. k.up # <<>>
    OBVIOUS
  <2>2. QED
    BY <2>1 DEF InStream
<1>3. i \in Nat /\ n \in Nat
  BY <1>1, <1>2
<1>4. h2.body = SubSeq(rest, 1, IF n >= Len(rest) THEN Len(rest) ELSE n)
  BY DEF TakesHead
<1>5. /\ h2.left = (IF n > Len(rest) THEN n - Len(rest) ELSE 0)
      /\ h2.pc = (IF n > Len(rest) THEN "body" ELSE "send")
  BY DEF TakesHead
<1> HIDE DEF i, n
<1>6. Len(k.up) = n + 2 /\ size \in 2..(n + 2)
  BY <1>2 DEF IsRequest
<1>7. /\ Len(rest) = size - 2 /\ IsBody(SubSeq(rest, 1, size - 2), i, size - 2)
      /\ IsBody(SubSeq(k.up, size + 1, n + 2), i, n + 2 - size)
  <2>1. IsBody(rest, i, size - 2)
    BY <1>2, <1>3, <1>6, RequestParts
  <2>2. size - 2 \in Nat /\ 1 \in 1..((size - 2) + 1) /\ size - 2 \in 0..(size - 2)
    BY <1>6
  <2>3. IsBody(SubSeq(rest, 1, size - 2), i, (size - 2) - 1 + 1)
    BY <1>3, <2>1, <2>2, BodyParts
  <2>4. size + 1 \in 3..(n + 3) /\ n + 2 \in 2..(n + 2) /\ size + 1 <= (n + 2) + 1
    BY <1>3, <1>6
  <2>5. IsBody(SubSeq(k.up, size + 1, n + 2), i, (n + 2) - (size + 1) + 1)
    BY <1>2, <1>3, <2>4, RequestParts
  <2>6. (size - 2) - 1 + 1 = size - 2 /\ (n + 2) - (size + 1) + 1 = n + 2 - size
    BY <1>3, <1>6
  <2>7. QED
    BY <2>1, <2>3, <2>5, <2>6 DEF IsBody
<1>8. IsBody(k2.up, i, n + 2 - size)
  BY <1>6, <1>7
<1>9. h2.body = SubSeq(rest, 1, size - 2)
  <2>1. Len(rest) = size - 2 /\ n >= size - 2
    BY <1>3, <1>6, <1>7
  <2>2. (IF n >= Len(rest) THEN Len(rest) ELSE n) = size - 2
    BY <2>1
  <2>3. QED
    BY <1>4, <2>2, Zenon
<1>10. IsBody(h2.body, i, size - 2)
  BY <1>7, <1>9
<1>11. Len(h2.body) = size - 2 /\ size - 2 <= n /\ size - 2 \in Nat
  BY <1>3, <1>6, <1>10 DEF IsBody
<1>12. CASE n > size - 2
  <2>1. h2.pc = "body" /\ h2.left = n + 2 - size /\ h2.left \in Nat
    BY <1>3, <1>5, <1>6, <1>7, <1>12
  <2>2. Len(h2.body) + h2.left <= n
    <3>1. (size - 2) + (n + 2 - size) <= n
      BY <1>3, <1>6
    <3>2. QED
      BY <1>11, <2>1, <3>1, Zenon
  <2>3. IsBody(k2.up, i, h2.left) /\ IsBody(h2.body, i, Len(h2.body))
    BY <1>8, <1>10, <1>11, <2>1
  <2>4. QED
    BY <1>1, <1>2, <2>1, <2>2, <2>3 DEF InStream, i, n
<1>13. CASE ~(n > size - 2)
  <2>1. h2.pc = "send" /\ n + 2 - size = 0
    BY <1>3, <1>5, <1>6, <1>7, <1>13
  <2>2. k2.up = <<>>
    BY <1>8, <2>1 DEF IsBody
  <2>3. IsBody(h2.body, i, Len(h2.body)) /\ Len(h2.body) <= n
    BY <1>10, <1>11
  <2>4. QED
    BY <1>1, <1>2, <2>1, <2>2, <2>3 DEF InStream, i, n
<1>14. QED
  BY <1>12, <1>13

\* A head is complete.
LEMMA FinishedStream ==
    ASSUME NEW c \in Conns, IsHandler(handler[c]), IsConn(conn[c]), StreamOf(handler[c], conn[c]),
           handler[c].pc = "head", NEW size \in 1..Len(conn[c].up),
           NEW r \in Parses(c, handler[c].half, SubSeq(conn[c].up, 1, size)), r.what = "head"
    PROVE  LET h2 == Finished(c, r, SubSeq(conn[c].up, r.at + 1, size))
               k2 == [conn[c] EXCEPT !.up = SubSeq(@, size + 1, Len(@))]
           IN  IsHandler(h2) /\ IsConn(k2) /\ StreamOf(h2, k2)
<1> DEFINE h == handler[c]
           k == conn[c]
           rest == SubSeq(k.up, r.at + 1, size)
           h2 == Finished(c, r, rest)
           k2 == [conn[c] EXCEPT !.up = SubSeq(@, size + 1, Len(@))]
           taken == IF r.length >= Len(rest) THEN Len(rest) ELSE r.length
<1>1. /\ IsConn(k2) /\ k2.st = k.st /\ k2.sent = k.sent /\ k2.down = k.down
      /\ k2.pipelined = k.pipelined /\ k2.up = SubSeq(k.up, size + 1, Len(k.up))
  BY DEF IsConn
<1>2. /\ IsHandler(h2) /\ h2.half = FALSE /\ h2.body = SubSeq(rest, 1, taken)
      /\ h2.left = (IF r.length > Len(rest) THEN r.length - Len(rest) ELSE 0)
      /\ h2.pc = (IF r.length > Len(rest) THEN "body" ELSE "send")
      /\ h2.cut = (h.cut \/ h.half) /\ h2.late = h.late /\ h2.answers = h.answers
  BY DEF Finished, IsHandler
<1> HIDE DEF h2, k2
<1>3. ASSUME ~k2.pipelined, ~h2.cut, ~h2.late PROVE InStream(h2, k2)
  <2>1. InStream(h, k)
    BY <1>1, <1>2, <1>3 DEF StreamOf
  <2>2. h.half = FALSE
    BY <1>2, <1>3, <2>1 DEF InStream
  <2> DEFINE i == h.answers + 1
  <2>3. k.sent \in Seq(Nat) /\ Len(k.sent) = i /\ IsRequest(k.up, i, k.sent[i]) /\ h.answers \in Nat
    <3>1. k.up # <<>>
      OBVIOUS
    <3>2. QED
      BY <2>1, <2>2, <3>1 DEF InStream
  <2>4. i \in Nat /\ k.sent[i] \in Nat
    BY <2>3
  <2>5. size \in 1..(k.sent[i] + 2)
    BY <2>3 DEF IsRequest
  <2>6. r \in Parses(c, h.half, SubSeq(conn[c].up, 1, size))
    OBVIOUS
  <2> HIDE DEF i
  <2>7. size >= 2 /\ r.at = 2 /\ r.length = k.sent[i]
    <3> DEFINE q == SubSeq(k.up, 1, size)
    <3>1. Len(q) = size /\ q[1] = [k |-> "h1", req |-> i]
      BY <2>3, <2>5, SubSeqProperties DEF IsRequest
    <3>2. size >= 2 => q[2] = [k |-> "h2", req |-> i]
      BY <2>3, <2>5, SubSeqProperties DEF IsRequest
    <3>3. r \in Parses(c, h.half, q)
      OBVIOUS
    <3> HIDE DEF q
    <3>4. CASE size = 1
      BY <2>2, <3>1, <3>3, <3>4 DEF Parses
    <3>5. CASE size >= 2
      BY <2>2, <3>1, <3>2, <3>3, <3>5 DEF Parses
    <3>6. QED
      BY <2>5, <3>4, <3>5
  <2>8. rest = SubSeq(k.up, 3, size) /\ size \in 2..Len(k.up)
    BY <2>7
  <2> HIDE DEF rest
  <2>9. TakesHead(h2, rest, k.sent[h.answers + 1])
    BY <1>2, <2>7 DEF i, TakesHead
  <2> HIDE DEF h, k
  <2>10. h.pc = "head"
    BY DEF h
  <2>11. QED
    BY <1>1, <1>2, <2>1, <2>2, <2>8, <2>9, <2>10, HeadStream
<1>4. h2.pc # "none" /\ h.pc # "none"
  BY <1>2
<1>5. StreamOf(h2, k2)
  <2> HIDE DEF h, k
  <2>1. StreamOf(h, k)
    BY DEF h, k
  <2>2. QED
    BY <1>1, <1>3, <1>4, <2>1, RunsOpen
<1>6. QED
  BY <1>1, <1>2, <1>5 DEF h2, k2

\* One read of recvRequest.
LEMMA RecvStream ==
    ASSUME StreamInv, NEW c \in Conns, handler[c].pc = "head", recvRequest(c)
    PROVE  StreamInv'
<1> DEFINE h == handler[c]
           k == conn[c]
<1>1. IsHandler(h) /\ IsConn(k) /\ StreamOf(h, k)
  BY DEF StreamInv
<1>2. CASE Hangup(c, k)
  BY <1>1, <1>2, HangupStream
<1>3. ASSUME NEW size \in 1..Len(k.up), NEW k2, k2 = [k EXCEPT !.up = SubSeq(@, size + 1, Len(@))],
             NEW r \in Parses(c, h.half, SubSeq(k.up, 1, size)),
             \/ r.what = "error" /\ Hangup(c, k2)
             \/ /\ r.what = "more"
                /\ handler' = [handler EXCEPT ![c].half = TRUE] /\ conn' = [conn EXCEPT ![c] = k2]
             \/ /\ r.what = "head"
                /\ handler' = [handler EXCEPT ![c] = Finished(c, r, SubSeq(k.up, r.at + 1, size))]
                /\ conn' = [conn EXCEPT ![c] = k2]
      PROVE  StreamInv'
  <2>1. /\ IsConn(k2) /\ k2.st = k.st /\ k2.sent = k.sent /\ k2.down = k.down
        /\ k2.pipelined = k.pipelined
    BY <1>1, <1>3 DEF IsConn
  <2>2. CASE r.what = "error" /\ Hangup(c, k2)
    BY <2>1, <2>2, HangupStream
  <2>3. CASE /\ handler' = [handler EXCEPT ![c].half = TRUE] /\ conn' = [conn EXCEPT ![c] = k2]
    <3> DEFINE h2 == [h EXCEPT !.half = TRUE]
    <3>1. handler' = [handler EXCEPT ![c] = h2]
      BY <2>3
    <3>2. /\ IsHandler(h2) /\ h2.half = TRUE /\ h2.pc = "head" /\ h2.cut = h.cut
          /\ h2.late = h.late /\ h2.answers = h.answers
      BY <1>1 DEF IsHandler
    <3> HIDE DEF h2
    <3>3. ~k2.pipelined /\ ~h2.cut /\ ~h2.late => InStream(h2, k2)
      <4>1. h.pc = "head"
        OBVIOUS
      <4> HIDE DEF h, k
      <4>2. QED
        BY <1>1, <2>1, <3>2, <4>1 DEF StreamOf, InStream
    <3>4. StreamOf(h2, k2)
      BY <1>1, <2>1, <3>2, <3>3, RunsOpen
    <3>5. QED
      BY <2>1, <2>3, <3>1, <3>2, <3>4, OneStream
  <2>4. CASE /\ r.what = "head"
             /\ handler' = [handler EXCEPT ![c] = Finished(c, r, SubSeq(k.up, r.at + 1, size))]
             /\ conn' = [conn EXCEPT ![c] = k2]
    <3> DEFINE h2 == Finished(c, r, SubSeq(k.up, r.at + 1, size))
    <3>1. IsHandler(h2) /\ IsConn(k2) /\ StreamOf(h2, k2)
      BY <1>1, <1>3, <2>4, FinishedStream
    <3>2. handler' = [handler EXCEPT ![c] = h2]
      BY <2>4
    <3> HIDE DEF h2
    <3>3. QED
      BY <2>4, <3>1, <3>2, OneStream
  <2>5. QED
    BY <1>3, <2>2, <2>3, <2>4
<1>4. QED
  BY <1>2, <1>3 DEF recvRequest

\* One read of a body.
LEMMA ReadStream ==
    ASSUME StreamInv, NEW c \in Conns, handler[c].pc = "body", readFixSize(c)
    PROVE  StreamInv'
<1> DEFINE h == handler[c]
           k == conn[c]
<1>1. IsHandler(h) /\ IsConn(k) /\ StreamOf(h, k) /\ DOMAIN conn = Conns /\ DOMAIN handler = Conns
  BY DEF StreamInv
<1>2. CASE Hangup(c, k)
  BY <1>1, <1>2, HangupStream
<1>3. ASSUME NEW size \in 1..Len(k.up), size <= h.left,
             conn' = [conn EXCEPT ![c].up = SubSeq(@, size + 1, Len(@))],
             handler' = [handler EXCEPT ![c].left = @ - size,
                                        ![c].pc = IF size = handler[c].left THEN "send" ELSE "body"]
      PROVE  StreamInv'
  <2> DEFINE h2 == [h EXCEPT !.left = @ - size, !.pc = IF size = h.left THEN "send" ELSE "body"]
             k2 == [k EXCEPT !.up = SubSeq(@, size + 1, Len(@))]
             i == h.answers + 1
  <2>1. handler' = [handler EXCEPT ![c] = h2] /\ conn' = [conn EXCEPT ![c] = k2]
    BY <1>1, <1>3
  <2>2. /\ IsConn(k2) /\ k2.st = k.st /\ k2.sent = k.sent /\ k2.down = k.down
        /\ k2.pipelined = k.pipelined /\ k2.up = SubSeq(k.up, size + 1, Len(k.up))
    BY <1>1 DEF IsConn
  <2>3. /\ IsHandler(h2) /\ h2.half = h.half /\ h2.body = h.body /\ h2.left = h.left - size
        /\ h2.pc = (IF size = h.left THEN "send" ELSE "body")
        /\ h2.cut = h.cut /\ h2.late = h.late /\ h2.answers = h.answers
    BY <1>1 DEF IsHandler
  <2> HIDE DEF h2, k2
  <2>4. ASSUME ~k2.pipelined, ~h2.cut, ~h2.late PROVE InStream(h2, k2)
    <3>1. InStream(h, k)
      BY <1>1, <2>2, <2>3, <2>4 DEF StreamOf
    <3>2. /\ k.sent \in Seq(Nat) /\ h.answers \in Nat /\ h.answers <= Len(k.sent)
          /\ k.down = h.answers /\ Len(k.sent) = i /\ h.left \in Nat /\ IsBody(k.up, i, h.left)
          /\ IsBody(h.body, i, Len(h.body)) /\ Len(h.body) + h.left <= k.sent[i] /\ h.half \in BOOLEAN
      BY <3>1 DEF InStream
    <3>3. Len(k.up) = h.left /\ i \in Nat /\ k.sent[i] \in Nat /\ Len(h.body) \in Nat
      <4>1. Len(k.up) = h.left /\ Len(h.body) \in Nat
        BY <3>2 DEF IsBody
      <4>2. i \in Nat /\ i \in 1..Len(k.sent)
        BY <3>2
      <4>3. QED
        BY <3>2, <4>1, <4>2
    <3>4. IsBody(k2.up, i, h.left - size)
      <4>1. size + 1 \in 1..(h.left + 1) /\ h.left \in 0..h.left /\ size + 1 <= h.left + 1
        BY <1>3, <3>2, SMTT(40)
      <4> HIDE DEF h, i
      <4>2. IsBody(SubSeq(k.up, size + 1, h.left), i, h.left - (size + 1) + 1)
        BY <3>2, <3>3, <4>1, BodyParts
      <4>3. h.left - (size + 1) + 1 = h.left - size
        BY <3>2, SMTT(40)
      <4>4. QED
        BY <2>2, <3>3, <4>2, <4>3
    <3>5. CASE size = h.left
      <4>1. k2.up = <<>>
        BY <3>2, <3>4, <3>5 DEF IsBody
      <4>2. Len(h2.body) <= k.sent[i]
        <5> DEFINE b == Len(h.body)
                   n == k.sent[i]
        <5>1. b \in Nat /\ n \in Nat /\ h.left \in Nat /\ b + h.left <= n
          BY <3>2, <3>3
        <5> HIDE DEF b, n
        <5>2. b <= n
          BY <5>1
        <5>3. QED
          BY <2>3, <5>2 DEF b, n
      <4> HIDE DEF h, k
      <4>3. QED
        BY <2>2, <2>3, <3>2, <3>5, <4>1, <4>2 DEF InStream
    <3>6. CASE size # h.left
      <4>1. h2.left \in Nat /\ Len(h2.body) + h2.left <= k.sent[i]
        <5> DEFINE b == Len(h.body)
                   n == k.sent[i]
                   l == h.left
        <5>1. b \in Nat /\ n \in Nat /\ l \in Nat /\ b + l <= n /\ size <= l /\ size \in Nat
          BY <1>3, <3>2, <3>3
        <5> HIDE DEF b, n, l
        <5>2. l - size \in Nat /\ b + (l - size) <= n
          BY <5>1
        <5>3. QED
          BY <2>3, <5>2 DEF b, n, l
      <4> HIDE DEF h, k
      <4>2. QED
        BY <2>2, <2>3, <3>2, <3>4, <3>6, <4>1 DEF InStream
    <3>7. QED
      BY <3>5, <3>6
  <2>5. StreamOf(h2, k2)
    <3>1. h.pc # "none" /\ h2.pc # "none"
      BY <2>3
    <3> HIDE DEF h, k
    <3>2. QED
      BY <1>1, <2>2, <2>4, <3>1, RunsOpen
  <2>6. QED
    BY <2>1, <2>2, <2>3, <2>5, OneStream
<1>4. CASE conn' = conn /\ handler' = [handler EXCEPT ![c].left = @ + 1, ![c].late = TRUE]
  <2> DEFINE h2 == [h EXCEPT !.left = @ + 1, !.late = TRUE]
  <2>1. /\ IsHandler(h2) /\ h2.late = TRUE /\ h2.pc = h.pc
    BY <1>1 DEF IsHandler
  <2>2. handler' = [handler EXCEPT ![c] = h2]
    BY <1>1, <1>4
  <2> HIDE DEF h2
  <2>3. StreamOf(h2, k)
    BY <1>1, <2>1, RunsOpen
  <2>4. QED
    BY <1>4, <2>1, <2>2, <2>3, OneHandlerStream
<1>5. QED
  BY <1>2, <1>3, <1>4 DEF readFixSize

\* An answer.
LEMMA AnswerStream ==
    ASSUME StreamInv, NEW c \in Conns, handler[c].pc = "send", sendResponse(c)
    PROVE  StreamInv'
<1> DEFINE h == handler[c]
           k == conn[c]
           k2 == [k EXCEPT !.down = @ + 1]
           h2 == [h EXCEPT !.answers = @ + 1, !.pc = "head"]
<1>1. IsHandler(h) /\ IsConn(k) /\ StreamOf(h, k) /\ DOMAIN conn = Conns /\ DOMAIN handler = Conns
  BY DEF StreamInv
<1>2. /\ IsConn(k2) /\ k2.st = k.st /\ k2.sent = k.sent /\ k2.down = k.down + 1
      /\ k2.pipelined = k.pipelined /\ k2.up = k.up
  BY <1>1 DEF IsConn
<1>3. /\ IsHandler(h2) /\ h2.half = h.half /\ h2.pc = "head" /\ h2.cut = h.cut /\ h2.late = h.late
      /\ h2.answers = h.answers + 1
  BY <1>1 DEF IsHandler
<1>4. \/ conn' = [conn EXCEPT ![c] = k2] /\ handler' = [handler EXCEPT ![c] = h2]
      \/ Hangup(c, k2)
      \/ UNCHANGED <<handler, conn>>
      \/ conn' = conn /\ handler' = [handler EXCEPT ![c].pc = "sendAgain"]
  BY <1>1 DEF sendResponse
<1>5. CASE conn' = [conn EXCEPT ![c] = k2] /\ handler' = [handler EXCEPT ![c] = h2]
  <2>0. h.pc = "send"
    OBVIOUS
  <2> HIDE DEF h, k, h2, k2
  <2>1. ASSUME ~k2.pipelined, ~h2.cut, ~h2.late PROVE InStream(h2, k2)
    <3>1. InStream(h, k)
      BY <1>1, <1>2, <1>3, <2>1 DEF StreamOf
    <3>2. /\ k.sent \in Seq(Nat) /\ h.answers \in Nat /\ k.down = h.answers
          /\ Len(k.sent) = h.answers + 1 /\ k.up = <<>> /\ h.half \in BOOLEAN
      BY <2>0, <3>1 DEF InStream
    <3>3. QED
      BY <1>2, <1>3, <3>2 DEF InStream
  <2>2. StreamOf(h2, k2)
    BY <1>1, <1>2, <1>3, <2>0, <2>1, RunsOpen
  <2>3. QED
    BY <1>2, <1>3, <1>5, <2>2, OneStream
<1>6. CASE Hangup(c, k2)
  <2> HIDE DEF k2
  <2>1. QED
    BY <1>2, <1>6, HangupStream
<1>7. CASE UNCHANGED <<handler, conn>>
  BY <1>7 DEF StreamInv
<1>8. CASE conn' = conn /\ handler' = [handler EXCEPT ![c].pc = "sendAgain"]
  <2> DEFINE h3 == [h EXCEPT !.pc = "sendAgain"]
  <2>0. h.pc = "send"
    OBVIOUS
  <2>1. /\ IsHandler(h3) /\ h3.half = h.half /\ h3.pc = "sendAgain" /\ h3.cut = h.cut
        /\ h3.late = h.late /\ h3.answers = h.answers
    BY <1>1 DEF IsHandler
  <2>2. handler' = [handler EXCEPT ![c] = h3]
    BY <1>1, <1>8
  <2> HIDE DEF h, k, h3
  <2>3. ~k.pipelined /\ ~h3.cut /\ ~h3.late => InStream(h3, k)
    BY <1>1, <2>0, <2>1 DEF StreamOf, InStream
  <2>4. StreamOf(h3, k)
    BY <1>1, <2>0, <2>1, <2>3, RunsOpen
  <2>5. QED
    BY <1>8, <2>1, <2>2, <2>4, OneHandlerStream DEF k
<1>9. QED
  BY <1>4, <1>5, <1>6, <1>7, <1>8

\* The fibers of the clients.
LEMMA HandleClientStream ==
    ASSUME StreamInv, NEW c \in Conns, handleClient(c)
    PROVE  StreamInv'
<1>1. handler[c].pc # "none"
  BY DEF handleClient
<1>2. CASE Hangup(c, conn[c])
  <2>1. IsConn(conn[c])
    BY DEF StreamInv
  <2>2. QED
    BY <1>1, <1>2, <2>1, HangupStream
<1>3. CASE UNCHANGED <<handler, conn>>
  BY <1>3 DEF StreamInv
<1>4. QED
  BY <1>2, <1>3, RecvStream, ReadStream, AnswerStream DEF handleClient

\* A client that closes before it has sent everything.
LEMMA CloseStream ==
    ASSUME NEW h, NEW k, NEW k2, NEW m \in 0..Len(k.up), StreamOf(h, k),
           k2.st = k.st, k2.down = k.down, k2.sent = k.sent, k2.up = SubSeq(k.up, 1, m),
           k2.pipelined = (k.pipelined \/ m < Len(k.up))
    PROVE  StreamOf(h, k2)
<1> SUFFICES ASSUME ~k2.pipelined, ~h.cut, ~h.late PROVE InStream(h, k2)
  BY DEF StreamOf
<1>1. InStream(h, k) /\ ~(m < Len(k.up))
  BY DEF StreamOf
<1>2. ASSUME k.up \in Seq(Piece) PROVE k2.up = k.up
  <2>1. Len(k.up) \in Nat /\ m = Len(k.up)
    BY <1>1, <1>2
  <2>2. SubSeq(k.up, 1, Len(k.up)) = k.up
    BY <1>2, SubSeqFull
  <2>3. QED
    BY <2>1, <2>2
<1>3. k.up = <<>> => k.up \in Seq(Piece)
  OBVIOUS
<1>4. \A i, n : IsBody(k.up, i, n) \/ IsRequest(k.up, i, n) => k.up \in Seq(Piece)
  BY DEF IsBody, IsRequest
<1>5. QED
  BY <1>1, <1>2, <1>3, <1>4 DEF InStream

\* The clients.
LEMMA ClientStream ==
    ASSUME StreamInv, NEW c \in Conns,
           \/ \E d \in Conns, a \in Addrs, result \in ConnectResults : ClientConnect(c, d, a, result)
           \/ \E n \in BodySizes : ClientSend(c, n)
           \/ \E m \in 0..Len(conn[c].up), keeps \in BOOLEAN : ClientClose(c, m, keeps)
    PROVE  StreamInv'
<1> DEFINE h == handler[c]
           k == conn[c]
<1>0. handler' = handler
  BY DEF ClientConnect, ClientSend, ClientClose, ClientOnly
<1>1. IsConn(k) /\ StreamOf(h, k) /\ DOMAIN conn = Conns
  BY DEF StreamInv
<1>2. ASSUME NEW d, NEW a \in Addrs, NEW result, ClientConnect(c, d, a, result) PROVE StreamInv'
  <2>1. PICK st \in {"backlog", "failed"} :
          conn' = [conn EXCEPT ![c].st = st, ![c].at = a, ![c].user = d]
    BY <1>2 DEF ClientConnect
  <2>2. k.st = "none"
    BY <1>2 DEF ClientConnect
  <2> DEFINE k2 == [k EXCEPT !.st = st, !.at = a, !.user = d]
  <2>3. conn' = [conn EXCEPT ![c] = k2]
    BY <1>1, <2>1
  <2>4. /\ IsConn(k2) /\ k2.up = k.up /\ k2.sent = k.sent /\ k2.down = k.down
        /\ k2.pipelined = k.pipelined
    BY <1>1 DEF IsConn
  <2> HIDE DEF k2
  <2>5. StreamOf(h, k2)
    BY <1>1, <2>2, <2>4, SameStream
  <2>6. QED
    BY <1>0, <2>3, <2>4, <2>5, OneConnStream
<1>3. ASSUME NEW n \in BodySizes, ClientSend(c, n) PROVE StreamInv'
  <2> DEFINE k2 == [k EXCEPT !.sent = Append(@, n), !.up = @ \o Pieces(Len(k.sent) + 1, n),
                             !.pipelined = @ \/ k.down < Len(k.sent)]
  <2>1. conn' = [conn EXCEPT ![c] = k2]
    BY <1>1, <1>3 DEF ClientSend
  <2>2. /\ IsConn(k2) /\ k2.st = k.st /\ k2.down = k.down /\ k2.sent = Append(k.sent, n)
        /\ k2.up = k.up \o Pieces(Len(k.sent) + 1, n)
        /\ k2.pipelined = (k.pipelined \/ k.down < Len(k.sent))
    BY <1>1 DEF IsConn
  <2>3. n \in Nat
    BY ServerAssumption
  <2> HIDE DEF k2
  <2>4. StreamOf(h, k2)
    <3> HIDE DEF h, k
    <3>1. QED
      BY <1>1, <2>2, <2>3, SendStream
  <2>5. QED
    BY <1>0, <2>1, <2>2, <2>4, OneConnStream
<1>4. ASSUME NEW m \in 0..Len(conn[c].up), NEW keeps, ClientClose(c, m, keeps) PROVE StreamInv'
  <2> DEFINE k2 == [k EXCEPT !.upEnd = TRUE, !.up = SubSeq(@, 1, m), !.pipelined = @ \/ m < Len(k.up)]
  <2>1. conn' = [conn EXCEPT ![c] = k2]
    BY <1>1, <1>4 DEF ClientClose
  <2>2. /\ IsConn(k2) /\ k2.st = k.st /\ k2.up = SubSeq(k.up, 1, m) /\ k2.sent = k.sent
        /\ k2.down = k.down /\ k2.pipelined = (k.pipelined \/ m < Len(k.up))
    BY <1>1 DEF IsConn
  <2> HIDE DEF k2
  <2>3. StreamOf(h, k2)
    <3>1. m \in 0..Len(k.up)
      BY <1>4
    <3> HIDE DEF h, k
    <3>2. QED
      BY <1>1, <2>2, <3>1, CloseStream
  <2>4. QED
    BY <1>0, <2>1, <2>2, <2>3, OneConnStream
<1>5. QED
  BY <1>2, <1>3, <1>4

\* Every step keeps the streams.
LEMMA NextStream == StreamInv /\ [Next]_vars => StreamInv'
<1> SUFFICES ASSUME StreamInv, [Next]_vars PROVE StreamInv'
  OBVIOUS
<1>1. CASE handler' = handler /\ conn' = conn
  BY <1>1 DEF StreamInv
<1>2. CASE UNCHANGED vars
  BY <1>1, <1>2 DEF vars
<1>3. CASE start \/ stop \/ Release
  BY <1>1, <1>3 DEF start, stop, Release
<1>4. ASSUME NEW f \in Addrs \X Calls, AcceptReady(f) PROVE StreamInv'
  BY <1>1, <1>4 DEF AcceptReady
<1>5. CASE Unused /\ Ask /\ UNCHANGED <<net, serverVars, fiber, handler, conn, timeouts, died, calls>>
  BY <1>1, <1>5
<1>6. ASSUME NEW addrs \in AddressLists, NEW refused \in SUBSET Addrs, NEW fresh \in BOOLEAN,
             TcpBind(addrs, refused, fresh)
      PROVE  StreamInv'
  BY <1>6, BindStream
<1>7. ASSUME NEW f \in Addrs \X Calls, startAccept(f) PROVE StreamInv'
  BY <1>7, StartAcceptStream
<1>8. ASSUME NEW c \in Conns, handleClient(c) PROVE StreamInv'
  BY <1>8, HandleClientStream
<1>9. ASSUME NEW c \in Conns,
             \/ \E d \in Conns, a \in Addrs, result \in ConnectResults : ClientConnect(c, d, a, result)
             \/ \E n \in BodySizes : ClientSend(c, n)
             \/ \E m \in 0..Len(conn[c].up), keeps \in BOOLEAN : ClientClose(c, m, keeps)
      PROVE  StreamInv'
  BY <1>9, ClientStream
<1>10. ASSUME NEW c \in Conns, NEW d \in Conns, NEW a \in Addrs,
              NEW result \in ConnectResults \intersect Fates[c], ClientConnect(c, d, a, result)
       PROVE  StreamInv'
  BY <1>9, <1>10
<1>11. QED
  BY <1>2, <1>3, <1>4, <1>5, <1>6, <1>7, <1>8, <1>9, <1>10, StopCallbackStream, DestructorStream, Zenon
     DEF Next

\* Nothing is sent before the first call.
LEMMA InitStream == Init => StreamInv
<1> SUFFICES ASSUME Init PROVE StreamInv
  OBVIOUS
<1>1. handler = [c \in Conns |-> NoHandler] /\ conn = [c \in Conns |-> NoConn]
  BY DEF Init
<1>2. /\ IsConn(NoConn) /\ NoConn.up = <<>> /\ NoConn.sent = <<>> /\ NoConn.down = 0
  BY DEF IsConn, NoConn
<1>3. /\ IsHandler(NoHandler) /\ NoHandler.pc = "none" /\ NoHandler.half = FALSE
      /\ NoHandler.answers = 0
  BY DEF IsHandler, NoHandler
<1>4. NoConn.sent \in Seq(Nat) /\ Len(NoConn.sent) = 0
  BY <1>2
<1>5. InStream(NoHandler, NoConn)
  <2>1. NoHandler.answers \in Nat /\ NoHandler.answers <= Len(NoConn.sent)
    BY <1>3, <1>4
  <2>a. NoHandler.half \in BOOLEAN
    BY <1>3, Zenon
  <2>2. NoConn.down = NoHandler.answers /\ Len(NoConn.sent) <= NoHandler.answers + 1
    BY <1>2, <1>3, <1>4
  <2>3. Len(NoConn.sent) = NoHandler.answers
    BY <1>3, <1>4
  <2>4. NoHandler.pc # "body" /\ NoHandler.pc # "send"
    BY <1>3
  <2>5. QED
    BY <1>2, <1>4, <2>1, <2>a, <2>2, <2>3, <2>4 DEF InStream
<1>6. StreamOf(NoHandler, NoConn)
  BY <1>3, <1>5 DEF StreamOf
<1>7. QED
  BY <1>1, <1>2, <1>3, <1>6 DEF StreamInv

\* The streams in every reachable state.
THEOREM StreamInductive == Spec => []StreamInv
BY InitStream, NextStream, PTL DEF Spec

\* A connection whose client waits for each answer is read at the boundaries
\* of its requests: no read of recvRequest or of a body takes a piece of the
\* next request, leaves one of the last or counts one twice, whatever the sizes
\* of the bodies, of the buffer and of the reads (http_session.cc:14-61).
THEOREM InStepAlways == Spec => []InStep
<1>1. StreamInv => InStep
  <2> SUFFICES ASSUME StreamInv, NEW c \in Conns,
                      ~conn[c].pipelined, ~handler[c].cut, ~handler[c].late
               PROVE  LET h == handler[c]
                          k == conn[c]
                          i == h.answers + 1
                          inBody == [j \in 1 .. (IF i <= Len(k.sent) THEN k.sent[i] ELSE 0) |->
                                        [k |-> "b", req |-> i]]
                      IN  /\ h.pc = "head" /\ ~h.half /\ k.up # <<>> =>
                               i = Len(k.sent) /\ k.up = Pieces(i, k.sent[i])
                          /\ h.pc = "body" =>
                               k.up = SubSeq(inBody, 1, h.left) /\ Len(h.body) + h.left <= Len(inBody)
                          /\ h.pc = "send" =>
                               i = Len(k.sent) /\ k.up = <<>> /\ h.body = SubSeq(inBody, 1, Len(h.body))
                          /\ h.answers <= Len(k.sent)
    BY DEF InStep
  <2> DEFINE h == handler[c]
             k == conn[c]
             i == h.answers + 1
             n == IF i <= Len(k.sent) THEN k.sent[i] ELSE 0
             inBody == [j \in 1..n |-> [k |-> "b", req |-> i]]
  <2>1. InStream(h, k)
    BY DEF StreamInv, StreamOf
  <2> HIDE DEF h, k
  <2>2. k.sent \in Seq(Nat) /\ h.answers \in Nat /\ h.answers <= Len(k.sent) /\ i \in Nat
    BY <2>1 DEF InStream
  <2>3. Len(k.sent) = i => n = k.sent[i] /\ n \in Nat /\ Len(inBody) = n
    <3>1. Len(k.sent) = i => n = k.sent[i] /\ n \in Nat
      BY <2>2
    <3> HIDE DEF n
    <3>2. n \in Nat => Len(inBody) = n
      OBVIOUS
    <3>3. QED
      BY <3>1, <3>2
  <2>4. h.pc = "head" /\ ~h.half /\ k.up # <<>> => i = Len(k.sent) /\ k.up = Pieces(i, k.sent[i])
    <3> SUFFICES ASSUME h.pc = "head", ~h.half, k.up # <<>>
                 PROVE  i = Len(k.sent) /\ k.up = Pieces(i, k.sent[i])
      OBVIOUS
    <3>1. Len(k.sent) = i /\ IsRequest(k.up, i, k.sent[i])
      BY <2>1 DEF InStream
    <3>2. k.sent[i] \in Nat
      BY <2>2, <3>1
    <3> HIDE DEF i
    <3>3. QED
      BY <2>2, <3>1, <3>2, RequestIs
  <2>5. h.pc = "body" =>
          k.up = SubSeq(inBody, 1, h.left) /\ Len(h.body) + h.left <= Len(inBody)
    <3> SUFFICES ASSUME h.pc = "body"
                 PROVE  k.up = SubSeq(inBody, 1, h.left) /\ Len(h.body) + h.left <= Len(inBody)
      OBVIOUS
    <3>1. /\ Len(k.sent) = i /\ h.left \in Nat /\ IsBody(k.up, i, h.left)
          /\ IsBody(h.body, i, Len(h.body)) /\ Len(h.body) + h.left <= k.sent[i]
      BY <2>1 DEF InStream
    <3>2. n = k.sent[i] /\ n \in Nat /\ Len(inBody) = n /\ Len(h.body) \in Nat
      BY <2>3, <3>1 DEF IsBody
    <3> HIDE DEF i, n
    <3>3. Len(h.body) + h.left <= n /\ h.left <= n
      BY <3>1, <3>2
    <3>4. k.up = SubSeq(inBody, 1, h.left)
      BY <2>2, <3>1, <3>2, <3>3, BodyIs
    <3>5. QED
      BY <3>2, <3>3, <3>4
  <2>6. h.pc = "send" =>
          i = Len(k.sent) /\ k.up = <<>> /\ h.body = SubSeq(inBody, 1, Len(h.body))
    <3> SUFFICES ASSUME h.pc = "send"
                 PROVE  i = Len(k.sent) /\ k.up = <<>> /\ h.body = SubSeq(inBody, 1, Len(h.body))
      OBVIOUS
    <3>1. /\ Len(k.sent) = i /\ k.up = <<>>
          /\ IsBody(h.body, i, Len(h.body)) /\ Len(h.body) <= k.sent[i]
      BY <2>1 DEF InStream
    <3>2. n = k.sent[i] /\ n \in Nat /\ Len(h.body) \in Nat
      BY <2>3, <3>1 DEF IsBody
    <3> HIDE DEF i, n
    <3>3. h.body = SubSeq(inBody, 1, Len(h.body))
      BY <2>2, <3>1, <3>2, BodyIs
    <3>4. QED
      BY <3>1, <3>3
  <2>7. QED
    BY <2>2, <2>4, <2>5, <2>6 DEF h, k
<1>2. QED
  BY <1>1, StreamInductive, PTL

-----------------------------------------------------------------------------
(* Addresses: masks and prefixes.                                          *)

\* A set of bits that is not empty has a lowest one, the last.
LEMMA LowestBit ==
    ASSUME NEW n \in Nat, NEW v \in SUBSET (1 .. n), v # {}
    PROVE  \E b \in v : \A c \in v : c <= b
<1> DEFINE S == {n - b : b \in v}
<1>1. S \in SUBSET Nat /\ S # {}
  <2>1. \A b \in v : n - b \in Nat
    OBVIOUS
  <2>2. QED
    BY <2>1
<1>2. PICK i \in S : \A j \in S : i <= j
  BY <1>1, LeastNatural
<1>3. PICK b \in v : i = n - b
  OBVIOUS
<1>4. ASSUME NEW c \in v PROVE c <= b
  <2>1. n - c \in S /\ b \in 1 .. n /\ c \in 1 .. n
    OBVIOUS
  <2>2. n - b <= n - c
    BY <1>2, <1>3, <2>1
  <2>3. QED
    BY <2>1, <2>2
<1>5. QED
  BY <1>4

\* What CountBytes(value) computes for each part of the value.
IsCount(count, value) ==
    count = [v \in SUBSET value |->
                IF v = {} THEN 0 ELSE 1 + count[v \ {CHOOSE b \in v : \A c \in v : c <= b}]]

\* CountBytes counts the bits that are 1.
LEMMA CountIs ==
    ASSUME NEW n \in Nat, NEW value \in SUBSET (1 .. n)
    PROVE  CountBytes(value) = Cardinality(value)
<1> DEFINE Lowest(v) == CHOOSE b \in v : \A c \in v : c <= b
           g == [v \in SUBSET value |-> Cardinality(v)]
           h == CHOOSE count : IsCount(count, value)
<1>1. ASSUME NEW v \in SUBSET value
      PROVE  /\ IsFiniteSet(v) /\ Cardinality(v) \in Nat
             /\ v = {} <=> Cardinality(v) = 0
             /\ v # {} => Lowest(v) \in v /\ v \ {Lowest(v)} \in SUBSET value
                          /\ Cardinality(v \ {Lowest(v)}) = Cardinality(v) - 1
  <2>1. IsFiniteSet(v)
    <3>1. IsFiniteSet(1 .. n) /\ v \in SUBSET (1 .. n)
      BY FS_Interval
    <3>2. QED
      BY <3>1, FS_Subset
  <2>2. Cardinality(v) \in Nat /\ (v = {} <=> Cardinality(v) = 0)
    BY <2>1, FS_CardinalityType, FS_EmptySet
  <2>3. ASSUME v # {} PROVE Lowest(v) \in v
    <3>1. v \in SUBSET (1 .. n)
      OBVIOUS
    <3>2. \E b \in v : \A c \in v : c <= b
      BY <2>3, <3>1, LowestBit
    <3>3. QED
      BY <3>2
  <2> HIDE DEF Lowest
  <2>4. ASSUME v # {} PROVE Cardinality(v \ {Lowest(v)}) = Cardinality(v) - 1
    BY <2>1, <2>3, <2>4, FS_RemoveElement
  <2>5. QED
    BY <2>1, <2>2, <2>3, <2>4
<1>2. IsCount(g, value)
  <2> HIDE DEF Lowest
  <2>1. ASSUME NEW v \in SUBSET value PROVE g[v] = IF v = {} THEN 0 ELSE 1 + g[v \ {Lowest(v)}]
    BY <1>1
  <2>2. QED
    BY <2>1 DEF IsCount, Lowest
<1>3. IsCount(h, value)
  <2> HIDE DEF g
  <2>1. QED
    BY <1>2
<1>4. CountBytes(value) = h[value]
  BY DEF CountBytes, IsCount
<1> HIDE DEF h, g
<1>5. ASSUME NEW v \in SUBSET value PROVE h[v] = IF v = {} THEN 0 ELSE 1 + h[v \ {Lowest(v)}]
  BY <1>3 DEF IsCount
<1> HIDE DEF Lowest
<1> DEFINE S == {k \in Nat : \A v \in SUBSET value : Cardinality(v) = k => h[v] = k}
<1>6. 0 \in S
  BY <1>1, <1>5
<1>7. ASSUME NEW k \in S PROVE k + 1 \in S
  <2> SUFFICES ASSUME NEW v \in SUBSET value, Cardinality(v) = k + 1 PROVE h[v] = k + 1
    OBVIOUS
  <2>1. v # {} /\ k \in Nat
    <3>1. k \in Nat /\ k + 1 # 0
      OBVIOUS
    <3>2. QED
      BY <1>1, <3>1
  <2>2. v \ {Lowest(v)} \in SUBSET value /\ Cardinality(v \ {Lowest(v)}) = k
    BY <1>1, <2>1
  <2>3. h[v \ {Lowest(v)}] = k
    BY <2>2
  <2>4. h[v] = 1 + h[v \ {Lowest(v)}]
    BY <1>5, <2>1
  <2>5. QED
    BY <2>1, <2>3, <2>4
<1>8. S \in SUBSET Nat
  OBVIOUS
<1>9. S = Nat
  <2> HIDE DEF S
  <2>1. QED
    BY <1>6, <1>7, <1>8, Induction
<1>10. QED
  BY <1>1, <1>4, <1>9

\* The bits of an interval, counted.
LEMMA CountInterval ==
    ASSUME NEW a \in Nat \ {0}, NEW b \in Nat
    PROVE  CountBytes(a .. b) = IF a > b THEN 0 ELSE b - a + 1
<1>1. a .. b \in SUBSET (1 .. b)
  OBVIOUS
<1>2. CountBytes(a .. b) = Cardinality(a .. b)
  BY <1>1, CountIs
<1>3. QED
  BY <1>2, FS_Interval

\* The division of a prefix into whole bytes and the bits behind them.
LEMMA PrefixParts ==
    ASSUME NEW p \in 0 .. (Bits6 - 1)
    PROVE  LET q == EndByte(p)
               r == p % ByteWidth
           IN /\ q \in 0 .. (Bytes6 - 1) /\ r \in 0 .. (ByteWidth - 1)
              /\ p = q * ByteWidth + r /\ q * ByteWidth \in Nat
<1> DEFINE q == EndByte(p)
           r == p % ByteWidth
           W == ByteWidth
<1>1. W \in Nat \ {0} /\ Bytes6 \in Nat \ {0}
  BY AddressAssumption
<1>2. p \in Nat /\ p < Bytes6 * W
  BY <1>1 DEF Bits6
<1>3. q \in Nat /\ r \in 0 .. (W - 1) /\ p = q * W + r
  BY <1>1, <1>2 DEF EndByte
<1>4. q < Bytes6
  <2> HIDE DEF W, q, r
  <2> SUFFICES ASSUME q >= Bytes6 PROVE FALSE
    BY <1>1, <1>3
  <2>1. q * W >= Bytes6 * W
    BY <1>1, <1>3
  <2>2. q * W \in Nat /\ Bytes6 * W \in Nat
    BY <1>1, <1>3
  <2>3. QED
    BY <1>2, <1>3, <2>1, <2>2
<1>5. q * W \in Nat
  <2> HIDE DEF W, q
  <2>1. QED
    BY <1>1, <1>3
<1>6. QED
  BY <1>1, <1>3, <1>4, <1>5

\* The subnet mask of an IPv6 prefix is its first bits.
LEMMA SubnetMask6Is ==
    ASSUME NEW p \in 0 .. (Bits6 - 1)
    PROVE  subnetMask6(p) = 1 .. p
<1> DEFINE q == EndByte(p)
           r == p % ByteWidth
           B == q * ByteWidth
<1>1. B \in Nat /\ r \in Nat /\ p = B + r
  <2>1. ByteWidth \in Nat \ {0}
    BY AddressAssumption
  <2>2. QED
    BY <2>1, PrefixParts
<1>2. subnetMask6(p) = {B + b : b \in 1 .. r} \union (1 .. B)
  BY DEF subnetMask6, NotMaskAt, Before
<1> HIDE DEF B, r
<1>3. ASSUME NEW x \in 1 .. p PROVE x \in {B + b : b \in 1 .. r} \union (1 .. B)
  <2>1. CASE x <= B
    BY <1>1, <2>1
  <2>2. CASE x > B
    <3>1. x - B \in 1 .. r /\ x = B + (x - B)
      BY <1>1, <2>2
    <3>2. QED
      BY <3>1
  <2>3. QED
    BY <1>1, <2>1, <2>2
<1>4. ASSUME NEW x \in {B + b : b \in 1 .. r} \union (1 .. B) PROVE x \in 1 .. p
  BY <1>1
<1>5. QED
  BY <1>2, <1>3, <1>4

\* What PrefixOf6 sums up, byte by byte.
IsSum(sum, netmask) ==
    sum = [i \in 0 .. Bytes6 |->
             IF i = 0 THEN 0
             ELSE sum[i - 1] + CountBytes(netmask \intersect (((i - 1) * ByteWidth + 1) .. i * ByteWidth))]

\* The bits of a prefix in its first i bytes.
InBytes(p, i) == IF p <= i * ByteWidth THEN p ELSE i * ByteWidth

\* One byte more.
LEMMA ByteMore ==
    ASSUME NEW p \in Nat, NEW i \in Nat \ {0}
    PROVE  /\ InBytes(p, i - 1) \in Nat
           /\ InBytes(p, i) = InBytes(p, i - 1)
                + CountBytes((1 .. p) \intersect (((i - 1) * ByteWidth + 1) .. i * ByteWidth))
<1> DEFINE a == (i - 1) * ByteWidth
           W == ByteWidth
<1>1. W \in Nat \ {0}
  BY AddressAssumption
<1>2. a \in Nat /\ i * W = a + W
  <2> HIDE DEF W
  <2>1. QED
    BY <1>1 DEF W
<1>3. InBytes(p, i - 1) = (IF p <= a THEN p ELSE a) /\ InBytes(p, i) = (IF p <= a + W THEN p ELSE a + W)
  BY <1>2 DEF InBytes
<1>4. ((i - 1) * ByteWidth + 1) .. i * ByteWidth = (a + 1) .. (a + W)
  BY <1>2
<1> HIDE DEF a, W
<1> DEFINE e == IF p <= a + W THEN p ELSE a + W
<1>5. (1 .. p) \intersect ((a + 1) .. (a + W)) = (a + 1) .. e /\ e \in Nat
  BY <1>1, <1>2
<1>6. CountBytes((a + 1) .. e) = IF a + 1 > e THEN 0 ELSE e - (a + 1) + 1
  BY <1>2, <1>5, CountInterval
<1>7. InBytes(p, i) = InBytes(p, i - 1) + CountBytes((a + 1) .. e)
  BY <1>1, <1>2, <1>3, <1>6
<1>8. InBytes(p, i - 1) \in Nat
  BY <1>2, <1>3
<1> HIDE DEF e
<1>9. QED
  BY <1>4, <1>5, <1>7, <1>8

\* The prefix of an interface is counted out of its mask.
LEMMA PrefixOf6Is ==
    ASSUME NEW p \in 0 .. (Bits6 - 1)
    PROVE  PrefixOf6(1 .. p) = p
<1> DEFINE N == Bytes6
           Count(i) == CountBytes((1 .. p) \intersect (((i - 1) * ByteWidth + 1) .. i * ByteWidth))
           g == [i \in 0 .. N |-> InBytes(p, i)]
           h == CHOOSE sum : IsSum(sum, 1 .. p)
<1>1. p \in Nat /\ N \in Nat /\ ByteWidth \in Nat /\ Bits6 = N * ByteWidth /\ Bits6 \in Nat
  BY AddressAssumption DEF Bits6
<1>2. InBytes(p, 0) = 0 /\ InBytes(p, N) = p
  BY <1>1 DEF InBytes
<1>3. ASSUME NEW i \in 1 .. N PROVE InBytes(p, i) = InBytes(p, i - 1) + Count(i)
  BY <1>1, ByteMore
<1>4. IsSum(g, 1 .. p)
  <2> HIDE DEF Count
  <2>1. ASSUME NEW i \in 0 .. N PROVE g[i] = IF i = 0 THEN 0 ELSE g[i - 1] + Count(i)
    BY <1>1, <1>2, <1>3
  <2>2. QED
    BY <2>1 DEF IsSum, Count
<1>5. IsSum(h, 1 .. p)
  <2> HIDE DEF g
  <2>1. QED
    BY <1>4
<1>6. PrefixOf6(1 .. p) = h[N]
  BY DEF PrefixOf6, IsSum
<1> HIDE DEF g, h
<1>7. ASSUME NEW i \in 0 .. N PROVE h[i] = IF i = 0 THEN 0 ELSE h[i - 1] + Count(i)
  BY <1>5 DEF IsSum
<1> HIDE DEF Count, N
<1> DEFINE S == {i \in Nat : i <= N => h[i] = InBytes(p, i)}
<1>8. 0 \in S
  BY <1>1, <1>2, <1>7
<1>9. ASSUME NEW i \in S PROVE i + 1 \in S
  <2> SUFFICES ASSUME i + 1 <= N PROVE h[i + 1] = InBytes(p, i + 1)
    OBVIOUS
  <2>1. i \in Nat /\ i + 1 \in 1 .. N /\ i + 1 \in 0 .. N /\ i + 1 # 0 /\ (i + 1) - 1 = i
    BY <1>1
  <2>2. h[i] = InBytes(p, i)
    BY <1>1, <2>1
  <2>3. h[i + 1] = h[i] + Count(i + 1)
    BY <1>7, <2>1
  <2>4. InBytes(p, i + 1) = InBytes(p, i) + Count(i + 1)
    BY <1>3, <2>1
  <2>5. QED
    BY <2>2, <2>3, <2>4
<1>10. S \in SUBSET Nat
  OBVIOUS
<1>11. S = Nat
  <2> HIDE DEF S
  <2>1. QED
    BY <1>8, <1>9, <1>10, Induction
<1>12. QED
  BY <1>1, <1>2, <1>6, <1>11

\* What masks and prefixes give for an IPv4 address.
LEMMA Masks4Agree ==
    ASSUME NEW a \in SUBSET (1 .. Bits4), NEW p \in 1 .. Bits4, NEW mask \in Masks4(p)
    PROVE  /\ PrefixOf4(subnetMask4(mask)) = p
           /\ broadCastAddress4(a, mask) = (a \intersect (1 .. p)) \union ((p + 1) .. Bits4)
<1>1. Bits4 \in Nat /\ p \in Nat
  BY AddressAssumption
<1>2. mask = (p + 1) .. Bits4
  BY <1>1 DEF Masks4, CreateMask
<1>3. (1 .. Bits4) \ mask = 1 .. p
  BY <1>1, <1>2
<1>4. CountBytes(1 .. p) = p
  BY <1>1, CountInterval
<1>5. PrefixOf4(subnetMask4(mask)) = p
  BY <1>3, <1>4 DEF PrefixOf4, subnetMask4
<1>6. a \union mask = (a \intersect (1 .. p)) \union ((p + 1) .. Bits4)
  <2>1. ASSUME NEW x \in a PROVE x \in 1 .. p \/ x \in (p + 1) .. Bits4
    <3>1. x \in 1 .. Bits4
      OBVIOUS
    <3>2. QED
      BY <1>1, <3>1
  <2>2. QED
    BY <1>2, <2>1
<1>7. QED
  BY <1>5, <1>6 DEF broadCastAddress4

\* What prefixes give for an IPv6 address.
LEMMA Masks6Agree ==
    ASSUME NEW a \in SUBSET (1 .. Bits6), NEW p \in 0 .. (Bits6 - 1)
    PROVE  /\ PrefixOf6(subnetMask6(p)) = p
           /\ \A b \in Before(p) : b \in networkAddress6(a, p) <=> b \in broadCastAddress6(a, p)
<1>1. PrefixOf6(subnetMask6(p)) = p
  BY SubnetMask6Is, PrefixOf6Is
<1> DEFINE q == EndByte(p)
           W == ByteWidth
           B == q * W
<1>2. W \in Nat \ {0} /\ Bits6 \in Nat
  BY AddressAssumption DEF Bits6
<1>3. q \in Nat /\ B \in Nat
  BY <1>2, PrefixParts
<1>4. (q + 1) * W = B + W
  <2> HIDE DEF q, W
  <2>1. QED
    BY <1>2, <1>3
<1>5. Behind(p) = (B + W + 1) .. Bits6 /\ Before(p) = 1 .. B
  BY <1>4 DEF Behind, Before
<1>6. NotMaskAt(p) = {B + b : b \in 1 .. (p % W)}
  BY DEF NotMaskAt
<1> HIDE DEF q, W, B
<1>7. ASSUME NEW b \in 1 .. B PROVE b \notin (B + W + 1) .. Bits6 /\ b \notin {B + x : x \in 1 .. (p % W)}
  BY <1>2, <1>3
<1>8. QED
  BY <1>1, <1>5, <1>6, <1>7 DEF networkAddress6, broadCastAddress6

-----------------------------------------------------------------------------
(* Addresses: the order, and the split of a host.                          *)

\* < compares at the first byte that differs, or by length when none does.
LEMMA LessIs ==
    ASSUME NEW x \in Seq(Nat), NEW y \in Seq(Nat)
    PROVE  \/ /\ \A i \in 1 .. Len(x) : i <= Len(y) => x[i] = y[i]
              /\ Less(x, y) <=> Len(x) < Len(y)
              /\ Less(y, x) <=> Len(y) < Len(x)
           \/ \E i \in 1 .. Len(x) :
                /\ i <= Len(y) /\ x[i] # y[i]
                /\ Less(x, y) <=> x[i] < y[i]
                /\ Less(y, x) <=> y[i] < x[i]
<1> DEFINE n == IF Len(x) < Len(y) THEN Len(x) ELSE Len(y)
           D == {i \in 1 .. n : x[i] # y[i]}
           i == CHOOSE i \in D : \A j \in D : i <= j
<1>1. n \in Nat /\ n <= Len(x) /\ n <= Len(y) /\ Len(x) \in Nat /\ Len(y) \in Nat
  OBVIOUS
<1>2. Less(x, y) <=> IF D = {} THEN Len(x) < Len(y) ELSE x[i] < y[i]
  BY DEF Less
<1>3. Less(y, x) <=> IF D = {} THEN Len(y) < Len(x) ELSE y[i] < x[i]
  <2>1. n = IF Len(y) < Len(x) THEN Len(y) ELSE Len(x)
    OBVIOUS
  <2> HIDE DEF n
  <2>2. D = {k \in 1 .. n : y[k] # x[k]}
    OBVIOUS
  <2>3. QED
    BY <2>1, <2>2 DEF Less
<1>4. CASE D = {}
  <2>1. ASSUME NEW k \in 1 .. Len(x), k <= Len(y) PROVE x[k] = y[k]
    BY <1>4, <2>1
  <2>2. QED
    BY <1>2, <1>3, <1>4, <2>1
<1>5. CASE D # {}
  <2>1. i \in D
    <3>1. D \in SUBSET Nat
      BY <1>1
    <3>2. \E k \in D : \A j \in D : k <= j
      <4> HIDE DEF D
      <4>1. QED
        BY <1>5, <3>1, LeastNatural
    <3>3. QED
      BY <3>2
  <2>2. i \in 1 .. Len(x) /\ i <= Len(y) /\ x[i] # y[i]
    BY <1>1, <2>1
  <2> HIDE DEF i, D
  <2>3. QED
    BY <1>2, <1>3, <1>5, <2>2
<1>6. QED
  BY <1>4, <1>5

\* Of two addresses of any bytes, exactly one is less or they are equal.
LEMMA OneOrder ==
    ASSUME NEW x \in Seq(Nat), NEW y \in Seq(Nat)
    PROVE  Cardinality({r \in {"lt", "gt", "eq"} :
              (r = "lt" /\ Less(x, y)) \/ (r = "gt" /\ Less(y, x)) \/ (r = "eq" /\ Equal(x, y))}) = 1
<1> DEFINE R == {r \in {"lt", "gt", "eq"} :
                  (r = "lt" /\ Less(x, y)) \/ (r = "gt" /\ Less(y, x)) \/ (r = "eq" /\ Equal(x, y))}
<1>1. Len(x) \in Nat /\ Len(y) \in Nat /\ \A i \in 1 .. Len(x) : x[i] \in Nat
  OBVIOUS
<1>2. \A i \in 1 .. Len(y) : y[i] \in Nat
  OBVIOUS
<1>3. \/ Less(x, y) /\ ~Less(y, x) /\ ~Equal(x, y)
      \/ ~Less(x, y) /\ Less(y, x) /\ ~Equal(x, y)
      \/ ~Less(x, y) /\ ~Less(y, x) /\ Equal(x, y)
  <2>1. CASE /\ \A i \in 1 .. Len(x) : i <= Len(y) => x[i] = y[i]
             /\ Less(x, y) <=> Len(x) < Len(y)
             /\ Less(y, x) <=> Len(y) < Len(x)
    <3>1. Equal(x, y) <=> Len(x) = Len(y)
      BY <1>1, <2>1 DEF Equal
    <3>2. QED
      BY <1>1, <2>1, <3>1
  <2>2. ASSUME NEW i \in 1 .. Len(x),
               i <= Len(y) /\ x[i] # y[i],
               Less(x, y) <=> x[i] < y[i],
               Less(y, x) <=> y[i] < x[i]
        PROVE  \/ Less(x, y) /\ ~Less(y, x) /\ ~Equal(x, y)
               \/ ~Less(x, y) /\ Less(y, x) /\ ~Equal(x, y)
    <3>1. ~Equal(x, y)
      BY <2>2 DEF Equal
    <3>2. x[i] \in Nat /\ y[i] \in Nat
      BY <1>1, <1>2, <2>2
    <3>3. QED
      BY <2>2, <3>1, <3>2
  <2>3. QED
    BY <2>1, <2>2, LessIs
<1>d. "lt" # "gt" /\ "lt" # "eq" /\ "gt" # "eq" /\ "gt" # "lt" /\ "eq" # "lt" /\ "eq" # "gt"
  OBVIOUS
<1>r. R \in SUBSET {"lt", "gt", "eq"}
  OBVIOUS
<1>4. \E r : R = {r}
  <2>1. CASE Less(x, y) /\ ~Less(y, x) /\ ~Equal(x, y)
    <3>1. "lt" \in R /\ "gt" \notin R /\ "eq" \notin R
      BY <1>d, <2>1, Zenon
    <3>2. R = {"lt"}
      <4> HIDE DEF R
      <4>1. QED
        BY <1>r, <3>1
    <3>3. QED
      BY <3>2
  <2>2. CASE ~Less(x, y) /\ Less(y, x) /\ ~Equal(x, y)
    <3>1. "lt" \notin R /\ "gt" \in R /\ "eq" \notin R
      BY <1>d, <2>2, Zenon
    <3>2. R = {"gt"}
      <4> HIDE DEF R
      <4>1. QED
        BY <1>r, <3>1
    <3>3. QED
      BY <3>2
  <2>3. CASE ~Less(x, y) /\ ~Less(y, x) /\ Equal(x, y)
    <3>1. "lt" \notin R /\ "gt" \notin R /\ "eq" \in R
      BY <1>d, <2>3, Zenon
    <3>2. R = {"eq"}
      <4> HIDE DEF R
      <4>1. QED
        BY <1>r, <3>1
    <3>3. QED
      BY <3>2
  <2>4. QED
    BY <1>3, <2>1, <2>2, <2>3
<1>5. QED
  BY <1>4, FS_Singleton

\* memchr finds the first place of a character, or none.
LEMMA MemchrIs ==
    ASSUME NEW host, NEW ch, NEW from \in Nat \ {0}, NEW to \in Int
    PROVE  /\ (\A i \in from .. to : host[i] # ch) => memchr(host, ch, from, to) = 0
           /\ \A c \in from .. to :
                host[c] = ch /\ (\A i \in from .. to : host[i] = ch => c <= i) => memchr(host, ch, from, to) = c
<1> DEFINE at == {i \in from .. to : host[i] = ch}
<1>1. memchr(host, ch, from, to) = IF at = {} THEN 0 ELSE CHOOSE i \in at : \A j \in at : i <= j
  BY DEF memchr
<1>2. ASSUME NEW c \in from .. to, host[c] = ch, \A i \in from .. to : host[i] = ch => c <= i
      PROVE  memchr(host, ch, from, to) = c
  <2>1. c \in at /\ \A j \in at : c <= j
    BY <1>2
  <2>2. \A i \in at : (\A j \in at : i <= j) => i = c
    BY <2>1
  <2> HIDE DEF at
  <2>3. QED
    BY <1>1, <2>1, <2>2
<1>3. QED
  BY <1>1, <1>2

\* A host is split at its one colon, or at the bracket and the colon behind it.
LEMMA HostSplits ==
    ASSUME NEW h \in Seq({"[", "]", ":", "x"}), h # <<>>
    PROVE  LET colons == {i \in 1 .. Len(h) : h[i] = ":"}
               ends == {i \in 1 .. Len(h) : h[i] = "]"}
           IN /\ h[1] # "[" /\ colons = {} => Lookup(h) = [node |-> h, service |-> 0]
              /\ \A c \in colons :
                   h[1] # "[" /\ colons = {c} /\ c > 1 =>
                       Lookup(h) = [node |-> SubSeq(h, 1, c - 1), service |-> c + 1]
              /\ \A c \in ends :
                   /\ h[1] = "[" /\ c > 2 /\ (\A d \in ends : c <= d)
                   /\ c + 1 \in colons
                   => Lookup(h) = [node |-> SubSeq(h, 2, c - 1), service |-> c + 2]
<1> DEFINE n == Len(h)
           colons == {i \in 1 .. n : h[i] = ":"}
           ends == {i \in 1 .. n : h[i] = "]"}
           endipv6 == IF n > 0 /\ h[1] = "[" THEN memchr(h, "]", 1, n - 1) ELSE 0
           node6 == SubSeq(h, 2, endipv6 - 1)
           first == memchr(h, ":", 1, n)
           second == memchr(h, ":", first + 1, n)
           node4 == IF first > 0 /\ second = 0 THEN SubSeq(h, 1, first - 1) ELSE <<>>
<1>1. n \in Nat /\ n > 0
  OBVIOUS
<1>2. Lookup(h) =
        IF endipv6 > 0 /\ node6 # <<>>
        THEN [node |-> node6, service |-> IF h[endipv6 + 1] = ":" THEN endipv6 + 2 ELSE 0]
        ELSE [node |-> IF node4 = <<>> THEN h ELSE node4,
              service |-> IF first > 0 /\ second = 0 THEN first + 1 ELSE first]
  BY DEF Lookup
<1>3. ASSUME h[1] # "[", colons = {} PROVE Lookup(h) = [node |-> h, service |-> 0]
  <2>1. endipv6 = 0
    BY <1>3
  <2>2. first = 0
    BY <1>1, <1>3, MemchrIs
  <2> HIDE DEF endipv6, first, second
  <2>3. QED
    BY <1>2, <2>1, <2>2
<1>4. ASSUME NEW c \in colons, h[1] # "[", colons = {c}, c > 1
      PROVE  Lookup(h) = [node |-> SubSeq(h, 1, c - 1), service |-> c + 1]
  <2>1. endipv6 = 0
    BY <1>4
  <2>2. c \in 1 .. n /\ h[c] = ":" /\ \A i \in 1 .. n : h[i] = ":" => i = c
    BY <1>4
  <2>3. first = c
    BY <1>1, <2>2, MemchrIs
  <2>4. second = 0
    <3>1. \A i \in (c + 1) .. n : h[i] # ":"
      BY <1>1, <2>2
    <3>2. c + 1 \in Nat \ {0} /\ n \in Int
      BY <1>1, <2>2
    <3>3. memchr(h, ":", c + 1, n) = 0
      BY <3>1, <3>2, MemchrIs
    <3>4. QED
      BY <2>3, <3>3
  <2> HIDE DEF endipv6, first, second
  <2>5. SubSeq(h, 1, c - 1) # <<>>
    <3>1. c - 1 \in Nat /\ 1 <= c - 1 /\ c - 1 <= n
      BY <1>1, <1>4, <2>2
    <3>2. Len(SubSeq(h, 1, c - 1)) = c - 1
      BY <1>1, <3>1
    <3>3. QED
      BY <3>1, <3>2
  <2>6. node4 = SubSeq(h, 1, c - 1) /\ first > 0 /\ ~(endipv6 > 0)
    BY <2>1, <2>2, <2>3, <2>4
  <2> HIDE DEF node4, node6
  <2>7. QED
    BY <1>2, <2>3, <2>4, <2>5, <2>6
<1>5. ASSUME NEW c \in ends, h[1] = "[", c > 2, \A d \in ends : c <= d, c + 1 \in colons
      PROVE  Lookup(h) = [node |-> SubSeq(h, 2, c - 1), service |-> c + 2]
  <2>1. c \in 1 .. (n - 1) /\ h[c] = "]" /\ h[c + 1] = ":" /\ \A i \in 1 .. (n - 1) : h[i] = "]" => c <= i
    BY <1>1, <1>5
  <2>2. 1 \in Nat \ {0} /\ n - 1 \in Int
    BY <1>1
  <2>3. memchr(h, "]", 1, n - 1) = c
    BY <2>1, <2>2, MemchrIs
  <2>4. endipv6 = c
    BY <1>1, <1>5, <2>3
  <2> HIDE DEF endipv6, first, second
  <2>5. SubSeq(h, 2, c - 1) # <<>>
    <3>1. c - 1 \in Nat /\ 2 <= c - 1 /\ c - 1 <= n
      BY <1>1, <1>5, <2>1
    <3>2. Len(SubSeq(h, 2, c - 1)) = c - 2
      BY <1>1, <3>1
    <3>3. QED
      BY <3>1, <3>2
  <2>6. QED
    BY <1>2, <1>5, <2>1, <2>4, <2>5
<1>6. QED
  BY <1>3, <1>4, <1>5

-----------------------------------------------------------------------------
(* Addresses: the text of an IPv6 address.                                 *)

\* Where three sequences end up when they are put behind each other.
IsThreeParts(l, x, y, z) ==
    /\ Len(l) = Len(x) + Len(y) + Len(z)
    /\ \A i \in 1 .. Len(x) : l[i] = x[i]
    /\ \A i \in 1 .. Len(y) : l[i + Len(x)] = y[i]
    /\ \A i \in 1 .. Len(z) : l[i + Len(x) + Len(y)] = z[i]

\* Concatenation puts them there.
LEMMA ThreeParts ==
    ASSUME NEW S, NEW x \in Seq(S), NEW y \in Seq(S), NEW z \in Seq(S)
    PROVE  x \o y \o z \in Seq(S) /\ IsThreeParts(x \o y \o z, x, y, z)
<1> DEFINE a == x \o y
           l == a \o z
<1>1. a \in Seq(S) /\ Len(a) = Len(x) + Len(y) /\ Len(x) \in Nat /\ Len(y) \in Nat /\ Len(z) \in Nat
  OBVIOUS
<1>2. /\ \A i \in 1 .. Len(x) : a[i] = x[i]
      /\ \A i \in 1 .. Len(y) : a[i + Len(x)] = y[i]
  OBVIOUS
<1> HIDE DEF a
<1>3. l \in Seq(S) /\ Len(l) = Len(a) + Len(z)
  BY <1>1, SMTT(40)
<1>4. /\ \A i \in 1 .. Len(a) : l[i] = a[i]
      /\ \A i \in 1 .. Len(z) : l[i + Len(a)] = z[i]
  BY <1>1
<1> HIDE DEF l
<1>5. \A i \in 1 .. Len(x) : l[i] = x[i]
  BY <1>1, <1>2, <1>4
<1>6. \A i \in 1 .. Len(y) : l[i + Len(x)] = y[i]
  BY <1>1, <1>2, <1>4
<1>7. \A i \in 1 .. Len(z) : l[i + Len(x) + Len(y)] = z[i]
  BY <1>1, <1>4
<1>8. QED
  BY <1>1, <1>3, <1>5, <1>6, <1>7 DEF a, l, IsThreeParts

\* Groups a .. b of an address with a colon between each two.
Joined(addr, a, b) ==
    [i \in 1 .. (2 * (b - a) + 1) |-> IF i % 2 = 1 THEN addr[a + ((i - 1) \div 2)] ELSE ":"]
TextChars == {"0", "1", ":"}
Addresses6 == [1 .. Groups6 -> {"0", "1"}]

\* Joined groups: the groups at odd places, colons at even ones.
IsJoined(j, addr, a, b) ==
    /\ j \in Seq(TextChars)
    /\ Len(j) = IF a > b THEN 0 ELSE 2 * (b - a) + 1
    /\ \A i \in 1 .. Len(j) :
         /\ i % 2 = 1 => j[i] = addr[a + ((i - 1) \div 2)] /\ j[i] # ":"
         /\ i % 2 = 0 => j[i] = ":"

\* The groups from a to b, which may be none.
LEMMA JoinedIs ==
    ASSUME NEW addr \in Addresses6, NEW a \in 1 .. (Groups6 + 1), NEW b \in 0 .. Groups6, a <= b + 1
    PROVE  IsJoined(Joined(addr, a, b), addr, a, b)
<1> DEFINE j == Joined(addr, a, b)
           n == IF a > b THEN 0 ELSE 2 * (b - a) + 1
<1>1. Groups6 \in Nat /\ a \in Nat /\ b \in Nat /\ n \in Nat
  BY AddressAssumption
<1>2. 1 .. (2 * (b - a) + 1) = 1 .. n
  BY <1>1
<1>3. j = [i \in 1 .. n |-> IF i % 2 = 1 THEN addr[a + ((i - 1) \div 2)] ELSE ":"]
  BY <1>2 DEF Joined
<1>4. ASSUME NEW i \in 1 .. n, i % 2 = 1
      PROVE  j[i] = addr[a + ((i - 1) \div 2)] /\ j[i] \in {"0", "1"}
  <2>1. a + ((i - 1) \div 2) \in 1 .. Groups6
    BY <1>1, <1>4
  <2>2. QED
    BY <1>3, <1>4, <2>1 DEF Addresses6
<1>5. ASSUME NEW i \in 1 .. n, i % 2 # 1 PROVE j[i] = ":"
  BY <1>3, <1>5
<1> HIDE DEF j
<1>6. ASSUME NEW i \in 1 .. n PROVE j[i] \in TextChars
  BY <1>4, <1>5 DEF TextChars
<1>7. j \in [1 .. n -> TextChars]
  BY <1>3, <1>6
<1> HIDE DEF n
<1>8. j \in Seq(TextChars) /\ Len(j) = n
  BY <1>1, <1>7
<1>9. QED
  BY <1>1, <1>4, <1>5, <1>8 DEF j, n, IsJoined

\* A group more, behind a colon.
LEMMA JoinedMore ==
    ASSUME NEW addr \in Addresses6, NEW a \in 1 .. Groups6, NEW b \in 1 .. (Groups6 - 1), a <= b
    PROVE  Joined(addr, a, b) \o <<":">> \o <<addr[b + 1]>> = Joined(addr, a, b + 1)
<1> DEFINE x == Joined(addr, a, b)
           y == Joined(addr, a, b + 1)
           n == 2 * (b - a) + 1
           l == x \o <<":">> \o <<addr[b + 1]>>
<1>1. Groups6 \in Nat /\ a \in Nat /\ b \in Nat /\ n \in Nat /\ b + 1 \in 1 .. Groups6 /\ b + 1 \in 0 .. Groups6
  BY AddressAssumption
<1>2. /\ x \in Seq(TextChars) /\ Len(x) = n
      /\ \A i \in 1 .. n : /\ i % 2 = 1 => x[i] = addr[a + ((i - 1) \div 2)]
                           /\ i % 2 = 0 => x[i] = ":"
  <2>1. IsJoined(x, addr, a, b)
    BY <1>1, JoinedIs
  <2>2. Len(x) = n
    BY <1>1, <2>1 DEF IsJoined
  <2> HIDE DEF x, n
  <2>3. QED
    BY <2>1, <2>2 DEF IsJoined
<1>3. /\ y \in Seq(TextChars) /\ Len(y) = n + 2
      /\ \A i \in 1 .. (n + 2) : /\ i % 2 = 1 => y[i] = addr[a + ((i - 1) \div 2)]
                                 /\ i % 2 = 0 => y[i] = ":"
  <2>1. a <= b + 1 + 1 /\ (IF a > b + 1 THEN 0 ELSE 2 * (b + 1 - a) + 1) = n + 2 /\ a \in 1 .. (Groups6 + 1)
    BY <1>1
  <2>2. IsJoined(y, addr, a, b + 1)
    BY <1>1, <2>1, JoinedIs
  <2>3. Len(y) = n + 2
    BY <2>1, <2>2 DEF IsJoined
  <2> HIDE DEF y, n
  <2>4. QED
    BY <2>2, <2>3 DEF IsJoined
<1>4. addr[b + 1] \in TextChars /\ ":" \in TextChars
  BY <1>1 DEF Addresses6, TextChars
<1>5. <<":">> \in Seq(TextChars) /\ <<addr[b + 1]>> \in Seq(TextChars)
  BY <1>4
<1> HIDE DEF x, y
<1>6. l \in Seq(TextChars) /\ IsThreeParts(l, x, <<":">>, <<addr[b + 1]>>)
  BY <1>2, <1>5, ThreeParts
<1> HIDE DEF l
<1>7. /\ Len(l) = n + 2
      /\ \A i \in 1 .. n : l[i] = x[i]
      /\ l[n + 1] = ":" /\ l[n + 2] = addr[b + 1]
  BY <1>1, <1>2, <1>6 DEF IsThreeParts
<1>8. /\ (n + 1) % 2 = 0 /\ (n + 2) % 2 = 1 /\ a + (((n + 2) - 1) \div 2) = b + 1
      /\ \A i \in 1 .. n : i % 2 = 0 \/ i % 2 = 1
  BY <1>1
<1>9. ASSUME NEW i \in 1 .. (n + 2) PROVE l[i] = y[i]
  <2>1. CASE i \in 1 .. n
    BY <1>2, <1>3, <1>7, <1>8, <2>1
  <2>2. CASE i = n + 1
    BY <1>1, <1>3, <1>7, <1>8, <2>2
  <2>3. CASE i = n + 2
    BY <1>1, <1>3, <1>7, <1>8, <2>3
  <2>4. QED
    BY <1>1, <2>1, <2>2, <2>3
<1> HIDE DEF n
<1>10. l = y
  BY <1>1, <1>3, <1>6, <1>7, <1>9, SeqEqual
<1>11. QED
  BY <1>10 DEF l, x, y

\* Joined groups are listed, and are the groups of the address.
LEMMA JoinedReads ==
    ASSUME NEW addr \in Addresses6, NEW a \in 1 .. (Groups6 + 1), NEW b \in 0 .. Groups6, a <= b + 1
    PROVE  /\ Listed(Joined(addr, a, b))
           /\ GroupsIn(Joined(addr, a, b)) = [i \in 1 .. (b + 1 - a) |-> addr[a + i - 1]]
<1> DEFINE j == Joined(addr, a, b)
           n == IF a > b THEN 0 ELSE 2 * (b - a) + 1
<1>1. Groups6 \in Nat /\ a \in Nat /\ b \in Nat /\ n \in Nat
  BY AddressAssumption
<1>2. /\ j \in Seq(TextChars) /\ Len(j) = n
      /\ \A i \in 1 .. n : /\ i % 2 = 1 => j[i] = addr[a + ((i - 1) \div 2)] /\ j[i] # ":"
                           /\ i % 2 = 0 => j[i] = ":"
  <2>1. IsJoined(j, addr, a, b)
    BY JoinedIs
  <2> HIDE DEF j
  <2>2. QED
    BY <1>1, <2>1 DEF IsJoined
<1> HIDE DEF j
<1>3. \A i \in 1 .. n : i % 2 = 0 \/ i % 2 = 1
  BY <1>1
<1>4. j # <<>> => n % 2 = 1
  BY <1>1, <1>2
<1>5. \A i \in 1 .. n : j[i] = ":" <=> i % 2 = 0
  BY <1>2, <1>3
<1>6. Listed(j)
  BY <1>2, <1>4, <1>5 DEF Listed
<1>7. (n + 1) \div 2 = b + 1 - a
  BY <1>1
<1>8. ASSUME NEW i \in 1 .. (b + 1 - a) PROVE j[2 * i - 1] = addr[a + i - 1]
  <2>1. 2 * i - 1 \in 1 .. n /\ (2 * i - 1) % 2 = 1 /\ a + (((2 * i - 1) - 1) \div 2) = a + i - 1
    BY <1>1
  <2>2. QED
    BY <1>2, <2>1
<1>9. GroupsIn(j) = [i \in 1 .. (b + 1 - a) |-> addr[a + i - 1]]
  BY <1>2, <1>7, <1>8 DEF GroupsIn
<1>10. QED
  BY <1>6, <1>9 DEF j

\* The text with groups z .. b left out.
Gapped(addr, z, b, n) == Joined(addr, 1, z - 1) \o <<":", ":">> \o Joined(addr, b + 1, n)
Zeros(addr, z, b) == \A k \in z .. b : addr[k] = "0"

\* A text without a gap reads as its groups.
LEMMA JoinedReadsBack ==
    ASSUME NEW addr \in Addresses6
    PROVE  Reads(Joined(addr, 1, Groups6), addr)
<1> DEFINE j == Joined(addr, 1, Groups6)
           G == Groups6
<1>1. G \in Nat /\ 1 \in 1 .. (G + 1) /\ G \in 0 .. G /\ 1 <= G + 1
  BY AddressAssumption
<1>2. IsJoined(j, addr, 1, G)
  BY <1>1, JoinedIs
<1>3. Listed(j) /\ GroupsIn(j) = [i \in 1 .. (G + 1 - 1) |-> addr[1 + i - 1]]
  BY <1>1, JoinedReads
<1>4. [i \in 1 .. (G + 1 - 1) |-> addr[1 + i - 1]] = addr
  <2>1. G + 1 - 1 = G /\ \A i \in 1 .. G : 1 + i - 1 = i
    BY <1>1
  <2>2. QED
    BY <2>1 DEF Addresses6
<1> HIDE DEF j
<1>5. Gaps(j) = {}
  <2> SUFFICES ASSUME NEW i \in 1 .. (Len(j) - 1), j[i] = ":", j[i + 1] = ":" PROVE FALSE
    BY DEF Gaps
  <2>1. Len(j) \in Nat
    BY <1>2 DEF IsJoined
  <2>2. i \in 1 .. Len(j) /\ i + 1 \in 1 .. Len(j) /\ (i % 2 = 1 \/ (i + 1) % 2 = 1)
    BY <2>1
  <2>3. QED
    BY <1>2, <2>2 DEF IsJoined
<1>6. QED
  BY <1>3, <1>4, <1>5 DEF Reads, j

\* What is before and behind the gap.
LEMMA GapParts ==
    ASSUME NEW S, NEW x \in Seq(S), NEW y \in Seq(S), NEW t \in Seq(S), NEW u \in S,
           IsThreeParts(t, x, <<u, u>>, y)
    PROVE  /\ Len(t) = Len(x) + 2 + Len(y)
           /\ t[Len(x) + 1] = u /\ t[Len(x) + 2] = u
           /\ SubSeq(t, 1, (Len(x) + 1) - 1) = x
           /\ SubSeq(t, (Len(x) + 1) + 2, Len(t)) = y
<1> DEFINE m == Len(x)
           k == Len(y)
<1>1. m \in Nat /\ k \in Nat /\ Len(<<u, u>>) = 2 /\ <<u, u>>[1] = u /\ <<u, u>>[2] = u
  OBVIOUS
<1>2. /\ Len(t) = m + 2 + k
      /\ \A i \in 1 .. m : t[i] = x[i]
      /\ \A i \in 1 .. 2 : t[i + m] = <<u, u>>[i]
      /\ \A i \in 1 .. k : t[i + m + 2] = y[i]
  BY <1>1 DEF IsThreeParts
<1>3. t[m + 1] = u /\ t[m + 2] = u
  BY <1>1, <1>2
<1>4. SubSeq(t, 1, (m + 1) - 1) = x
  <2> DEFINE s == SubSeq(t, 1, (m + 1) - 1)
  <2>1. s = [i \in 1 .. m |-> t[i]]
    BY <1>1, <1>2
  <2>2. s \in Seq(S) /\ Len(s) = m /\ \A i \in 1 .. m : s[i] = x[i]
    BY <1>1, <1>2, <2>1
  <2> HIDE DEF s
  <2>3. QED
    BY <2>2, SeqEqual DEF s
<1>5. SubSeq(t, (m + 1) + 2, Len(t)) = y
  <2> DEFINE s == SubSeq(t, (m + 1) + 2, Len(t))
  <2>1. s = [i \in 1 .. k |-> t[i + m + 2]]
    <3>1. s = [i \in 1 .. (Len(t) - ((m + 1) + 2) + 1) |-> t[((m + 1) + 2) + i - 1]]
      BY <1>1, <1>2
    <3>2. Len(t) - ((m + 1) + 2) + 1 = k
      BY <1>1, <1>2
    <3>3. \A i \in 1 .. k : ((m + 1) + 2) + i - 1 = i + m + 2
      BY <1>1
    <3> HIDE DEF s, m, k
    <3>4. QED
      BY <3>1, <3>2, <3>3
  <2>2. s = [i \in 1 .. k |-> y[i]]
    BY <1>2, <2>1
  <2>3. y = [i \in 1 .. k |-> y[i]]
    OBVIOUS
  <2> HIDE DEF s, k
  <2>4. QED
    BY <2>2, <2>3 DEF s
<1>6. QED
  BY <1>2, <1>3, <1>4, <1>5

\* A text with one gap of zeros reads as the address.
LEMMA GappedReadsBack ==
    ASSUME NEW addr \in Addresses6, NEW z \in 1 .. Groups6, NEW b \in z .. Groups6, Zeros(addr, z, b)
    PROVE  Reads(Gapped(addr, z, b, Groups6), addr)
<1> DEFINE G == Groups6
           x == Joined(addr, 1, z - 1)
           y == Joined(addr, b + 1, G)
           t == Gapped(addr, z, b, G)
           g == Len(x) + 1
<1>1. G \in Nat /\ z \in Nat /\ b \in Nat /\ 1 <= z /\ z <= b /\ b <= G
  BY AddressAssumption
<1>2. /\ 1 \in 1 .. (G + 1) /\ z - 1 \in 0 .. G /\ 1 <= (z - 1) + 1
      /\ b + 1 \in 1 .. (G + 1) /\ G \in 0 .. G /\ b + 1 <= G + 1
  BY <1>1
<1>3. IsJoined(x, addr, 1, z - 1) /\ IsJoined(y, addr, b + 1, G)
  BY <1>2, JoinedIs
<1>4. /\ Listed(x) /\ GroupsIn(x) = [i \in 1 .. ((z - 1) + 1 - 1) |-> addr[1 + i - 1]]
      /\ Listed(y) /\ GroupsIn(y) = [i \in 1 .. (G + 1 - (b + 1)) |-> addr[(b + 1) + i - 1]]
  BY <1>2, JoinedReads
<1>5. x \in Seq(TextChars) /\ y \in Seq(TextChars) /\ ":" \in TextChars /\ <<":", ":">> \in Seq(TextChars)
  BY <1>3 DEF IsJoined, TextChars
<1>6. t \in Seq(TextChars) /\ IsThreeParts(t, x, <<":", ":">>, y)
  <2>1. t = x \o <<":", ":">> \o y
    BY DEF Gapped
  <2> HIDE DEF t, x, y
  <2>2. QED
    BY <1>5, <2>1, ThreeParts
<1> HIDE DEF t, x, y
<1>7. /\ Len(t) = Len(x) + 2 + Len(y)
      /\ t[Len(x) + 1] = ":" /\ t[Len(x) + 2] = ":"
      /\ SubSeq(t, 1, g - 1) = x /\ SubSeq(t, g + 2, Len(t)) = y
  BY <1>5, <1>6, GapParts
<1>8. Len(x) \in Nat /\ Len(y) \in Nat /\ (Len(x) = 0 \/ Len(x) % 2 = 1)
  BY <1>1, <1>3 DEF IsJoined
<1>9. /\ \A i \in 1 .. Len(x) : i % 2 = 1 => t[i] # ":"
      /\ \A i \in 1 .. Len(y) : i % 2 = 1 => t[i + Len(x) + 2] # ":"
  <2>1. /\ \A i \in 1 .. Len(x) : t[i] = x[i]
        /\ \A i \in 1 .. Len(y) : t[i + Len(x) + 2] = y[i]
    BY <1>6, <1>8 DEF IsThreeParts
  <2>2. QED
    BY <1>3, <2>1 DEF IsJoined
<1>10. Gaps(t) = {g}
  <2>1. g \in Gaps(t)
    BY <1>7, <1>8 DEF Gaps
  <2>2. ASSUME NEW i \in 1 .. (Len(t) - 1), t[i] = ":", t[i + 1] = ":" PROVE i = g
    <3>1. CASE i < Len(x)
      <4>1. i \in 1 .. Len(x) /\ i + 1 \in 1 .. Len(x) /\ (i % 2 = 1 \/ (i + 1) % 2 = 1)
        BY <1>8, <3>1
      <4>2. QED
        BY <1>9, <2>2, <4>1
    <3>2. CASE i = Len(x)
      <4>1. i \in 1 .. Len(x) /\ i % 2 = 1
        BY <1>8, <3>2
      <4>2. QED
        BY <1>9, <2>2, <4>1
    <3>3. CASE i > g
      <4> DEFINE k == i - Len(x) - 2
      <4>1. k \in 0 .. (Len(y) - 1) /\ i = k + Len(x) + 2 /\ i + 1 = (k + 1) + Len(x) + 2
        BY <1>7, <1>8, <3>3
      <4>2. k + 1 \in 1 .. Len(y) /\ (k = 0 \/ k \in 1 .. Len(y)) /\ (k % 2 = 1 \/ (k + 1) % 2 = 1)
        BY <1>8, <4>1
      <4>3. k = 0 => (k + 1) % 2 = 1
        OBVIOUS
      <4> HIDE DEF k
      <4>4. QED
        BY <1>9, <2>2, <4>1, <4>2, <4>3
    <3>4. QED
      BY <1>8, <3>1, <3>2, <3>3
  <2>3. QED
    BY <2>1, <2>2 DEF Gaps
<1> DEFINE missing == b + 1 - z
           gx == GroupsIn(x)
           gy == GroupsIn(y)
           zs == [i \in 1 .. missing |-> "0"]
<1>11. missing \in Nat /\ missing >= 1
  BY <1>1
<1>12. gx = [i \in 1 .. (z - 1) |-> addr[i]] /\ gy = [i \in 1 .. (G - b) |-> addr[b + i]]
  <2>1. (z - 1) + 1 - 1 = z - 1 /\ \A i \in 1 .. (z - 1) : 1 + i - 1 = i
    BY <1>1
  <2>2. G + 1 - (b + 1) = G - b /\ \A i \in 1 .. (G - b) : (b + 1) + i - 1 = b + i
    BY <1>1
  <2>3. QED
    BY <1>4, <2>1, <2>2
<1> HIDE DEF gx, gy
<1>13. /\ \A i \in 1 .. (z - 1) : addr[i] \in TextChars
       /\ \A i \in 1 .. (G - b) : addr[b + i] \in TextChars
       /\ \A i \in 1 .. G : addr[i] \in TextChars
  BY <1>1 DEF Addresses6, TextChars
<1>14. gx \in Seq(TextChars) /\ Len(gx) = z - 1 /\ gy \in Seq(TextChars) /\ Len(gy) = G - b
  BY <1>1, <1>12, <1>13
<1>15. zs \in Seq(TextChars) /\ Len(zs) = missing
  BY <1>11 DEF TextChars
<1> DEFINE l == gx \o zs \o gy
<1>16. l \in Seq(TextChars) /\ IsThreeParts(l, gx, zs, gy)
  <2> HIDE DEF zs, missing
  <2>1. QED
    BY <1>14, <1>15, ThreeParts
<1>17. l = addr
  <2> HIDE DEF l
  <2>1. Len(l) = G
    BY <1>1, <1>11, <1>14, <1>15, <1>16 DEF IsThreeParts
  <2>2. ASSUME NEW i \in 1 .. G PROVE l[i] = addr[i]
    <3>1. CASE i < z
      BY <1>1, <1>12, <1>14, <1>16, <3>1 DEF IsThreeParts
    <3>2. CASE i >= z /\ i <= b
      <4>1. i - (z - 1) \in 1 .. missing /\ (i - (z - 1)) + (z - 1) = i
        BY <1>1, <3>2
      <4>2. l[(i - (z - 1)) + (z - 1)] = zs[i - (z - 1)]
        BY <1>14, <1>15, <1>16, <4>1 DEF IsThreeParts
      <4>3. addr[i] = "0"
        BY <1>1, <3>2 DEF Zeros
      <4>4. QED
        BY <4>1, <4>2, <4>3
    <3>3. CASE i > b
      <4>1. i - b \in 1 .. (G - b) /\ (i - b) + (z - 1) + missing = i /\ b + (i - b) = i
        BY <1>1, <3>3
      <4>2. l[(i - b) + (z - 1) + missing] = gy[i - b]
        BY <1>14, <1>15, <1>16, <4>1 DEF IsThreeParts
      <4>3. gy[i - b] = addr[b + (i - b)]
        BY <1>12, <4>1
      <4>4. QED
        BY <4>1, <4>2, <4>3
    <3>4. QED
      BY <1>1, <3>1, <3>2, <3>3
  <2>3. addr \in Seq(TextChars) /\ Len(addr) = G
    BY <1>1, <1>13 DEF Addresses6
  <2>4. QED
    BY <1>16, <2>1, <2>2, <2>3, SeqEqual
<1>18. G - Len(gx) - Len(gy) = missing
  BY <1>1, <1>14
<1>19. (CHOOSE i \in Gaps(t) : TRUE) = g /\ Gaps(t) # {}
  <2> HIDE DEF g
  <2>1. QED
    BY <1>10
<1> HIDE DEF missing, g
<1>20. Reads(t, addr)
  BY <1>4, <1>7, <1>10, <1>11, <1>17, <1>18, <1>19 DEF Reads, gx, gy
<1>21. QED
  BY <1>20 DEF t

\* One turn of the loop of insert.
NextTurn(t, addr, i) ==
    LET elided == i > 1 /\ addr[IF i > 1 THEN i - 1 ELSE i] = "0" /\ ~t.used_zeros
    IN IF addr[i] = "0" /\ ~t.used_zeros THEN t
       ELSE [os |-> t.os \o (IF elided THEN <<":">> ELSE <<>>)
                         \o (IF i > 1 THEN <<":">> ELSE <<>>) \o <<addr[i]>>,
             used_zeros |-> t.used_zeros \/ elided]
FirstTurn == [os |-> <<>>, used_zeros |-> FALSE]
IsTurn(turn, addr, n) ==
    turn = [i \in 0 .. n |-> IF i = 0 THEN FirstTurn ELSE NextTurn(turn[i - 1], addr, i)]

\* The function by which insert is defined exists.
LEMMA TurnExists ==
    ASSUME NEW addr, NEW n \in Nat
    PROVE  \E turn : IsTurn(turn, addr, n)
<1> DEFINE S == {k \in Nat : \E turn : IsTurn(turn, addr, k)}
<1>1. 0 \in S
  <2>1. IsTurn([i \in 0 .. 0 |-> FirstTurn], addr, 0)
    BY DEF IsTurn
  <2>2. QED
    BY <2>1
<1>2. ASSUME NEW k \in S PROVE k + 1 \in S
  <2>1. PICK f : IsTurn(f, addr, k)
    OBVIOUS
  <2> DEFINE g == [i \in 0 .. (k + 1) |-> IF i = k + 1 THEN NextTurn(f[k], addr, k + 1) ELSE f[i]]
  <2>2. ASSUME NEW i \in 0 .. (k + 1)
        PROVE  g[i] = IF i = 0 THEN FirstTurn ELSE NextTurn(g[i - 1], addr, i)
    <3>1. CASE i = k + 1
      BY <3>1
    <3>2. CASE i # k + 1
      BY <2>1, <3>2 DEF IsTurn
    <3>3. QED
      BY <3>1, <3>2
  <2>3. IsTurn(g, addr, k + 1)
    BY <2>2 DEF IsTurn
  <2> HIDE DEF g
  <2>4. k + 1 \in Nat
    OBVIOUS
  <2>5. QED
    BY <2>3, <2>4, Zenon
<1>3. S \in SUBSET Nat
  OBVIOUS
<1>4. S = Nat
  <2> HIDE DEF S
  <2>1. QED
    BY <1>1, <1>2, <1>3, Induction
<1>5. QED
  BY <1>4

\* The text after i turns: all groups so far, the groups before the zeros that
\* the last turns left out, or a text with its gap.
Plain(t, addr, i) == /\ t.used_zeros = FALSE /\ \A k \in 1 .. i : addr[k] = "1"
                     /\ t.os = Joined(addr, 1, i)
InZeros(t, addr, i) == /\ t.used_zeros = FALSE
                       /\ \E z \in 1 .. i : Zeros(addr, z, i) /\ t.os = Joined(addr, 1, z - 1)
BehindZeros(t, addr, i) == /\ t.used_zeros = TRUE
                           /\ \E z \in 1 .. i : \E b \in z .. (i - 1) :
                                Zeros(addr, z, b) /\ t.os = Gapped(addr, z, b, i)

\* A text with no group, and with one.
LEMMA JoinedFew ==
    ASSUME NEW addr \in Addresses6, NEW a \in 1 .. Groups6
    PROVE  Joined(addr, a, a - 1) = <<>> /\ Joined(addr, a, a) = <<addr[a]>>
<1>1. a \in Nat /\ 2 * ((a - 1) - a) + 1 = -1 /\ 2 * (a - a) + 1 = 1
  BY AddressAssumption
<1>2. Joined(addr, a, a - 1) = <<>>
  BY <1>1 DEF Joined
<1>3. Joined(addr, a, a) = [i \in 1 .. 1 |-> addr[a]]
  <2>1. \A i \in 1 .. 1 : i % 2 = 1 /\ a + ((i - 1) \div 2) = a
    BY <1>1
  <2>2. QED
    BY <1>1, <2>1 DEF Joined
<1>4. QED
  BY <1>2, <1>3

\* A gap grows a group behind it.
LEMMA GappedMore ==
    ASSUME NEW addr \in Addresses6, NEW z \in 1 .. Groups6, NEW b \in z .. Groups6,
           NEW i \in (b + 1) .. (Groups6 - 1)
    PROVE  Gapped(addr, z, b, i) \o <<":">> \o <<addr[i + 1]>> = Gapped(addr, z, b, i + 1)
<1> DEFINE G == Groups6
           x == Joined(addr, 1, z - 1)
           y == Joined(addr, b + 1, i)
           c == <<":">>
           e == <<addr[i + 1]>>
           d == <<":", ":">>
<1>1. /\ G \in Nat /\ z \in Nat /\ b \in Nat /\ i \in Nat
      /\ 1 \in 1 .. (G + 1) /\ z - 1 \in 0 .. G /\ 1 <= (z - 1) + 1
      /\ b + 1 \in 1 .. (G + 1) /\ i \in 0 .. G /\ b + 1 <= i + 1
      /\ b + 1 \in 1 .. G /\ i \in 1 .. (G - 1) /\ b + 1 <= i /\ i + 1 \in 1 .. G
  BY AddressAssumption
<1>2. IsJoined(x, addr, 1, z - 1) /\ IsJoined(y, addr, b + 1, i)
  BY <1>1, JoinedIs
<1>3. x \in Seq(TextChars) /\ y \in Seq(TextChars)
  BY <1>2 DEF IsJoined
<1>4. c \in Seq(TextChars) /\ d \in Seq(TextChars) /\ e \in Seq(TextChars)
  BY <1>1 DEF TextChars, Addresses6
<1>5. y \o c \o e = Joined(addr, b + 1, i + 1)
  BY <1>1, JoinedMore
<1>6. Gapped(addr, z, b, i) = x \o d \o y /\ Gapped(addr, z, b, i + 1) = x \o d \o (y \o c \o e)
  BY <1>5 DEF Gapped
<1> HIDE DEF x, y, c, d, e
<1> DEFINE p == x \o d
<1>7. p \in Seq(TextChars) /\ y \o c \in Seq(TextChars)
  BY <1>3, <1>4
<1> HIDE DEF p
<1>8. ((p \o y) \o c) = p \o (y \o c)
  BY <1>3, <1>4, <1>7, ConcatAssociative, SMTT(40)
<1>9. (p \o (y \o c)) \o e = p \o ((y \o c) \o e)
  <2> DEFINE q == y \o c
  <2>1. q \in Seq(TextChars)
    BY <1>7
  <2> HIDE DEF q
  <2>0. p \in Seq(TextChars) /\ e \in Seq(TextChars)
    BY <1>4, <1>7
  <2>2. (p \o q) \o e = p \o (q \o e)
    BY <2>0, <2>1, ConcatAssociative
  <2>3. QED
    BY <2>2 DEF q
<1>10. QED
  BY <1>6, <1>8, <1>9 DEF p, c, e

\* A turn keeps the text one of the three.
LEMMA TurnStep ==
    ASSUME NEW addr \in Addresses6, NEW i \in 1 .. Groups6, NEW t,
           Plain(t, addr, i - 1) \/ InZeros(t, addr, i - 1) \/ BehindZeros(t, addr, i - 1)
    PROVE  LET u == NextTurn(t, addr, i)
           IN Plain(u, addr, i) \/ InZeros(u, addr, i) \/ BehindZeros(u, addr, i)
<1> DEFINE u == NextTurn(t, addr, i)
           G == Groups6
<1>1. G \in Nat /\ i \in Nat /\ 1 <= i /\ i <= G /\ addr[i] \in {"0", "1"}
  BY AddressAssumption DEF Addresses6
<1>2. CASE Plain(t, addr, i - 1) /\ addr[i] = "0"
  <2>1. u = t
    BY <1>2 DEF NextTurn, Plain
  <2>2. Zeros(addr, i, i) /\ i \in 1 .. i
    BY <1>1, <1>2 DEF Zeros
  <2>3. InZeros(t, addr, i)
    BY <1>2, <2>2 DEF InZeros, Plain
  <2>4. QED
    BY <2>1, <2>3
<1>3. CASE Plain(t, addr, i - 1) /\ addr[i] # "0"
  <2>1. i > 1 => addr[i - 1] = "1"
    BY <1>1, <1>3 DEF Plain
  <2>2. /\ u.used_zeros = FALSE
        /\ u.os = t.os \o <<>> \o (IF i > 1 THEN <<":">> ELSE <<>>) \o <<addr[i]>>
    BY <1>3, <2>1 DEF NextTurn, Plain
  <2>3. \A k \in 1 .. i : addr[k] = "1"
    BY <1>1, <1>3 DEF Plain
  <2>4. u.os = Joined(addr, 1, i)
    <3>1. CASE i = 1
      <4>1. t.os = <<>>
        <5>1. 1 \in 1 .. G /\ i - 1 = 1 - 1
          BY <1>1, <3>1
        <5>2. QED
          BY <1>3, <3>1, <5>1, JoinedFew DEF Plain
      <4>2. u.os = <<addr[i]>>
        BY <2>2, <3>1, <4>1
      <4>3. QED
        BY <1>1, <3>1, <4>2, JoinedFew
    <3>2. CASE i > 1
      <4>1. /\ 1 \in 1 .. G /\ i - 1 \in 1 .. (G - 1) /\ 1 <= i - 1 /\ (i - 1) + 1 = i
            /\ 1 \in 1 .. (G + 1) /\ i - 1 \in 0 .. G /\ 1 <= (i - 1) + 1
        BY <1>1, <3>2
      <4>2. t.os = Joined(addr, 1, i - 1)
        BY <1>3 DEF Plain
      <4>3. t.os \in Seq(TextChars)
        BY <4>1, <4>2, JoinedIs DEF IsJoined
      <4>4. t.os \o <<>> = t.os
        BY <4>3, ConcatEmptySeq
      <4>5. Joined(addr, 1, i - 1) \o <<":">> \o <<addr[(i - 1) + 1]>> = Joined(addr, 1, (i - 1) + 1)
        BY <4>1, JoinedMore
      <4>6. QED
        BY <2>2, <3>2, <4>1, <4>2, <4>4, <4>5
    <3>3. QED
      BY <1>1, <3>1, <3>2
  <2>5. QED
    BY <2>2, <2>3, <2>4 DEF Plain
<1>4. CASE InZeros(t, addr, i - 1) /\ addr[i] = "0"
  <2>1. u = t
    BY <1>4 DEF NextTurn, InZeros
  <2>2. PICK z \in 1 .. (i - 1) : Zeros(addr, z, i - 1) /\ t.os = Joined(addr, 1, z - 1)
    BY <1>4 DEF InZeros
  <2>3. Zeros(addr, z, i) /\ z \in 1 .. i
    BY <1>1, <1>4, <2>2 DEF Zeros
  <2>4. InZeros(t, addr, i)
    BY <1>4, <2>2, <2>3 DEF InZeros
  <2>5. QED
    BY <2>1, <2>4
<1>5. CASE InZeros(t, addr, i - 1) /\ addr[i] # "0"
  <2>1. PICK z \in 1 .. (i - 1) : Zeros(addr, z, i - 1) /\ t.os = Joined(addr, 1, z - 1)
    BY <1>5 DEF InZeros
  <2>2. i > 1 /\ addr[i - 1] = "0"
    BY <1>1, <2>1 DEF Zeros
  <2>3. u.used_zeros = TRUE /\ u.os = t.os \o <<":">> \o <<":">> \o <<addr[i]>>
    BY <1>5, <2>2 DEF NextTurn, InZeros
  <2>4. Joined(addr, (i - 1) + 1, i) = <<addr[i]>>
    <3>1. (i - 1) + 1 = i
      BY <1>1
    <3>2. QED
      BY <3>1, JoinedFew
  <2>5. t.os \in Seq(TextChars)
    <3>1. 1 \in 1 .. (G + 1) /\ z - 1 \in 0 .. G /\ 1 <= (z - 1) + 1
      BY <1>1, <2>1
    <3>2. QED
      BY <2>1, <3>1, JoinedIs DEF IsJoined
  <2>6. t.os \o <<":">> \o <<":">> = t.os \o <<":", ":">>
    <3>1. <<":">> \in Seq(TextChars) /\ <<":">> \o <<":">> = <<":", ":">>
      <4>1. ":" \in TextChars
        BY DEF TextChars
      <4>2. <<":">> \in Seq(TextChars)
        BY <4>1
      <4> DEFINE l == <<":">> \o <<":">>
                 two == <<":", ":">>
      <4>a. l \in Seq(TextChars) /\ Len(l) = 2 /\ l[1] = ":" /\ l[2] = ":"
        BY <4>1, <4>2
      <4>b. two \in Seq(TextChars) /\ Len(two) = 2 /\ two[1] = ":" /\ two[2] = ":"
        BY <4>1
      <4> HIDE DEF l, two
      <4>c. l = two
        BY <4>a, <4>b, SeqEqual
      <4>3. <<":">> \o <<":">> = <<":", ":">>
        BY <4>c DEF l, two
      <4>4. QED
        BY <4>2, <4>3
    <3>2. (t.os \o <<":">>) \o <<":">> = t.os \o (<<":">> \o <<":">>)
      BY <2>5, <3>1, ConcatAssociative
    <3>3. QED
      BY <3>1, <3>2
  <2>7. u.os = Gapped(addr, z, i - 1, i)
    BY <2>1, <2>3, <2>4, <2>6 DEF Gapped
  <2>8. z \in 1 .. i /\ i - 1 \in z .. (i - 1)
    BY <1>1, <2>1
  <2>9. QED
    BY <2>1, <2>3, <2>7, <2>8 DEF BehindZeros
<1>6. CASE BehindZeros(t, addr, i - 1)
  <2>0. PICK z \in 1 .. (i - 1) : \E b \in z .. ((i - 1) - 1) :
          Zeros(addr, z, b) /\ t.os = Gapped(addr, z, b, i - 1)
    BY <1>6 DEF BehindZeros
  <2>1. PICK b \in z .. ((i - 1) - 1) : Zeros(addr, z, b) /\ t.os = Gapped(addr, z, b, i - 1)
    BY <2>0
  <2>2. /\ i > 1 /\ z \in 1 .. i /\ b \in z .. (i - 1) /\ z \in 1 .. G /\ b \in z .. G
        /\ i - 1 \in (b + 1) .. (G - 1) /\ (i - 1) + 1 = i
    BY <1>1, <2>1
  <2>3. u.used_zeros = TRUE /\ u.os = t.os \o <<>> \o <<":">> \o <<addr[i]>>
    BY <1>6, <2>2 DEF NextTurn, BehindZeros
  <2>4. t.os \in Seq(TextChars)
    <3>1. /\ 1 \in 1 .. (G + 1) /\ z - 1 \in 0 .. G /\ 1 <= (z - 1) + 1
          /\ b + 1 \in 1 .. (G + 1) /\ i - 1 \in 0 .. G /\ b + 1 <= (i - 1) + 1
      BY <1>1, <2>1
    <3>2. Joined(addr, 1, z - 1) \in Seq(TextChars) /\ Joined(addr, b + 1, i - 1) \in Seq(TextChars)
      BY <3>1, JoinedIs DEF IsJoined
    <3>3. <<":", ":">> \in Seq(TextChars)
      BY DEF TextChars
    <3>4. QED
      BY <2>1, <3>2, <3>3, ThreeParts DEF Gapped
  <2>5. t.os \o <<>> = t.os
    BY <2>4, ConcatEmptySeq
  <2>6. Gapped(addr, z, b, i - 1) \o <<":">> \o <<addr[(i - 1) + 1]>> = Gapped(addr, z, b, (i - 1) + 1)
    BY <2>2, GappedMore
  <2>7. u.os = Gapped(addr, z, b, i)
    BY <2>1, <2>2, <2>3, <2>5, <2>6
  <2>8. QED
    BY <2>1, <2>2, <2>3, <2>7 DEF BehindZeros
<1>7. QED
  BY <1>2, <1>3, <1>4, <1>5, <1>6

\* The text of an IPv6 address of any number of groups reads as the address.
LEMMA TextBack ==
    ASSUME NEW addr \in Addresses6
    PROVE  Reads(insert(addr), addr)
<1> DEFINE G == Groups6
           f == CHOOSE turn : IsTurn(turn, addr, G)
           Three(t, i) == Plain(t, addr, i) \/ InZeros(t, addr, i) \/ BehindZeros(t, addr, i)
<1>1. G \in Nat /\ G >= 1 /\ 1 \in 1 .. G
  BY AddressAssumption
<1>2. IsTurn(f, addr, G)
  <2>1. \E turn : IsTurn(turn, addr, G)
    BY <1>1, TurnExists
  <2>2. QED
    BY <2>1
<1>3. insert(addr) = IF ~f[G].used_zeros /\ addr[G] = "0" THEN f[G].os \o <<":", ":">> ELSE f[G].os
  BY DEF insert, IsTurn, NextTurn, FirstTurn
<1> HIDE DEF f
<1> DEFINE S == {i \in Nat : i <= G => Three(f[i], i)}
<1>4. 0 \in S
  <2>1. f[0] = FirstTurn
    BY <1>1, <1>2 DEF IsTurn
  <2>2. Joined(addr, 1, 0) = <<>>
    BY <1>1, JoinedFew
  <2>3. Plain(f[0], addr, 0)
    BY <2>1, <2>2 DEF Plain, FirstTurn
  <2>4. QED
    BY <2>3
<1>5. ASSUME NEW i \in S PROVE i + 1 \in S
  <2> SUFFICES ASSUME i + 1 <= G PROVE Three(f[i + 1], i + 1)
    OBVIOUS
  <2>1. i \in Nat /\ i + 1 \in 1 .. G /\ (i + 1) - 1 = i /\ i + 1 \in 0 .. G /\ i + 1 # 0
    BY <1>1
  <2>2. Three(f[i], i)
    BY <1>1, <2>1
  <2>3. f[i + 1] = NextTurn(f[i], addr, i + 1)
    BY <1>2, <2>1 DEF IsTurn
  <2>4. QED
    BY <2>1, <2>2, <2>3, TurnStep
<1>6. S \in SUBSET Nat
  OBVIOUS
<1>7. S = Nat
  <2> HIDE DEF S
  <2>1. QED
    BY <1>4, <1>5, <1>6, Induction
<1>8. Three(f[G], G)
  BY <1>1, <1>7
<1>9. CASE Plain(f[G], addr, G)
  <2>1. addr[G] = "1" /\ f[G].used_zeros = FALSE /\ f[G].os = Joined(addr, 1, G)
    BY <1>1, <1>9 DEF Plain
  <2>2. insert(addr) = Joined(addr, 1, G)
    BY <1>3, <2>1
  <2>3. QED
    BY <2>2, JoinedReadsBack
<1>10. CASE InZeros(f[G], addr, G)
  <2>1. PICK z \in 1 .. G : Zeros(addr, z, G) /\ f[G].os = Joined(addr, 1, z - 1)
    BY <1>10 DEF InZeros
  <2>2. f[G].used_zeros = FALSE /\ addr[G] = "0" /\ G \in z .. G
    BY <1>1, <1>10, <2>1 DEF InZeros, Zeros
  <2>3. insert(addr) = Joined(addr, 1, z - 1) \o <<":", ":">>
    BY <1>3, <2>1, <2>2
  <2>4. Joined(addr, G + 1, G) = <<>>
    <3>1. 2 * (G - (G + 1)) + 1 = -1
      BY <1>1
    <3>2. QED
      BY <3>1 DEF Joined
  <2>5. Joined(addr, 1, z - 1) \o <<":", ":">> \in Seq(TextChars)
    <3>1. 1 \in 1 .. (G + 1) /\ z - 1 \in 0 .. G /\ 1 <= (z - 1) + 1
      BY <1>1, <2>1
    <3>2. Joined(addr, 1, z - 1) \in Seq(TextChars)
      BY <3>1, JoinedIs DEF IsJoined
    <3>3. QED
      BY <3>2 DEF TextChars
  <2>6. insert(addr) = Gapped(addr, z, G, G)
    BY <2>3, <2>4, <2>5, ConcatEmptySeq DEF Gapped
  <2>7. QED
    BY <2>1, <2>2, <2>6, GappedReadsBack
<1>11. CASE BehindZeros(f[G], addr, G)
  <2>0. PICK z \in 1 .. G : \E b \in z .. (G - 1) : Zeros(addr, z, b) /\ f[G].os = Gapped(addr, z, b, G)
    BY <1>11 DEF BehindZeros
  <2>1. PICK b \in z .. (G - 1) : Zeros(addr, z, b) /\ f[G].os = Gapped(addr, z, b, G)
    BY <2>0
  <2>2. f[G].used_zeros = TRUE /\ b \in z .. G
    BY <1>1, <1>11, <2>1 DEF BehindZeros
  <2>3. insert(addr) = Gapped(addr, z, b, G)
    BY <1>3, <2>1, <2>2
  <2>4. QED
    BY <2>1, <2>2, <2>3, GappedReadsBack
<1>12. QED
  BY <1>8, <1>9, <1>10, <1>11

-----------------------------------------------------------------------------
(* Addresses: every question asked.                                        *)

\* The questions that can be put.
Asked ==
    \/ probe = NoProbe
    \/ \E a \in SUBSET (1 .. Bits4), p \in 0 .. Bits4 : \E mask \in Masks4(p) :
          probe = [about |-> "v4", addr |-> a, prefix_len |-> p, mask |-> mask]
    \/ \E a \in SUBSET (1 .. Bits6), p \in 0 .. (Bits6 - 1) :
          probe = [about |-> "v6", addr |-> a, prefix_len |-> p]
    \/ \E a \in [1 .. Groups6 -> {"0", "1"}] : probe = [about |-> "text", addr |-> a]
    \/ \E h \in Hosts : probe = [about |-> "host", host |-> h]
    \/ \E x, y \in Memory : probe = [about |-> "order", x |-> x, y |-> y]

\* Every question is answered as it should be.
LEMMA AnswersAgree == ASSUME Asked PROVE AddressesAgree
<1>0. CASE probe = NoProbe
  BY <1>0 DEF NoProbe, AddressesAgree, MasksAgree, TextReadsBack, LookupSplits, OrderTotal
<1>1. ASSUME NEW a \in SUBSET (1 .. Bits4), NEW p \in 0 .. Bits4, NEW mask \in Masks4(p),
             probe = [about |-> "v4", addr |-> a, prefix_len |-> p, mask |-> mask]
      PROVE  AddressesAgree
  <2>1. /\ probe.about = "v4" /\ probe.addr = a /\ probe.prefix_len = p /\ probe.mask = mask
    BY <1>1
  <2>2. ASSUME p > 0
        PROVE  /\ PrefixOf4(subnetMask4(mask)) = p
               /\ broadCastAddress4(a, mask) = (a \intersect (1 .. p)) \union ((p + 1) .. Bits4)
    <3>1. p \in 1 .. Bits4
      BY <2>2, AddressAssumption
    <3>2. QED
      BY <3>1, Masks4Agree
  <2>3. MasksAgree
    BY <2>1, <2>2 DEF MasksAgree
  <2>4. QED
    BY <2>1, <2>3 DEF AddressesAgree, TextReadsBack, LookupSplits, OrderTotal
<1>2. ASSUME NEW a \in SUBSET (1 .. Bits6), NEW p \in 0 .. (Bits6 - 1),
             probe = [about |-> "v6", addr |-> a, prefix_len |-> p]
      PROVE  AddressesAgree
  <2>1. probe.about = "v6" /\ probe.addr = a /\ probe.prefix_len = p
    BY <1>2
  <2>2. /\ PrefixOf6(subnetMask6(p)) = p
        /\ \A b \in Before(p) : b \in networkAddress6(a, p) <=> b \in broadCastAddress6(a, p)
    BY Masks6Agree
  <2>3. MasksAgree
    BY <2>1, <2>2 DEF MasksAgree
  <2>4. QED
    BY <2>1, <2>3 DEF AddressesAgree, TextReadsBack, LookupSplits, OrderTotal
<1>3. ASSUME NEW a \in [1 .. Groups6 -> {"0", "1"}], probe = [about |-> "text", addr |-> a]
      PROVE  AddressesAgree
  <2>1. probe.about = "text" /\ probe.addr = a
    BY <1>3
  <2>2. Reads(insert(a), a)
    BY TextBack DEF Addresses6
  <2>3. QED
    BY <2>1, <2>2 DEF AddressesAgree, MasksAgree, TextReadsBack, LookupSplits, OrderTotal
<1>4. ASSUME NEW h \in Hosts, probe = [about |-> "host", host |-> h] PROVE AddressesAgree
  <2>1. probe.about = "host" /\ probe.host = h
    BY <1>4
  <2>2. h \in Seq({"[", "]", ":", "x"})
    BY AddressAssumption DEF Hosts
  <2>3. LookupSplits
    BY <2>1, <2>2, HostSplits DEF LookupSplits
  <2>4. QED
    BY <2>1, <2>3 DEF AddressesAgree, MasksAgree, TextReadsBack, OrderTotal
<1>5. ASSUME NEW x \in Memory, NEW y \in Memory, probe = [about |-> "order", x |-> x, y |-> y]
      PROVE  AddressesAgree
  <2>1. probe.about = "order" /\ probe.x = x /\ probe.y = y
    BY <1>5
  <2>2. x \in Seq(Nat) /\ y \in Seq(Nat)
    <3>1. ASSUME NEW z \in Memory PROVE z \in Seq(Nat)
      <4>1. PICK n \in 0 .. 3 : z \in [1 .. n -> {0, 1}]
        BY DEF Memory
      <4>2. n \in Nat /\ z \in [1 .. n -> Nat]
        BY <4>1
      <4>3. QED
        BY <4>2
    <3>2. QED
      BY <3>1
  <2>3. OrderTotal
    BY <2>1, <2>2, OneOrder DEF OrderTotal
  <2>4. QED
    BY <2>1, <2>3 DEF AddressesAgree, MasksAgree, TextReadsBack, LookupSplits
<1>6. QED
  BY <1>0, <1>1, <1>2, <1>3, <1>4, <1>5 DEF Asked

\* Only Ask puts a question.
LEMMA NextAsked == Asked /\ [Next]_vars => Asked'
<1> SUFFICES ASSUME Asked, [Next]_vars PROVE Asked'
  OBVIOUS
<1>1. CASE probe' = probe
  BY <1>1 DEF Asked
<1>2. CASE Ask
  BY <1>2 DEF Ask, Asked
<1>3. CASE UNCHANGED vars
  BY <1>1, <1>3 DEF vars
<1>4. CASE start \/ stop \/ Release \/ Destructor \/ StopCallback
  BY <1>1, <1>4 DEF start, stop, Release, Destructor, StopCallback
<1>5. ASSUME NEW f \in Addrs \X Calls, startAccept(f) \/ AcceptReady(f) PROVE Asked'
  BY <1>1, <1>5 DEF startAccept, AcceptReady
<1>6. ASSUME NEW addrs \in AddressLists, NEW refused \in SUBSET Addrs, NEW fresh \in BOOLEAN,
             TcpBind(addrs, refused, fresh)
      PROVE  Asked'
  BY <1>1, <1>6 DEF TcpBind
<1>7. ASSUME NEW c \in Conns,
             \/ handleClient(c)
             \/ \E k \in 0 .. Len(conn[c].up), keeps \in BOOLEAN : ClientClose(c, k, keeps)
             \/ \E d \in Conns, a \in Addrs, result \in ConnectResults \intersect Fates[c] :
                   ClientConnect(c, d, a, result)
             \/ \E n \in BodySizes : ClientSend(c, n)
      PROVE  Asked'
  BY <1>1, <1>7 DEF handleClient, ClientClose, ClientConnect, ClientSend, ClientOnly
<1>8. QED
  BY <1>2, <1>3, <1>4, <1>5, <1>6, <1>7, Zenon DEF Next

\* Masks and prefixes give each other back, IPv6 text reads back, hosts are
\* split where they should be and the order is total, for addresses of any
\* width, the 32, 16 * 8 and 8 of the code too (address.cc:24-39, 65-133,
\* 242-258, 325-347, 394-463).
THEOREM AddressesAgreeAlways == Spec => []AddressesAgree
<1>1. Init => Asked
  BY DEF Init, Asked
<1>2. Asked => AddressesAgree
  BY AnswersAgree
<1>3. QED
  BY <1>1, <1>2, NextAsked, PTL DEF Spec
=============================================================================
