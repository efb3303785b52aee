------------------------------- MODULE Socket -------------------------------
(***************************************************************************)
(* Socket (src/code/socket.{h,cc}): objects that own a descriptor.  Calls  *)
(* are functions on the record net of descriptors and objects, so that an  *)
(* action can make several of them.  Threads have hooks: socket and accept *)
(* register an FdCtx for every descriptor.  The kernel is external.        *)
(***************************************************************************)
EXTENDS Integers, FiniteSets

CONSTANTS Fds,          \* numbers that the kernel gives out, the lowest first
          Objects       \* Socket objects, each a pair that says what it is for

VARIABLE net            \* file: descriptor -> open file; sock: the objects

Free == [by |-> <<>>, st |-> "free", conn |-> 0]
\* closing: between ::close and m_sock = -1; closed: close() was called before.
Gone == [alive |-> FALSE, m_sock |-> -1, m_isConnected |-> FALSE, m_remoteAddr |-> 0,
         closing |-> FALSE, closed |-> FALSE]
SocketInit == net = [file |-> [fd \in Fds |-> Free], sock |-> [o \in Objects |-> Gone]]

\* The constructor: CreateTCP and the other Create functions.
Create(n, o) == [n EXCEPT !.sock[o] = [Gone EXCEPT !.alive = TRUE]]
isValid(n, o) == n.sock[o].m_sock # -1

FreeFds(n) == {fd \in Fds : n.file[fd].st = "free"}
NewFd(n) == CHOOSE fd \in FreeFds(n) : \A g \in FreeFds(n) : fd <= g

\* newSock: -1 when there is no descriptor left.
newSock(n, o) ==
    IF FreeFds(n) = {} THEN n
    ELSE [n EXCEPT !.file[NewFd(n)] = [by |-> o, st |-> "new", conn |-> 0],
                   !.sock[o].m_sock = NewFd(n)]
Opened(n, o) == IF isValid(n, o) THEN n ELSE newSock(n, o)

\* close, in its two steps: behind the first the kernel may give the number to
\* another while the object still has it.
closeFile(n, o) ==
    LET s == n.sock[o]
    IN IF s.m_sock = -1 THEN [n EXCEPT !.sock[o].m_isConnected = FALSE, !.sock[o].closed = TRUE]
       ELSE [n EXCEPT !.sock[o] = [s EXCEPT !.m_isConnected = FALSE, !.closing = TRUE, !.closed = TRUE],
                      !.file[s.m_sock] = Free]
keepsNumber(n, o) == [n EXCEPT !.sock[o].closing = FALSE]
forgetNumber(n, o) == [n EXCEPT !.sock[o] = [@ EXCEPT !.m_sock = -1, !.closing = FALSE]]
\* Both at once, for an object that no other fiber reads, and the destructor.
close(n, o) == forgetNumber(closeFile(n, o), o)
Destroy(n, o) == [close(n, o) EXCEPT !.sock[o].alive = FALSE]

\* bind and listen; ok is what the kernel says of the address, or FALSE for one
\* of another family.
bind(n, o, ok) ==
    LET m == Opened(n, o)
    IN IF isValid(m, o) /\ ok
       THEN [net |-> [m EXCEPT !.file[m.sock[o].m_sock].st = "bound"], ok |-> TRUE]
       ELSE [net |-> m, ok |-> FALSE]
listen(n, o) ==
    IF isValid(n, o) THEN [net |-> [n EXCEPT !.file[n.sock[o].m_sock].st = "listen"], ok |-> TRUE]
    ELSE [net |-> n, ok |-> FALSE]

\* getRemoteAddress: asked for once and kept, over a close too; nothing is kept
\* when getpeername fails, because the peer has reset the connection.
getRemoteAddress(n, o, known) ==
    IF n.sock[o].m_remoteAddr # 0 \/ ~known THEN n
    ELSE [n EXCEPT !.sock[o].m_remoteAddr = n.file[n.sock[o].m_sock].conn]

\* connect: "refused" by the kernel the socket is closed, with an address of
\* another "family" it is not.
ConnectResults == {"connected", "unknown", "refused", "family"}
connect(n, o, conn, result) ==
    LET m == Opened(n, o)
        fd == m.sock[o].m_sock
    IN CASE ~isValid(m, o) \/ result = "family" -> [net |-> m, ok |-> FALSE]
         [] isValid(m, o) /\ result = "refused" -> [net |-> close(m, o), ok |-> FALSE]
         [] OTHER ->
              [net |-> getRemoteAddress([m EXCEPT !.file[fd].st = "conn", !.file[fd].conn = conn,
                                                  !.sock[o].m_isConnected = TRUE], o, result = "connected"),
               ok |-> TRUE]

\* accept of a connection that is there: a new object, and init, which finds
\* the FdCtx that the hooked accept registered.  When that is one that an
\* earlier file left behind, the object goes and the descriptor is lost.
init(n, o, fd, known) ==
    getRemoteAddress([n EXCEPT !.sock[o].m_sock = fd, !.sock[o].m_isConnected = TRUE], o, known)
AcceptResults == {"connected", "unknown", "context"}
accept(n, o, conn, result) ==
    LET fd == NewFd(n)
        st == IF result = "context" THEN "lost" ELSE "conn"
        m == [n EXCEPT !.file[fd] = [by |-> o, st |-> st, conn |-> conn]]
    IN IF result = "context" THEN m ELSE init(Create(m, o), o, fd, result = "connected")

(***************************************************************************)
(* FdOwned: outside of its close() an object has the number of no file but *)
(* one that it opened itself: none keeps, uses or closes again a number    *)
(* that was closed and may be another's.  Every open file is that of an    *)
(* object that lives and has its number, but for those that init() lost.   *)
(* A connected object that was not closed before knows its own peer, or    *)
(* none; one that connects again may know the peer it had.                 *)
(* (socket.cc:28-30, 113-124, 213-223, 313-344)                            *)
(***************************************************************************)
FdOwned ==
    /\ \A o \in Objects : net.sock[o].m_sock # -1 /\ ~net.sock[o].closing =>
         net.file[net.sock[o].m_sock].by = o
    /\ \A fd \in Fds : net.file[fd].st \notin {"free", "lost"} =>
         LET s == net.sock[net.file[fd].by] IN s.alive /\ s.m_sock = fd /\ ~s.closing
    /\ \A o \in Objects : net.sock[o].m_isConnected /\ ~net.sock[o].closed =>
         net.sock[o].m_remoteAddr \in {0, net.file[net.sock[o].m_sock].conn}
=============================================================================
