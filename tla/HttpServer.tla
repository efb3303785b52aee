----------------------------- MODULE HttpServer -----------------------------
(***************************************************************************)
(* TCPServer (src/code/tcp_server.cc), HttpServer, HttpSession and the     *)
(* streams under them (src/http/http_server.cc, http_session.cc,           *)
(* src/code/stream.cc, socket_stream.cc): bind, start, stop, the accept    *)
(* loops, and a fiber for each client that reads requests and answers.     *)
(*                                                                         *)
(* What a client sends is a sequence of pieces: a request is the two       *)
(* halves of its head, "h1" and "h2", and a "b" for each piece of its      *)
(* body.  A read takes any number of pieces that are there.  A head that   *)
(* comes in two reads is what HttpParser says of it: refused, right, or    *)
(* without its content-length.                                             *)
(***************************************************************************)
EXTENDS Socket, Address, Functions

CONSTANTS Servers,      \* which server, and how many threads m_acceptWork has
          Addrs,        \* the listening sockets that bind makes, each for an address
          Conns,        \* bound: connections that clients make, 1, 2, ...
          Fates,        \* bound, for each connection: how connect and accept may end
          MaxStarts,    \* bound: calls of start that start something
          BodySizes,    \* pieces that the bodies of requests have
          MaxCalls,     \* bound: calls of the server's user and the clients
          MaxTimeouts,  \* bound: receive timeouts within a body
          BufferSize    \* buff_size, in pieces

VARIABLES m_isStop, m_socks, starts,
          lambdas,          \* callbacks that stop() scheduled
          stopping,         \* the one that runs: the sockets to close, and the one it closes
          owner,            \* the user's pointer to the server: "held", "released", or "gone"
                            \* with the server
          fails,            \* whether there is an address in the vector of bind's caller
          handling,         \* which server: "tcp", "close" or "keepalive"
          acceptThreads,    \* threads of m_acceptWork
          fiber,            \* accept fibers: address, call of start -> [pc, fd]
          handler,          \* client fibers
          conn,             \* kernel: the connections
          timeouts,
          died,             \* why the process ended
          calls             \* of the server's user and the clients

stopVars == <<lambdas, stopping>>
serverVars == <<m_isStop, m_socks, starts, stopVars, owner, fails, handling, acceptThreads>>
vars == <<net, probe, serverVars, fiber, handler, conn, timeouts, died, calls>>

Listener(a) == <<"listen", a>>
ServerEnd(c) == <<"server", c>>
ClientEnd(c) == <<"client", c>>
AllObjects == {Listener(a) : a \in Addrs} \union {ServerEnd(c) : c \in Conns}
                \union {ClientEnd(c) : c \in Conns}
Calls == 1 .. MaxStarts

ASSUME ServerAssumption ==
    /\ Fds \subseteq Nat /\ Addrs \subseteq Nat \ {0} /\ Conns \subseteq Nat \ {0}
    /\ BodySizes \subseteq Nat /\ MaxStarts \in Nat
    /\ AllObjects \subseteq Objects

NoConn == [st |-> "none", at |-> 0, user |-> 0, up |-> <<>>, upEnd |-> FALSE, down |-> 0,
           downEnd |-> FALSE, sent |-> <<>>, pipelined |-> FALSE]
NotStopping == [on |-> FALSE, left |-> {}, at |-> 0]
NoHandler == [pc |-> "none", half |-> FALSE, left |-> 0, body |-> <<>>, answers |-> 0,
              cut |-> FALSE, late |-> FALSE]
NewHandler == [NoHandler EXCEPT !.pc = "head"]

Init ==
    /\ SocketInit /\ probe = NoProbe
    /\ m_isStop = TRUE /\ m_socks = {} /\ starts = 0 /\ lambdas = 0 /\ stopping = NotStopping
    /\ owner = "held" /\ fails = FALSE
    /\ \E s \in Servers : handling = s[1] /\ acceptThreads = s[2]
    /\ fiber = [f \in Addrs \X Calls |-> [pc |-> "none", fd |-> -1]]
    /\ handler = [c \in Conns |-> NoHandler]
    /\ conn = [c \in Conns |-> NoConn]
    /\ timeouts = 0 /\ died = "no" /\ calls = 0

\* The accept and client fibers hold a pointer to the server too.
AcceptsEnded == \A f \in Addrs \X Calls : fiber[f].pc \in {"none", "end"}
Unowned == owner = "released" /\ AcceptsEnded /\ \A c \in Conns : handler[c].pc \in {"none", "end"}

Runs == died = "no" /\ probe = NoProbe /\ ~Unowned
Call == Runs /\ calls < MaxCalls /\ calls' = calls + 1
UserCall == Call /\ owner = "held"
Die(why) == died' = why

(***************************************************************************)
(* TCPServer: bind, start, stop.                                           *)
(***************************************************************************)
\* bind and listen of one address of a list.
bindOne(s, a, ok) ==
    LET o == Listener(a)
        b == bind(Create(s.net, o), o, ok)
        l == listen(b.net, o)
    IN IF b.ok /\ l.ok THEN [s EXCEPT !.net = l.net, !.socks = @ \union {a}]
       ELSE [s EXCEPT !.net = Destroy(b.net, o), !.fails = TRUE]
\* bind of a list of addresses, of which the kernel refuses some.
bindAll(n, addrs, refused, failed) ==
    LET step[i \in 0 .. Len(addrs)] ==
          IF i = 0 THEN [net |-> n, socks |-> {}, fails |-> failed]
          ELSE bindOne(step[i - 1], addrs[i], addrs[i] \notin refused)
    IN step[Len(addrs)]
\* The listening sockets of addrs go, one after the other: each has its own descriptor.
DestroyAll(n, addrs) ==
    [file |-> [fd \in Fds |->
                  IF \E a \in addrs : n.sock[Listener(a)].m_sock = fd THEN Free ELSE n.file[fd]],
     sock |-> [o \in Objects |->
                  IF \E a \in addrs : o = Listener(a) THEN Destroy(n, o).sock[o] ELSE n.sock[o]]]
AddressLists == UNION {Injection(1 .. n, Addrs) : n \in 1 .. Cardinality(Addrs)}

\* The sockets that no accept fiber holds.
Unheld(addrs) == {a \in addrs : \A k \in Calls : fiber[<<a, k>>].pc \in {"none", "end"}}
\* Connections that nobody accepted are reset with their listening socket.
Reset(addrs) ==
    [c \in Conns |-> IF conn[c].st = "backlog" /\ conn[c].at \in addrs
                     THEN [conn[c] EXCEPT !.st = "reset", !.downEnd = TRUE] ELSE conn[c]]

\* Sockets that are not there yet, the least first: nothing tells them apart.
IsNew(addrs) ==
    LET dead == {a \in Addrs : ~net.sock[Listener(a)].alive}
    IN \A i \in DOMAIN addrs :
         /\ addrs[i] \in dead
         /\ \A a \in dead : a < addrs[i] => \E j \in 1 .. (i - 1) : addrs[j] = a

\* bind, also of a server that runs.  The vector of failures is the caller's and
\* is not cleared: while there is one in it, an old one too, the sockets of all
\* calls are dropped.  A callback of stop() that goes through m_socks meanwhile
\* is a race.
TcpBind(addrs, refused, fresh) ==
    LET b == bindAll(net, addrs, refused, ~fresh /\ fails)
        dropped == IF b.fails THEN Unheld(m_socks) \union b.socks ELSE {}
    IN /\ UserCall /\ IsNew(addrs)
       /\ IF stopping.on THEN Die("race") /\ UNCHANGED <<m_socks, fails, net, conn>>
          ELSE /\ m_socks' = IF b.fails THEN {} ELSE m_socks \union b.socks
               /\ fails' = IF fresh THEN fails ELSE b.fails
               /\ net' = DestroyAll(b.net, dropped) /\ conn' = Reset(dropped)
               /\ UNCHANGED died
       /\ UNCHANGED <<probe, m_isStop, starts, stopVars, owner, handling, acceptThreads, fiber, handler,
                      timeouts>>

start ==
    /\ UserCall /\ (m_isStop => starts < MaxStarts)
    /\ \/ ~m_isStop /\ UNCHANGED <<m_isStop, starts, fiber, died>>
       \/ /\ m_isStop /\ m_isStop' = FALSE /\ starts' = starts + 1
          /\ fiber' = [f \in Addrs \X Calls |->
                IF f[1] \in m_socks /\ f[2] = starts + 1 THEN [pc |-> "loop", fd |-> -1] ELSE fiber[f]]
          /\ UNCHANGED died
       \/ m_isStop /\ stopping.on /\ Die("race") /\ UNCHANGED <<m_isStop, starts, fiber>>
    /\ UNCHANGED <<net, probe, m_socks, stopVars, owner, fails, handling, acceptThreads, handler, conn,
                   timeouts>>

stop ==
    /\ UserCall /\ m_isStop' = TRUE /\ lambdas' = lambdas + 1
    /\ UNCHANGED <<net, probe, m_socks, starts, stopping, owner, fails, handling, acceptThreads, fiber,
                   handler, conn, timeouts, died>>

\* The user lets the server go.
Release ==
    /\ UserCall /\ owner' = "released"
    /\ UNCHANGED <<net, probe, m_isStop, m_socks, starts, stopVars, fails, handling, acceptThreads, fiber,
                   handler, conn, timeouts, died>>

\* ~TCPServer, at once when the last pointer goes.
Destructor ==
    /\ died = "no" /\ Unowned /\ owner' = "gone"
    /\ IF stopping.on THEN Die("race") /\ UNCHANGED <<m_socks, net, conn>>
       ELSE /\ net' = DestroyAll(net, m_socks) /\ conn' = Reset(m_socks) /\ m_socks' = {}
            /\ UNCHANGED died
    /\ UNCHANGED <<probe, m_isStop, starts, stopVars, fails, handling, acceptThreads, fiber, handler,
                   timeouts, calls>>

(***************************************************************************)
(* What stop() scheduled: for each socket cancelAll and close, then clear. *)
(* It has the bare address of the server, and no lock on m_socks.          *)
(***************************************************************************)
Cancelled(fds) ==
    [f \in Addrs \X Calls |->
        IF fiber[f].pc = "wait" /\ fiber[f].fd \in fds THEN [fiber[f] EXCEPT !.pc = "woken"] ELSE fiber[f]]

StopBegins ==
    /\ lambdas > 0 /\ lambdas' = lambdas - 1 /\ (stopping.on => acceptThreads > 1)
    /\ IF owner = "gone" \/ stopping.on
       THEN Die(IF owner = "gone" THEN "destroyed" ELSE "race") /\ UNCHANGED stopping
       ELSE stopping' = [on |-> TRUE, left |-> m_socks, at |-> 0] /\ UNCHANGED died
    /\ UNCHANGED <<net, m_socks, fiber, conn>>
keepsWaiting(a) ==
    /\ stopping.on /\ stopping.at = 0 /\ a \in stopping.left
    /\ stopping' = [stopping EXCEPT !.left = @ \ {a}, !.at = a]
    /\ net' = closeFile(net, Listener(a)) /\ conn' = Reset({a})
    /\ UNCHANGED <<m_socks, lambdas, died, fiber>>
StopCloses(a) ==
    /\ stopping.on /\ stopping.at = 0 /\ a \in stopping.left
    /\ stopping' = [stopping EXCEPT !.left = @ \ {a}, !.at = a]
    /\ fiber' = Cancelled({net.sock[Listener(a)].m_sock})
    /\ net' = closeFile(net, Listener(a)) /\ conn' = Reset({a})
    /\ UNCHANGED <<m_socks, lambdas, died>>
StopForgets ==
    /\ stopping.on /\ stopping.at # 0 /\ stopping' = [stopping EXCEPT !.at = 0]
    /\ net' = forgetNumber(net, Listener(stopping.at))
    /\ UNCHANGED <<m_socks, lambdas, fiber, conn, died>>
\* A listening Socket lives on while an accept fiber holds it.
StopClears ==
    /\ stopping.on /\ stopping.at = 0 /\ stopping.left = {} /\ stopping' = NotStopping
    /\ net' = DestroyAll(net, Unheld(m_socks)) /\ m_socks' = {}
    /\ UNCHANGED <<lambdas, fiber, conn, died>>
StopCallback ==
    /\ Runs
    /\ StopBegins \/ (\E a \in Addrs : StopCloses(a)) \/ StopForgets \/ StopClears
    /\ UNCHANGED <<probe, m_isStop, starts, owner, fails, handling, acceptThreads, handler, timeouts, calls>>

(***************************************************************************)
(* startAccept.                                                            *)
(***************************************************************************)
Goto(f, pc, fd) == fiber' = [fiber EXCEPT ![f] = [pc |-> pc, fd |-> fd]]

\* The fiber ends, and with the last one the Socket, if m_socks has it no more.
Ends(f) ==
    LET last == {a \in {f[1]} \ m_socks : \A k \in Calls \ {f[2]} : fiber[<<a, k>>].pc \in {"none", "end"}}
    IN /\ Goto(f, "end", -1)
       /\ net' = DestroyAll(net, last) /\ conn' = Reset(last)
       /\ UNCHANGED <<handler, died>>

\* addEvent and YieldToHold; two fibers may not wait for one descriptor.
Registers(f, fd) ==
    /\ IF \E g \in Addrs \X Calls : g # f /\ fiber[g].pc = "wait" /\ fiber[g].fd = fd
       THEN Die("assertion") /\ UNCHANGED fiber
       ELSE Goto(f, "wait", fd) /\ UNCHANGED died
    /\ UNCHANGED <<net, handler, conn>>

Backlog(a) == {c \in Conns : conn[c].st = "backlog" /\ conn[c].at = a}

\* accept on the number fd, which may have been closed, or given to another.
Accepts(f, fd) ==
    IF fd = -1 \/ net.file[IF fd = -1 THEN 1 ELSE fd].st # "listen"
    THEN Goto(f, "loop", -1) /\ UNCHANGED <<net, handler, conn, died>>         \* EBADF, EINVAL
    ELSE LET waiting == Backlog(net.file[fd].by[2])
         IN IF waiting = {}
            THEN IF acceptThreads = 1 THEN Registers(f, fd)
                 ELSE Goto(f, "arm", fd) /\ UNCHANGED <<net, handler, conn, died>>
            ELSE IF FreeFds(net) = {}                                         \* EMFILE
            THEN Goto(f, "loop", -1) /\ UNCHANGED <<net, handler, conn, died>>
            ELSE \E c \in waiting : \E result \in AcceptResults \intersect Fates[c] :
                   /\ net' = accept(net, ServerEnd(c), c, result)
                   /\ handler' = IF result = "context" THEN handler ELSE [handler EXCEPT ![c] = NewHandler]
                   /\ conn' = [conn EXCEPT ![c].st = "open"]
                   /\ Goto(f, "loop", -1) /\ UNCHANGED died

startAccept(f) ==
    /\ Runs /\ fiber[f].pc \in {"loop", "arm", "woken"} /\ (stopping.on => acceptThreads > 1)
    /\ CASE fiber[f].pc = "loop" -> IF m_isStop THEN Ends(f) ELSE Accepts(f, net.sock[Listener(f[1])].m_sock)
         [] fiber[f].pc = "woken" -> Accepts(f, fiber[f].fd)
         [] fiber[f].pc = "arm" ->
              IF net.file[fiber[f].fd].st = "free"
              THEN Goto(f, "loop", -1) /\ UNCHANGED <<net, handler, conn, died>>
              ELSE Registers(f, fiber[f].fd)
    /\ UNCHANGED <<probe, serverVars, timeouts, calls>>

AcceptReady(f) ==
    /\ Runs /\ fiber[f].pc = "wait"
    /\ net.file[fiber[f].fd].st = "listen" /\ Backlog(net.file[fiber[f].fd].by[2]) # {}
    /\ Goto(f, "woken", fiber[f].fd)
    /\ UNCHANGED <<net, probe, serverVars, handler, conn, timeouts, died, calls>>

(***************************************************************************)
(* handleClient.                                                           *)
(***************************************************************************)
\* session->close(), then the session goes and closes, then the Socket.
Hangup(c, k) ==
    /\ handler' = [handler EXCEPT ![c].pc = "end"]
    /\ net' = Destroy(close(close(net, ServerEnd(c)), ServerEnd(c)), ServerEnd(c))
    /\ conn' = [conn EXCEPT ![c] = [k EXCEPT !.downEnd = TRUE]]
    /\ UNCHANGED <<timeouts, died>>

\* What execute() makes of pieces: an error, more to read, or a head that ends
\* with piece at and has a body of length pieces.  Without the first half, or
\* with a body's pieces in a head, anything may be taken for a head.
Parses(c, half, pieces) ==
    LET n == Len(pieces)
        Length(i) == conn[c].sent[pieces[i].req]
        Result(what, at, length) == [what |-> what, at |-> at, length |-> length]
    IN IF ~half /\ pieces[1].k = "h1"
       THEN IF n = 1 THEN {Result("more", 1, 0)}
            ELSE IF pieces[2].k = "h2" THEN {Result("head", 2, Length(2))}
            ELSE {Result("error", 0, 0)}
       ELSE IF half /\ pieces[1].k = "h2"
       THEN {Result("error", 0, 0), Result("head", 1, Length(1)), Result("head", 1, 0)}
       ELSE {Result("error", 0, 0), Result("more", n, 0)}

\* The head is complete, rest is left in the buffer: the body takes what it
\* needs of it, and what is more than a body is lost with the buffer.
dropsNothing(c, r, rest) ==
    [handler[c] EXCEPT !.half = FALSE, !.body = rest, !.left = r.length,
                       !.pc = IF r.length > 0 THEN "body" ELSE "send"]
Finished(c, r, rest) ==
    LET offset == Len(rest)
        taken == IF r.length >= offset THEN offset ELSE r.length
    IN [handler[c] EXCEPT !.half = FALSE, !.body = SubSeq(rest, 1, taken),
                          !.left = IF r.length > offset THEN r.length - offset ELSE 0,
                          !.pc = IF r.length > offset THEN "body" ELSE "send",
                          !.cut = @ \/ handler[c].half]

\* One read of recvRequest's loop: data, or the end of the stream, a timeout
\* before the data came or another error, for which it returns nullptr.
recvRequest(c) ==
    \/ \E k \in 1 .. Len(conn[c].up) :
         LET after == [conn[c] EXCEPT !.up = SubSeq(@, k + 1, Len(@))]
         IN /\ k <= BufferSize
            /\ \E r \in Parses(c, handler[c].half, SubSeq(conn[c].up, 1, k)) :
                 \/ r.what = "error" /\ Hangup(c, after)
                 \/ /\ r.what = "more"
                    /\ handler' = [handler EXCEPT ![c].half = TRUE]
                    /\ conn' = [conn EXCEPT ![c] = after] /\ UNCHANGED <<net, timeouts, died>>
                 \/ /\ r.what = "head"
                    /\ handler' = [handler EXCEPT ![c] = Finished(c, r, SubSeq(conn[c].up, r.at + 1, k))]
                    /\ conn' = [conn EXCEPT ![c] = after] /\ UNCHANGED <<net, timeouts, died>>
    \/ (conn[c].up = <<>> \/ ~conn[c].upEnd) /\ Hangup(c, conn[c])

\* readFixSize: the bytes go behind the end of the string.  len is a size_t:
\* an error is not seen, and one more byte is asked for.
readFixSize(c) ==
    \/ /\ conn[c].up # <<>>
       /\ \E k \in 1 .. Len(conn[c].up) :
            /\ k <= handler[c].left
            /\ conn' = [conn EXCEPT ![c].up = SubSeq(@, k + 1, Len(@))]
            /\ handler' = [handler EXCEPT ![c].left = @ - k,
                                          ![c].pc = IF k = handler[c].left THEN "send" ELSE "body"]
       /\ UNCHANGED <<net, timeouts, died>>
    \/ conn[c].up = <<>> /\ conn[c].upEnd /\ Hangup(c, conn[c])
    \/ /\ ~conn[c].upEnd /\ timeouts < MaxTimeouts
       /\ timeouts' = timeouts + 1
       /\ handler' = [handler EXCEPT ![c].left = @ + 1, ![c].late = TRUE]
       /\ UNCHANGED <<net, conn, died>>

\* sendResponse; a peer that has gone may have reset the connection.  len is a
\* size_t in writeFixSize too: the error of the first write is not seen, and the
\* next one, which begins in front of the buffer, is a SIGPIPE that nobody ignores.
sendResponse(c) ==
    \/ /\ handling = "keepalive"
       /\ conn' = [conn EXCEPT ![c].down = @ + 1]
       /\ handler' = [handler EXCEPT ![c].answers = @ + 1, ![c].pc = "head"]
       /\ UNCHANGED <<net, timeouts, died>>
    \/ handling = "close" /\ Hangup(c, [conn[c] EXCEPT !.down = @ + 1])
    \/ /\ conn[c].upEnd /\ handler' = [handler EXCEPT ![c].pc = "sendAgain"]
       /\ UNCHANGED <<net, conn, timeouts, died>>
    \/ conn[c].upEnd /\ Die("SIGPIPE") /\ UNCHANGED <<net, handler, conn, timeouts>>

handleClient(c) ==
    /\ Runs /\ handler[c].pc \notin {"none", "end"}
    /\ \/ handling = "tcp" /\ Hangup(c, conn[c])                   \* TCPServer's own only logs
       \/ handling # "tcp" /\ handler[c].pc = "head" /\ recvRequest(c)
       \/ handler[c].pc = "body" /\ readFixSize(c)
       \/ handler[c].pc = "send" /\ sendResponse(c)
       \/ handler[c].pc = "sendAgain" /\ Die("SIGPIPE") /\ UNCHANGED <<net, handler, conn, timeouts>>
    /\ UNCHANGED <<probe, serverVars, fiber, calls>>

(***************************************************************************)
(* Clients, which use Socket too.                                          *)
(***************************************************************************)
ClientOnly == UNCHANGED <<probe, serverVars, fiber, handler, timeouts, died>>

\* connect of a new object, or of one that has no connection; the client keeps
\* the object when it fails.
ClientConnect(c, d, a, result) ==
    LET o == ClientEnd(d)
        there == \E fd \in Fds : net.file[fd].st = "listen" /\ net.file[fd].by = Listener(a)
        r == connect(IF net.sock[o].alive THEN net ELSE Create(net, o), o, c, result)
    IN /\ Call /\ conn[c].st = "none" /\ (\A e \in Conns : e < c => conn[e].st # "none")
       /\ d = c \/ (net.sock[o].alive /\ ~net.sock[o].m_isConnected)
       /\ result \in {"connected", "unknown"} => there
       /\ net' = r.net
       /\ conn' = [conn EXCEPT ![c].st = IF r.ok THEN "backlog" ELSE "failed", ![c].at = a, ![c].user = d]
       /\ ClientOnly

Pieces(i, n) ==
    <<[k |-> "h1", req |-> i], [k |-> "h2", req |-> i]>> \o [j \in 1 .. n |-> [k |-> "b", req |-> i]]
Connected(c) == conn[c].st \notin {"none", "failed"} /\ ~conn[c].upEnd
ClientSend(c, n) ==
    /\ Call /\ Connected(c)
    /\ conn' = [conn EXCEPT ![c].sent = Append(@, n),
                            ![c].up = @ \o Pieces(Len(conn[c].sent) + 1, n),
                            ![c].pipelined = @ \/ conn[c].down < Len(conn[c].sent)]
    /\ UNCHANGED net /\ ClientOnly
\* What the client had not sent yet is never sent.
ClientClose(c, k, keeps) ==
    LET o == ClientEnd(conn[c].user)
    IN /\ Call /\ Connected(c)
       /\ net' = IF keeps THEN close(net, o) ELSE Destroy(net, o)
       /\ conn' = [conn EXCEPT ![c].upEnd = TRUE, ![c].up = SubSeq(@, 1, k),
                               ![c].pipelined = @ \/ k < Len(conn[c].up)]
       /\ ClientOnly

(***************************************************************************)
(* Specification.                                                          *)
(***************************************************************************)
\* The functions on addresses are asked apart from the server.
Unused ==
    calls = 0 /\ handling = "tcp"

Next ==
    \/ \E addrs \in AddressLists, refused \in SUBSET Addrs, fresh \in BOOLEAN : TcpBind(addrs, refused, fresh)
    \/ start \/ stop \/ Release \/ Destructor \/ StopCallback
    \/ \E f \in Addrs \X Calls : startAccept(f) \/ AcceptReady(f)
    \/ \E c \in Conns :
          \/ handleClient(c)
          \/ \E k \in 0 .. Len(conn[c].up), keeps \in BOOLEAN : ClientClose(c, k, keeps)
          \/ \E d \in Conns, a \in Addrs, result \in ConnectResults \intersect Fates[c] :
                ClientConnect(c, d, a, result)
          \/ \E n \in BodySizes : ClientSend(c, n)
    \/ Unused /\ Ask /\ UNCHANGED <<net, serverVars, fiber, handler, conn, timeouts, died, calls>>

\* The threads of a scheduler take what is scheduled in its order, and each
\* fiber gives its thread back where it waits; a loop that Spins does not, and
\* StopEnds says nothing of it.
Fairness ==
    /\ WF_vars(StopCallback)
    /\ \A f \in Addrs \X Calls : WF_vars(startAccept(f))
    /\ \A c \in Conns : WF_vars(handleClient(c))
Spec == Init /\ [][Next]_vars /\ Fairness

(***************************************************************************)
(* Properties.                                                             *)
(***************************************************************************)

\* InStep: the server reads a stream of requests at their boundaries.  While
\* the client waits for each answer, heads come in one read and no receive
\* timed out in a body: the next request read is the one that is not answered
\* yet, from its first piece; its body is a prefix of the one sent, and
\* nothing is left unread when it is answered (http_session.cc:14-61).
InStep ==
    \A c \in Conns :
        LET h == handler[c]
            k == conn[c]
            i == h.answers + 1
            inBody == [j \in 1 .. (IF i <= Len(k.sent) THEN k.sent[i] ELSE 0) |-> [k |-> "b", req |-> i]]
        IN ~k.pipelined /\ ~h.cut /\ ~h.late =>
             /\ h.pc = "head" /\ ~h.half /\ k.up # <<>> => i = Len(k.sent) /\ k.up = Pieces(i, k.sent[i])
             /\ h.pc = "body" => k.up = SubSeq(inBody, 1, h.left) /\ Len(h.body) + h.left <= Len(inBody)
             /\ h.pc = "send" => i = Len(k.sent) /\ k.up = <<>> /\ h.body = SubSeq(inBody, 1, Len(h.body))
             /\ h.answers <= Len(k.sent)

\* The accept fiber of a socket whose accept fails at once, for want of
\* descriptors or because the socket is closed: the loop keeps its thread.
Spins ==
    \E f \in Addrs \X Calls :
        LET fd == net.sock[Listener(f[1])].m_sock
        IN /\ fiber[f].pc = "loop" /\ ~m_isStop
           /\ \/ fd \notin {g \in Fds : net.file[g].st = "listen"}
              \/ FreeFds(net) = {} /\ Backlog(f[1]) # {}
\* It waits at a socket that is open and not the server's: a failed bind() took
\* it from m_socks, or a new socket has the number that the fiber waits for.
Stranded(f) == fiber[f].pc = "wait" /\ f[1] \notin m_socks /\ net.file[fiber[f].fd].st = "listen"

\* StopEnds: after stop(), unless start() is called again, every accept fiber
\* of a one-thread scheduler ends, but for those that are stranded by a bind();
\* and once a client has closed, its fiber ends and its descriptor is closed.
\* Both as long as no accept loop spins (tcp_server.cc:73-106,
\* http_server.cc:16-32).
StopEnds ==
    /\ (acceptThreads = 1 /\ lambdas > 0)
         ~> \/ ~m_isStop \/ died # "no" \/ Spins
            \/ \A f \in Addrs \X Calls : fiber[f].pc \in {"none", "end"} \/ Stranded(f)
    /\ \A c \in Conns :
         (conn[c].upEnd /\ conn[c].st = "open") ~> (died # "no" \/ Spins \/ ~net.sock[ServerEnd(c)].alive)
=============================================================================
