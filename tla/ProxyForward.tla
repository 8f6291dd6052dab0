---------------------------- MODULE ProxyForward ----------------------------
(***************************************************************************)
(* The socket path of the proxy: what handleClient() of proxy.c does with  *)
(* a connection from the list, over recvHeader(), sendAll(), sendError()   *)
(* and recvAll_Forward(), with the descriptors of the process as the       *)
(* kernel hands them out: the lowest free number first.  serverSock is a   *)
(* global variable of the process, not of the thread.                      *)
(*                                                                         *)
(* The origin server is seen through the answer that follows a request:    *)
(* a header and the pieces of a body, then the end of the stream.  Calls   *)
(* that fail are bounded by MaxFaults.  sharedProxy() is one step here     *)
(* (SharedMem has its exchange); compress() calls go to RpcServer.         *)
(***************************************************************************)
EXTENDS HttpStream, FiniteSets

CONSTANTS Workers,      \* the threads of the proxy
          Pictures,     \* the files that are JPG images
          COMPRESS,     \* the proxy was started with -c
          OPTIMIZED,    \* it was started with -o, and the server is ONLINE
          FdLimits,     \* limits on the descriptors of the proxy
          MaxChunks,    \* pieces of a body
          MaxCalls      \* bound on the calls of compress()

\* A body comes in at least one piece.
ASSUME ForwardAssumption ==
    /\ MaxChunks \in Nat \ {0} /\ MaxCalls \in Nat /\ FdLimits \subseteq Nat

VARIABLES limit,        \* descriptors this proxy may have
          fdt,          \* the descriptor table
          list,         \* connections waiting for a worker, by descriptor
          serverSock,   \* the global
          worker,       \* the threads in handleClient()
          origin,       \* the connections to origin servers
          faulted,      \* fault_occurred in the environment of each worker
          alive,        \* the process runs
          sent,         \* history: what was sent on each open connection
          due,          \* history: what a client counts of a closed one
          imageNumber, names, data, call, calls    \* of the RPC server

Rpc == INSTANCE RpcServer WITH Callers <- Workers, Images <- Conns

rpcVars   == <<imageNumber, names, data, call, calls>>
process   == <<limit, alive, due>>
table     == <<fdt, list, serverSock>>
net       == <<conn, sent>>
proxyVars == <<process, table, worker, origin, faulted, sent>>

\* Answers of the origin: with a Content-Length, without, and an error.
Answers ==
    [status : {200}, len : {NoLength, MaxChunks}, chunks : {MaxChunks}]
      \cup [status : {404}, len : {NoLength}, chunks : {1}]

\* What a descriptor refers to: nothing, or an end of a connection.
Free         == <<"free">>
ToClient(k)  == <<"client", k>>
ToOrigin(k)  == <<"origin", k>>
Open(f)      == f \in DOMAIN fdt /\ fdt[f] # Free
IsClient(f)  == Open(f) /\ fdt[f][1] = "client"
IsOrigin(f)  == Open(f) /\ fdt[f][1] = "origin"
FreeFds      == {f \in DOMAIN fdt : fdt[f] = Free}
Lowest       == CHOOSE f \in FreeFds : \A g \in FreeFds : f <= g

Idle == [at |-> "wait", fd |-> 0, req |-> CHOOSE k \in Conns : TRUE,
         jpg |-> FALSE, from |-> 0, piece |-> Stub(CHOOSE k \in Conns : TRUE),
         len |-> 0, got |-> 0, status |-> 0, toClose |-> <<>>]

NoOrigin == [st |-> "none", rest |-> <<>>]

ProxyInit ==
    /\ limit \in FdLimits
    /\ fdt = [f \in 1 .. limit |-> Free]
    /\ list = <<>>
    /\ serverSock = 0
    /\ worker = [w \in Workers |-> Idle]
    /\ origin = [k \in Conns |-> NoOrigin]
    /\ faulted = [w \in Workers |-> FALSE]
    /\ alive = TRUE
    /\ sent = [k \in Conns |-> <<>>]
    /\ due = [k \in Conns |-> 0]
    /\ Rpc!RpcInit

Pcs == {"wait", "request", "resolve", "connect", "strip",
        "answer", "header", "body", "rpc", "image", "error", "close"}

ProxyTypeOK ==
    /\ limit \in FdLimits
    /\ DOMAIN fdt = 1 .. limit
    /\ \A f \in DOMAIN fdt :
           fdt[f] \in {Free} \cup {ToClient(k) : k \in Conns}
                             \cup {ToOrigin(k) : k \in Conns}
    /\ serverSock \in 0 .. limit
    /\ \A w \in Workers :
           /\ worker[w].at \in Pcs
           /\ worker[w].fd \in 0 .. limit /\ worker[w].from \in 0 .. limit
           /\ worker[w].len \in -1 .. MaxChunks
           /\ worker[w].got \in 0 .. MaxChunks
    /\ \A k \in Conns : origin[k].st \in {"none", "socket", "connected", "asked"}
    /\ faulted \in [Workers -> BOOLEAN] /\ alive \in BOOLEAN
    /\ Rpc!RpcTypeOK

----------------------------------------------------------------------------
(* The pieces the steps are made of.                                       *)

Goto(w, pc) == worker' = [worker EXCEPT ![w].at = pc]

\* Mutant of Fail: the socket to the origin is left open.
FailKeeps(w, status, closing) ==
    worker' = [worker EXCEPT ![w] = [Idle EXCEPT !.at = "error", !.fd = worker[w].fd,
                 !.req = worker[w].req, !.status = status, !.toClose = <<"client">>]]

\* An early exit of the loop body: sendError(), then close() what is listed.
Fail(w, status, closing) ==
    worker' = [worker EXCEPT ![w] = [Idle EXCEPT !.at = "error", !.fd = worker[w].fd,
                 !.req = worker[w].req, !.status = status, !.toClose = closing]]

\* close() what is listed, and on to the next connection.
Leave(w, closing) ==
    worker' = [worker EXCEPT ![w] = [Idle EXCEPT !.at = "close",
                 !.fd = worker[w].fd, !.toClose = closing]]

\* The end of the loop body.
Succeed(w) == Leave(w, <<"server", "client">>)

\* sendAll() to the client: what a client has shut is lost, or is an error.
Reaches(f) == IsClient(f) /\ conn[fdt[f][2]].client = "open"
\* Mutant of Put: the descriptor is the one accepted last.
PutLast(f, pieces) ==
    \E g \in DOMAIN fdt :
        /\ IsClient(g) /\ \A h \in DOMAIN fdt : IsClient(h) => h <= g
        /\ conn' = [conn EXCEPT ![fdt[g][2]].down = @ \o pieces]
        /\ sent' = [sent EXCEPT ![fdt[g][2]] = @ \o pieces]
Put(f, pieces) ==
    /\ conn' = IF Reaches(f)
               THEN [conn EXCEPT ![fdt[f][2]].down = @ \o pieces] ELSE conn
    /\ sent' = IF IsClient(f)
               THEN [sent EXCEPT ![fdt[f][2]] = @ \o pieces] ELSE sent
SendAll(f, pieces) == Open(f) /\ Put(f, pieces)
SendFails(f) == ~ Reaches(f) /\ UNCHANGED <<conn, sent>>

\* What recvAll_NoData() makes of the pieces sent: those after the header, up
\* to its Content-Length.
Counted(bLen, n) == IF bLen >= n THEN n ELSE IF bLen < 0 THEN 0 ELSE bLen
Worth(s) == IF s = <<>> THEN 0 ELSE Counted(BodyLength(Head(s)), Len(s) - 1)
Due(k)   == IF sent[k] = <<>> THEN due[k] ELSE Worth(sent[k])

\* The process ends, by exit() or by a wild pointer.
Die ==
    /\ alive' = FALSE
    /\ conn' = [k \in Conns |-> IF conn[k].client = "none" THEN conn[k]
                                ELSE [conn[k] EXCEPT !.server = "shut"]]
    /\ fdt' = [f \in DOMAIN fdt |-> Free]
    /\ list' = <<>>
    /\ worker' = [w \in Workers |-> Idle]
    /\ origin' = [k \in Conns |-> NoOrigin]
    /\ sent' = [k \in Conns |-> <<>>]
    /\ due' = [k \in Conns |-> Due(k)]
    /\ UNCHANGED <<limit, serverSock, faulted, rpcVars>>

----------------------------------------------------------------------------
\* main(): accept() and addTail().  Out of descriptors, main() exits.
Accept ==
    /\ alive
    /\ \E k \in Conns :
           /\ conn[k].client # "none" /\ conn[k].server = "none"
           /\ \/ /\ FreeFds # {}
                 /\ fdt' = [fdt EXCEPT ![Lowest] = ToClient(k)]
                 /\ list' = Append(list, Lowest)
                 /\ conn' = [conn EXCEPT ![k].server = "open"]
                 /\ UNCHANGED <<process, serverSock, worker, origin, faulted,
                                sent, rpcVars>>
              \/ FreeFds = {} /\ Die
    /\ Works

\* removeHead().
Take(w) ==
    /\ worker[w].at = "wait"
    /\ list # <<>>
    /\ worker' = [worker EXCEPT ![w] = [Idle EXCEPT !.at = "request",
                     !.fd = Head(list),
                     !.req = IF IsClient(Head(list)) THEN fdt[Head(list)][2] ELSE @]]
    /\ list' = Tail(list)
    /\ Works
    /\ UNCHANGED <<process, fdt, serverSock, origin, faulted, net, rpcVars>>

\* isJPG(): ".jpg" is in the request line.
IsJPG(k) == conn[k].file \in Pictures

\* recvHeader() of the request, isJPG() and getHeaderField() of its Host.  The
\* request has no Host, breaks off, or there is no memory for it.
RecvRequest(w) ==
    LET f == worker[w].fd
        k == fdt[f][2]
    IN  /\ worker[w].at = "request"
        /\ IF ~ IsClient(f) THEN Fail(w, 500, <<"client">>) /\ Works
           ELSE /\ conn[k].up = Whole \/ conn[k].client = "shut"
                /\ \/ /\ conn[k].up >= HasHost
                      /\ worker' = [worker EXCEPT ![w].at = "resolve",
                                        ![w].jpg = COMPRESS /\ IsJPG(k)]
                      /\ Works
                   \/ /\ Fail(w, 500, <<"client">>)
                      /\ IF conn[k].up < HasHost \/ conn[k].client = "shut"
                         THEN Works ELSE Fails
        /\ conn' = IF IsClient(f) THEN [conn EXCEPT ![k].up = NoRequest] ELSE conn
        /\ UNCHANGED <<process, table, origin, faulted, sent, rpcVars>>

\* calloc() of the host entity or gethostbyname_r() fails.
Unresolved(w) ==
    /\ worker[w].at = "resolve"
    /\ \E status \in {404, 500} : Fail(w, status, <<"client">>)
    /\ Fails
    /\ UNCHANGED <<process, table, origin, faulted, net, rpcVars>>

\* sharedProxy() returns 0: the local server has answered.  The comparison
\* of addresses lets every host pass, since both come from the one buffer of
\* inet_ntoa().  A JPG is buffered with its header, through an uninitialized
\* pointer; what is not an image is compressed to nothing.  A fault of the call
\* is only printed: compImg and compImgLen, which nothing has set, are sent and
\* freed.  Nothing, bytes that are no header, or the end of the process comes of
\* it, each bounded as a failing call is.  The process may also end on the way to
\* the server and back (Fatal in SharedMem), whatever was asked for.
Shared(w) ==
    LET f == worker[w].fd
        k == worker[w].req
    IN  /\ worker[w].at = "resolve"
        /\ OPTIMIZED
        /\ \/ /\ ~ worker[w].jpg
              /\ \/ Put(f, <<Header(k, 200, 1), Body(k)>>)
                 \/ SendFails(f)
              /\ Leave(w, <<"client">>)
              /\ Works
              /\ UNCHANGED <<process, table, origin, faulted, rpcVars>>
           \/ /\ worker[w].jpg
              /\ Works
              /\ Leave(w, <<"client">>)
              /\ UNCHANGED <<process, table, origin, faulted, net, rpcVars>>
           \/ /\ worker[w].jpg
              /\ Put(f, <<Stub(k)>>) \/ UNCHANGED net
              /\ Fails
              /\ faulted' = [faulted EXCEPT ![w] = TRUE]
              /\ Leave(w, <<"client">>)
              /\ UNCHANGED <<process, table, origin, rpcVars>>
           \/ Die /\ Fails

\* sharedProxy() returns -1, for want of shared memory or of an idle node in
\* it: serverSock = socket(...).
OpenSocket(w) ==
    LET k == worker[w].req
    IN  /\ worker[w].at = "resolve"
        /\ \/ /\ FreeFds # {}
              /\ serverSock' = Lowest
              /\ fdt' = [fdt EXCEPT ![Lowest] = ToOrigin(k)]
              /\ origin' = [origin EXCEPT ![k].st = "socket"]
              /\ Goto(w, "connect")
              /\ Works
           \/ /\ serverSock' = 0
              /\ Fail(w, 500, <<"client">>)
              /\ IF FreeFds = {} THEN Works ELSE Fails
              /\ UNCHANGED <<fdt, origin>>
        /\ UNCHANGED <<process, list, faulted, net, rpcVars>>

\* connect() on whatever serverSock is now.
Connect(w) ==
    /\ worker[w].at = "connect"
    /\ LET fresh == IsOrigin(serverSock) /\ origin[fdt[serverSock][2]].st = "socket"
       IN  \/ /\ fresh
              /\ origin' = [origin EXCEPT ![fdt[serverSock][2]].st = "connected"]
              /\ Goto(w, "strip")
              /\ Works
           \/ /\ Fail(w, 408, <<"client", "server">>)
              /\ IF fresh THEN Fails ELSE Works
              /\ UNCHANGED origin
    /\ UNCHANGED <<process, table, faulted, net, rpcVars>>

\* stripAbsURL() and sendAll() of the request; an origin answers the first
\* request on a connection and then shuts it.
StripAndSend(w) ==
    LET k == worker[w].req
        ready == IsOrigin(serverSock)
                   /\ origin[fdt[serverSock][2]].st \in {"connected", "asked"}
    IN  /\ worker[w].at = "strip"
        /\ \/ /\ ready
              /\ LET to == fdt[serverSock][2]
                 IN  \E a \in Answers :
                       origin' = IF origin[to].st = "asked" THEN origin
                         ELSE [origin EXCEPT ![to] =
                                 [st |-> "asked",
                                  rest |-> <<Header(k, a.status, a.len)>>
                                             \o [i \in 1 .. a.chunks |-> Body(k)]]]
              /\ Goto(w, "answer")
              /\ Works
           \/ /\ Fail(w, 500, <<"client", "server">>)
              /\ IF ready THEN Fails ELSE Works
              /\ UNCHANGED origin
        /\ UNCHANGED <<process, table, faulted, net, rpcVars>>

\* recvHeader(serverSock, ...): a header, part of one, or an error.
GotHeader(w, piece) ==
    worker' = [worker EXCEPT ![w].at = "header", ![w].from = serverSock,
                             ![w].piece = piece, ![w].len = BodyLength(piece)]

RecvAnswer(w) ==
    /\ worker[w].at = "answer"
    /\ LET up == fdt[serverSock][2]
       IN  \/ /\ IsOrigin(serverSock)
              /\ origin[up].rest # <<>>
              /\ GotHeader(w, Head(origin[up].rest))
              /\ origin' = [origin EXCEPT ![up].rest = Tail(@)]
              /\ Works
           \/ IsOrigin(serverSock) /\ GotHeader(w, Stub(worker[w].req)) /\ Fails /\ UNCHANGED origin
           \/ /\ Fail(w, 500, <<"client", "server">>)
              /\ IF IsOrigin(serverSock) /\ origin[up].rest # <<>>
                 THEN Fails
                 ELSE Works /\ ~ (IsOrigin(serverSock) /\ origin[up].st # "asked")
              /\ UNCHANGED origin
    /\ UNCHANGED <<process, table, faulted, net, rpcVars>>

\* recvAll_Forward(): first the header.
ForwardHeader(w) ==
    LET f == worker[w].fd
    IN  /\ worker[w].at = "header"
        /\ \/ SendAll(f, <<worker[w].piece>>) /\ Goto(w, "body")
           \/ SendFails(f) /\ Fail(w, 500, <<"client", "server">>)
        /\ Works
        /\ UNCHANGED <<process, table, origin, faulted, rpcVars>>

\* Mutant of More: the last piece is left to the origin.
MoreOff(w) == worker[w].len = -1 \/ worker[w].got + 1 < worker[w].len

\* Its loop condition: bytesReceived < bodyLength || arbitraryReceive.
More(w) == worker[w].len = -1 \/ worker[w].got < worker[w].len

\* One turn of the loop: a piece is received on fromSock, and forwarded or,
\* when it is part of a JPG, buffered.
ForwardPiece(w) ==
    LET f  == worker[w].from
        up == fdt[f][2]
    IN  /\ worker[w].at = "body"
        /\ More(w)
        /\ IsOrigin(f) /\ origin[up].rest # <<>>
        /\ origin' = [origin EXCEPT ![up].rest = Tail(@)]
        /\ \/ /\ ~ worker[w].jpg
              /\ SendAll(worker[w].fd, <<Head(origin[up].rest)>>)
              /\ worker' = [worker EXCEPT ![w].got = @ + 1]
           \/ /\ ~ worker[w].jpg
              /\ SendFails(worker[w].fd)
              /\ Fail(w, 500, <<"client", "server">>)
           \/ /\ worker[w].jpg
              /\ worker' = [worker EXCEPT ![w].got = @ + 1]
              /\ UNCHANGED net
        /\ Works
        /\ UNCHANGED <<process, table, faulted, rpcVars>>

\* imgBuffer is not initialized when the first piece is added to it.
WildBuffer(w) ==
    /\ worker[w].at = "body" /\ worker[w].jpg /\ More(w) /\ worker[w].got = 0
    /\ Die
    /\ Fails

\* recv() returns 0, because the answer is complete or the origin gave up;
\* or it returns -1.
StreamEnds(w) ==
    LET f == worker[w].from
        ended == ~ IsOrigin(f) \/ origin[fdt[f][2]].rest = <<>>
    IN  /\ worker[w].at = "body"
        /\ More(w)
        /\ IF ended THEN Works ELSE Fails
        /\ \/ /\ IsOrigin(f)
              /\ IF worker[w].jpg THEN Goto(w, "rpc") ELSE Succeed(w)
           \/ Fail(w, 500, <<"client", "server">>) /\ (ended => ~ IsOrigin(f))
        /\ UNCHANGED <<process, table, origin, faulted, net, rpcVars>>

\* The loop ends with the whole Content-Length.
BodyDone(w) ==
    /\ worker[w].at = "body"
    /\ ~ More(w)
    /\ IF worker[w].jpg /\ worker[w].got > 0 THEN Goto(w, "rpc") ELSE Succeed(w)
    /\ Works
    /\ UNCHANGED <<process, table, origin, faulted, net, rpcVars>>

\* xmlrpc_client_call().  An environment in which a fault has occurred keeps
\* it: nothing clears fault_occurred, and the library makes no further call.
\* What was read from a connection that another worker has closed since may be
\* the whole image or not.
CallRpc(w) ==
    LET k == worker[w].req
        f == worker[w].from
        whole == worker[w].got > 0 /\ worker[w].got >= worker[w].len
                   /\ origin[fdt[f][2]].rest = <<>>
    IN  /\ worker[w].at = "rpc"
        /\ \/ /\ ~ faulted[w]
              /\ \E image \in {k, Rpc!Part} :
                    /\ IsOrigin(f) => image = IF whole THEN k ELSE Rpc!Part
                    /\ Rpc!CallCompress(w, image)
              /\ Goto(w, "image")
              /\ Works
              /\ UNCHANGED faulted
           \/ /\ Fail(w, 500, <<"client", "server">>)
              /\ IF faulted[w] THEN Works ELSE Fails
              /\ faulted' = [faulted EXCEPT ![w] = TRUE]
              /\ UNCHANGED rpcVars
        /\ UNCHANGED <<process, table, origin, net>>

\* The call returns; sendAll() of the image, of which nothing may be left.
TakeImage(w) ==
    LET f == worker[w].fd
        r == call[w].result
    IN  /\ worker[w].at = "image"
        /\ Rpc!EndCall(w)
        /\ faulted' = [faulted EXCEPT ![w] = (r.is = "fault")]
        /\ \/ r.is = "fault" /\ Fail(w, 500, <<"client", "server">>) /\ UNCHANGED net
           \/ r.is = "nothing" /\ Succeed(w) /\ UNCHANGED net
           \/ r.is = "image" /\ SendAll(f, <<Image(r.of)>>) /\ Succeed(w)
           \/ r.is = "image" /\ SendFails(f) /\ Fail(w, 500, <<"client", "server">>)
        /\ Works
        /\ UNCHANGED <<process, table, origin>>

\* A fault on the path of a stream that ended frees compImgBuffer, which
\* nothing has initialized.
WildFree(w) ==
    /\ worker[w].at \in {"rpc", "image"} /\ More(w)
    /\ faulted[w] \/ (call[w].at = "done" /\ call[w].result.is = "fault")
    /\ Die
    /\ Works

\* sendError(): a header and a body, whether they arrive or not.
SendError(w) ==
    LET k == worker[w].req
        f == worker[w].fd
    IN  /\ worker[w].at = "error"
        /\ \/ Put(f, <<Header(k, worker[w].status, 1), Body(k)>>)
           \/ SendFails(f)
        /\ Leave(w, worker[w].toClose)
        /\ Works
        /\ UNCHANGED <<process, table, origin, faulted, rpcVars>>

\* close() of client->conn or of serverSock, as it is at that moment.
Close(w) ==
    LET f == IF Head(worker[w].toClose) = "client" THEN worker[w].fd ELSE serverSock
        rest == Tail(worker[w].toClose)
    IN  /\ worker[w].at = "close"
        /\ fdt' = IF Open(f) THEN [fdt EXCEPT ![f] = Free] ELSE fdt
        /\ conn' = IF IsClient(f) THEN [conn EXCEPT ![fdt[f][2]].server = "shut"]
                   ELSE conn
        /\ IF IsClient(f)
           THEN /\ sent' = [sent EXCEPT ![fdt[f][2]] = <<>>]
                /\ due' = [due EXCEPT ![fdt[f][2]] = Due(fdt[f][2])]
           ELSE UNCHANGED <<sent, due>>
        /\ origin' = IF IsOrigin(f) THEN [origin EXCEPT ![fdt[f][2]] = NoOrigin]
                     ELSE origin
        /\ worker' = [worker EXCEPT ![w] =
                         IF rest = <<>> THEN Idle ELSE [@ EXCEPT !.toClose = rest]]
        /\ Works
        /\ UNCHANGED <<limit, alive, list, serverSock, faulted, rpcVars>>

WorkerStep(w) ==
    /\ alive
    /\ \/ Take(w) \/ RecvRequest(w) \/ Unresolved(w) \/ Shared(w)
       \/ OpenSocket(w) \/ Connect(w) \/ StripAndSend(w) \/ RecvAnswer(w)
       \/ ForwardHeader(w) \/ ForwardPiece(w) \/ WildBuffer(w) \/ StreamEnds(w)
       \/ BodyDone(w) \/ CallRpc(w) \/ TakeImage(w) \/ WildFree(w)
       \/ SendError(w) \/ Close(w)

\* The RPC server is another process and goes on when the proxy is gone.
RpcStep(w) == Rpc!CompressStep(w) /\ UNCHANGED <<proxyVars, conn>>
============================================================================
