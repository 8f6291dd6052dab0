------------------------------ MODULE EndToEnd ------------------------------
(***************************************************************************)
(* The benchmark client, the proxy, the origin servers behind it and the   *)
(* RPC server, put together on their sockets.                              *)
(***************************************************************************)
EXTENDS Client, ProxyForward

vars == <<clientVars, proxyVars, rpcVars, conn, faults>>

Init ==
    /\ StreamInit /\ ClientInit /\ ProxyInit
    /\ faults = 0

ClientThread(t) == ThreadStep(t, alive) /\ UNCHANGED <<proxyVars, rpcVars>>
ClientMain      == MainStep /\ UNCHANGED <<proxyVars, rpcVars>>
ProxyMain       == Accept /\ UNCHANGED clientVars
ProxyWorker(w)  == WorkerStep(w) /\ UNCHANGED clientVars
RpcServerStep(w) == RpcStep(w) /\ UNCHANGED clientVars

Next ==
    \/ \E t \in Threads : ClientThread(t)
    \/ ClientMain
    \/ ProxyMain
    \/ \E w \in Workers : ProxyWorker(w) \/ RpcServerStep(w)

Spec == Init /\ [][Next]_vars

(***************************************************************************)
(* Every thread of the four processes that can go on does, in the end.     *)
(* That a socket call returns is part of the model: a client that is in    *)
(* the middle of a request sends the rest or dies, and an origin that has  *)
(* the request answers or closes.                                          *)
(***************************************************************************)
Fairness ==
    /\ \A t \in Threads : WF_vars(ClientThread(t))
    /\ WF_vars(ClientMain)
    /\ WF_vars(ProxyMain)
    /\ \A w \in Workers : WF_vars(ProxyWorker(w)) /\ WF_vars(RpcServerStep(w))

FairSpec == Spec /\ Fairness

----------------------------------------------------------------------------
TypeOK == StreamTypeOK /\ ClientTypeOK /\ ProxyTypeOK

(***************************************************************************)
(* A client is sent nothing but the answer to its own request: neither     *)
(* recvHeader() nor recvAll_Forward() of a worker reads what is meant for  *)
(* another, and no piece goes out on a descriptor that has been given to   *)
(* another connection since.                                               *)
(***************************************************************************)
OwnAnswer == \A k \in Conns : \A i \in DOMAIN sent[k] : sent[k][i].req = k

(***************************************************************************)
(* Every descriptor of the proxy is open for a reason, a connection in the *)
(* list or the two a worker still has to close, and those are all open:    *)
(* none of the exits of handleClient() forgets a close() or has one too    *)
(* many, which would hit the next connection that gets the number.         *)
(***************************************************************************)
Upstream == {"connect", "strip", "answer", "header", "body", "rpc", "image"}
Closes(w, what) == \E i \in DOMAIN worker[w].toClose : worker[w].toClose[i] = what
HoldsClient(w) ==
    worker[w].at \in {"request", "resolve"} \cup Upstream \/ Closes(w, "client")
HoldsServer(w) == worker[w].at \in Upstream \/ Closes(w, "server")
Queued == {list[i] : i \in DOMAIN list}

DescriptorsHeld ==
    alive => {f \in DOMAIN fdt : fdt[f] # Free} =
                 Queued \cup {worker[w].fd : w \in {v \in Workers : HoldsClient(v)}}
                        \cup (IF \E w \in Workers : HoldsServer(w)
                              THEN {serverSock} ELSE {})

(***************************************************************************)
(* When a worker is about to close a connection whose client is still      *)
(* there, the client has been sent one whole answer, or an error that      *)
(* nothing follows and that comes after no whole answer.  The exceptions   *)
(* are a failure that cut the answer short, and a JPG from the shared      *)
(* memory, of which nothing is sent.                                       *)
(***************************************************************************)
WholeAnswer(s) ==
    /\ s # <<>> /\ Head(s).is = "header"
    /\ LET image == Len(s) > 1 /\ s[2].is = "image"
       IN  CASE Head(s).len # NoLength -> Len(s) = 1 + (IF image THEN 1 ELSE Head(s).len)
             [] Head(s).len = NoLength /\ Head(s).status = 200 ->
                    Len(s) = 1 + (IF image THEN 1 ELSE MaxChunks)
             [] OTHER -> Len(s) = 1
IsError(p) == p.is = "header" /\ p.status # 200 /\ p.len # NoLength

AnswerDone(k) ==
    LET s == sent[k]
        errors == {i \in DOMAIN s : IsError(s[i])}
    IN  conn[k].client = "open" =>
          IF errors = {}
          THEN \/ WholeAnswer(s) \/ faults > 0
               \/ s = <<>> /\ OPTIMIZED /\ conn[k].file \in Pictures
          ELSE \A i \in errors : /\ Len(s) = i + 1
                                 /\ ~ WholeAnswer(SubSeq(s, 1, i - 1))

OneAnswer ==
    \A w \in Workers :
        worker[w].at = "close" /\ Closes(w, "client") /\ IsClient(worker[w].fd) =>
            AnswerDone(fdt[worker[w].fd][2])

(***************************************************************************)
(* The total a client prints is the sum of what was sent on its            *)
(* connections, as far as the Content-Length of each goes: nothing is lost *)
(* or counted twice between sendAll() of the proxy and pthread_join() of   *)
(* the client, whatever failed on the way.  The sum is taken over the      *)
(* threads, of the sum over the accesses of each; a pair that is no        *)
(* connection counts as 0.                                                 *)
(***************************************************************************)
Sums(f) == LET S[n \in 0 .. NumConns] == IF n = 0 THEN 0 ELSE S[n - 1] + f[n]
           IN  S

Dues == [k \in Conns |-> Due(k)]
SumsOf(t, d) == Sums([n \in Threads |-> IF <<t, n>> \in Conns THEN d[<<t, n>>] ELSE 0])
SumsOfAll(d) == Sums([t \in Threads |-> SumsOf(t, d)[NumConns]])

TotalIsWhatWasSent == exit = "SUCCESS" => total = SumsOfAll(Dues)[NumConns]

(***************************************************************************)
(* The client ends: accessServer() has no timeout, so every recv() of it   *)
(* relies on the proxy to answer or to close the connection, on each of    *)
(* the paths through handleClient().                                       *)
(***************************************************************************)
ClientEnds == <>(exit # "no")

----------------------------------------------------------------------------
(***************************************************************************)
(* The inductive invariant of a proxy with one worker.                     *)
(***************************************************************************)
OneWorker == \E w : Workers = {w}

Pieces == [req : Conns, is : {"header", "body", "image", "stub"},
           status : {0, 200, 404, 408, 500}, len : {NoLength, 0, 1, MaxChunks}]
Closings == {<<>>, <<"client">>, <<"server">>, <<"client", "server">>, <<"server", "client">>}

ConnType == [client : Ends, server : Ends, file : Files,
             up : NoRequest .. Whole, down : Seq(Pieces)]
ThreadType == [at : {"socket", "send", "header", "body", "returned"},
               n : 1 .. accesses, bLen : {-1} \cup Nat, bodyLen : Nat, retVal : Nat]
WorkerType == [at : Pcs, fd : 0 .. limit, req : Conns, jpg : BOOLEAN,
               from : 0 .. limit, piece : Pieces, len : -1 .. MaxChunks,
               got : 0 .. MaxChunks, status : {0, 404, 408, 500}, toClose : Closings]
OriginType == [st : {"none", "socket", "connected", "asked"}, rest : Seq(Pieces)]

SocketTypeOK ==
    /\ conn \in [Conns -> ConnType]
    /\ numThreads \in Threads /\ accesses \in Threads
    /\ picks \in [1 .. accesses -> Files]
    /\ thread \in [Threads -> ThreadType]
    /\ joined \in 0 .. numThreads /\ total \in Nat /\ exit \in Statuses
    /\ limit \in FdLimits /\ alive \in BOOLEAN
    /\ fdt \in [1 .. limit -> {Free} \cup {ToClient(k) : k \in Conns}
                                     \cup {ToOrigin(k) : k \in Conns}]
    /\ list \in Seq(1 .. limit) /\ serverSock \in 0 .. limit
    /\ worker \in [Workers -> WorkerType]
    /\ origin \in [Conns -> OriginType]
    /\ faulted \in [Workers -> BOOLEAN]
    /\ sent \in [Conns -> Seq(Pieces)]
    /\ Rpc!RpcTypeOK

\* A client makes its connections one after the other, and the proxy accepts
\* what a client has made.
Ahead ==
    /\ numThreads * accesses = NumConns
    /\ \A t \in Threads : thread[t].at # "returned" => t <= numThreads
    /\ \A k \in Conns : conn[k].server # "none" => conn[k].client # "none"
    /\ exit = "no" =>
         \A k \in Conns :
             \/ k[2] > thread[k[1]].n
             \/ k[2] = thread[k[1]].n /\ thread[k[1]].at = "socket"
             => conn[k].client = "none"

\* Every open descriptor has one user.
Busy == {"request", "resolve", "error"} \cup Upstream
HoldingAt(w) ==
    LET r == worker[w]
    IN  /\ HoldsClient(w) => IsClient(r.fd) /\ r.fd \notin Queued
        /\ r.at \in Busy => fdt[r.fd] = ToClient(r.req)
        /\ HoldsServer(w) => IsOrigin(serverSock)
        /\ r.at \in Upstream => fdt[serverSock] = ToOrigin(r.req)
        /\ r.at = "error" => r.toClose \in {<<"client">>, <<"client", "server">>}
        /\ r.at = "close" <=> r.at # "error" /\ r.toClose # <<>>
        /\ r.at \in {"header", "body", "rpc", "image"} => r.from = serverSock
InUse(f) ==
    \/ f \in Queued
    \/ \E w \in Workers : HoldsClient(w) /\ worker[w].fd = f
    \/ \E w \in Workers : HoldsServer(w) /\ serverSock = f

TableInv ==
    /\ \A f, g \in DOMAIN fdt : fdt[f] = fdt[g] => f = g \/ fdt[f] = Free
    /\ \A f \in DOMAIN fdt : IsClient(f) => conn[fdt[f][2]].server = "open"
    /\ \A i, j \in DOMAIN list : list[i] = list[j] => i = j
    /\ \A i \in DOMAIN list : IsClient(list[i])
    /\ \A f \in DOMAIN fdt : Open(f) => InUse(f)
    /\ \A w \in Workers : HoldingAt(w)

\* The one caller of compress() finds its own image in the file.
CallAt(w) ==
    LET c == call[w]
    IN  /\ imageNumber <= calls
        /\ c.at = "load" => imageNumber < calls
        /\ c.at = "store" => c.id < calls
        /\ c.at # "idle" => c.arg \in Conns \cup {Rpc!Part}
        /\ c.at = "fwrite" => c.fd # 0 /\ names[c.id] = c.fd
        /\ c.at \in {"open", "compress"} => c.fd # 0 /\ data[c.fd] = c.arg
        /\ c.at = "open" => names[c.id] = c.fd
        /\ c.at \in {"unlink", "done"} =>
             /\ c.result \in {Rpc!Nothing, Rpc!RpcFault, Rpc!Compressed(c.arg)}
             /\ c.result = Rpc!Compressed(c.arg) => c.arg \in Conns
             /\ faults = 0 /\ c.arg \in Conns => c.result = Rpc!Compressed(c.arg)
CallInv ==
    \A w \in Workers :
        /\ CallAt(w)
        /\ alive => (worker[w].at = "image" <=> call[w].at # "idle")
        /\ worker[w].at = "image" =>
             /\ call[w].arg \in {worker[w].req, Rpc!Part}
             /\ faults = 0 => call[w].arg = worker[w].req

\* What has come from the origin, and what has been sent to the client.
AnswerOf(k, a) == <<Header(k, a.status, a.len)>> \o [i \in 1 .. a.chunks |-> Body(k)]
Received(w) ==
    LET r == worker[w]
        rest == origin[r.req].rest
    IN  /\ r.len = BodyLength(r.piece)
        /\ \/ r.piece = Stub(r.req) /\ faults > 0 /\ r.got = 0
           \/ r.piece = Header(r.req, 404, NoLength) /\ r.got = 0
           \/ /\ r.piece \in {Header(r.req, 200, n) : n \in {NoLength, MaxChunks}}
              /\ r.got + Len(rest) = MaxChunks
              /\ \A i \in DOMAIN rest : rest[i] = Body(r.req)
Forwarded(w) ==
    LET r == worker[w]
        s == sent[r.req]
    IN  /\ Len(s) = 1 + (IF r.jpg THEN 0 ELSE r.got)
        /\ s[1] = r.piece
        /\ \A i \in 2 .. Len(s) : s[i] = Body(r.req)
Unfinished(s) == ~ WholeAnswer(s) /\ \A i \in DOMAIN s : ~ IsError(s[i])

StageAt(w) ==
    LET r == worker[w]
        s == sent[r.req]
    IN  /\ r.at \in {"request", "resolve", "connect", "strip", "answer", "header"} => s = <<>> /\ r.got = 0
        /\ r.at = "strip" => origin[r.req].st = "connected"
        /\ r.at = "answer" => \E a \in Answers : origin[r.req].rest = AnswerOf(r.req, a)
        /\ r.at \in {"header", "body", "rpc", "image"} => Received(w)
        /\ r.at \in {"body", "rpc", "image"} => Forwarded(w)
        /\ r.at \in {"rpc", "image"} => r.jpg /\ r.len # 0
        /\ r.at = "rpc" /\ faults = 0 =>
             r.got > 0 /\ r.got >= r.len /\ origin[r.req].rest = <<>>
        /\ r.jpg /\ r.at \in Upstream \cup {"resolve"} => conn[r.req].file \in Pictures
        /\ r.at = "error" =>
             r.status # 0 /\ (conn[r.req].client = "open" => Unfinished(s))
        /\ r.at = "close" /\ Closes(w, "client") => AnswerDone(fdt[r.fd][2])

AnswerInv ==
    /\ OwnAnswer
    /\ \A k \in Conns : sent[k] # <<>> =>
           \E w \in Workers : HoldsClient(w) /\ fdt[worker[w].fd] = ToClient(k)
    /\ \A w \in Workers : StageAt(w)

SocketInv == SocketTypeOK /\ Ahead /\ TableInv /\ CallInv /\ AnswerInv

\* A connection on which nothing will change what is due.
Settled(k) ==
    \/ conn[k].client = "none"
    \/ conn[k].server = "shut"
    \/ sent[k] # <<>> /\ BodyLength(Head(sent[k])) <= Len(sent[k]) - 1

\* The accesses of a thread that are over.
Done(t) == IF thread[t].at = "returned" THEN thread[t].n ELSE thread[t].n - 1

\* On the connection of the access that is under way, what the client has
\* counted and what it still will is what is due.
Underway(t) ==
    LET r == thread[t]
        k == Current(t)
        c == conn[k]
        atEnd == c.server = "shut"
    IN  /\ r.at \in {"send", "header", "body"} => c.client = "open"
        /\ r.at \in {"send", "header"} =>
             /\ Due(k) = Worth(c.down)
             /\ atEnd \/ sent[k] = c.down
        /\ r.at = "body" =>
             /\ Due(k) = Counted(r.bLen, r.bodyLen + Len(c.down))
             /\ r.bodyLen = 0 \/ r.bodyLen <= r.bLen
             /\ \/ atEnd
                \/ /\ sent[k] # <<>> /\ BodyLength(Head(sent[k])) = r.bLen
                   /\ Len(sent[k]) = 1 + r.bodyLen + Len(c.down)

\* A connection that is not made has nothing, one that is not closed no sum.
Blank(k) ==
    /\ conn[k].client = "none" => sent[k] = <<>> /\ conn[k].down = <<>>
    /\ conn[k].server # "shut" => due[k] = 0

\* The accounts of the client: what has been counted is what was due on the
\* connections that are over.
Counting ==
    /\ \A t \in 1 .. joined : thread[t].at = "returned"
    /\ \A k \in Conns : k[2] <= Done(k[1]) => Settled(k)
    /\ \A t \in Threads : Underway(t)
    /\ \A t \in 1 .. numThreads : thread[t].retVal = SumsOf(t, Dues)[Done(t)]
    /\ total = SumsOfAll(Dues)[joined]

CountInv ==
    /\ due \in [Conns -> Nat]
    /\ \A k \in Conns : Blank(k)
    /\ \A k \in Conns : k[1] > numThreads => conn[k].client = "none"
    /\ exit = "no" => Counting
    /\ exit = "SUCCESS" => TotalIsWhatWasSent /\ \A k \in Conns : Settled(k)
============================================================================
