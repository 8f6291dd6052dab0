-------------------------- MODULE EndToEnd_proofs ---------------------------
(***************************************************************************)
(* The socket path of a proxy with one worker: the types, what is sent to  *)
(* whom, the descriptors, and one answer for each request.                 *)
(*                                                                         *)
(* With one worker, serverSock and the image counter of compress() have    *)
(* one user at a time, although both are global variables.  With two       *)
(* workers OwnAnswer is false, as the run ForwardCross shows: one closes   *)
(* or reads what the other has opened.                                     *)
(*                                                                         *)
(* The proof has a lemma for every action of EndToEnd.  Most actions of a  *)
(* worker are one of three moves, for which there are lemmas to start      *)
(* from: FailStep, an early exit; LeaveStep, the way to close();           *)
(* AdvanceStep, the next call.                                             *)
(***************************************************************************)
EXTENDS EndToEnd, DataLemmas

----------------------------------------------------------------------------
(* The parts the states are made of.                                       *)

\* Connections are pairs, and there is one.
LEMMA ConnsFacts ==
    /\ (CHOOSE k \in Conns : TRUE) \in Conns
    /\ \A k \in Conns : k[1] \in Threads /\ k[2] \in Threads /\ k = <<k[1], k[2]>>
    /\ Rpc!Part \notin Conns
<1>1. <<1, 1>> \in Conns
  BY NumConnsNat DEF Conns, Threads
<1>2. \A k \in Conns : k \in Threads \X Threads
  BY DEF Conns
<1>3. \A k \in Threads \X Threads : k # <<"part">>
  OBVIOUS
<1> QED
  BY <1>1, <1>2, <1>3 DEF Rpc!Part

\* What a descriptor refers to can be told from it.
LEMMA DescriptorFacts ==
    /\ \A k \in Conns :
          /\ ToClient(k) # Free /\ ToClient(k)[1] = "client" /\ ToClient(k)[2] = k
          /\ ToOrigin(k) # Free /\ ToOrigin(k)[1] = "origin" /\ ToOrigin(k)[2] = k
    /\ \A j, k \in Conns :
          /\ ToClient(j) # ToOrigin(k)
          /\ ToClient(j) = ToClient(k) => j = k
          /\ ToOrigin(j) = ToOrigin(k) => j = k
<1>1. \A x, y : <<x, y>> # <<"free">>
  OBVIOUS
<1> QED
  BY <1>1 DEF ToClient, ToOrigin, Free

\* A descriptor is open if it is that of a client or of an origin.
LEMMA TableFacts ==
    ASSUME SocketTypeOK, NEW f
    PROVE  /\ IsClient(f) <=> f \in 1 .. limit /\ \E k \in Conns : fdt[f] = ToClient(k)
           /\ IsOrigin(f) <=> f \in 1 .. limit /\ \E k \in Conns : fdt[f] = ToOrigin(k)
           /\ Open(f) <=> f \in 1 .. limit /\ fdt[f] # Free
           /\ Open(f) <=> IsClient(f) \/ IsOrigin(f)
           /\ ~ (IsClient(f) /\ IsOrigin(f))
           /\ IsClient(f) => fdt[f][2] \in Conns /\ fdt[f] = ToClient(fdt[f][2])
           /\ IsOrigin(f) => fdt[f][2] \in Conns /\ fdt[f] = ToOrigin(fdt[f][2])
<1>1. DOMAIN fdt = 1 .. limit
  BY DEF SocketTypeOK
<1>2. CASE f \in 1 .. limit
  <2>1. \/ fdt[f] = Free
        \/ \E k \in Conns : fdt[f] = ToClient(k)
        \/ \E k \in Conns : fdt[f] = ToOrigin(k)
    BY <1>2 DEF SocketTypeOK
  <2>2. ASSUME NEW k \in Conns, fdt[f] = ToClient(k)
        PROVE  /\ fdt[f] # Free /\ fdt[f][1] = "client" /\ fdt[f][2] = k
               /\ \A j \in Conns : fdt[f] # ToOrigin(j)
    BY <2>2, DescriptorFacts
  <2>3. ASSUME NEW k \in Conns, fdt[f] = ToOrigin(k)
        PROVE  /\ fdt[f] # Free /\ fdt[f][1] = "origin" /\ fdt[f][2] = k
               /\ \A j \in Conns : fdt[f] # ToClient(j)
    BY <2>3, DescriptorFacts
  <2>4. fdt[f] = Free => \A k \in Conns : fdt[f] # ToClient(k) /\ fdt[f] # ToOrigin(k)
    BY DescriptorFacts
  <2>5. "client" # "origin"
    OBVIOUS
  <2> QED
    BY <1>1, <1>2, <2>1, <2>2, <2>3, <2>4, <2>5 DEF IsClient, IsOrigin, Open
<1>3. CASE f \notin 1 .. limit
  BY <1>1, <1>3 DEF IsClient, IsOrigin, Open
<1> QED
  BY <1>2, <1>3

\* The pieces of a response, and the body length that each announces.
LEMMA PieceFacts ==
    ASSUME NEW k \in Conns
    PROVE  /\ Body(k) \in Pieces /\ Image(k) \in Pieces /\ Stub(k) \in Pieces
           /\ \A st \in {200, 404, 408, 500} : \A n \in {NoLength, 1, MaxChunks} :
                 Header(k, st, n) \in Pieces
           /\ BodyLength(Stub(k)) = 0 /\ BodyLength(Header(k, 404, NoLength)) = 0
           /\ BodyLength(Header(k, 200, NoLength)) = -1
           /\ BodyLength(Header(k, 200, MaxChunks)) = MaxChunks
<1>1. MaxChunks # -1
  BY ForwardAssumption
<1> QED
  BY <1>1 DEF Pieces, Body, Image, Stub, Header, NoLength, BodyLength, StatusCode

\* A body length is a number of pieces, or -1.
LEMMA BodyLengthType ==
    ASSUME NEW p \in Pieces
    PROVE  BodyLength(p) \in {-1} \cup Nat /\ BodyLength(p) \in -1 .. MaxChunks
<1>1. p.len \in {-1, 0, 1, MaxChunks} /\ {0, 1, MaxChunks} \subseteq Nat /\ 1 <= MaxChunks
  BY ForwardAssumption DEF Pieces, NoLength
<1> QED
  BY <1>1 DEF BodyLength, NoLength

\* A worker between two connections.
LEMMA IdleFacts ==
    ASSUME limit \in Nat
    PROVE  /\ Idle \in WorkerType
           /\ Idle.at = "wait" /\ Idle.toClose = <<>> /\ Idle.jpg = FALSE
<1>1. Stub(CHOOSE k \in Conns : TRUE) \in Pieces
  BY ConnsFacts, PieceFacts
<1> QED
  BY <1>1, ConnsFacts, ForwardAssumption DEF Idle, WorkerType, Pcs, Closings

----------------------------------------------------------------------------
(* Steps of the worker that open and close nothing.                        *)

\* The fields of a worker.
LEMMA WorkerFields ==
    ASSUME NEW r \in WorkerType
    PROVE  /\ r.at \in Pcs /\ r.fd \in 0 .. limit /\ r.req \in Conns /\ r.jpg \in BOOLEAN
           /\ r.from \in 0 .. limit /\ r.piece \in Pieces /\ r.len \in -1 .. MaxChunks
           /\ r.got \in 0 .. MaxChunks /\ r.status \in {0, 404, 408, 500} /\ r.toClose \in Closings
  BY DEF WorkerType

\* What these steps leave alone, and the types of what they may change.
Inner ==
    /\ UNCHANGED <<clientVars, limit, alive, fdt, list>>
    /\ \A k \in Conns : /\ conn'[k].server = conn[k].server /\ conn'[k].client = conn[k].client
                        /\ conn'[k].file = conn[k].file
    /\ conn' \in [Conns -> ConnType] /\ origin' \in [Conns -> OriginType]
    /\ faulted' \in [Workers -> BOOLEAN] /\ serverSock' \in 0 .. limit
    /\ sent' \in [Conns -> Seq(Pieces)]
    /\ Rpc!RpcTypeOK' /\ (faults' = 0 => faults = 0)

\* All these pieces belong to the answer to k.
About(k, s) == \A i \in DOMAIN s : s[i].req = k

\* The worker has its client and says so: the tables stay in order.
LEMMA MoveStep ==
    ASSUME SocketInv, NEW w, Workers = {w}, worker[w].at \in Busy, Inner,
           worker' \in [Workers -> WorkerType], worker'[w].fd = worker[w].fd,
           HoldsClient(w)', HoldsServer(w)' <=> HoldsServer(w),
           HoldsServer(w) => serverSock' = serverSock,
           HoldingAt(w)', StageAt(w)', CallInv',
           \A k \in Conns : k # worker[w].req => sent'[k] = sent[k],
           About(worker[w].req, sent'[worker[w].req])
    PROVE  SocketInv'
<1>1. SocketTypeOK /\ Ahead /\ TableInv /\ CallInv /\ AnswerInv /\ HoldingAt(w)
  BY DEF SocketInv, TableInv
<1>2. worker[w].req \in Conns /\ fdt[worker[w].fd] = ToClient(worker[w].req)
  BY <1>1, WorkerFields DEF SocketTypeOK, HoldingAt
<1>3. SocketTypeOK'
  BY <1>1 DEF SocketTypeOK, Inner, clientVars, params, ThreadType, WorkerType, ConnType, OriginType
<1>4. Ahead'
  BY <1>1 DEF Ahead, Inner, clientVars, params
<1>5. /\ fdt' = fdt /\ list' = list /\ Queued' = Queued
      /\ \A f : (IsClient(f)' <=> IsClient(f)) /\ (Open(f)' <=> Open(f))
  BY DEF Inner, Queued, IsClient, Open
<1>6. TableInv'
  <2>1. ASSUME NEW f \in DOMAIN fdt, IsClient(f) PROVE conn'[fdt[f][2]].server = "open"
    <3>1. fdt[f][2] \in Conns
      BY <1>1, <2>1, TableFacts
    <3> QED
      BY <3>1, <2>1, <1>1 DEF TableInv, Inner
  <2>2. HoldsClient(w) \/ worker[w].at = "error"
    BY DEF Busy, HoldsClient
  <2>3. ASSUME NEW f \in DOMAIN fdt, Open(f) PROVE InUse(f)'
    <3>1. \/ f \in Queued
          \/ HoldsClient(w) /\ worker[w].fd = f
          \/ HoldsServer(w) /\ serverSock = f
      BY <1>1, <2>3 DEF TableInv, InUse
    <3> QED
      BY <3>1, <1>5 DEF InUse
  <2> QED
    BY <1>1, <1>5, <2>1, <2>3 DEF TableInv
<1>7. AnswerInv'
  <2>1. OwnAnswer'
    BY <1>1 DEF AnswerInv, OwnAnswer, About
  <2>2. ASSUME NEW k \in Conns, sent'[k] # <<>> PROVE fdt[worker[w].fd] = ToClient(k)
    <3>1. CASE k = worker[w].req
      BY <3>1, <1>2
    <3>2. CASE k # worker[w].req
      BY <3>2, <2>2, <1>1 DEF AnswerInv
    <3> QED
      BY <3>1, <3>2
  <2>3. \A k \in Conns : sent'[k] # <<>> =>
           \E v \in Workers : HoldsClient(v)' /\ fdt'[worker'[v].fd] = ToClient(k)
    BY <1>5, <2>2
  <2> QED
    BY <2>1, <2>3 DEF AnswerInv
<1> QED
  BY <1>3, <1>4, <1>6, <1>7 DEF SocketInv

\* The call of compress() does not change; failures are not forgotten.
LEMMA CallKept ==
    ASSUME NEW w, CallAt(w), UNCHANGED rpcVars, faults' = 0 => faults = 0
    PROVE  CallAt(w)'
  BY DEF CallAt, rpcVars

\* A call works or fails.
LEMMA FaultFacts ==
    ASSUME faults \in 0 .. MaxFaults, Works \/ Fails
    PROVE  /\ faults' \in 0 .. MaxFaults /\ (faults' = 0 => faults = 0)
           /\ Fails => faults' > 0
  BY MaxFaultsNat DEF Works, Fails

\* The types of the RPC server stay when it does nothing.
LEMMA RpcTypeKept ==
    ASSUME Rpc!RpcTypeOK, UNCHANGED rpcVars, Works \/ Fails
    PROVE  Rpc!RpcTypeOK' /\ (faults' = 0 => faults = 0)
<1>1. faults \in 0 .. MaxFaults
  BY DEF Rpc!RpcTypeOK
<1>2. faults' \in 0 .. MaxFaults /\ (faults' = 0 => faults = 0)
  BY <1>1, FaultFacts
<1> QED
  BY <1>2 DEF Rpc!RpcTypeOK, rpcVars

\* The fields that Leave() sets.
LEMMA SetLeave ==
    ASSUME NEW r \in WorkerType, NEW a \in Pcs, NEW f \in 0 .. limit, NEW cl \in Closings
    PROVE  [r EXCEPT !.at = a, !.fd = f, !.toClose = cl] \in WorkerType
<1> DEFINE q1 == [r EXCEPT !.at = a]
           q2 == [q1 EXCEPT !.fd = f]
           q3 == [q2 EXCEPT !.toClose = cl]
<1>1. q1 \in WorkerType
  BY DEF WorkerType
<1> HIDE DEF q1
<1>2. q2 \in WorkerType
  BY <1>1 DEF WorkerType
<1> HIDE DEF q2
<1>3. q3 \in WorkerType
  BY <1>2 DEF WorkerType
<1> QED
  BY <1>3 DEF q1, q2, q3

\* The status codes of sendError().
Failures == {404, 408, 500}

\* sendError() is next.
LEMMA FailFacts ==
    ASSUME SocketTypeOK, NEW w \in Workers, NEW st \in Failures, NEW cl \in Closings,
           Fail(w, st, cl)
    PROVE  /\ worker' \in [Workers -> WorkerType]
           /\ worker'[w].at = "error" /\ worker'[w].fd = worker[w].fd /\ worker'[w].req = worker[w].req
           /\ worker'[w].status = st /\ worker'[w].toClose = cl /\ worker'[w].jpg = FALSE
<1>1. worker \in [Workers -> WorkerType] /\ worker[w] \in WorkerType /\ limit \in Nat
  BY ForwardAssumption DEF SocketTypeOK
<1>2. Idle \in WorkerType /\ st \in {0, 404, 408, 500} /\ "error" \in Pcs
  BY <1>1, IdleFacts DEF Pcs, Failures
<1>3. worker[w].fd \in 0 .. limit /\ worker[w].req \in Conns
  BY <1>1, WorkerFields
<1> DEFINE r == [Idle EXCEPT !.at = "error", !.fd = worker[w].fd,
                 !.req = worker[w].req, !.status = st, !.toClose = cl]
<1>4. /\ r.at = "error" /\ r.fd = worker[w].fd /\ r.req = worker[w].req
      /\ r.status = st /\ r.toClose = cl /\ r.jpg = FALSE
  BY DEF Idle
<1>5. r \in WorkerType
  <2> DEFINE q1 == [Idle EXCEPT !.at = "error"]
             q2 == [q1 EXCEPT !.fd = worker[w].fd]
             q3 == [q2 EXCEPT !.req = worker[w].req]
             q4 == [q3 EXCEPT !.status = st]
             q5 == [q4 EXCEPT !.toClose = cl]
  <2>1. q1 \in WorkerType
    BY <1>2 DEF WorkerType
  <2> HIDE DEF q1
  <2>2. q2 \in WorkerType
    BY <1>3, <2>1 DEF WorkerType
  <2> HIDE DEF q2
  <2>3. q3 \in WorkerType
    BY <1>3, <2>2 DEF WorkerType
  <2> HIDE DEF q3
  <2>4. q4 \in WorkerType
    BY <1>2, <2>3 DEF WorkerType
  <2> HIDE DEF q4
  <2>5. q5 \in WorkerType
    BY <2>4 DEF WorkerType
  <2> QED
    BY <2>5 DEF q1, q2, q3, q4, q5
<1>6. worker' = [worker EXCEPT ![w] = r]
  BY DEF Fail
<1> HIDE DEF r
<1>7. worker'[w] = r /\ worker' \in [Workers -> WorkerType]
  BY <1>1, <1>5, <1>6
<1> QED
  BY <1>4, <1>7

\* close() is next.
LEMMA LeaveFacts ==
    ASSUME SocketTypeOK, NEW w \in Workers, NEW cl \in Closings, Leave(w, cl)
    PROVE  /\ worker' \in [Workers -> WorkerType]
           /\ worker'[w].at = "close" /\ worker'[w].fd = worker[w].fd
           /\ worker'[w].toClose = cl /\ worker'[w].jpg = FALSE
<1>1. worker \in [Workers -> WorkerType] /\ worker[w] \in WorkerType /\ limit \in Nat
  BY ForwardAssumption DEF SocketTypeOK
<1>2. Idle \in WorkerType /\ "close" \in Pcs
  BY <1>1, IdleFacts DEF Pcs
<1>3. worker[w].fd \in 0 .. limit
  BY <1>1, WorkerFields
<1> DEFINE r == [Idle EXCEPT !.at = "close", !.fd = worker[w].fd, !.toClose = cl]
<1>4. r.at = "close" /\ r.fd = worker[w].fd /\ r.toClose = cl /\ r.jpg = FALSE
  BY DEF Idle
<1>5. r \in WorkerType
  BY <1>2, <1>3, SetLeave
<1>6. worker' = [worker EXCEPT ![w] = r]
  BY DEF Leave
<1> HIDE DEF r
<1>7. worker'[w] = r /\ worker' \in [Workers -> WorkerType]
  BY <1>1, <1>5, <1>6
<1> QED
  BY <1>4, <1>7

\* What is to be closed, of the lists there are.
LEMMA ClosesFacts ==
    ASSUME NEW w
    PROVE  /\ worker[w].toClose = <<>> => ~ Closes(w, "client") /\ ~ Closes(w, "server")
           /\ worker[w].toClose = <<"client">> => Closes(w, "client") /\ ~ Closes(w, "server")
           /\ worker[w].toClose = <<"server">> => ~ Closes(w, "client") /\ Closes(w, "server")
           /\ worker[w].toClose \in {<<"client", "server">>, <<"server", "client">>} =>
                Closes(w, "client") /\ Closes(w, "server")
<1>1. /\ DOMAIN <<>> = {} /\ DOMAIN <<"client">> = {1} /\ DOMAIN <<"server">> = {1}
      /\ DOMAIN <<"client", "server">> = {1, 2} /\ DOMAIN <<"server", "client">> = {1, 2}
  OBVIOUS
<1>2. "client" # "server"
  OBVIOUS
<1> QED
  BY <1>1, <1>2 DEF Closes

\* A worker that has not begun to close has both ends of its connection.
LEMMA BusyFacts ==
    ASSUME SocketInv, NEW w, Workers = {w}, worker[w].at \in Busy
    PROVE  /\ SocketTypeOK /\ Ahead /\ TableInv /\ CallInv /\ AnswerInv
           /\ HoldingAt(w) /\ StageAt(w) /\ CallAt(w)
           /\ worker[w].at # "close" /\ HoldsClient(w)
           /\ worker[w].at # "error" =>
                worker[w].toClose = <<>> /\ (HoldsServer(w) <=> worker[w].at \in Upstream)
           /\ worker[w].at = "error" =>
                /\ worker[w].toClose \in {<<"client">>, <<"client", "server">>}
                /\ (HoldsServer(w) <=> worker[w].toClose = <<"client", "server">>)
           /\ worker[w] \in WorkerType /\ worker[w].req \in Conns /\ worker[w].fd \in 0 .. limit
           /\ IsClient(worker[w].fd) /\ worker[w].fd \notin Queued
           /\ fdt[worker[w].fd] = ToClient(worker[w].req)
           /\ fdt[worker[w].fd][2] = worker[w].req
           /\ conn[worker[w].req].server = "open"
           /\ HoldsServer(w) => IsOrigin(serverSock)
           /\ worker[w].at \in Upstream =>
                /\ IsOrigin(serverSock) /\ fdt[serverSock] = ToOrigin(worker[w].req)
                /\ fdt[serverSock][2] = worker[w].req
<1>1. /\ SocketTypeOK /\ Ahead /\ TableInv /\ CallInv /\ AnswerInv
      /\ HoldingAt(w) /\ StageAt(w) /\ CallAt(w)
  BY DEF SocketInv, TableInv, CallInv, AnswerInv
<1>2. worker[w].at # "close" /\ "error" \notin Upstream
  BY DEF Busy, Upstream
<1>3. worker[w].at # "error" =>
        /\ worker[w].toClose = <<>> /\ HoldsClient(w)
        /\ (HoldsServer(w) <=> worker[w].at \in Upstream)
  <2>1. worker[w].at # "error" => worker[w].toClose = <<>>
    BY <1>1, <1>2 DEF HoldingAt
  <2> QED
    BY <2>1, ClosesFacts DEF Busy, HoldsClient, HoldsServer
<1>4. worker[w].at = "error" =>
        /\ worker[w].toClose \in {<<"client">>, <<"client", "server">>} /\ HoldsClient(w)
        /\ (HoldsServer(w) <=> worker[w].toClose = <<"client", "server">>)
  <2>1. worker[w].at = "error" => worker[w].toClose \in {<<"client">>, <<"client", "server">>}
    BY <1>1 DEF HoldingAt
  <2>2. <<"client">> # <<"client", "server">>
    OBVIOUS
  <2> QED
    BY <1>2, <2>1, <2>2, ClosesFacts DEF HoldsClient, HoldsServer
<1>5. worker[w] \in WorkerType /\ worker[w].req \in Conns /\ worker[w].fd \in 0 .. limit
  BY <1>1, WorkerFields DEF SocketTypeOK
<1>6. IsClient(worker[w].fd) /\ worker[w].fd \notin Queued /\ fdt[worker[w].fd] = ToClient(worker[w].req)
  BY <1>1, <1>3, <1>4 DEF HoldingAt
<1>7. fdt[worker[w].fd][2] = worker[w].req
  BY <1>5, <1>6, DescriptorFacts
<1>8. conn[worker[w].req].server = "open"
  <2>1. worker[w].fd \in DOMAIN fdt
    BY <1>6 DEF IsClient, Open
  <2> QED
    BY <1>1, <1>6, <1>7, <2>1 DEF TableInv
<1>9. HoldsServer(w) => IsOrigin(serverSock)
  BY <1>1 DEF HoldingAt
<1>10. worker[w].at \in Upstream =>
        /\ IsOrigin(serverSock) /\ fdt[serverSock] = ToOrigin(worker[w].req)
        /\ fdt[serverSock][2] = worker[w].req
  BY <1>1, <1>5, DescriptorFacts DEF HoldingAt, HoldsServer
<1> QED
  BY <1>1, <1>2, <1>3, <1>4, <1>5, <1>6, <1>7, <1>8, <1>9, <1>10

\* An early exit: sendError() will follow what has been sent so far.
LEMMA FailStep ==
    ASSUME SocketInv, NEW w, Workers = {w}, worker[w].at \in Busy \ {"error"}, Inner,
           NEW st \in Failures,
           NEW cl, cl = IF worker[w].at \in Upstream THEN <<"client", "server">> ELSE <<"client">>,
           Fail(w, st, cl), worker[w].at \in Upstream => serverSock' = serverSock,
           sent' = sent, CallAt(w)', call'[w].at = "idle",
           conn[worker[w].req].client = "open" => Unfinished(sent[worker[w].req])
    PROVE  SocketInv'
<1>1. w \in Workers /\ cl \in Closings
  BY DEF Closings
<1>2. /\ SocketTypeOK /\ HoldingAt(w) /\ AnswerInv /\ HoldsClient(w)
      /\ (HoldsServer(w) <=> worker[w].at \in Upstream)
      /\ IsClient(worker[w].fd) /\ worker[w].fd \notin Queued
      /\ worker[w].req \in Conns /\ fdt[worker[w].fd] = ToClient(worker[w].req)
      /\ (worker[w].at \in Upstream => IsOrigin(serverSock))
  <2>1. worker[w].at \in Busy /\ worker[w].at # "error"
    OBVIOUS
  <2> QED
    BY <2>1, BusyFacts
<1>3. /\ worker' \in [Workers -> WorkerType]
      /\ worker'[w].at = "error" /\ worker'[w].fd = worker[w].fd /\ worker'[w].req = worker[w].req
      /\ worker'[w].status = st /\ worker'[w].toClose = cl /\ worker'[w].jpg = FALSE
  <2>1. SocketTypeOK /\ w \in Workers /\ st \in Failures /\ cl \in Closings /\ Fail(w, st, cl)
    BY <1>1, <1>2
  <2> QED
    BY ONLY <2>1, FailFacts
<1>4. Closes(w, "client")' /\ (Closes(w, "server")' <=> worker[w].at \in Upstream)
  <2>1. CASE worker[w].at \in Upstream
    <3>1. worker'[w].toClose = <<"client", "server">>
      BY <1>3, <2>1
    <3>2. DOMAIN <<"client", "server">> = {1, 2}
      OBVIOUS
    <3> QED
      BY <2>1, <3>1, <3>2 DEF Closes
  <2>2. CASE worker[w].at \notin Upstream
    <3>1. worker'[w].toClose = <<"client">>
      BY <1>3, <2>2
    <3>2. DOMAIN <<"client">> = {1} /\ "client" # "server"
      OBVIOUS
    <3> QED
      BY <2>2, <3>1, <3>2 DEF Closes
  <2> QED
    BY <2>1, <2>2
<1>5. HoldsClient(w)' /\ (HoldsServer(w)' <=> HoldsServer(w))
  BY <1>2, <1>3, <1>4 DEF HoldsClient, HoldsServer, Upstream
<1>6. /\ fdt' = fdt /\ Queued' = Queued
      /\ \A f : (IsClient(f)' <=> IsClient(f)) /\ (IsOrigin(f)' <=> IsOrigin(f))
  BY DEF Inner, Queued, IsClient, IsOrigin, Open
<1>7. HoldingAt(w)'
  <2>1. cl \in {<<"client">>, <<"client", "server">>}
    OBVIOUS
  <2>2. HoldsServer(w) => IsOrigin(serverSock) /\ serverSock' = serverSock
    BY <1>2
  <2>3. "error" \notin Upstream /\ "error" # "close" /\ "error" \notin {"header", "body", "rpc", "image"}
    BY DEF Upstream
  <2>4. IsClient(worker[w].fd)' /\ (worker[w].fd \notin Queued)' /\ (fdt[worker[w].fd] = ToClient(worker[w].req))'
    BY <1>2, <1>3, <1>6
  <2>5. HoldsServer(w)' => IsOrigin(serverSock)'
    BY <1>5, <1>6, <2>2
  <2> QED
    BY <1>3, <2>1, <2>3, <2>4, <2>5 DEF HoldingAt
<1>8. StageAt(w)'
  <2>1. conn'[worker'[w].req].client = conn[worker[w].req].client /\ sent'[worker'[w].req] = sent[worker[w].req]
    BY <1>2, <1>3 DEF Inner
  <2>2. "error" \notin Upstream \cup {"resolve", "request", "close"}
    BY DEF Upstream
  <2>3. st # 0
    BY DEF Failures
  <2>4. (conn[worker[w].req].client = "open" => Unfinished(sent[worker[w].req]))
           => (conn'[worker'[w].req].client = "open" => Unfinished(sent[worker[w].req])')
    BY <2>1
  <2> QED
    BY <1>3, <2>2, <2>3, <2>4 DEF StageAt, Upstream
<1>9. CallInv'
  BY <1>3 DEF CallInv, Inner
<1>10. \A k \in Conns : k # worker[w].req => sent'[k] = sent[k]
  OBVIOUS
<1>11. About(worker[w].req, sent'[worker[w].req])
  BY <1>2 DEF AnswerInv, OwnAnswer, About
<1>12. HoldsServer(w) => serverSock' = serverSock
  BY <1>2
<1> QED
  BY <1>3, <1>5, <1>7, <1>8, <1>9, <1>10, <1>11, <1>12, MoveStep

\* The way out: close() will follow.
LEMMA LeaveStep ==
    ASSUME SocketInv, NEW w, Workers = {w}, worker[w].at \in Busy, Inner,
           NEW cl, cl \in {<<"client">>, <<"client", "server">>, <<"server", "client">>},
           cl = <<"client">> <=> ~ HoldsServer(w),
           Leave(w, cl), serverSock' = serverSock,
           CallAt(w)', call'[w].at = "idle",
           \A k \in Conns : k # worker[w].req => sent'[k] = sent[k],
           About(worker[w].req, sent'[worker[w].req]),
           NEW c, c = worker[w].req, AnswerDone(c)'
    PROVE  SocketInv'
<1>1. w \in Workers /\ cl \in Closings
  BY DEF Closings
<1>2. /\ SocketTypeOK /\ HoldsClient(w) /\ (HoldsServer(w) => IsOrigin(serverSock))
      /\ IsClient(worker[w].fd) /\ worker[w].fd \notin Queued /\ fdt[worker[w].fd][2] = c
  BY BusyFacts
<1>3. /\ worker' \in [Workers -> WorkerType]
      /\ worker'[w].at = "close" /\ worker'[w].fd = worker[w].fd
      /\ worker'[w].toClose = cl /\ worker'[w].jpg = FALSE
  <2>1. SocketTypeOK /\ w \in Workers /\ cl \in Closings /\ Leave(w, cl)
    BY <1>1, <1>2
  <2> QED
    BY ONLY <2>1, LeaveFacts
<1>4. Closes(w, "client")' /\ (Closes(w, "server")' <=> cl # <<"client">>)
  <2>1. /\ DOMAIN <<"client">> = {1} /\ "client" # "server"
        /\ DOMAIN <<"client", "server">> = {1, 2} /\ DOMAIN <<"server", "client">> = {1, 2}
        /\ <<"client">> # <<"client", "server">> /\ <<"client">> # <<"server", "client">>
    OBVIOUS
  <2>2. CASE cl = <<"client">>
    <3>1. worker'[w].toClose = <<"client">>
      BY <1>3, <2>2
    <3> QED
      BY <2>1, <2>2, <3>1 DEF Closes
  <2>3. CASE cl = <<"client", "server">>
    <3>1. worker'[w].toClose = <<"client", "server">>
      BY <1>3, <2>3
    <3> QED
      BY <2>1, <2>3, <3>1 DEF Closes
  <2>4. CASE cl = <<"server", "client">>
    <3>1. worker'[w].toClose = <<"server", "client">>
      BY <1>3, <2>4
    <3> QED
      BY <2>1, <2>4, <3>1 DEF Closes
  <2> QED
    BY <2>2, <2>3, <2>4
<1>5. HoldsClient(w)' /\ (HoldsServer(w)' <=> HoldsServer(w))
  BY <1>2, <1>3, <1>4 DEF HoldsClient, HoldsServer, Upstream
<1>6. /\ fdt' = fdt /\ Queued' = Queued
      /\ \A f : (IsClient(f)' <=> IsClient(f)) /\ (IsOrigin(f)' <=> IsOrigin(f))
  BY DEF Inner, Queued, IsClient, IsOrigin, Open
<1>7. HoldingAt(w)'
  <2>1. cl # <<>>
    OBVIOUS
  <2>2. "close" \notin Upstream \cup Busy /\ "error" # "close" /\ "close" \notin {"header", "body", "rpc", "image"}
    BY DEF Upstream, Busy
  <2>3. IsClient(worker[w].fd)' /\ (worker[w].fd \notin Queued)'
    BY <1>2, <1>3, <1>6
  <2>4. HoldsServer(w)' => IsOrigin(serverSock)'
    BY <1>2, <1>5, <1>6
  <2> QED
    BY <1>3, <2>1, <2>2, <2>3, <2>4 DEF HoldingAt
<1>8. StageAt(w)'
  <2>1. fdt'[worker'[w].fd][2] = c
    BY <1>2, <1>3, <1>6
  <2>2. "close" \notin Upstream \cup {"resolve", "request", "error"}
    BY DEF Upstream
  <2>3. AnswerDone(fdt[worker[w].fd][2])'
    BY <2>1
  <2> QED
    BY <1>3, <2>2, <2>3 DEF StageAt, Upstream
<1>9. CallInv'
  BY <1>3 DEF CallInv, Inner
<1> QED
  BY <1>2, <1>3, <1>5, <1>7, <1>8, <1>9, MoveStep

\* The next call on the way, with the same descriptors.
LEMMA AdvanceStep ==
    ASSUME SocketInv, NEW w, Workers = {w}, worker[w].at \in Busy \ {"error"}, Inner,
           worker' \in [Workers -> WorkerType], worker'[w].at \in Busy \ {"error"},
           worker'[w].at \in Upstream <=> worker[w].at \in Upstream,
           worker'[w].fd = worker[w].fd, worker'[w].req = worker[w].req,
           worker'[w].toClose = worker[w].toClose, serverSock' = serverSock,
           worker'[w].at \in {"header", "body", "rpc", "image"} => worker'[w].from = serverSock,
           StageAt(w)', CallInv',
           \A k \in Conns : k # worker[w].req => sent'[k] = sent[k],
           About(worker[w].req, sent'[worker[w].req])
    PROVE  SocketInv'
<1>1. worker[w].at \in Busy /\ worker[w].at # "error"
  OBVIOUS
<1>2. /\ worker[w].toClose = <<>> /\ HoldsClient(w) /\ (HoldsServer(w) <=> worker[w].at \in Upstream)
      /\ IsClient(worker[w].fd) /\ worker[w].fd \notin Queued
      /\ fdt[worker[w].fd] = ToClient(worker[w].req)
      /\ worker[w].at \in Upstream => IsOrigin(serverSock) /\ fdt[serverSock] = ToOrigin(worker[w].req)
  BY <1>1, BusyFacts
<1>3. ~ Closes(w, "client")' /\ ~ Closes(w, "server")'
  BY <1>2 DEF Closes
<1>4. HoldsClient(w)' /\ (HoldsServer(w)' <=> HoldsServer(w))
  BY <1>2, <1>3 DEF HoldsClient, HoldsServer, Busy
<1>5. /\ fdt' = fdt /\ Queued' = Queued
      /\ \A f : (IsClient(f)' <=> IsClient(f)) /\ (IsOrigin(f)' <=> IsOrigin(f))
  BY DEF Inner, Queued, IsClient, IsOrigin, Open
<1>6. HoldingAt(w)'
  <2>1. worker'[w].at # "error" /\ worker'[w].at # "close"
    BY DEF Busy, Upstream
  <2>2. IsClient(worker[w].fd)' /\ (worker[w].fd \notin Queued)' /\ (fdt[worker[w].fd] = ToClient(worker[w].req))'
    BY <1>2, <1>5
  <2>3. HoldsServer(w)' => IsOrigin(serverSock)'
    BY <1>2, <1>4, <1>5
  <2>4. worker'[w].at \in Upstream => (fdt[serverSock] = ToOrigin(worker[w].req))'
    BY <1>2, <1>5
  <2> QED
    BY <1>2, <2>1, <2>2, <2>3, <2>4 DEF HoldingAt
<1> QED
  BY <1>1, <1>2, <1>4, <1>6, MoveStep

----------------------------------------------------------------------------
(* The steps of handleClient() between accept() and close().               *)

\* Nothing is under way to the RPC server, and it stays that way.
LEMMA CallInvKept ==
    ASSUME SocketInv, NEW w, Workers = {w}, UNCHANGED rpcVars, alive, alive' = alive,
           faults' = 0 => faults = 0, worker[w].at # "image"
    PROVE  /\ CallAt(w)' /\ call'[w].at = "idle" /\ (worker'[w].at # "image" => CallInv')
<1>1. CallInv /\ CallAt(w) /\ call[w].at = "idle"
  BY DEF SocketInv, CallInv
<1>2. CallAt(w)' /\ call'[w].at = "idle"
  BY <1>1, CallKept DEF rpcVars
<1> QED
  BY <1>2 DEF CallInv

\* What a step that only moves the worker leaves alone.
LEMMA InnerKept ==
    ASSUME SocketInv, UNCHANGED <<clientVars, process, fdt, list, rpcVars>>, Works \/ Fails,
           UNCHANGED <<conn, sent>>, origin' \in [Conns -> OriginType],
           faulted' \in [Workers -> BOOLEAN], serverSock' \in 0 .. limit
    PROVE  Inner /\ (faults' = 0 => faults = 0)
<1>1. SocketTypeOK
  BY DEF SocketInv
<1>2. Rpc!RpcTypeOK' /\ (faults' = 0 => faults = 0)
  BY <1>1, RpcTypeKept DEF SocketTypeOK
<1> QED
  BY <1>1, <1>2 DEF Inner, SocketTypeOK, process

\* sendAll() to the client the worker has.
LEMMA PutFacts ==
    ASSUME SocketTypeOK, NEW f, IsClient(f), NEW k \in Conns, fdt[f] = ToClient(k),
           NEW pieces \in Seq(Pieces), Put(f, pieces)
    PROVE  /\ conn' \in [Conns -> ConnType] /\ sent' \in [Conns -> Seq(Pieces)]
           /\ \A j \in Conns : /\ conn'[j].server = conn[j].server /\ conn'[j].client = conn[j].client
                               /\ conn'[j].file = conn[j].file
           /\ \A j \in Conns : j # k => sent'[j] = sent[j]
           /\ sent'[k] = sent[k] \o pieces
<1>1. fdt[f][2] = k /\ conn \in [Conns -> ConnType] /\ sent \in [Conns -> Seq(Pieces)]
  BY DescriptorFacts DEF SocketTypeOK
<1>2. /\ conn' = IF Reaches(f) THEN [conn EXCEPT ![k].down = @ \o pieces] ELSE conn
      /\ sent' = [sent EXCEPT ![k] = @ \o pieces]
  BY <1>1 DEF Put
<1>3. sent[k] \o pieces \in Seq(Pieces) /\ conn[k].down \o pieces \in Seq(Pieces)
  BY <1>1 DEF ConnType
<1> DEFINE c == [conn[k] EXCEPT !.down = @ \o pieces]
<1>4. /\ c \in ConnType /\ c.server = conn[k].server /\ c.client = conn[k].client
      /\ c.file = conn[k].file
  BY <1>1, <1>3 DEF ConnType
<1>5. conn' = conn \/ conn' = [conn EXCEPT ![k] = c]
  BY <1>2
<1> HIDE DEF c
<1>6. /\ conn' \in [Conns -> ConnType]
      /\ \A j \in Conns : /\ conn'[j].server = conn[j].server /\ conn'[j].client = conn[j].client
                          /\ conn'[j].file = conn[j].file
  BY <1>1, <1>4, <1>5
<1>7. /\ sent' \in [Conns -> Seq(Pieces)] /\ sent'[k] = sent[k] \o pieces
      /\ \A j \in Conns : j # k => sent'[j] = sent[j]
  BY <1>1, <1>2, <1>3
<1> QED
  BY <1>6, <1>7

\* sendAll() fails only when the client is gone.
LEMMA SendFailsFacts ==
    ASSUME NEW f, IsClient(f), NEW k \in Conns, fdt[f] = ToClient(k), SendFails(f)
    PROVE  UNCHANGED <<conn, sent>> /\ conn[k].client # "open"
  BY DescriptorFacts DEF SendFails, Reaches

\* Before the first piece is sent, no answer is whole.
LEMMA NothingSent == Unfinished(<<>>)
<1>1. DOMAIN <<>> = {}
  OBVIOUS
<1> QED
  BY <1>1 DEF Unfinished, WholeAnswer

\* recvHeader() of the request and what follows from it.
LEMMA RecvRequestStep ==
    ASSUME SocketInv, NEW w, Workers = {w}, alive, RecvRequest(w), UNCHANGED clientVars
    PROVE  SocketInv'
<1> DEFINE k == worker[w].req
<1>1. worker[w].at = "request" /\ worker[w].at \in Busy \ {"error"} /\ worker[w].at \notin Upstream
  BY DEF RecvRequest, Busy, Upstream
<1>2. /\ SocketTypeOK /\ HoldingAt(w) /\ StageAt(w) /\ k \in Conns /\ worker[w] \in WorkerType
      /\ IsClient(worker[w].fd) /\ fdt[worker[w].fd][2] = k /\ worker[w].toClose = <<>> /\ AnswerInv
  BY <1>1, BusyFacts
<1>3. /\ conn' = [conn EXCEPT ![k].up = NoRequest] /\ (Works \/ Fails)
      /\ UNCHANGED <<process, table, origin, faulted, sent, rpcVars>>
  BY <1>2 DEF RecvRequest
<1>4. Inner /\ (faults' = 0 => faults = 0) /\ conn'[k].file = conn[k].file
  <2>1. conn \in [Conns -> ConnType] /\ NoRequest \in NoRequest .. Whole
    BY <1>2 DEF SocketTypeOK, NoRequest, Whole
  <2> DEFINE c == [conn[k] EXCEPT !.up = NoRequest]
  <2>2. /\ c \in ConnType /\ c.server = conn[k].server /\ c.client = conn[k].client
        /\ c.file = conn[k].file
    BY <1>2, <2>1 DEF ConnType
  <2>3. conn' = [conn EXCEPT ![k] = c]
    BY <1>3
  <2> HIDE DEF c
  <2>4. /\ conn' \in [Conns -> ConnType]
        /\ \A j \in Conns : /\ conn'[j].server = conn[j].server /\ conn'[j].client = conn[j].client
                            /\ conn'[j].file = conn[j].file
    BY <1>2, <2>1, <2>2, <2>3
  <2>5. Rpc!RpcTypeOK' /\ (faults' = 0 => faults = 0)
    BY <1>2, <1>3, RpcTypeKept DEF SocketTypeOK
  <2> QED
    BY <1>2, <1>3, <2>4, <2>5 DEF Inner, SocketTypeOK, process, table
<1>5. CallAt(w)' /\ call'[w].at = "idle" /\ (worker'[w].at # "image" => CallInv')
  BY <1>1, <1>3, <1>4, CallInvKept DEF process
<1>6. sent[k] = <<>> /\ worker[w].got = 0
  BY <1>1, <1>2 DEF StageAt
<1>7. CASE Fail(w, 500, <<"client">>)
  <2>1. 500 \in Failures /\ Unfinished(sent[k]) /\ sent' = sent
    BY <1>3, <1>6, NothingSent DEF Failures
  <2> QED
    BY <1>1, <1>4, <1>5, <1>7, <2>1, FailStep
<1>8. CASE worker' = [worker EXCEPT ![w].at = "resolve", ![w].jpg = COMPRESS /\ IsJPG(k)]
  <2>1. worker \in [Workers -> WorkerType] /\ w \in Workers
    BY <1>2 DEF SocketTypeOK
  <2> DEFINE b == COMPRESS /\ IsJPG(k)
             q == [worker[w] EXCEPT !.at = "resolve"]
             r == [q EXCEPT !.jpg = b]
  <2>2. q \in WorkerType /\ b \in BOOLEAN
    BY <1>2 DEF WorkerType, Pcs
  <2>3. /\ q.at = "resolve" /\ q.fd = worker[w].fd /\ q.req = k /\ q.toClose = <<>>
        /\ q.got = 0
    BY <1>2, <1>6 DEF WorkerType
  <2>4. worker' = [worker EXCEPT ![w] = r]
    BY <1>8
  <2> HIDE DEF q, b
  <2>5. /\ r \in WorkerType /\ r.at = "resolve" /\ r.fd = worker[w].fd /\ r.req = k
        /\ r.toClose = <<>> /\ (r.jpg <=> b) /\ r.got = 0
    BY <2>2, <2>3 DEF WorkerType
  <2> HIDE DEF r
  <2>6. worker' \in [Workers -> WorkerType] /\ worker'[w] = r
    BY <2>1, <2>4, <2>5
  <2>7. StageAt(w)'
    <3>1. b => conn'[k].file \in Pictures
      BY <1>4 DEF b, IsJPG
    <3>2. sent'[k] = <<>>
      BY <1>3, <1>6
    <3> QED
      BY <2>5, <2>6, <3>1, <3>2 DEF StageAt
  <2>8. "resolve" \in Busy \ {"error"} /\ "resolve" \notin Upstream
    BY DEF Busy, Upstream
  <2>9. About(k, sent'[k])
    BY <1>2, <1>3 DEF AnswerInv, OwnAnswer, About
  <2> QED
    BY <1>1, <1>2, <1>3, <1>4, <1>5, <2>5, <2>6, <2>7, <2>8, <2>9, AdvanceStep DEF table
<1> QED
  BY <1>2, <1>7, <1>8 DEF RecvRequest

\* The host is not found, or there is no memory for it.
LEMMA UnresolvedStep ==
    ASSUME SocketInv, NEW w, Workers = {w}, alive, Unresolved(w), UNCHANGED clientVars
    PROVE  SocketInv'
<1>1. worker[w].at = "resolve" /\ worker[w].at \in Busy \ {"error"} /\ worker[w].at \notin Upstream
  BY DEF Unresolved, Busy, Upstream
<1>2. SocketTypeOK /\ StageAt(w) /\ worker[w].req \in Conns
  BY <1>1, BusyFacts
<1>3. UNCHANGED <<process, table, origin, faulted, net, rpcVars>> /\ Fails
  BY DEF Unresolved
<1>4. Inner /\ (faults' = 0 => faults = 0)
  BY <1>2, <1>3, InnerKept DEF SocketTypeOK, table, net
<1>5. CallAt(w)' /\ call'[w].at = "idle"
  BY <1>1, <1>3, <1>4, CallInvKept DEF process
<1>6. Unfinished(sent[worker[w].req]) /\ sent' = sent
  BY <1>1, <1>2, <1>3, NothingSent DEF StageAt, net
<1>7. PICK st \in {404, 500} : Fail(w, st, <<"client">>)
  BY DEF Unresolved
<1>8. st \in Failures
  BY DEF Failures
<1> QED
  BY <1>1, <1>4, <1>5, <1>6, <1>7, <1>8, FailStep

\* Goto() moves a worker and changes nothing else of it.
LEMMA GotoFacts ==
    ASSUME SocketTypeOK, NEW w \in Workers, NEW pc \in Pcs, Goto(w, pc)
    PROVE  /\ worker' \in [Workers -> WorkerType]
           /\ worker'[w].at = pc /\ worker'[w].fd = worker[w].fd /\ worker'[w].req = worker[w].req
           /\ worker'[w].jpg = worker[w].jpg /\ worker'[w].from = worker[w].from
           /\ worker'[w].piece = worker[w].piece /\ worker'[w].len = worker[w].len
           /\ worker'[w].got = worker[w].got /\ worker'[w].toClose = worker[w].toClose
<1>1. worker \in [Workers -> WorkerType] /\ worker[w] \in WorkerType
  BY DEF SocketTypeOK
<1> DEFINE r == [worker[w] EXCEPT !.at = pc]
<1>2. /\ r \in WorkerType
      /\ r.at = pc /\ r.fd = worker[w].fd /\ r.req = worker[w].req
      /\ r.jpg = worker[w].jpg /\ r.from = worker[w].from
      /\ r.piece = worker[w].piece /\ r.len = worker[w].len
      /\ r.got = worker[w].got /\ r.toClose = worker[w].toClose
  BY <1>1 DEF WorkerType
<1>3. worker' = [worker EXCEPT ![w] = r]
  BY DEF Goto
<1> HIDE DEF r
<1>4. worker'[w] = r /\ worker' \in [Workers -> WorkerType]
  BY <1>1, <1>2, <1>3
<1> QED
  BY <1>2, <1>4

\* A step that neither sends to the client nor calls compress().
LEMMA QuietFacts ==
    ASSUME SocketInv, NEW w, Workers = {w}, alive, worker[w].at \in Busy \ {"error", "image"},
           UNCHANGED <<process, table, faulted, net, rpcVars>>, UNCHANGED clientVars,
           Works \/ Fails, origin' \in [Conns -> OriginType]
    PROVE  /\ Inner /\ CallAt(w)' /\ call'[w].at = "idle" /\ (worker'[w].at # "image" => CallInv')
           /\ sent' = sent /\ serverSock' = serverSock /\ (faults' = 0 => faults = 0)
           /\ About(worker[w].req, sent'[worker[w].req])
           /\ conn'[worker[w].req].file = conn[worker[w].req].file
<1>1. SocketTypeOK /\ AnswerInv /\ worker[w].req \in Conns
  <2>1. worker[w].at \in Busy
    OBVIOUS
  <2> QED
    BY <2>1, BusyFacts
<1>2. faulted \in [Workers -> BOOLEAN] /\ serverSock \in 0 .. limit
  BY <1>1 DEF SocketTypeOK
<1>3. Inner /\ (faults' = 0 => faults = 0)
  BY <1>2, InnerKept DEF table, net
<1>4. CallAt(w)' /\ call'[w].at = "idle" /\ (worker'[w].at # "image" => CallInv')
  BY <1>3, CallInvKept DEF process
<1>5. sent' = sent /\ serverSock' = serverSock
  BY DEF net, table
<1>6. About(worker[w].req, sent'[worker[w].req])
  BY <1>1, <1>5 DEF AnswerInv, OwnAnswer, About
<1> QED
  BY <1>1, <1>3, <1>4, <1>5, <1>6 DEF Inner

\* connect() to the origin, or 408.
LEMMA ConnectStep ==
    ASSUME SocketInv, NEW w, Workers = {w}, alive, Connect(w), UNCHANGED clientVars
    PROVE  SocketInv'
<1> DEFINE k == worker[w].req
<1>1. worker[w].at = "connect" /\ worker[w].at \in Busy \ {"error"} /\ worker[w].at \in Upstream
  BY DEF Connect, Busy, Upstream
<1>2. /\ SocketTypeOK /\ StageAt(w) /\ k \in Conns /\ worker[w].toClose = <<>> /\ AnswerInv
      /\ fdt[serverSock][2] = k
  BY <1>1, BusyFacts
<1>3. UNCHANGED <<process, table, faulted, net, rpcVars>> /\ (Works \/ Fails)
  BY DEF Connect
<1>4. origin \in [Conns -> OriginType] /\ w \in Workers /\ sent[k] = <<>> /\ worker[w].got = 0
  BY <1>1, <1>2 DEF SocketTypeOK, StageAt
<1>5. CASE Fail(w, 408, <<"client", "server">>) /\ UNCHANGED origin
  <2>1. 408 \in Failures /\ Unfinished(sent[k])
    BY <1>4, NothingSent DEF Failures
  <2>2. Inner /\ CallAt(w)' /\ call'[w].at = "idle" /\ sent' = sent /\ serverSock' = serverSock
    BY <1>1, <1>3, <1>4, <1>5, QuietFacts
  <2> QED
    BY <1>1, <1>5, <2>1, <2>2, FailStep
<1>6. CASE Goto(w, "strip") /\ origin' = [origin EXCEPT ![k].st = "connected"]
  <2>1. "strip" \in Pcs /\ "strip" \in Busy \ {"error"} /\ "strip" \in Upstream
    BY DEF Pcs, Busy, Upstream
  <2>2. origin' \in [Conns -> OriginType] /\ origin'[k].st = "connected"
    <3> DEFINE o == [origin[k] EXCEPT !.st = "connected"]
    <3>1. o \in OriginType /\ o.st = "connected"
      BY <1>2, <1>4 DEF OriginType
    <3>2. origin' = [origin EXCEPT ![k] = o]
      BY <1>6
    <3> HIDE DEF o
    <3> QED
      BY <1>2, <1>4, <3>1, <3>2
  <2>3. /\ worker' \in [Workers -> WorkerType] /\ worker'[w].at = "strip"
        /\ worker'[w].fd = worker[w].fd /\ worker'[w].req = k /\ worker'[w].jpg = worker[w].jpg
        /\ worker'[w].got = worker[w].got /\ worker'[w].toClose = worker[w].toClose
    BY <1>2, <1>4, <1>6, <2>1, GotoFacts
  <2>4. /\ Inner /\ CallInv' /\ sent' = sent /\ serverSock' = serverSock
        /\ conn'[k].file = conn[k].file /\ About(k, sent'[k])
    BY <1>1, <1>3, <2>2, <2>3, QuietFacts
  <2>5. StageAt(w)'
    <3>1. worker'[w].jpg => conn'[k].file \in Pictures
      BY <1>1, <1>2, <2>3, <2>4 DEF StageAt
    <3>2. sent'[k] = <<>> /\ worker'[w].got = 0
      BY <1>4, <2>3, <2>4
    <3> QED
      BY <2>2, <2>3, <3>1, <3>2 DEF StageAt
  <2> QED
    BY <1>1, <1>2, <2>1, <2>3, <2>4, <2>5, AdvanceStep
<1> QED
  BY <1>2, <1>5, <1>6 DEF Connect

\* The answer an origin has for a request.
LEMMA AnswerFacts ==
    ASSUME NEW k \in Conns, NEW a \in Answers
    PROVE  /\ AnswerOf(k, a) \in Seq(Pieces) /\ AnswerOf(k, a) # <<>>
           /\ Head(AnswerOf(k, a)) = Header(k, a.status, a.len)
           /\ Tail(AnswerOf(k, a)) \in Seq(Pieces) /\ Len(Tail(AnswerOf(k, a))) = a.chunks
           /\ \A i \in DOMAIN Tail(AnswerOf(k, a)) : Tail(AnswerOf(k, a))[i] = Body(k)
           /\ \/ a.status = 200 /\ a.len \in {NoLength, MaxChunks} /\ a.chunks = MaxChunks
              \/ a.status = 404 /\ a.len = NoLength
<1> DEFINE h == Header(k, a.status, a.len)
           b == [i \in 1 .. a.chunks |-> Body(k)]
<1>1. \/ a.status = 200 /\ a.len \in {NoLength, MaxChunks} /\ a.chunks = MaxChunks
      \/ a.status = 404 /\ a.len = NoLength /\ a.chunks = 1
  BY DEF Answers
<1>2. a.chunks \in Nat
  BY <1>1, ForwardAssumption
<1>3. h \in Pieces /\ Body(k) \in Pieces
  BY <1>1, PieceFacts
<1>4. b \in Seq(Pieces) /\ Len(b) = a.chunks /\ \A i \in DOMAIN b : b[i] = Body(k)
  <2>1. b \in [1 .. a.chunks -> Pieces]
    BY <1>3
  <2>2. b \in Seq(Pieces)
    BY <1>2, <2>1
  <2>3. Len(b) = a.chunks
    BY <1>2, <2>2
  <2> QED
    BY <2>2, <2>3
<1> HIDE DEF h, b
<1>5. /\ <<h>> \o b \in Seq(Pieces) /\ <<h>> \o b # <<>> /\ Head(<<h>> \o b) = h
      /\ Tail(<<h>> \o b) = b
  BY <1>3, <1>4
<1>6. AnswerOf(k, a) = <<h>> \o b
  BY DEF AnswerOf, h, b
<1> QED
  BY <1>1, <1>4, <1>5, <1>6 DEF h

\* The request goes to the origin, which has its answer ready.
LEMMA StripAndSendStep ==
    ASSUME SocketInv, NEW w, Workers = {w}, alive, StripAndSend(w), UNCHANGED clientVars
    PROVE  SocketInv'
<1> DEFINE k == worker[w].req
<1>1. worker[w].at = "strip" /\ worker[w].at \in Busy \ {"error"} /\ worker[w].at \in Upstream
  BY DEF StripAndSend, Busy, Upstream
<1>2. /\ SocketTypeOK /\ StageAt(w) /\ k \in Conns /\ worker[w].toClose = <<>> /\ AnswerInv
      /\ fdt[serverSock][2] = k
  BY <1>1, BusyFacts
<1>3. UNCHANGED <<process, table, faulted, net, rpcVars>> /\ (Works \/ Fails)
  BY DEF StripAndSend
<1>4. /\ origin \in [Conns -> OriginType] /\ w \in Workers /\ sent[k] = <<>> /\ worker[w].got = 0
      /\ origin[k].st = "connected"
  BY <1>1, <1>2 DEF SocketTypeOK, StageAt
<1>5. CASE Fail(w, 500, <<"client", "server">>) /\ UNCHANGED origin
  <2>1. 500 \in Failures /\ Unfinished(sent[k])
    BY <1>4, NothingSent DEF Failures
  <2>2. Inner /\ CallAt(w)' /\ call'[w].at = "idle" /\ sent' = sent /\ serverSock' = serverSock
    BY <1>1, <1>3, <1>4, <1>5, QuietFacts
  <2> QED
    BY <1>1, <1>5, <2>1, <2>2, FailStep
<1>6. ASSUME NEW a \in Answers, Goto(w, "answer"),
             origin' = [origin EXCEPT ![k] = [st |-> "asked", rest |-> AnswerOf(k, a)]]
      PROVE  SocketInv'
  <2>1. "answer" \in Pcs /\ "answer" \in Busy \ {"error"} /\ "answer" \in Upstream
    BY DEF Pcs, Busy, Upstream
  <2>2. origin' \in [Conns -> OriginType] /\ origin'[k].rest = AnswerOf(k, a)
    <3> DEFINE o == [st |-> "asked", rest |-> AnswerOf(k, a)]
    <3>1. o \in OriginType /\ o.rest = AnswerOf(k, a)
      BY <1>2, AnswerFacts DEF OriginType
    <3> HIDE DEF o
    <3> QED
      BY <1>2, <1>4, <1>6, <3>1 DEF o
  <2>3. /\ worker' \in [Workers -> WorkerType] /\ worker'[w].at = "answer"
        /\ worker'[w].fd = worker[w].fd /\ worker'[w].req = k /\ worker'[w].jpg = worker[w].jpg
        /\ worker'[w].got = worker[w].got /\ worker'[w].toClose = worker[w].toClose
    BY <1>2, <1>4, <1>6, <2>1, GotoFacts
  <2>4. /\ Inner /\ CallInv' /\ sent' = sent /\ serverSock' = serverSock
        /\ conn'[k].file = conn[k].file /\ About(k, sent'[k])
    BY <1>1, <1>3, <2>2, <2>3, QuietFacts
  <2>5. StageAt(w)'
    <3>1. worker'[w].jpg => conn'[k].file \in Pictures
      BY <1>1, <1>2, <2>3, <2>4 DEF StageAt
    <3>2. sent'[k] = <<>> /\ worker'[w].got = 0
      BY <1>4, <2>3, <2>4
    <3>3. (\E b \in Answers : origin[worker[w].req].rest = AnswerOf(worker[w].req, b))'
      BY <2>2, <2>3
    <3> QED
      BY <2>3, <3>1, <3>2, <3>3 DEF StageAt
  <2> QED
    BY <1>1, <1>2, <2>1, <2>3, <2>4, <2>5, AdvanceStep
<1>7. \/ Fail(w, 500, <<"client", "server">>) /\ UNCHANGED origin
      \/ /\ Goto(w, "answer")
         /\ \E a \in Answers :
               origin' = [origin EXCEPT ![k] = [st |-> "asked", rest |-> AnswerOf(k, a)]]
  BY <1>2, <1>4 DEF StripAndSend, AnswerOf
<1> QED
  BY <1>5, <1>6, <1>7

\* The fields that GotHeader() sets.
LEMMA GotHeaderFacts ==
    ASSUME SocketTypeOK, NEW w \in Workers, NEW piece \in Pieces, GotHeader(w, piece)
    PROVE  /\ worker' \in [Workers -> WorkerType]
           /\ worker'[w].at = "header" /\ worker'[w].fd = worker[w].fd /\ worker'[w].req = worker[w].req
           /\ worker'[w].jpg = worker[w].jpg /\ worker'[w].from = serverSock
           /\ worker'[w].piece = piece /\ worker'[w].len = BodyLength(piece)
           /\ worker'[w].got = worker[w].got /\ worker'[w].toClose = worker[w].toClose
<1>1. /\ worker \in [Workers -> WorkerType] /\ worker[w] \in WorkerType
      /\ serverSock \in 0 .. limit /\ "header" \in Pcs /\ BodyLength(piece) \in -1 .. MaxChunks
  BY BodyLengthType DEF SocketTypeOK, Pcs
<1> DEFINE n == BodyLength(piece)
           q1 == [worker[w] EXCEPT !.at = "header"]
           q2 == [q1 EXCEPT !.from = serverSock]
           q3 == [q2 EXCEPT !.piece = piece]
           r  == [q3 EXCEPT !.len = n]
<1>2. worker' = [worker EXCEPT ![w] = r]
  BY DEF GotHeader
<1> HIDE DEF n
<1>3. /\ q1 \in WorkerType /\ q1.at = "header"
      /\ q1.fd = worker[w].fd /\ q1.req = worker[w].req /\ q1.jpg = worker[w].jpg
      /\ q1.got = worker[w].got /\ q1.toClose = worker[w].toClose
  BY <1>1 DEF WorkerType
<1> HIDE DEF q1
<1>4. /\ q2 \in WorkerType /\ q2.at = "header" /\ q2.from = serverSock
      /\ q2.fd = worker[w].fd /\ q2.req = worker[w].req /\ q2.jpg = worker[w].jpg
      /\ q2.got = worker[w].got /\ q2.toClose = worker[w].toClose
  BY <1>1, <1>3 DEF WorkerType
<1> HIDE DEF q2
<1>5. /\ q3 \in WorkerType /\ q3.at = "header" /\ q3.from = serverSock /\ q3.piece = piece
      /\ q3.fd = worker[w].fd /\ q3.req = worker[w].req /\ q3.jpg = worker[w].jpg
      /\ q3.got = worker[w].got /\ q3.toClose = worker[w].toClose
  BY <1>1, <1>4 DEF WorkerType
<1> HIDE DEF q3
<1>6. /\ r \in WorkerType /\ r.at = "header" /\ r.from = serverSock /\ r.piece = piece
      /\ r.len = n /\ r.fd = worker[w].fd /\ r.req = worker[w].req /\ r.jpg = worker[w].jpg
      /\ r.got = worker[w].got /\ r.toClose = worker[w].toClose
  BY <1>1, <1>5 DEF WorkerType, n
<1> HIDE DEF r
<1>7. worker'[w] = r /\ worker' \in [Workers -> WorkerType]
  BY <1>1, <1>2, <1>6
<1> QED
  BY <1>6, <1>7 DEF n

\* A header comes from the origin, part of one, or none.
LEMMA RecvAnswerStep ==
    ASSUME SocketInv, NEW w, Workers = {w}, alive, RecvAnswer(w), UNCHANGED clientVars
    PROVE  SocketInv'
<1> DEFINE k == worker[w].req
<1>1. worker[w].at = "answer" /\ worker[w].at \in Busy \ {"error"} /\ worker[w].at \in Upstream
  BY DEF RecvAnswer, Busy, Upstream
<1>2. /\ SocketTypeOK /\ StageAt(w) /\ k \in Conns /\ worker[w].toClose = <<>> /\ AnswerInv
      /\ fdt[serverSock][2] = k
  BY <1>1, BusyFacts
<1>3. UNCHANGED <<process, table, faulted, net, rpcVars>> /\ (Works \/ Fails)
  BY DEF RecvAnswer
<1>4. /\ origin \in [Conns -> OriginType] /\ w \in Workers /\ sent[k] = <<>> /\ worker[w].got = 0
      /\ \E a \in Answers : origin[k].rest = AnswerOf(k, a)
  BY <1>1, <1>2 DEF SocketTypeOK, StageAt
<1>5. CASE Fail(w, 500, <<"client", "server">>) /\ UNCHANGED origin
  <2>1. 500 \in Failures /\ Unfinished(sent[k])
    BY <1>4, NothingSent DEF Failures
  <2>2. Inner /\ CallAt(w)' /\ call'[w].at = "idle" /\ sent' = sent /\ serverSock' = serverSock
    BY <1>1, <1>3, <1>4, <1>5, QuietFacts
  <2> QED
    BY <1>1, <1>5, <2>1, <2>2, FailStep
<1>6. ASSUME NEW piece \in Pieces, GotHeader(w, piece), origin' \in [Conns -> OriginType],
             \/ piece = Stub(k) /\ faults' > 0
             \/ piece = Header(k, 404, NoLength)
             \/ /\ piece \in {Header(k, 200, n) : n \in {NoLength, MaxChunks}}
                /\ Len(origin'[k].rest) = MaxChunks
                /\ \A i \in DOMAIN origin'[k].rest : origin'[k].rest[i] = Body(k)
      PROVE  SocketInv'
  <2>1. "header" \in Busy \ {"error"} /\ "header" \in Upstream
    BY DEF Busy, Upstream
  <2>2. /\ worker' \in [Workers -> WorkerType] /\ worker'[w].at = "header"
        /\ worker'[w].fd = worker[w].fd /\ worker'[w].req = k /\ worker'[w].jpg = worker[w].jpg
        /\ worker'[w].from = serverSock /\ worker'[w].piece = piece
        /\ worker'[w].len = BodyLength(piece)
        /\ worker'[w].got = 0 /\ worker'[w].toClose = worker[w].toClose
    BY <1>2, <1>4, <1>6, GotHeaderFacts
  <2>3. /\ Inner /\ CallInv' /\ sent' = sent /\ serverSock' = serverSock
        /\ conn'[k].file = conn[k].file /\ About(k, sent'[k])
    BY <1>1, <1>3, <1>6, <2>2, QuietFacts
  <2>4. Received(w)'
    <3>1. worker'[w].len = BodyLength(worker[w].piece)'
      BY <2>2
    <3>2. MaxChunks = 0 + MaxChunks
      BY ForwardAssumption
    <3> QED
      BY <1>6, <2>2, <3>1, <3>2 DEF Received
  <2>5. StageAt(w)'
    <3>1. worker'[w].jpg => conn'[k].file \in Pictures
      BY <1>1, <1>2, <2>2, <2>3 DEF StageAt
    <3>2. sent'[k] = <<>> /\ worker'[w].got = 0
      BY <1>4, <2>2, <2>3
    <3> QED
      BY <2>2, <2>4, <3>1, <3>2 DEF StageAt
  <2> QED
    BY <1>1, <1>2, <2>1, <2>2, <2>3, <2>5, AdvanceStep
<1>7. CASE /\ GotHeader(w, Head(origin[k].rest))
           /\ origin' = [origin EXCEPT ![k].rest = Tail(@)]
  <2>1. PICK a \in Answers : origin[k].rest = AnswerOf(k, a)
    BY <1>4
  <2>2. origin' \in [Conns -> OriginType] /\ origin'[k].rest = Tail(AnswerOf(k, a))
    <3> DEFINE o == [origin[k] EXCEPT !.rest = Tail(AnswerOf(k, a))]
    <3>0. Tail(AnswerOf(k, a)) \in Seq(Pieces)
      BY <1>2, AnswerFacts
    <3>1. o \in OriginType /\ o.rest = Tail(AnswerOf(k, a))
      BY <1>2, <1>4, <3>0 DEF OriginType
    <3>2. origin' = [origin EXCEPT ![k] = o]
      BY <1>7, <2>1
    <3> HIDE DEF o
    <3> QED
      BY <1>2, <1>4, <3>1, <3>2
  <2>3. GotHeader(w, Header(k, a.status, a.len))
    BY <1>2, <1>7, <2>1, AnswerFacts
  <2>4. CASE a.status = 404 /\ a.len = NoLength
    <3>1. Header(k, 404, NoLength) \in Pieces
      BY <1>2, PieceFacts
    <3> QED
      BY <1>6, <2>2, <2>3, <2>4, <3>1
  <2>5. CASE a.status = 200 /\ a.len \in {NoLength, MaxChunks} /\ a.chunks = MaxChunks
    <3>1. Header(k, 200, a.len) \in Pieces /\ Header(k, 200, a.len) \in {Header(k, 200, n) : n \in {NoLength, MaxChunks}}
      BY <1>2, <2>5, PieceFacts
    <3>2. /\ Len(origin'[k].rest) = MaxChunks
          /\ \A i \in DOMAIN origin'[k].rest : origin'[k].rest[i] = Body(k)
      BY <1>2, <2>2, <2>5, AnswerFacts
    <3> QED
      BY <1>6, <2>2, <2>3, <2>5, <3>1, <3>2
  <2> QED
    BY <1>2, <2>4, <2>5, AnswerFacts
<1>8. CASE GotHeader(w, Stub(k)) /\ Fails /\ UNCHANGED origin
  <2>1. Stub(k) \in Pieces
    BY <1>2, PieceFacts
  <2>2. faults' > 0
    <3>1. faults \in 0 .. MaxFaults
      BY <1>2 DEF SocketTypeOK, Rpc!RpcTypeOK
    <3> QED
      BY <1>8, <3>1, FaultFacts
  <2> QED
    BY <1>4, <1>6, <1>8, <2>1, <2>2
<1> QED
  BY <1>2, <1>5, <1>7, <1>8 DEF RecvAnswer

\* The client of connection k has been sent these pieces.
Sends(k, pieces) == sent'[k] = sent[k] \o pieces

\* What the worker sends is about its own request.
LEMMA SendFacts ==
    ASSUME SocketInv, NEW w, Workers = {w}, worker[w].at \in Busy, NEW k, k = worker[w].req,
           NEW pieces \in Seq(Pieces), About(k, pieces),
           Put(worker[w].fd, pieces)
    PROVE  /\ conn' \in [Conns -> ConnType] /\ sent' \in [Conns -> Seq(Pieces)]
           /\ \A j \in Conns : /\ conn'[j].server = conn[j].server /\ conn'[j].client = conn[j].client
                               /\ conn'[j].file = conn[j].file
           /\ \A j \in Conns : j # k => sent'[j] = sent[j]
           /\ Sends(k, pieces)
           /\ About(k, sent'[k])
<1>1. /\ SocketTypeOK /\ AnswerInv /\ k \in Conns /\ IsClient(worker[w].fd)
      /\ fdt[worker[w].fd] = ToClient(k)
  BY BusyFacts
<1>2. /\ conn' \in [Conns -> ConnType] /\ sent' \in [Conns -> Seq(Pieces)]
      /\ \A j \in Conns : /\ conn'[j].server = conn[j].server /\ conn'[j].client = conn[j].client
                          /\ conn'[j].file = conn[j].file
      /\ \A j \in Conns : j # k => sent'[j] = sent[j]
      /\ sent'[k] = sent[k] \o pieces
  BY <1>1, PutFacts
<1>3. About(k, sent'[k])
  <2>1. sent[k] \in Seq(Pieces) /\ About(k, sent[k])
    BY <1>1 DEF SocketTypeOK, AnswerInv, OwnAnswer, About
  <2> DEFINE s == sent[k]
  <2> HIDE DEF s
  <2>2. About(k, s \o pieces)
    BY <2>1 DEF s, About
  <2> QED
    BY <1>2, <2>2 DEF s
<1> QED
  BY <1>2, <1>3 DEF Sends

\* The whole answer to a request that was granted.
LEMMA WholeFacts ==
    ASSUME NEW k \in Conns, NEW n \in {NoLength, MaxChunks}, NEW s \in Seq(Pieces),
           Len(s) >= 1, s[1] = Header(k, 200, n), \A i \in 2 .. Len(s) : s[i] = Body(k)
    PROVE  /\ WholeAnswer(s) <=> Len(s) = 1 + MaxChunks
           /\ \A i \in DOMAIN s : ~ IsError(s[i])
<1>1. /\ s # <<>> /\ Head(s) = s[1] /\ s[1].is = "header" /\ s[1].status = 200 /\ s[1].len = n
      /\ Len(s) \in Nat /\ DOMAIN s = 1 .. Len(s)
  BY DEF Header
<1>2. ~ (Len(s) > 1 /\ s[2].is = "image")
  <2>1. Body(k).is # "image"
    BY DEF Body
  <2> QED
    BY <1>1, <2>1
<1>3. WholeAnswer(s) <=> Len(s) = 1 + MaxChunks
  <2>1. CASE n = NoLength
    BY <1>1, <1>2, <2>1 DEF WholeAnswer
  <2>2. CASE n # NoLength
    BY <1>1, <1>2, <2>2 DEF WholeAnswer
  <2> QED
    BY <2>1, <2>2
<1>4. ASSUME NEW i \in DOMAIN s PROVE ~ IsError(s[i])
  <2>1. CASE i = 1
    BY <1>1, <2>1 DEF IsError
  <2>2. CASE i # 1
    <3>1. s[i] = Body(k)
      BY <1>1, <2>2
    <3>2. Body(k).is # "header"
      BY DEF Body
    <3> QED
      BY <3>1, <3>2 DEF IsError
  <2> QED
    BY <2>1, <2>2
<1> QED
  BY <1>3, <1>4

\* The origin has granted the request, and some of the body may be left.
Granted(w) ==
    LET rest == origin[worker[w].req].rest
    IN  /\ worker[w].len \in {-1, MaxChunks}
        /\ worker[w].piece \in {Header(worker[w].req, 200, n) : n \in {NoLength, MaxChunks}}
        /\ worker[w].got + Len(rest) = MaxChunks
        /\ \A i \in DOMAIN rest : rest[i] = Body(worker[w].req)

\* How far recvAll_Forward() has come.
LEMMA ReceivedFacts ==
    ASSUME SocketInv, NEW w, Workers = {w}, worker[w].at \in {"header", "body", "rpc", "image"},
           NEW k, k = worker[w].req
    PROVE  /\ Received(w) /\ k \in Conns /\ worker[w].got \in Nat /\ worker[w].got <= MaxChunks
           /\ worker[w].from = serverSock /\ fdt[worker[w].from][2] = k /\ IsOrigin(worker[w].from)
           /\ worker[w].piece \in Pieces /\ worker[w].piece.req = k
           /\ origin \in [Conns -> OriginType] /\ origin[k].rest \in Seq(Pieces)
           /\ (worker[w].len # 0) => Granted(w)
           /\ (worker[w].len = 0) =>
                /\ worker[w].got = 0
                /\ \/ worker[w].piece = Stub(k) /\ faults > 0
                   \/ worker[w].piece = Header(k, 404, NoLength)
<1>1. worker[w].at \in Busy /\ worker[w].at \in Upstream
  BY DEF Busy, Upstream
<1>2. /\ SocketTypeOK /\ StageAt(w) /\ HoldingAt(w) /\ k \in Conns /\ worker[w] \in WorkerType
      /\ IsOrigin(serverSock) /\ fdt[serverSock][2] = k
  BY <1>1, BusyFacts
<1>3. Received(w) /\ worker[w].from = serverSock
  BY <1>2 DEF StageAt, HoldingAt
<1>4. /\ worker[w].got \in 0 .. MaxChunks /\ worker[w].piece \in Pieces /\ MaxChunks \in Nat \ {0}
  BY <1>2, WorkerFields, ForwardAssumption
<1>5. origin \in [Conns -> OriginType] /\ origin[k].rest \in Seq(Pieces)
  BY <1>2 DEF SocketTypeOK, OriginType
<1>6. worker[w].piece.req = k
  BY <1>3 DEF Received, Header, Stub
<1>7. /\ BodyLength(Stub(k)) = 0 /\ BodyLength(Header(k, 404, NoLength)) = 0
      /\ BodyLength(Header(k, 200, NoLength)) = -1
      /\ BodyLength(Header(k, 200, MaxChunks)) = MaxChunks
  BY <1>2, PieceFacts
<1>8. CASE worker[w].len = 0
  <2>1. worker[w].piece \notin {Header(k, 200, n) : n \in {NoLength, MaxChunks}}
    <3>1. worker[w].len = BodyLength(worker[w].piece)
      BY <1>3 DEF Received
    <3>2. worker[w].piece # Header(k, 200, NoLength)
      BY <1>7, <1>8, <3>1
    <3>3. worker[w].piece # Header(k, 200, MaxChunks)
      BY <1>4, <1>7, <1>8, <3>1
    <3> QED
      BY <3>2, <3>3
  <2>2. /\ worker[w].got = 0
        /\ \/ worker[w].piece = Stub(k) /\ faults > 0
           \/ worker[w].piece = Header(k, 404, NoLength)
    BY <1>3, <2>1 DEF Received
  <2> QED
    BY <1>2, <1>3, <1>4, <1>5, <1>6, <1>8, <2>2
<1>9. CASE worker[w].len # 0
  <2>1. /\ worker[w].piece \in {Header(k, 200, n) : n \in {NoLength, MaxChunks}}
        /\ worker[w].got + Len(origin[k].rest) = MaxChunks
        /\ \A i \in DOMAIN origin[k].rest : origin[k].rest[i] = Body(k)
    BY <1>3, <1>7, <1>9 DEF Received
  <2>2. worker[w].len \in {-1, MaxChunks}
    BY <1>3, <1>7, <2>1 DEF Received
  <2> QED
    BY <1>2, <1>3, <1>4, <1>5, <1>6, <1>9, <2>1, <2>2 DEF Granted
<1> QED
  BY <1>8, <1>9

\* And what the client has been sent meanwhile.
LEMMA ForwardedFacts ==
    ASSUME SocketInv, NEW w, Workers = {w}, worker[w].at \in {"body", "rpc", "image"},
           NEW k, k = worker[w].req, NEW s, s = sent[k]
    PROVE  /\ Forwarded(w) /\ s \in Seq(Pieces) /\ Len(s) >= 1 /\ s[1] = worker[w].piece
           /\ Len(s) = 1 + (IF worker[w].jpg THEN 0 ELSE worker[w].got)
           /\ \A i \in 2 .. Len(s) : s[i] = Body(k)
           /\ \A i \in DOMAIN s : ~ IsError(s[i])
           /\ (worker[w].len # 0) => (WholeAnswer(s) <=> Len(s) = 1 + MaxChunks)
           /\ (worker[w].len = 0) => WholeAnswer(s) \/ faults > 0
<1>1. /\ SocketTypeOK /\ StageAt(w) /\ k \in Conns
  <2>1. worker[w].at \in Busy
    BY DEF Busy, Upstream
  <2> QED
    BY <2>1, BusyFacts
<1>2. /\ Forwarded(w) /\ s \in Seq(Pieces) /\ s[1] = worker[w].piece
      /\ Len(s) = 1 + (IF worker[w].jpg THEN 0 ELSE worker[w].got)
      /\ \A i \in 2 .. Len(s) : s[i] = Body(k)
  BY <1>1 DEF StageAt, Forwarded, SocketTypeOK
<1>3. worker[w].at \in {"header", "body", "rpc", "image"}
  OBVIOUS
<1>4. worker[w].got \in Nat
  BY <1>3, ReceivedFacts
<1>5. Len(s) >= 1 /\ Len(s) \in Nat
  BY <1>2, <1>4
<1>6. CASE worker[w].len # 0
  <2>1. PICK n \in {NoLength, MaxChunks} : worker[w].piece = Header(k, 200, n)
    <3>1. Granted(w)
      BY <1>3, <1>6, ReceivedFacts
    <3> QED
      BY <3>1 DEF Granted
  <2>2. (WholeAnswer(s) <=> Len(s) = 1 + MaxChunks) /\ \A i \in DOMAIN s : ~ IsError(s[i])
    <3>1. s[1] = Header(k, 200, n)
      BY <1>2, <2>1
    <3> QED
      BY ONLY <1>1, <1>2, <1>5, <2>1, <3>1, WholeFacts
  <2> QED
    BY <1>2, <1>5, <1>6, <2>2
<1>7. CASE worker[w].len = 0
  <2>1. /\ worker[w].got = 0
        /\ \/ worker[w].piece = Stub(k) /\ faults > 0
           \/ worker[w].piece = Header(k, 404, NoLength)
    BY <1>3, <1>7, ReceivedFacts
  <2>2. Len(s) = 1 /\ DOMAIN s = {1} /\ Head(s) = s[1] /\ s # <<>>
    BY <1>2, <2>1
  <2>3. ~ IsError(s[1])
    BY <1>2, <2>1 DEF IsError, Stub, Header
  <2>4. CASE worker[w].piece = Header(k, 404, NoLength)
    <3>1. Head(s).is = "header" /\ Head(s).len = NoLength /\ Head(s).status = 404
      BY <1>2, <2>2, <2>4 DEF Header
    <3> QED
      BY <1>2, <1>5, <1>7, <2>2, <2>3, <3>1 DEF WholeAnswer
  <2>5. CASE worker[w].piece = Stub(k) /\ faults > 0
    BY <1>2, <1>5, <1>7, <2>2, <2>3, <2>5
  <2> QED
    BY <2>1, <2>4, <2>5
<1> QED
  BY <1>6, <1>7

\* A client that is about to lose its connection has its answer.
LEMMA DoneFacts ==
    ASSUME NEW k, \A i \in DOMAIN sent'[k] : ~ IsError(sent'[k][i]),
           conn'[k].client = "open" =>
             \/ WholeAnswer(sent'[k]) \/ faults' > 0
             \/ sent'[k] = <<>> /\ OPTIMIZED /\ conn'[k].file \in Pictures
    PROVE  AnswerDone(k)'
  BY DEF AnswerDone

\* A step that may send a piece, and makes no call of compress().
LEMMA SendingFacts ==
    ASSUME SocketInv, NEW w, Workers = {w}, alive, worker[w].at \in Busy \ {"image"},
           UNCHANGED <<process, table, faulted, rpcVars>>, UNCHANGED clientVars, Works,
           origin' \in [Conns -> OriginType], NEW k, k = worker[w].req,
           NEW pieces \in Seq(Pieces), About(k, pieces),
           Put(worker[w].fd, pieces) \/ SendFails(worker[w].fd)
    PROVE  /\ Inner /\ CallAt(w)' /\ call'[w].at = "idle" /\ (worker'[w].at # "image" => CallInv')
           /\ serverSock' = serverSock /\ (faults' = 0 => faults = 0)
           /\ \A j \in Conns : j # k => sent'[j] = sent[j]
           /\ About(k, sent'[k])
           /\ conn'[k].file = conn[k].file /\ conn'[k].client = conn[k].client
           /\ Put(worker[w].fd, pieces) => Sends(k, pieces)
           /\ SendFails(worker[w].fd) => UNCHANGED <<conn, sent>> /\ conn[k].client # "open"
<1>1. /\ SocketTypeOK /\ AnswerInv /\ k \in Conns /\ IsClient(worker[w].fd)
      /\ fdt[worker[w].fd] = ToClient(k) /\ worker[w].at # "image"
  <2>1. worker[w].at \in Busy /\ worker[w].at # "image"
    OBVIOUS
  <2> QED
    BY <2>1, BusyFacts
<1>2. SendFails(worker[w].fd) => UNCHANGED <<conn, sent>> /\ conn[k].client # "open"
  BY <1>1, SendFailsFacts
<1>3. /\ conn' \in [Conns -> ConnType] /\ sent' \in [Conns -> Seq(Pieces)]
      /\ \A j \in Conns : /\ conn'[j].server = conn[j].server /\ conn'[j].client = conn[j].client
                          /\ conn'[j].file = conn[j].file
      /\ \A j \in Conns : j # k => sent'[j] = sent[j]
      /\ About(k, sent'[k])
      /\ Put(worker[w].fd, pieces) => Sends(k, pieces)
  <2>1. CASE Put(worker[w].fd, pieces)
    <3>1. /\ SocketInv /\ Workers = {w} /\ worker[w].at \in Busy /\ k = worker[w].req
          /\ pieces \in Seq(Pieces) /\ About(k, pieces)
      OBVIOUS
    <3> QED
      BY ONLY <2>1, <3>1, SendFacts
  <2>2. CASE ~ Put(worker[w].fd, pieces)
    <3>1. conn' = conn /\ sent' = sent
      BY <1>2, <2>2
    <3> QED
      BY <1>1, <2>2, <3>1 DEF SocketTypeOK, AnswerInv, OwnAnswer, About
  <2> QED
    BY <2>1, <2>2
<1>4. Rpc!RpcTypeOK' /\ (faults' = 0 => faults = 0)
  BY <1>1, RpcTypeKept DEF SocketTypeOK
<1>5. Inner
  BY <1>1, <1>3, <1>4 DEF Inner, SocketTypeOK, process, table
<1>6. CallAt(w)' /\ call'[w].at = "idle" /\ (worker'[w].at # "image" => CallInv')
  BY <1>1, <1>4, CallInvKept DEF process
<1> QED
  BY <1>1, <1>2, <1>3, <1>4, <1>5, <1>6 DEF table

\* The header goes to the client: the first piece it is sent.
LEMMA ForwardHeaderStep ==
    ASSUME SocketInv, NEW w, Workers = {w}, alive, ForwardHeader(w), UNCHANGED clientVars
    PROVE  SocketInv'
<1> DEFINE k == worker[w].req
           p == <<worker[w].piece>>
<1>1. /\ worker[w].at = "header" /\ worker[w].at \in Busy \ {"error"} /\ worker[w].at \in Busy \ {"image"}
      /\ worker[w].at \in Upstream /\ worker[w].at \in {"header", "body", "rpc", "image"}
  BY DEF ForwardHeader, Busy, Upstream
<1>2. /\ SocketTypeOK /\ StageAt(w) /\ k \in Conns /\ worker[w].toClose = <<>>
  BY <1>1, BusyFacts
<1>3. UNCHANGED <<process, table, faulted, rpcVars>> /\ Works /\ UNCHANGED origin
  BY DEF ForwardHeader
<1>4. /\ origin' \in [Conns -> OriginType] /\ w \in Workers /\ sent[k] = <<>> /\ worker[w].got = 0
  BY <1>1, <1>2, <1>3 DEF SocketTypeOK, StageAt
<1>5. p \in Seq(Pieces) /\ About(k, p) /\ <<>> \o p = p
  <2>1. worker[w].piece \in Pieces /\ worker[w].piece.req = k
    BY <1>1, ReceivedFacts
  <2> QED
    BY <2>1 DEF About
<1>6. \/ SendFails(worker[w].fd) /\ Fail(w, 500, <<"client", "server">>)
      \/ Put(worker[w].fd, p) /\ Goto(w, "body")
  BY DEF ForwardHeader, SendAll
<1> HIDE DEF p
<1>7. /\ Inner /\ CallAt(w)' /\ call'[w].at = "idle" /\ (worker'[w].at # "image" => CallInv')
      /\ serverSock' = serverSock /\ (faults' = 0 => faults = 0)
      /\ \A j \in Conns : j # k => sent'[j] = sent[j]
      /\ About(k, sent'[k])
      /\ conn'[k].file = conn[k].file
      /\ Put(worker[w].fd, p) => Sends(k, p)
      /\ SendFails(worker[w].fd) => UNCHANGED <<conn, sent>> /\ conn[k].client # "open"
  <2>1. Put(worker[w].fd, p) \/ SendFails(worker[w].fd)
    BY <1>6
  <2>2. /\ SocketInv /\ Workers = {w} /\ alive /\ worker[w].at \in Busy \ {"image"}
        /\ UNCHANGED <<process, table, faulted, rpcVars>> /\ UNCHANGED clientVars /\ Works
        /\ origin' \in [Conns -> OriginType] /\ p \in Seq(Pieces) /\ About(k, p)
    BY <1>1, <1>3, <1>4, <1>5
  <2> QED
    BY ONLY <2>1, <2>2, SendingFacts
<1>8. CASE SendFails(worker[w].fd) /\ Fail(w, 500, <<"client", "server">>)
  <2>1. 500 \in Failures
    BY DEF Failures
  <2> QED
    BY <1>1, <1>7, <1>8, <2>1, FailStep
<1>9. CASE Put(worker[w].fd, p) /\ Goto(w, "body")
  <2>1. "body" \in Pcs /\ "body" \in Busy \ {"error"} /\ "body" \in Upstream
    BY DEF Pcs, Busy, Upstream
  <2>2. /\ worker' \in [Workers -> WorkerType] /\ worker'[w].at = "body"
        /\ worker'[w].fd = worker[w].fd /\ worker'[w].req = k /\ worker'[w].jpg = worker[w].jpg
        /\ worker'[w].from = worker[w].from /\ worker'[w].piece = worker[w].piece
        /\ worker'[w].len = worker[w].len
        /\ worker'[w].got = worker[w].got /\ worker'[w].toClose = worker[w].toClose
    BY <1>2, <1>4, <1>9, <2>1, GotoFacts
  <2>3. Received(w) /\ worker[w].from = serverSock
    BY <1>1, ReceivedFacts
  <2>4. Received(w)'
    <3>1. faults > 0 => faults' > 0
      BY <1>3 DEF Works
    <3> QED
      BY <1>3, <2>2, <2>3, <3>1 DEF Received
  <2>5. Forwarded(w)'
    <3>1. sent'[k] = p /\ Len(p) = 1 /\ p[1] = worker[w].piece
      BY <1>4, <1>5, <1>7, <1>9 DEF p, Sends
    <3> QED
      BY <1>4, <2>2, <3>1 DEF Forwarded
  <2>6. StageAt(w)'
    <3>1. worker'[w].jpg => conn'[k].file \in Pictures
      BY <1>1, <1>2, <1>7, <2>2 DEF StageAt
    <3> QED
      BY <2>2, <2>4, <2>5, <3>1 DEF StageAt
  <2> QED
    BY <1>1, <1>2, <1>7, <2>1, <2>2, <2>3, <2>6, AdvanceStep
<1> QED
  BY <1>6, <1>8, <1>9

\* One more piece is counted.
LEMMA GotPieceFacts ==
    ASSUME SocketTypeOK, NEW w \in Workers, worker[w].got < MaxChunks,
           worker' = [worker EXCEPT ![w].got = @ + 1]
    PROVE  /\ worker' \in [Workers -> WorkerType]
           /\ worker'[w].at = worker[w].at /\ worker'[w].fd = worker[w].fd /\ worker'[w].req = worker[w].req
           /\ worker'[w].jpg = worker[w].jpg /\ worker'[w].from = worker[w].from
           /\ worker'[w].piece = worker[w].piece /\ worker'[w].len = worker[w].len
           /\ worker'[w].got = worker[w].got + 1 /\ worker'[w].toClose = worker[w].toClose
<1>1. worker \in [Workers -> WorkerType] /\ worker[w] \in WorkerType
  BY DEF SocketTypeOK
<1>2. worker[w].got + 1 \in 0 .. MaxChunks
  BY <1>1, WorkerFields, ForwardAssumption
<1> DEFINE n == worker[w].got + 1
           r == [worker[w] EXCEPT !.got = n]
<1>3. worker' = [worker EXCEPT ![w] = r]
  OBVIOUS
<1>4. n \in 0 .. MaxChunks
  BY <1>2
<1> HIDE DEF n
<1>5. /\ r \in WorkerType
      /\ r.at = worker[w].at /\ r.fd = worker[w].fd /\ r.req = worker[w].req
      /\ r.jpg = worker[w].jpg /\ r.from = worker[w].from
      /\ r.piece = worker[w].piece /\ r.len = worker[w].len
      /\ r.got = n /\ r.toClose = worker[w].toClose
  BY <1>1, <1>4 DEF WorkerType
<1> HIDE DEF r
<1>6. worker'[w] = r /\ worker' \in [Workers -> WorkerType]
  BY <1>1, <1>3, <1>5
<1> QED
  BY <1>5, <1>6 DEF n

\* A piece comes, and goes to the client unless it belongs to a JPG.
LEMMA ForwardPieceStep ==
    ASSUME SocketInv, NEW w, Workers = {w}, alive, ForwardPiece(w), UNCHANGED clientVars
    PROVE  SocketInv'
<1> DEFINE k == worker[w].req
           p == <<Head(origin[k].rest)>>
<1>1. /\ worker[w].at = "body" /\ worker[w].at \in Busy \ {"error"} /\ worker[w].at \in Busy \ {"image"}
      /\ worker[w].at \in Busy \ {"error", "image"}
      /\ worker[w].at \in Upstream /\ worker[w].at \in {"header", "body", "rpc", "image"}
      /\ worker[w].at \in {"body", "rpc", "image"}
  BY DEF ForwardPiece, Busy, Upstream
<1>2. /\ SocketTypeOK /\ StageAt(w) /\ k \in Conns /\ worker[w].toClose = <<>>
  BY <1>1, BusyFacts
<1>3. /\ Received(w) /\ worker[w].got \in Nat /\ worker[w].from = serverSock
      /\ fdt[worker[w].from][2] = k /\ origin \in [Conns -> OriginType]
      /\ origin[k].rest \in Seq(Pieces)
      /\ (worker[w].len # 0) => Granted(w)
  BY <1>1, ReceivedFacts
<1>4. /\ UNCHANGED <<process, table, faulted, rpcVars>> /\ Works /\ More(w)
      /\ origin[k].rest # <<>> /\ origin' = [origin EXCEPT ![k].rest = Tail(@)]
  BY <1>3 DEF ForwardPiece
<1>5. /\ worker[w].len # 0 /\ worker[w].got + Len(origin[k].rest) = MaxChunks
      /\ worker[w].piece \in {Header(k, 200, n) : n \in {NoLength, MaxChunks}}
      /\ \A i \in DOMAIN origin[k].rest : origin[k].rest[i] = Body(k)
  <2>1. worker[w].len # 0
    BY <1>3, <1>4 DEF More
  <2> QED
    BY <1>3, <2>1 DEF Granted
<1>6. /\ Head(origin[k].rest) = Body(k) /\ Tail(origin[k].rest) \in Seq(Pieces)
      /\ Len(Tail(origin[k].rest)) = Len(origin[k].rest) - 1 /\ Len(origin[k].rest) \in Nat \ {0}
      /\ \A i \in DOMAIN Tail(origin[k].rest) : Tail(origin[k].rest)[i] = Body(k)
  BY <1>3, <1>4, <1>5
<1>7. /\ origin' \in [Conns -> OriginType] /\ origin'[k].rest = Tail(origin[k].rest)
  <2> DEFINE o == [origin[k] EXCEPT !.rest = Tail(origin[k].rest)]
  <2>1. o \in OriginType /\ o.rest = Tail(origin[k].rest)
    BY <1>2, <1>3, <1>6 DEF OriginType
  <2>2. origin' = [origin EXCEPT ![k] = o]
    BY <1>4
  <2> HIDE DEF o
  <2> QED
    BY <1>2, <1>3, <2>1, <2>2
<1>8. /\ w \in Workers /\ worker[w].got < MaxChunks
      /\ (worker[w].got + 1) + Len(origin'[k].rest) = MaxChunks
  <2>1. /\ worker[w].got + Len(origin[k].rest) = MaxChunks /\ MaxChunks \in Nat
        /\ Len(origin'[k].rest) = Len(origin[k].rest) - 1
    BY <1>3, <1>5, <1>6, <1>7, ForwardAssumption
  <2>2. \A a \in Nat, b \in Nat \ {0} : a < a + b /\ (a + 1) + (b - 1) = a + b
    OBVIOUS
  <2>3. w \in Workers
    OBVIOUS
  <2> QED
    BY <1>3, <1>6, <2>1, <2>2, <2>3
<1>9. Forwarded(w) /\ sent[k] \in Seq(Pieces)
  BY <1>1, ForwardedFacts
<1>10. p = <<Body(k)>> /\ p \in Seq(Pieces) /\ About(k, p)
  BY <1>2, <1>6, PieceFacts DEF About, Body
<1> HIDE DEF p
<1>11. ASSUME Put(worker[w].fd, p) \/ SendFails(worker[w].fd)
       PROVE  /\ Inner /\ CallAt(w)' /\ call'[w].at = "idle" /\ (worker'[w].at # "image" => CallInv')
              /\ serverSock' = serverSock /\ (faults' = 0 => faults = 0)
              /\ \A j \in Conns : j # k => sent'[j] = sent[j]
              /\ About(k, sent'[k]) /\ conn'[k].file = conn[k].file
              /\ Put(worker[w].fd, p) => Sends(k, p)
              /\ SendFails(worker[w].fd) => UNCHANGED <<conn, sent>> /\ conn[k].client # "open"
  <2>1. /\ SocketInv /\ Workers = {w} /\ alive /\ worker[w].at \in Busy \ {"image"}
        /\ UNCHANGED <<process, table, faulted, rpcVars>> /\ UNCHANGED clientVars /\ Works
        /\ origin' \in [Conns -> OriginType] /\ p \in Seq(Pieces) /\ About(k, p)
    BY <1>1, <1>4, <1>7, <1>10
  <2> QED
    BY ONLY <1>11, <2>1, SendingFacts
<1>12. CASE SendFails(worker[w].fd) /\ Fail(w, 500, <<"client", "server">>)
  <2>1. 500 \in Failures
    BY DEF Failures
  <2> QED
    BY <1>1, <1>11, <1>12, <2>1, FailStep
<1>13. ASSUME worker' = [worker EXCEPT ![w].got = @ + 1],
              Inner, CallAt(w)', worker'[w].at # "image" => CallInv', serverSock' = serverSock,
              \A j \in Conns : j # k => sent'[j] = sent[j], About(k, sent'[k]),
              conn'[k].file = conn[k].file,
              sent'[k] = IF worker[w].jpg THEN sent[k] ELSE sent[k] \o p
       PROVE  SocketInv'
  <2>1. /\ worker' \in [Workers -> WorkerType] /\ worker'[w].at = "body"
        /\ worker'[w].fd = worker[w].fd /\ worker'[w].req = k /\ worker'[w].jpg = worker[w].jpg
        /\ worker'[w].from = worker[w].from /\ worker'[w].piece = worker[w].piece
        /\ worker'[w].len = worker[w].len
        /\ worker'[w].got = worker[w].got + 1 /\ worker'[w].toClose = worker[w].toClose
    BY <1>1, <1>2, <1>8, <1>13, GotPieceFacts
  <2>2. Received(w)'
    <3>1. worker'[w].len = BodyLength(worker[w].piece)'
      BY <1>3, <2>1 DEF Received
    <3>2. \A i \in DOMAIN origin'[k].rest : origin'[k].rest[i] = Body(k)
      BY <1>6, <1>7
    <3> QED
      BY <1>3, <1>5, <1>8, <2>1, <3>1, <3>2 DEF Received
  <2>3. Forwarded(w)'
    <3>1. /\ Len(sent[k]) = 1 + (IF worker[w].jpg THEN 0 ELSE worker[w].got)
          /\ sent[k][1] = worker[w].piece /\ \A i \in 2 .. Len(sent[k]) : sent[k][i] = Body(k)
      BY <1>9 DEF Forwarded
    <3>2. CASE worker[w].jpg
      <4>1. sent'[worker'[w].req] = sent[k] /\ worker'[w].jpg
        BY <1>13, <2>1, <3>2
      <4> QED
        BY <2>1, <3>1, <3>2, <4>1 DEF Forwarded
    <3>3. CASE ~ worker[w].jpg
      <4> DEFINE s == sent[k]
                 t == s \o <<Body(k)>>
      <4>1. s \in Seq(Pieces) /\ Body(k) \in Pieces /\ Len(s) = 1 + worker[w].got
        BY <1>2, <1>9, <3>1, <3>3, PieceFacts
      <4> HIDE DEF s
      <4>2. Len(t) = Len(s) + 1 /\ t[Len(s) + 1] = Body(k) /\ \A i \in 1 .. Len(s) : t[i] = s[i]
        BY <4>1
      <4>3. Len(s) \in Nat \ {0}
        BY <1>3, <4>1
      <4>4. sent'[k] = t
        BY <1>10, <1>13, <3>3 DEF s
      <4> HIDE DEF t
      <4>5. t[1] = worker[w].piece
        BY <3>1, <4>2, <4>3 DEF s
      <4>6. \A i \in 2 .. Len(t) : t[i] = Body(k)
        <5>1. \A i \in 2 .. Len(s) : t[i] = Body(k)
          BY <3>1, <4>2, <4>3 DEF s
        <5> QED
          BY <4>2, <4>3, <5>1
      <4>7. Len(t) = 1 + (worker[w].got + 1)
        BY <1>3, <4>1, <4>2
      <4> QED
        BY <2>1, <3>3, <4>4, <4>5, <4>6, <4>7 DEF Forwarded
    <3> QED
      BY <3>2, <3>3
  <2>4. StageAt(w)'
    <3>1. worker'[w].jpg => conn'[k].file \in Pictures
      BY <1>1, <1>2, <1>13, <2>1 DEF StageAt
    <3> QED
      BY <2>1, <2>2, <2>3, <3>1 DEF StageAt
  <2>5. "body" \in Busy \ {"error"} /\ "body" \in Upstream
    BY DEF Busy, Upstream
  <2> QED
    BY <1>1, <1>2, <1>3, <1>13, <2>1, <2>4, <2>5, AdvanceStep
<1>14. CASE /\ ~ worker[w].jpg /\ Put(worker[w].fd, p)
            /\ worker' = [worker EXCEPT ![w].got = @ + 1]
  <2>1. worker'[w].at = "body"
    BY <1>1, <1>2, <1>8, <1>14, GotPieceFacts
  <2> QED
    BY <1>11, <1>13, <1>14, <2>1 DEF Sends
<1>15. CASE /\ worker[w].jpg /\ UNCHANGED net
            /\ worker' = [worker EXCEPT ![w].got = @ + 1]
  <2>1. UNCHANGED <<process, table, faulted, net, rpcVars>>
    BY <1>4, <1>15
  <2>2. /\ Inner /\ CallAt(w)' /\ (worker'[w].at # "image" => CallInv')
        /\ sent' = sent /\ serverSock' = serverSock /\ About(k, sent'[k]) /\ conn'[k].file = conn[k].file
    BY <1>1, <1>4, <1>7, <2>1, QuietFacts
  <2> QED
    BY <1>13, <1>15, <2>2
<1>16. \/ SendFails(worker[w].fd) /\ Fail(w, 500, <<"client", "server">>)
       \/ /\ ~ worker[w].jpg /\ Put(worker[w].fd, p)
          /\ worker' = [worker EXCEPT ![w].got = @ + 1]
       \/ /\ worker[w].jpg /\ UNCHANGED net
          /\ worker' = [worker EXCEPT ![w].got = @ + 1]
  BY <1>3 DEF ForwardPiece, SendAll, p
<1> QED
  BY <1>12, <1>14, <1>15, <1>16

\* The body is in: the JPG is compressed next.
LEMMA ToRpcStep ==
    ASSUME SocketInv, NEW w, Workers = {w}, alive, worker[w].at = "body", worker[w].jpg,
           worker[w].len # 0, Goto(w, "rpc"), UNCHANGED clientVars,
           UNCHANGED <<process, table, origin, faulted, net, rpcVars>>, Works \/ Fails,
           faults' = 0 => /\ worker[w].got > 0 /\ worker[w].got >= worker[w].len
                          /\ origin[worker[w].req].rest = <<>>
    PROVE  SocketInv'
<1> DEFINE k == worker[w].req
<1>1. /\ worker[w].at \in Busy \ {"error"} /\ worker[w].at \in Busy \ {"error", "image"}
      /\ worker[w].at \in Upstream /\ worker[w].at \in {"header", "body", "rpc", "image"}
      /\ worker[w].at \in {"body", "rpc", "image"}
  BY DEF Busy, Upstream
<1>2. /\ SocketTypeOK /\ StageAt(w) /\ k \in Conns /\ worker[w].toClose = <<>>
  BY <1>1, BusyFacts
<1>3. w \in Workers /\ origin' \in [Conns -> OriginType]
  BY <1>2 DEF SocketTypeOK
<1>4. "rpc" \in Pcs /\ "rpc" \in Busy \ {"error"} /\ "rpc" \in Upstream
  BY DEF Pcs, Busy, Upstream
<1>5. /\ worker' \in [Workers -> WorkerType] /\ worker'[w].at = "rpc"
      /\ worker'[w].fd = worker[w].fd /\ worker'[w].req = k /\ worker'[w].jpg = worker[w].jpg
      /\ worker'[w].from = worker[w].from /\ worker'[w].piece = worker[w].piece
      /\ worker'[w].len = worker[w].len
      /\ worker'[w].got = worker[w].got /\ worker'[w].toClose = worker[w].toClose
  BY <1>2, <1>3, <1>4, GotoFacts
<1>6. UNCHANGED <<process, table, faulted, net, rpcVars>> /\ UNCHANGED origin
  OBVIOUS
<1>7. /\ Inner /\ CallInv' /\ sent' = sent /\ serverSock' = serverSock /\ (faults' = 0 => faults = 0)
      /\ conn'[k].file = conn[k].file /\ About(k, sent'[k])
  BY <1>1, <1>3, <1>5, <1>6, QuietFacts
<1>8. Received(w) /\ worker[w].from = serverSock
  BY <1>1, ReceivedFacts
<1>9. Forwarded(w)
  BY <1>1, ForwardedFacts
<1>10. Received(w)'
  <2>1. worker[w].piece = Stub(k) /\ faults > 0 => worker[w].len = 0
    BY <1>2, <1>8, PieceFacts DEF Received
  <2> QED
    BY <1>5, <1>6, <1>8, <2>1 DEF Received
<1>11. Forwarded(w)'
  BY <1>5, <1>7, <1>9 DEF Forwarded
<1>12. StageAt(w)'
  <2>1. worker'[w].jpg => conn'[k].file \in Pictures
    BY <1>1, <1>2, <1>5, <1>7 DEF StageAt
  <2> QED
    BY <1>5, <1>6, <1>10, <1>11, <2>1 DEF StageAt
<1> QED
  BY <1>1, <1>2, <1>4, <1>5, <1>7, <1>8, <1>12, AdvanceStep

\* The body is in, or nothing is to be made of it.
LEMMA SucceedStep ==
    ASSUME SocketInv, NEW w, Workers = {w}, alive, worker[w].at = "body",
           Succeed(w), UNCHANGED clientVars,
           UNCHANGED <<process, table, origin, faulted, net, rpcVars>>, Works \/ Fails,
           WholeAnswer(sent[worker[w].req]) \/ faults' > 0
    PROVE  SocketInv'
<1> DEFINE k == worker[w].req
<1>1. /\ worker[w].at \in Busy /\ worker[w].at \in Busy \ {"error", "image"} /\ worker[w].at # "error"
      /\ worker[w].at \in Upstream /\ worker[w].at \in {"body", "rpc", "image"}
  BY DEF Busy, Upstream
<1>2. /\ SocketTypeOK /\ k \in Conns /\ (HoldsServer(w) <=> worker[w].at \in Upstream)
  BY <1>1, BusyFacts
<1>3. origin' \in [Conns -> OriginType]
  BY <1>2 DEF SocketTypeOK
<1>4. UNCHANGED <<process, table, faulted, net, rpcVars>>
  OBVIOUS
<1>5. /\ Inner /\ CallAt(w)' /\ call'[w].at = "idle" /\ sent' = sent /\ serverSock' = serverSock
      /\ About(k, sent'[k])
  BY <1>1, <1>3, <1>4, QuietFacts
<1>6. \A i \in DOMAIN sent[k] : ~ IsError(sent[k][i])
  BY <1>1, ForwardedFacts
<1>7. PICK c : c = worker[w].req
  OBVIOUS
<1>8. AnswerDone(c)'
  BY <1>5, <1>6, <1>7, DoneFacts
<1> DEFINE cl == <<"server", "client">>
<1>9. /\ cl \in {<<"client">>, <<"client", "server">>, <<"server", "client">>}
      /\ (cl = <<"client">> <=> ~ HoldsServer(w)) /\ Leave(w, cl)
  <2>1. cl # <<"client">>
    OBVIOUS
  <2> QED
    BY <1>1, <1>2, <2>1 DEF Succeed
<1> HIDE DEF cl
<1> QED
  BY <1>1, <1>5, <1>7, <1>8, <1>9, LeaveStep

\* The origin has no more, or recv() fails.
LEMMA StreamEndsStep ==
    ASSUME SocketInv, NEW w, Workers = {w}, alive, StreamEnds(w), UNCHANGED clientVars
    PROVE  SocketInv'
<1> DEFINE k == worker[w].req
           ended == origin[k].rest = <<>>
<1>1. /\ worker[w].at = "body" /\ worker[w].at \in Busy \ {"error"} /\ worker[w].at \in Busy \ {"error", "image"}
      /\ worker[w].at \in Upstream /\ worker[w].at \in {"header", "body", "rpc", "image"}
      /\ worker[w].at \in {"body", "rpc", "image"}
  BY DEF StreamEnds, Busy, Upstream
<1>2. SocketTypeOK /\ k \in Conns
  BY <1>1, BusyFacts
<1>3. /\ worker[w].got \in Nat /\ worker[w].got <= MaxChunks /\ IsOrigin(worker[w].from)
      /\ fdt[worker[w].from][2] = k /\ origin \in [Conns -> OriginType]
      /\ origin[k].rest \in Seq(Pieces) /\ (worker[w].len # 0 => Granted(w))
  BY <1>1, ReceivedFacts
<1>4. /\ UNCHANGED <<process, table, origin, faulted, net, rpcVars>> /\ More(w) /\ (Works \/ Fails)
      /\ IF ended THEN Works ELSE Fails
      /\ \/ IF worker[w].jpg THEN Goto(w, "rpc") ELSE Succeed(w)
         \/ Fail(w, 500, <<"client", "server">>) /\ ~ ended
  BY <1>3 DEF StreamEnds
<1>5. /\ worker[w].len # 0 /\ worker[w].got + Len(origin[k].rest) = MaxChunks
      /\ worker[w].len \in {-1, MaxChunks}
  <2>1. worker[w].len # 0
    BY <1>3, <1>4 DEF More
  <2> QED
    BY <1>3, <2>1 DEF Granted
<1>6. ended <=> worker[w].got = MaxChunks
  <2>1. Len(origin[k].rest) \in Nat /\ (ended <=> Len(origin[k].rest) = 0) /\ MaxChunks \in Nat
    BY <1>3, ForwardAssumption
  <2> QED
    BY <1>3, <1>5, <2>1
<1>7. faults' > 0 \/ ended
  <2>1. faults \in 0 .. MaxFaults
    BY <1>2 DEF SocketTypeOK, Rpc!RpcTypeOK
  <2> QED
    BY <1>4, <2>1, FaultFacts
<1>8. /\ Len(sent[k]) = 1 + (IF worker[w].jpg THEN 0 ELSE worker[w].got)
      /\ \A i \in DOMAIN sent[k] : ~ IsError(sent[k][i])
      /\ WholeAnswer(sent[k]) <=> Len(sent[k]) = 1 + MaxChunks
  BY <1>1, <1>5, ForwardedFacts
<1>9. CASE worker[w].jpg /\ Goto(w, "rpc")
  <2>1. faults' = 0 => /\ worker[w].got > 0 /\ worker[w].got >= worker[w].len
                       /\ origin[k].rest = <<>>
    <3>1. faults' = 0 => ended /\ worker[w].got = MaxChunks
      <4>1. faults' = 0 => ~ (faults' > 0)
        OBVIOUS
      <4> QED
        BY <1>6, <1>7, <4>1
    <3>2. MaxChunks > 0 /\ MaxChunks >= -1 /\ MaxChunks \in Nat
      BY ForwardAssumption
    <3> QED
      BY <1>5, <3>1, <3>2
  <2> QED
    BY <1>1, <1>4, <1>5, <1>9, <2>1, ToRpcStep
<1>10. CASE ~ worker[w].jpg /\ Succeed(w)
  <2>1. WholeAnswer(sent[k]) \/ faults' > 0
    BY <1>6, <1>7, <1>8, <1>10
  <2> QED
    BY <1>1, <1>4, <1>10, <2>1, SucceedStep
<1>11. CASE Fail(w, 500, <<"client", "server">>) /\ ~ ended
  <2>1. 500 \in Failures
    BY DEF Failures
  <2>2. Unfinished(sent[k])
    <3>1. Len(sent[k]) # 1 + MaxChunks
      <4>1. worker[w].got # MaxChunks /\ 0 # MaxChunks /\ MaxChunks \in Nat
        BY <1>6, <1>11, ForwardAssumption
      <4> QED
        BY <1>3, <1>8, <4>1
    <3> QED
      BY <1>8, <3>1 DEF Unfinished
  <2>3. Inner /\ CallAt(w)' /\ call'[w].at = "idle" /\ sent' = sent /\ serverSock' = serverSock
    BY <1>1, <1>3, <1>4, QuietFacts
  <2> QED
    BY <1>1, <1>11, <2>1, <2>2, <2>3, FailStep
<1> QED
  BY <1>4, <1>9, <1>10, <1>11

\* The loop of recvAll_Forward() ends with the whole Content-Length.
LEMMA BodyDoneStep ==
    ASSUME SocketInv, NEW w, Workers = {w}, alive, BodyDone(w), UNCHANGED clientVars
    PROVE  SocketInv'
<1> DEFINE k == worker[w].req
<1>1. /\ worker[w].at = "body" /\ worker[w].at \in Busy \ {"error"}
      /\ worker[w].at \in Upstream /\ worker[w].at \in {"header", "body", "rpc", "image"}
      /\ worker[w].at \in {"body", "rpc", "image"}
  BY DEF BodyDone, Busy, Upstream
<1>2. SocketTypeOK /\ k \in Conns /\ worker[w] \in WorkerType
  BY <1>1, BusyFacts
<1>3. /\ worker[w].got \in Nat /\ worker[w].got <= MaxChunks
      /\ origin[k].rest \in Seq(Pieces) /\ (worker[w].len # 0 => Granted(w))
      /\ (worker[w].len = 0 => worker[w].got = 0)
  BY <1>1, ReceivedFacts
<1>4. /\ UNCHANGED <<process, table, origin, faulted, net, rpcVars>> /\ ~ More(w) /\ Works
      /\ IF worker[w].jpg /\ worker[w].got > 0 THEN Goto(w, "rpc") ELSE Succeed(w)
  BY DEF BodyDone
<1>5. worker[w].len # 0 =>
        worker[w].len = MaxChunks /\ worker[w].got = MaxChunks /\ origin[k].rest = <<>>
  <2>1. SUFFICES ASSUME worker[w].len # 0
                 PROVE  /\ worker[w].len = MaxChunks /\ worker[w].got = MaxChunks
                        /\ origin[k].rest = <<>>
    OBVIOUS
  <2>2. worker[w].len \in {-1, MaxChunks} /\ worker[w].got + Len(origin[k].rest) = MaxChunks
    BY <1>3, <2>1 DEF Granted
  <2>3. worker[w].len # -1 /\ ~ (worker[w].got < worker[w].len)
    BY <1>4 DEF More
  <2>4. MaxChunks \in Nat /\ Len(origin[k].rest) \in Nat
    BY <1>3, ForwardAssumption
  <2>5. worker[w].len = MaxChunks /\ worker[w].got = MaxChunks
    BY <1>3, <2>2, <2>3, <2>4
  <2>6. Len(origin[k].rest) = 0
    BY <2>2, <2>4, <2>5
  <2> QED
    BY <1>3, <2>5, <2>6
<1>6. /\ Len(sent[k]) = 1 + (IF worker[w].jpg THEN 0 ELSE worker[w].got)
      /\ (worker[w].len # 0) => (WholeAnswer(sent[k]) <=> Len(sent[k]) = 1 + MaxChunks)
      /\ (worker[w].len = 0) => WholeAnswer(sent[k]) \/ faults > 0
  BY <1>1, ForwardedFacts
<1>7. CASE worker[w].jpg /\ worker[w].got > 0
  <2>1. worker[w].len # 0 /\ Goto(w, "rpc")
    BY <1>3, <1>4, <1>7
  <2>2. worker[w].got >= worker[w].len /\ origin[k].rest = <<>>
    BY <1>3, <1>5, <2>1
  <2> QED
    BY <1>1, <1>4, <1>7, <2>1, <2>2, ToRpcStep
<1>8. CASE ~ (worker[w].jpg /\ worker[w].got > 0)
  <2>1. Succeed(w) /\ faults' = faults
    BY <1>4, <1>8 DEF Works
  <2>2. WholeAnswer(sent[k]) \/ faults' > 0
    <3>1. CASE worker[w].len = 0
      BY <1>6, <2>1, <3>1
    <3>2. CASE worker[w].len # 0
      <4>1. worker[w].got > 0
        BY <1>5, <3>2, ForwardAssumption
      <4> QED
        BY <1>5, <1>6, <1>8, <3>2, <4>1
    <3> QED
      BY <3>1, <3>2
  <2> QED
    BY <1>1, <1>4, <2>1, <2>2, SucceedStep
<1> QED
  BY <1>7, <1>8

\* A JPG whose image has not been sent: what the client has is no answer yet.
LEMMA ImagePending ==
    ASSUME SocketInv, NEW w, Workers = {w}, worker[w].at \in {"rpc", "image"},
           NEW k, k = worker[w].req
    PROVE  /\ worker[w].jpg /\ worker[w].len # 0 /\ k \in Conns
           /\ worker[w].piece \in {Header(k, 200, n) : n \in {NoLength, MaxChunks}}
           /\ sent[k] \in Seq(Pieces) /\ Len(sent[k]) = 1 /\ sent[k][1] = worker[w].piece
           /\ Unfinished(sent[k])
<1>1. worker[w].at \in Busy /\ worker[w].at \in {"body", "rpc", "image"}
      /\ worker[w].at \in {"header", "body", "rpc", "image"}
  BY DEF Busy, Upstream
<1>2. StageAt(w) /\ k \in Conns
  BY <1>1, BusyFacts
<1>3. worker[w].jpg /\ worker[w].len # 0
  BY <1>2 DEF StageAt
<1>4. Granted(w)
  BY <1>1, <1>3, ReceivedFacts
<1>5. /\ sent[k] \in Seq(Pieces) /\ Len(sent[k]) = 1 /\ sent[k][1] = worker[w].piece
      /\ \A i \in DOMAIN sent[k] : ~ IsError(sent[k][i])
      /\ WholeAnswer(sent[k]) <=> Len(sent[k]) = 1 + MaxChunks
  <2>1. /\ sent[k] \in Seq(Pieces) /\ sent[k][1] = worker[w].piece
        /\ Len(sent[k]) = 1 + (IF worker[w].jpg THEN 0 ELSE worker[w].got)
    BY <1>1, ForwardedFacts
  <2>2. \A i \in DOMAIN sent[k] : ~ IsError(sent[k][i])
    BY <1>1, ForwardedFacts
  <2>3. (worker[w].len # 0) => (WholeAnswer(sent[k]) <=> Len(sent[k]) = 1 + MaxChunks)
    BY <1>1, ForwardedFacts
  <2> QED
    BY <1>3, <2>1, <2>2, <2>3
<1>6. 1 # 1 + MaxChunks
  BY ForwardAssumption
<1> QED
  BY <1>2, <1>3, <1>4, <1>5, <1>6 DEF Granted, Unfinished

\* A call of compress() is a new one.
LEMMA NewCall ==
    ASSUME Rpc!RpcTypeOK, NEW w, Workers = {w}, CallAt(w), NEW a \in Conns \cup {Rpc!Part},
           Rpc!CallCompress(w, a), Works
    PROVE  /\ Rpc!RpcTypeOK' /\ CallAt(w)'
           /\ call'[w].at = "load" /\ call'[w].arg = a
<1> DEFINE c == [at |-> "load", arg |-> a, id |-> 0, fd |-> 0, me |-> calls + 1,
                 result |-> Rpc!Nothing]
<1>1. /\ calls < MaxCalls /\ calls' = calls + 1 /\ call' = [call EXCEPT ![w] = c]
      /\ UNCHANGED <<imageNumber, names, data>> /\ UNCHANGED faults
  BY DEF Rpc!CallCompress, Works
<1>2. calls \in 0 .. MaxCalls /\ imageNumber \in 0 .. MaxCalls /\ imageNumber <= calls
  BY DEF Rpc!RpcTypeOK, CallAt
<1>3. MaxCalls \in Nat /\ 0 \in 0 .. MaxCalls - 1 /\ calls + 1 \in 1 .. MaxCalls
  BY <1>1, <1>2, ForwardAssumption
<1>4. c \in Rpc!CallType
  <2>1. "load" \in Rpc!Stages /\ a \in Rpc!Contents /\ Rpc!Nothing \in Rpc!Results
    BY DEF Rpc!Stages, Rpc!Contents, Rpc!Results
  <2> QED
    BY <1>3, <2>1 DEF Rpc!CallType, Rpc!Ids, Rpc!Inodes
<1>5. c.at = "load" /\ c.arg = a
  OBVIOUS
<1> HIDE DEF c
<1>6. call'[w] = c /\ call' \in [Workers -> {Rpc!NoCall} \cup Rpc!CallType]
  BY <1>1, <1>4 DEF Rpc!RpcTypeOK
<1>7. Rpc!RpcTypeOK'
  BY <1>1, <1>3, <1>6 DEF Rpc!RpcTypeOK
<1>8. CallAt(w)'
  <2>1. imageNumber' <= calls' /\ imageNumber' < calls'
    BY <1>1, <1>2
  <2> QED
    BY <1>5, <1>6, <2>1 DEF CallAt
<1> QED
  BY <1>5, <1>6, <1>7, <1>8

\* compress() is called, with the image that was buffered.
LEMMA CallRpcStep ==
    ASSUME SocketInv, NEW w, Workers = {w}, alive, CallRpc(w), UNCHANGED clientVars
    PROVE  SocketInv'
<1> DEFINE k == worker[w].req
<1>1. /\ worker[w].at = "rpc" /\ worker[w].at \in Busy \ {"error"} /\ worker[w].at # "image"
      /\ worker[w].at \in Upstream /\ worker[w].at \in {"header", "body", "rpc", "image"}
      /\ worker[w].at \in {"body", "rpc", "image"} /\ worker[w].at \in {"rpc", "image"}
  BY DEF CallRpc, Busy, Upstream
<1>2. /\ SocketTypeOK /\ StageAt(w) /\ CallAt(w) /\ AnswerInv /\ k \in Conns /\ worker[w].toClose = <<>>
  BY <1>1, BusyFacts
<1>3. UNCHANGED <<process, table, origin, net>>
  BY DEF CallRpc
<1>4. /\ w \in Workers /\ origin' \in [Conns -> OriginType] /\ Rpc!RpcTypeOK
      /\ conn' \in [Conns -> ConnType] /\ sent' \in [Conns -> Seq(Pieces)]
      /\ faulted \in [Workers -> BOOLEAN] /\ serverSock' \in 0 .. limit
  BY <1>2, <1>3 DEF SocketTypeOK, net, table
<1>5. ASSUME Rpc!RpcTypeOK', faulted' \in [Workers -> BOOLEAN], faults' = 0 => faults = 0
      PROVE  Inner
  BY <1>2, <1>3, <1>4, <1>5 DEF Inner, process, table, net
<1>6. sent' = sent /\ serverSock' = serverSock /\ conn' = conn /\ About(k, sent'[k]) /\ alive' = alive
  BY <1>2, <1>3 DEF net, table, process, AnswerInv, OwnAnswer, About
<1>7. CASE Fail(w, 500, <<"client", "server">>) /\ (Works \/ Fails)
           /\ faulted' = [faulted EXCEPT ![w] = TRUE] /\ UNCHANGED rpcVars
  <2>1. faulted' \in [Workers -> BOOLEAN]
    BY <1>4, <1>7
  <2>2. Rpc!RpcTypeOK' /\ (faults' = 0 => faults = 0)
    BY <1>4, <1>7, RpcTypeKept
  <2>3. CallAt(w)' /\ call'[w].at = "idle"
    BY <1>1, <1>6, <1>7, <2>2, CallInvKept
  <2>4. 500 \in Failures /\ Unfinished(sent[k])
    BY <1>1, ImagePending DEF Failures
  <2> QED
    BY <1>1, <1>5, <1>6, <1>7, <2>1, <2>2, <2>3, <2>4, FailStep
<1>8. ASSUME NEW a, a \in {k, Rpc!Part}, faults = 0 => a = k, Rpc!CallCompress(w, a),
             Goto(w, "image"), Works, UNCHANGED faulted
      PROVE  SocketInv'
  <2>1. "image" \in Pcs /\ "image" \in Busy \ {"error"} /\ "image" \in Upstream
    BY DEF Pcs, Busy, Upstream
  <2>2. /\ worker' \in [Workers -> WorkerType] /\ worker'[w].at = "image"
        /\ worker'[w].fd = worker[w].fd /\ worker'[w].req = k /\ worker'[w].jpg = worker[w].jpg
        /\ worker'[w].from = worker[w].from /\ worker'[w].piece = worker[w].piece
        /\ worker'[w].len = worker[w].len
        /\ worker'[w].got = worker[w].got /\ worker'[w].toClose = worker[w].toClose
    BY <1>2, <1>4, <1>8, <2>1, GotoFacts
  <2>3. /\ Rpc!RpcTypeOK' /\ CallAt(w)' /\ call'[w].at = "load" /\ call'[w].arg = a
    <3>1. a \in Conns \cup {Rpc!Part}
      BY <1>2, <1>8
    <3> QED
      BY <1>2, <1>4, <1>8, <3>1, NewCall
  <2>4. Inner /\ faults' = faults
    BY <1>4, <1>5, <1>8, <2>3 DEF Works
  <2>5. CallInv'
    BY <1>8, <2>2, <2>3, <2>4 DEF CallInv
  <2>6. Received(w) /\ Forwarded(w) /\ worker[w].from = serverSock
    BY <1>1, ReceivedFacts, ForwardedFacts
  <2>7. Received(w)' /\ Forwarded(w)'
    <3>1. origin' = origin
      BY <1>3
    <3> QED
      BY <1>6, <2>2, <2>4, <2>6, <3>1 DEF Received, Forwarded
  <2>8. StageAt(w)'
    <3>1. worker'[w].jpg => conn'[k].file \in Pictures
      BY <1>1, <1>2, <1>6, <2>2 DEF StageAt
    <3>2. worker[w].jpg /\ worker[w].len # 0
      BY <1>1, ImagePending
    <3> QED
      BY <2>2, <2>7, <3>1, <3>2 DEF StageAt
  <2> QED
    BY <1>1, <1>2, <1>6, <2>1, <2>2, <2>4, <2>5, <2>6, <2>8, AdvanceStep
<1>9. fdt[worker[w].from][2] = k /\ IsOrigin(worker[w].from)
  BY <1>1, ReceivedFacts
<1>10. ASSUME NEW a \in {k, Rpc!Part},
              a = IF worker[w].got > 0 /\ worker[w].got >= worker[w].len
                       /\ origin[k].rest = <<>> THEN k ELSE Rpc!Part,
              Rpc!CallCompress(w, a), Goto(w, "image"), Works, UNCHANGED faulted
       PROVE  SocketInv'
  <2>1. faults = 0 => worker[w].got > 0 /\ worker[w].got >= worker[w].len /\ origin[k].rest = <<>>
    BY <1>1, <1>2 DEF StageAt
  <2>2. faults = 0 => a = k
    BY <1>10, <2>1
  <2> QED
    BY <1>8, <1>10, <2>2
<1> QED
  BY <1>7, <1>9, <1>10 DEF CallRpc

\* The caller takes the result: the call is over.
LEMMA CallEnds ==
    ASSUME Rpc!RpcTypeOK, NEW w, Workers = {w}, CallAt(w), Rpc!EndCall(w), Works
    PROVE  /\ Rpc!RpcTypeOK' /\ CallAt(w)' /\ call'[w].at = "idle" /\ (faults' = 0 => faults = 0)
           /\ call[w].result \in {Rpc!Nothing, Rpc!RpcFault, Rpc!Compressed(call[w].arg)}
           /\ call[w].result = Rpc!Compressed(call[w].arg) => call[w].arg \in Conns
           /\ faults = 0 /\ call[w].arg \in Conns => call[w].result = Rpc!Compressed(call[w].arg)
<1>1. /\ call[w].at = "done" /\ call' = [call EXCEPT ![w] = Rpc!NoCall]
      /\ UNCHANGED <<imageNumber, names, data, calls>> /\ UNCHANGED faults
  BY DEF Rpc!EndCall, Works
<1>2. call \in [Workers -> {Rpc!NoCall} \cup Rpc!CallType] /\ w \in Workers
  BY DEF Rpc!RpcTypeOK
<1>3. call'[w] = Rpc!NoCall /\ Rpc!NoCall.at = "idle" /\ call' \in [Workers -> {Rpc!NoCall} \cup Rpc!CallType]
  BY <1>1, <1>2 DEF Rpc!NoCall
<1>4. Rpc!RpcTypeOK'
  BY <1>1, <1>3 DEF Rpc!RpcTypeOK
<1>5. CallAt(w)'
  BY <1>1, <1>3 DEF CallAt
<1>6. /\ call[w].result \in {Rpc!Nothing, Rpc!RpcFault, Rpc!Compressed(call[w].arg)}
      /\ call[w].result = Rpc!Compressed(call[w].arg) => call[w].arg \in Conns
      /\ faults = 0 /\ call[w].arg \in Conns => call[w].result = Rpc!Compressed(call[w].arg)
  BY <1>1 DEF CallAt
<1> QED
  BY <1>1, <1>3, <1>4, <1>5, <1>6

\* A header and the compressed image are a whole answer.
LEMMA ImageAnswer ==
    ASSUME NEW t, t # <<>>, Len(t) = 2, Head(t).is = "header", Head(t).status = 200,
           t[2].is = "image"
    PROVE  WholeAnswer(t)
<1>1. CASE Head(t).len = NoLength
  BY <1>1 DEF WholeAnswer
<1>2. CASE Head(t).len # NoLength
  BY <1>2 DEF WholeAnswer
<1> QED
  BY <1>1, <1>2

\* The call is over, and the client gets what it returned.
LEMMA TakeImageStep ==
    ASSUME SocketInv, NEW w, Workers = {w}, alive, TakeImage(w), UNCHANGED clientVars
    PROVE  SocketInv'
<1> DEFINE k == worker[w].req
           p == <<Image(k)>>
           cl == <<"server", "client">>
<1>1. /\ worker[w].at = "image" /\ worker[w].at \in Busy \ {"error"} /\ worker[w].at \in Busy
      /\ worker[w].at \in Upstream /\ worker[w].at \in {"rpc", "image"} /\ worker[w].at # "error"
  BY DEF TakeImage, Busy, Upstream
<1>2. /\ SocketTypeOK /\ CallInv /\ CallAt(w) /\ AnswerInv /\ k \in Conns
      /\ (HoldsServer(w) <=> worker[w].at \in Upstream)
      /\ IsClient(worker[w].fd) /\ fdt[worker[w].fd] = ToClient(k)
  BY <1>1, BusyFacts
<1>3. /\ UNCHANGED <<process, table, origin>> /\ Rpc!EndCall(w) /\ Works
      /\ faulted' = [faulted EXCEPT ![w] = (call[w].result.is = "fault")]
  BY DEF TakeImage
<1>4. /\ w \in Workers /\ origin' \in [Conns -> OriginType] /\ Rpc!RpcTypeOK
      /\ conn \in [Conns -> ConnType] /\ sent \in [Conns -> Seq(Pieces)]
      /\ faulted' \in [Workers -> BOOLEAN] /\ serverSock' \in 0 .. limit
  BY <1>2, <1>3 DEF SocketTypeOK, table
<1>5. /\ Rpc!RpcTypeOK' /\ CallAt(w)' /\ call'[w].at = "idle" /\ (faults' = 0 => faults = 0)
      /\ call[w].result \in {Rpc!Nothing, Rpc!RpcFault, Rpc!Compressed(call[w].arg)}
      /\ call[w].result = Rpc!Compressed(call[w].arg) => call[w].arg \in Conns
      /\ faults = 0 /\ call[w].arg \in Conns => call[w].result = Rpc!Compressed(call[w].arg)
  BY <1>2, <1>3, <1>4, CallEnds
<1>6. call[w].arg \in {k, Rpc!Part} /\ (faults = 0 => call[w].arg = k)
  BY <1>1, <1>2 DEF CallInv
<1>7. serverSock' = serverSock
  BY <1>3 DEF table
<1>8. /\ sent[k] \in Seq(Pieces) /\ Len(sent[k]) = 1 /\ sent[k][1] = worker[w].piece
      /\ worker[w].piece \in {Header(k, 200, n) : n \in {NoLength, MaxChunks}}
      /\ Unfinished(sent[k])
  BY <1>1, ImagePending
<1>9. ASSUME conn' \in [Conns -> ConnType], sent' \in [Conns -> Seq(Pieces)],
             \A j \in Conns : /\ conn'[j].server = conn[j].server /\ conn'[j].client = conn[j].client
                              /\ conn'[j].file = conn[j].file
      PROVE  Inner
  BY <1>2, <1>3, <1>4, <1>5, <1>9 DEF Inner, process, table
<1>10. /\ cl \in {<<"client">>, <<"client", "server">>, <<"server", "client">>}
       /\ (cl = <<"client">> <=> ~ HoldsServer(w)) /\ (Succeed(w) => Leave(w, cl))
  <2>1. cl # <<"client">>
    OBVIOUS
  <2> QED
    BY <1>1, <1>2, <2>1 DEF Succeed
<1> HIDE DEF cl
<1>11. ASSUME UNCHANGED <<conn, sent>> PROVE Inner /\ sent' = sent /\ About(k, sent'[k])
  BY <1>2, <1>4, <1>9, <1>11 DEF AnswerInv, OwnAnswer, About
<1>12. CASE UNCHANGED <<conn, sent>> /\ Fail(w, 500, <<"client", "server">>)
  <2>1. 500 \in Failures
    BY DEF Failures
  <2> QED
    BY <1>1, <1>5, <1>7, <1>8, <1>11, <1>12, <2>1, FailStep
<1>13. PICK c : c = worker[w].req
  OBVIOUS
<1>14. CASE call[w].result.is = "nothing" /\ Succeed(w) /\ UNCHANGED <<conn, sent>>
  <2>1. call[w].result # Rpc!Compressed(call[w].arg)
    BY <1>14 DEF Rpc!Compressed
  <2>2. faults # 0
    BY <1>2, <1>5, <1>6, <2>1
  <2>3. faults' > 0
    BY <1>3, <1>4, <2>2 DEF Works, Rpc!RpcTypeOK
  <2>4. \A i \in DOMAIN sent'[c] : ~ IsError(sent'[c][i])
    BY <1>8, <1>13, <1>14 DEF Unfinished
  <2>5. AnswerDone(c)'
    BY <2>3, <2>4, DoneFacts
  <2> QED
    BY <1>1, <1>5, <1>7, <1>10, <1>11, <1>13, <1>14, <2>5, LeaveStep
<1>15. call[w].result.is = "image" => call[w].result = Rpc!Compressed(k)
  <2>1. Rpc!Nothing.is # "image" /\ Rpc!RpcFault.is # "image"
    BY DEF Rpc!Nothing, Rpc!RpcFault
  <2> QED
    BY <1>5, <1>6, <2>1, ConnsFacts
<1>16. Rpc!Compressed(k).of = k
  BY DEF Rpc!Compressed
<1>17. CASE call[w].result.is = "image" /\ Put(worker[w].fd, p) /\ Succeed(w)
  <2>1. p \in Seq(Pieces) /\ About(k, p)
    BY <1>2, PieceFacts DEF About, Image
  <2> HIDE DEF p
  <2>2. /\ conn' \in [Conns -> ConnType] /\ sent' \in [Conns -> Seq(Pieces)]
        /\ \A j \in Conns : /\ conn'[j].server = conn[j].server /\ conn'[j].client = conn[j].client
                            /\ conn'[j].file = conn[j].file
        /\ \A j \in Conns : j # k => sent'[j] = sent[j]
        /\ Sends(k, p) /\ About(k, sent'[k])
    <3>1. SocketInv /\ Workers = {w} /\ worker[w].at \in Busy
      BY <1>1
    <3>2. Put(worker[w].fd, p)
      BY <1>17
    <3> QED
      BY ONLY <3>1, <3>2, <2>1, SendFacts
  <2>3. Inner
    BY <1>9, <2>2
  <2>4. \A i \in DOMAIN sent'[k] : ~ IsError(sent'[k][i])
    <3> DEFINE s == sent[k]
    <3>1. s \in Seq(Pieces) /\ \A i \in DOMAIN s : ~ IsError(s[i])
      BY <1>8 DEF Unfinished
    <3>2. \A i \in DOMAIN p : ~ IsError(p[i])
      BY DEF p, Image, IsError
    <3> HIDE DEF s
    <3>3. \A i \in DOMAIN (s \o p) : ~ IsError((s \o p)[i])
      BY <2>1, <3>1, <3>2
    <3> QED
      BY <2>2, <3>3 DEF Sends, s
  <2>5. WholeAnswer(sent'[k])
    <3> DEFINE s == sent[k]
               t == s \o p
    <3>1. /\ s \in Seq(Pieces) /\ Len(s) = 1 /\ s[1] = worker[w].piece
          /\ p \in Seq(Pieces) /\ Len(p) = 1 /\ p[1] = Image(k)
      BY <1>8, <2>1 DEF p
    <3> HIDE DEF s
    <3>2. Len(t) = 1 + 1 /\ t \in Seq(Pieces) /\ t # <<>> /\ t[1 + 1] = Image(k) /\ t[1] = s[1]
      <4>1. p = <<Image(k)>> /\ Image(k) \in Pieces
        BY <1>2, PieceFacts DEF p
      <4>2. t = s \o <<Image(k)>>
        BY <4>1
      <4> HIDE DEF t
      <4> QED
        BY <3>1, <4>1, <4>2, ExtendFacts
    <3>3. sent'[k] = t
      BY <2>2 DEF Sends, s
    <3> HIDE DEF t
    <3>4. Head(t) = t[1] /\ t[1].is = "header" /\ t[1].status = 200 /\ t[2].is = "image"
      BY <1>8, <3>1, <3>2 DEF Header, Image
    <3>5. WholeAnswer(t)
      BY <3>2, <3>4, ImageAnswer
    <3> QED
      BY <3>3, <3>5
  <2>6. AnswerDone(c)'
    BY <1>13, <2>4, <2>5, DoneFacts
  <2> QED
    BY <1>1, <1>5, <1>7, <1>10, <1>13, <1>17, <2>2, <2>3, <2>6, LeaveStep
<1>18. CASE SendFails(worker[w].fd) /\ Fail(w, 500, <<"client", "server">>)
  <2>1. UNCHANGED <<conn, sent>>
    BY <1>18 DEF SendFails
  <2> QED
    BY <1>12, <1>18, <2>1
<1>19. \/ UNCHANGED <<conn, sent>> /\ Fail(w, 500, <<"client", "server">>)
       \/ call[w].result.is = "nothing" /\ Succeed(w) /\ UNCHANGED <<conn, sent>>
       \/ call[w].result.is = "image" /\ Put(worker[w].fd, <<Image(call[w].result.of)>>) /\ Succeed(w)
       \/ SendFails(worker[w].fd) /\ Fail(w, 500, <<"client", "server">>)
  BY DEF TakeImage, SendAll, net
<1> QED
  BY <1>12, <1>14, <1>15, <1>16, <1>17, <1>18, <1>19

\* The n-th piece is the header of the only error, and its body is the last.
ErrorAt(n, t) ==
    /\ \A i \in DOMAIN t : IsError(t[i]) => i = n
    /\ IsError(t[n]) /\ n \in DOMAIN t
    /\ Len(t) = n + 1 /\ ~ WholeAnswer(SubSeq(t, 1, n - 1))

\* What sendError() adds is the only error, and ends what has been sent.
LEMMA ErrorFacts ==
    ASSUME NEW k \in Conns, NEW st \in Failures, NEW s \in Seq(Pieces), Unfinished(s),
           NEW t, t = s \o <<Header(k, st, 1), Body(k)>>
    PROVE  ErrorAt(Len(s) + 1, t)
<1>1. Header(k, st, 1) \in Pieces /\ Body(k) \in Pieces
  BY PieceFacts DEF Failures
<1>2. /\ Len(s) \in Nat /\ Len(t) = Len(s) + 2 /\ DOMAIN s = 1 .. Len(s) /\ DOMAIN t = 1 .. (Len(s) + 2)
      /\ t[Len(s) + 1] = Header(k, st, 1) /\ t[Len(s) + 2] = Body(k)
      /\ \A i \in 1 .. Len(s) : t[i] = s[i]
      /\ SubSeq(t, 1, Len(s)) = s
  BY <1>1, ExtendTwice
<1>3. IsError(t[Len(s) + 1]) /\ ~ IsError(t[Len(s) + 2])
  <2>1. Header(k, st, 1).is = "header" /\ Header(k, st, 1).status # 200 /\ Header(k, st, 1).len # NoLength
    BY DEF Header, NoLength, Failures
  <2>2. Body(k).is # "header"
    BY DEF Body
  <2> QED
    BY <1>2, <2>1, <2>2 DEF IsError
<1>4. \A i \in 1 .. Len(s) : ~ IsError(t[i])
  BY <1>2 DEF Unfinished
<1>5. \A i \in DOMAIN t : i \in 1 .. Len(s) \/ i = Len(s) + 1 \/ i = Len(s) + 2
  BY <1>2
<1>6. (Len(s) + 1) - 1 = Len(s) /\ Len(s) + 2 = (Len(s) + 1) + 1 /\ Len(s) + 1 \in 1 .. (Len(s) + 2)
  BY <1>2
<1>7. ~ WholeAnswer(SubSeq(t, 1, Len(s)))
  BY <1>2 DEF Unfinished
<1> QED
  BY <1>2, <1>3, <1>4, <1>5, <1>6, <1>7 DEF ErrorAt

\* sendError() is the only error, and the last thing sent.
LEMMA SendErrorStep ==
    ASSUME SocketInv, NEW w, Workers = {w}, alive, SendError(w), UNCHANGED clientVars
    PROVE  SocketInv'
<1> DEFINE k == worker[w].req
           cl == worker[w].toClose
           st == worker[w].status
           p  == <<Header(k, st, 1), Body(k)>>
<1>1. worker[w].at = "error" /\ worker[w].at \in Busy /\ worker[w].at \in Busy \ {"image"}
  BY DEF SendError, Busy
<1>2. /\ SocketTypeOK /\ StageAt(w) /\ k \in Conns /\ worker[w] \in WorkerType
      /\ cl \in {<<"client">>, <<"client", "server">>}
      /\ (HoldsServer(w) <=> cl = <<"client", "server">>)
  BY <1>1, BusyFacts
<1>3. /\ UNCHANGED <<process, table, origin, faulted, rpcVars>> /\ Works /\ Leave(w, cl)
      /\ Put(worker[w].fd, p) \/ SendFails(worker[w].fd)
  BY DEF SendError
<1>4. st \in Failures /\ (conn[k].client = "open" => Unfinished(sent[k]))
  <2>1. st \in {0, 404, 408, 500}
    BY <1>2, WorkerFields
  <2> QED
    BY <1>1, <1>2, <2>1 DEF StageAt, Failures
<1>5. p \in Seq(Pieces) /\ About(k, p) /\ origin' \in [Conns -> OriginType] /\ sent[k] \in Seq(Pieces)
  <2>1. Header(k, st, 1) \in Pieces /\ Body(k) \in Pieces
    BY <1>2, <1>4, PieceFacts DEF Failures
  <2> QED
    BY <1>2, <1>3, <2>1 DEF About, Header, Body, SocketTypeOK
<1>6. PICK s : s = sent[k]
  OBVIOUS
<1>7. PICK c : c = worker[w].req
  OBVIOUS
<1>8. PICK e : e = worker[w].status
  OBVIOUS
<1>9. p = <<Header(c, e, 1), Body(c)>>
  BY <1>7, <1>8
<1> HIDE DEF p
<1>10. /\ Inner /\ CallAt(w)' /\ call'[w].at = "idle"
       /\ serverSock' = serverSock
       /\ \A j \in Conns : j # k => sent'[j] = sent[j]
       /\ About(k, sent'[k]) /\ conn'[k].client = conn[k].client
       /\ Put(worker[w].fd, p) => Sends(k, p)
       /\ SendFails(worker[w].fd) => UNCHANGED <<conn, sent>> /\ conn[k].client # "open"
  <2>1. /\ SocketInv /\ Workers = {w} /\ alive /\ worker[w].at \in Busy \ {"image"}
        /\ UNCHANGED <<process, table, faulted, rpcVars>> /\ UNCHANGED clientVars /\ Works
        /\ origin' \in [Conns -> OriginType] /\ p \in Seq(Pieces) /\ About(k, p)
        /\ Put(worker[w].fd, p) \/ SendFails(worker[w].fd)
    BY <1>1, <1>3, <1>5
  <2> QED
    BY ONLY <2>1, SendingFacts
<1>11. AnswerDone(c)'
  <2>1. CASE conn[k].client # "open"
    BY <1>7, <1>10, <2>1 DEF AnswerDone
  <2>2. CASE conn[k].client = "open"
    <3>1. Put(worker[w].fd, p)
      BY <1>3, <1>10, <2>2
    <3>2. sent'[c] = s \o <<Header(c, e, 1), Body(c)>>
      BY <1>6, <1>7, <1>9, <1>10, <3>1 DEF Sends
    <3>3. c \in Conns /\ e \in Failures /\ s \in Seq(Pieces) /\ Unfinished(s)
      BY <1>2, <1>4, <1>5, <1>6, <1>7, <1>8, <2>2
    <3>4. PICK t : t = sent'[c]
      OBVIOUS
    <3>5. ErrorAt(Len(s) + 1, t)
      BY <3>2, <3>3, <3>4, ErrorFacts
    <3>6. {i \in DOMAIN t : IsError(t[i])} # {}
      BY <3>5 DEF ErrorAt
    <3>7. \A i \in {j \in DOMAIN t : IsError(t[j])} :
             Len(t) = i + 1 /\ ~ WholeAnswer(SubSeq(t, 1, i - 1))
      BY <3>5 DEF ErrorAt
    <3> QED
      BY <3>4, <3>6, <3>7 DEF AnswerDone
  <2> QED
    BY <2>1, <2>2
<1>12. /\ cl \in {<<"client">>, <<"client", "server">>, <<"server", "client">>}
       /\ (cl = <<"client">> <=> ~ HoldsServer(w))
  <2>1. <<"client">> # <<"client", "server">>
    OBVIOUS
  <2> QED
    BY <1>2, <2>1
<1> QED
  BY <1>1, <1>3, <1>7, <1>10, <1>11, <1>12, LeaveStep

\* The local server has answered, if the proxy has not died of a JPG.
LEMMA SharedStep ==
    ASSUME SocketInv, NEW w, Workers = {w}, alive, Shared(w), ~ Die, UNCHANGED clientVars
    PROVE  SocketInv'
<1> DEFINE k == worker[w].req
           p == <<Header(k, 200, 1), Body(k)>>
           cl == <<"client">>
<1>1. /\ worker[w].at = "resolve" /\ worker[w].at \in Busy /\ worker[w].at \in Busy \ {"image"}
      /\ worker[w].at # "error" /\ worker[w].at # "image" /\ worker[w].at \notin Upstream
  BY DEF Shared, Busy, Upstream
<1>2. /\ SocketTypeOK /\ StageAt(w) /\ AnswerInv /\ k \in Conns
      /\ (HoldsServer(w) <=> worker[w].at \in Upstream)
  BY <1>1, BusyFacts
<1>3. sent[k] = <<>> /\ (worker[w].jpg => conn[k].file \in Pictures)
  BY <1>1, <1>2 DEF StageAt
<1>4. /\ cl \in {<<"client">>, <<"client", "server">>, <<"server", "client">>}
      /\ (cl = <<"client">> <=> ~ HoldsServer(w))
  BY <1>1, <1>2
<1> HIDE DEF cl
<1>5. PICK c : c = worker[w].req
  OBVIOUS
<1>6. CASE /\ Put(worker[w].fd, p) \/ SendFails(worker[w].fd)
           /\ Leave(w, cl) /\ Works /\ UNCHANGED <<process, table, origin, faulted, rpcVars>>
  <2>1. p \in Seq(Pieces) /\ About(k, p) /\ origin' \in [Conns -> OriginType] /\ <<>> \o p = p
    <3>1. Header(k, 200, 1) \in Pieces /\ Body(k) \in Pieces
      BY <1>2, PieceFacts
    <3> QED
      BY <1>2, <1>6, <3>1 DEF About, Header, Body, SocketTypeOK
  <2>2. /\ WholeAnswer(p) /\ \A i \in DOMAIN p : ~ IsError(p[i])
    <3>1. /\ p # <<>> /\ Head(p) = Header(k, 200, 1) /\ Len(p) = 2 /\ p[1] = Header(k, 200, 1)
          /\ p[2] = Body(k) /\ DOMAIN p = {1, 2}
      OBVIOUS
    <3> HIDE DEF p
    <3>2. /\ Header(k, 200, 1).is = "header" /\ Header(k, 200, 1).len = 1
          /\ Header(k, 200, 1).status = 200 /\ Body(k).is = "body" /\ NoLength # 1
      BY DEF Header, Body, NoLength
    <3> QED
      BY <3>1, <3>2 DEF WholeAnswer, IsError
  <2> HIDE DEF p
  <2>3. /\ Inner /\ CallAt(w)' /\ call'[w].at = "idle"
        /\ serverSock' = serverSock
        /\ \A j \in Conns : j # k => sent'[j] = sent[j]
        /\ About(k, sent'[k]) /\ conn'[k].client = conn[k].client
        /\ Put(worker[w].fd, p) => Sends(k, p)
        /\ SendFails(worker[w].fd) => UNCHANGED <<conn, sent>> /\ conn[k].client # "open"
    <3>1. /\ SocketInv /\ Workers = {w} /\ alive /\ worker[w].at \in Busy \ {"image"}
          /\ UNCHANGED <<process, table, faulted, rpcVars>> /\ UNCHANGED clientVars /\ Works
          /\ origin' \in [Conns -> OriginType] /\ p \in Seq(Pieces) /\ About(k, p)
          /\ Put(worker[w].fd, p) \/ SendFails(worker[w].fd)
      BY <1>1, <1>6, <2>1
    <3> QED
      BY ONLY <3>1, SendingFacts
  <2>4. AnswerDone(c)'
    <3>1. CASE Put(worker[w].fd, p)
      <4>1. sent'[c] = p
        BY <1>3, <1>5, <2>1, <2>3, <3>1 DEF Sends
      <4> QED
        BY <2>2, <4>1, DoneFacts
    <3>2. CASE SendFails(worker[w].fd)
      <4>1. conn'[c].client # "open"
        BY <1>5, <2>3, <3>2
      <4> QED
        BY <4>1 DEF AnswerDone
    <3> QED
      BY <1>6, <3>1, <3>2
  <2> QED
    BY <1>1, <1>4, <1>5, <1>6, <2>3, <2>4, LeaveStep
<1>7. CASE /\ worker[w].jpg /\ OPTIMIZED /\ Leave(w, cl) /\ Works
           /\ UNCHANGED <<process, table, origin, faulted, net, rpcVars>>
  <2>1. /\ faulted' \in [Workers -> BOOLEAN] /\ origin' \in [Conns -> OriginType]
        /\ serverSock' \in 0 .. limit
    BY <1>2, <1>7 DEF SocketTypeOK, table
  <2>2. Inner /\ (faults' = 0 => faults = 0)
    BY <1>7, <2>1, InnerKept DEF table, net
  <2>3. CallAt(w)' /\ call'[w].at = "idle"
    BY <1>1, <1>7, <2>2, CallInvKept DEF process
  <2>4. sent' = sent /\ conn' = conn /\ serverSock' = serverSock /\ About(k, sent'[k])
    BY <1>2, <1>7 DEF net, table, AnswerInv, OwnAnswer, About
  <2>5. AnswerDone(c)'
    <3>1. sent'[c] = <<>> /\ conn'[c].file \in Pictures /\ DOMAIN sent'[c] = {}
      BY <1>3, <1>5, <1>7, <2>4
    <3> QED
      BY <1>7, <3>1, DoneFacts
  <2> QED
    BY <1>1, <1>4, <1>5, <1>7, <2>2, <2>3, <2>4, <2>5, LeaveStep
<1>8. CASE /\ Put(worker[w].fd, <<Stub(k)>>) \/ UNCHANGED net
           /\ Leave(w, cl) /\ Fails /\ faulted' = [faulted EXCEPT ![w] = TRUE]
           /\ UNCHANGED <<process, table, origin, rpcVars>>
  <2> DEFINE u == <<Stub(k)>>
  <2>1. u \in Seq(Pieces) /\ About(k, u) /\ <<>> \o u = u /\ \A i \in DOMAIN u : ~ IsError(u[i])
    <3>1. Stub(k) \in Pieces /\ Stub(k).is # "header" /\ Stub(k).req = k
      BY <1>2, PieceFacts DEF Stub
    <3> QED
      BY <3>1 DEF About, IsError
  <2> HIDE DEF u
  <2>2. /\ conn' \in [Conns -> ConnType] /\ sent' \in [Conns -> Seq(Pieces)]
        /\ \A j \in Conns : /\ conn'[j].server = conn[j].server /\ conn'[j].client = conn[j].client
                            /\ conn'[j].file = conn[j].file
        /\ \A j \in Conns : j # k => sent'[j] = sent[j]
        /\ sent'[k] = <<>> \/ sent'[k] = u
    <3>1. CASE Put(worker[w].fd, u)
      <4>1. IsClient(worker[w].fd) /\ fdt[worker[w].fd] = ToClient(k)
        BY <1>1, BusyFacts
      <4> QED
        BY <1>2, <1>3, <2>1, <3>1, <4>1, PutFacts
    <3>2. CASE UNCHANGED net
      BY <1>2, <1>3, <3>2 DEF net, SocketTypeOK
    <3> QED
      BY <1>8, <3>1, <3>2 DEF u
  <2>3. /\ origin' \in [Conns -> OriginType] /\ faulted' \in [Workers -> BOOLEAN]
        /\ serverSock' \in 0 .. limit /\ serverSock' = serverSock
    BY <1>2, <1>8 DEF SocketTypeOK, table
  <2>4. Rpc!RpcTypeOK' /\ (faults' = 0 => faults = 0) /\ faults' > 0
    <3>1. Rpc!RpcTypeOK /\ faults \in 0 .. MaxFaults
      BY <1>2 DEF SocketTypeOK, Rpc!RpcTypeOK
    <3> QED
      BY <1>8, <3>1, RpcTypeKept, FaultFacts
  <2>5. Inner
    BY <1>8, <2>2, <2>3, <2>4 DEF Inner, process, table
  <2>6. CallAt(w)' /\ call'[w].at = "idle"
    BY <1>1, <1>8, <2>4, CallInvKept DEF process
  <2>7. About(k, sent'[k]) /\ \A i \in DOMAIN sent'[k] : ~ IsError(sent'[k][i])
    BY <2>1, <2>2 DEF About
  <2>8. AnswerDone(c)'
    BY <1>5, <2>4, <2>7, DoneFacts
  <2> QED
    BY <1>1, <1>4, <1>5, <1>8, <2>2, <2>3, <2>5, <2>6, <2>7, <2>8, LeaveStep
<1> QED
  BY <1>6, <1>7, <1>8 DEF Shared, cl

\* The lowest free descriptor.
LEMMA LowestFacts ==
    ASSUME SocketTypeOK, FreeFds # {}
    PROVE  Lowest \in 1 .. limit /\ fdt[Lowest] = Free
<1>1. FreeFds \subseteq Nat /\ DOMAIN fdt = 1 .. limit
  BY DEF SocketTypeOK, FreeFds
<1>2. \E f \in FreeFds : \A g \in FreeFds : f <= g
  BY <1>1, LeastOne
<1>3. Lowest \in FreeFds
  BY <1>2 DEF Lowest
<1> QED
  BY <1>1, <1>3 DEF FreeFds

\* socket() fails.
LEMMA NoSocketStep ==
    ASSUME SocketInv, NEW w, Workers = {w}, alive, worker[w].at = "resolve", serverSock' = 0,
           Fail(w, 500, <<"client">>), Works \/ Fails, UNCHANGED clientVars,
           UNCHANGED <<process, fdt, list, origin, faulted, net, rpcVars>>
    PROVE  SocketInv'
<1>1. worker[w].at \in Busy \ {"error"} /\ worker[w].at \notin Upstream /\ worker[w].at # "image"
  BY DEF Busy, Upstream
<1>2. SocketTypeOK /\ StageAt(w) /\ worker[w].req \in Conns
  BY <1>1, BusyFacts
<1>3. /\ faulted' \in [Workers -> BOOLEAN] /\ origin' \in [Conns -> OriginType]
      /\ serverSock' \in 0 .. limit
  BY <1>2, ForwardAssumption DEF SocketTypeOK
<1>4. Inner /\ (faults' = 0 => faults = 0)
  BY <1>3, InnerKept DEF net
<1>5. CallAt(w)' /\ call'[w].at = "idle"
  BY <1>1, <1>4, CallInvKept DEF process
<1>6. Unfinished(sent[worker[w].req]) /\ sent' = sent /\ 500 \in Failures
  BY <1>2, NothingSent DEF StageAt, net, Failures
<1> QED
  BY <1>1, <1>4, <1>5, <1>6, FailStep

\* The types of what belongs to the client.
ClientSide ==
    /\ numThreads \in Threads /\ accesses \in Threads
    /\ picks \in [1 .. accesses -> Files]
    /\ thread \in [Threads -> ThreadType]
    /\ joined \in 0 .. numThreads /\ total \in Nat /\ exit \in Statuses

\* What belongs to the client keeps its type while the client does nothing.
LEMMA ClientSideKept ==
    ASSUME SocketTypeOK, UNCHANGED clientVars
    PROVE  ClientSide'
<1>1. ClientSide /\ UNCHANGED <<numThreads, accesses, picks, thread, joined, total, exit>>
  BY DEF SocketTypeOK, ClientSide, clientVars, params
<1>2. ThreadType' = ThreadType
  BY <1>1 DEF ThreadType
<1> QED
  BY <1>1, <1>2 DEF ClientSide

\* The type of a worker depends on the size of the descriptor table only.
LEMMA WorkerTypeKept == ASSUME limit' = limit PROVE WorkerType' = WorkerType
  BY DEF WorkerType

\* socket() takes a descriptor that was free.
LEMMA OpenSocketStep ==
    ASSUME SocketInv, NEW w, Workers = {w}, alive, OpenSocket(w), UNCHANGED clientVars
    PROVE  SocketInv'
<1> DEFINE k == worker[w].req
<1>1. /\ worker[w].at = "resolve" /\ worker[w].at \in Busy /\ worker[w].at \notin Upstream
      /\ worker[w].at # "error" /\ worker[w].at # "image"
  BY DEF OpenSocket, Busy, Upstream
<1>2. /\ SocketTypeOK /\ Ahead /\ TableInv /\ StageAt(w) /\ AnswerInv /\ k \in Conns
      /\ worker[w].toClose = <<>> /\ HoldsClient(w) /\ ~ HoldsServer(w)
      /\ IsClient(worker[w].fd) /\ worker[w].fd \notin Queued /\ fdt[worker[w].fd] = ToClient(k)
  BY <1>1, BusyFacts
<1>3. CASE /\ serverSock' = 0 /\ Fail(w, 500, <<"client">>) /\ (Works \/ Fails)
           /\ UNCHANGED <<process, fdt, list, origin, faulted, net, rpcVars>>
  BY <1>1, <1>3, NoSocketStep
<1>4. CASE /\ FreeFds # {} /\ serverSock' = Lowest /\ fdt' = [fdt EXCEPT ![Lowest] = ToOrigin(k)]
           /\ origin' = [origin EXCEPT ![k].st = "socket"] /\ Goto(w, "connect") /\ Works
           /\ UNCHANGED <<process, list, faulted, net, rpcVars>>
  <2>1. PICK n : n = Lowest
    OBVIOUS
  <2>2. n \in 1 .. limit /\ fdt[n] = Free /\ DOMAIN fdt = 1 .. limit
    BY <1>2, <1>4, <2>1, LowestFacts DEF SocketTypeOK
  <2>3. /\ fdt' = [fdt EXCEPT ![n] = ToOrigin(k)] /\ serverSock' = n
        /\ DOMAIN fdt' = 1 .. limit /\ fdt'[n] = ToOrigin(k)
        /\ \A f \in 1 .. limit : f # n => fdt'[f] = fdt[f]
    BY <1>4, <2>1, <2>2
  <2>4. fdt' \in [1 .. limit -> {Free} \cup {ToClient(j) : j \in Conns} \cup {ToOrigin(j) : j \in Conns}]
    BY <1>2, <2>2, <2>3 DEF SocketTypeOK
  <2>5. w \in Workers /\ "connect" \in Pcs /\ "connect" \in Upstream /\ "connect" \in Busy
    BY DEF Pcs, Upstream, Busy
  <2>6. /\ worker' \in [Workers -> WorkerType] /\ worker'[w].at = "connect"
        /\ worker'[w].fd = worker[w].fd /\ worker'[w].req = k /\ worker'[w].jpg = worker[w].jpg
        /\ worker'[w].got = worker[w].got /\ worker'[w].toClose = <<>>
    BY <1>2, <1>4, <2>5, GotoFacts
  <2>7. origin' \in [Conns -> OriginType]
    <3> DEFINE o == [origin[k] EXCEPT !.st = "socket"]
    <3>1. o \in OriginType
      BY <1>2 DEF SocketTypeOK, OriginType
    <3>2. origin' = [origin EXCEPT ![k] = o]
      BY <1>4
    <3> HIDE DEF o
    <3> QED
      BY <1>2, <3>1, <3>2 DEF SocketTypeOK
  <2>8. Rpc!RpcTypeOK' /\ (faults' = 0 => faults = 0)
    BY <1>2, <1>4, RpcTypeKept DEF SocketTypeOK
  <2>9. SocketTypeOK'
    <3>1. ClientSide' /\ limit' = limit
      BY <1>2, <1>4, ClientSideKept DEF process
    <3>2. WorkerType' = WorkerType
      BY <3>1, WorkerTypeKept
    <3> QED
      BY <1>2, <1>4, <2>2, <2>3, <2>4, <2>6, <2>7, <2>8, <3>1, <3>2
         DEF SocketTypeOK, ClientSide, process, net
  <2>10. Ahead'
    BY <1>2, <1>4 DEF Ahead, net, clientVars, params
  <2>11. \A f : /\ (IsClient(f)' <=> IsClient(f))
                /\ IsClient(f) => f # n /\ fdt'[f] = fdt[f]
    <3>1. ~ IsClient(n)
      BY <2>2 DEF IsClient, Open
    <3>2. ~ IsClient(n)'
      <4>1. fdt'[n][1] = "origin"
        BY <1>2, <2>3, DescriptorFacts
      <4> QED
        BY <4>1 DEF IsClient
    <3>3. ASSUME NEW f, f # n
          PROVE  (IsClient(f)' <=> IsClient(f)) /\ (IsClient(f) => fdt'[f] = fdt[f])
      BY <2>2, <2>3, <3>3 DEF IsClient, Open
    <3> QED
      BY <3>1, <3>2, <3>3
  <2>12. IsOrigin(n)' /\ Open(n)' /\ \A f : f # n => (Open(f)' <=> Open(f))
    <3>1. fdt'[n][1] = "origin" /\ fdt'[n] # Free
      BY <1>2, <2>3, DescriptorFacts
    <3> QED
      BY <2>2, <2>3, <3>1 DEF IsOrigin, Open
  <2>13. HoldsClient(w)' /\ HoldsServer(w)'
    BY <2>5, <2>6 DEF HoldsClient, HoldsServer, Upstream
  <2>14. \A f : Open(f) => IsClient(f)
    <3>1. ASSUME NEW f, Open(f) PROVE IsClient(f)
      <4>1. f \in DOMAIN fdt
        BY <3>1 DEF Open
      <4>2. f \in Queued \/ worker[w].fd = f
        BY <1>2, <3>1, <4>1 DEF TableInv, InUse
      <4> QED
        BY <1>2, <4>2 DEF TableInv, Queued
    <3> QED
      BY <3>1
  <2>15. TableInv'
    <3>1. ASSUME NEW f \in DOMAIN fdt', NEW g \in DOMAIN fdt', fdt'[f] = fdt'[g]
          PROVE  f = g \/ fdt'[f] = Free
      <4>1. ASSUME NEW h \in 1 .. limit, h # n PROVE fdt'[h] # ToOrigin(k)
        <5>1. fdt'[h] = fdt[h]
          BY <2>3, <4>1
        <5>2. fdt[h] = Free => fdt[h] # ToOrigin(k)
          BY <1>2, DescriptorFacts
        <5>3. fdt[h] # Free => fdt[h][1] = "client"
          BY <2>2, <2>14, <4>1 DEF Open, IsClient
        <5>4. ToOrigin(k)[1] # "client"
          BY <1>2, DescriptorFacts
        <5> QED
          BY <5>1, <5>2, <5>3, <5>4
      <4>2. CASE f # n /\ g # n
        BY <1>2, <2>2, <2>3, <3>1, <4>2 DEF TableInv
      <4>3. CASE f = n \/ g = n
        BY <2>3, <3>1, <4>1, <4>3
      <4> QED
        BY <4>2, <4>3
    <3>2. ASSUME NEW f \in DOMAIN fdt', IsClient(f)' PROVE conn'[fdt'[f][2]].server = "open"
      BY <1>2, <1>4, <2>2, <2>3, <2>11, <3>2 DEF TableInv, net
    <3>3. /\ \A i, j \in DOMAIN list' : list'[i] = list'[j] => i = j
          /\ \A i \in DOMAIN list' : IsClient(list[i])'
      BY <1>2, <1>4, <2>11 DEF TableInv
    <3>4. ASSUME NEW f \in DOMAIN fdt', Open(f)' PROVE InUse(f)'
      <4>1. CASE f = n
        BY <2>3, <2>5, <2>13, <4>1 DEF InUse
      <4>2. CASE f # n
        <5>1. f \in Queued \/ worker[w].fd = f
          BY <1>2, <2>2, <2>3, <2>12, <3>4, <4>2 DEF TableInv, InUse
        <5>2. Queued' = Queued
          BY <1>4 DEF Queued
        <5> QED
          BY <2>5, <2>6, <2>13, <5>1, <5>2 DEF InUse
      <4> QED
        BY <4>1, <4>2
    <3>5. HoldingAt(w)'
      <4>1. IsClient(worker[w].fd)' /\ (worker[w].fd \notin Queued)' /\ (fdt[worker[w].fd] = ToClient(worker[w].req))'
        BY <1>2, <1>4, <2>6, <2>11 DEF Queued
      <4>2. IsOrigin(serverSock)' /\ (fdt[serverSock] = ToOrigin(worker[w].req))'
        BY <2>3, <2>6, <2>12
      <4> QED
        BY <2>5, <2>6, <4>1, <4>2 DEF HoldingAt
    <3> QED
      BY <3>1, <3>2, <3>3, <3>4, <3>5 DEF TableInv
  <2>16. CallInv'
    BY <1>1, <1>4, <2>6, <2>8, CallInvKept DEF process
  <2>17. AnswerInv'
    <3>1. OwnAnswer'
      BY <1>2, <1>4 DEF AnswerInv, OwnAnswer, net
    <3>2. ASSUME NEW j \in Conns, sent'[j] # <<>> PROVE fdt'[worker'[w].fd] = ToClient(j)
      <4>1. fdt[worker[w].fd] = ToClient(j)
        BY <1>2, <1>4, <3>2 DEF AnswerInv, net
      <4> QED
        BY <1>2, <2>6, <2>11, <4>1
    <3>3. \A j \in Conns : sent'[j] # <<>> =>
             \E v \in Workers : HoldsClient(v)' /\ fdt'[worker'[v].fd] = ToClient(j)
      BY <2>5, <2>13, <3>2
    <3>4. StageAt(w)'
      <4>1. sent'[k] = <<>> /\ worker'[w].got = 0 /\ (worker'[w].jpg => conn'[k].file \in Pictures)
        BY <1>1, <1>2, <1>4, <2>6 DEF StageAt, net
      <4> QED
        BY <2>6, <4>1 DEF StageAt
    <3> QED
      BY <3>1, <3>3, <3>4 DEF AnswerInv
  <2> QED
    BY <2>9, <2>10, <2>15, <2>16, <2>17 DEF SocketInv
<1> QED
  BY <1>3, <1>4 DEF OpenSocket

----------------------------------------------------------------------------
(* The steps of the client, and of the RPC server.                         *)

\* What the client does leaves the proxy and its call of compress() alone, and
\* does not touch what a connection of which the proxy has an end was opened
\* for.
ClientMoves ==
    /\ UNCHANGED <<proxyVars, rpcVars>> /\ (Works \/ Fails)
    /\ conn' \in [Conns -> ConnType]
    /\ \A k \in Conns :
          /\ conn'[k].server = conn[k].server
          /\ conn[k].client # "none" =>
               /\ conn'[k].client # "none" /\ conn'[k].file = conn[k].file
               /\ conn'[k].client = "open" => conn[k].client = "open"

\* The invariant survives what the client does.
LEMMA ClientKeeps ==
    ASSUME SocketInv, NEW w, Workers = {w}, ClientMoves, ClientSide', Ahead'
    PROVE  SocketInv'
<1>1. /\ SocketTypeOK /\ Ahead /\ TableInv /\ CallInv /\ AnswerInv
      /\ HoldingAt(w) /\ StageAt(w) /\ CallAt(w)
  BY DEF SocketInv, TableInv, CallInv, AnswerInv
<1>2. /\ limit' = limit /\ alive' = alive /\ fdt' = fdt /\ list' = list /\ serverSock' = serverSock
      /\ worker' = worker /\ origin' = origin /\ faulted' = faulted /\ sent' = sent
      /\ UNCHANGED rpcVars
  BY DEF ClientMoves, proxyVars, process, table
<1>3. Rpc!RpcTypeOK' /\ (faults' = 0 => faults = 0)
  BY <1>1, <1>2, RpcTypeKept DEF SocketTypeOK, ClientMoves
<1>4. SocketTypeOK'
  <2>1. WorkerType' = WorkerType
    BY <1>2, WorkerTypeKept
  <2> QED
    BY <1>1, <1>2, <1>3, <2>1 DEF SocketTypeOK, ClientSide, ClientMoves
<1>5. /\ Queued' = Queued /\ HoldsClient(w)' = HoldsClient(w) /\ HoldsServer(w)' = HoldsServer(w)
      /\ \A f : (IsClient(f)' <=> IsClient(f)) /\ (IsOrigin(f)' <=> IsOrigin(f)) /\ (Open(f)' <=> Open(f))
      /\ \A f : InUse(f)' = InUse(f)
  BY <1>2 DEF Queued, HoldsClient, HoldsServer, Closes, IsClient, IsOrigin, Open, InUse
<1>6. TableInv'
  <2>1. HoldingAt(w)'
    BY <1>1, <1>2, <1>5 DEF HoldingAt
  <2>2. ASSUME NEW f \in DOMAIN fdt, IsClient(f) PROVE conn'[fdt[f][2]].server = "open"
    BY <1>1, <2>2, TableFacts DEF TableInv, ClientMoves
  <2> QED
    BY <1>1, <1>2, <1>5, <2>1, <2>2 DEF TableInv
<1>7. CallInv'
  BY <1>1, <1>2, <1>3, CallKept DEF CallInv, rpcVars
<1>8. ASSUME NEW f, IsClient(f) PROVE fdt[f][2] \in Conns /\ conn[fdt[f][2]].client # "none"
  <2>1. fdt[f][2] \in Conns /\ f \in DOMAIN fdt
    BY <1>1, <1>8, TableFacts DEF SocketTypeOK
  <2> QED
    BY <1>1, <1>8, <2>1 DEF TableInv, Ahead
<1>9. StageAt(w)'
  <2>1. PICK k : k = worker[w].req
    OBVIOUS
  <2>2. worker[w].at \in Busy => k \in Conns /\ conn[k].client # "none"
    <3>1. HAVE worker[w].at \in Busy
    <3>2. IsClient(worker[w].fd) /\ fdt[worker[w].fd][2] = k
      BY <2>1, <3>1, BusyFacts
    <3> QED
      BY <1>8, <3>2
  <2>3. worker[w].at \in Busy =>
           /\ conn'[k].file = conn[k].file
           /\ conn'[k].client = "open" => conn[k].client = "open"
    BY <2>2 DEF ClientMoves
  <2>4. Received(w) => Received(w)'
    <3>1. 0 <= faults /\ (faults > 0 => faults' > 0)
      BY <1>1, <1>3 DEF SocketTypeOK, Rpc!RpcTypeOK, ClientMoves, Works, Fails
    <3> QED
      BY <1>2, <3>1 DEF Received
  <2>5. Forwarded(w)' = Forwarded(w)
    BY <1>2 DEF Forwarded
  <2>6. worker[w].at = "close" /\ Closes(w, "client") => AnswerDone(fdt[worker[w].fd][2])'
    <3>1. HAVE worker[w].at = "close" /\ Closes(w, "client")
    <3>2. PICK c : c = fdt[worker[w].fd][2]
      OBVIOUS
    <3>3. AnswerDone(c) /\ c \in Conns /\ conn[c].client # "none"
      <4>1. HoldsClient(w)
        BY <3>1 DEF HoldsClient
      <4> QED
        BY <1>1, <1>8, <3>1, <3>2, <4>1 DEF StageAt, HoldingAt
    <3>4. conn'[c].file = conn[c].file /\ (conn'[c].client = "open" => conn[c].client = "open")
      BY <3>3 DEF ClientMoves
    <3>5. 0 <= faults /\ (faults > 0 => faults' > 0)
      BY <1>1, <1>3 DEF SocketTypeOK, Rpc!RpcTypeOK, ClientMoves, Works, Fails
    <3>6. AnswerDone(c)'
      BY <1>2, <3>3, <3>4, <3>5 DEF AnswerDone
    <3> QED
      BY <1>2, <3>2, <3>6
  <2>7. Closes(w, "client")' = Closes(w, "client")
    BY <1>2 DEF Closes
  <2> QED
    BY <1>1, <1>2, <1>3, <2>1, <2>3, <2>4, <2>5, <2>6, <2>7 DEF StageAt, Busy, Upstream
<1>10. AnswerInv'
  BY <1>1, <1>2, <1>5, <1>9 DEF AnswerInv, OwnAnswer
<1> QED
  BY <1>4, <1>6, <1>7, <1>10 DEF SocketInv

\* A thread of the client that runs is one that was started, and what it
\* works on is a connection.
LEMMA ThreadFacts ==
    ASSUME SocketTypeOK, Ahead, NEW t \in Threads
    PROVE  /\ thread[t] \in ThreadType /\ thread[t].n \in 1 .. accesses /\ accesses \in Threads
           /\ thread[t].bLen \in {-1} \cup Nat /\ thread[t].bodyLen \in Nat /\ thread[t].retVal \in Nat
           /\ thread[t].at \in {"socket", "send", "header", "body", "returned"}
           /\ thread[t].at # "returned" => Current(t) \in Conns
           /\ Current(t)[1] = t /\ Current(t)[2] = thread[t].n
<1>1. thread[t] \in ThreadType /\ accesses \in Threads /\ numThreads \in Threads
  BY DEF SocketTypeOK
<1>2. /\ thread[t].n \in 1 .. accesses
      /\ thread[t].bLen \in {-1} \cup Nat /\ thread[t].bodyLen \in Nat /\ thread[t].retVal \in Nat
      /\ thread[t].at \in {"socket", "send", "header", "body", "returned"}
  BY <1>1 DEF ThreadType
<1>3. ASSUME thread[t].at # "returned" PROVE Current(t) \in Conns
  <2>1. PICK n : n = thread[t].n
    OBVIOUS
  <2>2. /\ t \in Nat /\ n \in Nat /\ 1 <= n /\ n <= accesses /\ accesses \in Nat /\ numThreads \in Nat
        /\ t <= numThreads /\ numThreads * accesses = NumConns /\ n \in Threads
    BY <1>1, <1>2, <1>3, <2>1, NumConnsNat DEF Ahead, Threads
  <2>3. t * n <= t * accesses
    BY <2>2
  <2>4. t * accesses <= numThreads * accesses
    BY <2>2
  <2>5. t * n \in Nat /\ t * accesses \in Nat
    BY <2>2
  <2>6. t * n <= NumConns
    BY <2>2, <2>3, <2>4, <2>5
  <2>7. <<t, n>> \in Threads \X Threads /\ <<t, n>>[1] = t /\ <<t, n>>[2] = n
    BY <2>2
  <2> QED
    BY <2>1, <2>6, <2>7 DEF Current, Conns
<1> QED
  BY <1>1, <1>2, <1>3 DEF Current

\* exit() of the client shuts what is open.
LEMMA EndProcessFacts ==
    ASSUME SocketTypeOK, Ahead, NEW status \in Statuses \ {"no"}, NEW cs \in [Conns -> ConnType],
           \A k \in Conns : cs[k].server = conn[k].server /\ cs[k].client = conn[k].client
                              /\ cs[k].file = conn[k].file,
           EndProcess(status, cs), UNCHANGED <<params, joined, total>>,
           UNCHANGED <<proxyVars, rpcVars>>, Works \/ Fails
    PROVE  ClientMoves /\ ClientSide' /\ Ahead'
<1>1. PICK n \in NoRequest .. Whole :
        conn' = [k \in Conns |->
                    IF cs[k].client = "open"
                    THEN [cs[k] EXCEPT !.client = "shut", !.down = <<>>,
                                       !.up = IF @ > n THEN n ELSE @]
                    ELSE cs[k]]
  BY DEF EndProcess
<1>2. ASSUME NEW k \in Conns
      PROVE  /\ conn'[k] \in ConnType /\ conn'[k].server = conn[k].server
             /\ conn'[k].file = conn[k].file
             /\ conn[k].client # "none" => conn'[k].client # "none"
             /\ conn'[k].client # "open"
  <2> DEFINE q1 == [cs[k] EXCEPT !.client = "shut"]
             q2 == [q1 EXCEPT !.down = <<>>]
             m  == IF q2.up > n THEN n ELSE q2.up
             q3 == [q2 EXCEPT !.up = m]
  <2>1. cs[k] \in ConnType
    OBVIOUS
  <2>2. q1 \in ConnType /\ q1.client = "shut" /\ q1.server = cs[k].server /\ q1.file = cs[k].file
        /\ q1.up = cs[k].up
    BY <2>1 DEF ConnType, Ends
  <2> HIDE DEF q1
  <2>9. <<>> \in Seq(Pieces)
    OBVIOUS
  <2>3. q2 \in ConnType /\ q2.client = "shut" /\ q2.server = cs[k].server /\ q2.file = cs[k].file
        /\ q2.up = cs[k].up
    BY <2>2, <2>9 DEF ConnType
  <2> HIDE DEF q2
  <2>4. m \in NoRequest .. Whole
    BY <2>3 DEF ConnType
  <2> HIDE DEF m
  <2>5. q3 \in ConnType /\ q3.client = "shut" /\ q3.server = cs[k].server /\ q3.file = cs[k].file
    BY <2>3, <2>4 DEF ConnType
  <2> HIDE DEF q3
  <2>6. CASE cs[k].client = "open"
    <3>1. conn'[k] = q3
      BY <1>1, <2>3, <2>6 DEF q1, q2, q3, m
    <3> QED
      BY <2>5, <3>1
  <2>7. CASE cs[k].client # "open"
    <3>1. conn'[k] = cs[k]
      BY <1>1, <2>7
    <3> QED
      BY <2>1, <2>7, <3>1
  <2> QED
    BY <2>6, <2>7
<1>3. conn' \in [Conns -> ConnType]
  BY <1>1, <1>2
<1>4. ClientMoves
  BY <1>2, <1>3 DEF ClientMoves
<1>5. thread' = [t \in Threads |-> NoThread] /\ exit' = status /\ params' = params
      /\ joined' = joined /\ total' = total
  BY DEF EndProcess
<1>6. ClientSide'
  <2>1. NoThread \in ThreadType'
    BY <1>5 DEF NoThread, ThreadType, params, SocketTypeOK, Threads
  <2> QED
    BY <1>5, <2>1 DEF ClientSide, SocketTypeOK, params
<1>7. Ahead'
  BY <1>2, <1>5 DEF Ahead, NoThread, params
<1> QED
  BY <1>4, <1>6, <1>7

\* What a thread does with the connection it has.
LEMMA ConnectionStep ==
    ASSUME SocketInv, NEW w, Workers = {w}, exit = "no", exit' = exit, NEW t \in Threads,
           thread[t].at # "returned", UNCHANGED <<params, joined, total>>,
           UNCHANGED <<proxyVars, rpcVars>>, Works,
           NEW c \in ConnType, c.server = conn[Current(t)].server,
           conn[Current(t)].client # "none" =>
                /\ c.client # "none" /\ c.file = conn[Current(t)].file
                /\ c.client = "open" => conn[Current(t)].client = "open",
           conn[Current(t)].server # "none" => c.client # "none",
           conn' = [conn EXCEPT ![Current(t)] = c],
           NEW r \in ThreadType, thread' = [thread EXCEPT ![t] = r],
           r.n >= thread[t].n,
           r.at = "socket" => r.n > thread[t].n
    PROVE  SocketInv'
<1>1. SocketTypeOK /\ Ahead
  BY DEF SocketInv
<1>2. PICK k : k = Current(t)
  OBVIOUS
<1>3. /\ k \in Conns /\ k[1] = t /\ k[2] = thread[t].n /\ t <= numThreads
      /\ thread[t].n \in 1 .. accesses /\ accesses \in Threads
  BY <1>1, <1>2, ThreadFacts DEF Ahead
<1>4. /\ conn' \in [Conns -> ConnType] /\ conn'[k] = c
      /\ \A j \in Conns : j # k => conn'[j] = conn[j]
      /\ \A j \in Conns : conn'[j].server = conn[j].server
  <2>1. conn' = [conn EXCEPT ![k] = c] /\ c.server = conn[k].server /\ conn \in [Conns -> ConnType]
    BY <1>1, <1>2 DEF SocketTypeOK
  <2> QED
    BY <1>3, <2>1
<1>5. ClientMoves
  BY <1>2, <1>4 DEF ClientMoves
<1>6. thread' \in [Threads -> ThreadType] /\ thread'[t] = r /\ params' = params
      /\ \A s \in Threads : s # t => thread'[s] = thread[s]
  BY <1>1 DEF SocketTypeOK
<1>7. ClientSide'
  <2>1. ThreadType' = ThreadType
    BY <1>6 DEF ThreadType, params
  <2> QED
    BY <1>1, <1>6, <2>1 DEF ClientSide, SocketTypeOK, params
<1>8. Ahead'
  <2>1. ASSUME NEW j \in Conns,
               \/ j[2] > thread'[j[1]].n
               \/ j[2] = thread'[j[1]].n /\ thread'[j[1]].at = "socket"
        PROVE  conn'[j].client = "none"
    <3>1. j[1] \in Threads /\ j[2] \in Threads /\ j = <<j[1], j[2]>> /\ k = <<k[1], k[2]>>
      BY <1>3, ConnsFacts
    <3>2. CASE j[1] # t
      BY <1>1, <1>3, <1>4, <1>6, <2>1, <3>1, <3>2 DEF Ahead
    <3>3. CASE j[1] = t
      <4>1. r.n \in Nat /\ thread[t].n \in Nat /\ j[2] \in Nat
        BY <1>3, <3>1 DEF ThreadType, Threads
      <4>2. j[2] > thread[t].n
        BY <1>6, <2>1, <3>3, <4>1
      <4>3. j # k
        BY <1>3, <4>1, <4>2
      <4> QED
        BY <1>1, <1>4, <3>3, <4>2, <4>3 DEF Ahead
    <3> QED
      BY <3>2, <3>3
  <2>2. \A j \in Conns : conn'[j].server # "none" => conn'[j].client # "none"
    BY <1>1, <1>2, <1>4 DEF Ahead
  <2> QED
    BY <1>1, <1>3, <1>6, <2>1, <2>2 DEF Ahead, params
<1> QED
  BY <1>5, <1>7, <1>8, ClientKeeps

\* The client exits.
LEMMA ExitStep ==
    ASSUME SocketInv, NEW w, Workers = {w}, NEW status \in Statuses \ {"no"},
           NEW cs \in [Conns -> ConnType],
           \A k \in Conns : cs[k].server = conn[k].server /\ cs[k].client = conn[k].client
                              /\ cs[k].file = conn[k].file,
           EndProcess(status, cs), UNCHANGED <<params, joined, total>>,
           UNCHANGED <<proxyVars, rpcVars>>, Works \/ Fails
    PROVE  SocketInv'
<1>1. SocketTypeOK /\ Ahead
  BY DEF SocketInv
<1> QED
  BY <1>1, EndProcessFacts, ClientKeeps

\* connect() of the client makes a connection that nobody has yet.
LEMMA OpenConnectionStep ==
    ASSUME SocketInv, NEW w, Workers = {w}, exit = "no", NEW t \in Threads,
           OpenConnection(t, alive), UNCHANGED <<proxyVars, rpcVars>>
    PROVE  SocketInv'
<1> DEFINE k == Current(t)
<1>1. thread[t].at = "socket" /\ UNCHANGED <<params, joined, total>> /\ SocketTypeOK /\ Ahead
  BY DEF OpenConnection, SocketInv
<1>2. /\ thread[t] \in ThreadType /\ thread[t].n \in 1 .. accesses /\ k \in Conns
      /\ k[1] = t /\ k[2] = thread[t].n
  BY <1>1, ThreadFacts
<1>3. CASE /\ conn' = [conn EXCEPT ![k].client = "open", ![k].file = picks[thread[t].n]]
           /\ thread' = [thread EXCEPT ![t].at = "send"] /\ Works /\ UNCHANGED exit
  <2> DEFINE q == [conn[k] EXCEPT !.client = "open"]
             c == [q EXCEPT !.file = picks[thread[t].n]]
             r == [thread[t] EXCEPT !.at = "send"]
  <2>1. conn[k] \in ConnType /\ picks[thread[t].n] \in Files
    BY <1>1, <1>2 DEF SocketTypeOK
  <2>2. q \in ConnType /\ q.client = "open" /\ q.server = conn[k].server
    BY <2>1 DEF ConnType, Ends
  <2>3. conn' = [conn EXCEPT ![k] = c]
    BY <1>1, <1>2, <1>3 DEF SocketTypeOK
  <2> HIDE DEF q
  <2>4. c \in ConnType /\ c.client = "open" /\ c.server = conn[k].server
    BY <2>1, <2>2 DEF ConnType
  <2> HIDE DEF c
  <2>5. r \in ThreadType /\ r.at = "send" /\ r.n = thread[t].n
    BY <1>2 DEF ThreadType
  <2>6. thread' = [thread EXCEPT ![t] = r]
    BY <1>3
  <2> HIDE DEF r
  <2>7. conn[k].client = "none"
    BY <1>1, <1>2 DEF Ahead
  <2>8. r.n >= thread[t].n
    BY <1>2, <2>5
  <2> QED
    BY <1>1, <1>3, <2>3, <2>4, <2>5, <2>6, <2>7, <2>8, ConnectionStep
<1>4. CASE EndProcess("failure", conn) /\ (Works \/ Fails)
  BY <1>1, <1>4, ExitStep DEF SocketTypeOK, Statuses
<1> QED
  BY <1>3, <1>4 DEF OpenConnection

\* The client sends its request, or dies of it.
LEMMA SendRequestStep ==
    ASSUME SocketInv, NEW w, Workers = {w}, exit = "no", NEW t \in Threads,
           SendRequest(t), UNCHANGED <<proxyVars, rpcVars>>
    PROVE  SocketInv'
<1> DEFINE k == Current(t)
           c == [conn[k] EXCEPT !.up = Whole]
           r == [thread[t] EXCEPT !.at = "header"]
           given == [conn EXCEPT ![k] = c]
<1>1. thread[t].at = "send" /\ UNCHANGED <<params, joined, total>> /\ SocketTypeOK /\ Ahead
  BY DEF SendRequest, SocketInv
<1>2. thread[t] \in ThreadType /\ k \in Conns /\ thread[t].n \in 1 .. accesses
  BY <1>1, ThreadFacts
<1>3. conn[k] \in ConnType /\ conn \in [Conns -> ConnType]
  BY <1>1, <1>2 DEF SocketTypeOK
<1>4. c \in ConnType /\ c.client = conn[k].client /\ c.server = conn[k].server /\ c.file = conn[k].file
  BY <1>3 DEF ConnType, NoRequest, Whole
<1>5. [conn EXCEPT ![k].up = Whole] = given
  OBVIOUS
<1>6. r \in ThreadType /\ r.at = "header" /\ r.n = thread[t].n /\ r.n >= thread[t].n
  BY <1>2 DEF ThreadType
<1>7. CASE conn' = given /\ thread' = [thread EXCEPT ![t].at = "header"] /\ Works /\ UNCHANGED exit
  <2>1. thread' = [thread EXCEPT ![t] = r]
    BY <1>7
  <2>2. conn[k].server # "none" => conn[k].client # "none"
    BY <1>1, <1>2 DEF Ahead
  <2> HIDE DEF c, r
  <2> QED
    BY <1>1, <1>4, <1>6, <1>7, <2>1, <2>2, ConnectionStep
<1>8. CASE EndProcess("failure", given) /\ (Works \/ Fails)
  <2>1. /\ given \in [Conns -> ConnType]
        /\ \A j \in Conns : given[j].server = conn[j].server /\ given[j].client = conn[j].client
                           /\ given[j].file = conn[j].file
    BY <1>2, <1>3, <1>4
  <2> HIDE DEF given
  <2> QED
    BY <1>1, <1>8, <2>1, ExitStep DEF Statuses
<1> QED
  BY <1>5, <1>7, <1>8 DEF SendRequest

\* A piece is taken off what is on its way.
LEMMA TakenFacts ==
    ASSUME NEW c \in ConnType, c.down # <<>>, NEW d, d = [c EXCEPT !.down = Tail(@)]
    PROVE  /\ d \in ConnType /\ Head(c.down) \in Pieces
           /\ d.client = c.client /\ d.server = c.server /\ d.file = c.file
<1>1. c.down \in Seq(Pieces)
  BY DEF ConnType
<1>2. Tail(c.down) \in Seq(Pieces) /\ Head(c.down) \in Pieces
  BY <1>1
<1> QED
  BY <1>2 DEF ConnType

\* The client takes the header.
LEMMA RecvHeaderStep ==
    ASSUME SocketInv, NEW w, Workers = {w}, exit = "no", NEW t \in Threads,
           RecvHeader(t), UNCHANGED <<proxyVars, rpcVars>>
    PROVE  SocketInv'
<1> DEFINE k == Current(t)
<1>1. /\ thread[t].at = "header" /\ UNCHANGED <<params, joined, total, exit>> /\ SocketTypeOK /\ Ahead
      /\ Works
  BY DEF RecvHeader, SocketInv
<1>2. thread[t] \in ThreadType /\ k \in Conns /\ thread[t].n \in 1 .. accesses
  BY <1>1, ThreadFacts
<1>3. conn[k] \in ConnType /\ conn \in [Conns -> ConnType]
  BY <1>1, <1>2 DEF SocketTypeOK
<1>4. ASSUME NEW n \in {-1} \cup Nat, Expect(t, n),
             NEW c \in ConnType, conn' = [conn EXCEPT ![k] = c],
             c.client = conn[k].client, c.server = conn[k].server, c.file = conn[k].file
      PROVE  SocketInv'
  <2> DEFINE q1 == [thread[t] EXCEPT !.at = "body"]
             q2 == [q1 EXCEPT !.bLen = n]
             r  == [q2 EXCEPT !.bodyLen = 0]
  <2>1. q1 \in ThreadType /\ q1.at = "body" /\ q1.n = thread[t].n
    BY <1>2 DEF ThreadType
  <2>2. thread' = [thread EXCEPT ![t] = r]
    BY <1>4 DEF Expect
  <2> HIDE DEF q1
  <2>3. q2 \in ThreadType /\ q2.at = "body" /\ q2.n = thread[t].n
    BY <2>1 DEF ThreadType
  <2> HIDE DEF q2
  <2>4. r \in ThreadType /\ r.at = "body" /\ r.n = thread[t].n
    BY <2>3 DEF ThreadType
  <2> HIDE DEF r
  <2>5. conn[k].server # "none" => conn[k].client # "none"
    BY <1>1, <1>2 DEF Ahead
  <2>6. r.n >= thread[t].n
    BY <1>2, <2>4
  <2> QED
    BY <1>1, <1>4, <2>2, <2>4, <2>5, <2>6, ConnectionStep
<1>5. CASE /\ conn[k].down # <<>> /\ Expect(t, BodyLength(Head(conn[k].down)))
           /\ conn' = [conn EXCEPT ![k].down = Tail(@)]
  <2> DEFINE c == [conn[k] EXCEPT !.down = Tail(@)]
  <2>1. conn' = [conn EXCEPT ![k] = c]
    BY <1>5
  <2>2. /\ c \in ConnType /\ Head(conn[k].down) \in Pieces
        /\ c.client = conn[k].client /\ c.server = conn[k].server /\ c.file = conn[k].file
    BY <1>3, <1>5, TakenFacts
  <2> HIDE DEF c
  <2>3. BodyLength(Head(conn[k].down)) \in {-1} \cup Nat
    BY <2>2, BodyLengthType
  <2> QED
    BY <1>4, <1>5, <2>1, <2>2, <2>3
<1>6. CASE Expect(t, 0) /\ UNCHANGED conn
  <2>1. conn' = [conn EXCEPT ![k] = conn[k]]
    BY <1>3, <1>6
  <2> QED
    BY <1>3, <1>4, <1>6, <2>1
<1> QED
  BY <1>5, <1>6 DEF RecvHeader

\* The client takes a piece of the body, or dies of a reset.
LEMMA RecvBodyStep ==
    ASSUME SocketInv, NEW w, Workers = {w}, exit = "no", NEW t \in Threads,
           RecvBody(t), UNCHANGED <<proxyVars, rpcVars>>
    PROVE  SocketInv'
<1> DEFINE k == Current(t)
<1>1. /\ thread[t].at = "body" /\ UNCHANGED <<params, joined, total>> /\ SocketTypeOK /\ Ahead
  BY DEF RecvBody, SocketInv
<1>2. /\ thread[t] \in ThreadType /\ k \in Conns /\ thread[t].n \in 1 .. accesses
      /\ thread[t].bodyLen \in Nat
  BY <1>1, ThreadFacts
<1>3. conn[k] \in ConnType /\ conn \in [Conns -> ConnType]
  BY <1>1, <1>2 DEF SocketTypeOK
<1>4. CASE /\ conn[k].down # <<>> /\ conn' = [conn EXCEPT ![k].down = Tail(@)]
           /\ thread' = [thread EXCEPT ![t].bodyLen = @ + 1] /\ Works /\ UNCHANGED exit
  <2> DEFINE c == [conn[k] EXCEPT !.down = Tail(@)]
             r == [thread[t] EXCEPT !.bodyLen = @ + 1]
  <2>1. conn' = [conn EXCEPT ![k] = c] /\ thread' = [thread EXCEPT ![t] = r]
    BY <1>4
  <2>2. /\ c \in ConnType
        /\ c.client = conn[k].client /\ c.server = conn[k].server /\ c.file = conn[k].file
    BY <1>3, <1>4, TakenFacts
  <2> HIDE DEF c
  <2>3. r \in ThreadType /\ r.at = "body" /\ r.n = thread[t].n
    BY <1>1, <1>2 DEF ThreadType
  <2> HIDE DEF r
  <2>4. conn[k].server # "none" => conn[k].client # "none"
    BY <1>1, <1>2 DEF Ahead
  <2>5. r.n >= thread[t].n
    BY <1>2, <2>3
  <2>6. Works /\ exit' = exit
    BY <1>4
  <2>7. r.at = "socket" => r.n > thread[t].n
    BY <2>3
  <2> QED
    BY <1>1, <2>1, <2>2, <2>3, <2>4, <2>5, <2>6, <2>7, ConnectionStep
<1>5. CASE EndProcess("failure", conn) /\ Fails
  BY <1>1, <1>3, <1>5, ExitStep DEF Statuses
<1> QED
  BY <1>4, <1>5 DEF RecvBody

\* An access is over; the next one is to a connection of its own.
LEMMA EndAccessStep ==
    ASSUME SocketInv, NEW w, Workers = {w}, exit = "no", NEW t \in Threads,
           EndAccess(t), UNCHANGED <<proxyVars, rpcVars>>
    PROVE  SocketInv'
<1> DEFINE k == Current(t)
           last == LastAccess(t)
           at == IF last THEN "returned" ELSE "socket"
           n  == IF last THEN thread[t].n ELSE thread[t].n + 1
           sum == thread[t].retVal + thread[t].bodyLen
           q1 == [thread[t] EXCEPT !.retVal = sum]
           q2 == [q1 EXCEPT !.bLen = 0]
           q3 == [q2 EXCEPT !.bodyLen = 0]
           q4 == [q3 EXCEPT !.n = n]
           r  == [q4 EXCEPT !.at = at]
           d1 == [conn[k] EXCEPT !.client = "shut"]
           d2 == [d1 EXCEPT !.down = <<>>]
           c  == IF last THEN d2 ELSE conn[k]
<1>1. /\ thread[t].at = "body" /\ UNCHANGED <<params, joined, total, exit>> /\ SocketTypeOK /\ Ahead
      /\ Works
  BY DEF EndAccess, SocketInv
<1>2. /\ thread[t] \in ThreadType /\ k \in Conns /\ thread[t].n \in 1 .. accesses /\ accesses \in Threads
      /\ thread[t].bodyLen \in Nat /\ thread[t].retVal \in Nat
  BY <1>1, ThreadFacts
<1>3. conn[k] \in ConnType /\ conn \in [Conns -> ConnType] /\ <<>> \in Seq(Pieces)
  BY <1>1, <1>2 DEF SocketTypeOK
<1>4. thread' = [thread EXCEPT ![t] = r] /\ conn' = [conn EXCEPT ![k] = c]
  <2>1. thread' = [thread EXCEPT ![t] = r]
    BY DEF EndAccess
  <2>2. conn' = [conn EXCEPT ![k] = c]
    <3>1. CASE last
      BY <3>1 DEF EndAccess
    <3>2. CASE ~ last
      BY <1>3, <3>2 DEF EndAccess
    <3> QED
      BY <3>1, <3>2
  <2> QED
    BY <2>1, <2>2
<1>5. /\ sum \in Nat /\ n \in 1 .. accesses /\ n >= thread[t].n
      /\ at \in {"socket", "returned"} /\ (at = "socket" => n > thread[t].n)
  <2>1. accesses \in Nat
    BY <1>2, NumConnsNat DEF Threads
  <2> QED
    BY <1>2, <2>1 DEF LastAccess
<1> HIDE DEF sum, n, at
<1>6. r \in ThreadType /\ r.at = at /\ r.n = n
  <2>1. q1 \in ThreadType
    BY <1>2, <1>5 DEF ThreadType
  <2> HIDE DEF q1
  <2>2. q2 \in ThreadType
    BY <2>1 DEF ThreadType
  <2> HIDE DEF q2
  <2>3. q3 \in ThreadType
    BY <2>2 DEF ThreadType
  <2> HIDE DEF q3
  <2>4. q4 \in ThreadType /\ q4.n = n
    BY <1>5, <2>3 DEF ThreadType
  <2> HIDE DEF q4
  <2> QED
    BY <1>5, <2>4 DEF ThreadType
<1> HIDE DEF r
<1>7. /\ c \in ConnType /\ c.server = conn[k].server
      /\ conn[k].client # "none" => c.client # "none"
      /\ c.file = conn[k].file /\ (c.client = "open" => conn[k].client = "open")
  <2>1. d1 \in ConnType /\ d1.client = "shut" /\ d1.server = conn[k].server /\ d1.file = conn[k].file
    BY <1>3 DEF ConnType, Ends
  <2> HIDE DEF d1
  <2>2. d2 \in ConnType /\ d2.client = "shut" /\ d2.server = conn[k].server /\ d2.file = conn[k].file
    BY <1>3, <2>1 DEF ConnType
  <2> HIDE DEF d2
  <2> QED
    BY <1>3, <2>2
<1> HIDE DEF c
<1>8. conn[k].server # "none" => c.client # "none"
  BY <1>1, <1>2, <1>7 DEF Ahead
<1> QED
  BY <1>1, <1>4, <1>5, <1>6, <1>7, <1>8, ConnectionStep

\* main() of the client adds what a thread has counted.
LEMMA JoinThreadStep ==
    ASSUME SocketInv, NEW w, Workers = {w}, exit = "no",
           JoinThread, UNCHANGED <<proxyVars, rpcVars>>
    PROVE  SocketInv'
<1>1. /\ joined < numThreads /\ joined' = joined + 1 /\ total' = NewTotal(joined + 1) /\ Works
      /\ UNCHANGED <<params, thread, exit, conn>> /\ SocketTypeOK /\ Ahead
  BY DEF JoinThread, SocketInv
<1>2. joined + 1 \in Threads /\ joined + 1 \in 0 .. numThreads
  BY <1>1, NumConnsNat DEF SocketTypeOK, Threads
<1>3. total' \in Nat
  <2>1. thread[joined + 1].retVal \in Nat /\ total \in Nat
    BY <1>1, <1>2, ThreadFacts DEF SocketTypeOK
  <2> QED
    BY <1>1, <2>1 DEF NewTotal
<1>4. ClientSide'
  <2>1. ThreadType' = ThreadType
    BY <1>1 DEF ThreadType, params
  <2> QED
    BY <1>1, <1>2, <1>3, <2>1 DEF ClientSide, SocketTypeOK, params
<1>5. Ahead'
  BY <1>1 DEF Ahead, params
<1>6. ClientMoves
  BY <1>1 DEF ClientMoves, SocketTypeOK
<1> QED
  BY <1>4, <1>5, <1>6, ClientKeeps

\* All steps of the client.
LEMMA ClientSteps ==
    ASSUME SocketInv, NEW w, Workers = {w},
           ClientMain \/ \E t \in Threads : ClientThread(t)
    PROVE  SocketInv'
<1>1. ASSUME ClientMain PROVE SocketInv'
  <2>1. exit = "no" /\ UNCHANGED <<proxyVars, rpcVars>>
    BY <1>1 DEF ClientMain, MainStep
  <2>2. CASE JoinThread
    BY <2>1, <2>2, JoinThreadStep
  <2>3. CASE Finish
    <3>1. /\ EndProcess("SUCCESS", conn) /\ Works /\ UNCHANGED <<params, joined, total>>
          /\ conn \in [Conns -> ConnType]
      BY <2>3 DEF Finish, SocketInv, SocketTypeOK
    <3> QED
      BY <2>1, <3>1, ExitStep DEF Statuses
  <2> QED
    BY <1>1, <2>2, <2>3 DEF ClientMain, MainStep
<1>2. ASSUME NEW t \in Threads, ClientThread(t) PROVE SocketInv'
  <2>1. exit = "no" /\ UNCHANGED <<proxyVars, rpcVars>> /\ ThreadStep(t, alive)
    BY <1>2 DEF ClientThread, ThreadStep
  <2>2. CASE OpenConnection(t, alive)
    BY <2>1, <2>2, OpenConnectionStep
  <2>3. CASE SendRequest(t)
    BY <2>1, <2>3, SendRequestStep
  <2>4. CASE RecvHeader(t)
    BY <2>1, <2>4, RecvHeaderStep
  <2>5. CASE RecvBody(t)
    BY <2>1, <2>5, RecvBodyStep
  <2>6. CASE EndAccess(t)
    BY <2>1, <2>6, EndAccessStep
  <2> QED
    BY <2>1, <2>2, <2>3, <2>4, <2>5, <2>6 DEF ThreadStep
<1> QED
  BY <1>1, <1>2

\* A call that is under way.
LEMMA CallFacts ==
    ASSUME Rpc!RpcTypeOK, NEW w, Workers = {w}, call[w].at # "idle"
    PROVE  /\ call[w] \in Rpc!CallType /\ call[w].arg \in Rpc!Contents /\ call[w].id \in Rpc!Ids
           /\ call[w].fd \in Rpc!Inodes \cup {0} /\ call[w].me \in Rpc!Inodes
           /\ call[w].result \in Rpc!Results /\ call[w].at \in Rpc!Stages
<1>1. call \in [Workers -> {Rpc!NoCall} \cup Rpc!CallType] /\ w \in Workers
  BY DEF Rpc!RpcTypeOK
<1>2. Rpc!NoCall.at = "idle"
  BY DEF Rpc!NoCall
<1>3. call[w] \in Rpc!CallType
  BY <1>1, <1>2
<1> QED
  BY <1>3 DEF Rpc!CallType

\* A step of the call changes its record.
CallMoves(w, c) ==
    /\ c \in Rpc!CallType /\ c.arg = call[w].arg
    /\ call' = [call EXCEPT ![w] = c]
    /\ imageNumber' \in 0 .. MaxCalls /\ calls' = calls
    /\ names' \in [Rpc!Ids -> Rpc!Inodes \cup {0}]
    /\ data' \in [Rpc!Inodes -> Rpc!Contents]
    /\ (Works \/ Fails)

\* The types of the RPC server after such a step.
LEMMA CallMoveFacts ==
    ASSUME Rpc!RpcTypeOK, NEW w, Workers = {w}, NEW c, CallMoves(w, c)
    PROVE  Rpc!RpcTypeOK' /\ call'[w] = c /\ (faults' = 0 => faults = 0) /\ (Fails => faults' # 0)
<1>1. call \in [Workers -> {Rpc!NoCall} \cup Rpc!CallType] /\ w \in Workers /\ faults \in 0 .. MaxFaults
      /\ calls \in 0 .. MaxCalls
  BY DEF Rpc!RpcTypeOK
<1>2. faults' \in 0 .. MaxFaults /\ (faults' = 0 => faults = 0) /\ (Fails => faults' # 0)
  BY <1>1, FaultFacts DEF CallMoves
<1>3. call'[w] = c /\ call' \in [Workers -> {Rpc!NoCall} \cup Rpc!CallType]
  BY <1>1 DEF CallMoves
<1> QED
  BY <1>1, <1>2, <1>3 DEF CallMoves, Rpc!RpcTypeOK

\* What the call has come to.
CallResult(w) ==
    /\ Rpc!RpcTypeOK' /\ CallAt(w)' /\ call'[w].at # "idle" /\ call'[w].arg = call[w].arg
    /\ (faults' = 0 => faults = 0)

\* An early return of compress() ends with nothing or a fault, and an image
\* that was whole comes back unless something failed.
LEMMA ReturnStep ==
    ASSUME Rpc!RpcTypeOK, NEW w, Workers = {w}, call[w].at # "idle", CallAt(w),
           NEW r \in {Rpc!Nothing, Rpc!RpcFault}, Rpc!Return(w, r), Works \/ Fails,
           call[w].arg \in Conns => Fails,
           imageNumber' = imageNumber, calls' = calls, names' = names,
           data' \in [Rpc!Inodes -> Rpc!Contents]
    PROVE  CallResult(w)
<1> DEFINE q == [call[w] EXCEPT !.at = "done"]
           c == [q EXCEPT !.result = r]
<1>1. call[w] \in Rpc!CallType
  BY CallFacts
<1>2. r \in Rpc!Results /\ "done" \in Rpc!Stages
  BY DEF Rpc!Results, Rpc!Stages
<1>3. q \in Rpc!CallType /\ q.at = "done" /\ q.arg = call[w].arg
  BY <1>1, <1>2 DEF Rpc!CallType
<1>4. call' = [call EXCEPT ![w] = c]
  BY DEF Rpc!Return
<1> HIDE DEF q
<1>5. c \in Rpc!CallType /\ c.at = "done" /\ c.arg = call[w].arg /\ c.result = r
  BY <1>2, <1>3 DEF Rpc!CallType
<1> HIDE DEF c
<1>6. CallMoves(w, c)
  BY <1>4, <1>5 DEF CallMoves, Rpc!RpcTypeOK
<1>7. Rpc!RpcTypeOK' /\ call'[w] = c /\ (faults' = 0 => faults = 0) /\ (Fails => faults' # 0)
  BY <1>6, CallMoveFacts
<1>8. CallAt(w)'
  <2>1. imageNumber' <= calls' /\ call[w].arg \in Conns \cup {Rpc!Part}
    BY DEF CallAt
  <2>2. r # Rpc!Compressed(c.arg)
    <3>1. r.is # "image" /\ Rpc!Compressed(c.arg).is = "image"
      BY DEF Rpc!Nothing, Rpc!RpcFault, Rpc!Compressed
    <3> QED
      BY <3>1
  <2> QED
    BY <1>5, <1>7, <2>1, <2>2 DEF CallAt
<1> QED
  BY <1>5, <1>7, <1>8 DEF CallResult

\* The number is one that no call has stored yet.
LEMMA LoadNumberStep ==
    ASSUME Rpc!RpcTypeOK, NEW w, Workers = {w}, CallAt(w), Rpc!LoadNumber(w)
    PROVE  CallResult(w)
<1> DEFINE q == [call[w] EXCEPT !.at = "store"]
           c == [q EXCEPT !.id = imageNumber]
<1>1. /\ call[w].at = "load" /\ call[w].at # "idle" /\ Works
      /\ UNCHANGED <<imageNumber, names, data, calls>> /\ call' = [call EXCEPT ![w] = c]
  BY DEF Rpc!LoadNumber, Rpc!Works, Works
<1>2. /\ call[w] \in Rpc!CallType /\ imageNumber < calls /\ imageNumber \in 0 .. MaxCalls
      /\ calls \in 0 .. MaxCalls
  BY <1>1, CallFacts DEF CallAt, Rpc!RpcTypeOK
<1>3. imageNumber \in Rpc!Ids /\ "store" \in Rpc!Stages
  BY <1>2, ForwardAssumption DEF Rpc!Ids, Rpc!Stages
<1>4. q \in Rpc!CallType /\ q.at = "store" /\ q.arg = call[w].arg
  BY <1>2, <1>3 DEF Rpc!CallType
<1> HIDE DEF q
<1>5. c \in Rpc!CallType /\ c.at = "store" /\ c.arg = call[w].arg /\ c.id = imageNumber
  BY <1>3, <1>4 DEF Rpc!CallType
<1> HIDE DEF c
<1>6. CallMoves(w, c)
  BY <1>1, <1>5 DEF CallMoves, Rpc!RpcTypeOK
<1>7. Rpc!RpcTypeOK' /\ call'[w] = c /\ (faults' = 0 => faults = 0)
  BY <1>6, CallMoveFacts
<1>8. CallAt(w)'
  BY <1>1, <1>2, <1>5, <1>7 DEF CallAt
<1> QED
  BY <1>5, <1>7, <1>8 DEF CallResult

\* The counter never passes the calls.
LEMMA StoreNumberStep ==
    ASSUME Rpc!RpcTypeOK, NEW w, Workers = {w}, CallAt(w), Rpc!StoreNumber(w)
    PROVE  CallResult(w)
<1> DEFINE c == [call[w] EXCEPT !.at = "fopen"]
<1>1. /\ call[w].at = "store" /\ call[w].at # "idle" /\ Works /\ imageNumber' = call[w].id + 1
      /\ UNCHANGED <<names, data, calls>> /\ call' = [call EXCEPT ![w] = c]
  BY DEF Rpc!StoreNumber, Rpc!Advance, Rpc!Works, Works
<1>2. /\ call[w] \in Rpc!CallType /\ call[w].id < calls /\ call[w].id \in Rpc!Ids
      /\ calls \in 0 .. MaxCalls
  BY <1>1, CallFacts DEF CallAt, Rpc!RpcTypeOK
<1>3. imageNumber' \in 0 .. MaxCalls /\ imageNumber' <= calls
  BY <1>1, <1>2, ForwardAssumption DEF Rpc!Ids
<1>4. c \in Rpc!CallType /\ c.at = "fopen" /\ c.arg = call[w].arg
  BY <1>2 DEF Rpc!CallType, Rpc!Stages
<1> HIDE DEF c
<1>5. CallMoves(w, c)
  BY <1>1, <1>3, <1>4 DEF CallMoves, Rpc!RpcTypeOK
<1>6. Rpc!RpcTypeOK' /\ call'[w] = c /\ (faults' = 0 => faults = 0)
  BY <1>5, CallMoveFacts
<1>7. CallAt(w)'
  BY <1>1, <1>3, <1>4, <1>6 DEF CallAt
<1> QED
  BY <1>4, <1>6, <1>7 DEF CallResult

\* The name leads to the file the call has open.
LEMMA OpenForWritingStep ==
    ASSUME Rpc!RpcTypeOK, NEW w, Workers = {w}, CallAt(w), Rpc!OpenForWriting(w)
    PROVE  CallResult(w)
<1> DEFINE n == call[w].id
           ino == IF names[n] = 0 THEN call[w].me ELSE names[n]
           q == [call[w] EXCEPT !.at = "fwrite"]
           c == [q EXCEPT !.fd = ino]
<1>1. /\ call[w].at = "fopen" /\ call[w].at # "idle" /\ UNCHANGED <<imageNumber, calls>>
  BY DEF Rpc!OpenForWriting
<1>2. /\ call[w] \in Rpc!CallType /\ n \in Rpc!Ids /\ call[w].me \in Rpc!Inodes
      /\ names \in [Rpc!Ids -> Rpc!Inodes \cup {0}] /\ data \in [Rpc!Inodes -> Rpc!Contents]
  BY <1>1, CallFacts DEF Rpc!RpcTypeOK
<1>3. CASE /\ names' = [names EXCEPT ![n] = ino]
           /\ data' = [data EXCEPT ![ino] = Rpc!Empty]
           /\ call' = [call EXCEPT ![w].at = "fwrite", ![w].fd = ino]
           /\ Works
  <2>1. ino \in Rpc!Inodes /\ 0 \notin Rpc!Inodes
    BY <1>2 DEF Rpc!Inodes
  <2>2. call' = [call EXCEPT ![w] = c]
    BY <1>3
  <2> HIDE DEF ino
  <2>3. q \in Rpc!CallType /\ q.at = "fwrite" /\ q.arg = call[w].arg /\ q.id = n
    BY <1>2 DEF Rpc!CallType, Rpc!Stages
  <2> HIDE DEF q
  <2>4. c \in Rpc!CallType /\ c.at = "fwrite" /\ c.arg = call[w].arg /\ c.id = n /\ c.fd = ino
    BY <2>1, <2>3 DEF Rpc!CallType
  <2> HIDE DEF c
  <2>5. names' \in [Rpc!Ids -> Rpc!Inodes \cup {0}] /\ names'[n] = ino
    BY <1>2, <1>3, <2>1
  <2>6. data' \in [Rpc!Inodes -> Rpc!Contents]
    BY <1>2, <1>3, <2>1 DEF Rpc!Contents
  <2>7. CallMoves(w, c)
    BY <1>1, <1>3, <2>2, <2>4, <2>5, <2>6 DEF CallMoves, Rpc!RpcTypeOK
  <2>8. Rpc!RpcTypeOK' /\ call'[w] = c /\ (faults' = 0 => faults = 0)
    BY <2>7, CallMoveFacts
  <2>9. CallAt(w)'
    BY <1>1, <2>1, <2>4, <2>5, <2>8 DEF CallAt
  <2> QED
    BY <2>4, <2>8, <2>9 DEF CallResult
<1>4. CASE /\ \E r \in {Rpc!Nothing, Rpc!RpcFault} : Rpc!Return(w, r)
           /\ Fails /\ UNCHANGED <<names, data>>
  BY <1>1, <1>2, <1>4, ReturnStep
<1> QED
  BY <1>3, <1>4 DEF Rpc!OpenForWriting, Rpc!Works, Works, Rpc!Fails, Fails

\* The file holds what the call was given.
LEMMA WriteFileStep ==
    ASSUME Rpc!RpcTypeOK, NEW w, Workers = {w}, CallAt(w), Rpc!WriteFile(w)
    PROVE  CallResult(w)
<1> DEFINE f == call[w].fd
           c == [call[w] EXCEPT !.at = "open"]
<1>1. /\ call[w].at = "fwrite" /\ call[w].at # "idle" /\ UNCHANGED <<imageNumber, names, calls>>
  BY DEF Rpc!WriteFile
<1>2. /\ call[w] \in Rpc!CallType /\ call[w].arg \in Rpc!Contents /\ f \in Rpc!Inodes
      /\ names[call[w].id] = f /\ f # 0 /\ data \in [Rpc!Inodes -> Rpc!Contents]
  BY <1>1, CallFacts DEF CallAt, Rpc!RpcTypeOK
<1>3. CASE data' = [data EXCEPT ![f] = call[w].arg] /\ Rpc!Advance(w, "open") /\ Works
  <2>1. call' = [call EXCEPT ![w] = c]
    BY <1>3 DEF Rpc!Advance
  <2>2. c \in Rpc!CallType /\ c.at = "open" /\ c.arg = call[w].arg /\ c.id = call[w].id /\ c.fd = f
    BY <1>2 DEF Rpc!CallType, Rpc!Stages
  <2> HIDE DEF c
  <2>3. data' \in [Rpc!Inodes -> Rpc!Contents] /\ data'[f] = call[w].arg
    BY <1>2, <1>3
  <2>4. CallMoves(w, c)
    BY <1>1, <1>3, <2>1, <2>2, <2>3 DEF CallMoves, Rpc!RpcTypeOK
  <2>5. Rpc!RpcTypeOK' /\ call'[w] = c /\ (faults' = 0 => faults = 0)
    BY <2>4, CallMoveFacts
  <2>6. CallAt(w)'
    BY <1>1, <1>2, <2>2, <2>3, <2>5 DEF CallAt
  <2> QED
    BY <2>2, <2>5, <2>6 DEF CallResult
<1>4. CASE data' = [data EXCEPT ![f] = Rpc!Part] /\ Rpc!Return(w, Rpc!Nothing) /\ Fails
  <2>1. data' \in [Rpc!Inodes -> Rpc!Contents]
    BY <1>2, <1>4 DEF Rpc!Contents
  <2> QED
    BY <1>1, <1>4, <2>1, ReturnStep
<1> QED
  BY <1>3, <1>4 DEF Rpc!WriteFile, Rpc!Works, Works, Rpc!Fails, Fails

\* The name still leads there: no other call is under way.
LEMMA OpenForReadingStep ==
    ASSUME Rpc!RpcTypeOK, NEW w, Workers = {w}, CallAt(w), Rpc!OpenForReading(w)
    PROVE  CallResult(w)
<1> DEFINE f == names[call[w].id]
           q == [call[w] EXCEPT !.at = "compress"]
           c == [q EXCEPT !.fd = f]
<1>1. /\ call[w].at = "open" /\ call[w].at # "idle" /\ UNCHANGED <<imageNumber, names, data, calls>>
  BY DEF Rpc!OpenForReading
<1>2. /\ call[w] \in Rpc!CallType /\ f = call[w].fd /\ f # 0 /\ data[f] = call[w].arg
      /\ data \in [Rpc!Inodes -> Rpc!Contents] /\ f \in Rpc!Inodes
  BY <1>1, CallFacts DEF CallAt, Rpc!RpcTypeOK
<1>3. CASE call' = [call EXCEPT ![w].at = "compress", ![w].fd = f] /\ Works
  <2>1. call' = [call EXCEPT ![w] = c]
    BY <1>3
  <2>2. q \in Rpc!CallType /\ q.at = "compress" /\ q.arg = call[w].arg
    BY <1>2 DEF Rpc!CallType, Rpc!Stages
  <2> HIDE DEF q
  <2>3. c \in Rpc!CallType /\ c.at = "compress" /\ c.arg = call[w].arg /\ c.fd = f
    BY <1>2, <2>2 DEF Rpc!CallType
  <2> HIDE DEF c
  <2>4. CallMoves(w, c)
    BY <1>1, <1>3, <2>1, <2>3 DEF CallMoves, Rpc!RpcTypeOK
  <2>5. Rpc!RpcTypeOK' /\ call'[w] = c /\ (faults' = 0 => faults = 0)
    BY <2>4, CallMoveFacts
  <2>6. CallAt(w)'
    BY <1>1, <1>2, <2>3, <2>5 DEF CallAt
  <2> QED
    BY <2>3, <2>5, <2>6 DEF CallResult
<1>4. CASE Rpc!Return(w, Rpc!Nothing) /\ Fails
  BY <1>1, <1>2, <1>4, ReturnStep
<1> QED
  BY <1>2, <1>3, <1>4 DEF Rpc!OpenForReading, Rpc!Works, Works, Rpc!Fails, Fails

\* What is compressed is what the call was given.
LEMMA ChangeResStep ==
    ASSUME Rpc!RpcTypeOK, NEW w, Workers = {w}, CallAt(w), Rpc!ChangeRes(w)
    PROVE  CallResult(w)
<1> DEFINE found == data[call[w].fd]
           q == [call[w] EXCEPT !.at = "unlink"]
           c == [q EXCEPT !.result = Rpc!Compressed(found)]
<1>1. /\ call[w].at = "compress" /\ call[w].at # "idle" /\ UNCHANGED <<imageNumber, names, data, calls>>
  BY DEF Rpc!ChangeRes
<1>2. /\ call[w] \in Rpc!CallType /\ found = call[w].arg /\ data \in [Rpc!Inodes -> Rpc!Contents]
  BY <1>1, CallFacts DEF CallAt, Rpc!RpcTypeOK
<1>3. CASE /\ found \in Conns /\ Works
           /\ call' = [call EXCEPT ![w].at = "unlink", ![w].result = Rpc!Compressed(found)]
  <2>1. call' = [call EXCEPT ![w] = c] /\ Rpc!Compressed(found) \in Rpc!Results
    BY <1>3 DEF Rpc!Results
  <2>2. q \in Rpc!CallType /\ q.at = "unlink" /\ q.arg = call[w].arg
    BY <1>2 DEF Rpc!CallType, Rpc!Stages
  <2> HIDE DEF q
  <2>3. c \in Rpc!CallType /\ c.at = "unlink" /\ c.arg = call[w].arg /\ c.result = Rpc!Compressed(c.arg)
    BY <1>2, <2>1, <2>2 DEF Rpc!CallType
  <2> HIDE DEF c
  <2>4. CallMoves(w, c)
    BY <1>1, <1>3, <2>1, <2>3 DEF CallMoves, Rpc!RpcTypeOK
  <2>5. Rpc!RpcTypeOK' /\ call'[w] = c /\ (faults' = 0 => faults = 0)
    BY <2>4, CallMoveFacts
  <2>6. CallAt(w)'
    BY <1>1, <1>2, <1>3, <2>3, <2>5 DEF CallAt
  <2> QED
    BY <2>3, <2>5, <2>6 DEF CallResult
<1>4. CASE Rpc!Return(w, Rpc!Nothing) /\ (IF found \in Conns THEN Fails ELSE Works)
  BY <1>1, <1>2, <1>4, ReturnStep
<1> QED
  BY <1>3, <1>4 DEF Rpc!ChangeRes, Rpc!Works, Works, Rpc!Fails, Fails

\* The file goes, the result stays.
LEMMA UnlinkFileStep ==
    ASSUME Rpc!RpcTypeOK, NEW w, Workers = {w}, CallAt(w), Rpc!UnlinkFile(w)
    PROVE  CallResult(w)
<1> DEFINE c == [call[w] EXCEPT !.at = "done"]
<1>1. /\ call[w].at = "unlink" /\ call[w].at # "idle" /\ UNCHANGED <<imageNumber, data, calls>> /\ Works
      /\ names' = [names EXCEPT ![call[w].id] = 0] /\ call' = [call EXCEPT ![w] = c]
  BY DEF Rpc!UnlinkFile, Rpc!Advance, Rpc!Works, Works
<1>2. call[w] \in Rpc!CallType
  BY <1>1, CallFacts
<1>3. /\ c \in Rpc!CallType /\ c.at = "done" /\ c.arg = call[w].arg /\ c.result = call[w].result
  BY <1>2 DEF Rpc!CallType, Rpc!Stages
<1> HIDE DEF c
<1>4. names' \in [Rpc!Ids -> Rpc!Inodes \cup {0}]
  BY <1>1 DEF Rpc!RpcTypeOK
<1>5. CallMoves(w, c)
  BY <1>1, <1>3, <1>4 DEF CallMoves, Rpc!RpcTypeOK
<1>6. Rpc!RpcTypeOK' /\ call'[w] = c /\ (faults' = 0 => faults = 0)
  BY <1>5, CallMoveFacts
<1>7. CallAt(w)'
  BY <1>1, <1>3, <1>6 DEF CallAt
<1> QED
  BY <1>3, <1>6, <1>7 DEF CallResult

\* All steps of compress().
LEMMA CompressStepFacts ==
    ASSUME Rpc!RpcTypeOK, NEW w, Workers = {w}, CallAt(w), Rpc!CompressStep(w)
    PROVE  CallResult(w) /\ call[w].at # "idle"
<1>1. call[w].at # "idle"
  BY DEF Rpc!CompressStep, Rpc!LoadNumber, Rpc!StoreNumber, Rpc!OpenForWriting, Rpc!WriteFile,
         Rpc!OpenForReading, Rpc!ChangeRes, Rpc!UnlinkFile
<1> QED
  BY <1>1, LoadNumberStep, StoreNumberStep, OpenForWritingStep, WriteFileStep, OpenForReadingStep,
     ChangeResStep, UnlinkFileStep DEF Rpc!CompressStep

\* The invariant survives what the RPC server does.
LEMMA RpcServerSteps ==
    ASSUME SocketInv, NEW w, Workers = {w}, RpcServerStep(w)
    PROVE  SocketInv'
<1>1. /\ SocketTypeOK /\ Ahead /\ TableInv /\ CallInv /\ AnswerInv
      /\ HoldingAt(w) /\ StageAt(w) /\ CallAt(w)
  BY DEF SocketInv, TableInv, CallInv, AnswerInv
<1>2. CallResult(w) /\ call[w].at # "idle"
  BY <1>1, CompressStepFacts DEF RpcServerStep, RpcStep, SocketTypeOK
<1>3. /\ limit' = limit /\ alive' = alive /\ fdt' = fdt /\ list' = list /\ serverSock' = serverSock
      /\ worker' = worker /\ origin' = origin /\ faulted' = faulted /\ sent' = sent /\ conn' = conn
      /\ UNCHANGED clientVars
  BY DEF RpcServerStep, RpcStep, proxyVars, process, table
<1>4. Rpc!RpcTypeOK' /\ CallAt(w)' /\ (faults' = 0 => faults = 0) /\ faults \in Nat /\ faults' \in Nat
      /\ call'[w].at # "idle" /\ call'[w].arg = call[w].arg
  BY <1>1, <1>2, MaxFaultsNat DEF CallResult, SocketTypeOK, Rpc!RpcTypeOK
<1>5. SocketTypeOK'
  <2>1. WorkerType' = WorkerType /\ ClientSide'
    BY <1>1, <1>3, WorkerTypeKept, ClientSideKept
  <2> QED
    BY <1>1, <1>3, <1>4, <2>1 DEF SocketTypeOK, ClientSide
<1>6. Ahead'
  BY <1>1, <1>3 DEF Ahead, clientVars, params
<1>7. TableInv'
  BY <1>1, <1>3 DEF TableInv, HoldingAt, HoldsClient, HoldsServer, Closes, Queued, InUse, IsClient, IsOrigin, Open
<1>8. CallInv'
  BY <1>1, <1>2, <1>3, <1>4 DEF CallInv
<1>9. StageAt(w)'
  <2>1. Received(w) => Received(w)'
    BY <1>3, <1>4 DEF Received
  <2>2. Forwarded(w)' = Forwarded(w) /\ Closes(w, "client")' = Closes(w, "client")
    BY <1>3 DEF Forwarded, Closes
  <2>3. AnswerDone(fdt[worker[w].fd][2]) => AnswerDone(fdt[worker[w].fd][2])'
    <3>1. PICK c : c = fdt[worker[w].fd][2]
      OBVIOUS
    <3>2. AnswerDone(c) => AnswerDone(c)'
      BY <1>3, <1>4 DEF AnswerDone
    <3> QED
      BY <1>3, <3>1, <3>2
  <2>4. PICK k : k = worker[w].req
    OBVIOUS
  <2> QED
    BY <1>1, <1>3, <1>4, <2>1, <2>2, <2>3, <2>4 DEF StageAt
<1>10. AnswerInv'
  BY <1>1, <1>3, <1>9 DEF AnswerInv, OwnAnswer, HoldsClient, Closes
<1> QED
  BY <1>5, <1>6, <1>7, <1>8, <1>10 DEF SocketInv

----------------------------------------------------------------------------
(* The process ends.                                                       *)

\* exit() and a wild pointer leave nothing open and nothing sent.
LEMMA DieStep ==
    ASSUME SocketInv, NEW w, Workers = {w}, Die, Works \/ Fails, UNCHANGED clientVars
    PROVE  SocketInv'
<1>1. /\ SocketTypeOK /\ Ahead /\ CallInv /\ CallAt(w) /\ limit \in Nat
  BY ForwardAssumption DEF SocketInv, CallInv, SocketTypeOK
<1>2. /\ alive' = FALSE /\ list' = <<>> /\ fdt' = [f \in DOMAIN fdt |-> Free]
      /\ worker' = [v \in Workers |-> Idle] /\ origin' = [k \in Conns |-> NoOrigin]
      /\ sent' = [k \in Conns |-> <<>>]
      /\ limit' = limit /\ serverSock' = serverSock /\ faulted' = faulted /\ UNCHANGED rpcVars
  BY DEF Die
<1>3. Idle \in WorkerType /\ Idle.at = "wait" /\ Idle.toClose = <<>> /\ Idle.jpg = FALSE
  BY <1>1, IdleFacts
<1>4. ASSUME NEW k \in Conns
      PROVE  /\ conn'[k] \in ConnType /\ conn'[k].client = conn[k].client
             /\ conn'[k].server # "none" => conn[k].client # "none"
  <2> DEFINE c == [conn[k] EXCEPT !.server = "shut"]
  <2>1. conn[k] \in ConnType
    BY <1>1 DEF SocketTypeOK
  <2>2. c \in ConnType /\ c.client = conn[k].client
    BY <2>1 DEF ConnType, Ends
  <2>3. conn'[k] = IF conn[k].client = "none" THEN conn[k] ELSE c
    BY DEF Die
  <2> HIDE DEF c
  <2> QED
    BY <1>1, <2>1, <2>2, <2>3 DEF Ahead
<1>5. conn' \in [Conns -> ConnType]
  BY <1>4 DEF Die
<1>6. Rpc!RpcTypeOK' /\ (faults' = 0 => faults = 0)
  BY <1>1, <1>2, RpcTypeKept DEF SocketTypeOK
<1>7. SocketTypeOK'
  <2>1. WorkerType' = WorkerType /\ ClientSide'
    BY <1>1, <1>2, WorkerTypeKept, ClientSideKept
  <2>2. NoOrigin \in OriginType
    BY DEF NoOrigin, OriginType
  <2>3. list' \in Seq(1 .. limit) /\ sent' \in [Conns -> Seq(Pieces)]
    BY <1>2
  <2>4. fdt' \in [1 .. limit -> {Free} \cup {ToClient(k) : k \in Conns} \cup {ToOrigin(k) : k \in Conns}]
    BY <1>1, <1>2 DEF SocketTypeOK
  <2>5. worker' \in [Workers -> WorkerType] /\ origin' \in [Conns -> OriginType]
    BY <1>2, <1>3, <2>2
  <2>6. alive' \in BOOLEAN /\ limit' \in FdLimits /\ serverSock' \in 0 .. limit
        /\ faulted' \in [Workers -> BOOLEAN]
    BY <1>1, <1>2 DEF SocketTypeOK
  <2> QED
    BY <1>2, <1>5, <1>6, <2>1, <2>3, <2>4, <2>5, <2>6 DEF SocketTypeOK, ClientSide
<1>8. Ahead'
  BY <1>1, <1>4 DEF Ahead, clientVars, params
<1>9. worker'[w] = Idle
  BY <1>2
<1>10. ~ HoldsClient(w)' /\ ~ HoldsServer(w)' /\ ~ Closes(w, "client")'
  BY <1>3, <1>9 DEF HoldsClient, HoldsServer, Closes, Upstream
<1>11. TableInv'
  <2>1. \A f : ~ IsClient(f)' /\ ~ Open(f)'
    BY <1>2 DEF IsClient, Open
  <2>2. HoldingAt(w)'
    BY <1>3, <1>9, <1>10 DEF HoldingAt, Busy, Upstream
  <2>3. \A f, g \in DOMAIN fdt' : fdt'[f] = Free
    BY <1>2
  <2> QED
    BY <1>2, <2>1, <2>2, <2>3 DEF TableInv
<1>12. CallInv'
  BY <1>1, <1>2, <1>3, <1>6, <1>9, CallKept DEF CallInv
<1>13. AnswerInv'
  <2>1. StageAt(w)'
    BY <1>3, <1>9, <1>10 DEF StageAt, Upstream
  <2> QED
    BY <1>2, <2>1 DEF AnswerInv, OwnAnswer
<1> QED
  BY <1>7, <1>8, <1>11, <1>12, <1>13 DEF SocketInv

----------------------------------------------------------------------------
(* Connections come and go.                                                *)

\* Giving a free descriptor to something leaves the others as they are.
LEMMA OpenedFacts ==
    ASSUME SocketTypeOK, NEW n \in 1 .. limit, fdt[n] = Free, NEW e, fdt' = [fdt EXCEPT ![n] = e]
    PROVE  /\ DOMAIN fdt' = 1 .. limit /\ DOMAIN fdt = 1 .. limit /\ fdt'[n] = e
           /\ ~ Open(n) /\ ~ IsClient(n) /\ ~ IsOrigin(n)
           /\ \A f \in 1 .. limit : f # n => fdt'[f] = fdt[f]
           /\ \A f : f # n => /\ (Open(f)' <=> Open(f)) /\ (IsClient(f)' <=> IsClient(f))
                              /\ (IsOrigin(f)' <=> IsOrigin(f))
<1>1. DOMAIN fdt = 1 .. limit
  BY DEF SocketTypeOK
<1>2. DOMAIN fdt' = 1 .. limit /\ fdt'[n] = e /\ \A f \in 1 .. limit : f # n => fdt'[f] = fdt[f]
  BY <1>1
<1>3. ~ Open(n) /\ ~ IsClient(n) /\ ~ IsOrigin(n)
  BY DEF Open, IsClient, IsOrigin
<1>4. ASSUME NEW f, f # n
      PROVE  (Open(f)' <=> Open(f)) /\ (IsClient(f)' <=> IsClient(f)) /\ (IsOrigin(f)' <=> IsOrigin(f))
  BY <1>1, <1>2, <1>4 DEF Open, IsClient, IsOrigin
<1> QED
  BY <1>1, <1>2, <1>3, <1>4

\* accept() takes a descriptor that was free, for a connection that had none.
LEMMA AcceptStep ==
    ASSUME SocketInv, NEW w, Workers = {w}, UNCHANGED clientVars, NEW k \in Conns, alive,
           conn[k].client # "none", conn[k].server = "none", FreeFds # {},
           fdt' = [fdt EXCEPT ![Lowest] = ToClient(k)],
           list' = Append(list, Lowest),
           conn' = [conn EXCEPT ![k].server = "open"],
           UNCHANGED <<process, serverSock, worker, origin, faulted, sent, rpcVars>>, Works
    PROVE  SocketInv'
<1>1. /\ SocketTypeOK /\ Ahead /\ TableInv /\ CallInv /\ AnswerInv
      /\ HoldingAt(w) /\ StageAt(w) /\ CallAt(w)
  BY DEF SocketInv, TableInv, CallInv, AnswerInv
<1>2. PICK n : n = Lowest
  OBVIOUS
<1>3. /\ n \in 1 .. limit /\ fdt[n] = Free /\ fdt' = [fdt EXCEPT ![n] = ToClient(k)]
      /\ list' = Append(list, n)
  BY <1>1, <1>2, LowestFacts
<1>4. /\ DOMAIN fdt' = 1 .. limit /\ DOMAIN fdt = 1 .. limit /\ fdt'[n] = ToClient(k)
      /\ ~ Open(n) /\ ~ IsClient(n) /\ ~ IsOrigin(n)
      /\ \A f \in 1 .. limit : f # n => fdt'[f] = fdt[f]
      /\ \A f : f # n => /\ (Open(f)' <=> Open(f)) /\ (IsClient(f)' <=> IsClient(f))
                         /\ (IsOrigin(f)' <=> IsOrigin(f))
  <2>1. PICK e : e = ToClient(k)
    OBVIOUS
  <2> QED
    BY <1>1, <1>3, <2>1, OpenedFacts
<1>5. /\ limit' = limit /\ alive' = alive /\ serverSock' = serverSock /\ worker' = worker
      /\ origin' = origin /\ faulted' = faulted /\ sent' = sent
  BY DEF process
<1>6. Rpc!RpcTypeOK' /\ (faults' = 0 => faults = 0) /\ faults' = faults
  BY <1>1, RpcTypeKept DEF SocketTypeOK, Works
<1>7. /\ conn' \in [Conns -> ConnType] /\ conn'[k].server = "open"
      /\ \A j \in Conns : /\ conn'[j].client = conn[j].client /\ conn'[j].file = conn[j].file
                          /\ j # k => conn'[j] = conn[j]
  <2> DEFINE c == [conn[k] EXCEPT !.server = "open"]
  <2>1. conn \in [Conns -> ConnType] /\ conn[k] \in ConnType
    BY <1>1 DEF SocketTypeOK
  <2>2. c \in ConnType /\ c.client = conn[k].client /\ c.file = conn[k].file /\ c.server = "open"
    BY <2>1 DEF ConnType, Ends
  <2>3. conn' = [conn EXCEPT ![k] = c]
    OBVIOUS
  <2> HIDE DEF c
  <2> QED
    BY <2>1, <2>2, <2>3
<1>8. /\ list' \in Seq(1 .. limit) /\ Len(list) \in Nat
      /\ DOMAIN list = 1 .. Len(list) /\ DOMAIN list' = 1 .. (Len(list) + 1)
      /\ list'[Len(list) + 1] = n /\ \A i \in 1 .. Len(list) : list'[i] = list[i]
  BY <1>1, <1>3, AppendFacts DEF SocketTypeOK
<1>9. Queued' = Queued \cup {n} /\ n \notin Queued
  <2>1. n \notin Queued
    BY <1>1, <1>4 DEF Queued, TableInv
  <2>2. \A i \in DOMAIN list' : i \in DOMAIN list \/ i = Len(list) + 1
    BY <1>8
  <2>3. \A i \in DOMAIN list : i \in DOMAIN list' /\ list'[i] = list[i]
    BY <1>8
  <2>4. Len(list) + 1 \in DOMAIN list'
    BY <1>8
  <2> QED
    BY <1>8, <2>1, <2>2, <2>3, <2>4 DEF Queued
<1>10. Open(n)' /\ IsClient(n)' /\ ~ IsOrigin(n)'
  <2>1. fdt'[n] # Free /\ fdt'[n][1] = "client"
    BY <1>4, DescriptorFacts
  <2> QED
    BY <1>3, <1>4, <2>1 DEF Open, IsClient, IsOrigin
<1>11. /\ HoldsClient(w)' = HoldsClient(w) /\ HoldsServer(w)' = HoldsServer(w)
       /\ Closes(w, "client")' = Closes(w, "client")
  BY <1>5 DEF HoldsClient, HoldsServer, Closes
<1>12. HoldsClient(w) => IsClient(worker[w].fd) /\ worker[w].fd # n /\ worker[w].fd \in 1 .. limit
  BY <1>1, <1>4 DEF HoldingAt, IsClient, Open
<1>13. SocketTypeOK'
  <2>1. WorkerType' = WorkerType /\ ClientSide'
    BY <1>1, <1>5, WorkerTypeKept, ClientSideKept
  <2>2. fdt' \in [1 .. limit -> {Free} \cup {ToClient(j) : j \in Conns} \cup {ToOrigin(j) : j \in Conns}]
    BY <1>1, <1>3 DEF SocketTypeOK
  <2> QED
    BY <1>1, <1>5, <1>6, <1>7, <1>8, <2>1, <2>2 DEF SocketTypeOK, ClientSide
<1>14. Ahead'
  <2>1. \A j \in Conns : conn'[j].server # "none" => conn'[j].client # "none"
    BY <1>1, <1>7 DEF Ahead
  <2> QED
    BY <1>1, <1>7, <2>1 DEF Ahead, clientVars, params
<1>15. TableInv'
  <2>1. ASSUME NEW h \in 1 .. limit, h # n PROVE fdt'[h] # ToClient(k)
    <3>1. fdt'[h] = fdt[h]
      BY <1>4, <2>1
    <3>2. fdt[h] = ToClient(k) => IsClient(h) /\ fdt[h][2] = k
      BY <1>4, DescriptorFacts DEF IsClient, Open
    <3>3. fdt[h] = ToClient(k) => conn[k].server = "open"
      BY <1>1, <1>4, <3>2 DEF TableInv
    <3> QED
      BY <3>1, <3>3
  <2>2. ASSUME NEW f \in DOMAIN fdt', NEW g \in DOMAIN fdt', fdt'[f] = fdt'[g]
        PROVE  f = g \/ fdt'[f] = Free
    <3>1. CASE f # n /\ g # n
      BY <1>1, <1>4, <2>2, <3>1 DEF TableInv
    <3>2. CASE f = n \/ g = n
      BY <1>4, <2>1, <2>2, <3>2
    <3> QED
      BY <3>1, <3>2
  <2>3. ASSUME NEW f \in DOMAIN fdt', IsClient(f)' PROVE conn'[fdt'[f][2]].server = "open"
    <3>1. CASE f = n
      <4>1. fdt'[n][2] = k
        BY <1>4, DescriptorFacts
      <4> QED
        BY <1>7, <3>1, <4>1
    <3>2. CASE f # n
      <4>1. IsClient(f) /\ fdt'[f] = fdt[f]
        BY <1>4, <2>3, <3>2
      <4>2. fdt[f][2] \in Conns /\ conn[fdt[f][2]].server = "open"
        BY <1>1, <1>4, <2>3, <4>1, TableFacts DEF TableInv
      <4> QED
        BY <1>7, <4>1, <4>2
    <3> QED
      BY <3>1, <3>2
  <2>4. ASSUME NEW i \in DOMAIN list', NEW j \in DOMAIN list', list'[i] = list'[j] PROVE i = j
    <3>1. /\ i \in DOMAIN list \/ i = Len(list) + 1
          /\ j \in DOMAIN list \/ j = Len(list) + 1
      BY <1>8
    <3>2. \A m \in DOMAIN list : list'[m] = list[m] /\ list[m] # n
      BY <1>8, <1>9 DEF Queued
    <3> QED
      BY <1>1, <1>8, <2>4, <3>1, <3>2 DEF TableInv
  <2>5. ASSUME NEW i \in DOMAIN list' PROVE IsClient(list[i])'
    <3>1. CASE i \in DOMAIN list
      <4>1. IsClient(list[i]) /\ list'[i] = list[i] /\ list[i] # n
        BY <1>1, <1>4, <1>8, <3>1 DEF TableInv
      <4>2. PICK f : f = list[i]
        OBVIOUS
      <4>3. IsClient(f)'
        BY <1>4, <4>1, <4>2
      <4> QED
        BY <4>1, <4>2, <4>3
    <3>2. CASE i = Len(list) + 1
      BY <1>8, <1>10, <3>2
    <3> QED
      BY <1>8, <3>1, <3>2
  <2>6. ASSUME NEW f \in DOMAIN fdt', Open(f)' PROVE InUse(f)'
    <3>1. CASE f = n
      BY <1>9, <3>1 DEF InUse
    <3>2. CASE f # n
      <4>1. InUse(f)
        BY <1>1, <1>4, <2>6, <3>2 DEF TableInv
      <4> QED
        BY <1>5, <1>9, <1>11, <4>1 DEF InUse
    <3> QED
      BY <3>1, <3>2
  <2>7. HoldingAt(w)'
    <3>1. PICK f : f = worker[w].fd
      OBVIOUS
    <3>2. HoldsClient(w) => IsClient(f)' /\ f \notin Queued'
      BY <1>1, <1>4, <1>9, <1>12, <3>1 DEF HoldingAt
    <3>3. worker[w].at \in Busy => fdt'[f] = ToClient(worker[w].req)
      <4>1. worker[w].at \in Busy => HoldsClient(w) /\ fdt[f] = ToClient(worker[w].req)
        BY <3>1, BusyFacts
      <4> QED
        BY <1>4, <1>12, <3>1, <4>1
    <3>4. PICK s : s = serverSock
      OBVIOUS
    <3>5. HoldsServer(w) => IsOrigin(s) /\ s # n /\ s \in 1 .. limit
      BY <1>1, <1>4, <3>4 DEF HoldingAt, IsOrigin, Open
    <3>6. worker[w].at \in Upstream => fdt'[s] = ToOrigin(worker[w].req)
      <4>1. worker[w].at \in Upstream => HoldsServer(w) /\ fdt[s] = ToOrigin(worker[w].req)
        BY <1>1, <3>4 DEF HoldingAt, HoldsServer
      <4> QED
        BY <1>4, <3>5, <4>1
    <3>7. HoldsServer(w) => IsOrigin(s)'
      BY <1>4, <3>5
    <3> QED
      BY <1>1, <1>5, <1>11, <3>1, <3>2, <3>3, <3>4, <3>6, <3>7 DEF HoldingAt
  <2> QED
    BY <2>2, <2>3, <2>4, <2>5, <2>6, <2>7 DEF TableInv
<1>16. CallInv'
  BY <1>1, <1>5, <1>6, CallKept DEF CallInv, rpcVars
<1>17. AnswerInv'
  <2>1. Received(w)' = Received(w) /\ Forwarded(w)' = Forwarded(w)
    BY <1>5, <1>6 DEF Received, Forwarded
  <2>2. ASSUME worker[w].at = "close", Closes(w, "client") PROVE AnswerDone(fdt[worker[w].fd][2])'
    <3>1. HoldsClient(w)
      BY <2>2 DEF HoldsClient
    <3>2. PICK c : c = fdt[worker[w].fd][2]
      OBVIOUS
    <3>3. AnswerDone(c) /\ c \in Conns
      BY <1>1, <1>12, <2>2, <3>1, <3>2, TableFacts DEF StageAt
    <3>4. AnswerDone(c)'
      BY <1>5, <1>6, <1>7, <3>3 DEF AnswerDone
    <3> QED
      BY <1>4, <1>5, <1>12, <3>1, <3>2, <3>4
  <2>3. PICK j : j = worker[w].req
    OBVIOUS
  <2>4. j \in Conns /\ conn'[j].file = conn[j].file /\ conn'[j].client = conn[j].client
    BY <1>1, <1>7, <2>3, WorkerFields DEF SocketTypeOK
  <2>5. StageAt(w)'
    BY <1>1, <1>5, <1>6, <1>11, <2>1, <2>2, <2>3, <2>4 DEF StageAt
  <2>6. ASSUME NEW c \in Conns, sent[c] # <<>>
        PROVE  HoldsClient(w) /\ fdt'[worker[w].fd] = ToClient(c)
    <3>1. HoldsClient(w) /\ fdt[worker[w].fd] = ToClient(c)
      BY <1>1, <2>6 DEF AnswerInv
    <3> QED
      BY <1>4, <1>12, <3>1
  <2> QED
    BY <1>1, <1>5, <1>11, <2>5, <2>6 DEF AnswerInv, OwnAnswer
<1> QED
  BY <1>13, <1>14, <1>15, <1>16, <1>17 DEF SocketInv

\* removeHead() hands a descriptor to a worker that has none.
LEMMA TakeStep ==
    ASSUME SocketInv, NEW w, Workers = {w}, alive, Take(w), UNCHANGED clientVars
    PROVE  SocketInv'
<1>1. /\ SocketTypeOK /\ Ahead /\ TableInv /\ CallInv /\ AnswerInv
      /\ HoldingAt(w) /\ StageAt(w) /\ CallAt(w)
  BY DEF SocketInv, TableInv, CallInv, AnswerInv
<1>2. /\ worker[w].at = "wait" /\ list # <<>> /\ list' = Tail(list) /\ Works
      /\ UNCHANGED <<process, fdt, serverSock, origin, faulted, net, rpcVars>>
      /\ limit' = limit /\ alive' = alive /\ sent' = sent /\ conn' = conn
  BY DEF Take, process, net
<1>3. PICK n : n = Head(list)
  OBVIOUS
<1>4. PICK k : k = fdt[n][2]
  OBVIOUS
<1>5. /\ list' \in Seq(1 .. limit) /\ Len(list) \in Nat \ {0}
      /\ DOMAIN list = 1 .. Len(list) /\ DOMAIN list' = 1 .. (Len(list) - 1)
      /\ \A i \in 1 .. (Len(list) - 1) : list'[i] = list[i + 1]
  BY <1>1, <1>2, TailFacts DEF SocketTypeOK
<1>6. n = list[1] /\ 1 \in DOMAIN list
  BY <1>2, <1>3, <1>5
<1>7. n \in 1 .. limit /\ n \in DOMAIN fdt /\ IsClient(n) /\ k \in Conns /\ fdt[n] = ToClient(k)
  BY <1>1, <1>4, <1>6, TableFacts DEF TableInv, IsClient, Open
<1>8. /\ n \notin Queued' /\ \A f \in Queued : f = n \/ f \in Queued'
      /\ \A i \in DOMAIN list' : i + 1 \in DOMAIN list /\ list'[i] = list[i + 1]
  <2>1. \A i \in DOMAIN list' : i + 1 \in DOMAIN list /\ list'[i] = list[i + 1] /\ i + 1 # 1
    BY <1>5
  <2>2. \A i \in DOMAIN list' : list'[i] # n
    BY <1>1, <1>6, <2>1 DEF TableInv
  <2>3. \A i \in DOMAIN list : i = 1 \/ (i - 1 \in DOMAIN list' /\ list'[i - 1] = list[i])
    BY <1>5
  <2> QED
    BY <1>6, <2>1, <2>2, <2>3 DEF Queued
<1>9. worker[w].toClose = <<>> /\ ~ HoldsClient(w) /\ ~ HoldsServer(w)
  <2>1. worker[w].toClose = <<>>
    BY <1>1, <1>2 DEF HoldingAt
  <2> QED
    BY <1>2, <2>1, ClosesFacts DEF HoldsClient, HoldsServer, Upstream
<1>10. \A j \in Conns : sent[j] = <<>>
  BY <1>1, <1>9 DEF AnswerInv
<1>11. /\ worker' \in [Workers -> WorkerType]
       /\ worker'[w].at = "request" /\ worker'[w].fd = n /\ worker'[w].req = k
       /\ worker'[w].toClose = <<>> /\ worker'[w].jpg = FALSE /\ worker'[w].got = 0
  <2> DEFINE q1 == [Idle EXCEPT !.at = "request"]
             q2 == [q1 EXCEPT !.fd = n]
             r  == [q2 EXCEPT !.req = k]
  <2>1. /\ Idle \in WorkerType /\ Idle.toClose = <<>> /\ Idle.jpg = FALSE /\ Idle.got = 0
    BY <1>1, IdleFacts, ForwardAssumption DEF SocketTypeOK, Idle
  <2>2. worker' = [worker EXCEPT ![w] = r]
    BY <1>3, <1>4, <1>7 DEF Take
  <2>3. q1 \in WorkerType /\ q1.at = "request" /\ q1.toClose = <<>> /\ q1.jpg = FALSE /\ q1.got = 0
    BY <2>1 DEF WorkerType, Pcs
  <2> HIDE DEF q1
  <2>4. /\ q2 \in WorkerType /\ q2.at = "request" /\ q2.toClose = <<>> /\ q2.jpg = FALSE /\ q2.got = 0
        /\ q2.fd = n
    BY <1>7, <2>3 DEF WorkerType
  <2> HIDE DEF q2
  <2>5. /\ r \in WorkerType /\ r.at = "request" /\ r.toClose = <<>> /\ r.jpg = FALSE /\ r.got = 0
        /\ r.fd = n /\ r.req = k
    BY <1>7, <2>4 DEF WorkerType
  <2> HIDE DEF r
  <2>6. worker'[w] = r /\ worker' \in [Workers -> WorkerType]
    BY <1>1, <2>2, <2>5 DEF SocketTypeOK
  <2> QED
    BY <2>5, <2>6
<1>12. HoldsClient(w)' /\ ~ HoldsServer(w)' /\ ~ Closes(w, "client")'
  BY <1>11 DEF HoldsClient, HoldsServer, Closes, Upstream
<1>13. Rpc!RpcTypeOK' /\ (faults' = 0 => faults = 0)
  BY <1>1, <1>2, RpcTypeKept DEF SocketTypeOK
<1>14. SocketTypeOK'
  <2>1. WorkerType' = WorkerType /\ ClientSide'
    BY <1>1, <1>2, WorkerTypeKept, ClientSideKept
  <2> QED
    BY <1>1, <1>2, <1>5, <1>11, <1>13, <2>1 DEF SocketTypeOK, ClientSide
<1>15. Ahead'
  BY <1>1, <1>2 DEF Ahead, clientVars, params
<1>16. \A f : (IsClient(f)' <=> IsClient(f)) /\ (Open(f)' <=> Open(f))
  BY <1>2 DEF IsClient, Open
<1>17. TableInv'
  <2>1. ASSUME NEW i \in DOMAIN list', NEW j \in DOMAIN list', list'[i] = list'[j] PROVE i = j
    <3>1. i + 1 = j + 1 /\ i \in Nat /\ j \in Nat
      BY <1>1, <1>5, <1>8, <2>1 DEF TableInv
    <3> QED
      BY <3>1
  <2>2. ASSUME NEW i \in DOMAIN list' PROVE IsClient(list[i])'
    <3>1. PICK f : f = list'[i]
      OBVIOUS
    <3>2. IsClient(f)
      BY <1>1, <1>8, <3>1 DEF TableInv
    <3>3. IsClient(f)'
      BY <1>16, <3>2
    <3> QED
      BY <3>1, <3>3
  <2>3. ASSUME NEW f \in DOMAIN fdt, Open(f) PROVE InUse(f)'
    <3>1. f \in Queued
      BY <1>1, <1>9, <2>3 DEF TableInv, InUse
    <3>2. f = n \/ f \in Queued'
      BY <1>8, <3>1
    <3> QED
      BY <1>11, <1>12, <3>2 DEF InUse
  <2>4. HoldingAt(w)'
    BY <1>2, <1>7, <1>8, <1>11, <1>12, <1>16 DEF HoldingAt, Upstream
  <2> QED
    BY <1>1, <1>2, <1>16, <2>1, <2>2, <2>3, <2>4 DEF TableInv
<1>18. CallInv'
  <2>1. worker[w].at # "image" /\ worker'[w].at # "image"
    BY <1>2, <1>11
  <2> QED
    BY <1>2, <1>13, <2>1, CallInvKept
<1>19. AnswerInv'
  <2>1. StageAt(w)'
    BY <1>2, <1>7, <1>10, <1>11 DEF StageAt, Upstream
  <2> QED
    BY <1>1, <1>2, <1>10, <2>1 DEF AnswerInv, OwnAnswer
<1> QED
  BY <1>14, <1>15, <1>17, <1>18, <1>19 DEF SocketInv

----------------------------------------------------------------------------
(* close().                                                                *)

\* A closed descriptor is free, and the others stay as they are.
LEMMA ClosedFacts ==
    ASSUME SocketTypeOK, NEW n \in 1 .. limit, fdt' = [fdt EXCEPT ![n] = Free]
    PROVE  /\ DOMAIN fdt' = 1 .. limit /\ DOMAIN fdt = 1 .. limit /\ fdt'[n] = Free
           /\ ~ Open(n)' /\ ~ IsClient(n)' /\ ~ IsOrigin(n)'
           /\ \A f \in 1 .. limit : f # n => fdt'[f] = fdt[f]
           /\ \A f : f # n => /\ (Open(f)' <=> Open(f)) /\ (IsClient(f)' <=> IsClient(f))
                              /\ (IsOrigin(f)' <=> IsOrigin(f))
<1>1. DOMAIN fdt = 1 .. limit
  BY DEF SocketTypeOK
<1>2. DOMAIN fdt' = 1 .. limit /\ fdt'[n] = Free /\ \A f \in 1 .. limit : f # n => fdt'[f] = fdt[f]
  BY <1>1
<1>3. ~ Open(n)' /\ ~ IsClient(n)' /\ ~ IsOrigin(n)'
  BY <1>2 DEF Open, IsClient, IsOrigin
<1>4. ASSUME NEW f, f # n
      PROVE  (Open(f)' <=> Open(f)) /\ (IsClient(f)' <=> IsClient(f)) /\ (IsOrigin(f)' <=> IsOrigin(f))
  BY <1>1, <1>2, <1>4 DEF Open, IsClient, IsOrigin
<1> QED
  BY <1>1, <1>2, <1>3, <1>4

\* What the closing worker has left to close.
LEMMA ClosingFacts ==
    ASSUME SocketInv, NEW w, Workers = {w}, alive, Close(w)
    PROVE  /\ worker[w].toClose \in Closings \ {<<>>}
           /\ Head(worker[w].toClose) \in {"client", "server"}
           /\ worker' \in [Workers -> WorkerType]
           /\ worker'[w].toClose = Tail(worker[w].toClose)
           /\ Tail(worker[w].toClose) \in {<<>>, <<"client">>, <<"server">>}
           /\ Tail(worker[w].toClose) = <<>> => worker'[w].at = "wait" /\ worker'[w].jpg = FALSE
           /\ Tail(worker[w].toClose) # <<>> =>
                 worker'[w].at = "close" /\ worker'[w].fd = worker[w].fd
           /\ Closes(w, "client") <=> Head(worker[w].toClose) = "client" \/ Closes(w, "client")'
           /\ Closes(w, "server") <=> Head(worker[w].toClose) = "server" \/ Closes(w, "server")'
           /\ Head(worker[w].toClose) = "client" => ~ Closes(w, "client")'
           /\ Head(worker[w].toClose) = "server" => ~ Closes(w, "server")'
<1> DEFINE c == worker[w].toClose
<1>1. SocketTypeOK /\ HoldingAt(w) /\ worker[w] \in WorkerType /\ worker[w].at = "close" /\ limit' = limit
  BY DEF SocketInv, TableInv, SocketTypeOK, Close
<1>2. c \in Closings \ {<<>>}
  BY <1>1, WorkerFields DEF HoldingAt
<1>3. \/ c = <<"client">> /\ Head(c) = "client" /\ Tail(c) = <<>>
      \/ c = <<"server">> /\ Head(c) = "server" /\ Tail(c) = <<>>
      \/ c = <<"client", "server">> /\ Head(c) = "client" /\ Tail(c) = <<"server">>
      \/ c = <<"server", "client">> /\ Head(c) = "server" /\ Tail(c) = <<"client">>
  <2>1. \/ c = <<"client">> \/ c = <<"server">>
        \/ c = <<"client", "server">> \/ c = <<"server", "client">>
    BY <1>2 DEF Closings
  <2>2. \A x : Head(<<x>>) = x /\ Tail(<<x>>) = <<>>
    OBVIOUS
  <2>3. \A x, y : Head(<<x, y>>) = x /\ Tail(<<x, y>>) = <<y>>
    OBVIOUS
  <2> HIDE DEF c
  <2> QED
    BY <2>1, <2>2, <2>3
<1>4. Idle \in WorkerType /\ Idle.at = "wait" /\ Idle.toClose = <<>> /\ Idle.jpg = FALSE
  BY <1>1, IdleFacts, ForwardAssumption DEF SocketTypeOK
<1> DEFINE d == [worker[w] EXCEPT !.toClose = Tail(c)]
           r == IF Tail(c) = <<>> THEN Idle ELSE d
<1>5. Tail(c) \in {<<>>, <<"client">>, <<"server">>} /\ Tail(c) \in Closings
  BY <1>3 DEF Closings
<1>6. d \in WorkerType /\ d.toClose = Tail(c) /\ d.at = "close" /\ d.fd = worker[w].fd
  BY <1>1, <1>5 DEF WorkerType
<1>7. worker' = [worker EXCEPT ![w] = r]
  BY DEF Close
<1> HIDE DEF d
<1>8. worker'[w] = r /\ r \in WorkerType /\ worker' \in [Workers -> WorkerType]
  BY <1>1, <1>4, <1>6, <1>7 DEF SocketTypeOK
<1>9. worker'[w].toClose = Tail(c)
  BY <1>4, <1>6, <1>8
<1>10. /\ Tail(c) = <<>> => worker'[w].at = "wait" /\ worker'[w].jpg = FALSE
       /\ Tail(c) # <<>> => worker'[w].at = "close" /\ worker'[w].fd = worker[w].fd
  BY <1>4, <1>6, <1>8
<1>11. /\ Tail(c) = <<>> => ~ Closes(w, "client")' /\ ~ Closes(w, "server")'
       /\ Tail(c) = <<"client">> => Closes(w, "client")' /\ ~ Closes(w, "server")'
       /\ Tail(c) = <<"server">> => ~ Closes(w, "client")' /\ Closes(w, "server")'
  <2>1. /\ DOMAIN <<>> = {} /\ DOMAIN <<"client">> = {1} /\ DOMAIN <<"server">> = {1} /\ "client" # "server"
    OBVIOUS
  <2>2. PICK e : e = worker'[w].toClose
    OBVIOUS
  <2>3. CASE Tail(c) = <<>>
    <3>1. e = <<>>
      BY <1>9, <2>2, <2>3
    <3> QED
      BY <2>1, <2>2, <2>3, <3>1 DEF Closes
  <2>4. CASE Tail(c) = <<"client">>
    <3>1. e = <<"client">>
      BY <1>9, <2>2, <2>4
    <3> QED
      BY <2>1, <2>2, <2>4, <3>1 DEF Closes
  <2>5. CASE Tail(c) = <<"server">>
    <3>1. e = <<"server">>
      BY <1>9, <2>2, <2>5
    <3> QED
      BY <2>1, <2>2, <2>5, <3>1 DEF Closes
  <2> QED
    BY <1>5, <2>3, <2>4, <2>5
<1>12. /\ c = <<"client">> => Closes(w, "client") /\ ~ Closes(w, "server")
       /\ c = <<"server">> => ~ Closes(w, "client") /\ Closes(w, "server")
       /\ c \in {<<"client", "server">>, <<"server", "client">>} => Closes(w, "client") /\ Closes(w, "server")
  BY ClosesFacts
<1>13. "client" # "server"
  OBVIOUS
<1> HIDE DEF c, r
<1>14. /\ Closes(w, "client") <=> Head(c) = "client" \/ Closes(w, "client")'
       /\ Closes(w, "server") <=> Head(c) = "server" \/ Closes(w, "server")'
       /\ Head(c) = "client" => ~ Closes(w, "client")'
       /\ Head(c) = "server" => ~ Closes(w, "server")'
       /\ Head(c) \in {"client", "server"}
  BY <1>3, <1>11, <1>12, <1>13
<1> QED
  BY <1>2, <1>5, <1>8, <1>9, <1>10, <1>14 DEF c

\* close() of client->conn.
LEMMA CloseClientStep ==
    ASSUME SocketInv, NEW w, Workers = {w}, alive, Close(w), UNCHANGED clientVars,
           Head(worker[w].toClose) = "client"
    PROVE  SocketInv'
<1>1. /\ SocketTypeOK /\ Ahead /\ TableInv /\ CallInv /\ AnswerInv
      /\ HoldingAt(w) /\ CallAt(w) /\ worker[w].at = "close" /\ Works
      /\ UNCHANGED <<limit, alive, list, serverSock, faulted, rpcVars>>
  BY DEF SocketInv, TableInv, CallInv, Close
<1>2. /\ worker' \in [Workers -> WorkerType]
      /\ worker'[w].toClose = <<>> => worker'[w].at = "wait" /\ worker'[w].jpg = FALSE
      /\ worker'[w].toClose # <<>> => worker'[w].at = "close" /\ worker'[w].fd = worker[w].fd
      /\ Closes(w, "client") /\ (Closes(w, "server") <=> Closes(w, "server")') /\ ~ Closes(w, "client")'
  <2>1. "client" # "server"
    OBVIOUS
  <2> QED
    BY <2>1, ClosingFacts
<1>3. PICK f : f = worker[w].fd
  OBVIOUS
<1>4. PICK k : k = fdt[f][2]
  OBVIOUS
<1>5. /\ IsClient(f) /\ ~ IsOrigin(f) /\ Open(f) /\ f \in 1 .. limit /\ k \in Conns /\ fdt[f] = ToClient(k)
      /\ f \notin Queued
  <2>1. HoldsClient(w)
    BY <1>2 DEF HoldsClient
  <2> QED
    BY <1>1, <1>3, <1>4, <2>1, TableFacts DEF HoldingAt
<1>6. /\ fdt' = [fdt EXCEPT ![f] = Free] /\ conn' = [conn EXCEPT ![k].server = "shut"]
      /\ sent' = [sent EXCEPT ![k] = <<>>] /\ origin' = origin
  BY <1>3, <1>4, <1>5 DEF Close
<1>7. /\ DOMAIN fdt' = 1 .. limit /\ DOMAIN fdt = 1 .. limit /\ fdt'[f] = Free
      /\ ~ Open(f)' /\ ~ IsClient(f)' /\ ~ IsOrigin(f)'
      /\ \A g \in 1 .. limit : g # f => fdt'[g] = fdt[g]
      /\ \A g : g # f => /\ (Open(g)' <=> Open(g)) /\ (IsClient(g)' <=> IsClient(g))
                         /\ (IsOrigin(g)' <=> IsOrigin(g))
  BY <1>1, <1>5, <1>6, ClosedFacts
<1>8. /\ conn' \in [Conns -> ConnType]
      /\ \A j \in Conns : conn'[j].client = conn[j].client /\ (j # k => conn'[j] = conn[j])
  <2> DEFINE c == [conn[k] EXCEPT !.server = "shut"]
  <2>1. conn \in [Conns -> ConnType] /\ conn[k] \in ConnType
    BY <1>1, <1>5 DEF SocketTypeOK
  <2>2. c \in ConnType /\ c.client = conn[k].client
    BY <2>1 DEF ConnType, Ends
  <2>3. conn' = [conn EXCEPT ![k] = c]
    BY <1>6
  <2> HIDE DEF c
  <2> QED
    BY <1>5, <2>1, <2>2, <2>3
<1>9. \A j \in Conns : sent'[j] = <<>>
  <2>1. ASSUME NEW j \in Conns, j # k PROVE sent[j] = <<>>
    <3>1. SUFFICES ASSUME sent[j] # <<>> PROVE FALSE
      OBVIOUS
    <3>2. fdt[f] = ToClient(j)
      BY <1>1, <1>3, <3>1 DEF AnswerInv
    <3> QED
      BY <1>5, <2>1, <3>2, DescriptorFacts
  <2> QED
    BY <1>1, <1>6, <2>1 DEF SocketTypeOK
<1>10. ~ HoldsClient(w)' /\ (HoldsServer(w)' <=> HoldsServer(w))
  BY <1>1, <1>2 DEF HoldsClient, HoldsServer, Upstream
<1>11. Rpc!RpcTypeOK' /\ (faults' = 0 => faults = 0)
  BY <1>1, RpcTypeKept DEF SocketTypeOK
<1>12. SocketTypeOK'
  <2>1. WorkerType' = WorkerType /\ ClientSide'
    BY <1>1, WorkerTypeKept, ClientSideKept
  <2>2. sent' \in [Conns -> Seq(Pieces)]
    <3>1. <<>> \in Seq(Pieces)
      OBVIOUS
    <3> QED
      BY <1>1, <1>6, <3>1 DEF SocketTypeOK
  <2>3. fdt' \in [1 .. limit -> {Free} \cup {ToClient(j) : j \in Conns} \cup {ToOrigin(j) : j \in Conns}]
    BY <1>1, <1>6 DEF SocketTypeOK
  <2> QED
    BY <1>1, <1>2, <1>6, <1>8, <1>11, <2>1, <2>2, <2>3 DEF SocketTypeOK, ClientSide
<1>13. Ahead'
  <2>1. conn[k].client # "none"
    <3>1. conn[k].server = "open"
      BY <1>1, <1>4, <1>5, <1>7 DEF TableInv
    <3> QED
      BY <1>1, <1>5, <3>1 DEF Ahead
  <2>2. \A j \in Conns : conn'[j].server # "none" => conn'[j].client # "none"
    BY <1>1, <1>8, <2>1 DEF Ahead
  <2> QED
    BY <1>1, <1>8, <2>2 DEF Ahead, clientVars, params
<1>14. TableInv'
  <2>1. ASSUME NEW g \in DOMAIN fdt', NEW h \in DOMAIN fdt', fdt'[g] = fdt'[h]
        PROVE  g = h \/ fdt'[g] = Free
    BY <1>1, <1>7, <2>1 DEF TableInv
  <2>2. ASSUME NEW g \in DOMAIN fdt', IsClient(g)' PROVE conn'[fdt'[g][2]].server = "open"
    <3>1. IsClient(g) /\ fdt'[g] = fdt[g] /\ g # f
      BY <1>7, <2>2
    <3>2. /\ fdt[g][2] \in Conns /\ conn[fdt[g][2]].server = "open"
          /\ fdt[g] = ToClient(fdt[g][2]) /\ fdt[g] # Free
      BY <1>1, <1>7, <2>2, <3>1, TableFacts DEF TableInv, IsClient, Open
    <3>3. fdt[g][2] # k
      BY <1>1, <1>5, <1>7, <2>2, <3>1, <3>2 DEF TableInv
    <3> QED
      BY <1>8, <3>1, <3>2, <3>3
  <2>3. ASSUME NEW i \in DOMAIN list PROVE IsClient(list[i])'
    <3>1. PICK g : g = list[i]
      OBVIOUS
    <3>2. IsClient(g) /\ g # f
      BY <1>1, <1>5, <2>3, <3>1 DEF TableInv, Queued
    <3>3. IsClient(g)'
      BY <1>7, <3>2
    <3> QED
      BY <1>1, <3>1, <3>3
  <2>4. ASSUME NEW g \in DOMAIN fdt', Open(g)' PROVE InUse(g)'
    <3>1. g # f /\ Open(g) /\ g \in DOMAIN fdt
      BY <1>7, <2>4
    <3>2. g \in Queued \/ (HoldsServer(w) /\ serverSock = g)
      BY <1>1, <1>3, <3>1 DEF TableInv, InUse
    <3> QED
      BY <1>1, <1>10, <3>2 DEF InUse, Queued
  <2>5. HoldingAt(w)'
    <3>1. PICK s : s = serverSock
      OBVIOUS
    <3>2. HoldsServer(w) => IsOrigin(s)'
      <4>1. HoldsServer(w) => IsOrigin(s) /\ s # f
        BY <1>1, <1>5, <3>1 DEF HoldingAt
      <4> QED
        BY <1>7, <4>1
    <3> QED
      BY <1>1, <1>2, <1>10, <3>1, <3>2 DEF HoldingAt, Busy, Upstream
  <2> QED
    BY <1>1, <2>1, <2>2, <2>3, <2>4, <2>5 DEF TableInv
<1>15. CallInv'
  <2>1. worker[w].at # "image" /\ worker'[w].at # "image"
    BY <1>1, <1>2
  <2> QED
    BY <1>1, <1>11, <2>1, CallInvKept
<1>16. AnswerInv'
  <2>1. StageAt(w)'
    BY <1>2 DEF StageAt, Upstream
  <2>2. OwnAnswer'
    BY <1>9 DEF OwnAnswer
  <2> QED
    BY <1>9, <2>1, <2>2 DEF AnswerInv
<1> QED
  BY <1>12, <1>13, <1>14, <1>15, <1>16 DEF SocketInv

\* close() of serverSock, which is still the one this worker opened.
LEMMA CloseServerStep ==
    ASSUME SocketInv, NEW w, Workers = {w}, alive, Close(w), UNCHANGED clientVars,
           Head(worker[w].toClose) = "server"
    PROVE  SocketInv'
<1>1. /\ SocketTypeOK /\ Ahead /\ TableInv /\ CallInv /\ AnswerInv
      /\ HoldingAt(w) /\ StageAt(w) /\ CallAt(w) /\ worker[w].at = "close" /\ Works
      /\ UNCHANGED <<limit, alive, list, serverSock, faulted, rpcVars>>
  BY DEF SocketInv, TableInv, CallInv, AnswerInv, Close
<1>2. /\ worker' \in [Workers -> WorkerType]
      /\ worker'[w].toClose = <<>> => worker'[w].at = "wait" /\ worker'[w].jpg = FALSE
      /\ worker'[w].toClose # <<>> => worker'[w].at = "close" /\ worker'[w].fd = worker[w].fd
      /\ Closes(w, "server") /\ (Closes(w, "client") <=> Closes(w, "client")') /\ ~ Closes(w, "server")'
  <2>1. "client" # "server"
    OBVIOUS
  <2> QED
    BY <2>1, ClosingFacts
<1>3. PICK f : f = serverSock
  OBVIOUS
<1>4. PICK k : k = fdt[f][2]
  OBVIOUS
<1>5. /\ IsOrigin(f) /\ ~ IsClient(f) /\ Open(f) /\ f \in 1 .. limit /\ k \in Conns /\ fdt[f] = ToOrigin(k)
  <2>1. HoldsServer(w)
    BY <1>2 DEF HoldsServer
  <2> QED
    BY <1>1, <1>3, <1>4, <2>1, TableFacts DEF HoldingAt
<1>6. /\ fdt' = [fdt EXCEPT ![f] = Free] /\ conn' = conn
      /\ sent' = sent /\ origin' = [origin EXCEPT ![k] = NoOrigin]
  <2>1. "client" # "server"
    OBVIOUS
  <2> QED
    BY <1>3, <1>4, <1>5, <2>1 DEF Close
<1>7. /\ DOMAIN fdt' = 1 .. limit /\ DOMAIN fdt = 1 .. limit /\ fdt'[f] = Free
      /\ ~ Open(f)' /\ ~ IsClient(f)' /\ ~ IsOrigin(f)'
      /\ \A g \in 1 .. limit : g # f => fdt'[g] = fdt[g]
      /\ \A g : g # f => /\ (Open(g)' <=> Open(g)) /\ (IsClient(g)' <=> IsClient(g))
                         /\ (IsOrigin(g)' <=> IsOrigin(g))
  BY <1>1, <1>5, <1>6, ClosedFacts
<1>8. ~ HoldsServer(w)' /\ (HoldsClient(w)' <=> HoldsClient(w))
      /\ (HoldsClient(w) => /\ worker'[w].fd = worker[w].fd /\ IsClient(worker[w].fd)
                            /\ worker[w].fd \in 1 .. limit /\ worker[w].fd # f
                            /\ worker[w].fd \notin Queued)
  <2>1. ~ HoldsServer(w)' /\ (HoldsClient(w)' <=> HoldsClient(w)) /\ (HoldsClient(w) <=> Closes(w, "client")')
    BY <1>1, <1>2 DEF HoldsClient, HoldsServer, Upstream
  <2>2. Closes(w, "client")' => worker'[w].fd = worker[w].fd
    <3>1. worker'[w].toClose = <<>> => ~ Closes(w, "client")'
      BY DEF Closes
    <3> QED
      BY <1>2, <3>1
  <2>3. HoldsClient(w) => IsClient(worker[w].fd) /\ worker[w].fd \in 1 .. limit /\ worker[w].fd \notin Queued
    BY <1>1, <1>7 DEF HoldingAt, IsClient, Open
  <2> QED
    BY <1>5, <2>1, <2>2, <2>3
<1>9. Rpc!RpcTypeOK' /\ (faults' = 0 => faults = 0) /\ faults' = faults
  BY <1>1, RpcTypeKept DEF SocketTypeOK, Works
<1>10. SocketTypeOK'
  <2>1. WorkerType' = WorkerType /\ ClientSide'
    BY <1>1, WorkerTypeKept, ClientSideKept
  <2>2. origin' \in [Conns -> OriginType]
    <3>1. NoOrigin \in OriginType
      BY DEF NoOrigin, OriginType
    <3> QED
      BY <1>1, <1>6, <3>1 DEF SocketTypeOK
  <2>3. fdt' \in [1 .. limit -> {Free} \cup {ToClient(j) : j \in Conns} \cup {ToOrigin(j) : j \in Conns}]
    BY <1>1, <1>6 DEF SocketTypeOK
  <2> QED
    BY <1>1, <1>2, <1>6, <1>9, <2>1, <2>2, <2>3 DEF SocketTypeOK, ClientSide
<1>11. Ahead'
  BY <1>1, <1>6 DEF Ahead, clientVars, params
<1>12. TableInv'
  <2>1. ASSUME NEW g \in DOMAIN fdt', NEW h \in DOMAIN fdt', fdt'[g] = fdt'[h]
        PROVE  g = h \/ fdt'[g] = Free
    BY <1>1, <1>7, <2>1 DEF TableInv
  <2>2. ASSUME NEW g \in DOMAIN fdt', IsClient(g)' PROVE conn'[fdt'[g][2]].server = "open"
    BY <1>1, <1>6, <1>7, <2>2 DEF TableInv
  <2>3. ASSUME NEW i \in DOMAIN list PROVE IsClient(list[i])'
    <3>1. PICK g : g = list[i]
      OBVIOUS
    <3>2. IsClient(g) /\ g # f
      BY <1>1, <1>5, <2>3, <3>1 DEF TableInv
    <3>3. IsClient(g)'
      BY <1>7, <3>2
    <3> QED
      BY <1>1, <3>1, <3>3
  <2>4. ASSUME NEW g \in DOMAIN fdt', Open(g)' PROVE InUse(g)'
    <3>1. g # f /\ Open(g) /\ g \in DOMAIN fdt
      BY <1>7, <2>4
    <3>2. g \in Queued \/ (HoldsClient(w) /\ worker[w].fd = g)
      BY <1>1, <1>3, <3>1 DEF TableInv, InUse
    <3> QED
      BY <1>1, <1>8, <3>2 DEF InUse, Queued
  <2>5. HoldingAt(w)'
    <3>1. PICK c : c = worker'[w].fd
      OBVIOUS
    <3>2. HoldsClient(w) => IsClient(c)' /\ c \notin Queued'
      BY <1>1, <1>7, <1>8, <3>1 DEF Queued
    <3> QED
      BY <1>2, <1>8, <3>1, <3>2 DEF HoldingAt, Busy, Upstream
  <2> QED
    BY <1>1, <2>1, <2>2, <2>3, <2>4, <2>5 DEF TableInv
<1>13. CallInv'
  <2>1. worker[w].at # "image" /\ worker'[w].at # "image"
    BY <1>1, <1>2
  <2> QED
    BY <1>1, <1>9, <2>1, CallInvKept
<1>14. AnswerInv'
  <2>1. ASSUME Closes(w, "client")' PROVE AnswerDone(fdt[worker[w].fd][2])'
    <3>1. HoldsClient(w) /\ Closes(w, "client")
      BY <1>1, <1>2, <2>1 DEF HoldsClient
    <3>2. PICK c : c = fdt[worker[w].fd][2]
      OBVIOUS
    <3>3. AnswerDone(c)
      BY <1>1, <3>1, <3>2 DEF StageAt
    <3>4. AnswerDone(c)'
      BY <1>6, <1>9, <3>3 DEF AnswerDone
    <3>5. fdt'[worker'[w].fd][2] = c
      BY <1>7, <1>8, <3>1, <3>2
    <3> QED
      BY <3>4, <3>5
  <2>2. StageAt(w)'
    BY <1>2, <2>1 DEF StageAt, Upstream
  <2>3. ASSUME NEW j \in Conns, sent[j] # <<>>
        PROVE  HoldsClient(w)' /\ fdt'[worker'[w].fd] = ToClient(j)
    <3>1. HoldsClient(w) /\ fdt[worker[w].fd] = ToClient(j)
      BY <1>1, <2>3 DEF AnswerInv
    <3> QED
      BY <1>7, <1>8, <3>1
  <2> QED
    BY <1>1, <1>6, <2>2, <2>3 DEF AnswerInv, OwnAnswer
<1> QED
  BY <1>10, <1>11, <1>12, <1>13, <1>14 DEF SocketInv

----------------------------------------------------------------------------
(* All steps together, and the theorems.                                   *)

\* All steps of the worker.
LEMMA WorkerSteps ==
    ASSUME SocketInv, NEW w, Workers = {w}, ProxyWorker(w)
    PROVE  SocketInv'
<1>1. alive /\ UNCHANGED clientVars /\ WorkerStep(w)
  BY DEF ProxyWorker, WorkerStep
<1>2. CASE Take(w)
  BY <1>1, <1>2, TakeStep
<1>3. CASE RecvRequest(w)
  BY <1>1, <1>3, RecvRequestStep
<1>4. CASE Unresolved(w)
  BY <1>1, <1>4, UnresolvedStep
<1>5. CASE Shared(w)
  <2>1. CASE ~ Die
    BY <1>1, <1>5, <2>1, SharedStep
  <2>2. CASE Die
    <3>1. Works \/ Fails
      BY <1>5 DEF Shared
    <3> QED
      BY <1>1, <2>2, <3>1, DieStep
  <2> QED
    BY <2>1, <2>2
<1>6. CASE OpenSocket(w)
  BY <1>1, <1>6, OpenSocketStep
<1>7. CASE Connect(w)
  BY <1>1, <1>7, ConnectStep
<1>8. CASE StripAndSend(w)
  BY <1>1, <1>8, StripAndSendStep
<1>9. CASE RecvAnswer(w)
  BY <1>1, <1>9, RecvAnswerStep
<1>10. CASE ForwardHeader(w)
  BY <1>1, <1>10, ForwardHeaderStep
<1>11. CASE ForwardPiece(w)
  BY <1>1, <1>11, ForwardPieceStep
<1>12. CASE WildBuffer(w)
  <2>1. Die /\ Fails
    BY <1>12 DEF WildBuffer
  <2> QED
    BY <1>1, <2>1, DieStep
<1>13. CASE StreamEnds(w)
  BY <1>1, <1>13, StreamEndsStep
<1>14. CASE BodyDone(w)
  BY <1>1, <1>14, BodyDoneStep
<1>15. CASE CallRpc(w)
  BY <1>1, <1>15, CallRpcStep
<1>16. CASE TakeImage(w)
  BY <1>1, <1>16, TakeImageStep
<1>17. CASE WildFree(w)
  <2>1. Die /\ Works
    BY <1>17 DEF WildFree
  <2> QED
    BY <1>1, <2>1, DieStep
<1>18. CASE SendError(w)
  BY <1>1, <1>18, SendErrorStep
<1>19. CASE Close(w)
  <2>1. Head(worker[w].toClose) \in {"client", "server"}
    BY <1>1, <1>19, ClosingFacts
  <2> QED
    BY <1>1, <1>19, <2>1, CloseClientStep, CloseServerStep
<1> QED
  BY <1>1, <1>2, <1>3, <1>4, <1>5, <1>6, <1>7, <1>8, <1>9, <1>10, <1>11, <1>12, <1>13, <1>14,
     <1>15, <1>16, <1>17, <1>18, <1>19 DEF WorkerStep

\* All steps of main() of the proxy.
LEMMA AcceptSteps ==
    ASSUME SocketInv, NEW w, Workers = {w}, ProxyMain
    PROVE  SocketInv'
<1>1. alive /\ Works /\ UNCHANGED clientVars
  BY DEF ProxyMain, Accept
<1>2. CASE Die
  BY <1>1, <1>2, DieStep
<1>3. CASE ~ Die
  BY <1>1, <1>3, AcceptStep DEF ProxyMain, Accept
<1> QED
  BY <1>2, <1>3

\* Nothing happens.
LEMMA StutterStep ==
    ASSUME SocketInv, NEW w, Workers = {w}, UNCHANGED vars
    PROVE  SocketInv'
<1>1. /\ UNCHANGED <<clientVars, proxyVars, rpcVars, conn, faults>>
      /\ SocketTypeOK /\ Ahead
  BY DEF vars, SocketInv
<1>2. UNCHANGED <<proxyVars, rpcVars>> /\ UNCHANGED clientVars /\ conn' = conn /\ Works
  BY <1>1 DEF Works
<1>3. ClientSide' /\ Ahead'
  BY <1>1, <1>2, ClientSideKept DEF Ahead, clientVars, params
<1>4. ClientMoves
  BY <1>1, <1>2 DEF ClientMoves, SocketTypeOK
<1> QED
  BY <1>3, <1>4, ClientKeeps

\* Every step of the system keeps the invariant.
LEMMA SocketInvNext ==
    ASSUME OneWorker, SocketInv, [Next]_vars
    PROVE  SocketInv'
<1>1. PICK w : Workers = {w}
  BY DEF OneWorker
<1>2. CASE UNCHANGED vars
  BY <1>1, <1>2, StutterStep
<1>3. CASE ClientMain \/ \E t \in Threads : ClientThread(t)
  BY <1>1, <1>3, ClientSteps
<1>4. CASE ProxyMain
  BY <1>1, <1>4, AcceptSteps
<1>5. CASE ProxyWorker(w)
  BY <1>1, <1>5, WorkerSteps
<1>6. CASE RpcServerStep(w)
  BY <1>1, <1>6, RpcServerSteps
<1> QED
  BY <1>1, <1>2, <1>3, <1>4, <1>5, <1>6 DEF Next

\* The invariant holds before the first step.
LEMMA SocketInvInit ==
    ASSUME Init, NEW w, Workers = {w}
    PROVE  SocketInv
<1>1. /\ conn = [k \in Conns |-> [client |-> "none", server |-> "none",
                                  file |-> CHOOSE f \in Files : TRUE,
                                  up |-> NoRequest, down |-> <<>>]]
      /\ numThreads \in Threads /\ accesses \in Threads /\ numThreads * accesses = NumConns
      /\ picks \in [1 .. accesses -> Files]
      /\ thread = [t \in Threads |-> IF t <= numThreads THEN [NoThread EXCEPT !.at = "socket"]
                                     ELSE NoThread]
      /\ joined = 0 /\ total = 0 /\ exit = "no"
      /\ limit \in FdLimits /\ fdt = [f \in 1 .. limit |-> Free] /\ list = <<>> /\ serverSock = 0
      /\ worker = [v \in Workers |-> Idle] /\ origin = [k \in Conns |-> NoOrigin]
      /\ faulted = [v \in Workers |-> FALSE] /\ alive = TRUE /\ sent = [k \in Conns |-> <<>>]
      /\ Rpc!RpcInit /\ faults = 0
  BY DEF Init, StreamInit, ClientInit, ProxyInit
<1>2. limit \in Nat /\ accesses \in Nat \ {0} /\ numThreads \in Nat \ {0} /\ <<>> \in Seq(Pieces)
  BY <1>1, ForwardAssumption, NumConnsNat DEF Threads
<1>3. Idle \in WorkerType /\ Idle.at = "wait" /\ Idle.toClose = <<>> /\ Idle.jpg = FALSE
  BY <1>2, IdleFacts
<1>4. conn \in [Conns -> ConnType]
      /\ \A k \in Conns : conn[k].client = "none" /\ conn[k].server = "none"
  <2>1. (CHOOSE f \in Files : TRUE) \in Files
    BY FilesNotEmpty
  <2>2. NoRequest \in NoRequest .. Whole
    BY DEF NoRequest, Whole
  <2> QED
    BY <1>1, <1>2, <2>1, <2>2 DEF ConnType, Ends
<1>5. ASSUME NEW t \in Threads
      PROVE  thread[t] \in ThreadType /\ (thread[t].at # "returned" => t <= numThreads)
  <2>1. NoThread \in ThreadType /\ NoThread.at = "returned"
    BY <1>2 DEF NoThread, ThreadType
  <2>2. [NoThread EXCEPT !.at = "socket"] \in ThreadType
    BY <2>1 DEF ThreadType
  <2> QED
    BY <1>1, <2>1, <2>2
<1>6. Rpc!RpcTypeOK /\ call[w] = Rpc!NoCall /\ imageNumber = 0 /\ calls = 0
  <2>1. /\ imageNumber = 0 /\ calls = 0 /\ names = [n \in Rpc!Ids |-> 0]
        /\ data = [i \in Rpc!Inodes |-> Rpc!Empty] /\ call = [c \in Workers |-> Rpc!NoCall]
    BY <1>1 DEF Rpc!RpcInit
  <2>2. 0 \in 0 .. MaxCalls /\ 0 \in 0 .. MaxFaults
    BY ForwardAssumption, MaxFaultsNat
  <2> QED
    BY <1>1, <2>1, <2>2 DEF Rpc!RpcTypeOK, Rpc!Contents
<1>7. SocketTypeOK
  <2>1. thread \in [Threads -> ThreadType]
    BY <1>1, <1>5
  <2>2. origin \in [Conns -> OriginType]
    BY <1>1, <1>2 DEF NoOrigin, OriginType
  <2>3. /\ joined \in 0 .. numThreads /\ total \in Nat /\ exit \in Statuses
        /\ serverSock \in 0 .. limit /\ list \in Seq(1 .. limit)
        /\ sent \in [Conns -> Seq(Pieces)] /\ faulted \in [Workers -> BOOLEAN]
        /\ worker \in [Workers -> WorkerType]
    BY <1>1, <1>2, <1>3 DEF Statuses
  <2> QED
    BY <1>1, <1>4, <1>6, <2>1, <2>2, <2>3 DEF SocketTypeOK
<1>8. Ahead
  BY <1>1, <1>4, <1>5 DEF Ahead
<1>9. worker[w] = Idle
  BY <1>1
<1>10. ~ HoldsClient(w) /\ ~ HoldsServer(w) /\ ~ Closes(w, "client")
  BY <1>3, <1>9 DEF HoldsClient, HoldsServer, Closes, Upstream
<1>11. TableInv
  <2>1. \A f : ~ IsClient(f) /\ ~ Open(f)
    BY <1>1 DEF IsClient, Open
  <2>2. HoldingAt(w)
    BY <1>3, <1>9, <1>10 DEF HoldingAt, Busy, Upstream
  <2>3. \A f \in DOMAIN fdt : fdt[f] = Free
    BY <1>1
  <2> QED
    BY <1>1, <2>1, <2>2, <2>3 DEF TableInv
<1>12. CallInv
  <2>1. Rpc!NoCall.at = "idle"
    BY DEF Rpc!NoCall
  <2> QED
    BY <1>3, <1>6, <1>9, <2>1 DEF CallInv, CallAt
<1>13. AnswerInv
  <2>1. StageAt(w)
    BY <1>3, <1>9, <1>10 DEF StageAt, Upstream
  <2> QED
    BY <1>1, <2>1 DEF AnswerInv, OwnAnswer
<1> QED
  BY <1>7, <1>8, <1>11, <1>12, <1>13 DEF SocketInv

(***************************************************************************)
(* The invariant on which all that follows rests: on every path through    *)
(* handleClient() a worker knows which descriptors it has, which           *)
(* connection they belong to, how much of the answer has come from the     *)
(* origin and how much has gone to the client.                             *)
(***************************************************************************)
THEOREM SocketInvariant ==
    ASSUME OneWorker
    PROVE  Spec => []SocketInv
<1>1. Init => SocketInv
  BY SocketInvInit DEF OneWorker
<1>2. SocketInv /\ [Next]_vars => SocketInv'
  BY SocketInvNext
<1> QED
  BY <1>1, <1>2, PTL DEF Spec

(***************************************************************************)
(* The variables of client.c, proxy.c and server.c keep their types: no    *)
(* descriptor, counter or stage leaves its range.                          *)
(***************************************************************************)
THEOREM TypeCorrect ==
    ASSUME OneWorker
    PROVE  Spec => []TypeOK
<1>1. SocketInv => TypeOK
  <2> SUFFICES ASSUME SocketInv PROVE TypeOK
    OBVIOUS
  <2>1. SocketTypeOK
    BY DEF SocketInv
  <2>2. StreamTypeOK
    <3>1. ASSUME NEW k \in Conns
          PROVE  /\ conn[k].client \in Ends /\ conn[k].server \in Ends /\ conn[k].file \in Files
                 /\ conn[k].up \in NoRequest .. Whole /\ conn[k].down \in Seq(Pieces)
      BY <2>1 DEF SocketTypeOK, ConnType
    <3>2. ASSUME NEW s \in Seq(Pieces), NEW i \in DOMAIN s
          PROVE  s[i].is \in {"header", "body", "image", "stub"}
      <4>1. s[i] \in Pieces
        OBVIOUS
      <4> QED
        BY <4>1 DEF Pieces
    <3> QED
      BY <3>1, <3>2 DEF StreamTypeOK
  <2>3. ClientTypeOK
    <3>1. ASSUME NEW t \in Threads
          PROVE  /\ thread[t].at \in {"socket", "send", "header", "body", "returned"}
                 /\ thread[t].n \in 1 .. accesses
                 /\ {thread[t].bLen + 1, thread[t].bodyLen, thread[t].retVal} \subseteq Nat
      <4>1. thread[t] \in ThreadType
        BY <2>1 DEF SocketTypeOK
      <4>2. thread[t].bLen \in {-1} \cup Nat
        BY <4>1 DEF ThreadType
      <4>3. thread[t].bLen + 1 \in Nat
        BY <4>2
      <4> QED
        BY <4>1, <4>3 DEF ThreadType
    <3> QED
      BY <2>1, <3>1 DEF ClientTypeOK, SocketTypeOK
  <2>4. ProxyTypeOK
    <3>1. ASSUME NEW w \in Workers
          PROVE  /\ worker[w].at \in Pcs /\ worker[w].fd \in 0 .. limit /\ worker[w].from \in 0 .. limit
                 /\ worker[w].len \in -1 .. MaxChunks /\ worker[w].got \in 0 .. MaxChunks
      BY <2>1, WorkerFields DEF SocketTypeOK
    <3>2. ASSUME NEW k \in Conns PROVE origin[k].st \in {"none", "socket", "connected", "asked"}
      BY <2>1 DEF SocketTypeOK, OriginType
    <3> QED
      BY <2>1, <3>1, <3>2 DEF ProxyTypeOK, SocketTypeOK
  <2> QED
    BY <2>2, <2>3, <2>4 DEF TypeOK
<1> QED
  BY <1>1, SocketInvariant, PTL

(***************************************************************************)
(* What sendAll() of handleClient() and of recvAll_Forward() puts on a     *)
(* connection is part of the answer to the request that came on it.        *)
(***************************************************************************)
THEOREM AnswersAreOwn ==
    ASSUME OneWorker
    PROVE  Spec => []OwnAnswer
<1>1. SocketInv => OwnAnswer
  BY DEF SocketInv, AnswerInv
<1> QED
  BY <1>1, SocketInvariant, PTL

(***************************************************************************)
(* The exits of handleClient() close each descriptor that accept() and     *)
(* socket() have opened once, and no other.                                *)
(***************************************************************************)
THEOREM NoDescriptorLost ==
    ASSUME OneWorker
    PROVE  Spec => []DescriptorsHeld
<1>1. SocketInv => DescriptorsHeld
  <2> SUFFICES ASSUME SocketInv PROVE DescriptorsHeld
    OBVIOUS
  <2>1. PICK w : Workers = {w}
    BY DEF OneWorker
  <2>2. SocketTypeOK /\ TableInv /\ HoldingAt(w)
    BY <2>1 DEF SocketInv, TableInv
  <2> DEFINE open == {f \in DOMAIN fdt : fdt[f] # Free}
             held == {worker[v].fd : v \in {u \in Workers : HoldsClient(u)}}
             up   == IF \E v \in Workers : HoldsServer(v) THEN {serverSock} ELSE {}
  <2>3. ASSUME NEW f \in open PROVE f \in Queued \cup held \cup up
    BY <2>2, <2>3 DEF TableInv, InUse, Open
  <2>4. ASSUME NEW f \in Queued \cup held \cup up PROVE f \in open
    <3>1. IsClient(f) \/ IsOrigin(f)
      BY <2>1, <2>2, <2>4 DEF TableInv, Queued, HoldingAt
    <3> QED
      BY <3>1 DEF IsClient, IsOrigin, Open
  <2> HIDE DEF held, up
  <2>5. open = Queued \cup held \cup up
    BY <2>3, <2>4
  <2> QED
    BY <2>5 DEF DescriptorsHeld, held, up
<1> QED
  BY <1>1, SocketInvariant, PTL

(***************************************************************************)
(* By the time handleClient() closes a connection, its client has been     *)
(* sent one whole answer or one error, if nothing cut the answer short.    *)
(***************************************************************************)
THEOREM AnsweredOnce ==
    ASSUME OneWorker
    PROVE  Spec => []OneAnswer
<1>1. SocketInv => OneAnswer
  BY DEF SocketInv, AnswerInv, StageAt, OneAnswer
<1> QED
  BY <1>1, SocketInvariant, PTL

----------------------------------------------------------------------------
(* The accounts of the client.                                             *)

\* The sums of f[1] .. f[n] exist and are what the recursion says.
LEMMA SumsFacts ==
    ASSUME NEW f, \A n \in Threads : f[n] \in Nat
    PROVE  /\ Sums(f) \in [0 .. NumConns -> Nat] /\ Sums(f)[0] = 0
           /\ \A n \in Threads : Sums(f)[n] = Sums(f)[n - 1] + f[n]
<1> DEFINE M == NumConns
           IsSum(S, n) == /\ S \in [0 .. M -> Nat] /\ S[0] = 0
                          /\ \A i \in 1 .. n : S[i] = S[i - 1] + f[i]
<1>1. M \in Nat /\ Threads = 1 .. M
  BY NumConnsNat DEF Threads
<1> HIDE DEF M
<1> DEFINE Has(n) == \E S : IsSum(S, n)
<1> HIDE DEF Has
<1>2. \A n \in 0 .. M : Has(n)
  <2> DEFINE T == {n \in 0 .. M : ~ Has(n)}
  <2>1. SUFFICES ASSUME T # {} PROVE FALSE
    OBVIOUS
  <2>2. T \subseteq Nat
    BY <1>1
  <2>3. PICK n \in T : \A m \in T : n <= m
    BY <2>1, <2>2, LeastOne
  <2>4. n \in 0 .. M /\ ~ Has(n) /\ \A m \in 0 .. M : m < n => Has(m)
    BY <1>1, <2>3
  <2>5. CASE n = 0
    <3>1. IsSum([i \in 0 .. M |-> 0], n)
      BY <1>1, <2>5
    <3> QED
      BY <2>4, <3>1 DEF Has
  <2>6. CASE n # 0
    <3>1. n \in 1 .. M /\ n - 1 \in 0 .. M /\ n - 1 < n
      BY <1>1, <2>4, <2>6
    <3>2. PICK S : IsSum(S, n - 1)
      BY <2>4, <3>1 DEF Has
    <3> DEFINE R == [S EXCEPT ![n] = S[n - 1] + f[n]]
    <3>3. S[n - 1] \in Nat /\ f[n] \in Nat
      BY <1>1, <3>1, <3>2
    <3>4. R \in [0 .. M -> Nat] /\ R[0] = 0 /\ R[n] = S[n - 1] + f[n]
          /\ \A i \in 0 .. M : i # n => R[i] = S[i]
      BY <1>1, <3>1, <3>2, <3>3
    <3> HIDE DEF R
    <3>5. ASSUME NEW i \in 1 .. n PROVE R[i] = R[i - 1] + f[i]
      <4>1. i \in 1 .. M /\ i - 1 \in 0 .. M /\ i - 1 # n /\ (i # n => i \in 1 .. n - 1)
        BY <1>1, <3>1
      <4> QED
        BY <3>2, <3>4, <4>1
    <3>6. IsSum(R, n)
      BY <3>4, <3>5
    <3> QED
      BY <2>4, <3>6 DEF Has
  <2> QED
    BY <2>5, <2>6
<1>3. PICK S : IsSum(S, M)
  <2>1. Has(M)
    BY <1>1, <1>2
  <2> QED
    BY <2>1 DEF Has
<1> DEFINE Rule(Z) == Z = [n \in 0 .. M |-> IF n = 0 THEN 0 ELSE Z[n - 1] + f[n]]
<1>4. Rule(S)
  <2>1. ASSUME NEW n \in 0 .. M PROVE S[n] = IF n = 0 THEN 0 ELSE S[n - 1] + f[n]
    BY <1>1, <1>3
  <2> QED
    BY <1>3, <2>1
<1>5. Sums(f) = CHOOSE Z : Rule(Z)
  BY DEF Sums, M
<1> HIDE DEF Rule
<1>6. PICK Z : Z = Sums(f) /\ Rule(Z)
  BY <1>4, <1>5
<1>7. /\ DOMAIN Z = 0 .. M /\ Z[0] = 0
      /\ Z = [n \in 0 .. M |-> Z[n]]
      /\ \A n \in 1 .. M : Z[n] = Z[n - 1] + f[n]
  <2>1. Z = [n \in 0 .. M |-> IF n = 0 THEN 0 ELSE Z[n - 1] + f[n]]
    BY <1>6 DEF Rule
  <2>2. \A n \in 0 .. M : Z[n] = IF n = 0 THEN 0 ELSE Z[n - 1] + f[n]
    BY <2>1
  <2> QED
    BY <1>1, <2>1, <2>2
<1>8. ASSUME NEW n \in 0 .. M PROVE Z[n] \in Nat
  <2> DEFINE B == {i \in 0 .. M : Z[i] \notin Nat}
  <2>1. SUFFICES ASSUME B # {} PROVE FALSE
    OBVIOUS
  <2>5. B \subseteq Nat
    BY <1>1
  <2>2. PICK i \in B : \A j \in B : i <= j
    BY <2>1, <2>5, LeastOne
  <2>3. i \in 1 .. M /\ i - 1 \in 0 .. M /\ i - 1 < i
    BY <1>1, <1>7, <2>2
  <2>4. Z[i - 1] \in Nat /\ f[i] \in Nat
    BY <1>1, <2>2, <2>3
  <2>6. Z[i] = Z[i - 1] + f[i]
    BY <1>7, <2>3
  <2> QED
    BY <2>2, <2>4, <2>6
<1> QED
  BY <1>1, <1>6, <1>7, <1>8 DEF M

\* Sums of the same numbers are the same.
LEMMA SumsAgree ==
    ASSUME NEW f, \A i \in Threads : f[i] \in Nat, NEW g, \A i \in Threads : g[i] \in Nat,
           NEW n \in 0 .. NumConns, \A i \in 1 .. n : f[i] = g[i]
    PROVE  Sums(f)[n] = Sums(g)[n]
<1> DEFINE T == {i \in 0 .. n : Sums(f)[i] # Sums(g)[i]}
<1>1. NumConns \in Nat /\ Threads = 1 .. NumConns
  BY NumConnsNat DEF Threads
<1>2. SUFFICES ASSUME T # {} PROVE FALSE
  BY <1>1
<1> T \subseteq Nat
  BY <1>1
<1>3. PICK i \in T : \A j \in T : i <= j
  BY <1>2, LeastOne
<1>4. i # 0
  BY <1>3, SumsFacts
<1>5. i \in 1 .. n /\ i \in Threads /\ i - 1 \in 0 .. n /\ i - 1 < i
  BY <1>1, <1>3, <1>4
<1>6. Sums(f)[i - 1] = Sums(g)[i - 1]
  BY <1>3, <1>5
<1> QED
  BY <1>3, <1>5, <1>6, SumsFacts

\* What is zero adds nothing.
LEMMA SumsRest ==
    ASSUME NEW f, \A i \in Threads : f[i] \in Nat,
           NEW n \in 0 .. NumConns, \A i \in Threads : i > n => f[i] = 0
    PROVE  Sums(f)[NumConns] = Sums(f)[n]
<1> DEFINE T == {i \in n .. NumConns : Sums(f)[i] # Sums(f)[n]}
<1>1. NumConns \in Nat /\ Threads = 1 .. NumConns /\ n \in Nat
  BY NumConnsNat DEF Threads
<1>2. SUFFICES ASSUME T # {} PROVE FALSE
  BY <1>1
<1> T \subseteq Nat
  BY <1>1
<1>3. PICK i \in T : \A j \in T : i <= j
  BY <1>2, LeastOne
<1>4. i \in Threads /\ i > n /\ i - 1 \in n .. NumConns /\ i - 1 < i /\ f[i] = 0
  BY <1>1, <1>3
<1>5. Sums(f)[i - 1] = Sums(f)[n]
  BY <1>3, <1>4
<1>6. Sums(f)[i - 1] \in Nat
  BY <1>1, <1>4, SumsFacts
<1> QED
  BY <1>3, <1>4, <1>5, <1>6, SumsFacts

----
\* The sums over the accesses of one thread.
LEMMA ThreadSums ==
    ASSUME NEW d \in [Conns -> Nat], NEW t \in Threads
    PROVE  /\ SumsOf(t, d) \in [0 .. NumConns -> Nat] /\ SumsOf(t, d)[0] = 0
           /\ \A k \in Conns : k[1] = t =>
                 SumsOf(t, d)[k[2]] = SumsOf(t, d)[k[2] - 1] + d[k]
<1> DEFINE f == [n \in Threads |-> IF <<t, n>> \in Conns THEN d[<<t, n>>] ELSE 0]
<1>1. \A n \in Threads : f[n] \in Nat
  OBVIOUS
<1>2. SumsOf(t, d) = Sums(f)
  BY DEF SumsOf
<1>3. ASSUME NEW k \in Conns, k[1] = t PROVE k[2] \in Threads /\ f[k[2]] = d[k]
  BY <1>3, ConnsFacts
<1> HIDE DEF f
<1> QED
  BY <1>1, <1>2, <1>3, SumsFacts

\* They depend on the accesses up to the last one that is added.
LEMMA ThreadSumsAgree ==
    ASSUME NEW d \in [Conns -> Nat], NEW e \in [Conns -> Nat], NEW t \in Threads,
           NEW n \in 0 .. NumConns,
           \A k \in Conns : k[1] = t /\ k[2] <= n => d[k] = e[k]
    PROVE  SumsOf(t, d)[n] = SumsOf(t, e)[n]
<1> DEFINE f == [m \in Threads |-> IF <<t, m>> \in Conns THEN d[<<t, m>>] ELSE 0]
           g == [m \in Threads |-> IF <<t, m>> \in Conns THEN e[<<t, m>>] ELSE 0]
<1>1. \A m \in Threads : f[m] \in Nat /\ g[m] \in Nat
  OBVIOUS
<1>2. SumsOf(t, d) = Sums(f) /\ SumsOf(t, e) = Sums(g)
  BY DEF SumsOf
<1>3. ASSUME NEW m \in 1 .. n PROVE f[m] = g[m]
  <2>1. m \in Threads /\ m <= n /\ <<t, m>>[1] = t /\ <<t, m>>[2] = m
    BY NumConnsNat DEF Threads
  <2> QED
    BY <2>1
<1> HIDE DEF f, g
<1> QED
  BY <1>1, <1>2, <1>3, SumsAgree

\* Accesses on which nothing is due need not be added.
LEMMA ThreadSumsRest ==
    ASSUME NEW d \in [Conns -> Nat], NEW t \in Threads, NEW n \in 0 .. NumConns,
           \A k \in Conns : k[1] = t /\ k[2] > n => d[k] = 0
    PROVE  SumsOf(t, d)[NumConns] = SumsOf(t, d)[n]
<1> DEFINE f == [m \in Threads |-> IF <<t, m>> \in Conns THEN d[<<t, m>>] ELSE 0]
<1>1. \A m \in Threads : f[m] \in Nat
  OBVIOUS
<1>2. SumsOf(t, d) = Sums(f)
  BY DEF SumsOf
<1>3. ASSUME NEW m \in Threads, m > n PROVE f[m] = 0
  BY <1>3
<1> HIDE DEF f
<1> QED
  BY <1>1, <1>2, <1>3, SumsRest

\* The sums over the threads.
LEMMA AllSums ==
    ASSUME NEW d \in [Conns -> Nat]
    PROVE  /\ SumsOfAll(d) \in [0 .. NumConns -> Nat] /\ SumsOfAll(d)[0] = 0
           /\ \A t \in Threads :
                 SumsOfAll(d)[t] = SumsOfAll(d)[t - 1] + SumsOf(t, d)[NumConns]
<1> DEFINE f == [t \in Threads |-> SumsOf(t, d)[NumConns]]
<1>1. \A t \in Threads : f[t] \in Nat
  BY ThreadSums, NumConnsNat
<1>2. SumsOfAll(d) = Sums(f)
  BY DEF SumsOfAll
<1>3. \A t \in Threads : f[t] = SumsOf(t, d)[NumConns]
  OBVIOUS
<1> HIDE DEF f
<1> QED
  BY <1>1, <1>2, <1>3, SumsFacts

LEMMA AllSumsAgree ==
    ASSUME NEW d \in [Conns -> Nat], NEW e \in [Conns -> Nat], NEW n \in 0 .. NumConns,
           \A k \in Conns : k[1] <= n => d[k] = e[k]
    PROVE  SumsOfAll(d)[n] = SumsOfAll(e)[n]
<1> DEFINE f == [t \in Threads |-> SumsOf(t, d)[NumConns]]
           g == [t \in Threads |-> SumsOf(t, e)[NumConns]]
<1>1. \A t \in Threads : f[t] \in Nat /\ g[t] \in Nat
  BY ThreadSums, NumConnsNat
<1>2. SumsOfAll(d) = Sums(f) /\ SumsOfAll(e) = Sums(g)
  BY DEF SumsOfAll
<1>3. ASSUME NEW t \in 1 .. n PROVE f[t] = g[t]
  <2>1. t \in Threads /\ NumConns \in 0 .. NumConns
    BY NumConnsNat DEF Threads
  <2>2. \A k \in Conns : k[1] = t /\ k[2] <= NumConns => d[k] = e[k]
    OBVIOUS
  <2>3. SumsOf(t, d)[NumConns] = SumsOf(t, e)[NumConns]
    BY <2>1, <2>2, ThreadSumsAgree
  <2> QED
    BY <2>1, <2>3
<1> HIDE DEF f, g
<1> QED
  BY <1>1, <1>2, <1>3, SumsAgree

LEMMA AllSumsRest ==
    ASSUME NEW d \in [Conns -> Nat], NEW n \in 0 .. NumConns,
           \A k \in Conns : k[1] > n => d[k] = 0
    PROVE  SumsOfAll(d)[NumConns] = SumsOfAll(d)[n]
<1> DEFINE f == [t \in Threads |-> SumsOf(t, d)[NumConns]]
<1>1. \A t \in Threads : f[t] \in Nat
  BY ThreadSums, NumConnsNat
<1>2. SumsOfAll(d) = Sums(f)
  BY DEF SumsOfAll
<1>3. ASSUME NEW t \in Threads, t > n PROVE f[t] = 0
  <2>1. 0 \in 0 .. NumConns
    BY NumConnsNat
  <2>2. \A k \in Conns : k[1] = t /\ k[2] > 0 => d[k] = 0
    BY <1>3
  <2>3. SumsOf(t, d)[NumConns] = SumsOf(t, d)[0]
    BY <2>1, <2>2, ThreadSumsRest
  <2> QED
    BY <2>3, ThreadSums
<1> HIDE DEF f
<1> QED
  BY <1>1, <1>2, <1>3, SumsRest

\* What the accounts rest on: the types of what is sent and of the client,
\* and what is sent goes to connections that are open on both sides.
Streams ==
    /\ conn \in [Conns -> ConnType] /\ sent \in [Conns -> Seq(Pieces)]
    /\ ClientSide
    /\ Ahead
    /\ \A f : IsClient(f) => fdt[f][2] \in Conns /\ conn[fdt[f][2]].server = "open"
    /\ \A k \in Conns : sent[k] # <<>> => conn[k].server = "open"

\* What is counted of n pieces after a header.
LEMMA CountedFacts ==
    ASSUME NEW b \in Int, NEW n \in Nat
    PROVE  /\ Counted(b, n) \in Nat
           /\ b <= n => \A m \in Nat : n <= m => Counted(b, m) = Counted(b, n)
  BY DEF Counted

\* What is counted when the client is done with the connection.
LEMMA CountedDone ==
    ASSUME NEW b \in Int, NEW i \in Nat, i = 0 \/ i <= b, NEW n \in Nat,
           i >= b \/ n = 0
    PROVE  Counted(b, i + n) = i
  BY DEF Counted

\* What a sequence of pieces is worth.
LEMMA WorthFacts ==
    ASSUME NEW s \in Seq(Pieces)
    PROVE  /\ Worth(s) \in Nat
           /\ s # <<>> =>
                /\ BodyLength(Head(s)) \in Int /\ BodyLength(Head(s)) \in {-1} \cup Nat
                /\ Len(s) - 1 \in Nat
                /\ Worth(s) = Counted(BodyLength(Head(s)), Len(s) - 1)
           /\ s = <<>> => Worth(s) = 0
<1>1. CASE s = <<>>
  BY <1>1 DEF Worth
<1>2. CASE s # <<>>
  <2>1. Head(s) \in Pieces /\ Len(s) - 1 \in Nat
    BY <1>2
  <2>2. BodyLength(Head(s)) \in {-1} \cup Nat
    BY <2>1, BodyLengthType
  <2>3. Worth(s) = Counted(BodyLength(Head(s)), Len(s) - 1)
    BY <1>2 DEF Worth
  <2>4. BodyLength(Head(s)) \in Int
    BY <2>2
  <2> QED
    BY <1>2, <2>1, <2>2, <2>3, <2>4, CountedFacts
<1> QED
  BY <1>1, <1>2

\* More pieces come after those that are there.
LEMMA MorePieces ==
    ASSUME NEW s \in Seq(Pieces), NEW p \in Seq(Pieces), NEW r, r = s \o p
    PROVE  /\ r \in Seq(Pieces) /\ Len(s) \in Nat /\ Len(p) \in Nat /\ Len(r) = Len(s) + Len(p)
           /\ s # <<>> => r # <<>> /\ Head(r) = Head(s)
<1>1. r \in Seq(Pieces) /\ Len(s) \in Nat /\ Len(p) \in Nat /\ Len(r) = Len(s) + Len(p)
  OBVIOUS
<1>2. ASSUME s # <<>> PROVE r # <<>> /\ Head(r) = Head(s)
  BY <1>2
<1> QED
  BY <1>1, <1>2

\* What is due on a connection is a number.
LEMMA DueFacts ==
    ASSUME sent \in [Conns -> Seq(Pieces)], due \in [Conns -> Nat]
    PROVE  /\ Dues \in [Conns -> Nat]
           /\ \A k \in Conns : /\ Dues[k] = Due(k) /\ Due(k) \in Nat
                               /\ sent[k] = <<>> => Due(k) = due[k]
                               /\ sent[k] # <<>> => Due(k) = Worth(sent[k])
<1>1. ASSUME NEW k \in Conns PROVE Worth(sent[k]) \in Nat /\ due[k] \in Nat
  BY WorthFacts
<1> QED
  BY <1>1 DEF Dues, Due

\* Two connections of a thread.
LEMMA PairFacts ==
    ASSUME NEW j \in Conns, NEW k \in Conns
    PROVE  /\ j[1] \in Threads /\ j[2] \in Threads /\ j[1] \in Nat /\ j[2] \in Nat
           /\ j[2] \in 0 .. NumConns /\ j[1] \in 0 .. NumConns
           /\ j[1] = k[1] /\ j[2] = k[2] => j = k
<1>1. j[1] \in Threads /\ j[2] \in Threads
  BY ConnsFacts
<1>2. j = <<j[1], j[2]>> /\ k = <<k[1], k[2]>>
  BY ConnsFacts
<1> QED
  BY <1>1, <1>2, NumConnsNat DEF Threads

\* What the threads of the client work on.
LEMMA ClientFacts ==
    ASSUME ClientSide, Ahead, NEW t \in Threads
    PROVE  /\ thread[t] \in ThreadType /\ thread[t].n \in 1 .. accesses /\ accesses \in Threads
           /\ thread[t].bLen \in {-1} \cup Nat /\ thread[t].bodyLen \in Nat /\ thread[t].retVal \in Nat
           /\ thread[t].at \in {"socket", "send", "header", "body", "returned"}
           /\ thread[t].at # "returned" => Current(t) \in Conns /\ t \in 1 .. numThreads
           /\ Current(t)[1] = t /\ Current(t)[2] = thread[t].n
           /\ thread[t].n \in Nat \ {0} /\ thread[t].n \in 0 .. NumConns
           /\ Done(t) \in 0 .. NumConns
           /\ numThreads \in 1 .. NumConns /\ joined \in 0 .. NumConns
<1>1. thread[t] \in ThreadType /\ accesses \in Threads /\ numThreads \in Threads /\ joined \in 0 .. numThreads
  BY DEF ClientSide
<1>2. /\ thread[t].n \in 1 .. accesses
      /\ thread[t].bLen \in {-1} \cup Nat /\ thread[t].bodyLen \in Nat /\ thread[t].retVal \in Nat
      /\ thread[t].at \in {"socket", "send", "header", "body", "returned"}
  BY <1>1 DEF ThreadType
<1>3. ASSUME thread[t].at # "returned" PROVE Current(t) \in Conns /\ t \in 1 .. numThreads
  <2>1. PICK n : n = thread[t].n
    OBVIOUS
  <2>2. /\ t \in Nat /\ 1 <= t /\ n \in Nat /\ 1 <= n /\ n <= accesses /\ accesses \in Nat /\ numThreads \in Nat
        /\ t <= numThreads /\ numThreads * accesses = NumConns /\ n \in Threads
    BY <1>1, <1>2, <1>3, <2>1, NumConnsNat DEF Ahead, Threads
  <2>3. t * n <= t * accesses
    BY <2>2
  <2>4. t * accesses <= numThreads * accesses
    BY <2>2
  <2>5. t * n \in Nat /\ t * accesses \in Nat
    BY <2>2
  <2>6. t * n <= NumConns
    BY <2>2, <2>3, <2>4, <2>5
  <2>7. <<t, n>> \in Threads \X Threads /\ <<t, n>>[1] = t /\ <<t, n>>[2] = n
    BY <2>2
  <2> QED
    BY <2>1, <2>2, <2>6, <2>7 DEF Current, Conns
<1>4. /\ thread[t].n \in Nat \ {0} /\ thread[t].n \in 0 .. NumConns
      /\ numThreads \in 1 .. NumConns /\ joined \in 0 .. NumConns
  BY <1>1, <1>2, NumConnsNat DEF Threads
<1>5. Done(t) \in 0 .. NumConns
  BY <1>4, NumConnsNat DEF Done
<1> QED
  BY <1>1, <1>2, <1>3, <1>4, <1>5 DEF Current

\* What a step of the proxy does to a connection: nothing that matters, or
\* more is sent on it, or it is closed.
Kept(k) ==
    /\ sent'[k] = sent[k] /\ due'[k] = due[k]
    /\ conn'[k].down = conn[k].down /\ conn'[k].client = conn[k].client
    /\ \/ conn'[k].server = conn[k].server
       \/ conn[k].server = "none" /\ conn'[k].server = "open"
Grown(k) ==
    /\ conn[k].server = "open" /\ conn'[k].server = "open"
    /\ conn'[k].client = conn[k].client /\ due'[k] = due[k]
    /\ \E p \in Seq(Pieces) :
          /\ sent'[k] = sent[k] \o p
          /\ conn'[k].down = IF conn[k].client = "open" THEN conn[k].down \o p ELSE conn[k].down
Closed(k) ==
    /\ conn[k].client # "none" /\ conn'[k].server = "shut"
    /\ conn'[k].client = conn[k].client /\ conn'[k].down = conn[k].down
    /\ sent'[k] = <<>> /\ due'[k] = Due(k)

ProxyMoves ==
    /\ UNCHANGED clientVars
    /\ DOMAIN due' = Conns /\ due' = [k \in Conns |-> due'[k]]
    /\ \A k \in Conns : Kept(k) \/ Grown(k) \/ Closed(k)

\* What is due on a connection changes only while it is not settled.
LEMMA DueKept ==
    ASSUME Streams, CountInv, Streams', ProxyMoves, NEW k \in Conns
    PROVE  /\ due'[k] \in Nat
           /\ Settled(k) => Settled(k)' /\ Due(k)' = Due(k)
           /\ Blank(k)'
<1>1. /\ Blank(k) /\ due[k] \in Nat /\ sent[k] \in Seq(Pieces) /\ sent'[k] \in Seq(Pieces)
      /\ conn[k].server # "none" => conn[k].client # "none"
      /\ sent[k] # <<>> => conn[k].server = "open"
      /\ Due(k) \in Nat
      /\ sent[k] = <<>> => Due(k) = due[k]
      /\ sent[k] # <<>> => Due(k) = Worth(sent[k])
  BY DueFacts DEF Streams, CountInv, Ahead
<1>2. CASE Kept(k)
  <2>1. Due(k)' = Due(k)
    BY <1>2 DEF Kept, Due
  <2>2. Settled(k) => Settled(k)'
    BY <1>1, <1>2 DEF Kept, Settled
  <2>3. Blank(k)'
    BY <1>1, <1>2 DEF Kept, Blank
  <2> QED
    BY <1>1, <1>2, <2>1, <2>2, <2>3 DEF Kept
<1>3. CASE Grown(k)
  <2>1. PICK p \in Seq(Pieces) : sent'[k] = sent[k] \o p
    BY <1>3 DEF Grown
  <2>2. /\ Len(sent[k]) \in Nat /\ Len(p) \in Nat /\ Len(sent'[k]) = Len(sent[k]) + Len(p)
        /\ sent[k] # <<>> => sent'[k] # <<>> /\ Head(sent'[k]) = Head(sent[k])
    BY <1>1, <2>1, MorePieces
  <2>3. Settled(k) => Settled(k)' /\ Due(k)' = Due(k)
    <3>1. HAVE Settled(k)
    <3>2. sent[k] # <<>> /\ BodyLength(Head(sent[k])) <= Len(sent[k]) - 1
      BY <1>1, <1>3, <3>1 DEF Settled, Grown
    <3>3. PICK b : b = BodyLength(Head(sent[k]))
      OBVIOUS
    <3>4. /\ b \in Int /\ Len(sent[k]) - 1 \in Nat
          /\ Worth(sent[k]) = Counted(b, Len(sent[k]) - 1)
          /\ Worth(sent'[k]) = Counted(b, Len(sent'[k]) - 1)
      BY <1>1, <2>2, <3>2, <3>3, WorthFacts
    <3>5. Len(sent'[k]) - 1 \in Nat /\ Len(sent[k]) - 1 <= Len(sent'[k]) - 1
      BY <2>2, <3>4
    <3>6. Worth(sent'[k]) = Worth(sent[k])
      BY <3>2, <3>3, <3>4, <3>5, CountedFacts
    <3>7. Due(k)' = Worth(sent'[k])
      BY <2>2, <3>2 DEF Due
    <3>8. Settled(k)'
      BY <2>2, <3>2, <3>3, <3>4, <3>5 DEF Settled
    <3> QED
      BY <1>1, <3>2, <3>6, <3>7, <3>8
  <2>4. Blank(k)'
    BY <1>1, <1>3 DEF Grown, Blank
  <2> QED
    BY <1>1, <1>3, <2>3, <2>4 DEF Grown
<1>4. CASE Closed(k)
  <2>1. Due(k)' = Due(k)
    BY <1>4 DEF Closed, Due
  <2>2. Settled(k)' /\ Blank(k)'
    BY <1>4 DEF Closed, Settled, Blank
  <2> QED
    BY <1>1, <1>4, <2>1, <2>2 DEF Closed
<1> QED
  BY <1>2, <1>3, <1>4 DEF ProxyMoves

\* The access that is under way goes along with what the proxy does.
LEMMA UnderwayKept ==
    ASSUME Streams, CountInv, Streams', ProxyMoves, NEW t \in Threads, Underway(t)
    PROVE  Underway(t)'
<1>0. PICK r, k : r = thread[t] /\ k = Current(t)
  OBVIOUS
<1>1. thread'[t] = r /\ Current(t)' = k /\ ClientSide /\ Ahead
  BY <1>0 DEF ProxyMoves, clientVars, Streams, Current
<1>2. /\ r.at # "returned" => k \in Conns
      /\ r.bLen \in Int /\ r.bodyLen \in Nat /\ r.bLen \in {-1} \cup Nat
  <2>1. r.bLen \in {-1} \cup Nat /\ r.bodyLen \in Nat /\ (r.at # "returned" => k \in Conns)
    BY <1>0, <1>1, ClientFacts
  <2> QED
    BY <2>1
<1>3. /\ r.at \in {"send", "header", "body"} => conn[k].client = "open"
      /\ r.at \in {"send", "header"} =>
           /\ Due(k) = Worth(conn[k].down)
           /\ conn[k].server = "shut" \/ sent[k] = conn[k].down
      /\ r.at = "body" =>
           /\ Due(k) = Counted(r.bLen, r.bodyLen + Len(conn[k].down))
           /\ r.bodyLen = 0 \/ r.bodyLen <= r.bLen
           /\ \/ conn[k].server = "shut"
              \/ /\ sent[k] # <<>> /\ BodyLength(Head(sent[k])) = r.bLen
                 /\ Len(sent[k]) = 1 + r.bodyLen + Len(conn[k].down)
  BY <1>0 DEF Underway
<1>4. SUFFICES
      /\ r.at \in {"send", "header", "body"} => conn'[k].client = "open"
      /\ r.at \in {"send", "header"} =>
           /\ Due(k)' = Worth(conn'[k].down)
           /\ conn'[k].server = "shut" \/ sent'[k] = conn'[k].down
      /\ r.at = "body" =>
           /\ Due(k)' = Counted(r.bLen, r.bodyLen + Len(conn'[k].down))
           /\ r.bodyLen = 0 \/ r.bodyLen <= r.bLen
           /\ \/ conn'[k].server = "shut"
              \/ /\ sent'[k] # <<>> /\ BodyLength(Head(sent'[k])) = r.bLen
                 /\ Len(sent'[k]) = 1 + r.bodyLen + Len(conn'[k].down)
  BY <1>1 DEF Underway
<1>5. ASSUME r.at \in {"send", "header", "body"} PROVE k \in Conns
  BY <1>2, <1>5
<1>6. CASE k \in Conns /\ Kept(k)
  <2>1. Due(k)' = Due(k)
    BY <1>6 DEF Kept, Due
  <2>2. conn'[k].server = conn[k].server \/ (conn[k].server # "shut" /\ conn'[k].server # "shut")
    BY <1>6 DEF Kept
  <2> QED
    BY <1>3, <1>6, <2>1, <2>2 DEF Kept
<1>7. CASE k \in Conns /\ Closed(k)
  <2>1. Due(k)' = Due(k)
    BY <1>7 DEF Closed, Due
  <2> QED
    BY <1>3, <1>7, <2>1 DEF Closed
<1>8. CASE k \in Conns /\ Grown(k) /\ r.at \in {"send", "header", "body"}
  <2>1. conn[k].client = "open" /\ conn'[k].client = "open"
    BY <1>3, <1>8 DEF Grown
  <2>2. PICK p \in Seq(Pieces) : sent'[k] = sent[k] \o p /\ conn'[k].down = conn[k].down \o p
    BY <1>8, <2>1 DEF Grown
  <2>3. /\ sent[k] \in Seq(Pieces) /\ sent'[k] \in Seq(Pieces) /\ conn[k].down \in Seq(Pieces)
        /\ conn[k].server = "open" /\ conn'[k].server = "open" /\ due[k] = 0 /\ due'[k] = 0
    BY <1>8 DEF Streams, ConnType, CountInv, Blank, Grown
  <2>4. /\ Len(sent[k]) \in Nat /\ Len(p) \in Nat /\ Len(sent'[k]) = Len(sent[k]) + Len(p)
        /\ sent[k] # <<>> => sent'[k] # <<>> /\ Head(sent'[k]) = Head(sent[k])
    BY <2>2, <2>3, MorePieces
  <2>5. Len(conn[k].down) \in Nat /\ Len(conn'[k].down) = Len(conn[k].down) + Len(p)
    BY <2>2, <2>3, MorePieces
  <2>6. Due(k)' = Worth(sent'[k])
    BY <2>3, WorthFacts DEF Due
  <2>7. CASE r.at \in {"send", "header"}
    <3>1. sent'[k] = conn'[k].down
      BY <1>3, <2>2, <2>3, <2>7
    <3> QED
      BY <2>1, <2>6, <2>7, <3>1
  <2>8. CASE r.at = "body"
    <3>1. /\ sent[k] # <<>> /\ BodyLength(Head(sent[k])) = r.bLen
          /\ Len(sent[k]) = 1 + r.bodyLen + Len(conn[k].down)
          /\ r.bodyLen = 0 \/ r.bodyLen <= r.bLen
      BY <1>3, <2>3, <2>8
    <3>2. PICK b : b = r.bodyLen
      OBVIOUS
    <3>4. PICK x, y, z, x1, z1 :
             /\ x = Len(sent[k]) /\ y = Len(p) /\ z = Len(conn[k].down)
             /\ x1 = Len(sent'[k]) /\ z1 = Len(conn'[k].down)
      OBVIOUS
    <3>5. /\ b \in Nat /\ x \in Nat /\ y \in Nat /\ z \in Nat
          /\ x = 1 + b + z /\ x1 = x + y /\ z1 = z + y
      BY <1>2, <2>4, <2>5, <3>1, <3>2, <3>4
    <3>6. x1 = 1 + b + z1 /\ x1 - 1 = b + z1
      BY ONLY <3>5
    <3>7. /\ sent'[k] # <<>> /\ BodyLength(Head(sent'[k])) = r.bLen
          /\ Len(sent'[k]) = 1 + r.bodyLen + Len(conn'[k].down)
          /\ Len(sent'[k]) - 1 = r.bodyLen + Len(conn'[k].down)
      BY <2>4, <3>1, <3>2, <3>4, <3>6
    <3>3. Worth(sent'[k]) = Counted(r.bLen, r.bodyLen + Len(conn'[k].down))
      BY <2>3, <3>7, WorthFacts
    <3> QED
      BY <2>1, <2>6, <2>8, <3>1, <3>7, <3>3
  <2> QED
    BY <1>8, <2>7, <2>8
<1> QED
  BY <1>5, <1>6, <1>7, <1>8 DEF ProxyMoves

\* The accounts are right after a step of the proxy.
LEMMA ProxyCounts ==
    ASSUME Streams, CountInv, Streams', ProxyMoves
    PROVE  CountInv'
<1>1. /\ UNCHANGED <<numThreads, accesses, picks, thread, joined, total, exit>>
      /\ ClientSide /\ Ahead
  BY DEF ProxyMoves, clientVars, params, Streams
<1>2. ASSUME NEW k \in Conns
      PROVE  /\ due'[k] \in Nat /\ Blank(k)'
             /\ Settled(k) => Settled(k)' /\ Due(k)' = Due(k)
             /\ conn'[k].client = conn[k].client
  BY DueKept DEF ProxyMoves, Kept, Grown, Closed
<1>3. due' \in [Conns -> Nat]
  <2>1. DOMAIN due' = Conns /\ due' = [k \in Conns |-> due'[k]]
    BY DEF ProxyMoves
  <2> QED
    BY <1>2, <2>1
<1>4. PICK d, e : d = Dues /\ e = Dues'
  OBVIOUS
<1>5. /\ d \in [Conns -> Nat] /\ e \in [Conns -> Nat]
      /\ \A k \in Conns : Settled(k) => d[k] = e[k]
  <2>1. Dues \in [Conns -> Nat] /\ \A k \in Conns : Dues[k] = Due(k)
    BY DueFacts DEF Streams, CountInv
  <2>2. Dues' \in [Conns -> Nat] /\ \A k \in Conns : Dues'[k] = Due(k)'
    <3>1. \A k \in Conns : Due(k)' \in Nat
      BY <1>3, WorthFacts DEF Streams, Due
    <3> QED
      BY <3>1 DEF Dues
  <2> QED
    BY <1>2, <1>4, <2>1, <2>2
<1>6. ASSUME exit = "no" PROVE Counting'
  <2>1. Counting
    BY <1>6 DEF CountInv
  <2>2. \A t \in Threads : Done(t)' = Done(t)
    BY <1>1 DEF Done
  <2>3. \A t \in Threads : Underway(t)'
    BY <2>1, UnderwayKept DEF Counting
  <2>4. \A t \in 1 .. joined' : thread'[t].at = "returned"
    BY <1>1, <2>1 DEF Counting
  <2>5. \A k \in Conns : k[2] <= Done(k[1])' => Settled(k)'
    BY <1>2, <2>1, <2>2, ConnsFacts DEF Counting
  <2>6. ASSUME NEW t \in 1 .. numThreads
        PROVE  thread'[t].retVal = SumsOf(t, Dues)'[Done(t)']
    <3>1. t \in Threads /\ Done(t) \in 0 .. NumConns
      <4>1. numThreads \in Threads
        BY <1>1 DEF ClientSide
      <4>2. t \in Threads
        BY <4>1, NumConnsNat DEF Threads
      <4> QED
        BY <1>1, <4>2, ClientFacts
    <3>2. PICK n : n = Done(t)
      OBVIOUS
    <3>3. \A k \in Conns : k[1] = t /\ k[2] <= n => d[k] = e[k]
      BY <1>5, <2>1, <3>2 DEF Counting
    <3>4. SumsOf(t, d)[n] = SumsOf(t, e)[n]
      BY <1>5, <3>1, <3>2, <3>3, ThreadSumsAgree
    <3>5. thread[t].retVal = SumsOf(t, d)[n]
      BY <1>4, <2>1, <3>2 DEF Counting
    <3>6. SumsOf(t, Dues)' = SumsOf(t, e)
      BY <1>4 DEF SumsOf
    <3> QED
      BY <1>1, <2>2, <3>1, <3>2, <3>4, <3>5, <3>6
  <2>7. total' = SumsOfAll(Dues)'[joined']
    <3>1. joined \in 0 .. numThreads /\ numThreads \in Threads /\ joined \in 0 .. NumConns
      BY <1>1, NumConnsNat DEF ClientSide, Threads
    <3>2. ASSUME NEW k \in Conns, k[1] <= joined PROVE d[k] = e[k]
      <4>1. k[1] \in Threads /\ k[1] \in Nat /\ 1 <= k[1] /\ k[2] \in Nat
        BY PairFacts DEF Threads
      <4>2. thread[k[1]].at = "returned"
        BY <2>1, <3>1, <3>2, <4>1 DEF Counting
      <4>3. Done(k[1]) = thread[k[1]].n /\ thread[k[1]].n \in Nat
        BY <1>1, <4>1, <4>2, ClientFacts DEF Done
      <4>4. CASE k[2] <= Done(k[1])
        BY <1>5, <2>1, <4>4 DEF Counting
      <4>5. CASE k[2] > thread[k[1]].n
        <5>1. conn[k].client = "none"
          BY <1>1, <1>6, <4>5 DEF Ahead
        <5> QED
          BY <1>5, <5>1 DEF Settled
      <4> QED
        BY <4>1, <4>3, <4>4, <4>5
    <3>3. SumsOfAll(d)[joined] = SumsOfAll(e)[joined]
      BY <1>5, <3>1, <3>2, AllSumsAgree
    <3>4. total = SumsOfAll(d)[joined]
      BY <1>4, <2>1 DEF Counting
    <3>5. SumsOfAll(Dues)' = SumsOfAll(e)
      BY <1>4
    <3> QED
      BY <1>1, <3>3, <3>4, <3>5
  <2> QED
    BY <1>1, <2>3, <2>4, <2>5, <2>6, <2>7 DEF Counting
<1>7. ASSUME exit = "SUCCESS" PROVE TotalIsWhatWasSent' /\ \A k \in Conns : Settled(k)'
  <2>1. total = SumsOfAll(Dues)[NumConns] /\ \A k \in Conns : Settled(k)
    BY <1>7 DEF CountInv, TotalIsWhatWasSent
  <2>2. \A k \in Conns : d[k] = e[k]
    BY <1>5, <2>1
  <2>3. d = e
    BY <1>5, <2>2
  <2>4. total' = SumsOfAll(Dues)'[NumConns]
    BY <1>1, <1>4, <2>1, <2>3
  <2> QED
    BY <1>2, <2>1, <2>4 DEF TotalIsWhatWasSent
<1>8. \A k \in Conns : k[1] > numThreads' => conn'[k].client = "none"
  BY <1>1, <1>2 DEF CountInv
<1> QED
  BY <1>1, <1>2, <1>3, <1>6, <1>7, <1>8 DEF CountInv

----------------------------------------------------------------------------
\* What the client does on one connection.
LEMMA AccessCounts ==
    ASSUME Streams, CountInv, exit = "no", exit' = exit, NEW t \in Threads,
           thread[t].at # "returned", UNCHANGED <<params, joined, total, sent, due>>,
           NEW k, k = Current(t),
           NEW c, c.server = conn[k].server, c.client # "none", conn' = [conn EXCEPT ![k] = c],
           NEW r, r \in ThreadType, thread' = [thread EXCEPT ![t] = r],
           Underway(t)',
           \/ Done(t)' = Done(t) /\ r.retVal = thread[t].retVal
           \/ /\ Done(t)' = Done(t) + 1 /\ k[2] = Done(t) + 1
              /\ r.retVal = thread[t].retVal + Due(k)
              /\ Settled(k)'
    PROVE  CountInv'
<1>1. /\ ClientSide /\ Ahead /\ Counting /\ conn \in [Conns -> ConnType]
      /\ sent \in [Conns -> Seq(Pieces)] /\ due \in [Conns -> Nat]
      /\ UNCHANGED <<numThreads, accesses, picks, joined, total>>
  BY DEF Streams, CountInv, params
<1>2. /\ k \in Conns /\ k[1] = t /\ k[2] = thread[t].n /\ t \in 1 .. numThreads
      /\ Done(t) \in 0 .. NumConns /\ Done(t) = thread[t].n - 1 /\ thread[t].n \in Nat
  BY <1>1, ClientFacts DEF Done
<1>3. /\ conn'[k] = c /\ \A j \in Conns : j # k => conn'[j] = conn[j]
      /\ \A j \in Conns : conn'[j].server = conn[j].server
  BY <1>1, <1>2
<1>4. /\ thread'[t] = r /\ \A s \in Threads : s # t => thread'[s] = thread[s]
  BY <1>1 DEF ClientSide
<1>5. \A j \in Conns : Due(j)' = Due(j)
  BY DEF Due
<1>6. Dues' = Dues /\ Dues \in [Conns -> Nat] /\ \A j \in Conns : Dues[j] = Due(j)
  <2>1. Dues' = Dues
    BY <1>5 DEF Dues
  <2> QED
    BY <1>1, <2>1, DueFacts
<1>7. \A j \in Conns : Blank(j)'
  BY <1>3 DEF CountInv, Blank
<1>8. \A j \in Conns : j[1] > numThreads' => conn'[j].client = "none"
  <2>1. ~ (k[1] > numThreads)
    BY <1>1, <1>2 DEF ClientSide, Threads
  <2> QED
    BY <1>1, <1>3, <2>1 DEF CountInv
<1>9. \A s \in Threads : s # t => Done(s)' = Done(s) /\ Current(s)' = Current(s)
  BY <1>4 DEF Done, Current
<1>10. ASSUME NEW s \in Threads PROVE Underway(s)'
  <2>1. CASE s = t
    BY <2>1
  <2>2. CASE s # t
    <3>1. Current(s)[1] = s /\ thread'[s] = thread[s] /\ Current(s)' = Current(s) /\ Underway(s)
          /\ (thread[s].at # "returned" => Current(s) \in Conns)
      BY <1>1, <1>4, <1>9, <2>2, ClientFacts DEF Counting
    <3>2. PICK j : j = Current(s)
      OBVIOUS
    <3>3. j # k
      BY <1>2, <2>2, <3>1, <3>2
    <3>4. /\ thread[s].at # "returned" => conn'[j] = conn[j]
          /\ sent'[j] = sent[j] /\ Due(j)' = Due(j)
      BY <1>3, <3>1, <3>2, <3>3 DEF Due
    <3>5. thread[s].at \in {"send", "header", "body"} => thread[s].at # "returned"
      OBVIOUS
    <3> QED
      BY <3>1, <3>2, <3>4, <3>5 DEF Underway
  <2> QED
    BY <2>1, <2>2
<1>11. ASSUME NEW j \in Conns, j[2] <= Done(j[1])' PROVE Settled(j)'
  <2>1. j[1] \in Threads /\ j[2] \in Nat /\ (j[1] = k[1] /\ j[2] = k[2] => j = k)
    BY <1>2, PairFacts
  <2>2. CASE j # k
    <3>1. Settled(j)' <=> Settled(j)
      BY <1>3, <2>2 DEF Settled
    <3>2. CASE j[1] # t
      BY <1>1, <1>9, <1>11, <2>1, <3>1, <3>2 DEF Counting
    <3>3. CASE j[1] = t
      <4>1. j[2] # k[2]
        BY <1>2, <2>1, <2>2, <3>3
      <4>2. j[2] <= Done(t)
        BY <1>2, <1>11, <2>1, <3>3, <4>1
      <4> QED
        BY <1>1, <3>1, <3>3, <4>2 DEF Counting
    <3> QED
      BY <3>2, <3>3
  <2>3. CASE j = k
    <3>1. ~ (k[2] <= Done(t))
      BY <1>2
    <3> QED
      BY <1>2, <1>11, <2>3, <3>1
  <2> QED
    BY <2>2, <2>3
<1>12. \A s \in 1 .. joined' : thread'[s].at = "returned"
  <2>1. \A s \in 1 .. joined : thread[s].at = "returned" /\ s \in Threads
    BY <1>1, NumConnsNat DEF Counting, ClientSide, Threads
  <2> QED
    BY <1>1, <1>4, <2>1
<1>13. ASSUME NEW s \in 1 .. numThreads
       PROVE  thread'[s].retVal = SumsOf(s, Dues)'[Done(s)']
  <2>1. s \in Threads /\ thread[s].retVal = SumsOf(s, Dues)[Done(s)]
    BY <1>1, NumConnsNat DEF Counting, ClientSide, Threads
  <2>2. SumsOf(s, Dues)' = SumsOf(s, Dues)
    BY <1>6
  <2>3. CASE s # t
    BY <1>4, <1>9, <2>1, <2>2, <2>3
  <2>4. CASE s = t /\ Done(t)' = Done(t) /\ r.retVal = thread[t].retVal
    BY <1>4, <2>1, <2>2, <2>4
  <2>5. CASE /\ s = t /\ Done(t)' = Done(t) + 1 /\ k[2] = Done(t) + 1
             /\ r.retVal = thread[t].retVal + Due(k)
    <3>1. SumsOf(t, Dues)[k[2]] = SumsOf(t, Dues)[k[2] - 1] + Dues[k]
      BY <1>2, <1>6, ThreadSums
    <3>2. k[2] - 1 = Done(t) /\ Done(t)' = k[2]
      BY <1>2, <2>5
    <3> QED
      BY <1>2, <1>4, <1>6, <2>1, <2>2, <2>5, <3>1, <3>2
  <2> QED
    BY <2>3, <2>4, <2>5
<1>14. total' = SumsOfAll(Dues)'[joined']
  BY <1>1, <1>6 DEF Counting
<1>15. Counting'
  BY <1>1, <1>10, <1>11, <1>12, <1>13, <1>14 DEF Counting
<1> QED
  BY <1>1, <1>7, <1>8, <1>15 DEF CountInv

\* What is known of the access that is under way, before and after a step.
LEMMA AccessFacts ==
    ASSUME Streams, CountInv, exit = "no", NEW t \in Threads, thread[t].at # "returned",
           NEW k, k = Current(t), NEW q, q = thread[t]
    PROVE  /\ q \in ThreadType /\ k \in Conns /\ conn[k] \in ConnType /\ conn \in [Conns -> ConnType]
           /\ sent[k] \in Seq(Pieces) /\ conn[k].down \in Seq(Pieces) /\ due[k] \in Nat
           /\ q.n \in Nat \ {0} /\ q.n \in 1 .. accesses /\ q.bLen \in Int /\ q.bodyLen \in Nat /\ q.retVal \in Nat
           /\ k[2] = q.n /\ Done(t) = q.n - 1
           /\ Blank(k) /\ Due(k) \in Nat
           /\ sent[k] = <<>> => Due(k) = due[k]
           /\ sent[k] # <<>> => Due(k) = Worth(sent[k]) /\ conn[k].server = "open"
           /\ q.at = "socket" => conn[k].client = "none" /\ conn[k].server = "none"
           /\ q.at # "socket" => conn[k].client = "open"
           /\ q.at \in {"send", "header"} =>
                /\ Due(k) = Worth(conn[k].down)
                /\ conn[k].server = "shut" \/ sent[k] = conn[k].down
           /\ q.at = "body" =>
                /\ Due(k) = Counted(q.bLen, q.bodyLen + Len(conn[k].down))
                /\ q.bodyLen = 0 \/ q.bodyLen <= q.bLen
                /\ \/ conn[k].server = "shut"
                   \/ /\ sent[k] # <<>> /\ BodyLength(Head(sent[k])) = q.bLen
                      /\ Len(sent[k]) = 1 + q.bodyLen + Len(conn[k].down)
<1>1. /\ ClientSide /\ Ahead /\ Counting /\ conn \in [Conns -> ConnType]
      /\ sent \in [Conns -> Seq(Pieces)] /\ due \in [Conns -> Nat]
      /\ \A j \in Conns : sent[j] # <<>> => conn[j].server = "open"
      /\ \A j \in Conns : Blank(j)
  BY DEF Streams, CountInv
<1>2. /\ q \in ThreadType /\ k \in Conns /\ k[1] = t /\ k[2] = q.n /\ q.n \in Nat \ {0}
      /\ q.n \in 1 .. accesses /\ q.bLen \in {-1} \cup Nat /\ q.bodyLen \in Nat /\ q.retVal \in Nat
      /\ q.at \in {"socket", "send", "header", "body", "returned"}
      /\ Done(t) = q.n - 1
  BY <1>1, ClientFacts DEF Done
<1>3. q.bLen \in Int
  BY <1>2
<1>4. /\ conn[k] \in ConnType /\ conn[k].down \in Seq(Pieces)
      /\ Due(k) \in Nat
      /\ sent[k] = <<>> => Due(k) = due[k]
      /\ sent[k] # <<>> => Due(k) = Worth(sent[k])
  BY <1>1, <1>2, DueFacts DEF ConnType
<1>5. q.at = "socket" => conn[k].client = "none" /\ conn[k].server = "none"
  BY <1>1, <1>2 DEF Ahead
<1>6. Underway(t)
  BY <1>1 DEF Counting
<1>7. q.at # "socket" => conn[k].client = "open"
  BY <1>2, <1>6 DEF Underway
<1> QED
  BY <1>1, <1>2, <1>3, <1>4, <1>5, <1>6, <1>7 DEF Underway

\* The same after the step.
Underway2(k, r, c) ==
    /\ r.at \in {"send", "header", "body"} => c.client = "open"
    /\ r.at \in {"send", "header"} =>
         /\ Due(k) = Worth(c.down)
         /\ c.server = "shut" \/ sent[k] = c.down
    /\ r.at = "body" =>
         /\ Due(k) = Counted(r.bLen, r.bodyLen + Len(c.down))
         /\ r.bodyLen = 0 \/ r.bodyLen <= r.bLen
         /\ \/ c.server = "shut"
            \/ /\ sent[k] # <<>> /\ BodyLength(Head(sent[k])) = r.bLen
               /\ Len(sent[k]) = 1 + r.bodyLen + Len(c.down)

\* A step within an access.
LEMMA WithinAccess ==
    ASSUME Streams, CountInv, exit = "no", exit' = exit, NEW t \in Threads,
           thread[t].at # "returned", UNCHANGED <<params, joined, total, sent, due>>,
           NEW k, k = Current(t),
           NEW c, c.server = conn[k].server, c.client # "none", conn' = [conn EXCEPT ![k] = c],
           NEW r, r \in ThreadType, thread' = [thread EXCEPT ![t] = r],
           r.n = thread[t].n, r.at # "returned", r.retVal = thread[t].retVal,
           Underway2(k, r, c)
    PROVE  CountInv'
<1>1. /\ k \in Conns /\ conn \in [Conns -> ConnType] /\ thread \in [Threads -> ThreadType]
      /\ Done(t) = thread[t].n - 1
  BY AccessFacts DEF Streams, ClientSide
<1>2. conn'[k] = c /\ thread'[t] = r
  BY <1>1
<1>3. Current(t)' = k /\ Done(t)' = Done(t)
  BY <1>1, <1>2 DEF Current, Done
<1>4. sent'[k] = sent[k] /\ Due(k)' = Due(k)
  BY DEF Due
<1>5. Underway(t)'
  BY <1>2, <1>3, <1>4 DEF Underway, Underway2
<1> QED
  BY <1>3, <1>5, AccessCounts

LEMMA OpenConnectionCounts ==
    ASSUME Streams, CountInv, exit = "no", NEW t \in Threads, UNCHANGED <<sent, due>>,
           thread[t].at = "socket", UNCHANGED <<params, joined, total, exit>>,
           conn' = [conn EXCEPT ![Current(t)].client = "open",
                                ![Current(t)].file = picks[thread[t].n]],
           thread' = [thread EXCEPT ![t].at = "send"]
    PROVE  CountInv'
<1>1. PICK k, q : k = Current(t) /\ q = thread[t]
  OBVIOUS
<1>2. /\ q \in ThreadType /\ k \in Conns /\ conn[k] \in ConnType /\ conn \in [Conns -> ConnType]
      /\ Blank(k) /\ conn[k].client = "none" /\ conn[k].server = "none"
      /\ sent[k] = <<>> => Due(k) = due[k]
  BY <1>1, AccessFacts
<1>3. sent[k] = <<>> /\ conn[k].down = <<>> /\ Due(k) = 0
  BY <1>2 DEF Blank
<1> DEFINE c1 == [conn[k] EXCEPT !.client = "open"]
           c2 == [c1 EXCEPT !.file = picks[q.n]]
           r1 == [q EXCEPT !.at = "send"]
<1>4. c1.client = "open" /\ c1.server = conn[k].server /\ c1.down = conn[k].down
      /\ DOMAIN c1 = DOMAIN conn[k]
  BY <1>2 DEF ConnType
<1>5. conn' = [conn EXCEPT ![k] = c2] /\ thread' = [thread EXCEPT ![t] = r1]
  BY <1>1, <1>2
<1> HIDE DEF c1
<1>6. PICK c : c = c2
  OBVIOUS
<1>7. c.client = "open" /\ c.server = conn[k].server /\ c.down = conn[k].down
  BY <1>4, <1>6
<1>8. PICK r : r = r1
  OBVIOUS
<1>9. r \in ThreadType /\ r.at = "send" /\ r.n = q.n /\ r.retVal = q.retVal
  BY <1>2, <1>8 DEF ThreadType
<1>10. Worth(c.down) = 0
  BY <1>3, <1>7 DEF Worth
<1>11. Underway2(k, r, c)
  BY <1>3, <1>7, <1>9, <1>10 DEF Underway2
<1> HIDE DEF c2, r1
<1>12. c.client # "none" /\ r.at # "returned" /\ thread[t].at # "returned"
  BY <1>7, <1>9
<1> QED
  BY <1>1, <1>5, <1>6, <1>7, <1>8, <1>9, <1>11, <1>12, WithinAccess

LEMMA SendRequestCounts ==
    ASSUME Streams, CountInv, exit = "no", NEW t \in Threads, UNCHANGED <<sent, due>>,
           thread[t].at = "send", UNCHANGED <<params, joined, total, exit>>,
           conn' = [conn EXCEPT ![Current(t)].up = Whole],
           thread' = [thread EXCEPT ![t].at = "header"]
    PROVE  CountInv'
<1>1. PICK k, q : k = Current(t) /\ q = thread[t]
  OBVIOUS
<1>2. /\ q \in ThreadType /\ k \in Conns /\ conn[k] \in ConnType /\ conn \in [Conns -> ConnType]
      /\ conn[k].client = "open" /\ Due(k) = Worth(conn[k].down)
      /\ conn[k].server = "shut" \/ sent[k] = conn[k].down
  BY <1>1, AccessFacts
<1> DEFINE c1 == [conn[k] EXCEPT !.up = Whole]
           r1 == [q EXCEPT !.at = "header"]
<1>3. conn' = [conn EXCEPT ![k] = c1] /\ thread' = [thread EXCEPT ![t] = r1]
  BY <1>1, <1>2
<1>4. PICK c : c = c1
  OBVIOUS
<1>5. c.client = "open" /\ c.server = conn[k].server /\ c.down = conn[k].down
  BY <1>2, <1>4 DEF ConnType
<1>6. PICK r : r = r1
  OBVIOUS
<1>7. r \in ThreadType /\ r.at = "header" /\ r.n = q.n /\ r.retVal = q.retVal
  BY <1>2, <1>6 DEF ThreadType
<1>8. Underway2(k, r, c)
  BY <1>2, <1>5, <1>7 DEF Underway2
<1> HIDE DEF c1, r1
<1>9. c.client # "none" /\ r.at # "returned" /\ thread[t].at # "returned"
  BY <1>5, <1>7
<1> QED
  BY <1>1, <1>3, <1>4, <1>5, <1>6, <1>7, <1>8, <1>9, WithinAccess

LEMMA RecvHeaderCounts ==
    ASSUME Streams, CountInv, exit = "no", NEW t \in Threads, UNCHANGED <<sent, due>>,
           RecvHeader(t)
    PROVE  CountInv'
<1>1. PICK k, q : k = Current(t) /\ q = thread[t]
  OBVIOUS
<1>2. /\ q.at = "header" /\ UNCHANGED <<params, joined, total, exit>> /\ thread[t].at # "returned"
  BY <1>1 DEF RecvHeader
<1>3. /\ q \in ThreadType /\ k \in Conns /\ conn[k] \in ConnType /\ conn \in [Conns -> ConnType]
      /\ conn[k].client = "open" /\ Due(k) = Worth(conn[k].down)
      /\ conn[k].server = "shut" \/ sent[k] = conn[k].down
      /\ conn[k].down \in Seq(Pieces)
  BY <1>1, <1>2, AccessFacts
<1>4. ASSUME NEW b \in {-1} \cup Nat, Expect(t, b), NEW c, conn' = [conn EXCEPT ![k] = c],
             c.client = "open", c.server = conn[k].server,
             Due(k) = Counted(b, 0 + Len(c.down)),
             \/ c.server = "shut"
             \/ /\ sent[k] # <<>> /\ BodyLength(Head(sent[k])) = b
                /\ Len(sent[k]) = 1 + 0 + Len(c.down)
      PROVE  CountInv'
  <2> DEFINE q1 == [q EXCEPT !.at = "body"]
             q2 == [q1 EXCEPT !.bLen = b]
             r1 == [q2 EXCEPT !.bodyLen = 0]
  <2>1. q1 \in ThreadType /\ q1.at = "body" /\ q1.n = q.n /\ q1.retVal = q.retVal
    BY <1>3 DEF ThreadType
  <2>2. thread' = [thread EXCEPT ![t] = r1]
    BY <1>1, <1>4 DEF Expect
  <2> HIDE DEF q1
  <2>3. q2 \in ThreadType /\ q2.at = "body" /\ q2.n = q.n /\ q2.retVal = q.retVal /\ q2.bLen = b
    BY <2>1 DEF ThreadType
  <2> HIDE DEF q2
  <2>4. PICK r : r = r1
    OBVIOUS
  <2>5. r \in ThreadType /\ r.at = "body" /\ r.n = q.n /\ r.retVal = q.retVal /\ r.bLen = b
        /\ r.bodyLen = 0
    BY <2>3, <2>4 DEF ThreadType
  <2> HIDE DEF r1
  <2>6. Underway2(k, r, c)
    BY <1>4, <2>5 DEF Underway2
  <2>7. c.client # "none" /\ r.at # "returned"
    BY <1>4, <2>5
  <2> QED
    BY <1>1, <1>2, <1>4, <2>2, <2>4, <2>5, <2>6, <2>7, WithinAccess
<1>5. CASE /\ conn[k].down # <<>> /\ Expect(t, BodyLength(Head(conn[k].down)))
           /\ conn' = [conn EXCEPT ![k].down = Tail(@)]
  <2>1. PICK s : s = conn[k].down
    OBVIOUS
  <2>2. PICK b : b = BodyLength(Head(s))
    OBVIOUS
  <2> DEFINE c1 == [conn[k] EXCEPT !.down = Tail(s)]
  <2>3. PICK c : c = c1
    OBVIOUS
  <2>4. conn' = [conn EXCEPT ![k] = c]
    BY <1>3, <1>5, <2>1, <2>3
  <2>5. c.client = conn[k].client /\ c.server = conn[k].server /\ c.down = Tail(s)
    BY <1>3, <2>3 DEF ConnType
  <2> HIDE DEF c1
  <2>6. /\ s \in Seq(Pieces) /\ s # <<>> /\ b \in {-1} \cup Nat
        /\ Worth(s) = Counted(b, Len(s) - 1)
    BY <1>3, <1>5, <2>1, <2>2, WorthFacts
  <2>7. Len(s) \in Nat /\ Len(Tail(s)) = Len(s) - 1 /\ Len(Tail(s)) \in Nat
    BY <2>6
  <2>8. 0 + Len(c.down) = Len(s) - 1 /\ Len(s) = 1 + 0 + Len(c.down)
    BY <2>5, <2>7
  <2>9. Expect(t, b)
    BY <1>5, <2>1, <2>2
  <2> QED
    BY <1>3, <1>4, <2>1, <2>2, <2>4, <2>5, <2>6, <2>8, <2>9
<1>6. CASE Ended(k) /\ Expect(t, 0) /\ UNCHANGED conn
  <2>1. conn[k].down = <<>> /\ conn[k].server = "shut" /\ conn' = [conn EXCEPT ![k] = conn[k]]
    BY <1>3, <1>6 DEF Ended
  <2>2. Len(conn[k].down) = 0 /\ Worth(conn[k].down) = 0 /\ Counted(0, 0) = 0 /\ 0 + 0 = 0
    BY <2>1 DEF Worth, Counted
  <2>3. Due(k) = Counted(0, 0 + Len(conn[k].down))
    BY <1>3, <2>2
  <2> QED
    BY <1>3, <1>4, <1>6, <2>1, <2>3
<1> QED
  BY <1>1, <1>5, <1>6 DEF RecvHeader

LEMMA RecvBodyCounts ==
    ASSUME Streams, CountInv, exit = "no", NEW t \in Threads, UNCHANGED <<sent, due>>,
           thread[t].at = "body", thread[t].bodyLen < thread[t].bLen,
           UNCHANGED <<params, joined, total, exit>>, conn[Current(t)].down # <<>>,
           conn' = [conn EXCEPT ![Current(t)].down = Tail(@)],
           thread' = [thread EXCEPT ![t].bodyLen = @ + 1]
    PROVE  CountInv'
<1>1. PICK k, q : k = Current(t) /\ q = thread[t]
  OBVIOUS
<1>2. /\ q \in ThreadType /\ k \in Conns /\ conn[k] \in ConnType /\ conn \in [Conns -> ConnType]
      /\ q.bLen \in Int /\ q.bodyLen \in Nat
      /\ conn[k].client = "open" /\ conn[k].down \in Seq(Pieces)
      /\ Due(k) = Counted(q.bLen, q.bodyLen + Len(conn[k].down))
      /\ \/ conn[k].server = "shut"
         \/ /\ sent[k] # <<>> /\ BodyLength(Head(sent[k])) = q.bLen
            /\ Len(sent[k]) = 1 + q.bodyLen + Len(conn[k].down)
      /\ q.bodyLen < q.bLen
  <2>1. q.at = "body" /\ q.bodyLen < q.bLen /\ thread[t].at # "returned"
    BY <1>1
  <2>2. /\ q \in ThreadType /\ k \in Conns /\ conn[k] \in ConnType /\ conn \in [Conns -> ConnType]
        /\ q.bLen \in Int /\ q.bodyLen \in Nat
        /\ conn[k].down \in Seq(Pieces)
    BY <1>1, <2>1, AccessFacts
  <2>3. conn[k].client = "open"
    BY <1>1, <2>1, AccessFacts
  <2>4. /\ Due(k) = Counted(q.bLen, q.bodyLen + Len(conn[k].down))
        /\ \/ conn[k].server = "shut"
           \/ /\ sent[k] # <<>> /\ BodyLength(Head(sent[k])) = q.bLen
              /\ Len(sent[k]) = 1 + q.bodyLen + Len(conn[k].down)
    BY <1>1, <2>1, AccessFacts
  <2> QED
    BY <2>1, <2>2, <2>3, <2>4
<1>3. PICK s, i, b : s = conn[k].down /\ i = q.bodyLen /\ b = q.bLen
  OBVIOUS
<1> DEFINE c1 == [conn[k] EXCEPT !.down = Tail(s)]
           r1 == [q EXCEPT !.bodyLen = i + 1]
<1>4. PICK c : c = c1
  OBVIOUS
<1>5. conn' = [conn EXCEPT ![k] = c] /\ thread' = [thread EXCEPT ![t] = r1]
  BY <1>1, <1>2, <1>3, <1>4
<1>6. c.client = "open" /\ c.server = conn[k].server /\ c.down = Tail(s)
  BY <1>2, <1>4 DEF ConnType
<1> HIDE DEF c1
<1>7. PICK r : r = r1
  OBVIOUS
<1>8. i \in Nat /\ b \in Int /\ i < b /\ i + 1 \in Nat
  BY <1>2, <1>3
<1>9. /\ r \in ThreadType /\ r.at = "body" /\ r.n = q.n /\ r.retVal = q.retVal /\ r.bLen = b
      /\ r.bodyLen = i + 1
  BY <1>1, <1>2, <1>3, <1>7, <1>8 DEF ThreadType
<1> HIDE DEF r1
<1>10. PICK x, y : x = Len(s) /\ y = Len(Tail(s))
  OBVIOUS
<1>11. x \in Nat /\ y \in Nat /\ y = x - 1
  BY <1>1, <1>2, <1>3, <1>10
<1>12. i + 1 + y = i + x /\ 1 + (i + 1) + y = 1 + i + x /\ i + 1 <= b
  BY ONLY <1>8, <1>11
<1>13. Underway2(k, r, c)
  <2>1. Len(c.down) = y /\ Len(conn[k].down) = x
    BY <1>3, <1>6, <1>10
  <2>2. Due(k) = Counted(r.bLen, r.bodyLen + Len(c.down))
    BY <1>2, <1>3, <1>9, <1>12, <2>1
  <2>3. r.bodyLen <= r.bLen
    BY <1>9, <1>12
  <2>4. \/ c.server = "shut"
        \/ /\ sent[k] # <<>> /\ BodyLength(Head(sent[k])) = r.bLen
           /\ Len(sent[k]) = 1 + r.bodyLen + Len(c.down)
    BY <1>2, <1>3, <1>6, <1>9, <1>12, <2>1
  <2> QED
    BY <1>6, <1>9, <2>2, <2>3, <2>4 DEF Underway2
<1>14. c.client # "none" /\ r.at # "returned" /\ thread[t].at # "returned"
  BY <1>6, <1>9
<1> QED
  BY <1>1, <1>5, <1>6, <1>7, <1>9, <1>13, <1>14, WithinAccess

LEMMA EndAccessCounts ==
    ASSUME Streams, CountInv, exit = "no", NEW t \in Threads, UNCHANGED <<sent, due>>,
           EndAccess(t)
    PROVE  CountInv'
<1>1. PICK k, q : k = Current(t) /\ q = thread[t]
  OBVIOUS
<1>2. /\ q.at = "body" /\ thread[t].at # "returned" /\ UNCHANGED <<params, joined, total, exit>>
      /\ q.bodyLen >= q.bLen \/ Ended(k)
  BY <1>1 DEF EndAccess
<1>3. /\ q \in ThreadType /\ k \in Conns /\ conn[k] \in ConnType /\ conn \in [Conns -> ConnType]
      /\ q.n \in Nat \ {0} /\ q.n \in 1 .. accesses
      /\ q.bLen \in Int /\ q.bodyLen \in Nat /\ q.retVal \in Nat
      /\ k[2] = q.n /\ Done(t) = q.n - 1
      /\ conn[k].client = "open" /\ conn[k].down \in Seq(Pieces)
      /\ Due(k) = Counted(q.bLen, q.bodyLen + Len(conn[k].down))
      /\ q.bodyLen = 0 \/ q.bodyLen <= q.bLen
      /\ \/ conn[k].server = "shut"
         \/ /\ sent[k] # <<>> /\ BodyLength(Head(sent[k])) = q.bLen
            /\ Len(sent[k]) = 1 + q.bodyLen + Len(conn[k].down)
  <2>1. q.at = "body" /\ thread[t].at # "returned"
    BY <1>2
  <2>2. /\ q \in ThreadType /\ k \in Conns /\ conn[k] \in ConnType /\ conn \in [Conns -> ConnType]
        /\ q.n \in Nat \ {0} /\ q.n \in 1 .. accesses
        /\ q.bLen \in Int /\ q.bodyLen \in Nat /\ q.retVal \in Nat
        /\ k[2] = q.n /\ Done(t) = q.n - 1
        /\ conn[k].down \in Seq(Pieces)
    BY <1>1, <2>1, AccessFacts
  <2>3. conn[k].client = "open"
    BY <1>1, <2>1, AccessFacts
  <2>4. /\ Due(k) = Counted(q.bLen, q.bodyLen + Len(conn[k].down))
        /\ q.bodyLen = 0 \/ q.bodyLen <= q.bLen
        /\ \/ conn[k].server = "shut"
           \/ /\ sent[k] # <<>> /\ BodyLength(Head(sent[k])) = q.bLen
              /\ Len(sent[k]) = 1 + q.bodyLen + Len(conn[k].down)
    BY <1>1, <2>1, AccessFacts
  <2> QED
    BY <2>2, <2>3, <2>4
<1>4. PICK s, i, b, x : s = conn[k].down /\ i = q.bodyLen /\ b = q.bLen /\ x = Len(s)
  OBVIOUS
<1>5. i \in Nat /\ b \in Int /\ x \in Nat /\ (i = 0 \/ i <= b)
  BY <1>3, <1>4
<1>6. i >= b \/ (x = 0 /\ conn[k].server = "shut")
  <2>1. Ended(k) => s = <<>> /\ conn[k].server = "shut"
    BY <1>4 DEF Ended
  <2>2. s = <<>> => x = 0
    BY <1>4
  <2> QED
    BY <1>2, <1>4, <2>1, <2>2
<1>7. Due(k) = i
  <2>1. Counted(b, i + x) = i
    BY <1>5, <1>6, CountedDone
  <2> QED
    BY <1>3, <1>4, <2>1
<1> DEFINE last == LastAccess(t)
           at == IF last THEN "returned" ELSE "socket"
           n  == IF last THEN q.n ELSE q.n + 1
           sum == q.retVal + i
           q1 == [q EXCEPT !.retVal = sum]
           q2 == [q1 EXCEPT !.bLen = 0]
           q3 == [q2 EXCEPT !.bodyLen = 0]
           q4 == [q3 EXCEPT !.n = n]
           r1 == [q4 EXCEPT !.at = at]
           d1 == [conn[k] EXCEPT !.client = "shut"]
           d2 == [d1 EXCEPT !.down = <<>>]
           c1 == IF last THEN d2 ELSE conn[k]
<1>8. thread' = [thread EXCEPT ![t] = r1]
  BY <1>1, <1>4 DEF EndAccess
<1>9. conn' = [conn EXCEPT ![k] = c1]
  <2>1. CASE last
    BY <1>1, <2>1 DEF EndAccess
  <2>2. CASE ~ last
    BY <1>1, <1>3, <2>2 DEF EndAccess
  <2> QED
    BY <2>1, <2>2
<1>10. c1.client # "none" /\ c1.server = conn[k].server
  <2>1. d1.client = "shut" /\ d1.server = conn[k].server /\ DOMAIN d1 = DOMAIN conn[k]
    BY <1>3 DEF ConnType
  <2> HIDE DEF d1
  <2>2. d2.client = "shut" /\ d2.server = conn[k].server
    BY <1>3, <2>1 DEF ConnType
  <2> HIDE DEF d2
  <2> QED
    BY <1>3, <2>2
<1> HIDE DEF c1
<1>11. /\ sum \in Nat /\ n \in 1 .. accesses /\ at \in {"socket", "returned"}
       /\ (at = "returned" => n = q.n) /\ (at = "socket" => n = q.n + 1)
       /\ n \in Nat
  <2>1. accesses \in Nat
    BY NumConnsNat DEF Streams, ClientSide, Threads
  <2>2. PICK m, v : m = q.n /\ v = q.retVal
    OBVIOUS
  <2>3. m \in Nat \ {0} /\ m \in 1 .. accesses /\ v \in Nat
    BY <1>3, <2>2
  <2>4. sum \in Nat
    <3>1. v + i \in Nat
      BY <1>5, <2>3
    <3> QED
      BY <2>2, <3>1
  <2>5. last <=> m = accesses
    BY <1>1, <2>2 DEF LastAccess
  <2>6. CASE last
    <3>1. n = m /\ at = "returned"
      BY <2>2, <2>6
    <3> QED
      BY <2>2, <2>3, <2>4, <3>1
  <2>7. CASE ~ last
    <3>1. n = m + 1 /\ at = "socket" /\ m # accesses
      BY <2>2, <2>5, <2>7
    <3>2. m + 1 \in 1 .. accesses /\ m + 1 \in Nat
      BY <2>1, <2>3, <3>1
    <3> QED
      BY <2>2, <2>4, <3>1, <3>2
  <2> QED
    BY <2>6, <2>7
<1> HIDE DEF sum, n, at
<1>12. r1 \in ThreadType /\ r1.at = at /\ r1.n = n /\ r1.retVal = sum
  <2>1. q1 \in ThreadType /\ q1.retVal = sum
    BY <1>3, <1>11 DEF ThreadType
  <2> HIDE DEF q1
  <2>2. q2 \in ThreadType /\ q2.retVal = sum
    BY <2>1 DEF ThreadType
  <2> HIDE DEF q2
  <2>3. q3 \in ThreadType /\ q3.retVal = sum
    BY <2>2 DEF ThreadType
  <2> HIDE DEF q3
  <2>4. q4 \in ThreadType /\ q4.n = n /\ q4.retVal = sum
    BY <1>11, <2>3 DEF ThreadType
  <2> HIDE DEF q4
  <2> QED
    BY <1>11, <2>4 DEF ThreadType
<1> HIDE DEF r1
<1>13. thread'[t] = r1 /\ conn'[k] = c1 /\ sent'[k] = sent[k]
  BY <1>3, <1>8, <1>9 DEF Streams, ClientSide
<1>14. Done(t)' = Done(t) + 1 /\ k[2] = Done(t) + 1
  <2>1. Done(t)' = q.n
    BY <1>3, <1>11, <1>12, <1>13 DEF Done
  <2> QED
    BY <1>3, <2>1
<1>15. Settled(k)'
  <2>1. CASE conn[k].server = "shut"
    BY <1>10, <1>13, <2>1 DEF Settled
  <2>2. CASE conn[k].server # "shut"
    <3>1. sent[k] # <<>> /\ BodyLength(Head(sent[k])) = b /\ Len(sent[k]) = 1 + i + x /\ i >= b
      BY <1>3, <1>4, <1>6, <2>2
    <3>2. PICK y : y = Len(sent[k])
      OBVIOUS
    <3>3. b <= y - 1
      BY <1>5, <3>1, <3>2
    <3> QED
      BY <1>13, <3>1, <3>2, <3>3 DEF Settled
  <2> QED
    BY <2>1, <2>2
<1>16. Underway(t)'
  BY <1>11, <1>12, <1>13 DEF Underway
<1>17. r1.retVal = thread[t].retVal + Due(k)
  BY <1>1, <1>7, <1>12 DEF sum
<1> QED
  BY <1>1, <1>2, <1>8, <1>9, <1>10, <1>12, <1>14, <1>15, <1>16, <1>17, AccessCounts

\* exit() leaves the accounts of the connections.
LEMMA ExitCounts ==
    ASSUME Streams, CountInv, UNCHANGED <<sent, due>>, UNCHANGED <<params, joined, total>>,
           NEW status \in Statuses \ {"no"}, NEW cs \in [Conns -> ConnType],
           \A k \in Conns : cs[k].server = conn[k].server /\ cs[k].client = conn[k].client
                              /\ cs[k].down = conn[k].down,
           EndProcess(status, cs),
           status = "SUCCESS" => total = SumsOfAll(Dues)[NumConns] /\ \A k \in Conns : Settled(k)
    PROVE  CountInv'
<1>1. PICK n \in NoRequest .. Whole :
        conn' = [k \in Conns |->
                    IF cs[k].client = "open"
                    THEN [cs[k] EXCEPT !.client = "shut", !.down = <<>>,
                                       !.up = IF @ > n THEN n ELSE @]
                    ELSE cs[k]]
  BY DEF EndProcess
<1>2. exit' = status /\ numThreads' = numThreads /\ total' = total
  BY DEF EndProcess, params
<1>3. ASSUME NEW k \in Conns
      PROVE  /\ conn'[k].server = conn[k].server
             /\ conn'[k].client = "none" <=> conn[k].client = "none"
             /\ conn[k].client = "none" => conn'[k].down = conn[k].down
  <2> DEFINE q1 == [cs[k] EXCEPT !.client = "shut"]
             q2 == [q1 EXCEPT !.down = <<>>]
             m  == IF q2.up > n THEN n ELSE q2.up
             q3 == [q2 EXCEPT !.up = m]
  <2>1. cs[k] \in ConnType
    OBVIOUS
  <2>2. q1.client = "shut" /\ q1.server = cs[k].server /\ DOMAIN q1 = DOMAIN cs[k] /\ q1.up = cs[k].up
    BY <2>1 DEF ConnType
  <2>3. DOMAIN cs[k] = {"client", "server", "file", "up", "down"}
    BY <2>1 DEF ConnType
  <2> HIDE DEF q1
  <2>4. q2.client = "shut" /\ q2.server = cs[k].server /\ DOMAIN q2 = DOMAIN q1
    BY <2>2, <2>3
  <2> HIDE DEF q2, m
  <2>5. q3.client = "shut" /\ q3.server = cs[k].server
    BY <2>2, <2>3, <2>4
  <2> HIDE DEF q3
  <2>6. CASE cs[k].client = "open"
    <3>1. conn'[k] = q3
      BY <1>1, <2>6 DEF q1, q2, q3, m
    <3> QED
      BY <2>5, <2>6, <3>1
  <2>7. CASE cs[k].client # "open"
    <3>1. conn'[k] = cs[k]
      BY <1>1, <2>7
    <3> QED
      BY <3>1
  <2> QED
    BY <2>6, <2>7
<1>4. \A k \in Conns : Blank(k)' /\ (Settled(k)' <=> Settled(k))
  BY <1>3 DEF CountInv, Blank, Settled
<1>5. Dues' = Dues
  BY DEF Dues, Due
<1>6. TotalIsWhatWasSent'
  BY <1>2, <1>5 DEF TotalIsWhatWasSent
<1> QED
  BY <1>2, <1>3, <1>4, <1>6 DEF CountInv

\* pthread_join() takes over what a thread has counted.
LEMMA JoinCounts ==
    ASSUME Streams, CountInv, exit = "no", UNCHANGED <<sent, due>>, JoinThread
    PROVE  CountInv'
<1>1. /\ joined < numThreads /\ thread[joined + 1].at = "returned"
      /\ total' = total + thread[joined + 1].retVal /\ joined' = joined + 1
      /\ UNCHANGED <<numThreads, accesses, thread, exit, conn>>
      /\ ClientSide /\ Ahead /\ Counting
  BY DEF JoinThread, NewTotal, Streams, CountInv, params
<1>2. /\ joined \in Nat /\ joined + 1 \in Threads /\ joined + 1 \in 1 .. numThreads
      /\ numThreads \in Nat
  BY <1>1, NumConnsNat DEF ClientSide, Threads
<1>3. PICK t : t = joined + 1
  OBVIOUS
<1>4. PICK n, d : n = Done(t) /\ d = Dues
  OBVIOUS
<1>5. n = thread[t].n /\ n \in 0 .. NumConns
  BY <1>1, <1>2, <1>3, <1>4, ClientFacts DEF Done
<1>6. d \in [Conns -> Nat] /\ \A k \in Conns : conn[k].client = "none" => d[k] = 0
  <2>1. ASSUME NEW k \in Conns, conn[k].client = "none" PROVE Due(k) = 0
    <3>1. sent[k] = <<>> /\ conn[k].server = "none"
      BY <1>1, <2>1 DEF CountInv, Blank, Ahead
    <3> QED
      BY <2>1, <3>1 DEF CountInv, Blank, Due
  <2> QED
    BY <1>4, <2>1, DueFacts DEF Streams, CountInv
<1>7. \A k \in Conns : k[1] = t /\ k[2] > n => d[k] = 0
  BY <1>1, <1>5, <1>6 DEF Ahead
<1>8. SumsOf(t, d)[NumConns] = SumsOf(t, d)[n]
  BY <1>2, <1>3, <1>5, <1>6, <1>7, ThreadSumsRest
<1>9. thread[t].retVal = SumsOf(t, d)[n]
  BY <1>1, <1>2, <1>3, <1>4 DEF Counting
<1>10. SumsOfAll(d)[t] = SumsOfAll(d)[t - 1] + SumsOf(t, d)[NumConns] /\ t - 1 = joined
  BY <1>2, <1>3, <1>6, AllSums
<1>11. Dues' = Dues
  BY <1>1 DEF Dues, Due
<1>12. total' = SumsOfAll(Dues)'[joined']
  <2>1. total = SumsOfAll(d)[joined]
    BY <1>1, <1>4 DEF Counting
  <2>2. total' = SumsOfAll(d)[t]
    BY <1>1, <1>3, <1>8, <1>9, <1>10, <2>1
  <2>3. SumsOfAll(Dues)' = SumsOfAll(d)
    BY <1>4, <1>11
  <2> QED
    BY <1>1, <1>3, <2>2, <2>3
<1>13. \A s \in 1 .. joined' : thread'[s].at = "returned"
  BY <1>1, <1>2 DEF Counting
<1>14. \A k \in Conns : (Settled(k)' <=> Settled(k)) /\ (Blank(k)' <=> Blank(k))
  BY <1>1 DEF Settled, Blank
<1>15. \A s \in Threads : Done(s)' = Done(s) /\ Underway(s)'
  BY <1>1 DEF Done, Underway, Counting, Current, Due
<1>16. \A s \in 1 .. numThreads : thread'[s].retVal = SumsOf(s, Dues)'[Done(s)']
  <2>1. \A s \in 1 .. numThreads : s \in Threads
    BY <1>1, NumConnsNat DEF ClientSide, Threads
  <2>2. \A s : SumsOf(s, Dues)' = SumsOf(s, Dues)
    BY <1>11
  <2> QED
    BY <1>1, <1>15, <2>1, <2>2 DEF Counting
<1>17. \A k \in Conns : k[2] <= Done(k[1])' => Settled(k)'
  BY <1>1, <1>14, <1>15, ConnsFacts DEF Counting
<1>18. Counting'
  BY <1>1, <1>12, <1>13, <1>15, <1>16, <1>17 DEF Counting
<1> QED
  BY <1>1, <1>14, <1>18 DEF CountInv

\* main() prints the sum when all threads are joined.
LEMMA FinishCounts ==
    ASSUME Streams, CountInv, exit = "no", UNCHANGED <<sent, due>>, Finish
    PROVE  CountInv'
<1>1. /\ joined = numThreads /\ EndProcess("SUCCESS", conn) /\ UNCHANGED <<params, joined, total>>
      /\ ClientSide /\ Ahead /\ Counting /\ conn \in [Conns -> ConnType]
  BY DEF Finish, Streams, CountInv
<1>2. PICK d : d = Dues
  OBVIOUS
<1>3. d \in [Conns -> Nat] /\ \A k \in Conns : conn[k].client = "none" => d[k] = 0
  <2>1. ASSUME NEW k \in Conns, conn[k].client = "none" PROVE Due(k) = 0
    <3>1. sent[k] = <<>> /\ conn[k].server = "none"
      BY <1>1, <2>1 DEF CountInv, Blank, Ahead
    <3> QED
      BY <2>1, <3>1 DEF CountInv, Blank, Due
  <2> QED
    BY <1>2, <2>1, DueFacts DEF Streams, CountInv
<1>4. numThreads \in 0 .. NumConns /\ numThreads \in Nat
  BY <1>1, NumConnsNat DEF ClientSide, Threads
<1>5. \A k \in Conns : k[1] > numThreads => d[k] = 0
  BY <1>3 DEF CountInv
<1>6. SumsOfAll(d)[NumConns] = SumsOfAll(d)[numThreads]
  BY <1>3, <1>4, <1>5, AllSumsRest
<1>7. total = SumsOfAll(Dues)[NumConns]
  BY <1>1, <1>2, <1>6 DEF Counting
<1>8. ASSUME NEW k \in Conns PROVE Settled(k)
  <2>1. k[1] \in Threads /\ k[1] \in Nat /\ 1 <= k[1] /\ k[2] \in Nat
    BY PairFacts DEF Threads
  <2>2. CASE k[1] > numThreads
    BY <2>2 DEF CountInv, Settled
  <2>3. CASE k[1] <= numThreads
    <3>1. thread[k[1]].at = "returned"
      BY <1>1, <1>4, <2>1, <2>3 DEF Counting
    <3>2. Done(k[1]) = thread[k[1]].n /\ thread[k[1]].n \in Nat
      BY <1>1, <2>1, <3>1, ClientFacts DEF Done
    <3>3. CASE k[2] <= Done(k[1])
      BY <1>1, <3>3 DEF Counting
    <3>4. CASE k[2] > thread[k[1]].n
      BY <1>1, <3>4 DEF Ahead, Settled
    <3> QED
      BY <2>1, <3>2, <3>3, <3>4
  <2> QED
    BY <1>4, <2>1, <2>2, <2>3
<1> QED
  BY <1>1, <1>7, <1>8, ExitCounts DEF Statuses

\* The accounts rest on the invariant of the sockets.
LEMMA StreamsFollow == SocketInv => Streams
<1>1. SUFFICES ASSUME SocketInv PROVE Streams
  OBVIOUS
<1>2. SocketTypeOK /\ Ahead /\ TableInv /\ AnswerInv
  BY <1>1 DEF SocketInv
<1>3. conn \in [Conns -> ConnType] /\ sent \in [Conns -> Seq(Pieces)] /\ ClientSide
  BY <1>2 DEF SocketTypeOK, ClientSide
<1>4. ASSUME NEW f, IsClient(f) PROVE fdt[f][2] \in Conns /\ conn[fdt[f][2]].server = "open"
  <2>1. fdt[f][2] \in Conns /\ f \in DOMAIN fdt
    BY <1>2, <1>4, TableFacts DEF IsClient, Open
  <2> QED
    BY <1>2, <1>4, <2>1 DEF TableInv
<1>5. ASSUME NEW k \in Conns, sent[k] # <<>> PROVE conn[k].server = "open"
  <2>1. PICK w \in Workers : HoldsClient(w) /\ fdt[worker[w].fd] = ToClient(k)
    BY <1>2, <1>5 DEF AnswerInv
  <2>2. IsClient(worker[w].fd)
    BY <1>2, <2>1 DEF TableInv, HoldingAt
  <2>3. fdt[worker[w].fd][2] = k
    BY <2>1, DescriptorFacts
  <2> QED
    BY <1>4, <2>2, <2>3
<1> QED
  BY <1>2, <1>3, <1>4, <1>5 DEF Streams

\* A step of the proxy that sends and closes nothing.
LEMMA QuietMoves ==
    ASSUME CountInv, UNCHANGED <<clientVars, conn, sent, due>>
    PROVE  ProxyMoves
<1>1. due \in [Conns -> Nat]
  BY DEF CountInv
<1>2. \A k \in Conns : Kept(k)
  BY DEF Kept
<1> QED
  BY <1>1, <1>2 DEF ProxyMoves

\* sendAll() to a client.
LEMMA PutMoves ==
    ASSUME SocketInv, CountInv, NEW f, NEW pieces \in Seq(Pieces), Put(f, pieces),
           UNCHANGED <<clientVars, due>>
    PROVE  ProxyMoves
<1>1. /\ due \in [Conns -> Nat] /\ Streams
      /\ conn \in [Conns -> ConnType] /\ sent \in [Conns -> Seq(Pieces)]
  BY StreamsFollow DEF CountInv, Streams
<1>2. CASE ~ IsClient(f)
  BY <1>2, QuietMoves DEF Put, Reaches
<1>3. CASE IsClient(f)
  <2>1. PICK k : k = fdt[f][2]
    OBVIOUS
  <2>2. k \in Conns /\ conn[k].server = "open"
    BY <1>1, <1>3, <2>1 DEF Streams
  <2>3. /\ conn' = IF conn[k].client = "open" THEN [conn EXCEPT ![k].down = @ \o pieces] ELSE conn
        /\ sent' = [sent EXCEPT ![k] = @ \o pieces]
    BY <1>3, <2>1 DEF Put, Reaches
  <2> DEFINE c == [conn[k] EXCEPT !.down = @ \o pieces]
  <2>4. c.client = conn[k].client /\ c.server = conn[k].server /\ c.down = conn[k].down \o pieces
    BY <1>1, <2>2 DEF ConnType
  <2>5. conn' = IF conn[k].client = "open" THEN [conn EXCEPT ![k] = c] ELSE conn
    BY <1>1, <2>2, <2>3
  <2> HIDE DEF c
  <2>6. Grown(k)
    BY <1>1, <2>2, <2>3, <2>4, <2>5 DEF Grown
  <2>7. ASSUME NEW j \in Conns, j # k PROVE Kept(j)
    BY <1>1, <2>2, <2>3, <2>5, <2>7 DEF Kept
  <2> QED
    BY <1>1, <2>6, <2>7 DEF ProxyMoves
<1> QED
  BY <1>2, <1>3

\* The end of the proxy closes all connections.
LEMMA DieMoves ==
    ASSUME SocketInv, CountInv, Die, UNCHANGED clientVars
    PROVE  ProxyMoves
<1>1. /\ due \in [Conns -> Nat] /\ Streams /\ conn \in [Conns -> ConnType]
      /\ \A k \in Conns : Blank(k)
  BY StreamsFollow DEF CountInv, Streams
<1>2. /\ conn' = [k \in Conns |-> IF conn[k].client = "none" THEN conn[k]
                                  ELSE [conn[k] EXCEPT !.server = "shut"]]
      /\ sent' = [k \in Conns |-> <<>>] /\ due' = [k \in Conns |-> Due(k)]
  BY DEF Die
<1>3. ASSUME NEW k \in Conns PROVE Kept(k) \/ Closed(k)
  <2>1. sent'[k] = <<>> /\ due'[k] = Due(k)
    BY <1>2
  <2>2. CASE conn[k].client = "none"
    <3>1. sent[k] = <<>> /\ Due(k) = due[k]
      BY <1>1, <2>2 DEF Blank, Due
    <3>2. conn'[k] = conn[k]
      BY <1>2, <2>2
    <3> QED
      BY <2>1, <3>1, <3>2 DEF Kept
  <2>3. CASE conn[k].client # "none"
    <3> DEFINE c == [conn[k] EXCEPT !.server = "shut"]
    <3>1. c.server = "shut" /\ c.client = conn[k].client /\ c.down = conn[k].down
      BY <1>1 DEF ConnType
    <3>2. conn'[k] = c
      BY <1>2, <2>3
    <3> HIDE DEF c
    <3> QED
      BY <2>1, <2>3, <3>1, <3>2 DEF Closed
  <2> QED
    BY <2>2, <2>3
<1>4. DOMAIN due' = Conns /\ due' = [k \in Conns |-> due'[k]]
  BY <1>2
<1> QED
  BY <1>3, <1>4 DEF ProxyMoves

\* accept().
LEMMA AcceptMoves ==
    ASSUME SocketInv, CountInv, ProxyMain
    PROVE  ProxyMoves
<1>1. UNCHANGED clientVars /\ due \in [Conns -> Nat] /\ conn \in [Conns -> ConnType]
  BY StreamsFollow DEF ProxyMain, CountInv, Streams
<1>2. CASE Die
  BY <1>1, <1>2, DieMoves
<1>3. CASE ~ Die
  <2>1. PICK k \in Conns : /\ conn[k].server = "none" /\ UNCHANGED <<sent, due>>
                           /\ conn' = [conn EXCEPT ![k].server = "open"]
    BY <1>3 DEF ProxyMain, Accept, process
  <2> DEFINE c == [conn[k] EXCEPT !.server = "open"]
  <2>2. c.server = "open" /\ c.client = conn[k].client /\ c.down = conn[k].down
    BY <1>1 DEF ConnType
  <2>3. conn' = [conn EXCEPT ![k] = c]
    BY <1>1, <2>1
  <2> HIDE DEF c
  <2>4. \A j \in Conns : Kept(j)
    BY <1>1, <2>1, <2>2, <2>3 DEF Kept
  <2> QED
    BY <1>1, <2>1, <2>4 DEF ProxyMoves
<1> QED
  BY <1>2, <1>3

\* The request is read.
LEMMA RecvRequestMoves ==
    ASSUME SocketInv, CountInv, NEW w, RecvRequest(w), UNCHANGED clientVars
    PROVE  ProxyMoves
<1>1. /\ due \in [Conns -> Nat] /\ Streams /\ conn \in [Conns -> ConnType]
      /\ UNCHANGED <<sent, due>>
  BY StreamsFollow DEF CountInv, Streams, RecvRequest, process
<1>2. PICK f : f = worker[w].fd
  OBVIOUS
<1>3. CASE ~ IsClient(f)
  <2>1. conn' = conn
    BY <1>2, <1>3 DEF RecvRequest
  <2> QED
    BY <1>1, <2>1, QuietMoves
<1>4. CASE IsClient(f)
  <2>1. PICK k : k = fdt[f][2]
    OBVIOUS
  <2>2. k \in Conns /\ conn' = [conn EXCEPT ![k].up = NoRequest]
    BY <1>1, <1>2, <1>4, <2>1 DEF Streams, RecvRequest
  <2> DEFINE c == [conn[k] EXCEPT !.up = NoRequest]
  <2>3. c.server = conn[k].server /\ c.client = conn[k].client /\ c.down = conn[k].down
    BY <1>1, <2>2 DEF ConnType
  <2>4. conn' = [conn EXCEPT ![k] = c]
    BY <1>1, <2>2
  <2> HIDE DEF c
  <2>5. \A j \in Conns : Kept(j)
    BY <1>1, <2>2, <2>3, <2>4 DEF Kept
  <2> QED
    BY <1>1, <2>5 DEF ProxyMoves
<1> QED
  BY <1>3, <1>4

\* close() of a descriptor.
LEMMA CloseMoves ==
    ASSUME SocketInv, CountInv, NEW w, Close(w), UNCHANGED clientVars
    PROVE  ProxyMoves
<1>1. /\ due \in [Conns -> Nat] /\ Streams /\ conn \in [Conns -> ConnType] /\ Ahead
      /\ sent \in [Conns -> Seq(Pieces)]
  BY StreamsFollow DEF CountInv, Streams
<1>2. PICK f : f = IF Head(worker[w].toClose) = "client" THEN worker[w].fd ELSE serverSock
  OBVIOUS
<1>3. CASE ~ IsClient(f)
  <2>1. UNCHANGED <<conn, sent, due>>
    BY <1>2, <1>3 DEF Close
  <2> QED
    BY <2>1, QuietMoves
<1>4. CASE IsClient(f)
  <2>1. PICK k : k = fdt[f][2]
    OBVIOUS
  <2>2. k \in Conns /\ conn[k].server = "open" /\ conn[k].client # "none"
    BY <1>1, <1>4, <2>1 DEF Streams, Ahead
  <2>3. /\ conn' = [conn EXCEPT ![k].server = "shut"]
        /\ sent' = [sent EXCEPT ![k] = <<>>] /\ due' = [due EXCEPT ![k] = Due(k)]
    BY <1>2, <1>4, <2>1 DEF Close
  <2> DEFINE c == [conn[k] EXCEPT !.server = "shut"]
  <2>4. c.server = "shut" /\ c.client = conn[k].client /\ c.down = conn[k].down
    BY <1>1, <2>2 DEF ConnType
  <2>5. conn' = [conn EXCEPT ![k] = c]
    BY <1>1, <2>2, <2>3
  <2> HIDE DEF c
  <2>6. Closed(k)
    BY <1>1, <2>2, <2>3, <2>4, <2>5 DEF Closed
  <2>7. ASSUME NEW j \in Conns, j # k PROVE Kept(j)
    BY <1>1, <2>2, <2>3, <2>5, <2>7 DEF Kept
  <2>8. DOMAIN due' = Conns /\ due' = [j \in Conns |-> due'[j]]
    BY <1>1, <2>3
  <2> QED
    BY <1>1, <2>6, <2>7, <2>8 DEF ProxyMoves
<1> QED
  BY <1>3, <1>4

\* The pieces that handleClient() sends.
LEMMA SendingMoves ==
    ASSUME SocketInv, CountInv, NEW w, Workers = {w}, UNCHANGED clientVars,
           \/ Shared(w) /\ ~ Die
           \/ ForwardHeader(w) \/ ForwardPiece(w) \/ TakeImage(w) \/ SendError(w)
    PROVE  ProxyMoves
<1>1. /\ SocketTypeOK /\ CallInv /\ worker[w] \in WorkerType /\ w \in Workers
      /\ worker[w].req \in Conns /\ worker[w].piece \in Pieces
      /\ worker[w].status \in {0, 404, 408, 500}
  <2>1. SocketTypeOK /\ CallInv
    BY DEF SocketInv
  <2>2. worker[w] \in WorkerType /\ w \in Workers
    BY <2>1 DEF SocketTypeOK
  <2> QED
    BY <2>1, <2>2, WorkerFields
<1>2. \A p \in Pieces : <<p>> \in Seq(Pieces)
  OBVIOUS
<1>3. \A p, q \in Pieces : <<p, q>> \in Seq(Pieces)
  OBVIOUS
<1>4. CASE Shared(w) /\ ~ Die
  <2>1. UNCHANGED due
    BY <1>4 DEF Shared, process
  <2>2. /\ Header(worker[w].req, 200, 1) \in Pieces /\ Body(worker[w].req) \in Pieces
        /\ Stub(worker[w].req) \in Pieces
    BY <1>1, PieceFacts
  <2>3. CASE Put(worker[w].fd, <<Header(worker[w].req, 200, 1), Body(worker[w].req)>>)
    BY <1>3, <2>1, <2>2, <2>3, PutMoves
  <2>4. CASE Put(worker[w].fd, <<Stub(worker[w].req)>>)
    BY <1>2, <2>1, <2>2, <2>4, PutMoves
  <2>5. CASE /\ ~ Put(worker[w].fd, <<Header(worker[w].req, 200, 1), Body(worker[w].req)>>)
             /\ ~ Put(worker[w].fd, <<Stub(worker[w].req)>>)
    <3>1. UNCHANGED <<conn, sent>>
      BY <1>4, <2>5 DEF Shared, SendFails, net
    <3> QED
      BY <2>1, <3>1, QuietMoves
  <2> QED
    BY <2>3, <2>4, <2>5
<1>5. CASE ForwardHeader(w)
  <2>1. UNCHANGED due
    BY <1>5 DEF ForwardHeader, process
  <2>2. \/ Put(worker[w].fd, <<worker[w].piece>>)
        \/ UNCHANGED <<conn, sent>>
    BY <1>5 DEF ForwardHeader, SendAll, SendFails
  <2>3. PICK p : p = worker[w].piece
    OBVIOUS
  <2>4. p \in Pieces /\ (Put(worker[w].fd, <<p>>) \/ UNCHANGED <<conn, sent>>)
    BY <1>1, <2>2, <2>3
  <2> QED
    BY <1>2, <2>1, <2>4, PutMoves, QuietMoves
<1>6. CASE ForwardPiece(w)
  <2>1. UNCHANGED due
    BY <1>6 DEF ForwardPiece, process
  <2>2. PICK up, p : up = fdt[worker[w].from][2] /\ p = Head(origin[up].rest)
    OBVIOUS
  <2>3. IsOrigin(worker[w].from) /\ origin[up].rest # <<>>
    BY <1>6, <2>2 DEF ForwardPiece
  <2>4. up \in Conns /\ origin[up] \in OriginType
    <3>1. up \in Conns
      BY <1>1, <2>2, <2>3, TableFacts
    <3> QED
      BY <1>1, <3>1 DEF SocketTypeOK
  <2>5. p \in Pieces
    BY <2>2, <2>3, <2>4 DEF OriginType
  <2>6. \/ Put(worker[w].fd, <<p>>)
        \/ UNCHANGED <<conn, sent>>
    BY <1>6, <2>2 DEF ForwardPiece, SendAll, SendFails, net
  <2> QED
    BY <1>2, <2>1, <2>5, <2>6, PutMoves, QuietMoves
<1>7. CASE TakeImage(w)
  <2>1. UNCHANGED due /\ Rpc!EndCall(w)
    BY <1>7 DEF TakeImage, process
  <2>2. CASE call[w].result.is = "image"
    <3>1. /\ call[w].result \in {Rpc!Nothing, Rpc!RpcFault, Rpc!Compressed(call[w].arg)}
          /\ call[w].result = Rpc!Compressed(call[w].arg) => call[w].arg \in Conns
      <4>1. Rpc!RpcTypeOK /\ CallAt(w)
        BY <1>1 DEF CallInv, SocketTypeOK
      <4>2. Works
        BY <1>7 DEF TakeImage
      <4> QED
        BY <2>1, <4>1, <4>2, CallEnds
    <3>2. Rpc!Nothing.is # "image" /\ Rpc!RpcFault.is # "image"
      BY DEF Rpc!Nothing, Rpc!RpcFault
    <3>3. call[w].arg \in Conns /\ call[w].result = Rpc!Compressed(call[w].arg)
      BY <2>2, <3>1, <3>2
    <3>4. call[w].result.of \in Conns
      BY <3>3 DEF Rpc!Compressed
    <3>5. Image(call[w].result.of) \in Pieces
      BY <3>4, PieceFacts
    <3>6. \/ Put(worker[w].fd, <<Image(call[w].result.of)>>)
          \/ UNCHANGED <<conn, sent>>
      BY <1>7 DEF TakeImage, SendAll, SendFails, net
    <3> QED
      BY <1>2, <2>1, <3>5, <3>6, PutMoves, QuietMoves
  <2>3. CASE call[w].result.is # "image"
    <3>1. UNCHANGED <<conn, sent>>
      BY <1>7, <2>3 DEF TakeImage, net
    <3> QED
      BY <2>1, <3>1, QuietMoves
  <2> QED
    BY <2>2, <2>3
<1>8. CASE SendError(w)
  <2>1. PICK p, q : p = Header(worker[w].req, worker[w].status, 1) /\ q = Body(worker[w].req)
    OBVIOUS
  <2>2. UNCHANGED due
    BY <1>8 DEF SendError, process
  <2>3. worker[w].status # 0
    BY <1>8 DEF SendError, SocketInv, AnswerInv, StageAt
  <2>4. p \in Pieces /\ q \in Pieces
    BY <1>1, <2>1, <2>3, PieceFacts
  <2>5. \/ Put(worker[w].fd, <<p, q>>)
        \/ UNCHANGED <<conn, sent>>
    BY <1>8, <2>1 DEF SendError, SendFails
  <2> QED
    BY <1>3, <2>2, <2>4, <2>5, PutMoves, QuietMoves
<1> QED
  BY <1>4, <1>5, <1>6, <1>7, <1>8

\* All steps of the worker.
LEMMA WorkerMoves ==
    ASSUME SocketInv, CountInv, NEW w, Workers = {w}, ProxyWorker(w)
    PROVE  ProxyMoves
<1>1. UNCHANGED clientVars /\ WorkerStep(w)
  BY DEF ProxyWorker
<1>2. CASE Die
  BY <1>1, <1>2, DieMoves
<1>3. CASE \/ Shared(w) /\ ~ Die
           \/ ForwardHeader(w) \/ ForwardPiece(w) \/ TakeImage(w) \/ SendError(w)
  BY <1>1, <1>3, SendingMoves
<1>4. CASE RecvRequest(w)
  BY <1>1, <1>4, RecvRequestMoves
<1>5. CASE Close(w)
  BY <1>1, <1>5, CloseMoves
<1>6. CASE Take(w) \/ Unresolved(w) \/ OpenSocket(w) \/ Connect(w) \/ StripAndSend(w)
  <2>1. UNCHANGED <<conn, sent, due>>
    BY <1>6 DEF Take, Unresolved, OpenSocket, Connect, StripAndSend, net, process
  <2> QED
    BY <1>1, <2>1, QuietMoves
<1>7. CASE RecvAnswer(w) \/ StreamEnds(w) \/ BodyDone(w) \/ CallRpc(w)
  <2>1. UNCHANGED <<conn, sent, due>>
    BY <1>7 DEF RecvAnswer, StreamEnds, BodyDone, CallRpc, net, process
  <2> QED
    BY <1>1, <2>1, QuietMoves
<1>8. CASE WildBuffer(w) \/ WildFree(w)
  <2>1. Die
    BY <1>8 DEF WildBuffer, WildFree
  <2> QED
    BY <1>2, <2>1
<1> QED
  BY <1>1, <1>2, <1>3, <1>4, <1>5, <1>6, <1>7, <1>8 DEF WorkerStep

\* The client leaves what the proxy has sent alone.
LEMMA ClientCounts ==
    ASSUME SocketInv, CountInv, ClientMain \/ \E t \in Threads : ClientThread(t)
    PROVE  CountInv'
<1>1. Streams /\ exit = "no" /\ UNCHANGED <<sent, due>>
  BY StreamsFollow DEF ClientMain, ClientThread, MainStep, ThreadStep, proxyVars, process
<1>2. ASSUME NEW cs \in [Conns -> ConnType], EndProcess("failure", cs),
             \A k \in Conns : cs[k].server = conn[k].server /\ cs[k].client = conn[k].client
                                /\ cs[k].down = conn[k].down,
             UNCHANGED <<params, joined, total>>
      PROVE  CountInv'
  BY <1>1, <1>2, ExitCounts DEF Statuses
<1>3. conn \in [Conns -> ConnType]
  BY <1>1 DEF Streams
<1>4. CASE ClientMain
  BY <1>1, <1>4, JoinCounts, FinishCounts DEF ClientMain, MainStep
<1>5. ASSUME NEW t \in Threads, ClientThread(t) PROVE CountInv'
  <2>1. ThreadStep(t, alive)
    BY <1>5 DEF ClientThread
  <2>2. CASE OpenConnection(t, alive)
    <3>1. CASE EndProcess("failure", conn)
      BY <1>2, <1>3, <2>2, <3>1 DEF OpenConnection
    <3>2. CASE ~ EndProcess("failure", conn)
      BY <1>1, <2>2, <3>2, OpenConnectionCounts DEF OpenConnection
    <3> QED
      BY <3>1, <3>2
  <2>3. CASE SendRequest(t)
    <3>1. PICK k, cs : k = Current(t) /\ cs = [conn EXCEPT ![k].up = Whole]
      OBVIOUS
    <3>2. CASE EndProcess("failure", cs)
      <4> DEFINE c == [conn[k] EXCEPT !.up = Whole]
      <4>1. thread[t].at # "returned"
        BY <2>3 DEF SendRequest
      <4>2. k \in Conns /\ cs = [conn EXCEPT ![k] = c]
        BY <1>1, <1>3, <3>1, <4>1, AccessFacts
      <4>3. Whole \in NoRequest .. Whole
        BY DEF Whole, NoRequest
      <4>4. /\ c \in ConnType /\ c.server = conn[k].server /\ c.client = conn[k].client
            /\ c.down = conn[k].down
        BY <1>3, <4>2, <4>3 DEF ConnType
      <4> HIDE DEF c
      <4>5. /\ cs \in [Conns -> ConnType]
            /\ \A j \in Conns : cs[j].server = conn[j].server /\ cs[j].client = conn[j].client
                                  /\ cs[j].down = conn[j].down
        BY <1>3, <4>2, <4>4
      <4> QED
        BY <1>2, <2>3, <3>2, <4>5 DEF SendRequest
    <3>3. CASE ~ EndProcess("failure", cs)
      BY <1>1, <2>3, <3>1, <3>3, SendRequestCounts DEF SendRequest
    <3> QED
      BY <3>2, <3>3
  <2>4. CASE RecvHeader(t)
    BY <1>1, <2>4, RecvHeaderCounts
  <2>5. CASE RecvBody(t)
    <3>1. CASE EndProcess("failure", conn)
      BY <1>2, <1>3, <2>5, <3>1 DEF RecvBody
    <3>2. CASE ~ EndProcess("failure", conn)
      BY <1>1, <2>5, <3>2, RecvBodyCounts DEF RecvBody
    <3> QED
      BY <3>1, <3>2
  <2>6. CASE EndAccess(t)
    BY <1>1, <2>6, EndAccessCounts
  <2> QED
    BY <2>1, <2>2, <2>3, <2>4, <2>5, <2>6 DEF ThreadStep
<1> QED
  BY <1>4, <1>5

\* Every step of the system keeps the accounts.
LEMMA CountInvNext ==
    ASSUME OneWorker, SocketInv, CountInv, Streams', [Next]_vars
    PROVE  CountInv'
<1>1. PICK w : Workers = {w}
  BY DEF OneWorker
<1>2. Streams
  BY StreamsFollow
<1>3. CASE UNCHANGED vars
  <2>1. UNCHANGED <<clientVars, conn, sent, due>>
    BY <1>3 DEF vars, proxyVars, process
  <2> QED
    BY <1>2, <2>1, QuietMoves, ProxyCounts
<1>4. CASE ClientMain \/ \E t \in Threads : ClientThread(t)
  BY <1>4, ClientCounts
<1>5. CASE ProxyMain
  BY <1>2, <1>5, AcceptMoves, ProxyCounts
<1>6. CASE ProxyWorker(w)
  BY <1>1, <1>2, <1>6, WorkerMoves, ProxyCounts
<1>7. CASE RpcServerStep(w)
  <2>1. UNCHANGED <<clientVars, conn, sent, due>>
    BY <1>7 DEF RpcServerStep, RpcStep, proxyVars, process
  <2> QED
    BY <1>2, <2>1, QuietMoves, ProxyCounts
<1> QED
  BY <1>1, <1>3, <1>4, <1>5, <1>6, <1>7 DEF Next

\* Before the first step nothing is counted and nothing is due.
LEMMA CountInvInit ==
    ASSUME Init
    PROVE  CountInv
<1>1. /\ conn = [k \in Conns |-> [client |-> "none", server |-> "none",
                                  file |-> CHOOSE f \in Files : TRUE,
                                  up |-> NoRequest, down |-> <<>>]]
      /\ numThreads \in Threads
      /\ thread = [t \in Threads |-> IF t <= numThreads THEN [NoThread EXCEPT !.at = "socket"]
                                     ELSE NoThread]
      /\ joined = 0 /\ total = 0 /\ exit = "no"
      /\ sent = [k \in Conns |-> <<>>] /\ due = [k \in Conns |-> 0]
  BY DEF Init, StreamInit, ClientInit, ProxyInit
<1>2. numThreads \in 1 .. NumConns /\ NumConns \in Nat
  BY <1>1, NumConnsNat DEF Threads
<1>3. ASSUME NEW k \in Conns
      PROVE  /\ conn[k].client = "none" /\ conn[k].server = "none" /\ conn[k].down = <<>>
             /\ sent[k] = <<>> /\ due[k] = 0 /\ Due(k) = 0
  BY <1>1 DEF Due
<1>4. due \in [Conns -> Nat] /\ \A k \in Conns : Blank(k) /\ Settled(k)
  BY <1>1, <1>3 DEF Blank, Settled
<1>5. ASSUME NEW t \in Threads
      PROVE  /\ thread[t].n = 1 /\ thread[t].retVal = 0
             /\ thread[t].at = IF t <= numThreads THEN "socket" ELSE "returned"
  BY <1>1, <1>5 DEF NoThread
<1>6. \A t \in Threads : Underway(t)
  BY <1>5 DEF Underway
<1>7. PICK d : d = Dues
  OBVIOUS
<1>8. d \in [Conns -> Nat]
  BY <1>3, <1>7 DEF Dues
<1>9. ASSUME NEW t \in 1 .. numThreads PROVE thread[t].retVal = SumsOf(t, d)[Done(t)]
  <2>1. t \in Threads /\ t <= numThreads
    BY <1>2 DEF Threads
  <2>2. Done(t) = 0 /\ thread[t].retVal = 0
    BY <1>5, <2>1 DEF Done
  <2> QED
    BY <1>8, <2>1, <2>2, ThreadSums
<1>10. total = SumsOfAll(d)[joined]
  BY <1>1, <1>8, AllSums
<1>11. Counting
  <2>1. \A t \in 1 .. joined : thread[t].at = "returned"
    BY <1>1
  <2>2. \A k \in Conns : k[2] <= Done(k[1]) => Settled(k)
    BY <1>4
  <2> QED
    BY <1>6, <1>7, <1>9, <1>10, <2>1, <2>2 DEF Counting
<1> QED
  BY <1>1, <1>3, <1>4, <1>11 DEF CountInv

(***************************************************************************)
(* The accounts of the client, access by access: what each thread of       *)
(* accessServer() has counted and what main() has added up is what was     *)
(* due on the connections that are over, and on the one that is under way  *)
(* what has come and what is still to be received make up what is due.     *)
(***************************************************************************)
THEOREM CountInvariant ==
    ASSUME OneWorker
    PROVE  Spec => []CountInv
<1>1. Init => CountInv
  BY CountInvInit
<1>2. SocketInv /\ CountInv /\ Streams' /\ [Next]_vars => CountInv'
  BY CountInvNext
<1>3. SocketInv => Streams
  BY StreamsFollow
<1>4. Spec => []SocketInv
  BY SocketInvariant
<1> QED
  BY <1>1, <1>2, <1>3, <1>4, PTL DEF Spec

(***************************************************************************)
(* The total a client of client.c prints is the sum of what was sent on    *)
(* its connections, as far as the Content-Length of each goes, whatever    *)
(* failed on the way.                                                      *)
(***************************************************************************)
THEOREM TotalsAreRight ==
    ASSUME OneWorker
    PROVE  Spec => []TotalIsWhatWasSent
<1>1. CountInv => TotalIsWhatWasSent
  BY DEF CountInv, TotalIsWhatWasSent
<1>2. Spec => []CountInv
  BY CountInvariant
<1> QED
  BY <1>1, <1>2, PTL
=============================================================================
