----------------------------- MODULE SharedMem -----------------------------
(***************************************************************************)
(* The exchange of requests and responses between the proxy and the server *)
(* over the shared memory nodes (memnode), both processes being up and     *)
(* the shared memory set up: sharedProxy() of proxy.c on one side, the     *)
(* polling loop of main() and the SHARED branch of handleClient() and      *)
(* checkAndSend() of server.c on the other, with sendShared() and          *)
(* receiveShared() of processShared.c and findState() and setMapping() of  *)
(* memList.c under both.                                                   *)
(*                                                                         *)
(* A message is a number of chunks, each at most SEGMENTSIZE bytes.  What  *)
(* a thread does between taking a node's mutex and releasing it or waiting *)
(* is split where the node is read or written outside the mutex.           *)
(***************************************************************************)
EXTENDS Naturals, Sequences, FiniteSets, Functions, Faults

CONSTANTS
    Proxies,    \* worker threads of the proxy, in sharedProxy()
    Workers,    \* worker threads of the server
    NoThread,   \* owner of a free mutex
    NoCall,     \* the call of a proxy thread outside sharedProxy()
    NumNodes,   \* shMeta->numNodes
    ReqLens,    \* lengths of requests, in chunks
    RespLens,   \* lengths of responses, in chunks
    MaxTx,      \* bound on the requests of each proxy thread
    MaxGot,     \* bound on the chunks one receive loop takes in
    CrossWake,  \* a signal wakes waiters of the other process: see Signal
    Spurious    \* pthread_cond_wait() may return without a signal

Threads == Proxies \cup Workers
NodeIds == 1 .. NumNodes

ASSUME SharedMemAssumption ==
    /\ Proxies \cap Workers = {}
    /\ NoThread \notin Threads /\ NoCall \notin Proxies \X Nat
    /\ NumNodes \in Nat \ {0} /\ MaxTx \in Nat /\ MaxGot \in Nat
    /\ ReqLens \subseteq Nat \ {0} /\ RespLens \subseteq Nat \ {0}
    /\ CrossWake \in BOOLEAN /\ Spurious \in BOOLEAN

\* memList.h, type state_t
States == {"IDLE", "BUSY", "WAITING_INIT_SRVR", "WAITING_CONT_PRXY",
           "WAITING_CONT_SRVR", "COMPLETE"}

VARIABLES
    proxyState, serverState,  \* of each node
    mem,       \* the chunk in each node, as a sequence: empty if spaceUsed = 0
    mutex,     \* owner of each node's mutex
    waiters,   \* threads asleep on each node's condition
    tokens,    \* SHARED nodes on the server's connection list
    found,     \* the node main() of the server has found, 0 if none
    pc,        \* where each thread is
    at,        \* the node each thread works on
    out,       \* the message each thread sends, as a sequence of chunks
    sent,      \* how many chunks of it are sent
    isServer,  \* the side sendShared() believes the thread to be on
    got,       \* the chunks each thread has received
    tx,        \* requests each proxy thread has had so far
    handled,   \* history: the requests the server has read, in order
    dead       \* a process has called exit() or dereferenced NULL

nodeVars == <<proxyState, serverState, mem, mutex, waiters>>
threadVars == <<pc, at, out, sent, isServer, got, tx>>
fate == <<dead, faults>>
vars == <<nodeVars, tokens, found, threadVars, handled, fate>>

Init ==
    /\ proxyState = [n \in NodeIds |-> "IDLE"]
    /\ serverState = [n \in NodeIds |-> "IDLE"]
    /\ mem = [n \in NodeIds |-> <<>>]
    /\ mutex = [n \in NodeIds |-> NoThread]
    /\ waiters = [n \in NodeIds |-> {}]
    /\ tokens = 0 /\ found = 0
    /\ pc = [t \in Threads |-> "idle"]
    /\ at = [t \in Threads |-> 1]
    /\ out = [t \in Threads |-> <<>>]
    /\ sent = [t \in Threads |-> 0]
    /\ isServer = [t \in Threads |-> FALSE]
    /\ got = [t \in Threads |-> <<>>]
    /\ tx = [p \in Proxies |-> 0]
    /\ handled = <<>>
    /\ dead = FALSE /\ faults = 0

\* A message of len chunks; kind and id tell the messages apart.
Message(kind, id, len) ==
    [k \in 1 .. len |-> [kind |-> kind, id |-> id, part |-> k, of |-> len]]

\* findState(): the first node with that proxyState, 0 for NULL.  The scan is
\* one step: what it returns was true when it read that node, the last it read.
FindState(s) ==
    LET match == {n \in NodeIds : proxyState[n] = s}
    IN  IF match = {} THEN 0 ELSE CHOOSE n \in match : \A m \in match : n <= m

----------------------------------------------------------------------------
(* Mutex and condition variable of a node.                                 *)

SameProcess(s, t) == s \in Proxies <=> t \in Proxies

\* pthread_cond_signal() by thread t on node n: one sleeper, if there is one,
\* goes for the mutex again.  The condition variable has default attributes,
\* for use in one process: whether a signal reaches a sleeper of the other
\* process is up to the thread library.  The result is the set of the sets of
\* sleepers that the signal may leave.
Signal(t, n) ==
    LET reach == {s \in waiters[n] : CrossWake \/ SameProcess(s, t)}
    IN  IF reach = {} THEN {waiters[n]} ELSE {waiters[n] \ {s} : s \in reach}

\* The label a sleeping thread goes on with.
AfterSend(t) == IF t \in Proxies THEN "recv" ELSE "unlock"
AfterWait(t) ==
    CASE pc[t] = "wGreet" -> "start"
      [] pc[t] = "wChunk" -> "send"
      [] pc[t] = "wDone"  -> AfterSend(t)
      [] pc[t] = "wReq"   -> "readReq"
      [] pc[t] = "wResp"  -> "readResp"

Asleep == {"wGreet", "wChunk", "wDone", "wReq", "wResp"}

\* pthread_cond_wait() returns: the thread was signalled and has the mutex.
WakeUp(t) ==
    /\ ~dead /\ pc[t] \in Asleep
    /\ t \notin waiters[at[t]] /\ mutex[at[t]] = NoThread
    /\ mutex' = [mutex EXCEPT ![at[t]] = t]
    /\ pc' = [pc EXCEPT ![t] = AfterWait(t)]
    /\ UNCHANGED <<proxyState, serverState, mem, waiters, tokens, found, at, out,
                   sent, isServer, got, tx, handled, fate>>

\* The same without a signal.  None of the waits on a node is in a loop that
\* tests what it waits for.
SpuriousWake(t) ==
    /\ Spurious
    /\ ~dead /\ pc[t] \in Asleep /\ t \in waiters[at[t]]
    /\ waiters' = [waiters EXCEPT ![at[t]] = @ \ {t}]
    /\ UNCHANGED <<proxyState, serverState, mem, mutex, tokens, found, threadVars,
                   handled, fate>>

\* The thread goes to sleep on its node, releasing the mutex.
GoToSleep(t, label) ==
    /\ mutex' = [mutex EXCEPT ![at[t]] = NoThread]
    /\ waiters' = [waiters EXCEPT ![at[t]] = @ \cup {t}]
    /\ pc' = [pc EXCEPT ![t] = label]

----------------------------------------------------------------------------
(* sendShared(), called by both sides with the mutex locked.               *)

\* Mutant: the guess looks at the other state variable.
StartSendWrong(t) ==
    /\ ~dead /\ pc[t] = "start"
    /\ isServer' = [isServer EXCEPT ![t] = serverState[at[t]] # "IDLE"]
    /\ sent' = [sent EXCEPT ![t] = 0]
    /\ pc' = [pc EXCEPT ![t] = "send"]
    /\ UNCHANGED <<nodeVars, tokens, found, at, out, got, tx, handled, fate>>

\* Entry: the caller is taken for the server iff the proxy is COMPLETE.
StartSend(t) ==
    /\ ~dead /\ pc[t] = "start"
    /\ isServer' = [isServer EXCEPT ![t] = proxyState[at[t]] = "COMPLETE"]
    /\ sent' = [sent EXCEPT ![t] = 0]
    /\ pc' = [pc EXCEPT ![t] = "send"]
    /\ UNCHANGED <<nodeVars, tokens, found, at, out, got, tx, handled, fate>>

\* malloc() of the buffer fails: sendShared() returns, and its caller goes on as
\* if the message had been sent.
SendNothing(t) ==
    /\ ~dead /\ pc[t] = "start"
    /\ pc' = [pc EXCEPT ![t] = AfterSend(t)]
    /\ Fails
    /\ UNCHANGED <<nodeVars, tokens, found, at, out, sent, isServer, got, tx,
                   handled, dead>>

SetState(t, s) ==
    IF isServer[t]
      THEN serverState' = [serverState EXCEPT ![at[t]] = s] /\ UNCHANGED proxyState
      ELSE proxyState' = [proxyState EXCEPT ![at[t]] = s] /\ UNCHANGED serverState

\* setMapping(): the next chunk takes the place of what the node held.
SetMapping(t) ==
    /\ mem' = [mem EXCEPT ![at[t]] = <<out[t][sent[t] + 1]>>]
    /\ sent' = [sent EXCEPT ![t] = @ + 1]

\* Mutant: the next chunk is mapped without waiting for the other side.
SendPartNoWait(t) ==
    LET n == at[t] IN
    /\ ~dead /\ pc[t] = "send" /\ sent[t] + 1 < Len(out[t])
    /\ SetMapping(t)
    /\ SetState(t, IF isServer[t] THEN "WAITING_CONT_PRXY" ELSE "WAITING_CONT_SRVR")
    /\ \E S \in Signal(t, n) : waiters' = [waiters EXCEPT ![n] = S]
    /\ UNCHANGED <<mutex, pc, tokens, found, at, out, isServer, got, tx, handled, fate>>

\* One turn of the loop that is not the last: the chunk is mapped, the other
\* side signalled, and the sender waits for it.
SendPart(t) ==
    LET n == at[t] IN
    /\ ~dead /\ pc[t] = "send" /\ sent[t] + 1 < Len(out[t])
    /\ SetMapping(t)
    /\ SetState(t, IF isServer[t] THEN "WAITING_CONT_PRXY" ELSE "WAITING_CONT_SRVR")
    /\ \E S \in Signal(t, n) : waiters' = [waiters EXCEPT ![n] = S \cup {t}]
    /\ mutex' = [mutex EXCEPT ![n] = NoThread]
    /\ pc' = [pc EXCEPT ![t] = "wChunk"]
    /\ UNCHANGED <<tokens, found, at, out, isServer, got, tx, handled, fate>>

\* The last turn: COMPLETE and a signal; the server then waits once more.
SendLast(t) ==
    LET n == at[t] IN
    /\ ~dead /\ pc[t] = "send" /\ sent[t] + 1 = Len(out[t])
    /\ SetMapping(t)
    /\ SetState(t, "COMPLETE")
    /\ IF isServer[t]
         THEN /\ \E S \in Signal(t, n) : waiters' = [waiters EXCEPT ![n] = S \cup {t}]
              /\ mutex' = [mutex EXCEPT ![n] = NoThread]
              /\ pc' = [pc EXCEPT ![t] = "wDone"]
         ELSE /\ \E S \in Signal(t, n) : waiters' = [waiters EXCEPT ![n] = S]
              /\ pc' = [pc EXCEPT ![t] = AfterSend(t)]
              /\ UNCHANGED mutex
    /\ UNCHANGED <<tokens, found, at, out, isServer, got, tx, handled, fate>>

----------------------------------------------------------------------------
(* sharedProxy(): one request of a thread of the proxy.                    *)

\* A request comes in and an idle node is found for it.
Begin(p) ==
    /\ ~dead /\ pc[p] = "idle" /\ tx[p] < MaxTx
    /\ FindState("IDLE") # 0
    /\ tx' = [tx EXCEPT ![p] = @ + 1]
    /\ at' = [at EXCEPT ![p] = FindState("IDLE")]
    /\ \E len \in ReqLens : out' = [out EXCEPT ![p] = Message("req", <<p, tx[p] + 1>>, len)]
    /\ got' = [got EXCEPT ![p] = <<>>]
    /\ pc' = [pc EXCEPT ![p] = "lock"]
    /\ UNCHANGED <<nodeVars, tokens, found, sent, isServer, handled, fate>>

\* No idle node: return -1, and the request goes to the server by socket.
UseSocket(p) ==
    /\ ~dead /\ pc[p] = "idle" /\ tx[p] < MaxTx
    /\ FindState("IDLE") = 0
    /\ tx' = [tx EXCEPT ![p] = @ + 1]
    /\ UNCHANGED <<nodeVars, tokens, found, pc, at, out, sent, isServer, got, handled, fate>>

\* Lock the mutex and tell the server that there is a request.
Post(p) ==
    LET n == at[p] IN
    /\ ~dead /\ pc[p] = "lock" /\ p \in Proxies /\ mutex[n] = NoThread
    /\ mutex' = [mutex EXCEPT ![n] = p]
    /\ proxyState' = [proxyState EXCEPT ![n] = "WAITING_INIT_SRVR"]
    /\ pc' = [pc EXCEPT ![p] = "greet"]
    /\ UNCHANGED <<serverState, mem, waiters, tokens, found, at, out, sent, isServer,
                   got, tx, handled, fate>>

\* Wait until the server has seen the request, unless it has already.
Greet(p) ==
    /\ ~dead /\ pc[p] = "greet"
    /\ IF serverState[at[p]] # "WAITING_CONT_PRXY"
         THEN GoToSleep(p, "wGreet")
         ELSE pc' = [pc EXCEPT ![p] = "start"] /\ UNCHANGED <<mutex, waiters>>
    /\ UNCHANGED <<proxyState, serverState, mem, tokens, found, at, out, sent, isServer,
                   got, tx, handled, fate>>

\* Top of the receive loop: wait unless the server is COMPLETE.
AwaitResponse(p) ==
    /\ ~dead /\ pc[p] = "recv"
    /\ IF serverState[at[p]] # "COMPLETE"
         THEN GoToSleep(p, "wResp")
         ELSE pc' = [pc EXCEPT ![p] = "readResp"] /\ UNCHANGED <<mutex, waiters>>
    /\ UNCHANGED <<proxyState, serverState, mem, tokens, found, at, out, sent, isServer,
                   got, tx, handled, fate>>

\* receiveShared(), forward the chunk, signal the server, and either go round
\* again or unlock.  sendAll() stores what it sent in node->spaceUsed: under the
\* mutex, the very number it was told to send.
ReadResponse(p) ==
    LET n == at[p] IN
    /\ ~dead /\ pc[p] = "readResp" /\ mem[n] # <<>> /\ Len(got[p]) < MaxGot
    /\ got' = [got EXCEPT ![p] = @ \o mem[n]]
    /\ \E S \in Signal(p, n) : waiters' = [waiters EXCEPT ![n] = S]
    /\ IF serverState[n] # "COMPLETE"
         THEN pc' = [pc EXCEPT ![p] = "recv"] /\ UNCHANGED mutex
         ELSE pc' = [pc EXCEPT ![p] = "reset"] /\ mutex' = [mutex EXCEPT ![n] = NoThread]
    /\ UNCHANGED <<proxyState, serverState, mem, tokens, found, at, out, sent, isServer,
                   tx, handled, fate>>

\* node->proxyState = IDLE, after the mutex is unlocked
Reset(p) ==
    /\ ~dead /\ pc[p] = "reset"
    /\ proxyState' = [proxyState EXCEPT ![at[p]] = "IDLE"]
    /\ pc' = [pc EXCEPT ![p] = "idle"]
    /\ UNCHANGED <<serverState, mem, mutex, waiters, tokens, found, at, out, sent, isServer,
                   got, tx, handled, fate>>

----------------------------------------------------------------------------
(* The server: main() polls the nodes, a worker serves one.                *)

\* findState(shList, shMeta->numNodes, WAITING_INIT_SRVR)
Poll ==
    /\ ~dead /\ found = 0 /\ FindState("WAITING_INIT_SRVR") # 0
    /\ found' = FindState("WAITING_INIT_SRVR")
    /\ UNCHANGED <<nodeVars, tokens, threadVars, handled, fate>>

\* Mutant: the node is claimed whatever its serverState.
ClaimAlways ==
    /\ ~dead /\ found # 0
    /\ serverState' = [serverState EXCEPT ![found] = "BUSY"]
    /\ tokens' = tokens + 1
    /\ found' = 0
    /\ UNCHANGED <<proxyState, mem, mutex, waiters, threadVars, handled, fate>>

\* If that node's serverState is IDLE it becomes BUSY, and a SHARED node that
\* does not say which memnode it is for goes on the connection list.
Claim ==
    /\ ~dead /\ found # 0
    /\ IF serverState[found] = "IDLE"
         THEN /\ serverState' = [serverState EXCEPT ![found] = "BUSY"]
              /\ tokens' = tokens + 1
         ELSE UNCHANGED <<serverState, tokens>>
    /\ found' = 0
    /\ UNCHANGED <<proxyState, mem, mutex, waiters, threadVars, handled, fate>>

\* Mutants: the list is not checked for being empty; the node stays on it.
TakeTokenBlind(w) ==
    /\ ~dead /\ pc[w] = "idle" /\ w \in Workers
    /\ tokens' = tokens - 1
    /\ at' = [at EXCEPT ![w] = FindState("WAITING_INIT_SRVR")]
    /\ pc' = [pc EXCEPT ![w] = "mark"]
    /\ UNCHANGED <<nodeVars, found, out, sent, isServer, got, tx, handled, fate>>

TakeTokenKeep(w) ==
    /\ ~dead /\ pc[w] = "idle" /\ w \in Workers /\ tokens > 0
    /\ at' = [at EXCEPT ![w] = FindState("WAITING_INIT_SRVR")]
    /\ pc' = [pc EXCEPT ![w] = "mark"]
    /\ UNCHANGED <<nodeVars, tokens, found, out, sent, isServer, got, tx, handled, fate>>

\* A worker takes a SHARED node and looks for the request again.
TakeToken(w) ==
    /\ ~dead /\ pc[w] = "idle" /\ w \in Workers /\ tokens > 0
    /\ tokens' = tokens - 1
    /\ at' = [at EXCEPT ![w] = FindState("WAITING_INIT_SRVR")]
    /\ pc' = [pc EXCEPT ![w] = "mark"]
    /\ UNCHANGED <<nodeVars, found, out, sent, isServer, got, tx, handled, fate>>

\* node->serverState = WAITING_CONT_PRXY, without the mutex
Mark(w) ==
    /\ ~dead /\ pc[w] = "mark" /\ at[w] # 0
    /\ serverState' = [serverState EXCEPT ![at[w]] = "WAITING_CONT_PRXY"]
    /\ pc' = [pc EXCEPT ![w] = "lock"]
    /\ UNCHANGED <<proxyState, mem, mutex, waiters, tokens, found, at, out, sent, isServer,
                   got, tx, handled, fate>>

\* Mutant: the mutex is not locked.
OpenNoLock(w) ==
    LET n == at[w] IN
    /\ ~dead /\ pc[w] = "lock" /\ w \in Workers
    /\ \E S \in Signal(w, n) : waiters' = [waiters EXCEPT ![n] = S]
    /\ got' = [got EXCEPT ![w] = <<>>]
    /\ pc' = [pc EXCEPT ![w] = "req"]
    /\ UNCHANGED <<proxyState, serverState, mem, mutex, tokens, found, at, out, sent,
                   isServer, tx, handled, fate>>

\* Mutant: the buffer for the request is not cleared.
OpenNoClear(w) ==
    LET n == at[w] IN
    /\ ~dead /\ pc[w] = "lock" /\ w \in Workers /\ mutex[n] = NoThread
    /\ mutex' = [mutex EXCEPT ![n] = w]
    /\ \E S \in Signal(w, n) : waiters' = [waiters EXCEPT ![n] = S]
    /\ pc' = [pc EXCEPT ![w] = "req"]
    /\ UNCHANGED <<proxyState, serverState, mem, tokens, found, at, out, sent, isServer,
                   got, tx, handled, fate>>

\* Lock the mutex, clear the buffer for the request and signal the proxy.
Open(w) ==
    LET n == at[w] IN
    /\ ~dead /\ pc[w] = "lock" /\ w \in Workers /\ mutex[n] = NoThread
    /\ mutex' = [mutex EXCEPT ![n] = w]
    /\ \E S \in Signal(w, n) : waiters' = [waiters EXCEPT ![n] = S]
    /\ got' = [got EXCEPT ![w] = <<>>]
    /\ pc' = [pc EXCEPT ![w] = "req"]
    /\ UNCHANGED <<proxyState, serverState, mem, tokens, found, at, out, sent, isServer,
                   tx, handled, fate>>

\* Top of the receive loop: wait unless the proxy is COMPLETE.
AwaitRequest(w) ==
    /\ ~dead /\ pc[w] = "req"
    /\ IF proxyState[at[w]] # "COMPLETE"
         THEN GoToSleep(w, "wReq")
         ELSE pc' = [pc EXCEPT ![w] = "readReq"] /\ UNCHANGED <<mutex, waiters>>
    /\ UNCHANGED <<proxyState, serverState, mem, tokens, found, at, out, sent, isServer,
                   got, tx, handled, fate>>

\* receiveShared() of a part of the request; the proxy may send the next one.
ReadPart(w) ==
    LET n == at[w] IN
    /\ ~dead /\ pc[w] = "readReq" /\ mem[n] # <<>> /\ proxyState[n] # "COMPLETE"
    /\ Len(got[w]) < MaxGot
    /\ got' = [got EXCEPT ![w] = @ \o mem[n]]
    /\ \E S \in Signal(w, n) : waiters' = [waiters EXCEPT ![n] = S]
    /\ pc' = [pc EXCEPT ![w] = "req"]
    /\ UNCHANGED <<proxyState, serverState, mem, mutex, tokens, found, at, out, sent,
                   isServer, tx, handled, fate>>

\* receiveShared() of the last part; the server is BUSY with the request and
\* comes up with a response, an error message included.
ReadLast(w) ==
    LET n == at[w] IN
    /\ ~dead /\ pc[w] = "readReq" /\ mem[n] # <<>> /\ proxyState[n] = "COMPLETE"
    /\ got' = [got EXCEPT ![w] = @ \o mem[n]]
    /\ serverState' = [serverState EXCEPT ![n] = "BUSY"]
    /\ handled' = Append(handled, mem[n][1].id)
    /\ \E len \in RespLens : out' = [out EXCEPT ![w] = Message("resp", mem[n][1].id, len)]
    /\ pc' = [pc EXCEPT ![w] = "start"]
    /\ UNCHANGED <<proxyState, mem, mutex, waiters, tokens, found, at, sent, isServer,
                   tx, fate>>

\* sendResponse() unlocks the mutex
Unlock(w) ==
    /\ ~dead /\ pc[w] = "unlock"
    /\ mutex' = [mutex EXCEPT ![at[w]] = NoThread]
    /\ pc' = [pc EXCEPT ![w] = "finish"]
    /\ UNCHANGED <<proxyState, serverState, mem, waiters, tokens, found, at, out, sent,
                   isServer, got, tx, handled, fate>>

\* Mutant: serverState is not set back.
FinishNoReset(w) ==
    /\ ~dead /\ pc[w] = "finish"
    /\ pc' = [pc EXCEPT ![w] = "idle"]
    /\ UNCHANGED <<nodeVars, tokens, found, at, out, sent, isServer, got, tx, handled, fate>>

\* node->serverState = IDLE, after the mutex is unlocked
Finish(w) ==
    /\ ~dead /\ pc[w] = "finish"
    /\ serverState' = [serverState EXCEPT ![at[w]] = "IDLE"]
    /\ pc' = [pc EXCEPT ![w] = "idle"]
    /\ UNCHANGED <<proxyState, mem, mutex, waiters, tokens, found, at, out, sent, isServer,
                   got, tx, handled, fate>>

\* The fatal ends: receiveShared() finds spaceUsed = 0, or no memory for what
\* there is, and its caller exits; a worker dereferences the NULL that
\* findState() gave it; or stripAbsURL() has no memory for the new header, and
\* the proxy's sendShared() copies from NULL.
Fatal(t) ==
    /\ ~dead
    /\ \/ pc[t] \in {"readReq", "readResp"} /\ (IF mem[at[t]] = <<>> THEN Works ELSE Fails)
       \/ pc[t] = "mark" /\ at[t] = 0 /\ Works
       \/ pc[t] = "start" /\ t \in Proxies /\ Fails
    /\ dead' = TRUE
    /\ UNCHANGED <<nodeVars, tokens, found, threadVars, handled>>

----------------------------------------------------------------------------
ProxyStep(p) ==
    \/ Begin(p) \/ UseSocket(p) \/ Post(p) \/ Greet(p)
    \/ AwaitResponse(p) \/ ReadResponse(p) \/ Reset(p)

WorkerStep(w) ==
    \/ TakeToken(w) \/ Mark(w) \/ Open(w) \/ AwaitRequest(w)
    \/ ReadPart(w) \/ ReadLast(w) \/ Unlock(w) \/ Finish(w)

\* What both kinds of threads do: sleep, wake up, sendShared(), die.
CommonStep(t) ==
    \/ WakeUp(t) \/ StartSend(t) \/ SendNothing(t) \/ SendPart(t) \/ SendLast(t)
    \/ Fatal(t)

MainStep == Poll \/ Claim

Next ==
    \/ MainStep
    \/ \E p \in Proxies : ProxyStep(p)
    \/ \E w \in Workers : WorkerStep(w)
    \/ \E t \in Threads : CommonStep(t) \/ SpuriousWake(t)

Spec == Init /\ [][Next]_vars

\* Every thread that can move moves in the end, except that clients need not
\* send another request; a mutex that is free again and again is obtained.
Fairness ==
    /\ WF_vars(MainStep)
    /\ \A p \in Proxies : SF_vars(pc[p] # "idle" /\ (ProxyStep(p) \/ CommonStep(p)))
    /\ \A w \in Workers : SF_vars(WorkerStep(w) \/ CommonStep(w))

FairSpec == Spec /\ Fairness

----------------------------------------------------------------------------
(* Properties.                                                             *)

Chunks == [kind : {"req", "resp"}, id : Proxies \X Nat, part : Nat, of : Nat]
ProxyLabels == {"idle", "lock", "greet", "recv", "readResp", "reset"}
WorkerLabels == {"idle", "mark", "lock", "req", "readReq", "unlock", "finish"}
Labels == ProxyLabels \cup WorkerLabels \cup Asleep \cup {"start", "send"}

\* Every variable has its type.
TypeOK ==
    /\ proxyState \in [NodeIds -> States] /\ serverState \in [NodeIds -> States]
    /\ mem \in [NodeIds -> Seq(Chunks)]
    /\ mutex \in [NodeIds -> Threads \cup {NoThread}]
    /\ waiters \in [NodeIds -> SUBSET Threads]
    /\ tokens \in Nat /\ found \in {0} \cup NodeIds
    /\ pc \in [Threads -> Labels]
    /\ at \in [Threads -> {0} \cup NodeIds]
    /\ out \in [Threads -> Seq(Chunks)] /\ got \in [Threads -> Seq(Chunks)]
    /\ sent \in [Threads -> Nat]
    /\ isServer \in [Threads -> BOOLEAN]
    /\ tx \in [Proxies -> Nat]
    /\ handled \in Seq(Proxies \X Nat)
    /\ dead \in BOOLEAN /\ faults \in 0 .. MaxFaults

\* A thread that maps a chunk, reads one, or decides to sleep holds the mutex
\* of its node; nobody else does.
Holding == {"greet", "start", "send", "recv", "readResp", "req", "readReq", "unlock"}
NodeMutex ==
    \A t \in Threads, n \in NodeIds :
        (mutex[n] = t) <=> (pc[t] \in Holding /\ at[t] = n)

\* The induction for both: only a worker that findState() gave NULL has no node,
\* and it goes nowhere.
AtNode == \A t \in Threads : at[t] \in NodeIds \/ pc[t] = "mark"
MutexInv == TypeOK /\ AtNode /\ NodeMutex

\* What the server has put together when it starts on its response is the
\* whole request, chunk by chunk, and nothing else (checkAndSend()).
RequestIntact ==
    \A w \in Workers : pc[w] = "start" =>
        \E p \in Proxies, len \in ReqLens :
            pc[p] # "idle" /\ got[w] = Message("req", <<p, tx[p]>>, len) /\ got[w] = out[p]

\* What a thread of the proxy has forwarded when it leaves the receive loop is
\* the whole response to its own request (sharedProxy()).
ResponseIntact ==
    \A p \in Proxies : pc[p] = "reset" =>
        \E len \in RespLens : got[p] = Message("resp", <<p, tx[p]>>, len)

\* Two workers of the server are never at one node.
Busy(w) == pc[w] # "idle"
OneWorkerPerNode ==
    \A v, w \in Workers : Busy(v) /\ Busy(w) /\ at[v] = at[w] => v = w

\* The server never takes the proxy's side in sendShared(), nor the proxy the
\* server's: the guess from proxyState is right.
RightSide ==
    \A t \in Threads : pc[t] \in {"send", "wChunk", "wDone"} => isServer[t] = (t \in Workers)

\* Every request posted in shared memory is answered, unless a process dies or
\* sendShared() gives up for want of memory, which nobody is told.
TxCompletes ==
    \A p \in Proxies : (pc[p] # "idle") ~> (pc[p] = "idle" \/ dead \/ faults > 0)

\* The exchange implements request and reply: each request is handled by the
\* server exactly once, and only then answered.
Call == [p \in Proxies |-> IF pc[p] = "idle" THEN NoCall ELSE <<p, tx[p]>>]
Rpc == INSTANCE RequestReply WITH Numbers <- 1 .. MaxTx, call <- Call
RpcSpec == Rpc!Spec

----------------------------------------------------------------------------
(***************************************************************************)
(* The inductive invariant of a proxy with one thread p that sends requests *)
(* of one chunk.  It finds every node idle when it looks for one, and takes *)
(* the first.                                                              *)
(***************************************************************************)
OneThread == (\E p : Proxies = {p}) /\ ReqLens = {1} /\ ~Spurious

ps == proxyState[1]
ss == serverState[1]
Sleeps(t, label) == pc[t] = label /\ t \in waiters[1]
Handled(p)  == <<p, tx[p]>> \in Range(handled)

OneNode ==
    /\ \A t \in Threads : at[t] = 1 \/ (at[t] = 0 /\ pc[t] = "mark")
    /\ \A n \in NodeIds \ {1} : proxyState[n] = "IDLE"
    /\ found \in {0, 1}

\* One claim at a time: the node is IDLE, or its SHARED node waits on the list,
\* or one worker has it.
OneClaim ==
    /\ \A v, w \in Workers : Busy(v) /\ Busy(w) => v = w
    /\ tokens \in {0, 1} /\ (tokens = 1 => ss = "BUSY")
    /\ (tokens = 1 \/ ss = "IDLE") => \A w \in Workers : ~Busy(w)

\* The thread is done with the last exchange, or has posted the next request
\* and sleeps; or it waits for a response that sendShared() did not send.
Apart(p)   == pc[p] \in {"reset", "idle", "lock", "greet"} \/ Sleeps(p, "wGreet")
GivenUp(p) == ps = "COMPLETE" /\ pc[p] \in {"recv", "readResp", "wResp"}

\* The request is in the node; or sendShared() did not send it, and it never
\* will be.
Posted(p) == ps = "COMPLETE" /\ mem[1] = out[p] /\ got[p] = <<>>
Unsent(p) == ps = "WAITING_INIT_SRVR" /\ pc[p] \in {"recv", "readResp", "wResp"}

\* The worker answers the request of the thread, which waits for it.
Answers(w, p) ==
    /\ ps = "COMPLETE" /\ Handled(p) /\ isServer[w]
    /\ \E len \in RespLens : out[w] = Message("resp", <<p, tx[p]>>, len)

ProxySide(p) ==
    /\ pc[p] \in ProxyLabels \cup {"wGreet", "wResp", "start", "send"}
    /\ pc[p] \in {"idle", "lock"} => ps = "IDLE"
    /\ pc[p] \in {"greet", "wGreet", "start", "send"} => ps = "WAITING_INIT_SRVR"
    /\ pc[p] \in {"recv", "readResp", "wResp"} => ps \in {"WAITING_INIT_SRVR", "COMPLETE"}
    /\ pc[p] # "idle" => out[p] = Message("req", <<p, tx[p]>>, 1)
    /\ pc[p] = "send" => sent[p] = 0 /\ ~isServer[p]
    /\ pc[p] \in {"lock", "greet", "wGreet", "start", "send"} => got[p] = <<>> /\ ~Handled(p)
    /\ pc[p] = "reset" =>
         /\ ps = "COMPLETE" /\ Handled(p)
         /\ \E len \in RespLens : got[p] = Message("resp", <<p, tx[p]>>, len)
    /\ \A h \in Range(handled) : h[1] = p => h[2] <= tx[p]
    /\ (\A w \in Workers : ~Busy(w)) =>
         ss \in {"IDLE", "BUSY"} /\ (Apart(p) \/ GivenUp(p))

\* What is true of the thread, by where the worker is that has the node.
WorkerSide(w, p) ==
    /\ pc[w] \in WorkerLabels \cup {"wReq", "start", "send", "wChunk", "wDone"}
    /\ pc[w] = "mark" =>
         ss = "BUSY" /\ (at[w] = 1 => pc[p] = "greet" \/ Sleeps(p, "wGreet"))
    /\ pc[w] \in {"lock", "req", "wReq", "readReq"} =>
         ss = "WAITING_CONT_PRXY" /\ ~Handled(p)
    /\ pc[w] = "lock" =>
         \/ pc[p] \in {"greet", "start", "send"} \/ Sleeps(p, "wGreet")
         \/ (Posted(p) \/ Unsent(p)) /\ (pc[p] = "recv" \/ Sleeps(p, "wResp"))
    /\ pc[w] = "req" =>
         \/ Unsent(p)
         \/ got[w] = <<>> /\ (pc[p] = "wGreet" \/ (Posted(p) /\ pc[p] = "wResp"))
    /\ pc[w] = "wReq" =>
         \/ Unsent(p)
         \/ got[w] = <<>> /\ Sleeps(w, "wReq") /\ pc[p] \in {"wGreet", "start", "send"}
         \/ got[w] = <<>> /\ Posted(p) /\ (pc[p] = "recv" \/ Sleeps(p, "wResp"))
    /\ pc[w] = "readReq" =>
         Unsent(p) \/ (got[w] = <<>> /\ Posted(p) /\ pc[p] = "wResp")
    /\ pc[w] = "start" =>
         /\ ss = "BUSY" /\ Posted(p) /\ pc[p] = "wResp" /\ got[w] = out[p] /\ Handled(p)
         /\ \E len \in RespLens : out[w] = Message("resp", <<p, tx[p]>>, len)
    /\ pc[w] = "send" =>
         /\ ss \in {"BUSY", "WAITING_CONT_PRXY"} /\ pc[p] = "wResp" /\ Answers(w, p)
         /\ sent[w] < Len(out[w]) /\ got[p] = SubSeq(out[w], 1, sent[w])
    /\ pc[w] = "wChunk" =>
         /\ ss = "WAITING_CONT_PRXY" /\ Answers(w, p)
         /\ sent[w] \in 1 .. Len(out[w]) - 1 /\ mem[1] = <<out[w][sent[w]]>>
         /\ \/ /\ Sleeps(w, "wChunk") /\ pc[p] \in {"wResp", "readResp"}
               /\ got[p] = SubSeq(out[w], 1, sent[w] - 1)
            \/ /\ pc[p] = "recv" \/ Sleeps(p, "wResp")
               /\ got[p] = SubSeq(out[w], 1, sent[w])
    /\ pc[w] = "wDone" =>
         /\ ss = "COMPLETE" /\ isServer[w]
         /\ \/ Apart(p)
            \/ /\ Sleeps(w, "wDone") /\ pc[p] \in {"wResp", "readResp"} /\ Answers(w, p)
               /\ sent[w] = Len(out[w]) /\ mem[1] = <<out[w][sent[w]]>>
               /\ got[p] = SubSeq(out[w], 1, sent[w] - 1)
    /\ pc[w] \in {"unlock", "finish"} =>
         (ss = "COMPLETE" /\ Apart(p)) \/ (ss = "BUSY" /\ GivenUp(p))

ExchangeInv ==
    /\ MutexInv /\ OneNode /\ OneClaim
    /\ \A p \in Proxies : ProxySide(p) /\ \A w \in Workers : WorkerSide(w, p)

\* memList.h: the states of a node "act as surrogate semaphores, synchronizing
\* access to the data held within", so that no worker comes for a request that
\* is not there and nobody reads an empty node: neither process dies of it.
NoFatal == ~dead
=============================================================================
