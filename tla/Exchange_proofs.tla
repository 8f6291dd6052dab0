-------------------------- MODULE Exchange_proofs ---------------------------
(***************************************************************************)
(* The exchange through one node, for a proxy of one thread (OneThread)    *)
(* and a server of any number of workers: requests and responses arrive    *)
(* intact, one worker is at the node, and the whole implements             *)
(* RequestReply.  ExchangeInv has the proxy and the worker at the node in  *)
(* one of the stages of the exchange; one lemma for each action shows      *)
(* which stage it leads to.                                                *)
(***************************************************************************)
EXTENDS SharedMem_proofs

\* The thread p and the workers meet at node 1, with its mutex between them.
Scene(p) ==
    /\ Proxies = {p} /\ p \in Threads /\ p \notin Workers /\ 1 \in NodeIds /\ at[p] = 1
    /\ \A w \in Workers : w \in Threads /\ w # p
    /\ TypeOK /\ OneNode /\ OneClaim /\ ProxySide(p) /\ \A w \in Workers : WorkerSide(w, p)
    /\ \A t \in Threads : mutex[1] = t <=> pc[t] \in Holding /\ at[t] = 1
    /\ NoThread \notin Threads

\* The inductive invariant, seen by the one thread of the proxy.
LEMMA SceneFacts == ASSUME OneThread, ExchangeInv, NEW p \in Proxies PROVE Scene(p)
<1> USE SharedMemAssumption
<1>1. Proxies = {p} /\ p \in Threads /\ p \notin Workers /\ 1 \in NodeIds
      /\ \A w \in Workers : w \in Threads /\ w # p
  BY DEF OneThread, Threads, NodeIds
<1>2. TypeOK /\ NodeMutex /\ OneNode /\ OneClaim /\ ProxySide(p)
      /\ \A w \in Workers : WorkerSide(w, p)
  BY DEF ExchangeInv, MutexInv
<1>3. at[p] = 1
  BY <1>1, <1>2 DEF OneNode, ProxySide, ProxyLabels
<1>4. \A t \in Threads : mutex[1] = t <=> pc[t] \in Holding /\ at[t] = 1
  BY <1>1, <1>2 DEF NodeMutex
<1> QED
  BY <1>1, <1>2, <1>3, <1>4 DEF Scene

\* A request of one chunk.
LEMMA OneChunk ==
    ASSUME NEW id \in Proxies \X Nat
    PROVE  Message("req", id, 1) \in Seq(Chunks) /\ Len(Message("req", id, 1)) = 1
  BY DEF Message, Chunks

\* What is appended joins what was there.
LEMMA RangeAppend ==
    ASSUME NEW S, NEW s \in Seq(S), NEW e \in S
    PROVE  Range(Append(s, e)) = Range(s) \cup {e}
<1> DEFINE r == Append(s, e)
<1>1. /\ Len(s) \in Nat /\ DOMAIN s = 1 .. Len(s) /\ DOMAIN r = 1 .. (Len(s) + 1)
      /\ r[Len(s) + 1] = e /\ \A i \in 1 .. Len(s) : r[i] = s[i]
  OBVIOUS
<1> HIDE DEF r
<1>2. \A i \in DOMAIN r : i \in DOMAIN s \/ i = Len(s) + 1
  BY <1>1
<1>3. Len(s) + 1 \in DOMAIN r /\ \A i \in DOMAIN s : i \in DOMAIN r
  BY <1>1
<1>4. Range(r) = Range(s) \cup {e}
  BY <1>1, <1>2, <1>3 DEF Range
<1> QED
  BY <1>4 DEF r

\* A step of the thread: what is left to show is what it says of both sides.
LEMMA ProxyMoves ==
    ASSUME NEW p \in Proxies, Scene(p), MutexInv',
           NEW l, pc' = [pc EXCEPT ![p] = l], UNCHANGED <<serverState, tokens, found, at>>,
           \A n \in NodeIds \ {1} : proxyState'[n] = proxyState[n],
           ProxySide(p)', \A w \in Workers : WorkerSide(w, p)'
    PROVE  ExchangeInv'
<1>1. \A w \in Workers : pc'[w] = pc[w]
  BY DEF Scene, TypeOK
<1>2. OneClaim'
  BY <1>1 DEF Scene, OneClaim, Busy, ss
<1>3. OneNode'
  BY <1>1 DEF Scene, OneNode, Threads
<1> QED
  BY <1>2, <1>3 DEF Scene, ExchangeInv

\* An idle worker has nothing to do with the thread.
LEMMA IdleSide == ASSUME NEW v, NEW p, pc'[v] = "idle" PROVE WorkerSide(v, p)'
  BY DEF WorkerSide, WorkerLabels

\* A step of the worker that has the node, if it keeps it: the thread is where
\* it was, and the other workers are idle.
LEMMA WorkerMoves ==
    ASSUME NEW p \in Proxies, Scene(p), MutexInv', NEW w \in Workers, pc[w] # "idle",
           NEW l, pc' = [pc EXCEPT ![w] = l], l # "idle", at[w] = 1,
           UNCHANGED <<proxyState, tokens, found, at, tx>>,
           got'[p] = got[p], out'[p] = out[p], sent'[p] = sent[p], isServer'[p] = isServer[p],
           serverState'[1] # "IDLE",
           \/ handled' = handled
           \/ pc[p] = "wResp" /\ \A h \in Range(handled') : h[1] = p => h[2] <= tx[p],
           WorkerSide(w, p)'
    PROVE  ExchangeInv'
<1>1. /\ pc'[p] = pc[p] /\ pc'[w] = l
      /\ \A v \in Workers : v # w => pc[v] = "idle" /\ pc'[v] = "idle"
  BY DEF Scene, TypeOK, OneClaim, Busy
<1>2. OneClaim'
  BY <1>1 DEF Scene, OneClaim, Busy, ss
<1>3. OneNode'
  BY <1>1 DEF Scene, OneNode, TypeOK
<1>4. ProxySide(p)'
  BY <1>1 DEF Scene, ProxySide, ps, Handled, Busy
<1>5. \A v \in Workers : WorkerSide(v, p)'
  BY <1>1, IdleSide
<1> QED
  BY <1>2, <1>3, <1>4, <1>5 DEF Scene, ExchangeInv

----------------------------------------------------------------------------
\* The proxy waits until a worker has marked the node.
LEMMA GreetExchange == ASSUME OneThread, ExchangeInv, NEW p \in Proxies, Greet(p) PROVE ExchangeInv'
<1> USE DEF ps, ss, Sleeps, Handled, Apart
<1>1. Scene(p) /\ MutexInv'
  BY SceneFacts, GreetMutex DEF ExchangeInv
<1>2. /\ pc[p] = "greet"
      /\ UNCHANGED <<at, isServer, proxyState, serverState, handled, tx, tokens, found>>
      /\ \/ pc' = [pc EXCEPT ![p] = "wGreet"] /\ p \in waiters'[1]
         \/ pc' = [pc EXCEPT ![p] = "start"] /\ ss = "WAITING_CONT_PRXY"
  BY <1>1 DEF Scene, Greet, GoToSleep, TypeOK
<1>3. ProxySide(p)'
  BY <1>1, <1>2 DEF Scene, Greet, ProxySide, WorkerSide, TypeOK, Busy, GivenUp, ProxyLabels
<1>4. ASSUME NEW w \in Workers PROVE WorkerSide(w, p)'
  <2>1. pc[w] \in {"idle", "mark", "lock", "wDone", "finish"} /\ pc'[w] = pc[w]
    BY <1>1, <1>2 DEF Scene, WorkerSide, WorkerLabels, GivenUp, Posted, Unsent, Answers,
                      Holding, OneNode, TypeOK
  <2>2. /\ pc[w] = "mark" => ss = "BUSY"
        /\ pc[w] = "lock" => ss = "WAITING_CONT_PRXY" /\ ~Handled(p)
        /\ pc[w] = "wDone" => ss = "COMPLETE" /\ isServer[w]
        /\ pc[w] = "finish" => ss = "COMPLETE"
    BY <1>1, <1>2 DEF Scene, WorkerSide, GivenUp
  <2>3. \/ pc'[p] = "wGreet" /\ p \in waiters'[1]
        \/ pc'[p] = "start" /\ ss = "WAITING_CONT_PRXY"
    BY <1>1, <1>2 DEF Scene, TypeOK
  <2> QED
    BY <1>2, <2>1, <2>2, <2>3 DEF WorkerSide, WorkerLabels
<1> QED
  BY <1>1, <1>2, <1>3, <1>4, ProxyMoves

\* The proxy begins a request at a node whose proxyState is IDLE.
LEMMA BeginExchange == ASSUME OneThread, ExchangeInv, NEW p \in Proxies, Begin(p) PROVE ExchangeInv'
<1> USE DEF ps, ss, Sleeps, Handled, Apart
<1>1. Scene(p) /\ MutexInv'
  BY SceneFacts, BeginMutex DEF ExchangeInv
<1>2. ps = "IDLE" /\ FindState("IDLE") = 1
  <2>1. ps = "IDLE"
    BY <1>1 DEF Scene, Begin, ProxySide
  <2>2. FindState("IDLE") \in 1 .. 1
    BY <1>1, <2>1, FindStateFacts DEF Scene
  <2> QED
    BY <2>1, <2>2
<1>3. /\ pc[p] = "idle" /\ pc' = [pc EXCEPT ![p] = "lock"] /\ at' = at
      /\ UNCHANGED <<isServer, proxyState, serverState, waiters, handled, tokens, found>>
      /\ tx' = [tx EXCEPT ![p] = tx[p] + 1] /\ got' = [got EXCEPT ![p] = <<>>]
      /\ out' = [out EXCEPT ![p] = Message("req", <<p, tx[p] + 1>>, 1)]
  <2>1. at' = at
    BY <1>1, <1>2 DEF Begin, Scene, TypeOK
  <2> QED
    BY <2>1 DEF Begin, nodeVars, OneThread
<1>4. tx'[p] = tx[p] + 1 /\ tx[p] \in Nat /\ got'[p] = <<>> /\ pc'[p] = "lock"
      /\ out'[p] = Message("req", <<p, tx'[p]>>, 1)
  BY <1>1, <1>3 DEF Scene, TypeOK
<1>5. \A h \in Range(handled') : h[1] = p => h[2] <= tx[p] /\ h[2] \in Nat
  <2>1. Range(handled) \subseteq Proxies \X Nat
    BY <1>1 DEF Scene, TypeOK, Range
  <2> QED
    BY <1>1, <1>3, <2>1 DEF Scene, ProxySide
<1>6. ~Handled(p)'
  BY <1>4, <1>5
<1>7. ProxySide(p)'
  <2>1. \A h \in Range(handled') : h[1] = p => h[2] <= tx'[p]
    BY <1>4, <1>5
  <2>2. (\A w \in Workers : ~Busy(w)') => ss' \in {"IDLE", "BUSY"}
    BY <1>1, <1>3 DEF Scene, ProxySide, Busy, TypeOK
  <2> QED
    BY <1>2, <1>3, <1>4, <1>6, <2>1, <2>2 DEF ProxySide, ProxyLabels
<1>8. ASSUME NEW w \in Workers PROVE WorkerSide(w, p)'
  <2>1. pc[w] \in {"idle", "mark", "wDone", "unlock", "finish"} /\ pc'[w] = pc[w]
    BY <1>1, <1>2, <1>3 DEF Scene, WorkerSide, WorkerLabels, GivenUp, Posted, Unsent, Answers, TypeOK
  <2>2. /\ pc[w] = "mark" => ss = "BUSY" /\ at[w] # 1
        /\ pc[w] = "wDone" => ss = "COMPLETE" /\ isServer[w]
        /\ pc[w] \in {"unlock", "finish"} => ss = "COMPLETE"
    BY <1>1, <1>3 DEF Scene, WorkerSide, GivenUp
  <2> QED
    BY <1>3, <1>4, <2>1, <2>2 DEF WorkerSide, WorkerLabels
<1> QED
  BY <1>1, <1>3, <1>7, <1>8, ProxyMoves

\* findState() does find an idle node.
LEMMA UseSocketExchange == ASSUME OneThread, ExchangeInv, NEW p \in Proxies, UseSocket(p) PROVE ExchangeInv'
<1>1. Scene(p) /\ FindState("IDLE") = 0 /\ pc[p] = "idle"
  BY SceneFacts DEF UseSocket
<1>2. proxyState[1] = "IDLE"
  BY <1>1 DEF Scene, ProxySide, ps
<1>3. FindState("IDLE") \in 1 .. 1
  BY <1>1, <1>2, FindStateFacts DEF Scene
<1> QED
  BY <1>1, <1>3

\* The proxy takes the mutex and asks for a worker.
LEMMA PostExchange == ASSUME OneThread, ExchangeInv, NEW p \in Proxies, Post(p) PROVE ExchangeInv'
<1> USE DEF ps, ss, Sleeps, Handled, Apart
<1>1. Scene(p) /\ MutexInv'
  BY SceneFacts, PostMutex DEF ExchangeInv
<1>2. /\ pc[p] = "lock" /\ ps = "IDLE" /\ pc' = [pc EXCEPT ![p] = "greet"]
      /\ proxyState' = [proxyState EXCEPT ![1] = "WAITING_INIT_SRVR"] /\ mutex[1] = NoThread
      /\ UNCHANGED <<at, isServer, serverState, waiters, handled, tx, got, out, tokens, found>>
  BY <1>1 DEF Scene, Post, ProxySide
<1>3. pc'[p] = "greet" /\ ps' = "WAITING_INIT_SRVR"
      /\ \A n \in NodeIds \ {1} : proxyState'[n] = proxyState[n]
  BY <1>1, <1>2 DEF Scene, TypeOK
<1>4. ProxySide(p)'
  BY <1>1, <1>2, <1>3 DEF Scene, ProxySide, TypeOK, Busy, ProxyLabels
<1>5. ASSUME NEW w \in Workers PROVE WorkerSide(w, p)'
  <2>1. pc[w] \in {"idle", "mark", "wDone", "finish"} /\ pc'[w] = pc[w]
    BY <1>1, <1>2 DEF Scene, WorkerSide, WorkerLabels, GivenUp, Posted, Unsent, Answers,
                      Holding, OneNode, TypeOK
  <2>2. /\ pc[w] = "mark" => ss = "BUSY"
        /\ pc[w] = "wDone" => ss = "COMPLETE" /\ isServer[w]
        /\ pc[w] = "finish" => ss = "COMPLETE"
    BY <1>1, <1>2 DEF Scene, WorkerSide, GivenUp
  <2> QED
    BY <1>2, <1>3, <2>1, <2>2 DEF WorkerSide, WorkerLabels
<1> QED
  BY <1>1, <1>2, <1>3, <1>4, <1>5, ProxyMoves

\* The proxy has its response and sets its own state to IDLE.
LEMMA ResetExchange == ASSUME OneThread, ExchangeInv, NEW p \in Proxies, Reset(p) PROVE ExchangeInv'
<1> USE DEF ps, ss, Sleeps, Handled, Apart
<1>1. Scene(p) /\ MutexInv'
  BY SceneFacts, ResetMutex DEF ExchangeInv
<1>2. /\ pc[p] = "reset" /\ pc' = [pc EXCEPT ![p] = "idle"]
      /\ proxyState' = [proxyState EXCEPT ![1] = "IDLE"]
      /\ UNCHANGED <<at, isServer, serverState, waiters, handled, tx, got, out, tokens, found>>
  BY <1>1 DEF Scene, Reset
<1>3. pc'[p] = "idle" /\ ps' = "IDLE"
      /\ \A n \in NodeIds \ {1} : proxyState'[n] = proxyState[n]
  BY <1>1, <1>2 DEF Scene, TypeOK
<1>4. ProxySide(p)'
  BY <1>1, <1>2, <1>3 DEF Scene, ProxySide, TypeOK, Busy, ProxyLabels
<1>5. ASSUME NEW w \in Workers PROVE WorkerSide(w, p)'
  <2>1. pc[w] \in {"idle", "mark", "wDone", "unlock", "finish"} /\ pc'[w] = pc[w]
    BY <1>1, <1>2 DEF Scene, WorkerSide, WorkerLabels, GivenUp, Posted, Unsent, Answers, TypeOK
  <2>2. /\ pc[w] = "mark" => ss = "BUSY" /\ at[w] # 1
        /\ pc[w] = "wDone" => ss = "COMPLETE" /\ isServer[w]
        /\ pc[w] \in {"unlock", "finish"} => ss = "COMPLETE"
    BY <1>1, <1>2 DEF Scene, WorkerSide, GivenUp
  <2> QED
    BY <1>2, <1>3, <2>1, <2>2 DEF WorkerSide, WorkerLabels
<1> QED
  BY <1>1, <1>2, <1>3, <1>4, <1>5, ProxyMoves

\* The response is not there when the thread comes to wait for it, so that it
\* sleeps.
LEMMA AwaitResponseExchange ==
    ASSUME OneThread, ExchangeInv, NEW p \in Proxies, AwaitResponse(p) PROVE ExchangeInv'
<1> USE DEF ps, ss, Sleeps, Handled, Apart, Posted, Unsent, Answers, GivenUp
<1>1. Scene(p) /\ MutexInv' /\ pc[p] = "recv"
  BY SceneFacts, AwaitResponseMutex DEF ExchangeInv, AwaitResponse
<1>2. ss # "COMPLETE"
  <2>1. CASE \A w \in Workers : ~Busy(w)
    BY <1>1, <2>1 DEF Scene, ProxySide
  <2>2. ASSUME NEW w \in Workers, Busy(w) PROVE ss # "COMPLETE"
    BY <1>1, <2>2 DEF Scene, WorkerSide, WorkerLabels, Busy
  <2> QED
    BY <2>1, <2>2
<1>3. /\ pc' = [pc EXCEPT ![p] = "wResp"] /\ p \in waiters'[1] /\ waiters[1] \subseteq waiters'[1]
      /\ UNCHANGED <<at, isServer, proxyState, serverState, mem, handled, tx, got, out, sent,
                     tokens, found>>
  BY <1>1, <1>2 DEF Scene, AwaitResponse, GoToSleep, TypeOK
<1>4. pc'[p] = "wResp"
  BY <1>1, <1>3 DEF Scene, TypeOK
<1>5. ProxySide(p)'
  BY <1>1, <1>3, <1>4 DEF Scene, ProxySide, TypeOK, Busy
<1>6. ASSUME NEW w \in Workers PROVE WorkerSide(w, p)'
  <2>1. pc[w] \in {"idle", "mark", "lock", "wReq", "wChunk", "finish"} /\ pc'[w] = pc[w]
    BY <1>1, <1>3 DEF Scene, WorkerSide, WorkerLabels, Holding, OneNode, TypeOK
  <2>2. WorkerSide(w, p)
    BY <1>1 DEF Scene
  <2> QED
    BY <1>1, <1>3, <1>4, <2>1, <2>2 DEF WorkerSide, WorkerLabels
<1> QED
  BY <1>1, <1>3, <1>5, <1>6, ProxyMoves

\* The proxy is woken, after the greeting or after a response was put down.
LEMMA ProxyWakeUpExchange ==
    ASSUME OneThread, ExchangeInv, NEW p \in Proxies, WakeUp(p) PROVE ExchangeInv'
<1> USE DEF ps, ss, Sleeps, Handled, Apart, Posted, Unsent, Answers, GivenUp
<1>1. Scene(p) /\ MutexInv'
  BY SceneFacts, WakeUpMutex DEF ExchangeInv, Scene
<1>2. /\ p \notin waiters[1] /\ mutex[1] = NoThread
      /\ \/ pc[p] = "wGreet" /\ pc' = [pc EXCEPT ![p] = "start"]
         \/ pc[p] = "wResp" /\ pc' = [pc EXCEPT ![p] = "readResp"]
      /\ UNCHANGED <<at, isServer, proxyState, serverState, mem, waiters, handled, tx, got, out,
                     sent, tokens, found>>
  BY <1>1 DEF Scene, WakeUp, AfterWait, ProxySide, ProxyLabels, Asleep
<1>3. ProxySide(p)'
  BY <1>1, <1>2 DEF Scene, ProxySide, TypeOK, Busy, ProxyLabels
<1>4. ASSUME NEW w \in Workers PROVE WorkerSide(w, p)'
  <2>1. /\ pc[w] \in {"idle", "mark", "wReq", "wChunk", "wDone", "finish"} /\ pc'[w] = pc[w]
        /\ pc[w] = "mark" => at[w] # 1
    BY <1>1, <1>2 DEF Scene, WorkerSide, WorkerLabels, Holding, OneNode, TypeOK
  <2>2. WorkerSide(w, p)
    BY <1>1 DEF Scene
  <2>3. CASE pc[p] = "wGreet"
    <3>1. pc'[p] = "start"
      BY <1>1, <1>2, <2>3 DEF Scene, TypeOK
    <3>2. pc[w] \in {"idle", "mark", "wReq"}
      BY <1>1, <1>2, <2>1, <2>2, <2>3 DEF WorkerSide
    <3> QED
      BY <1>1, <1>2, <2>1, <2>2, <2>3, <3>1, <3>2 DEF WorkerSide, WorkerLabels
  <2>4. CASE pc[p] = "wResp"
    <3>1. pc'[p] = "readResp"
      BY <1>1, <1>2, <2>4 DEF Scene, TypeOK
    <3> QED
      BY <1>1, <1>2, <2>1, <2>2, <2>4, <3>1 DEF WorkerSide, WorkerLabels
  <2> QED
    BY <1>2, <2>3, <2>4
<1> QED
  BY <1>1, <1>2, <1>3, <1>4, ProxyMoves

\* The proxy begins to send, or has nothing to send.
LEMMA ProxyStartSendExchange ==
    ASSUME OneThread, ExchangeInv, NEW p \in Proxies, StartSend(p) \/ SendNothing(p)
    PROVE  ExchangeInv'
<1> USE DEF ps, ss, Sleeps, Handled, Apart, Posted, Unsent, Answers, GivenUp
<1>1. Scene(p) /\ MutexInv' /\ pc[p] = "start"
  BY SceneFacts, StartSendMutex, SendNothingMutex DEF ExchangeInv, Scene, StartSend, SendNothing
<1>2. /\ \/ /\ pc' = [pc EXCEPT ![p] = "send"] /\ sent' = [sent EXCEPT ![p] = 0]
            /\ isServer' = [isServer EXCEPT ![p] = FALSE]
         \/ pc' = [pc EXCEPT ![p] = "recv"] /\ UNCHANGED <<sent, isServer>>
      /\ UNCHANGED <<at, proxyState, serverState, mem, waiters, handled, tx, got, out,
                     tokens, found>>
  BY <1>1 DEF Scene, StartSend, SendNothing, AfterSend, ProxySide, nodeVars
<1>3. /\ (pc'[p] = "send" /\ sent'[p] = 0 /\ ~isServer'[p]) \/ pc'[p] = "recv"
      /\ \A w \in Workers : pc'[w] = pc[w] /\ sent'[w] = sent[w] /\ isServer'[w] = isServer[w]
  BY <1>1, <1>2 DEF Scene, TypeOK
<1>4. ProxySide(p)'
  BY <1>1, <1>2, <1>3 DEF Scene, ProxySide, Busy, ProxyLabels
<1>5. ASSUME NEW w \in Workers PROVE WorkerSide(w, p)'
  <2>1. /\ pc[w] \in {"idle", "mark", "lock", "wReq"}
        /\ pc[w] = "mark" => at[w] # 1
    BY <1>1, <1>2 DEF Scene, WorkerSide, WorkerLabels, Holding, OneNode, TypeOK
  <2>2. WorkerSide(w, p) /\ ProxySide(p)
    BY <1>1 DEF Scene
  <2> QED
    BY <1>1, <1>2, <1>3, <2>1, <2>2 DEF WorkerSide, WorkerLabels, ProxySide
<1> QED
  BY <1>1, <1>2, <1>4, <1>5, ProxyMoves

\* A request of one chunk goes out whole, with the last turn of the loop.
LEMMA ProxySendExchange ==
    ASSUME OneThread, ExchangeInv, NEW p \in Proxies, SendPart(p) \/ SendLast(p)
    PROVE  ExchangeInv'
<1> USE DEF ps, ss, Sleeps, Handled, Apart, Posted, Unsent, Answers, GivenUp
<1>1. Scene(p) /\ MutexInv' /\ pc[p] = "send"
  BY SceneFacts, SendPartMutex, SendLastMutex DEF ExchangeInv, Scene, SendPart, SendLast
<1>2. /\ out[p] = Message("req", <<p, tx[p]>>, 1) /\ sent[p] = 0 /\ ~isServer[p]
      /\ got[p] = <<>> /\ ~Handled(p)
  BY <1>1 DEF Scene, ProxySide
<1>3. out[p] \in Seq(Chunks) /\ Len(out[p]) = 1 /\ <<out[p][1]>> = out[p]
  <2>1. out[p] \in Seq(Chunks) /\ Len(out[p]) = 1
    <3>1. <<p, tx[p]>> \in Proxies \X Nat
      BY <1>1 DEF Scene, TypeOK
    <3>2. /\ Message("req", <<p, tx[p]>>, 1) \in Seq(Chunks)
          /\ Len(Message("req", <<p, tx[p]>>, 1)) = 1
      BY <3>1, OneChunk
    <3> QED
      BY <1>2, <3>2
  <2> QED
    BY <2>1
<1>4. SendLast(p)
  <2>1. ~ (sent[p] + 1 < Len(out[p]))
    BY <1>2, <1>3
  <2> QED
    BY <2>1 DEF SendPart
<1>5. /\ pc' = [pc EXCEPT ![p] = "recv"] /\ sent' = [sent EXCEPT ![p] = sent[p] + 1]
      /\ proxyState' = [proxyState EXCEPT ![1] = "COMPLETE"]
      /\ mem' = [mem EXCEPT ![1] = out[p]]
      /\ UNCHANGED <<at, serverState, isServer, handled, tx, got, out, tokens, found>>
  BY <1>1, <1>2, <1>3, <1>4 DEF Scene, SendLast, AfterSend, SetMapping, SetState
<1>6. /\ pc'[p] = "recv" /\ ps' = "COMPLETE" /\ mem'[1] = out[p]
      /\ \A n \in NodeIds \ {1} : proxyState'[n] = proxyState[n]
      /\ \A w \in Workers : pc'[w] = pc[w]
  BY <1>1, <1>5 DEF Scene, TypeOK
<1>7. ProxySide(p)'
  BY <1>1, <1>2, <1>5, <1>6 DEF Scene, ProxySide, Busy, ProxyLabels
<1>8. ASSUME NEW w \in Workers PROVE WorkerSide(w, p)'
  <2>1. pc[w] \in {"idle", "mark", "lock", "wReq"} /\ (pc[w] = "mark" => at[w] # 1)
    BY <1>1 DEF Scene, WorkerSide, WorkerLabels, Holding, OneNode, TypeOK
  <2>2. WorkerSide(w, p)
    BY <1>1 DEF Scene
  <2> QED
    BY <1>1, <1>2, <1>5, <1>6, <2>1, <2>2 DEF WorkerSide, WorkerLabels
<1> QED
  BY <1>1, <1>5, <1>6, <1>7, <1>8, ProxyMoves

\* The thread takes in the next chunk of the response, and stops at the last.
LEMMA ReadResponseExchange ==
    ASSUME OneThread, ExchangeInv, NEW p \in Proxies, ReadResponse(p) PROVE ExchangeInv'
<1> USE DEF ps, ss, Sleeps, Handled, Apart, Posted, Unsent, GivenUp
<1>1. Scene(p) /\ MutexInv' /\ pc[p] = "readResp"
  BY SceneFacts, ReadResponseMutex DEF ExchangeInv, ReadResponse
<1>2. /\ pc' = [pc EXCEPT ![p] = IF ss = "COMPLETE" THEN "reset" ELSE "recv"]
      /\ got' = [got EXCEPT ![p] = got[p] \o mem[1]]
      /\ UNCHANGED <<at, isServer, proxyState, serverState, mem, handled, tx, out, sent,
                     tokens, found>>
  BY <1>1 DEF Scene, ReadResponse, fate
<1>3. /\ pc'[p] = (IF ss = "COMPLETE" THEN "reset" ELSE "recv") /\ got'[p] = got[p] \o mem[1]
      /\ \A w \in Workers : pc'[w] = pc[w] /\ got'[w] = got[w]
  BY <1>1, <1>2 DEF Scene, TypeOK
<1>4. ASSUME NEW w \in Workers
      PROVE  /\ pc[w] \in {"idle", "mark", "wReq", "wChunk", "wDone", "finish"}
             /\ pc[w] = "mark" => at[w] # 1 /\ ss = "BUSY"
             /\ pc[w] = "wReq" => Unsent(p) /\ ss = "WAITING_CONT_PRXY" /\ ~Handled(p)
             /\ pc[w] = "finish" => GivenUp(p) /\ ss = "BUSY"
             /\ pc[w] = "wChunk" =>
                  /\ ss = "WAITING_CONT_PRXY" /\ Answers(w, p) /\ sent[w] \in 1 .. Len(out[w]) - 1
                  /\ mem[1] = <<out[w][sent[w]]>> /\ got[p] = SubSeq(out[w], 1, sent[w] - 1)
             /\ pc[w] = "wDone" =>
                  /\ ss = "COMPLETE" /\ Answers(w, p) /\ sent[w] = Len(out[w])
                  /\ mem[1] = <<out[w][sent[w]]>> /\ got[p] = SubSeq(out[w], 1, sent[w] - 1)
  <2>1. WorkerSide(w, p) /\ (pc[w] \in Holding => at[w] # 1) /\ (at[w] = 1 \/ pc[w] = "mark")
    BY <1>1 DEF Scene, Holding, OneNode
  <2>2. pc[w] \in {"idle", "mark", "wReq", "wChunk", "wDone", "finish"}
    BY <1>1, <2>1 DEF WorkerSide, WorkerLabels, Holding
  <2> QED
    BY <1>1, <2>1, <2>2 DEF WorkerSide
<1>5. ASSUME NEW w \in Workers, pc[w] \in {"wChunk", "wDone"}
      PROVE  got'[p] = SubSeq(out[w], 1, sent[w])
  <2>1. PICK len \in RespLens : out[w] = Message("resp", <<p, tx[p]>>, len)
    BY <1>4, <1>5 DEF Answers
  <2>2. len \in Nat \ {0} /\ <<p, tx[p]>> \in Proxies \X Nat
    BY <1>1, SharedMemAssumption DEF Scene, TypeOK
  <2>3. out[w] \in Seq(Chunks) /\ Len(out[w]) \in Nat \ {0}
    BY <2>1, <2>2, MessageFacts
  <2>4. sent[w] \in 1 .. Len(out[w])
    BY <1>4, <1>5, <2>3
  <2>5. got'[p] = SubSeq(out[w], 1, sent[w] - 1) \o <<out[w][sent[w]]>>
    BY <1>3, <1>4, <1>5
  <2> QED
    BY <2>3, <2>4, <2>5, PrefixFacts
<1>6. CASE ss # "COMPLETE"
  <2>1. ProxySide(p)'
    BY <1>1, <1>2, <1>3, <1>6 DEF Scene, ProxySide, Busy, ProxyLabels
  <2>2. ASSUME NEW w \in Workers PROVE WorkerSide(w, p)'
    <3>1. pc'[p] = "recv" /\ pc'[w] = pc[w] /\ pc[w] # "wDone"
      BY <1>3, <1>4, <1>6
    <3>2. pc[w] = "wChunk" => Answers(w, p)' /\ got'[p] = SubSeq(out'[w], 1, sent'[w])
      BY <1>2, <1>4, <1>5 DEF Answers
    <3> QED
      BY <1>2, <1>4, <3>1, <3>2 DEF WorkerSide, WorkerLabels
  <2> QED
    BY <1>1, <1>2, <2>1, <2>2, ProxyMoves
<1>7. CASE ss = "COMPLETE"
  <2>1. PICK w \in Workers : pc[w] = "wDone"
    <3>1. ~ \A w \in Workers : ~Busy(w)
      BY <1>1, <1>7 DEF Scene, ProxySide
    <3> QED
      BY <1>4, <1>7, <3>1 DEF Busy
  <2>2. PICK len \in RespLens : out[w] = Message("resp", <<p, tx[p]>>, len)
    BY <1>4, <2>1 DEF Answers
  <2>3. got'[p] = Message("resp", <<p, tx[p]>>, len)
    <3>1. <<p, tx[p]>> \in Proxies \X Nat /\ len \in Nat \ {0}
      BY <1>1, SharedMemAssumption DEF Scene, TypeOK
    <3>2. out[w] \in Seq(Chunks)
      BY <2>2, <3>1, MessageFacts
    <3>3. got'[p] = SubSeq(out[w], 1, Len(out[w]))
      BY <1>4, <1>5, <2>1
    <3> QED
      BY <2>2, <3>2, <3>3, PrefixFacts
  <2>4. pc'[p] = "reset" /\ Handled(p) /\ ps = "COMPLETE"
    BY <1>3, <1>4, <1>7, <2>1 DEF Answers
  <2>5. ProxySide(p)'
    BY <1>1, <1>2, <1>3, <2>1, <2>3, <2>4 DEF Scene, ProxySide, Busy, ProxyLabels
  <2>6. ASSUME NEW v \in Workers PROVE WorkerSide(v, p)'
    <3>1. pc'[v] = pc[v] /\ pc[v] \in {"idle", "wDone"} /\ (pc[v] = "wDone" => isServer[v])
      BY <1>3, <1>4, <1>7 DEF Answers
    <3> QED
      BY <1>2, <1>7, <2>4, <3>1 DEF WorkerSide, WorkerLabels
  <2> QED
    BY <1>1, <1>2, <2>5, <2>6, ProxyMoves
<1> QED
  BY <1>6, <1>7

----------------------------------------------------------------------------
\* A SHARED node is taken from the list by the only worker at work; findState()
\* gives it the node of the thread, or NULL if the thread asks for nothing.
LEMMA TakeTokenExchange ==
    ASSUME OneThread, ExchangeInv, NEW p \in Proxies, NEW w \in Workers, TakeToken(w)
    PROVE  ExchangeInv'
<1> USE DEF ps, ss, Sleeps, Handled, Apart, GivenUp
<1>1. Scene(p) /\ MutexInv'
  BY SceneFacts, TakeTokenMutex DEF ExchangeInv
<1>2. tokens = 1 /\ tokens' = 0 /\ ss = "BUSY" /\ \A v \in Workers : pc[v] = "idle"
  BY <1>1 DEF Scene, TakeToken, OneClaim, Busy
<1>3. /\ pc' = [pc EXCEPT ![w] = "mark"] /\ at' = [at EXCEPT ![w] = FindState("WAITING_INIT_SRVR")]
      /\ UNCHANGED <<proxyState, serverState, waiters, handled, tx, got, out, sent, isServer,
                     found>>
  BY DEF TakeToken, nodeVars
<1>4. /\ pc'[p] = pc[p] /\ pc'[w] = "mark" /\ at'[w] = FindState("WAITING_INIT_SRVR")
      /\ \A v \in Workers : v # w => pc'[v] = "idle"
      /\ \A t \in Threads : t # w => at'[t] = at[t] /\ pc'[t] = pc[t]
  BY <1>1, <1>2, <1>3 DEF Scene, TypeOK
<1>5. at'[w] = 0 \/ (at'[w] = 1 /\ ps = "WAITING_INIT_SRVR")
  <2>1. at'[w] = 0 \/ (at'[w] \in NodeIds /\ proxyState[at'[w]] = "WAITING_INIT_SRVR")
    BY <1>4, FindStateFacts
  <2> QED
    BY <1>1, <2>1 DEF Scene, OneNode
<1>6. OneNode'
  BY <1>1, <1>3, <1>4, <1>5 DEF Scene, OneNode
<1>7. OneClaim'
  BY <1>2, <1>3, <1>4 DEF OneClaim, Busy
<1>8. ProxySide(p)'
  BY <1>1, <1>3, <1>4 DEF Scene, ProxySide, Busy
<1>9. at'[w] = 1 => pc'[p] = "greet" \/ Sleeps(p, "wGreet")'
  BY <1>1, <1>2, <1>3, <1>4, <1>5 DEF Scene, ProxySide, Busy
<1>10. ASSUME NEW v \in Workers PROVE WorkerSide(v, p)'
  <2>1. CASE v = w
    BY <1>2, <1>3, <1>4, <1>9, <2>1 DEF WorkerSide, WorkerLabels
  <2>2. CASE v # w
    BY <1>4, <2>2, IdleSide
  <2> QED
    BY <2>1, <2>2
<1> QED
  BY <1>1, <1>6, <1>7, <1>8, <1>10 DEF Scene, ExchangeInv

\* The worker with the token marks the node.
LEMMA MarkExchange ==
    ASSUME OneThread, ExchangeInv, NEW p \in Proxies, NEW w \in Workers, Mark(w)
    PROVE  ExchangeInv'
<1> USE DEF ps, ss, Sleeps, Handled
<1>1. Scene(p) /\ MutexInv' /\ pc[w] = "mark" /\ at[w] = 1
  BY SceneFacts, MarkMutex DEF ExchangeInv, Mark, Scene, OneNode
<1>2. /\ pc' = [pc EXCEPT ![w] = "lock"]
      /\ serverState' = [serverState EXCEPT ![1] = "WAITING_CONT_PRXY"]
      /\ UNCHANGED <<proxyState, tokens, found, at, tx, got, out, sent, isServer, handled, waiters>>
  BY <1>1 DEF Mark
<1>3. pc'[w] = "lock" /\ pc'[p] = pc[p] /\ ss' = "WAITING_CONT_PRXY"
  BY <1>1, <1>2 DEF Scene, TypeOK
<1>4. (pc[p] = "greet" \/ Sleeps(p, "wGreet")) /\ ~Handled(p)
  BY <1>1 DEF Scene, WorkerSide, ProxySide
<1>5. WorkerSide(w, p)'
  BY <1>2, <1>3, <1>4 DEF WorkerSide, WorkerLabels
<1> QED
  BY <1>1, <1>2, <1>3, <1>5, WorkerMoves

\* That worker takes the mutex.
LEMMA OpenExchange ==
    ASSUME OneThread, ExchangeInv, NEW p \in Proxies, NEW w \in Workers, Open(w)
    PROVE  ExchangeInv'
<1> USE DEF ps, ss, Sleeps, Handled, Posted, Unsent
<1>1. Scene(p) /\ MutexInv' /\ pc[w] = "lock" /\ at[w] = 1
  BY SceneFacts, OpenMutex DEF ExchangeInv, Open, Scene, OneNode
<1>2. /\ pc' = [pc EXCEPT ![w] = "req"] /\ got' = [got EXCEPT ![w] = <<>>] /\ mutex[1] = NoThread
      /\ UNCHANGED <<proxyState, serverState, mem, tokens, found, at, tx, out, sent, isServer,
                     handled>>
  BY <1>1 DEF Open
<1>3. pc'[w] = "req" /\ pc'[p] = pc[p] /\ got'[w] = <<>> /\ got'[p] = got[p]
  BY <1>1, <1>2 DEF Scene, TypeOK
<1>4. /\ ss = "WAITING_CONT_PRXY" /\ ~Handled(p)
      /\ pc[p] = "wGreet" \/ ((Posted(p) \/ Unsent(p)) /\ pc[p] = "wResp")
  <2>1. pc[p] \notin Holding
    BY <1>1, <1>2 DEF Scene
  <2>2. WorkerSide(w, p) /\ pc[w] = "lock"
    BY <1>1 DEF Scene
  <2>3. pc[p] \notin {"greet", "start", "send", "recv"}
    BY <2>1 DEF Holding
  <2> QED
    BY <2>2, <2>3 DEF WorkerSide
<1>5. WorkerSide(w, p)'
  BY <1>2, <1>3, <1>4 DEF WorkerSide, WorkerLabels
<1> QED
  BY <1>1, <1>2, <1>3, <1>4, <1>5, WorkerMoves

\* It waits for the request unless proxyState is COMPLETE.
LEMMA AwaitRequestExchange ==
    ASSUME OneThread, ExchangeInv, NEW p \in Proxies, NEW w \in Workers, AwaitRequest(w)
    PROVE  ExchangeInv'
<1> USE DEF ps, ss, Sleeps, Handled, Posted, Unsent
<1>1. Scene(p) /\ MutexInv' /\ pc[w] = "req" /\ at[w] = 1
  BY SceneFacts, AwaitRequestMutex DEF ExchangeInv, AwaitRequest, Scene, OneNode
<1>2. /\ \/ pc' = [pc EXCEPT ![w] = "wReq"] /\ w \in waiters'[1] /\ ps # "COMPLETE"
         \/ pc' = [pc EXCEPT ![w] = "readReq"] /\ ps = "COMPLETE"
      /\ UNCHANGED <<proxyState, serverState, mem, tokens, found, at, tx, got, out, sent, isServer,
                     handled>>
  BY <1>1 DEF AwaitRequest, GoToSleep, Scene, TypeOK
<1>3. /\ pc'[p] = pc[p]
      /\ \/ pc'[w] = "wReq" /\ w \in waiters'[1] /\ ps # "COMPLETE"
         \/ pc'[w] = "readReq" /\ ps = "COMPLETE"
  BY <1>1, <1>2 DEF Scene, TypeOK
<1>4. /\ ss = "WAITING_CONT_PRXY" /\ ~Handled(p)
      /\ \/ Unsent(p)
         \/ got[w] = <<>> /\ pc[p] = "wGreet" /\ ps = "WAITING_INIT_SRVR"
         \/ got[w] = <<>> /\ Posted(p) /\ pc[p] = "wResp"
  BY <1>1 DEF Scene, WorkerSide, ProxySide
<1>5. WorkerSide(w, p)'
  BY <1>2, <1>3, <1>4 DEF WorkerSide, WorkerLabels
<1> QED
  BY <1>1, <1>2, <1>4, <1>5, WorkerMoves

\* The thread gave up on its request: what the worker reads is left over, and
\* it never gets to the end of it.
LEMMA ReadPartExchange ==
    ASSUME OneThread, ExchangeInv, NEW p \in Proxies, NEW w \in Workers, ReadPart(w)
    PROVE  ExchangeInv'
<1> USE DEF ps, ss, Handled, Posted, Unsent
<1>1. Scene(p) /\ MutexInv' /\ pc[w] = "readReq" /\ at[w] = 1
  BY SceneFacts, ReadPartMutex DEF ExchangeInv, ReadPart, Scene, OneNode
<1>2. /\ pc' = [pc EXCEPT ![w] = "req"] /\ got' = [got EXCEPT ![w] = got[w] \o mem[1]]
      /\ ps # "COMPLETE"
      /\ UNCHANGED <<proxyState, serverState, mem, tokens, found, at, tx, out, sent, isServer,
                     handled>>
  BY <1>1 DEF ReadPart
<1>3. pc'[w] = "req" /\ pc'[p] = pc[p] /\ got'[p] = got[p]
  BY <1>1, <1>2 DEF Scene, TypeOK
<1>4. ss = "WAITING_CONT_PRXY" /\ ~Handled(p) /\ Unsent(p)
  BY <1>1, <1>2 DEF Scene, WorkerSide
<1>5. WorkerSide(w, p)'
  BY <1>2, <1>3, <1>4 DEF WorkerSide, WorkerLabels
<1> QED
  BY <1>1, <1>2, <1>3, <1>4, <1>5, WorkerMoves

\* The worker has read the request of the thread, whole, and handles it.
LEMMA ReadLastExchange ==
    ASSUME OneThread, ExchangeInv, NEW p \in Proxies, NEW w \in Workers, ReadLast(w)
    PROVE  /\ ExchangeInv'
           /\ handled' = Append(handled, <<p, tx[p]>>) /\ ~Handled(p) /\ pc[p] = "wResp"
<1> USE DEF ps, ss, Posted
<1>1. Scene(p) /\ MutexInv' /\ pc[w] = "readReq" /\ at[w] = 1
  BY SceneFacts, ReadLastMutex DEF ExchangeInv, ReadLast, Scene, OneNode
<1>2. /\ got[w] = <<>> /\ mem[1] = out[p] /\ got[p] = <<>> /\ pc[p] = "wResp" /\ ~Handled(p)
      /\ ps = "COMPLETE" /\ out[p] = Message("req", <<p, tx[p]>>, 1)
  BY <1>1 DEF Scene, ReadLast, WorkerSide, Unsent, ProxySide
<1>3. out[p] \in Seq(Chunks) /\ Len(out[p]) = 1 /\ out[p][1].id = <<p, tx[p]>>
  <2>1. <<p, tx[p]>> \in Proxies \X Nat
    BY <1>1 DEF Scene, TypeOK
  <2>2. out[p] \in Seq(Chunks) /\ Len(out[p]) = 1
    BY <1>2, <2>1, OneChunk
  <2>3. out[p][1].id = <<p, tx[p]>>
    BY <1>2 DEF Message
  <2> QED
    BY <2>2, <2>3
<1>4. PICK len \in RespLens :
         /\ out' = [out EXCEPT ![w] = Message("resp", <<p, tx[p]>>, len)]
         /\ got' = [got EXCEPT ![w] = <<>> \o out[p]]
         /\ handled' = Append(handled, <<p, tx[p]>>)
         /\ serverState' = [serverState EXCEPT ![1] = "BUSY"]
         /\ pc' = [pc EXCEPT ![w] = "start"]
         /\ UNCHANGED <<proxyState, mem, tokens, found, at, tx, sent, isServer>>
  BY <1>1, <1>2, <1>3 DEF ReadLast
<1>5. <<>> \o out[p] = out[p]
  BY <1>3
<1>6. /\ pc'[w] = "start" /\ pc'[p] = pc[p] /\ ss' = "BUSY" /\ got'[w] = out[p]
      /\ got'[p] = got[p] /\ out'[p] = out[p] /\ out'[w] = Message("resp", <<p, tx[p]>>, len)
  BY <1>1, <1>4, <1>5 DEF Scene, TypeOK
<1>7. Range(handled') = Range(handled) \cup {<<p, tx[p]>>}
  <2>1. handled \in Seq(Proxies \X Nat) /\ <<p, tx[p]>> \in Proxies \X Nat
    BY <1>1 DEF Scene, TypeOK
  <2>2. Range(Append(handled, <<p, tx[p]>>)) = Range(handled) \cup {<<p, tx[p]>>}
    BY <2>1, RangeAppend
  <2> QED
    BY <1>4, <2>2
<1>8. \A h \in Range(handled') : h[1] = p => h[2] <= tx[p]
  BY <1>1, <1>7 DEF Scene, ProxySide, TypeOK
<1>9. WorkerSide(w, p)'
  BY <1>2, <1>4, <1>6, <1>7 DEF WorkerSide, WorkerLabels, Handled
<1>10. ExchangeInv'
  BY <1>1, <1>2, <1>4, <1>6, <1>8, <1>9, WorkerMoves
<1> QED
  BY <1>2, <1>4, <1>10

\* The worker has put its response down and leaves the node.
LEMMA UnlockExchange ==
    ASSUME OneThread, ExchangeInv, NEW p \in Proxies, NEW w \in Workers, Unlock(w)
    PROVE  ExchangeInv'
<1> USE DEF ps, ss, Sleeps, Apart, GivenUp
<1>1. Scene(p) /\ MutexInv' /\ pc[w] = "unlock" /\ at[w] = 1
  BY SceneFacts, UnlockMutex DEF ExchangeInv, Unlock, Scene, OneNode
<1>2. /\ pc' = [pc EXCEPT ![w] = "finish"]
      /\ UNCHANGED <<proxyState, serverState, waiters, tokens, found, at, tx, got, out, sent,
                     isServer, handled>>
  BY DEF Unlock
<1>3. pc'[w] = "finish" /\ pc'[p] = pc[p]
  BY <1>1, <1>2 DEF Scene, TypeOK
<1>4. (ss = "COMPLETE" /\ Apart(p)) \/ (ss = "BUSY" /\ GivenUp(p))
  BY <1>1 DEF Scene, WorkerSide
<1>5. WorkerSide(w, p)'
  BY <1>2, <1>3, <1>4 DEF WorkerSide, WorkerLabels
<1> QED
  BY <1>1, <1>2, <1>4, <1>5, WorkerMoves

\* The node is IDLE again, and no worker is at work.
LEMMA FinishExchange ==
    ASSUME OneThread, ExchangeInv, NEW p \in Proxies, NEW w \in Workers, Finish(w)
    PROVE  ExchangeInv'
<1> USE DEF ps, ss, Sleeps, Apart, GivenUp, Handled
<1>1. Scene(p) /\ MutexInv' /\ pc[w] = "finish" /\ at[w] = 1
  BY SceneFacts, FinishMutex DEF ExchangeInv, Finish, Scene, OneNode
<1>2. /\ pc' = [pc EXCEPT ![w] = "idle"] /\ serverState' = [serverState EXCEPT ![1] = "IDLE"]
      /\ UNCHANGED <<proxyState, waiters, tokens, found, at, tx, got, out, sent, isServer, handled>>
  BY <1>1 DEF Finish
<1>3. ss' = "IDLE" /\ pc'[p] = pc[p] /\ \A v \in Workers : pc'[v] = "idle"
  BY <1>1, <1>2 DEF Scene, TypeOK, OneClaim, Busy
<1>4. tokens = 0
  BY <1>1 DEF Scene, OneClaim, Busy
<1>5. OneClaim'
  BY <1>2, <1>3, <1>4 DEF OneClaim, Busy
<1>6. OneNode'
  BY <1>1, <1>2, <1>3 DEF Scene, OneNode, TypeOK
<1>7. Apart(p) \/ GivenUp(p)
  BY <1>1 DEF Scene, WorkerSide
<1>8. ProxySide(p)'
  BY <1>1, <1>2, <1>3, <1>7 DEF Scene, ProxySide
<1>9. \A v \in Workers : WorkerSide(v, p)'
  BY <1>3, IdleSide
<1> QED
  BY <1>1, <1>5, <1>6, <1>8, <1>9 DEF Scene, ExchangeInv

\* A worker that sleeps is woken by the thread only when there is something
\* for it: its request, the room for the next chunk, or the end.
LEMMA WorkerWakeUpExchange ==
    ASSUME OneThread, ExchangeInv, NEW p \in Proxies, NEW w \in Workers, WakeUp(w)
    PROVE  ExchangeInv'
<1> USE DEF ps, ss, Sleeps, Handled
<1>1. Scene(p) /\ MutexInv' /\ pc[w] \in {"wReq", "wChunk", "wDone"} /\ at[w] = 1
  <2>1. Scene(p)
    BY SceneFacts
  <2>2. MutexInv' /\ pc[w] \in Asleep
    BY <2>1, WakeUpMutex DEF ExchangeInv, WakeUp, Scene
  <2> QED
    BY <2>1, <2>2 DEF Scene, WorkerSide, WorkerLabels, OneNode, Asleep
<1>2. /\ w \notin waiters[1] /\ mutex[1] = NoThread
      /\ \/ pc[w] = "wReq" /\ pc' = [pc EXCEPT ![w] = "readReq"]
         \/ pc[w] = "wChunk" /\ pc' = [pc EXCEPT ![w] = "send"]
         \/ pc[w] = "wDone" /\ pc' = [pc EXCEPT ![w] = "unlock"]
      /\ UNCHANGED <<proxyState, serverState, mem, waiters, tokens, found, at, tx, got, out, sent,
                     isServer, handled>>
  BY <1>1 DEF WakeUp, AfterWait, AfterSend, Scene
<1>3. WorkerSide(w, p) /\ pc'[p] = pc[p] /\ pc[p] \notin Holding
  BY <1>1, <1>2 DEF Scene, TypeOK
<1>4. pc[p] \notin {"recv", "send", "start", "readResp"}
  BY <1>3 DEF Holding
<1>5. WorkerSide(w, p)'
  <2>1. CASE pc[w] = "wReq"
    <3>1. pc'[w] = "readReq"
      BY <1>1, <1>2, <2>1 DEF Scene, TypeOK
    <3>2. /\ ss = "WAITING_CONT_PRXY" /\ ~Handled(p)
          /\ Unsent(p) \/ (got[w] = <<>> /\ Posted(p) /\ pc[p] = "wResp")
      BY <1>2, <1>3, <1>4, <2>1 DEF WorkerSide
    <3> QED
      BY <1>2, <1>3, <3>1, <3>2 DEF WorkerSide, WorkerLabels, Posted, Unsent
  <2>2. CASE pc[w] = "wChunk"
    <3>1. pc'[w] = "send"
      BY <1>1, <1>2, <2>2 DEF Scene, TypeOK
    <3>2. /\ ss = "WAITING_CONT_PRXY" /\ Answers(w, p) /\ pc[p] = "wResp"
          /\ sent[w] \in 1 .. Len(out[w]) - 1 /\ got[p] = SubSeq(out[w], 1, sent[w])
      BY <1>2, <1>3, <1>4, <2>2 DEF WorkerSide
    <3>3. sent[w] < Len(out[w])
      BY <1>1, <3>2 DEF Scene, TypeOK
    <3> QED
      BY <1>2, <1>3, <3>1, <3>2, <3>3 DEF WorkerSide, WorkerLabels, Answers
  <2>3. CASE pc[w] = "wDone"
    <3>1. pc'[w] = "unlock"
      BY <1>1, <1>2, <2>3 DEF Scene, TypeOK
    <3>2. ss = "COMPLETE" /\ Apart(p)
      BY <1>2, <1>3, <1>4, <2>3 DEF WorkerSide
    <3> QED
      BY <1>2, <1>3, <3>1, <3>2 DEF WorkerSide, WorkerLabels, Apart
  <2> QED
    BY <1>1, <2>1, <2>2, <2>3
<1>6. ss # "IDLE"
  BY <1>1, <1>3 DEF WorkerSide
<1> QED
  BY <1>1, <1>2, <1>5, <1>6, WorkerMoves

\* The response has a first chunk to send.
LEMMA ResponseFacts ==
    ASSUME NEW p \in Proxies, Scene(p), NEW w \in Workers,
           \E len \in RespLens : out[w] = Message("resp", <<p, tx[p]>>, len)
    PROVE  out[w] \in Seq(Chunks) /\ Len(out[w]) \in Nat \ {0}
<1>1. PICK len \in RespLens : out[w] = Message("resp", <<p, tx[p]>>, len)
  OBVIOUS
<1>2. len \in Nat \ {0} /\ <<p, tx[p]>> \in Proxies \X Nat
  BY SharedMemAssumption DEF Scene, TypeOK
<1> QED
  BY <1>1, <1>2, MessageFacts

\* sendShared() takes the worker for the server, since the request is COMPLETE.
LEMMA WorkerStartSendExchange ==
    ASSUME OneThread, ExchangeInv, NEW p \in Proxies, NEW w \in Workers,
           StartSend(w) \/ SendNothing(w)
    PROVE  ExchangeInv'
<1> USE DEF ps, ss, Handled, Posted, GivenUp
<1>1. Scene(p) /\ MutexInv' /\ pc[w] = "start" /\ at[w] = 1
  <2>1. Scene(p)
    BY SceneFacts
  <2> QED
    BY <2>1, StartSendMutex, SendNothingMutex
       DEF ExchangeInv, StartSend, SendNothing, Scene, OneNode
<1>2. /\ ss = "BUSY" /\ ps = "COMPLETE" /\ got[p] = <<>> /\ pc[p] = "wResp" /\ Handled(p)
      /\ \E len \in RespLens : out[w] = Message("resp", <<p, tx[p]>>, len)
  BY <1>1 DEF Scene, WorkerSide
<1>3. out[w] \in Seq(Chunks) /\ Len(out[w]) \in Nat \ {0}
  BY <1>1, <1>2, ResponseFacts
<1>4. /\ \/ /\ pc' = [pc EXCEPT ![w] = "send"] /\ sent' = [sent EXCEPT ![w] = 0]
            /\ isServer' = [isServer EXCEPT ![w] = TRUE]
         \/ pc' = [pc EXCEPT ![w] = "unlock"] /\ UNCHANGED <<sent, isServer>>
      /\ UNCHANGED <<at, proxyState, serverState, handled, tx, got, out, tokens, found>>
  BY <1>1, <1>2 DEF Scene, StartSend, SendNothing, AfterSend, nodeVars
<1>5. /\ \/ pc'[w] = "send" /\ sent'[w] = 0 /\ isServer'[w]
         \/ pc'[w] = "unlock"
      /\ pc'[p] = pc[p] /\ sent'[p] = sent[p] /\ isServer'[p] = isServer[p]
  BY <1>1, <1>4 DEF Scene, TypeOK
<1>6. SubSeq(out[w], 1, 0) = <<>> /\ 0 < Len(out[w])
  BY <1>3, PrefixFacts
<1>7. WorkerSide(w, p)'
  <2>1. CASE pc'[w] = "send" /\ sent'[w] = 0 /\ isServer'[w]
    BY <1>2, <1>4, <1>5, <1>6, <2>1 DEF WorkerSide, WorkerLabels, Answers
  <2>2. CASE pc'[w] = "unlock"
    BY <1>2, <1>4, <1>5, <2>2 DEF WorkerSide, WorkerLabels
  <2> QED
    BY <1>5, <2>1, <2>2
<1> QED
  BY <1>1, <1>2, <1>4, <1>5, <1>7, WorkerMoves

\* The next chunk of the response is mapped when the thread has read the last
\* one, and the worker waits until it is read.
LEMMA WorkerSendExchange ==
    ASSUME OneThread, ExchangeInv, NEW p \in Proxies, NEW w \in Workers,
           SendPart(w) \/ SendLast(w)
    PROVE  ExchangeInv'
<1> USE DEF ps, ss, Handled, Sleeps
<1>1. Scene(p) /\ MutexInv' /\ pc[w] = "send" /\ at[w] = 1
  <2>1. Scene(p)
    BY SceneFacts
  <2> QED
    BY <2>1, SendPartMutex, SendLastMutex DEF ExchangeInv, SendPart, SendLast, Scene, OneNode
<1>2. /\ pc[p] = "wResp" /\ Answers(w, p)
      /\ sent[w] < Len(out[w]) /\ got[p] = SubSeq(out[w], 1, sent[w])
  BY <1>1 DEF Scene, WorkerSide
<1>3. out[w] \in Seq(Chunks) /\ Len(out[w]) \in Nat \ {0} /\ sent[w] \in Nat
  BY <1>1, <1>2, ResponseFacts DEF Answers, Scene, TypeOK
<1>4. isServer[w]
  BY <1>2 DEF Answers
<1>5. /\ \/ /\ pc' = [pc EXCEPT ![w] = "wChunk"] /\ sent[w] + 1 < Len(out[w])
            /\ serverState' = [serverState EXCEPT ![1] = "WAITING_CONT_PRXY"]
         \/ /\ pc' = [pc EXCEPT ![w] = "wDone"] /\ sent[w] + 1 = Len(out[w])
            /\ serverState' = [serverState EXCEPT ![1] = "COMPLETE"]
      /\ sent' = [sent EXCEPT ![w] = sent[w] + 1]
      /\ mem' = [mem EXCEPT ![1] = <<out[w][sent[w] + 1]>>]
      /\ UNCHANGED <<at, proxyState, isServer, handled, tx, got, out, tokens, found>>
  BY <1>1, <1>4 DEF SendPart, SendLast, SetMapping, SetState
<1>6. w \in waiters'[1]
  <2>1. PICK S : waiters' = [waiters EXCEPT ![1] = S \cup {w}]
    BY <1>1, <1>4 DEF SendPart, SendLast
  <2> QED
    BY <1>1, <2>1 DEF Scene, TypeOK
<1>7. /\ \/ pc'[w] = "wChunk" /\ sent[w] + 1 < Len(out[w]) /\ ss' = "WAITING_CONT_PRXY"
         \/ pc'[w] = "wDone" /\ sent[w] + 1 = Len(out[w]) /\ ss' = "COMPLETE"
      /\ pc'[p] = pc[p] /\ sent'[p] = sent[p] /\ sent'[w] = sent[w] + 1
      /\ mem'[1] = <<out[w][sent[w] + 1]>>
  BY <1>1, <1>5 DEF Scene, TypeOK
<1>8. /\ Answers(w, p)' /\ got'[p] = SubSeq(out'[w], 1, sent'[w] - 1)
      /\ mem'[1] = <<out'[w][sent'[w]]>>
  <2>1. sent'[w] - 1 = sent[w]
    BY <1>3, <1>7
  <2> QED
    BY <1>2, <1>5, <1>7, <2>1 DEF Answers
<1>9. WorkerSide(w, p)'
  <2>1. CASE pc'[w] = "wChunk" /\ sent[w] + 1 < Len(out[w]) /\ ss' = "WAITING_CONT_PRXY"
    <3>1. sent'[w] \in 1 .. Len(out'[w]) - 1
      BY <1>3, <1>5, <1>7, <2>1
    <3> QED
      BY <1>2, <1>6, <1>7, <1>8, <2>1, <3>1 DEF WorkerSide, WorkerLabels
  <2>2. CASE pc'[w] = "wDone" /\ sent[w] + 1 = Len(out[w]) /\ ss' = "COMPLETE"
    <3>1. sent'[w] = Len(out'[w]) /\ isServer'[w]
      BY <1>4, <1>5, <1>7, <2>2
    <3> QED
      BY <1>2, <1>6, <1>7, <1>8, <2>2, <3>1 DEF WorkerSide, WorkerLabels
  <2> QED
    BY <1>7, <2>1, <2>2
<1> QED
  BY <1>1, <1>5, <1>7, <1>9, WorkerMoves

----------------------------------------------------------------------------
\* Both sides depend on nothing but the nodes, the threads and the history.
LEMMA SidesKept ==
    ASSUME NEW p \in Proxies, ProxySide(p), \A w \in Workers : WorkerSide(w, p),
           UNCHANGED <<nodeVars, threadVars, handled>>
    PROVE  ProxySide(p)' /\ \A w \in Workers : WorkerSide(w, p)'
<1>1. UNCHANGED <<proxyState, serverState, mem, waiters, pc, at, out, sent, isServer, got, tx, handled>>
  BY DEF nodeVars, threadVars
<1>2. ps' = ps /\ ss' = ss /\ (Handled(p)' <=> Handled(p)) /\ (Apart(p)' <=> Apart(p))
      /\ (GivenUp(p)' <=> GivenUp(p)) /\ (Posted(p)' <=> Posted(p)) /\ (Unsent(p)' <=> Unsent(p))
  BY <1>1 DEF ps, ss, Handled, Apart, GivenUp, Posted, Unsent, Sleeps
<1>3. ProxySide(p)'
  BY <1>1, <1>2 DEF ProxySide, Busy
<1>4. ASSUME NEW w \in Workers PROVE WorkerSide(w, p)'
  <2>1. (Answers(w, p)' <=> Answers(w, p)) /\ WorkerSide(w, p)
    BY <1>1, <1>2 DEF Answers
  <2>2. \A t, l : Sleeps(t, l)' <=> Sleeps(t, l)
    BY <1>1 DEF Sleeps
  <2> QED
    BY <1>1, <1>2, <2>1, <2>2 DEF WorkerSide
<1> QED
  BY <1>3, <1>4

\* main() finds the node of the thread, perhaps late, and claims it only when
\* no worker has it.
LEMMA MainExchange == ASSUME OneThread, ExchangeInv, NEW p \in Proxies, MainStep PROVE ExchangeInv'
<1> USE DEF ps, ss, Sleeps, Handled
<1>1. Scene(p) /\ MutexInv'
  BY SceneFacts, OtherMutex DEF ExchangeInv
<1>2. CASE Poll
  <2>1. /\ found' = FindState("WAITING_INIT_SRVR") /\ found' # 0
        /\ UNCHANGED <<nodeVars, tokens, threadVars, handled, fate>>
    BY <1>2 DEF Poll
  <2>2. found' \in NodeIds /\ proxyState[found'] = "WAITING_INIT_SRVR"
    BY <2>1, FindStateFacts
  <2>3. found' = 1
    BY <1>1, <2>2 DEF Scene, OneNode
  <2>4. OneNode' /\ OneClaim'
    BY <1>1, <2>1, <2>3 DEF Scene, OneNode, OneClaim, Busy, nodeVars, threadVars
  <2>5. ProxySide(p)' /\ \A w \in Workers : WorkerSide(w, p)'
    BY <1>1, <2>1, SidesKept DEF Scene
  <2> QED
    BY <1>1, <2>4, <2>5 DEF Scene, ExchangeInv
<1>3. CASE Claim
  <2>1. found = 1
    BY <1>1, <1>3 DEF Scene, OneNode, Claim
  <2>2. /\ found' = 0 /\ UNCHANGED <<proxyState, mem, mutex, waiters, threadVars, handled, fate>>
        /\ \/ UNCHANGED <<serverState, tokens>>
           \/ /\ ss = "IDLE" /\ serverState' = [serverState EXCEPT ![1] = "BUSY"]
              /\ tokens' = tokens + 1
    BY <1>3, <2>1 DEF Claim
  <2>3. OneNode'
    BY <1>1, <2>2 DEF Scene, OneNode, threadVars
  <2>4. CASE UNCHANGED <<serverState, tokens>>
    <3>1. OneClaim'
      BY <1>1, <2>2, <2>4 DEF Scene, OneClaim, Busy, threadVars
    <3>2. ProxySide(p)' /\ \A w \in Workers : WorkerSide(w, p)'
      BY <1>1, <2>2, <2>4, SidesKept DEF Scene, nodeVars
    <3> QED
      BY <1>1, <2>3, <3>1, <3>2 DEF Scene, ExchangeInv
  <2>5. CASE ss = "IDLE" /\ serverState' = [serverState EXCEPT ![1] = "BUSY"] /\ tokens' = tokens + 1
    <3>1. ss' = "BUSY" /\ tokens = 0 /\ tokens' = 1
          /\ \A w \in Workers : pc[w] = "idle" /\ pc'[w] = "idle"
      BY <1>1, <2>2, <2>5 DEF Scene, OneClaim, Busy, TypeOK, threadVars
    <3>2. OneClaim'
      BY <3>1 DEF OneClaim, Busy
    <3>3. ProxySide(p)'
      BY <1>1, <2>2, <3>1 DEF Scene, ProxySide, Busy, Apart, GivenUp, threadVars
    <3>4. \A w \in Workers : WorkerSide(w, p)'
      BY <3>1, IdleSide
    <3> QED
      BY <1>1, <2>3, <3>2, <3>3, <3>4 DEF Scene, ExchangeInv
  <2> QED
    BY <2>2, <2>4, <2>5
<1> QED
  BY <1>2, <1>3 DEF MainStep

\* A process that dies stops everything; nothing else stutters.
LEMMA StopExchange ==
    ASSUME ExchangeInv, (\E t \in Threads : Fatal(t)) \/ UNCHANGED vars
    PROVE  ExchangeInv'
<1>1. MutexInv'
  BY OtherMutex DEF ExchangeInv
<1>2. UNCHANGED <<nodeVars, tokens, found, threadVars, handled>>
  BY DEF Fatal, vars
<1>3. OneNode' /\ OneClaim'
  BY <1>2 DEF ExchangeInv, OneNode, OneClaim, Busy, ss, nodeVars, threadVars
<1>4. ASSUME NEW p \in Proxies PROVE ProxySide(p)' /\ \A w \in Workers : WorkerSide(w, p)'
  BY <1>2, SidesKept DEF ExchangeInv
<1> QED
  BY <1>1, <1>3, <1>4 DEF ExchangeInv

\* At first nobody is at a node.
LEMMA ExchangeInit == ASSUME OneThread, Init PROVE ExchangeInv
<1> USE SharedMemAssumption
<1>1. MutexInv
  BY MutexInvInit
<1>2. 1 \in NodeIds /\ Proxies \subseteq Threads /\ Workers \subseteq Threads
  BY DEF NodeIds, Threads
<1>3. OneNode /\ OneClaim
  BY <1>2 DEF Init, OneNode, OneClaim, Busy, ss
<1>4. Range(handled) = {}
  BY DEF Init, Range
<1>5. ASSUME NEW p \in Proxies PROVE ProxySide(p) /\ \A w \in Workers : WorkerSide(w, p)
  BY <1>2, <1>4 DEF Init, ProxySide, WorkerSide, ps, ss, Apart, ProxyLabels, WorkerLabels
<1> QED
  BY <1>1, <1>3, <1>5 DEF ExchangeInv

\* Every step of a thread keeps the exchange in one of its stages.
LEMMA ExchangeStep == ASSUME OneThread, ExchangeInv, [Next]_vars PROVE ExchangeInv'
<1>1. PICK p : Proxies = {p}
  BY DEF OneThread
<1> HIDE DEF OneThread
<1>2. CASE UNCHANGED vars
  BY <1>2, StopExchange
<1>3. CASE MainStep
  BY <1>1, <1>3, MainExchange
<1>4. CASE ProxyStep(p)
  BY <1>1, <1>4, BeginExchange, UseSocketExchange, PostExchange, GreetExchange,
     AwaitResponseExchange, ReadResponseExchange, ResetExchange DEF ProxyStep
<1>5. ASSUME NEW w \in Workers, WorkerStep(w) PROVE ExchangeInv'
  BY <1>1, <1>5, TakeTokenExchange, MarkExchange, OpenExchange, AwaitRequestExchange,
     ReadPartExchange, ReadLastExchange, UnlockExchange, FinishExchange DEF WorkerStep
<1>6. CASE CommonStep(p)
  BY <1>1, <1>6, ProxyWakeUpExchange, ProxyStartSendExchange, ProxySendExchange, StopExchange
     DEF CommonStep, Threads
<1>7. ASSUME NEW w \in Workers, CommonStep(w) PROVE ExchangeInv'
  BY <1>1, <1>7, WorkerWakeUpExchange, WorkerStartSendExchange, WorkerSendExchange, StopExchange
     DEF CommonStep, Threads
<1>8. \A t \in Threads : ~SpuriousWake(t)
  BY DEF SpuriousWake, OneThread
<1> QED
  BY <1>1, <1>2, <1>3, <1>4, <1>5, <1>6, <1>7, <1>8 DEF Next, Threads

\* ExchangeInv, the inductive invariant of the exchange of one proxy thread
\* with any number of workers.
THEOREM ExchangeInvariant == ASSUME OneThread PROVE Spec => []ExchangeInv
  BY ExchangeInit, ExchangeStep, PTL DEF Spec

\* The request that the server handles is one that the thread waits with, whole.
THEOREM RequestsAreIntact == ASSUME OneThread PROVE Spec => []RequestIntact
<1>1. ExchangeInv => RequestIntact
  <2> SUFFICES ASSUME ExchangeInv, NEW w \in Workers, pc[w] = "start"
               PROVE  \E p \in Proxies, len \in ReqLens :
                         /\ pc[p] # "idle" /\ got[w] = Message("req", <<p, tx[p]>>, len)
                         /\ got[w] = out[p]
    BY DEF RequestIntact
  <2>1. PICK p \in Proxies : TRUE
    BY DEF OneThread
  <2>2. WorkerSide(w, p) /\ ProxySide(p)
    BY DEF ExchangeInv
  <2>3. pc[p] = "wResp" /\ got[w] = out[p] /\ out[p] = Message("req", <<p, tx[p]>>, 1)
    BY <2>2 DEF WorkerSide, ProxySide
  <2> QED
    BY <2>3 DEF OneThread
<1> QED
  BY ExchangeInvariant, <1>1, PTL

\* What the thread forwards to its client is the whole response to its request.
THEOREM ResponsesAreIntact == ASSUME OneThread PROVE Spec => []ResponseIntact
<1>1. ExchangeInv => ResponseIntact
  BY DEF ExchangeInv, ResponseIntact, ProxySide
<1> QED
  BY ExchangeInvariant, <1>1, PTL

\* main() never sends a second worker to a node.
THEOREM WorkersAreApart == ASSUME OneThread PROVE Spec => []OneWorkerPerNode
<1>1. ExchangeInv => OneWorkerPerNode
  BY DEF ExchangeInv, OneWorkerPerNode, OneClaim
<1> QED
  BY ExchangeInvariant, <1>1, PTL

\* sendShared() guesses right on which side it is called.
THEOREM SidesAreRight == ASSUME OneThread PROVE Spec => []RightSide
<1>1. ExchangeInv => RightSide
  <2> SUFFICES ASSUME ExchangeInv, NEW t \in Threads, pc[t] \in {"send", "wChunk", "wDone"}
               PROVE  isServer[t] = (t \in Workers)
    BY DEF RightSide
  <2>1. PICK p \in Proxies : Proxies = {p}
    BY DEF OneThread
  <2>2. isServer[t] \in BOOLEAN
    BY DEF ExchangeInv, MutexInv, TypeOK
  <2>3. CASE t \in Workers
    BY <2>2, <2>3 DEF ExchangeInv, WorkerSide, Answers
  <2>4. CASE t = p
    <3>1. ~isServer[t] /\ t \notin Workers
      BY <2>4, SharedMemAssumption DEF ExchangeInv, ProxySide, ProxyLabels
    <3> QED
      BY <2>2, <3>1
  <2> QED
    BY <2>1, <2>3, <2>4 DEF Threads
<1> QED
  BY ExchangeInvariant, <1>1, PTL

----------------------------------------------------------------------------
(* Refinement of RequestReply.                                             *)

\* A step that neither begins nor ends a call, and handles none.
LEMMA CallKept ==
    ASSUME TypeOK, NEW t \in Threads, NEW l, pc' = [pc EXCEPT ![t] = l],
           t \in Workers \/ (pc[t] # "idle" /\ l # "idle"), UNCHANGED <<tx, handled>>
    PROVE  UNCHANGED Rpc!vars
<1>1. \A p \in Proxies : pc'[p] = "idle" <=> pc[p] = "idle"
  BY SharedMemAssumption DEF TypeOK, Threads
<1>2. Call' = Call
  BY <1>1 DEF Call
<1> QED
  BY <1>2 DEF Rpc!vars

\* What both sides do in the same way shows nothing to the caller.
LEMMA RpcCommon ==
    ASSUME ExchangeInv, NEW t \in Threads, CommonStep(t) PROVE UNCHANGED Rpc!vars
<1>1. TypeOK
  BY DEF ExchangeInv, MutexInv
<1>2. CASE Fatal(t)
  BY <1>2 DEF Fatal, threadVars, Rpc!vars, Call
<1>3. CASE WakeUp(t)
  BY <1>1, <1>3, CallKept DEF WakeUp, AfterWait, AfterSend, Asleep
<1>4. CASE StartSend(t) \/ SendNothing(t)
  BY <1>1, <1>4, CallKept DEF StartSend, SendNothing, AfterSend
<1>5. CASE SendPart(t)
  BY <1>1, <1>5, CallKept DEF SendPart
<1>6. CASE SendLast(t)
  BY <1>1, <1>6, CallKept DEF SendLast, AfterSend
<1> QED
  BY <1>2, <1>3, <1>4, <1>5, <1>6 DEF CommonStep

\* A step of the proxy asks, answers, or shows nothing.
LEMMA RpcProxy ==
    ASSUME OneThread, ExchangeInv, NEW p \in Proxies, ProxyStep(p) PROVE [Rpc!Next]_(Rpc!vars)
<1>1. Scene(p) /\ TypeOK /\ p \in Threads
  BY SceneFacts DEF Scene
<1>2. CASE Begin(p)
  <2>1. Call[p] = NoCall /\ tx[p] + 1 \in 1 .. MaxTx
    BY <1>1, <1>2, SharedMemAssumption DEF Begin, Call, TypeOK
  <2>2. <<p, tx[p] + 1>> \notin Range(handled)
    <3>1. tx[p] \in Nat /\ \A h \in Range(handled) : h[1] = p => h[2] <= tx[p]
      BY <1>1 DEF Scene, ProxySide, TypeOK
    <3> QED
      BY <3>1
  <2>3. Call' = [Call EXCEPT ![p] = <<p, tx[p] + 1>>]
    <3>1. pc'[p] = "lock" /\ tx'[p] = tx[p] + 1 /\ Proxies = {p}
      BY <1>1, <1>2 DEF Begin, TypeOK, Scene
    <3>2. Call' = [q \in Proxies |-> <<p, tx[p] + 1>>]
      BY <3>1 DEF Call
    <3> QED
      BY <3>1, <3>2 DEF Call
  <2>4. handled' = handled
    BY <1>2 DEF Begin
  <2>5. Rpc!Ask(p, tx[p] + 1)
    BY <2>1, <2>2, <2>3, <2>4 DEF Rpc!Ask, Rpc!Range, Range
  <2> QED
    BY <2>1, <2>5 DEF Rpc!Next
<1>3. CASE Reset(p)
  <2>1. Call[p] \in Range(handled)
    BY <1>1, <1>3 DEF Reset, Scene, ProxySide, Handled, Call
  <2>2. Call' = [Call EXCEPT ![p] = NoCall] /\ handled' = handled
    BY <1>1, <1>3 DEF Reset, Call, TypeOK, Scene
  <2> QED
    BY <2>1, <2>2 DEF Rpc!Next, Rpc!Answer, Rpc!Range, Range
<1>4. CASE UseSocket(p)
  BY <1>1, <1>4 DEF UseSocket, Rpc!vars, Call, Scene
<1>5. CASE Post(p) \/ Greet(p) \/ AwaitResponse(p)
  BY <1>1, <1>5, CallKept DEF Post, Greet, AwaitResponse, GoToSleep
<1>6. CASE ReadResponse(p)
  BY <1>1, <1>6, CallKept DEF ReadResponse
<1> QED
  BY <1>2, <1>3, <1>4, <1>5, <1>6 DEF ProxyStep

\* A step of a worker handles the request, or shows nothing.
LEMMA RpcWorker ==
    ASSUME OneThread, ExchangeInv, NEW w \in Workers, WorkerStep(w) PROVE [Rpc!Next]_(Rpc!vars)
<1>1. TypeOK /\ w \in Threads
  BY DEF ExchangeInv, MutexInv, Threads
<1>2. CASE ReadLast(w)
  <2>1. PICK p \in Proxies : TRUE
    BY DEF OneThread
  <2>2. handled' = Append(handled, <<p, tx[p]>>) /\ ~Handled(p) /\ pc[p] = "wResp"
    BY <1>2, ReadLastExchange
  <2>3. Call[p] = <<p, tx[p]>> /\ <<p, tx[p]>> \in Proxies \X Nat
    BY <1>1, <2>2 DEF Call, TypeOK
  <2>4. Call' = Call
    <3>1. \A q \in Proxies : pc'[q] = pc[q]
      BY <1>1, <1>2, SharedMemAssumption DEF ReadLast, TypeOK
    <3> QED
      BY <1>2, <3>1 DEF Call, ReadLast
  <2> QED
    BY <2>2, <2>3, <2>4, SharedMemAssumption DEF Rpc!Next, Rpc!Handle, Rpc!Range, Range, Handled
<1>3. CASE TakeToken(w) \/ Mark(w) \/ Open(w) \/ ReadPart(w) \/ Unlock(w) \/ Finish(w)
  BY <1>1, <1>3, CallKept DEF TakeToken, Mark, Open, ReadPart, Unlock, Finish
<1>4. CASE AwaitRequest(w)
  BY <1>1, <1>4, CallKept DEF AwaitRequest, GoToSleep
<1> QED
  BY <1>2, <1>3, <1>4 DEF WorkerStep

\* The exchange implements request and reply: every request is handled exactly
\* once, and answered only after that.
THEOREM ExchangeImplementsRpc == ASSUME OneThread PROVE Spec => RpcSpec
<1>1. Init => Rpc!Init
  BY SharedMemAssumption DEF Init, Rpc!Init, Call, Threads
<1>2. ExchangeInv /\ [Next]_vars => [Rpc!Next]_(Rpc!vars)
  <2> SUFFICES ASSUME ExchangeInv, [Next]_vars PROVE [Rpc!Next]_(Rpc!vars)
    OBVIOUS
  <2>1. CASE MainStep \/ UNCHANGED vars
    <3>1. UNCHANGED <<threadVars, handled>>
      BY <2>1 DEF MainStep, Poll, Claim, vars
    <3> QED
      BY <3>1 DEF threadVars, Rpc!vars, Call
  <2>2. \A t \in Threads : ~SpuriousWake(t)
    BY DEF SpuriousWake, OneThread
  <2>3. ASSUME NEW p \in Proxies, ProxyStep(p) PROVE [Rpc!Next]_(Rpc!vars)
    BY <2>3, RpcProxy
  <2>4. ASSUME NEW w \in Workers, WorkerStep(w) PROVE [Rpc!Next]_(Rpc!vars)
    BY <2>4, RpcWorker
  <2>5. ASSUME NEW t \in Threads, CommonStep(t) PROVE [Rpc!Next]_(Rpc!vars)
    BY <2>5, RpcCommon
  <2> QED
    BY <2>1, <2>2, <2>3, <2>4, <2>5 DEF Next
<1> QED
  BY ExchangeInvariant, <1>1, <1>2, PTL DEF Spec, RpcSpec, Rpc!Spec
=============================================================================
