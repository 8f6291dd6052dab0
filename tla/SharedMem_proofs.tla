-------------------------- MODULE SharedMem_proofs --------------------------
(***************************************************************************)
(* TypeOK and NodeMutex of SharedMem for every number of threads and       *)
(* nodes. The inductive invariant MutexInv says which labels a thread has  *)
(* the mutex of its node at; one lemma for each action shows that it is    *)
(* kept.                                                                   *)
(***************************************************************************)
EXTENDS SharedMem, DataLemmas

\* A message is a sequence of its chunks.
LEMMA MessageFacts ==
    ASSUME NEW kind \in {"req", "resp"}, NEW id \in Proxies \X Nat, NEW len \in Nat \ {0}
    PROVE  /\ Message(kind, id, len) \in Seq(Chunks)
           /\ Len(Message(kind, id, len)) = len
  BY DEF Message, Chunks

\* findState() gives the first node in that state, or NULL if there is none.
LEMMA FindStateFacts ==
    ASSUME NEW s
    PROVE  /\ FindState(s) \in {0} \cup NodeIds
           /\ FindState(s) # 0 => proxyState[FindState(s)] = s
           /\ \A n \in NodeIds : proxyState[n] = s => FindState(s) \in 1 .. n
<1> DEFINE match == {n \in NodeIds : proxyState[n] = s}
<1> USE SharedMemAssumption
<1>1. CASE match = {}
  BY <1>1 DEF FindState
<1>2. CASE match # {}
  <2>1. match \subseteq Nat
    BY DEF NodeIds
  <2>2. \E n \in match : \A m \in match : n <= m
    BY <1>2, <2>1, LeastOne
  <2>3. FindState(s) \in match /\ \A m \in match : FindState(s) <= m
    BY <1>2, <2>2 DEF FindState
  <2> QED
    BY <2>3 DEF NodeIds
<1> QED
  BY <1>1, <1>2

----------------------------------------------------------------------------
\* pthread_cond_signal() wakes sleepers of that node only, at most one.
LEMMA SignalFacts ==
    ASSUME TypeOK, NEW t \in Threads, NEW n \in NodeIds, NEW S \in Signal(t, n)
    PROVE  /\ S \subseteq waiters[n]
           /\ S \in SUBSET Threads /\ S \cup {t} \in SUBSET Threads
<1>1. S \subseteq waiters[n]
  BY DEF Signal
<1>2. waiters[n] \subseteq Threads
  BY DEF TypeOK
<1> QED
  BY <1>1, <1>2

\* Sleepers are threads, whoever is woken and whoever goes to sleep.
LEMMA SleepersType ==
    ASSUME TypeOK, NEW t \in Threads, NEW n \in NodeIds, NEW S \in Signal(t, n) \cup {waiters[n]}
    PROVE  /\ [waiters EXCEPT ![n] = S] \in [NodeIds -> SUBSET Threads]
           /\ [waiters EXCEPT ![n] = S \cup {t}] \in [NodeIds -> SUBSET Threads]
<1>1. S \in SUBSET Threads /\ S \cup {t} \in SUBSET Threads
  BY SignalFacts DEF TypeOK
<1> QED
  BY <1>1 DEF TypeOK

\* In the first state nobody has a mutex.
LEMMA MutexInvInit == Init => MutexInv
<1> SUFFICES ASSUME Init PROVE MutexInv
  OBVIOUS
<1> USE SharedMemAssumption, MaxFaultsNat DEF Init, NodeIds, Threads
<1>1. TypeOK
  <2>1. /\ proxyState \in [NodeIds -> States] /\ serverState \in [NodeIds -> States]
        /\ mem \in [NodeIds -> Seq(Chunks)]
        /\ mutex \in [NodeIds -> Threads \cup {NoThread}]
        /\ waiters \in [NodeIds -> SUBSET Threads]
    BY DEF States
  <2>2. /\ pc \in [Threads -> Labels]
        /\ at \in [Threads -> {0} \cup NodeIds]
        /\ out \in [Threads -> Seq(Chunks)] /\ got \in [Threads -> Seq(Chunks)]
        /\ sent \in [Threads -> Nat] /\ isServer \in [Threads -> BOOLEAN]
    BY DEF Labels, ProxyLabels
  <2>3. /\ tokens \in Nat /\ found \in {0} \cup NodeIds
        /\ tx \in [Proxies -> Nat] /\ handled \in Seq(Proxies \X Nat)
        /\ faults \in 0 .. MaxFaults
    OBVIOUS
  <2>4. dead \in BOOLEAN
    OBVIOUS
  <2> QED
    BY <2>1, <2>2, <2>3, <2>4 DEF TypeOK
<1>2. AtNode /\ NodeMutex
  BY DEF AtNode, NodeMutex, Holding
<1> QED
  BY <1>1, <1>2 DEF MutexInv

\* The mutex moves with the label: a thread that enters the labels of Holding
\* finds the mutex free and takes it, one that leaves them gives it back.
LEMMA MutexMoves ==
    ASSUME MutexInv, NEW t \in Threads,
           at' = at, at[t] \in NodeIds,
           NEW l, pc' = [pc EXCEPT ![t] = l], l # "mark",
           \/ mutex' = mutex /\ (pc[t] \in Holding <=> l \in Holding)
           \/ mutex' = [mutex EXCEPT ![at[t]] = t] /\ mutex[at[t]] = NoThread /\ l \in Holding
           \/ mutex' = [mutex EXCEPT ![at[t]] = NoThread] /\ pc[t] \in Holding /\ l \notin Holding
    PROVE  AtNode' /\ NodeMutex'
<1> USE SharedMemAssumption
<1>1. AtNode'
  BY DEF MutexInv, TypeOK, AtNode
<1>2. NodeMutex'
  <2> SUFFICES ASSUME NEW s \in Threads, NEW n \in NodeIds
               PROVE  (mutex'[n] = s) <=> (pc'[s] \in Holding /\ at'[s] = n)
    BY DEF NodeMutex
  <2>1. pc'[s] = (IF s = t THEN l ELSE pc[s]) /\ at'[s] = at[s]
    BY DEF MutexInv, TypeOK
  <2>2. s # NoThread /\ ((mutex[n] = s) <=> (pc[s] \in Holding /\ at[s] = n))
    BY DEF MutexInv, NodeMutex
  <2>3. CASE n # at[t]
    <3>1. mutex'[n] = mutex[n]
      BY <2>3 DEF MutexInv, TypeOK
    <3> QED
      BY <2>1, <2>2, <2>3, <3>1
  <2>4. CASE n = at[t]
    <3>1. (mutex[n] = t) <=> pc[t] \in Holding
      BY <2>4 DEF MutexInv, NodeMutex
    <3>2. \/ mutex'[n] = mutex[n] /\ (pc[t] \in Holding <=> l \in Holding)
          \/ mutex'[n] = t /\ mutex[n] = NoThread /\ l \in Holding
          \/ mutex'[n] = NoThread /\ pc[t] \in Holding /\ l \notin Holding
      BY <2>4 DEF MutexInv, TypeOK
    <3> HIDE DEF Holding
    <3>3. CASE s = t
      BY <2>1, <2>2, <2>4, <3>2, <3>3
    <3>4. CASE s # t
      BY <2>1, <2>2, <2>4, <3>1, <3>2, <3>4
    <3> QED
      BY <3>3, <3>4
  <2> QED
    BY <2>3, <2>4
<1> QED
  BY <1>1, <1>2

\* A sleeper that is woken takes the mutex of its node before it goes on, and
\* finds it free.
LEMMA WakeUpMutex == ASSUME MutexInv, NEW t \in Threads, WakeUp(t) PROVE MutexInv'
<1> USE SharedMemAssumption
<1>1. at[t] \in NodeIds /\ TypeOK
  BY DEF WakeUp, MutexInv, AtNode, Asleep
<1>2. AfterWait(t) \in Holding
  BY DEF WakeUp, AfterWait, AfterSend, Asleep, Holding
<1>3. TypeOK'
  BY <1>1, <1>2 DEF WakeUp, TypeOK, fate, Holding, Labels, ProxyLabels, WorkerLabels
<1>4. AtNode' /\ NodeMutex'
  BY <1>1, <1>2, MutexMoves DEF WakeUp, Holding
<1> QED
  BY <1>3, <1>4 DEF MutexInv

\* A sender keeps the mutex while it prepares its first chunk.
LEMMA StartSendMutex == ASSUME MutexInv, NEW t \in Threads, StartSend(t) PROVE MutexInv'
<1> USE SharedMemAssumption
<1>1. at[t] \in NodeIds /\ TypeOK /\ t \in Threads
  BY DEF StartSend, MutexInv, AtNode, Threads
<1>2. TypeOK'
  BY <1>1 DEF StartSend, TypeOK, fate, nodeVars, threadVars, Labels, ProxyLabels, WorkerLabels, Asleep, States
<1>3. AtNode' /\ NodeMutex'
  BY <1>1, MutexMoves DEF StartSend, nodeVars, threadVars, Holding
<1> QED
  BY <1>2, <1>3 DEF MutexInv

\* A sender without memory goes on as if it had sent, with the mutex.
LEMMA SendNothingMutex == ASSUME MutexInv, NEW t \in Threads, SendNothing(t) PROVE MutexInv'
<1> USE SharedMemAssumption, MaxFaultsNat
<1>1. at[t] \in NodeIds /\ TypeOK /\ t \in Threads
  BY DEF SendNothing, MutexInv, AtNode, Threads
<1>2. TypeOK'
  <2>1. faults' \in 0 .. MaxFaults
    BY <1>1 DEF SendNothing, Fails, TypeOK
  <2>2. pc' \in [Threads -> Labels]
    BY <1>1 DEF SendNothing, TypeOK, AfterSend, Labels, ProxyLabels, WorkerLabels
  <2> QED
    BY <1>1, <2>1, <2>2 DEF SendNothing, TypeOK, nodeVars
<1>3. AtNode' /\ NodeMutex'
  BY <1>1, MutexMoves DEF SendNothing, nodeVars, threadVars, Holding, AfterSend
<1> QED
  BY <1>2, <1>3 DEF MutexInv

\* Both states of a node are states, whoever sets one.
LEMMA SetStateType ==
    ASSUME TypeOK, NEW t \in Threads, at[t] \in NodeIds, NEW l \in States, SetState(t, l)
    PROVE  proxyState' \in [NodeIds -> States] /\ serverState' \in [NodeIds -> States]
  BY DEF SetState, TypeOK

\* A sender that has filled the buffer goes to sleep and gives the mutex back.
LEMMA SendPartMutex == ASSUME MutexInv, NEW t \in Threads, SendPart(t) PROVE MutexInv'
<1> USE SharedMemAssumption
<1>1. at[t] \in NodeIds /\ TypeOK /\ t \in Threads
  BY DEF SendPart, MutexInv, AtNode, Threads
<1>2. waiters' \in [NodeIds -> SUBSET Threads]
  BY <1>1, SleepersType DEF SendPart
<1>3. TypeOK'
  <2>1. mem' \in [NodeIds -> Seq(Chunks)] /\ sent' \in [Threads -> Nat]
    BY <1>1 DEF SendPart, SetMapping, TypeOK
  <2>2. proxyState' \in [NodeIds -> States] /\ serverState' \in [NodeIds -> States]
    BY <1>1, SetStateType DEF SendPart, States
  <2>3. pc' \in [Threads -> Labels] /\ mutex' \in [NodeIds -> Threads \cup {NoThread}]
    BY <1>1 DEF SendPart, TypeOK, AfterSend, Labels, ProxyLabels, WorkerLabels, Asleep
  <2> QED
    BY <1>1, <1>2, <2>1, <2>2, <2>3 DEF SendPart, TypeOK, fate
<1>4. AtNode' /\ NodeMutex'
  BY <1>1, MutexMoves DEF SendPart, nodeVars, threadVars, Holding
<1> QED
  BY <1>3, <1>4 DEF MutexInv

\* After the last chunk a worker sleeps; the proxy goes on with the mutex.
LEMMA SendLastMutex == ASSUME MutexInv, NEW t \in Threads, SendLast(t) PROVE MutexInv'
<1> USE SharedMemAssumption
<1>1. at[t] \in NodeIds /\ TypeOK /\ t \in Threads
  BY DEF SendLast, MutexInv, AtNode, Threads
<1>2. waiters' \in [NodeIds -> SUBSET Threads]
  BY <1>1, SleepersType DEF SendLast
<1>3. TypeOK'
  <2>1. mem' \in [NodeIds -> Seq(Chunks)] /\ sent' \in [Threads -> Nat]
    BY <1>1 DEF SendLast, SetMapping, TypeOK
  <2>2. proxyState' \in [NodeIds -> States] /\ serverState' \in [NodeIds -> States]
    BY <1>1, SetStateType DEF SendLast, States
  <2>3. pc' \in [Threads -> Labels] /\ mutex' \in [NodeIds -> Threads \cup {NoThread}]
    BY <1>1 DEF SendLast, TypeOK, AfterSend, Labels, ProxyLabels, WorkerLabels, Asleep
  <2> QED
    BY <1>1, <1>2, <2>1, <2>2, <2>3 DEF SendLast, TypeOK, fate
<1>4. AtNode' /\ NodeMutex'
  BY <1>1, MutexMoves DEF SendLast, nodeVars, threadVars, Holding, AfterSend
<1> QED
  BY <1>3, <1>4 DEF MutexInv

\* The proxy locks the node it has found and asks for a worker.
LEMMA PostMutex == ASSUME MutexInv, NEW p \in Proxies, Post(p) PROVE MutexInv'
<1> USE SharedMemAssumption
<1>1. at[p] \in NodeIds /\ TypeOK /\ p \in Threads
  BY DEF Post, MutexInv, AtNode, Threads
<1>2. TypeOK'
  BY <1>1 DEF Post, TypeOK, fate, nodeVars, threadVars, Labels, ProxyLabels, WorkerLabels, Asleep, States
<1>3. AtNode' /\ NodeMutex'
  BY <1>1, MutexMoves DEF Post, nodeVars, threadVars, Holding
<1> QED
  BY <1>2, <1>3 DEF MutexInv

\* The proxy sleeps, giving the mutex back, unless a worker is there already.
LEMMA GreetMutex == ASSUME MutexInv, NEW p \in Proxies, Greet(p) PROVE MutexInv'
<1> USE SharedMemAssumption
<1>1. at[p] \in NodeIds /\ TypeOK /\ p \in Threads
  BY DEF Greet, MutexInv, AtNode, Threads
<1>2. waiters' \in [NodeIds -> SUBSET Threads]
  <2>1. \/ waiters' = [waiters EXCEPT ![at[p]] = waiters[at[p]] \cup {p}]
        \/ waiters' = waiters
    BY DEF Greet, GoToSleep
  <2>2. waiters \in [NodeIds -> SUBSET Threads]
    BY <1>1 DEF TypeOK
  <2> QED
    BY <1>1, <2>1, <2>2, SleepersType
<1>3. TypeOK'
  BY <1>1, <1>2 DEF Greet, TypeOK, fate, nodeVars, threadVars, Labels, ProxyLabels, WorkerLabels, Asleep, States, GoToSleep
<1>4. AtNode' /\ NodeMutex'
  BY <1>1, MutexMoves DEF Greet, nodeVars, threadVars, Holding, GoToSleep
<1> QED
  BY <1>3, <1>4 DEF MutexInv

\* Having sent its request the proxy sleeps until there is a response.
LEMMA AwaitResponseMutex == ASSUME MutexInv, NEW p \in Proxies, AwaitResponse(p) PROVE MutexInv'
<1> USE SharedMemAssumption
<1>1. at[p] \in NodeIds /\ TypeOK /\ p \in Threads
  BY DEF AwaitResponse, MutexInv, AtNode, Threads
<1>2. waiters' \in [NodeIds -> SUBSET Threads]
  <2>1. \/ waiters' = [waiters EXCEPT ![at[p]] = waiters[at[p]] \cup {p}]
        \/ waiters' = waiters
    BY DEF AwaitResponse, GoToSleep
  <2>2. waiters \in [NodeIds -> SUBSET Threads]
    BY <1>1 DEF TypeOK
  <2> QED
    BY <1>1, <2>1, <2>2, SleepersType
<1>3. TypeOK'
  BY <1>1, <1>2 DEF AwaitResponse, TypeOK, fate, nodeVars, threadVars, Labels, ProxyLabels, WorkerLabels, Asleep, States, GoToSleep
<1>4. AtNode' /\ NodeMutex'
  BY <1>1, MutexMoves DEF AwaitResponse, nodeVars, threadVars, Holding, GoToSleep
<1> QED
  BY <1>3, <1>4 DEF MutexInv

\* The proxy reads a chunk of the response with the mutex in hand.
LEMMA ReadResponseMutex == ASSUME MutexInv, NEW p \in Proxies, ReadResponse(p) PROVE MutexInv'
<1> USE SharedMemAssumption
<1>1. at[p] \in NodeIds /\ TypeOK /\ p \in Threads
  BY DEF ReadResponse, MutexInv, AtNode, Threads
<1>2. waiters' \in [NodeIds -> SUBSET Threads]
  BY <1>1, SleepersType DEF ReadResponse
<1>3. TypeOK'
  <2>1. got' \in [Threads -> Seq(Chunks)]
    BY <1>1 DEF ReadResponse, TypeOK
  <2>2. pc' \in [Threads -> Labels]
    <3>1. PICK l \in {"recv", "reset"} : pc' = [pc EXCEPT ![p] = l]
      BY DEF ReadResponse
    <3> QED
      BY <1>1, <3>1 DEF TypeOK, Labels, ProxyLabels
  <2>3. mutex' \in [NodeIds -> Threads \cup {NoThread}]
    <3>1. mutex' = mutex \/ mutex' = [mutex EXCEPT ![at[p]] = NoThread]
      BY DEF ReadResponse
    <3> QED
      BY <1>1, <3>1 DEF TypeOK
  <2> QED
    BY <1>1, <1>2, <2>1, <2>2, <2>3 DEF ReadResponse, TypeOK, fate
<1>4. AtNode' /\ NodeMutex'
  BY <1>1, MutexMoves DEF ReadResponse, nodeVars, threadVars, Holding
<1> QED
  BY <1>3, <1>4 DEF MutexInv

\* The proxy sets both states to IDLE and unlocks.
LEMMA ResetMutex == ASSUME MutexInv, NEW p \in Proxies, Reset(p) PROVE MutexInv'
<1> USE SharedMemAssumption
<1>1. at[p] \in NodeIds /\ TypeOK /\ p \in Threads
  BY DEF Reset, MutexInv, AtNode, Threads
<1>2. TypeOK'
  BY <1>1 DEF Reset, TypeOK, fate, nodeVars, threadVars, Labels, ProxyLabels, WorkerLabels, Asleep, States
<1>3. AtNode' /\ NodeMutex'
  BY <1>1, MutexMoves DEF Reset, nodeVars, threadVars, Holding
<1> QED
  BY <1>2, <1>3 DEF MutexInv

\* A worker marks the node it is to serve, without its mutex.
LEMMA MarkMutex == ASSUME MutexInv, NEW w \in Workers, Mark(w) PROVE MutexInv'
<1> USE SharedMemAssumption
<1>1. at[w] \in NodeIds /\ TypeOK /\ w \in Threads
  BY DEF Mark, MutexInv, TypeOK, Threads
<1>2. TypeOK'
  BY <1>1 DEF Mark, TypeOK, fate, nodeVars, threadVars, Labels, ProxyLabels, WorkerLabels, Asleep, States
<1>3. AtNode' /\ NodeMutex'
  BY <1>1, MutexMoves DEF Mark, nodeVars, threadVars, Holding
<1> QED
  BY <1>2, <1>3 DEF MutexInv

\* Then it takes the mutex.
LEMMA OpenMutex == ASSUME MutexInv, NEW w \in Workers, Open(w) PROVE MutexInv'
<1> USE SharedMemAssumption
<1>1. at[w] \in NodeIds /\ TypeOK /\ w \in Threads
  BY DEF Open, MutexInv, AtNode, Threads
<1>2. waiters' \in [NodeIds -> SUBSET Threads]
  BY <1>1, SleepersType DEF Open
<1>3. TypeOK'
  <2>1. got' \in [Threads -> Seq(Chunks)]
    BY <1>1 DEF Open, TypeOK
  <2>2. pc' \in [Threads -> Labels]
    BY <1>1 DEF Open, TypeOK, Labels, ProxyLabels, WorkerLabels
  <2>3. mutex' \in [NodeIds -> Threads \cup {NoThread}]
    BY <1>1 DEF Open, TypeOK
  <2> QED
    BY <1>1, <1>2, <2>1, <2>2, <2>3 DEF Open, TypeOK, fate
<1>4. AtNode' /\ NodeMutex'
  BY <1>1, MutexMoves DEF Open, nodeVars, threadVars, Holding
<1> QED
  BY <1>3, <1>4 DEF MutexInv

\* The worker has answered the greeting and sleeps until there is a request.
LEMMA AwaitRequestMutex == ASSUME MutexInv, NEW w \in Workers, AwaitRequest(w) PROVE MutexInv'
<1> USE SharedMemAssumption
<1>1. at[w] \in NodeIds /\ TypeOK /\ w \in Threads
  BY DEF AwaitRequest, MutexInv, AtNode, Threads
<1>2. waiters' \in [NodeIds -> SUBSET Threads]
  <2>1. \/ waiters' = [waiters EXCEPT ![at[w]] = waiters[at[w]] \cup {w}]
        \/ waiters' = waiters
    BY DEF AwaitRequest, GoToSleep
  <2>2. waiters \in [NodeIds -> SUBSET Threads]
    BY <1>1 DEF TypeOK
  <2> QED
    BY <1>1, <2>1, <2>2, SleepersType
<1>3. TypeOK'
  BY <1>1, <1>2 DEF AwaitRequest, TypeOK, fate, nodeVars, threadVars, Labels, ProxyLabels, WorkerLabels, Asleep, States, GoToSleep
<1>4. AtNode' /\ NodeMutex'
  BY <1>1, MutexMoves DEF AwaitRequest, nodeVars, threadVars, Holding, GoToSleep
<1> QED
  BY <1>3, <1>4 DEF MutexInv

\* A chunk that is not the last one is taken out of the buffer, with the mutex.
LEMMA ReadPartMutex == ASSUME MutexInv, NEW w \in Workers, ReadPart(w) PROVE MutexInv'
<1> USE SharedMemAssumption
<1>1. at[w] \in NodeIds /\ TypeOK /\ w \in Threads
  BY DEF ReadPart, MutexInv, AtNode, Threads
<1>2. waiters' \in [NodeIds -> SUBSET Threads]
  BY <1>1, SleepersType DEF ReadPart
<1>3. TypeOK'
  <2>1. got' \in [Threads -> Seq(Chunks)]
    BY <1>1 DEF ReadPart, TypeOK
  <2>2. pc' \in [Threads -> Labels]
    BY <1>1 DEF ReadPart, TypeOK, Labels, ProxyLabels, WorkerLabels
  <2>3. mutex' \in [NodeIds -> Threads \cup {NoThread}]
    BY <1>1 DEF ReadPart, TypeOK
  <2> QED
    BY <1>1, <1>2, <2>1, <2>2, <2>3 DEF ReadPart, TypeOK, fate
<1>4. AtNode' /\ NodeMutex'
  BY <1>1, MutexMoves DEF ReadPart, nodeVars, threadVars, Holding
<1> QED
  BY <1>3, <1>4 DEF MutexInv

\* With the last chunk the worker has the request; it still has the mutex.
LEMMA ReadLastMutex == ASSUME MutexInv, NEW w \in Workers, ReadLast(w) PROVE MutexInv'
<1> USE SharedMemAssumption
<1>1. at[w] \in NodeIds /\ TypeOK /\ w \in Threads
  BY DEF ReadLast, MutexInv, AtNode, Threads
<1>2. TypeOK'
  <2>1. mem[at[w]] \in Seq(Chunks) /\ mem[at[w]][1].id \in Proxies \X Nat
    <3>1. mem[at[w]] \in Seq(Chunks) /\ mem[at[w]] # <<>>
      BY <1>1 DEF ReadLast, TypeOK
    <3>2. mem[at[w]][1] \in Chunks
      BY <3>1
    <3> QED
      BY <3>1, <3>2 DEF Chunks
  <2>2. out' \in [Threads -> Seq(Chunks)]
    <3>1. PICK len \in RespLens :
             out' = [out EXCEPT ![w] = Message("resp", mem[at[w]][1].id, len)]
      BY DEF ReadLast
    <3>2. Message("resp", mem[at[w]][1].id, len) \in Seq(Chunks)
      BY <2>1, MessageFacts
    <3> QED
      BY <1>1, <3>1, <3>2 DEF TypeOK
  <2>3. got' \in [Threads -> Seq(Chunks)]
    BY <1>1, <2>1 DEF ReadLast, TypeOK
  <2>4. handled' \in Seq(Proxies \X Nat)
    BY <1>1, <2>1 DEF ReadLast, TypeOK
  <2>5. serverState' \in [NodeIds -> States] /\ pc' \in [Threads -> Labels]
    BY <1>1 DEF ReadLast, TypeOK, States, Labels
  <2> QED
    BY <1>1, <2>2, <2>3, <2>4, <2>5 DEF ReadLast, TypeOK, fate
<1>3. AtNode' /\ NodeMutex'
  BY <1>1, MutexMoves DEF ReadLast, Holding
<1> QED
  BY <1>2, <1>3 DEF MutexInv

\* The worker gives the mutex back.
LEMMA UnlockMutex == ASSUME MutexInv, NEW w \in Workers, Unlock(w) PROVE MutexInv'
<1> USE SharedMemAssumption
<1>1. at[w] \in NodeIds /\ TypeOK /\ w \in Threads
  BY DEF Unlock, MutexInv, AtNode, Threads
<1>2. TypeOK'
  BY <1>1 DEF Unlock, TypeOK, fate, nodeVars, threadVars, Labels, ProxyLabels, WorkerLabels, Asleep, States
<1>3. AtNode' /\ NodeMutex'
  BY <1>1, MutexMoves DEF Unlock, nodeVars, threadVars, Holding
<1> QED
  BY <1>2, <1>3 DEF MutexInv

\* The worker is done with its node and takes another token.
LEMMA FinishMutex == ASSUME MutexInv, NEW w \in Workers, Finish(w) PROVE MutexInv'
<1> USE SharedMemAssumption
<1>1. at[w] \in NodeIds /\ TypeOK /\ w \in Threads
  BY DEF Finish, MutexInv, AtNode, Threads
<1>2. TypeOK'
  BY <1>1 DEF Finish, TypeOK, fate, nodeVars, threadVars, Labels, ProxyLabels, WorkerLabels, Asleep, States
<1>3. AtNode' /\ NodeMutex'
  BY <1>1, MutexMoves DEF Finish, nodeVars, threadVars, Holding
<1> QED
  BY <1>2, <1>3 DEF MutexInv


\* A client thread of the proxy chooses a node and has no mutex yet.
LEMMA BeginMutex == ASSUME MutexInv, NEW p \in Proxies, Begin(p) PROVE MutexInv'
<1> USE SharedMemAssumption
<1>1. TypeOK /\ p \in Threads /\ FindState("IDLE") \in NodeIds
  BY FindStateFacts DEF Begin, MutexInv, Threads
<1>2. TypeOK'
  <2>1. PICK len \in ReqLens : out' = [out EXCEPT ![p] = Message("req", <<p, tx[p] + 1>>, len)]
    BY DEF Begin
  <2>2. tx[p] + 1 \in Nat
    BY <1>1 DEF TypeOK
  <2>3. Message("req", <<p, tx[p] + 1>>, len) \in Seq(Chunks)
    BY <2>2, MessageFacts
  <2>4. out' \in [Threads -> Seq(Chunks)] /\ got' \in [Threads -> Seq(Chunks)]
    BY <1>1, <2>1, <2>3 DEF Begin, TypeOK
  <2>5. tx' \in [Proxies -> Nat] /\ at' \in [Threads -> {0} \cup NodeIds]
    BY <1>1, <2>2 DEF Begin, TypeOK
  <2>6. pc' \in [Threads -> Labels]
    BY <1>1 DEF Begin, TypeOK, Labels, ProxyLabels
  <2> QED
    BY <1>1, <2>4, <2>5, <2>6 DEF Begin, TypeOK, nodeVars, fate
<1>3. AtNode'
  BY <1>1 DEF Begin, MutexInv, AtNode, TypeOK
<1>4. NodeMutex'
  BY <1>1 DEF Begin, MutexInv, NodeMutex, TypeOK, nodeVars, Holding
<1> QED
  BY <1>2, <1>3, <1>4 DEF MutexInv

\* A worker takes a token and looks for the node; it has no mutex yet.
LEMMA TakeTokenMutex == ASSUME MutexInv, NEW w \in Workers, TakeToken(w) PROVE MutexInv'
<1> USE SharedMemAssumption
<1>1. TypeOK /\ w \in Threads /\ FindState("WAITING_INIT_SRVR") \in {0} \cup NodeIds
  BY FindStateFacts DEF MutexInv, Threads
<1>2. TypeOK'
  BY <1>1 DEF TakeToken, TypeOK, nodeVars, fate, Labels, WorkerLabels
<1>3. AtNode'
  BY <1>1 DEF TakeToken, MutexInv, AtNode, TypeOK
<1>4. NodeMutex'
  BY <1>1 DEF TakeToken, MutexInv, NodeMutex, TypeOK, nodeVars, Holding
<1> QED
  BY <1>2, <1>3, <1>4 DEF MutexInv

\* The steps that leave every label, node and mutex alone.
LEMMA OtherMutex ==
    ASSUME MutexInv,
           \/ MainStep \/ (\E p \in Proxies : UseSocket(p))
           \/ (\E t \in Threads : Fatal(t) \/ SpuriousWake(t)) \/ UNCHANGED vars
    PROVE  MutexInv'
<1> USE SharedMemAssumption, MaxFaultsNat
<1>1. pc' = pc /\ at' = at /\ mutex' = mutex
  BY DEF MainStep, Poll, Claim, UseSocket, Fatal, SpuriousWake, vars, nodeVars, threadVars
<1>2. AtNode' /\ NodeMutex'
  BY <1>1 DEF MutexInv, AtNode, NodeMutex
<1>3. TypeOK'
  <2> USE DEF MutexInv
  <2>1. CASE MainStep
    <3>1. CASE Poll
      BY <3>1, FindStateFacts DEF Poll, TypeOK, nodeVars, threadVars, fate
    <3>2. CASE Claim
      <4>1. found \in NodeIds /\ found' \in {0} \cup NodeIds
        BY <3>2 DEF Claim, TypeOK
      <4>2. tokens' \in Nat /\ serverState' \in [NodeIds -> States]
        <5>1. /\ tokens' = tokens \/ tokens' = tokens + 1
              /\ \/ serverState' = serverState
                 \/ serverState' = [serverState EXCEPT ![found] = "BUSY"]
          BY <3>2 DEF Claim
        <5> QED
          BY <4>1, <5>1 DEF TypeOK, States
      <4> QED
        BY <3>2, <4>1, <4>2 DEF Claim, TypeOK, threadVars, fate
    <3> QED
      BY <2>1, <3>1, <3>2 DEF MainStep
  <2>2. CASE \E p \in Proxies : UseSocket(p)
    BY <2>2 DEF UseSocket, TypeOK, nodeVars, fate
  <2>3. CASE \E t \in Threads : Fatal(t)
    BY <2>3 DEF Fatal, Works, Fails, TypeOK, nodeVars, threadVars
  <2>4. CASE \E t \in Threads : SpuriousWake(t)
    <3>1. PICK t \in Threads : waiters' = [waiters EXCEPT ![at[t]] = waiters[at[t]] \ {t}]
                               /\ pc[t] \in Asleep
      BY <2>4 DEF SpuriousWake
    <3>2. at[t] \in NodeIds
      BY <3>1 DEF AtNode, Asleep
    <3>3. waiters[at[t]] \ {t} \in SUBSET Threads
      BY <3>2 DEF TypeOK
    <3>4. waiters' \in [NodeIds -> SUBSET Threads]
      BY <3>1, <3>3 DEF TypeOK
    <3> QED
      BY <2>4, <3>4 DEF SpuriousWake, TypeOK, threadVars, fate
  <2>5. CASE UNCHANGED vars
    BY <2>5 DEF vars, TypeOK, nodeVars, threadVars, fate
  <2> QED
    BY <2>1, <2>2, <2>3, <2>4, <2>5
<1> QED
  BY <1>2, <1>3 DEF MutexInv

\* Every step preserves the invariant.
LEMMA MutexInvStep == MutexInv /\ [Next]_vars => MutexInv'
<1> SUFFICES ASSUME MutexInv, [Next]_vars PROVE MutexInv'
  OBVIOUS
<1>1. CASE MainStep \/ UNCHANGED vars
  BY <1>1, OtherMutex
<1>2. ASSUME NEW p \in Proxies, ProxyStep(p) PROVE MutexInv'
  BY <1>2, BeginMutex, OtherMutex, PostMutex, GreetMutex, AwaitResponseMutex,
     ReadResponseMutex, ResetMutex DEF ProxyStep
<1>3. ASSUME NEW w \in Workers, WorkerStep(w) PROVE MutexInv'
  BY <1>3, TakeTokenMutex, MarkMutex, OpenMutex, AwaitRequestMutex, ReadPartMutex,
     ReadLastMutex, UnlockMutex, FinishMutex DEF WorkerStep
<1>4. ASSUME NEW t \in Threads, CommonStep(t) \/ SpuriousWake(t) PROVE MutexInv'
  BY <1>4, WakeUpMutex, StartSendMutex, SendNothingMutex, SendPartMutex, SendLastMutex,
     OtherMutex DEF CommonStep
<1> QED
  BY <1>1, <1>2, <1>3, <1>4 DEF Next

\* MutexInv, the inductive invariant for the mutexes of the nodes, for any
\* number of threads and nodes.
THEOREM MutexInvariant == Spec => []MutexInv
  BY MutexInvInit, MutexInvStep, PTL DEF Spec

\* The type invariant, for any number of threads and nodes.
THEOREM TypeCorrect == Spec => []TypeOK
<1>1. MutexInv => TypeOK
  BY DEF MutexInv
<1> QED
  BY MutexInvariant, <1>1, PTL

\* Whoever maps a chunk, reads one or decides to sleep has the mutex of the
\* node, alone: also with many threads at one node, after lost, stray and
\* spurious wakeups, and when sendShared() gives up.
THEOREM NodesAreLocked == Spec => []NodeMutex
<1>1. MutexInv => NodeMutex
  BY DEF MutexInv
<1> QED
  BY MutexInvariant, <1>1, PTL
=============================================================================
