-------------------------- MODULE WorkerPool_proofs --------------------------
(***************************************************************************)
(* Proofs about WorkerPool, for any number of workers, clients, SIGINTs    *)
(* and shared-memory requests.                                             *)
(*                                                                         *)
(* The invariant IndInv is shown to be inductive one part at a time: each  *)
(* lemma ...Step takes one part of it and goes through the actions.  The   *)
(* parts lean on each other: HeadStable needs MutexInv (nobody else is in  *)
(* the critical section), MutexInv needs Bookkeeping (a handler adds nodes *)
(* on no thread that is in a critical section of its own - it would wait   *)
(* for itself before that), NoLostWakeup needs MutexInv and HeadStable,    *)
(* ExclusiveCustody needs HeadStable (what a worker serves is what it      *)
(* unlinked), and QuiescentCleanup needs Bookkeeping for the handlers that *)
(* interrupt main() after its loop.  The refinement of JobQueue needs      *)
(* HeadStable, Bookkeeping and QuiescentCleanup.  TokenInv counts the      *)
(* TERMINATE nodes, on top of IndInv.                                      *)
(***************************************************************************)
EXTENDS WorkerPool, FiniteSetTheorems, FunctionTheorems, TLAPS

\* There is at least one worker: numThreads <= 0 ends main() at once.
LEMMA NumThreadsPositive == NumThreads \in Nat /\ NumThreads > 0
  BY ThreadAssumption, FS_CardinalityType, FS_EmptySet DEF NumThreads

\* The kinds of list nodes are apart, and so are the nodes of two clients.
LEMMA NodeFacts ==
    /\ SharedReq \in Nodes /\ Terminate \in Nodes /\ SharedReq # Terminate
    /\ \A c \in Clients : Process(c) \in Nodes /\ Process(c) # SharedReq /\ Process(c) # Terminate
    /\ \A c, d \in Clients : Process(c) = Process(d) => c = d
  BY DEF Nodes, SharedReq, Terminate, Process

\* addTail() on the list as a sequence: one more node, the others in place.
LEMMA AppendFacts ==
    ASSUME NEW S, NEW s \in Seq(S), NEW e \in S, NEW r, r = Append(s, e)
    PROVE  /\ r \in Seq(S) /\ Len(s) \in Nat
           /\ DOMAIN s = 1 .. Len(s) /\ DOMAIN r = 1 .. (Len(s) + 1)
           /\ r[Len(s) + 1] = e
           /\ \A i \in 1 .. Len(s) : r[i] = s[i]
  OBVIOUS

\* removeHead() on the list as a sequence: every node moves up by one.
LEMMA TailFacts ==
    ASSUME NEW S, NEW s \in Seq(S), s # <<>>, NEW r, r = Tail(s)
    PROVE  /\ r \in Seq(S) /\ Len(s) \in Nat \ {0}
           /\ DOMAIN s = 1 .. Len(s) /\ DOMAIN r = 1 .. (Len(s) - 1)
           /\ \A i \in 1 .. (Len(s) - 1) : r[i] = s[i + 1]
  OBVIOUS

\* The node at the head of the list is the node at its position 1.
LEMMA HeadFacts ==
    ASSUME NEW S, NEW s \in Seq(S), s # <<>>
    PROVE  1 \in DOMAIN s /\ Head(s) = s[1] /\ Head(s) \in S
  OBVIOUS

\* The TERMINATE nodes of a list are finitely many.
LEMMA TokensFinite ==
    ASSUME NEW s \in Seq(Nodes)
    PROVE  IsFiniteSet(Tokens(s)) /\ Cardinality(Tokens(s)) \in Nat
<1>1. Len(s) \in Nat /\ DOMAIN s = 1 .. Len(s)
  OBVIOUS
<1>2. IsFiniteSet(DOMAIN s)
  BY <1>1, FS_Interval
<1>3. Tokens(s) \subseteq DOMAIN s
  BY DEF Tokens
<1> QED
  BY <1>2, <1>3, FS_Subset, FS_CardinalityType

\* addTail(): a TERMINATE node is one token more, another node is none.
LEMMA TokensAppend ==
    ASSUME NEW s \in Seq(Nodes), NEW e \in Nodes
    PROVE  /\ e = Terminate =>
                Cardinality(Tokens(Append(s, e))) = Cardinality(Tokens(s)) + 1
           /\ e # Terminate => Tokens(Append(s, e)) = Tokens(s)
<1> DEFINE r == Append(s, e)
<1>1. /\ Len(s) \in Nat /\ DOMAIN s = 1 .. Len(s) /\ DOMAIN r = 1 .. (Len(s) + 1)
      /\ r[Len(s) + 1] = e
      /\ \A i \in 1 .. Len(s) : r[i] = s[i]
  OBVIOUS
<1> HIDE DEF r
<1>2. CASE e = Terminate
  <2>1. Tokens(r) = Tokens(s) \cup {Len(s) + 1}
    BY <1>1, <1>2 DEF Tokens
  <2>2. Len(s) + 1 \notin Tokens(s)
    BY <1>1 DEF Tokens
  <2>3. Cardinality(Tokens(r)) = Cardinality(Tokens(s)) + 1
    BY <2>1, <2>2, TokensFinite, FS_AddElement
  <2> QED
    BY <2>3, <1>2 DEF r
<1>3. CASE e # Terminate
  <2>1. Tokens(r) = Tokens(s)
    BY <1>1, <1>3 DEF Tokens
  <2> QED
    BY <2>1, <1>3 DEF r
<1> QED
  BY <1>2, <1>3

\* removeHead(): a TERMINATE node at the head is one token less.
LEMMA TokensTail ==
    ASSUME NEW s \in Seq(Nodes), s # <<>>
    PROVE  Cardinality(Tokens(s))
             = Cardinality(Tokens(Tail(s))) + (IF Head(s) = Terminate THEN 1 ELSE 0)
<1> DEFINE r == Tail(s)
           f == [i \in Tokens(r) |-> i + 1]
           X == Tokens(s) \ {1}
<1>1. /\ r \in Seq(Nodes) /\ Len(s) \in Nat \ {0}
      /\ DOMAIN s = 1 .. Len(s) /\ DOMAIN r = 1 .. (Len(s) - 1)
      /\ \A i \in 1 .. (Len(s) - 1) : r[i] = s[i + 1]
      /\ Head(s) = s[1]
  OBVIOUS
<1> HIDE DEF r
<1>2. IsFiniteSet(Tokens(r)) /\ Cardinality(Tokens(r)) \in Nat
  BY <1>1, TokensFinite
<1>3. IsFiniteSet(Tokens(s)) /\ Cardinality(Tokens(s)) \in Nat
  BY TokensFinite
<1>4. \A i \in Tokens(r) : i \in Nat /\ i + 1 \in X
  BY <1>1 DEF Tokens
<1>5. \A j \in X : j \in Nat /\ j - 1 \in Tokens(r) /\ (j - 1) + 1 = j
  BY <1>1 DEF Tokens
<1>6. f \in Bijection(Tokens(r), X)
  <2>1. f \in [Tokens(r) -> X]
    BY <1>4
  <2>2. \A i, j \in Tokens(r) : f[i] = f[j] => i = j
    BY <1>4
  <2>3. \A j \in X : \E i \in Tokens(r) : f[i] = j
    BY <1>5
  <2> HIDE DEF f, X
  <2> QED
    BY <2>1, <2>2, <2>3, Fun_IsBij
<1> HIDE DEF f
<1>7. Cardinality(X) = Cardinality(Tokens(r))
  <2>1. ExistsBijection(Tokens(r), X)
    BY <1>6 DEF ExistsBijection
  <2> HIDE DEF X
  <2> QED
    BY <2>1, <1>2, FS_Bijection
<1>8. Cardinality(X) = IF 1 \in Tokens(s) THEN Cardinality(Tokens(s)) - 1 ELSE Cardinality(Tokens(s))
  BY <1>3, FS_RemoveElement
<1>9. 1 \in Tokens(s) <=> Head(s) = Terminate
  BY <1>1 DEF Tokens
<1> HIDE DEF X
<1>10. Cardinality(Tokens(s)) = Cardinality(Tokens(r)) + (IF Head(s) = Terminate THEN 1 ELSE 0)
  BY <1>2, <1>3, <1>7, <1>8, <1>9
<1> QED
  BY <1>10 DEF r

\* The workers that stay are some of the workers.
LEMMA StayingFinite ==
    /\ IsFiniteSet(Staying) /\ Cardinality(Staying) \in Nat
    /\ NumThreads \in Nat /\ Cardinality(Staying) <= NumThreads
<1>1. Staying \subseteq Workers
  BY DEF Staying
<1> QED
  BY <1>1, ThreadAssumption, FS_Subset, FS_CardinalityType DEF NumThreads
\* Every step keeps the types.
LEMMA TypeStep == IndInv /\ [Next]_vars => TypeOK'
<1> SUFFICES ASSUME IndInv, [Next]_vars PROVE TypeOK'
  OBVIOUS
<1> USE ThreadAssumption, NodeFacts, NodeAssumption, NumThreadsPositive
    DEF IndInv, TypeOK, Bookkeeping, HeadStable, AddTail,
        Threads, MainLabels, WorkerLabels, HandlerLabels, poolVars, sigVars,
        Running, Alive, Broadcast, Acquire, Release
<1>1. CASE InitializeGlobals
  BY <1>1 DEF InitializeGlobals
<1>2. ASSUME NEW w \in Workers, SpawnWorker(w) PROVE TypeOK'
  BY <1>2 DEF SpawnWorker
<1>3. CASE SpawnDone
  BY <1>3 DEF SpawnDone
<1>4. CASE TestLoop
  BY <1>4 DEF TestLoop
<1>5. CASE PollShared
  <2>1. posts' \in Nat
    BY <1>5 DEF PollShared
  <2>2. UNCHANGED <<LOOP, ready, list, mConList, node, sock, hpc, hcount, signals>>
    BY <1>5 DEF PollShared
  <2>3. pc' \in [Threads -> MainLabels \cup WorkerLabels] /\ pc'[Main] \in MainLabels
        /\ \A w \in Workers : pc'[w] \in WorkerLabels
    BY <1>5 DEF PollShared
  <2>4. entry' \in Nodes \cup {NoNode}
    BY <1>5 DEF PollShared
  <2> QED
    BY <2>1, <2>2, <2>3, <2>4
<1>6. ASSUME NEW c \in Clients, AcceptClient(c) PROVE TypeOK'
  BY <1>6 DEF AcceptClient
<1>7. CASE AcceptNobody
  BY <1>7 DEF AcceptNobody
<1>8. CASE AcceptError
  BY <1>8 DEF AcceptError
<1>9. CASE MainLock
  BY <1>9 DEF MainLock
<1>10. CASE MainAdd
  <2>0. list \in Seq(Nodes) /\ entry \in Nodes
    BY <1>10 DEF MainAdd
  <2>1. list' \in Seq(Nodes)
    BY ONLY <1>10, <2>0, AppendFacts DEF MainAdd, AddTail
  <2> QED
    BY <1>10, <2>1 DEF MainAdd
<1>11. CASE JoinWorkers
  BY <1>11 DEF JoinWorkers
<1>12. CASE CleanUpGlobals
  <2>1. list' \in Seq(Nodes)
    BY <1>12 DEF CleanUpGlobals
  <2> QED
    BY <1>12, <2>1 DEF CleanUpGlobals
<1>13. ASSUME NEW w \in Workers, WorkerLock(w) PROVE TypeOK'
  BY <1>13 DEF WorkerLock
<1>14. ASSUME NEW w \in Workers, WorkerWait(w) PROVE TypeOK'
  BY <1>14 DEF WorkerWait
<1>15. ASSUME NEW w \in Workers, SpuriousWake(w) PROVE TypeOK'
  BY <1>15 DEF SpuriousWake
<1>16. ASSUME NEW w \in Workers, ReadHead(w) PROVE TypeOK'
  BY <1>16 DEF ReadHead
<1>17. ASSUME NEW w \in Workers, UnlinkHead(w) PROVE TypeOK'
  BY <1>17 DEF UnlinkHead
<1>18. ASSUME NEW w \in Workers, ServeClient(w) PROVE TypeOK'
  BY <1>18 DEF ServeClient
<1>19. ASSUME NEW w \in Workers, ServeShared(w) PROVE TypeOK'
  BY <1>19 DEF ServeShared
<1>20. ASSUME NEW w \in Workers, ExitWorker(w) PROVE TypeOK'
  BY <1>20 DEF ExitWorker
<1>21. ASSUME NEW t \in Threads, Interrupt(t) PROVE TypeOK'
  BY <1>21 DEF Interrupt
<1>22. ASSUME NEW t \in Threads, HandlerCheck(t) PROVE TypeOK'
  BY <1>22 DEF HandlerCheck
<1>23. ASSUME NEW t \in Threads, HandlerSet(t) PROVE TypeOK'
  <2>1. hcount' \in [Threads -> 0 .. NumThreads]
    BY <1>23 DEF HandlerSet
  <2> QED
    BY <1>23, <2>1 DEF HandlerSet
<1>24. ASSUME NEW t \in Threads, HandlerLock(t) PROVE TypeOK'
  BY <1>24 DEF HandlerLock
<1>25. ASSUME NEW t \in Threads, HandlerAdd(t) PROVE TypeOK'
  <2>0. list \in Seq(Nodes)
    BY <1>25 DEF HandlerAdd
  <2>1. list' \in Seq(Nodes)
    BY ONLY <1>25, <2>0, AppendFacts, NodeFacts DEF HandlerAdd, AddTail
  <2>2. hcount[t] + 1 \in 0 .. NumThreads
    BY <1>25 DEF HandlerAdd
  <2>3. hcount' \in [Threads -> 0 .. NumThreads]
    BY <1>25, <2>2 DEF HandlerAdd
  <2>4. hpc' \in [Threads -> HandlerLabels]
    BY <1>25 DEF HandlerAdd
  <2> QED
    BY <1>25, <2>1, <2>3, <2>4 DEF HandlerAdd
<1>26. ASSUME NEW t \in Threads, HandlerCrash(t) PROVE TypeOK'
  BY <1>26 DEF HandlerCrash
<1>27. ASSUME NEW c \in Clients, Connect(c) PROVE TypeOK'
  BY <1>27 DEF Connect
<1>28. CASE UNCHANGED vars
  BY <1>28 DEF vars
<1> QED
  BY BoundAssumption, <1>1, <1>2, <1>3, <1>4, <1>5, <1>6, <1>7, <1>8, <1>9, <1>10, <1>11,
     <1>12, <1>13, <1>14, <1>15, <1>16, <1>17, <1>18, <1>19, <1>20, <1>21,
     <1>22, <1>23, <1>24, <1>25, <1>26, <1>27, <1>28
  DEF Next, MainStep, WorkerStep, HandlerStep, Threads

\* Every step keeps the bookkeeping.
LEMMA BookStep == IndInv /\ [Next]_vars => Bookkeeping'
<1> SUFFICES ASSUME IndInv, [Next]_vars PROVE Bookkeeping'
  OBVIOUS
<1> USE ThreadAssumption, NodeFacts, NodeAssumption, NumThreadsPositive
    DEF IndInv, TypeOK, Bookkeeping, MutexInv, AddTail,
        Threads, MainLabels, WorkerLabels, HandlerLabels, poolVars, sigVars,
        Running, Alive, Broadcast, Acquire, Release
<1>1. CASE InitializeGlobals
  BY <1>1 DEF InitializeGlobals
<1>2. ASSUME NEW w \in Workers, SpawnWorker(w) PROVE Bookkeeping'
  BY <1>2 DEF SpawnWorker
<1>3. CASE SpawnDone
  BY <1>3 DEF SpawnDone
<1>4. CASE TestLoop
  BY <1>4 DEF TestLoop
<1>5. CASE PollShared
  BY <1>5 DEF PollShared
<1>6. ASSUME NEW c \in Clients, AcceptClient(c) PROVE Bookkeeping'
  BY <1>6 DEF AcceptClient
<1>7. CASE AcceptNobody
  BY <1>7 DEF AcceptNobody
<1>8. CASE AcceptError
  BY <1>8 DEF AcceptError
<1>9. CASE MainLock
  BY <1>9 DEF MainLock
<1>10. CASE MainAdd
  BY <1>10 DEF MainAdd
<1>11. CASE JoinWorkers
  BY <1>11 DEF JoinWorkers
<1>12. CASE CleanUpGlobals
  BY <1>12 DEF CleanUpGlobals
<1>13. ASSUME NEW w \in Workers, WorkerLock(w) PROVE Bookkeeping'
  BY <1>13 DEF WorkerLock
<1>14. ASSUME NEW w \in Workers, WorkerWait(w) PROVE Bookkeeping'
  BY <1>14 DEF WorkerWait
<1>15. ASSUME NEW w \in Workers, SpuriousWake(w) PROVE Bookkeeping'
  BY <1>15 DEF SpuriousWake
<1>16. ASSUME NEW w \in Workers, ReadHead(w) PROVE Bookkeeping'
  BY <1>16 DEF ReadHead
<1>17. ASSUME NEW w \in Workers, UnlinkHead(w) PROVE Bookkeeping'
  BY <1>17 DEF UnlinkHead
<1>18. ASSUME NEW w \in Workers, ServeClient(w) PROVE Bookkeeping'
  BY <1>18 DEF ServeClient
<1>19. ASSUME NEW w \in Workers, ServeShared(w) PROVE Bookkeeping'
  BY <1>19 DEF ServeShared
<1>20. ASSUME NEW w \in Workers, ExitWorker(w) PROVE Bookkeeping'
  BY <1>20 DEF ExitWorker
<1>21. ASSUME NEW t \in Threads, Interrupt(t) PROVE Bookkeeping'
  BY <1>21 DEF Interrupt
<1>22. ASSUME NEW t \in Threads, HandlerCheck(t) PROVE Bookkeeping'
  BY <1>22 DEF HandlerCheck
<1>23. ASSUME NEW t \in Threads, HandlerSet(t) PROVE Bookkeeping'
  BY <1>23 DEF HandlerSet
<1>24. ASSUME NEW t \in Threads, HandlerLock(t) PROVE Bookkeeping'
  BY <1>24 DEF HandlerLock
<1>25. ASSUME NEW t \in Threads, HandlerAdd(t) PROVE Bookkeeping'
  BY <1>25 DEF HandlerAdd
<1>26. ASSUME NEW t \in Threads, HandlerCrash(t) PROVE Bookkeeping'
  BY <1>26 DEF HandlerCrash
<1>27. ASSUME NEW c \in Clients, Connect(c) PROVE Bookkeeping'
  BY <1>27 DEF Connect
<1>28. CASE UNCHANGED vars
  BY <1>28 DEF vars
<1> QED
  BY BoundAssumption, <1>1, <1>2, <1>3, <1>4, <1>5, <1>6, <1>7, <1>8, <1>9, <1>10, <1>11,
     <1>12, <1>13, <1>14, <1>15, <1>16, <1>17, <1>18, <1>19, <1>20, <1>21,
     <1>22, <1>23, <1>24, <1>25, <1>26, <1>27, <1>28
  DEF Next, MainStep, WorkerStep, HandlerStep, Threads

\* Every step keeps the mutex with the thread in its critical section.
LEMMA MutexStep == IndInv /\ [Next]_vars => MutexInv'
<1> SUFFICES ASSUME IndInv, [Next]_vars PROVE MutexInv'
  OBVIOUS
<1> USE ThreadAssumption, NodeFacts, NodeAssumption
    DEF IndInv, TypeOK, Bookkeeping, MutexInv, AddTail,
        Threads, MainLabels, WorkerLabels, HandlerLabels, poolVars, sigVars,
        Running, Alive, Broadcast, Acquire, Release
<1>1. CASE InitializeGlobals
  BY <1>1 DEF InitializeGlobals
<1>2. ASSUME NEW w \in Workers, SpawnWorker(w) PROVE MutexInv'
  BY <1>2 DEF SpawnWorker
<1>3. CASE SpawnDone
  BY <1>3 DEF SpawnDone
<1>4. CASE TestLoop
  BY <1>4 DEF TestLoop
<1>5. CASE PollShared
  BY <1>5 DEF PollShared
<1>6. ASSUME NEW c \in Clients, AcceptClient(c) PROVE MutexInv'
  BY <1>6 DEF AcceptClient
<1>7. CASE AcceptNobody
  BY <1>7 DEF AcceptNobody
<1>8. CASE AcceptError
  BY <1>8 DEF AcceptError
<1>9. CASE MainLock
  BY <1>9 DEF MainLock
<1>10. CASE MainAdd
  BY <1>10 DEF MainAdd
<1>11. CASE JoinWorkers
  BY <1>11 DEF JoinWorkers
<1>12. CASE CleanUpGlobals
  BY <1>12 DEF CleanUpGlobals
<1>13. ASSUME NEW w \in Workers, WorkerLock(w) PROVE MutexInv'
  BY <1>13 DEF WorkerLock
<1>14. ASSUME NEW w \in Workers, WorkerWait(w) PROVE MutexInv'
  BY <1>14 DEF WorkerWait
<1>15. ASSUME NEW w \in Workers, SpuriousWake(w) PROVE MutexInv'
  BY <1>15 DEF SpuriousWake
<1>16. ASSUME NEW w \in Workers, ReadHead(w) PROVE MutexInv'
  BY <1>16 DEF ReadHead
<1>17. ASSUME NEW w \in Workers, UnlinkHead(w) PROVE MutexInv'
  BY <1>17 DEF UnlinkHead
<1>18. ASSUME NEW w \in Workers, ServeClient(w) PROVE MutexInv'
  BY <1>18 DEF ServeClient
<1>19. ASSUME NEW w \in Workers, ServeShared(w) PROVE MutexInv'
  BY <1>19 DEF ServeShared
<1>20. ASSUME NEW w \in Workers, ExitWorker(w) PROVE MutexInv'
  BY <1>20 DEF ExitWorker
<1>21. ASSUME NEW t \in Threads, Interrupt(t) PROVE MutexInv'
  BY <1>21 DEF Interrupt
<1>22. ASSUME NEW t \in Threads, HandlerCheck(t) PROVE MutexInv'
  BY <1>22 DEF HandlerCheck
<1>23. ASSUME NEW t \in Threads, HandlerSet(t) PROVE MutexInv'
  BY <1>23 DEF HandlerSet
<1>24. ASSUME NEW t \in Threads, HandlerLock(t) PROVE MutexInv'
  BY <1>24 DEF HandlerLock
<1>25. ASSUME NEW t \in Threads, HandlerAdd(t) PROVE MutexInv'
  BY <1>25 DEF HandlerAdd
<1>26. ASSUME NEW t \in Threads, HandlerCrash(t) PROVE MutexInv'
  BY <1>26 DEF HandlerCrash
<1>27. ASSUME NEW c \in Clients, Connect(c) PROVE MutexInv'
  BY <1>27 DEF Connect
<1>28. CASE UNCHANGED vars
  BY <1>28 DEF vars
<1> QED
  BY BoundAssumption, <1>1, <1>2, <1>3, <1>4, <1>5, <1>6, <1>7, <1>8, <1>9, <1>10, <1>11,
     <1>12, <1>13, <1>14, <1>15, <1>16, <1>17, <1>18, <1>19, <1>20, <1>21,
     <1>22, <1>23, <1>24, <1>25, <1>26, <1>27, <1>28
  DEF Next, MainStep, WorkerStep, HandlerStep, Threads

\* Every step keeps the head a worker has read at the head.
LEMMA HeadStep == IndInv /\ [Next]_vars => HeadStable'
<1> SUFFICES ASSUME IndInv, [Next]_vars PROVE HeadStable'
  OBVIOUS
<1> USE ThreadAssumption, NodeFacts, NodeAssumption
    DEF IndInv, TypeOK, MutexInv, HeadStable, AddTail,
        Threads, MainLabels, WorkerLabels, HandlerLabels, poolVars, sigVars,
        Running, Alive, Broadcast, Acquire, Release
<1>1. CASE InitializeGlobals
  BY <1>1 DEF InitializeGlobals
<1>2. ASSUME NEW w \in Workers, SpawnWorker(w) PROVE HeadStable'
  BY <1>2 DEF SpawnWorker
<1>3. CASE SpawnDone
  BY <1>3 DEF SpawnDone
<1>4. CASE TestLoop
  BY <1>4 DEF TestLoop
<1>5. CASE PollShared
  BY <1>5 DEF PollShared
<1>6. ASSUME NEW c \in Clients, AcceptClient(c) PROVE HeadStable'
  BY <1>6 DEF AcceptClient
<1>7. CASE AcceptNobody
  BY <1>7 DEF AcceptNobody
<1>8. CASE AcceptError
  BY <1>8 DEF AcceptError
<1>9. CASE MainLock
  BY <1>9 DEF MainLock
<1>10. CASE MainAdd
  BY <1>10 DEF MainAdd
<1>11. CASE JoinWorkers
  BY <1>11 DEF JoinWorkers
<1>12. CASE CleanUpGlobals
  <2>1. \A w \in Workers : pc[w] # "unlink"
    BY <1>12 DEF CleanUpGlobals, QuiescentCleanup
  <2> QED
    BY <1>12, <2>1 DEF CleanUpGlobals
<1>13. ASSUME NEW w \in Workers, WorkerLock(w) PROVE HeadStable'
  BY <1>13 DEF WorkerLock
<1>14. ASSUME NEW w \in Workers, WorkerWait(w) PROVE HeadStable'
  BY <1>14 DEF WorkerWait
<1>15. ASSUME NEW w \in Workers, SpuriousWake(w) PROVE HeadStable'
  BY <1>15 DEF SpuriousWake
<1>16. ASSUME NEW w \in Workers, ReadHead(w) PROVE HeadStable'
  BY <1>16 DEF ReadHead
<1>17. ASSUME NEW w \in Workers, UnlinkHead(w) PROVE HeadStable'
  BY <1>17 DEF UnlinkHead
<1>18. ASSUME NEW w \in Workers, ServeClient(w) PROVE HeadStable'
  BY <1>18 DEF ServeClient
<1>19. ASSUME NEW w \in Workers, ServeShared(w) PROVE HeadStable'
  BY <1>19 DEF ServeShared
<1>20. ASSUME NEW w \in Workers, ExitWorker(w) PROVE HeadStable'
  BY <1>20 DEF ExitWorker
<1>21. ASSUME NEW t \in Threads, Interrupt(t) PROVE HeadStable'
  BY <1>21 DEF Interrupt
<1>22. ASSUME NEW t \in Threads, HandlerCheck(t) PROVE HeadStable'
  BY <1>22 DEF HandlerCheck
<1>23. ASSUME NEW t \in Threads, HandlerSet(t) PROVE HeadStable'
  BY <1>23 DEF HandlerSet
<1>24. ASSUME NEW t \in Threads, HandlerLock(t) PROVE HeadStable'
  BY <1>24 DEF HandlerLock
<1>25. ASSUME NEW t \in Threads, HandlerAdd(t) PROVE HeadStable'
  <2>1. ASSUME NEW w \in Workers, pc[w] = "unlink" PROVE FALSE
    <3>1. mConList = t /\ mConList = w
      BY <1>25, <2>1 DEF HandlerAdd
    <3> QED
      BY <1>25, <2>1, <3>1 DEF HandlerAdd, Bookkeeping
  <2> QED
    BY <1>25, <2>1 DEF HandlerAdd
<1>26. ASSUME NEW t \in Threads, HandlerCrash(t) PROVE HeadStable'
  BY <1>26 DEF HandlerCrash
<1>27. ASSUME NEW c \in Clients, Connect(c) PROVE HeadStable'
  BY <1>27 DEF Connect
<1>28. CASE UNCHANGED vars
  BY <1>28 DEF vars
<1> QED
  BY BoundAssumption, <1>1, <1>2, <1>3, <1>4, <1>5, <1>6, <1>7, <1>8, <1>9, <1>10, <1>11,
     <1>12, <1>13, <1>14, <1>15, <1>16, <1>17, <1>18, <1>19, <1>20, <1>21,
     <1>22, <1>23, <1>24, <1>25, <1>26, <1>27, <1>28
  DEF Next, MainStep, WorkerStep, HandlerStep, Threads

\* Every step keeps workers from sleeping over a non-empty list.
LEMMA WakeStep == IndInv /\ [Next]_vars => NoLostWakeup'
<1> SUFFICES ASSUME IndInv, [Next]_vars PROVE NoLostWakeup'
  OBVIOUS
<1> USE ThreadAssumption, NodeFacts, NodeAssumption
    DEF IndInv, TypeOK, MutexInv, HeadStable, NoLostWakeup, AddTail,
        Threads, MainLabels, WorkerLabels, HandlerLabels, poolVars, sigVars,
        Running, Alive, Broadcast, Acquire, Release
<1>1. CASE InitializeGlobals
  BY <1>1 DEF InitializeGlobals
<1>2. ASSUME NEW w \in Workers, SpawnWorker(w) PROVE NoLostWakeup'
  BY <1>2 DEF SpawnWorker
<1>3. CASE SpawnDone
  BY <1>3 DEF SpawnDone
<1>4. CASE TestLoop
  BY <1>4 DEF TestLoop
<1>5. CASE PollShared
  BY <1>5 DEF PollShared
<1>6. ASSUME NEW c \in Clients, AcceptClient(c) PROVE NoLostWakeup'
  BY <1>6 DEF AcceptClient
<1>7. CASE AcceptNobody
  BY <1>7 DEF AcceptNobody
<1>8. CASE AcceptError
  BY <1>8 DEF AcceptError
<1>9. CASE MainLock
  BY <1>9 DEF MainLock
<1>10. CASE MainAdd
  BY <1>10 DEF MainAdd
<1>11. CASE JoinWorkers
  BY <1>11 DEF JoinWorkers
<1>12. CASE CleanUpGlobals
  BY <1>12 DEF CleanUpGlobals
<1>13. ASSUME NEW w \in Workers, WorkerLock(w) PROVE NoLostWakeup'
  BY <1>13 DEF WorkerLock
<1>14. ASSUME NEW w \in Workers, WorkerWait(w) PROVE NoLostWakeup'
  BY <1>14 DEF WorkerWait
<1>15. ASSUME NEW w \in Workers, SpuriousWake(w) PROVE NoLostWakeup'
  BY <1>15 DEF SpuriousWake
<1>16. ASSUME NEW w \in Workers, ReadHead(w) PROVE NoLostWakeup'
  BY <1>16 DEF ReadHead
<1>17. ASSUME NEW w \in Workers, UnlinkHead(w) PROVE NoLostWakeup'
  BY <1>17 DEF UnlinkHead
<1>18. ASSUME NEW w \in Workers, ServeClient(w) PROVE NoLostWakeup'
  BY <1>18 DEF ServeClient
<1>19. ASSUME NEW w \in Workers, ServeShared(w) PROVE NoLostWakeup'
  BY <1>19 DEF ServeShared
<1>20. ASSUME NEW w \in Workers, ExitWorker(w) PROVE NoLostWakeup'
  BY <1>20 DEF ExitWorker
<1>21. ASSUME NEW t \in Threads, Interrupt(t) PROVE NoLostWakeup'
  BY <1>21 DEF Interrupt
<1>22. ASSUME NEW t \in Threads, HandlerCheck(t) PROVE NoLostWakeup'
  BY <1>22 DEF HandlerCheck
<1>23. ASSUME NEW t \in Threads, HandlerSet(t) PROVE NoLostWakeup'
  BY <1>23 DEF HandlerSet
<1>24. ASSUME NEW t \in Threads, HandlerLock(t) PROVE NoLostWakeup'
  BY <1>24 DEF HandlerLock
<1>25. ASSUME NEW t \in Threads, HandlerAdd(t) PROVE NoLostWakeup'
  BY <1>25 DEF HandlerAdd
<1>26. ASSUME NEW t \in Threads, HandlerCrash(t) PROVE NoLostWakeup'
  BY <1>26 DEF HandlerCrash
<1>27. ASSUME NEW c \in Clients, Connect(c) PROVE NoLostWakeup'
  BY <1>27 DEF Connect
<1>28. CASE UNCHANGED vars
  BY <1>28 DEF vars
<1> QED
  BY BoundAssumption, <1>1, <1>2, <1>3, <1>4, <1>5, <1>6, <1>7, <1>8, <1>9, <1>10, <1>11,
     <1>12, <1>13, <1>14, <1>15, <1>16, <1>17, <1>18, <1>19, <1>20, <1>21,
     <1>22, <1>23, <1>24, <1>25, <1>26, <1>27, <1>28
  DEF Next, MainStep, WorkerStep, HandlerStep, Threads

\* Every step keeps the globals in place while they are used.
LEMMA CleanStep == IndInv /\ [Next]_vars => QuiescentCleanup'
<1> SUFFICES ASSUME IndInv, [Next]_vars PROVE QuiescentCleanup'
  OBVIOUS
<1> USE ThreadAssumption, NodeFacts, NodeAssumption
    DEF IndInv, TypeOK, Bookkeeping, MutexInv, QuiescentCleanup, AddTail,
        Threads, MainLabels, WorkerLabels, HandlerLabels, poolVars, sigVars,
        Running, Alive, Broadcast, Acquire, Release
<1>1. CASE InitializeGlobals
  BY <1>1 DEF InitializeGlobals
<1>2. ASSUME NEW w \in Workers, SpawnWorker(w) PROVE QuiescentCleanup'
  BY <1>2 DEF SpawnWorker
<1>3. CASE SpawnDone
  BY <1>3 DEF SpawnDone
<1>4. CASE TestLoop
  BY <1>4 DEF TestLoop
<1>5. CASE PollShared
  BY <1>5 DEF PollShared
<1>6. ASSUME NEW c \in Clients, AcceptClient(c) PROVE QuiescentCleanup'
  BY <1>6 DEF AcceptClient
<1>7. CASE AcceptNobody
  BY <1>7 DEF AcceptNobody
<1>8. CASE AcceptError
  BY <1>8 DEF AcceptError
<1>9. CASE MainLock
  BY <1>9 DEF MainLock
<1>10. CASE MainAdd
  BY <1>10 DEF MainAdd
<1>11. CASE JoinWorkers
  BY <1>11 DEF JoinWorkers
<1>12. CASE CleanUpGlobals
  BY <1>12 DEF CleanUpGlobals
<1>13. ASSUME NEW w \in Workers, WorkerLock(w) PROVE QuiescentCleanup'
  BY <1>13 DEF WorkerLock
<1>14. ASSUME NEW w \in Workers, WorkerWait(w) PROVE QuiescentCleanup'
  BY <1>14 DEF WorkerWait
<1>15. ASSUME NEW w \in Workers, SpuriousWake(w) PROVE QuiescentCleanup'
  BY <1>15 DEF SpuriousWake
<1>16. ASSUME NEW w \in Workers, ReadHead(w) PROVE QuiescentCleanup'
  BY <1>16 DEF ReadHead
<1>17. ASSUME NEW w \in Workers, UnlinkHead(w) PROVE QuiescentCleanup'
  BY <1>17 DEF UnlinkHead
<1>18. ASSUME NEW w \in Workers, ServeClient(w) PROVE QuiescentCleanup'
  BY <1>18 DEF ServeClient
<1>19. ASSUME NEW w \in Workers, ServeShared(w) PROVE QuiescentCleanup'
  BY <1>19 DEF ServeShared
<1>20. ASSUME NEW w \in Workers, ExitWorker(w) PROVE QuiescentCleanup'
  BY <1>20 DEF ExitWorker
<1>21. ASSUME NEW t \in Threads, Interrupt(t) PROVE QuiescentCleanup'
  BY <1>21 DEF Interrupt
<1>22. ASSUME NEW t \in Threads, HandlerCheck(t) PROVE QuiescentCleanup'
  BY <1>22 DEF HandlerCheck
<1>23. ASSUME NEW t \in Threads, HandlerSet(t) PROVE QuiescentCleanup'
  BY <1>23 DEF HandlerSet
<1>24. ASSUME NEW t \in Threads, HandlerLock(t) PROVE QuiescentCleanup'
  BY <1>24 DEF HandlerLock
<1>25. ASSUME NEW t \in Threads, HandlerAdd(t) PROVE QuiescentCleanup'
  BY <1>25 DEF HandlerAdd
<1>26. ASSUME NEW t \in Threads, HandlerCrash(t) PROVE QuiescentCleanup'
  BY <1>26 DEF HandlerCrash
<1>27. ASSUME NEW c \in Clients, Connect(c) PROVE QuiescentCleanup'
  BY <1>27 DEF Connect
<1>28. CASE UNCHANGED vars
  BY <1>28 DEF vars
<1> QED
  BY BoundAssumption, <1>1, <1>2, <1>3, <1>4, <1>5, <1>6, <1>7, <1>8, <1>9, <1>10, <1>11,
     <1>12, <1>13, <1>14, <1>15, <1>16, <1>17, <1>18, <1>19, <1>20, <1>21,
     <1>22, <1>23, <1>24, <1>25, <1>26, <1>27, <1>28
  DEF Next, MainStep, WorkerStep, HandlerStep, Threads

\* Every step keeps a connection in one place.
LEMMA CustodyStep == IndInv /\ [Next]_vars => ExclusiveCustody'
<1> SUFFICES ASSUME IndInv, [Next]_vars PROVE ExclusiveCustody'
  OBVIOUS
<1> USE ThreadAssumption, NodeFacts, NodeAssumption
    DEF IndInv, TypeOK, Bookkeeping, MutexInv, HeadStable, ExclusiveCustody,
        CustodyOf, InMain, InList, WithWorker, AddTail,
        Threads, MainLabels, WorkerLabels, HandlerLabels, poolVars, sigVars,
        Running, Alive, Broadcast, Acquire, Release
<1>1. CASE InitializeGlobals
  BY <1>1 DEF InitializeGlobals
<1>2. ASSUME NEW w \in Workers, SpawnWorker(w) PROVE ExclusiveCustody'
  BY <1>2 DEF SpawnWorker
<1>3. CASE SpawnDone
  BY <1>3 DEF SpawnDone
<1>4. CASE TestLoop
  BY <1>4 DEF TestLoop
<1>5. CASE PollShared
  BY <1>5 DEF PollShared
<1>6. ASSUME NEW c \in Clients, AcceptClient(c) PROVE ExclusiveCustody'
  BY <1>6 DEF AcceptClient
<1>7. CASE AcceptNobody
  BY <1>7 DEF AcceptNobody
<1>8. CASE AcceptError
  BY <1>8 DEF AcceptError
<1>9. CASE MainLock
  BY <1>9 DEF MainLock
<1>10. CASE MainAdd
  <2>1. entry \in Nodes /\ entry' = NoNode /\ UNCHANGED <<node, sock>> /\ list \in Seq(Nodes)
    BY <1>10 DEF MainAdd
  <2>2. \A c \in Clients, w \in Workers : WithWorker(c, w)' <=> WithWorker(c, w)
    BY <1>10 DEF MainAdd
  <2>3. \A c \in Clients : ~InMain(c)'
    BY <2>1
  <2>4. CASE list' = Append(list, entry)
    <3> SUFFICES ASSUME NEW c \in Clients PROVE CustodyOf(c)'
      BY DEF ExclusiveCustody
    <3>1. /\ Len(list) \in Nat
          /\ DOMAIN list = 1 .. Len(list) /\ DOMAIN list' = 1 .. (Len(list) + 1)
          /\ list'[Len(list) + 1] = entry
          /\ \A i \in 1 .. Len(list) : list'[i] = list[i]
      BY ONLY <2>1, <2>4, AppendFacts
    <3>2. InList(c)' <=> InList(c) \/ InMain(c)
      BY ONLY <3>1 DEF InList, InMain
    <3>3. ASSUME NEW i \in DOMAIN list', NEW j \in DOMAIN list',
                 list'[i] = Process(c), list'[j] = Process(c)
          PROVE  i = j
      <4>1. InMain(c) => i = Len(list) + 1 /\ j = Len(list) + 1
        BY ONLY <3>1, <3>3, CustodyOf(c) DEF CustodyOf, InMain, InList
      <4>2. ~InMain(c) => i \in DOMAIN list /\ j \in DOMAIN list
        BY ONLY <3>1, <3>3 DEF InMain
      <4> QED
        BY ONLY <3>1, <3>3, <4>1, <4>2, CustodyOf(c) DEF CustodyOf
    <3> HIDE DEF InMain, InList, WithWorker
    <3> QED
      BY <2>1, <2>2, <2>3, <3>2, <3>3 DEF CustodyOf
  <2>5. CASE UNCHANGED list
    BY <2>1, <2>2, <2>3, <2>5
  <2> QED
    BY <1>10, <2>4, <2>5 DEF MainAdd
<1>11. CASE JoinWorkers
  BY <1>11 DEF JoinWorkers
<1>12. CASE CleanUpGlobals
  BY <1>12 DEF CleanUpGlobals
<1>13. ASSUME NEW w \in Workers, WorkerLock(w) PROVE ExclusiveCustody'
  BY <1>13 DEF WorkerLock
<1>14. ASSUME NEW w \in Workers, WorkerWait(w) PROVE ExclusiveCustody'
  BY <1>14 DEF WorkerWait
<1>15. ASSUME NEW w \in Workers, SpuriousWake(w) PROVE ExclusiveCustody'
  BY <1>15 DEF SpuriousWake
<1>16. ASSUME NEW w \in Workers, ReadHead(w) PROVE ExclusiveCustody'
  BY <1>16 DEF ReadHead
<1>17. ASSUME NEW w \in Workers, UnlinkHead(w) PROVE ExclusiveCustody'
  <2>1. UNCHANGED <<node, sock, entry>> /\ list \in Seq(Nodes) /\ list # <<>> /\ list' = Tail(list)
    BY <1>17 DEF UnlinkHead
  <2>2. pc' = [pc EXCEPT ![w] = "serve"] /\ pc[w] = "unlink"
    BY <1>17 DEF UnlinkHead
  <2>3. node[w] = list[1] /\ 1 \in DOMAIN list
    BY <1>17, <2>1, HeadFacts DEF UnlinkHead
  <2>4. /\ Len(list) \in Nat \ {0}
        /\ DOMAIN list = 1 .. Len(list) /\ DOMAIN list' = 1 .. (Len(list) - 1)
        /\ \A i \in 1 .. (Len(list) - 1) : list'[i] = list[i + 1]
    BY ONLY <2>1, TailFacts
  <2> SUFFICES ASSUME NEW c \in Clients PROVE CustodyOf(c)'
    BY DEF ExclusiveCustody
  <2>5. \A i \in DOMAIN list' : i + 1 \in DOMAIN list /\ list'[i] = list[i + 1] /\ i + 1 # 1
    BY ONLY <2>4
  <2>6. InList(c)' => InList(c) /\ node[w] # Process(c)
    BY ONLY <2>3, <2>5, CustodyOf(c) DEF CustodyOf, InList
  <2>7. node[w] = Process(c) => InList(c)
    BY ONLY <2>3 DEF InList
  <2>8. \A v \in Workers :
           WithWorker(c, v)' <=> WithWorker(c, v) \/ (v = w /\ node[w] = Process(c))
    BY <2>1, <2>2
  <2>9. ASSUME NEW i \in DOMAIN list', NEW j \in DOMAIN list',
               list'[i] = Process(c), list'[j] = Process(c)
        PROVE  i = j
    <3>1. i + 1 = j + 1
      BY ONLY <2>5, <2>9, CustodyOf(c) DEF CustodyOf
    <3> QED
      BY ONLY <2>4, <2>9, <3>1
  <2>10. InMain(c)' <=> InMain(c)
    BY <2>1
  <2> HIDE DEF InMain, InList, WithWorker
  <2> QED
    BY <2>1, <2>6, <2>7, <2>8, <2>9, <2>10 DEF CustodyOf
<1>18. ASSUME NEW w \in Workers, ServeClient(w) PROVE ExclusiveCustody'
  BY <1>18 DEF ServeClient
<1>19. ASSUME NEW w \in Workers, ServeShared(w) PROVE ExclusiveCustody'
  BY <1>19 DEF ServeShared
<1>20. ASSUME NEW w \in Workers, ExitWorker(w) PROVE ExclusiveCustody'
  BY <1>20 DEF ExitWorker
<1>21. ASSUME NEW t \in Threads, Interrupt(t) PROVE ExclusiveCustody'
  BY <1>21 DEF Interrupt
<1>22. ASSUME NEW t \in Threads, HandlerCheck(t) PROVE ExclusiveCustody'
  BY <1>22 DEF HandlerCheck
<1>23. ASSUME NEW t \in Threads, HandlerSet(t) PROVE ExclusiveCustody'
  BY <1>23 DEF HandlerSet
<1>24. ASSUME NEW t \in Threads, HandlerLock(t) PROVE ExclusiveCustody'
  BY <1>24 DEF HandlerLock
<1>25. ASSUME NEW t \in Threads, HandlerAdd(t) PROVE ExclusiveCustody'
  <2>1. UNCHANGED <<node, sock, entry>> /\ list \in Seq(Nodes)
    BY <1>25 DEF HandlerAdd
  <2>2. \A c \in Clients, w \in Workers : WithWorker(c, w)' <=> WithWorker(c, w)
    BY <1>25 DEF HandlerAdd
  <2>3. \A c \in Clients : InMain(c)' <=> InMain(c)
    BY <2>1
  <2>4. CASE list' = Append(list, Terminate)
    <3> SUFFICES ASSUME NEW c \in Clients PROVE CustodyOf(c)'
      BY DEF ExclusiveCustody
    <3>1. /\ Len(list) \in Nat
          /\ DOMAIN list = 1 .. Len(list) /\ DOMAIN list' = 1 .. (Len(list) + 1)
          /\ list'[Len(list) + 1] = Terminate
          /\ \A i \in 1 .. Len(list) : list'[i] = list[i]
      BY ONLY <2>1, <2>4, AppendFacts, NodeFacts
    <3>2. \A i \in DOMAIN list' : list'[i] = Process(c) => i \in DOMAIN list /\ list[i] = Process(c)
      BY ONLY <3>1, NodeFacts
    <3>3. InList(c)' <=> InList(c)
      BY ONLY <3>1, <3>2 DEF InList
    <3>4. \A i, j \in DOMAIN list' :
             list'[i] = Process(c) /\ list'[j] = Process(c) => i = j
      BY ONLY <3>2, CustodyOf(c) DEF CustodyOf
    <3> HIDE DEF InMain, InList, WithWorker
    <3> QED
      BY <2>1, <2>2, <2>3, <3>3, <3>4 DEF CustodyOf
  <2>5. CASE UNCHANGED list
    BY <2>1, <2>2, <2>3, <2>5
  <2> QED
    BY <1>25, <2>4, <2>5 DEF HandlerAdd
<1>26. ASSUME NEW t \in Threads, HandlerCrash(t) PROVE ExclusiveCustody'
  BY <1>26 DEF HandlerCrash
<1>27. ASSUME NEW c \in Clients, Connect(c) PROVE ExclusiveCustody'
  BY <1>27 DEF Connect
<1>28. CASE UNCHANGED vars
  BY <1>28 DEF vars
<1> QED
  BY BoundAssumption, <1>1, <1>2, <1>3, <1>4, <1>5, <1>6, <1>7, <1>8, <1>9, <1>10, <1>11,
     <1>12, <1>13, <1>14, <1>15, <1>16, <1>17, <1>18, <1>19, <1>20, <1>21,
     <1>22, <1>23, <1>24, <1>25, <1>26, <1>27, <1>28
  DEF Next, MainStep, WorkerStep, HandlerStep, Threads

\* No step loses track of an open connection while malloc() succeeds.
LEMMA ForgottenStep == IndInv /\ NoSocketForgotten /\ [Next]_vars => NoSocketForgotten'
<1> SUFFICES ASSUME IndInv, NoSocketForgotten, [Next]_vars PROVE NoSocketForgotten'
  OBVIOUS
<1> SUFFICES ASSUME ~Failures PROVE NoSocketForgotten'
  BY DEF NoSocketForgotten
<1> USE ThreadAssumption, NodeFacts, NodeAssumption
    DEF IndInv, TypeOK, Bookkeeping, MutexInv, HeadStable, NoSocketForgotten,
        InMain, InList, WithWorker, AddTail,
        Threads, MainLabels, WorkerLabels, HandlerLabels, poolVars, sigVars,
        Running, Alive, Broadcast, Acquire, Release
<1>1. CASE InitializeGlobals
  BY <1>1 DEF InitializeGlobals
<1>2. ASSUME NEW w \in Workers, SpawnWorker(w) PROVE NoSocketForgotten'
  BY <1>2 DEF SpawnWorker
<1>3. CASE SpawnDone
  BY <1>3 DEF SpawnDone
<1>4. CASE TestLoop
  BY <1>4 DEF TestLoop
<1>5. CASE PollShared
  <2>1. \A c \in Clients : ~InMain(c)
    BY <1>5 DEF PollShared
  <2>2. \A c \in Clients : InList(c)' <=> InList(c)
    BY <1>5 DEF PollShared
  <2>3. \A c \in Clients, w \in Workers : WithWorker(c, w)' <=> WithWorker(c, w)
    BY <1>5 DEF PollShared
  <2>4. UNCHANGED sock /\ pc[Main] # "done"
    BY <1>5 DEF PollShared
  <2> HIDE DEF InMain, InList, WithWorker
  <2> QED
    BY <2>1, <2>2, <2>3, <2>4
<1>6. ASSUME NEW c \in Clients, AcceptClient(c) PROVE NoSocketForgotten'
  <2>1. \A d \in Clients : ~InMain(d)
    BY <1>6 DEF AcceptClient
  <2>2. \A d \in Clients : InList(d)' <=> InList(d)
    BY <1>6 DEF AcceptClient
  <2>3. \A d \in Clients, w \in Workers : WithWorker(d, w)' <=> WithWorker(d, w)
    BY <1>6 DEF AcceptClient
  <2>4. InMain(c)' /\ pc[Main] # "done"
    BY <1>6 DEF AcceptClient
  <2>5. \A d \in Clients : sock'[d] = "open" => d = c \/ sock[d] = "open"
    BY <1>6 DEF AcceptClient
  <2> HIDE DEF InMain, InList, WithWorker
  <2> QED
    BY <2>1, <2>2, <2>3, <2>4, <2>5
<1>7. CASE AcceptNobody
  BY <1>7 DEF AcceptNobody
<1>8. CASE AcceptError
  BY <1>8 DEF AcceptError
<1>9. CASE MainLock
  BY <1>9 DEF MainLock
<1>10. CASE MainAdd
  <2>1. entry \in Nodes /\ UNCHANGED sock /\ list \in Seq(Nodes)
    BY <1>10 DEF MainAdd
  <2>2. \A c \in Clients, w \in Workers : WithWorker(c, w) => WithWorker(c, w)'
    BY <1>10 DEF MainAdd
  <2>3. list' = Append(list, entry)
    BY <1>10 DEF MainAdd
  <2>4. /\ Len(list) \in Nat
        /\ DOMAIN list = 1 .. Len(list) /\ DOMAIN list' = 1 .. (Len(list) + 1)
        /\ list'[Len(list) + 1] = entry
        /\ \A i \in 1 .. Len(list) : list'[i] = list[i]
    BY ONLY <2>1, <2>3, AppendFacts
  <2>5. \A c \in Clients : InMain(c) \/ InList(c) => InList(c)'
    BY ONLY <2>4 DEF InMain, InList
  <2>6. pc[Main] # "done"
    BY <1>10 DEF MainAdd
  <2> HIDE DEF InMain, InList, WithWorker
  <2> QED
    BY <2>1, <2>2, <2>5, <2>6
<1>11. CASE JoinWorkers
  BY <1>11 DEF JoinWorkers
<1>12. CASE CleanUpGlobals
  BY <1>12 DEF CleanUpGlobals
<1>13. ASSUME NEW w \in Workers, WorkerLock(w) PROVE NoSocketForgotten'
  BY <1>13 DEF WorkerLock
<1>14. ASSUME NEW w \in Workers, WorkerWait(w) PROVE NoSocketForgotten'
  BY <1>14 DEF WorkerWait
<1>15. ASSUME NEW w \in Workers, SpuriousWake(w) PROVE NoSocketForgotten'
  BY <1>15 DEF SpuriousWake
<1>16. ASSUME NEW w \in Workers, ReadHead(w) PROVE NoSocketForgotten'
  BY <1>16 DEF ReadHead
<1>17. ASSUME NEW w \in Workers, UnlinkHead(w) PROVE NoSocketForgotten'
  <2>1. UNCHANGED <<node, sock, entry>> /\ list \in Seq(Nodes) /\ list # <<>> /\ list' = Tail(list)
    BY <1>17 DEF UnlinkHead
  <2>2. pc' = [pc EXCEPT ![w] = "serve"] /\ pc[w] = "unlink" /\ pc[Main] # "done"
    BY <1>17 DEF UnlinkHead
  <2>3. node[w] = list[1]
    BY <1>17, <2>1, HeadFacts DEF UnlinkHead
  <2>4. /\ Len(list) \in Nat \ {0}
        /\ DOMAIN list = 1 .. Len(list) /\ DOMAIN list' = 1 .. (Len(list) - 1)
        /\ \A i \in 1 .. (Len(list) - 1) : list'[i] = list[i + 1]
    BY ONLY <2>1, TailFacts
  <2>5. ASSUME NEW c \in Clients, NEW i \in DOMAIN list, list[i] = Process(c), i # 1
        PROVE  InList(c)'
    <3>1. i - 1 \in 1 .. (Len(list) - 1) /\ (i - 1) + 1 = i
      BY ONLY <2>4, <2>5
    <3>2. i - 1 \in DOMAIN list' /\ list'[i - 1] = Process(c)
      BY ONLY <2>4, <2>5, <3>1
    <3> QED
      BY ONLY <3>2 DEF InList
  <2>6. \A c \in Clients : InList(c) => InList(c)' \/ WithWorker(c, w)'
    BY ONLY <2>1, <2>2, <2>3, <2>5, TypeOK DEF InList, WithWorker, TypeOK, Threads
  <2>7. \A c \in Clients, v \in Workers : WithWorker(c, v) => WithWorker(c, v)'
    BY <2>1, <2>2
  <2>8. \A c \in Clients : InMain(c) => InMain(c)'
    BY <2>1
  <2> HIDE DEF InMain, InList, WithWorker
  <2> QED
    BY <2>1, <2>2, <2>6, <2>7, <2>8
<1>18. ASSUME NEW w \in Workers, ServeClient(w) PROVE NoSocketForgotten'
  <2>1. \A c \in Clients : InMain(c)' <=> InMain(c)
    BY <1>18 DEF ServeClient
  <2>2. \A c \in Clients : InList(c)' <=> InList(c)
    BY <1>18 DEF ServeClient
  <2>3. \A c \in Clients, v \in Workers : WithWorker(c, v) /\ v # w => WithWorker(c, v)'
    BY <1>18 DEF ServeClient
  <2>4. pc[Main] # "done"
    BY <1>18 DEF ServeClient
  <2>5. \A c \in Clients : sock'[c] = "open" => sock[c] = "open" /\ ~WithWorker(c, w)
    BY <1>18 DEF ServeClient
  <2> HIDE DEF InMain, InList, WithWorker
  <2> QED
    BY <2>1, <2>2, <2>3, <2>4, <2>5
<1>19. ASSUME NEW w \in Workers, ServeShared(w) PROVE NoSocketForgotten'
  <2>1. \A c \in Clients : InMain(c)' <=> InMain(c)
    BY <1>19 DEF ServeShared
  <2>2. \A c \in Clients : InList(c)' <=> InList(c)
    BY <1>19 DEF ServeShared
  <2>3. \A c \in Clients, v \in Workers : WithWorker(c, v) /\ v # w => WithWorker(c, v)'
    BY <1>19 DEF ServeShared
  <2>4. pc[Main] # "done"
    BY <1>19 DEF ServeShared
  <2>5. \A c \in Clients : sock'[c] = "open" => sock[c] = "open" /\ ~WithWorker(c, w)
    BY <1>19 DEF ServeShared
  <2> HIDE DEF InMain, InList, WithWorker
  <2> QED
    BY <2>1, <2>2, <2>3, <2>4, <2>5
<1>20. ASSUME NEW w \in Workers, ExitWorker(w) PROVE NoSocketForgotten'
  <2>1. \A c \in Clients : InMain(c)' <=> InMain(c)
    BY <1>20 DEF ExitWorker
  <2>2. \A c \in Clients : InList(c)' <=> InList(c)
    BY <1>20 DEF ExitWorker
  <2>3. \A c \in Clients, v \in Workers : WithWorker(c, v) /\ v # w => WithWorker(c, v)'
    BY <1>20 DEF ExitWorker
  <2>4. pc[Main] # "done"
    BY <1>20 DEF ExitWorker
  <2>5. \A c \in Clients : sock'[c] = "open" => sock[c] = "open" /\ ~WithWorker(c, w)
    BY <1>20 DEF ExitWorker
  <2> HIDE DEF InMain, InList, WithWorker
  <2> QED
    BY <2>1, <2>2, <2>3, <2>4, <2>5
<1>21. ASSUME NEW t \in Threads, Interrupt(t) PROVE NoSocketForgotten'
  BY <1>21 DEF Interrupt
<1>22. ASSUME NEW t \in Threads, HandlerCheck(t) PROVE NoSocketForgotten'
  BY <1>22 DEF HandlerCheck
<1>23. ASSUME NEW t \in Threads, HandlerSet(t) PROVE NoSocketForgotten'
  BY <1>23 DEF HandlerSet
<1>24. ASSUME NEW t \in Threads, HandlerLock(t) PROVE NoSocketForgotten'
  BY <1>24 DEF HandlerLock
<1>25. ASSUME NEW t \in Threads, HandlerAdd(t) PROVE NoSocketForgotten'
  <2>1. UNCHANGED <<sock, entry>> /\ list \in Seq(Nodes)
    BY <1>25 DEF HandlerAdd
  <2>2. \A c \in Clients, w \in Workers : WithWorker(c, w) => WithWorker(c, w)'
    BY <1>25 DEF HandlerAdd
  <2>3. list' = Append(list, Terminate)
    BY <1>25 DEF HandlerAdd
  <2>4. /\ Len(list) \in Nat
        /\ DOMAIN list = 1 .. Len(list) /\ DOMAIN list' = 1 .. (Len(list) + 1)
        /\ \A i \in 1 .. Len(list) : list'[i] = list[i]
    BY ONLY <2>1, <2>3, AppendFacts, NodeFacts
  <2>5. \A c \in Clients : (InList(c) => InList(c)') /\ (InMain(c) => InMain(c)')
    BY ONLY <2>1, <2>4 DEF InMain, InList
  <2>6. pc[Main] # "done"
    BY <1>25 DEF HandlerAdd
  <2> HIDE DEF InMain, InList, WithWorker
  <2> QED
    BY <2>1, <2>2, <2>5, <2>6
<1>26. ASSUME NEW t \in Threads, HandlerCrash(t) PROVE NoSocketForgotten'
  BY <1>26 DEF HandlerCrash
<1>27. ASSUME NEW c \in Clients, Connect(c) PROVE NoSocketForgotten'
  BY <1>27 DEF Connect
<1>28. CASE UNCHANGED vars
  BY <1>28 DEF vars
<1> QED
  BY BoundAssumption, <1>1, <1>2, <1>3, <1>4, <1>5, <1>6, <1>7, <1>8, <1>9, <1>10, <1>11,
     <1>12, <1>13, <1>14, <1>15, <1>16, <1>17, <1>18, <1>19, <1>20, <1>21,
     <1>22, <1>23, <1>24, <1>25, <1>26, <1>27, <1>28
  DEF Next, MainStep, WorkerStep, HandlerStep, Threads

\* Every step of the pool is a step of the job queue or leaves it alone:
\* addTail() puts a job, removeHead() gets one, the end of checkAndSend() and
\* pthread_exit() finish one, destroyAll() discards what is left.
LEMMA QueueStep == IndInv /\ [Next]_vars => [Queue!Next]_(Queue!vars)
<1> SUFFICES ASSUME IndInv, [Next]_vars PROVE [Queue!Next]_(Queue!vars)
  OBVIOUS
<1> USE ThreadAssumption, NodeFacts, NodeAssumption
    DEF IndInv, TypeOK, Bookkeeping, HeadStable, JobOf, AddTail,
        Threads, MainLabels, WorkerLabels, HandlerLabels, poolVars, sigVars,
        Running, Alive, Broadcast, Acquire, Release
<1>1. CASE InitializeGlobals
  BY <1>1 DEF InitializeGlobals, Queue!vars
<1>2. ASSUME NEW w \in Workers, SpawnWorker(w) PROVE [Queue!Next]_(Queue!vars)
  BY <1>2 DEF SpawnWorker, Queue!vars
<1>3. CASE SpawnDone
  BY <1>3 DEF SpawnDone, Queue!vars
<1>4. CASE TestLoop
  BY <1>4 DEF TestLoop, Queue!vars
<1>5. CASE PollShared
  BY <1>5 DEF PollShared, Queue!vars
<1>6. ASSUME NEW c \in Clients, AcceptClient(c) PROVE [Queue!Next]_(Queue!vars)
  BY <1>6 DEF AcceptClient, Queue!vars
<1>7. CASE AcceptNobody
  BY <1>7 DEF AcceptNobody, Queue!vars
<1>8. CASE AcceptError
  BY <1>8 DEF AcceptError, Queue!vars
<1>9. CASE MainLock
  BY <1>9 DEF MainLock, Queue!vars
<1>10. CASE MainAdd
  <2>1. entry \in Nodes /\ JobOf' = JobOf
    BY <1>10 DEF MainAdd
  <2>2. Queue!Put(entry) \/ UNCHANGED <<list, JobOf>>
    BY <1>10, <2>1 DEF MainAdd, Queue!Put
  <2> QED
    BY <2>1, <2>2 DEF Queue!Next, Queue!vars
<1>11. CASE JoinWorkers
  BY <1>11 DEF JoinWorkers, Queue!vars
<1>12. CASE CleanUpGlobals
  <2>1. JobOf' = JobOf /\ \A w \in Workers : JobOf[w] = NoNode
    BY <1>12 DEF CleanUpGlobals, QuiescentCleanup
  <2>2. Queue!Discard
    BY <1>12, <2>1 DEF CleanUpGlobals, Queue!Discard
  <2> QED
    BY <2>2 DEF Queue!Next
<1>13. ASSUME NEW w \in Workers, WorkerLock(w) PROVE [Queue!Next]_(Queue!vars)
  BY <1>13 DEF WorkerLock, Queue!vars
<1>14. ASSUME NEW w \in Workers, WorkerWait(w) PROVE [Queue!Next]_(Queue!vars)
  BY <1>14 DEF WorkerWait, Queue!vars
<1>15. ASSUME NEW w \in Workers, SpuriousWake(w) PROVE [Queue!Next]_(Queue!vars)
  BY <1>15 DEF SpuriousWake, Queue!vars
<1>16. ASSUME NEW w \in Workers, ReadHead(w) PROVE [Queue!Next]_(Queue!vars)
  BY <1>16 DEF ReadHead, Queue!vars
<1>17. ASSUME NEW w \in Workers, UnlinkHead(w) PROVE [Queue!Next]_(Queue!vars)
  <2>1. JobOf[w] = NoNode /\ JobOf' = [JobOf EXCEPT ![w] = Head(list)]
    BY <1>17 DEF UnlinkHead
  <2>2. Queue!Get(w)
    BY <1>17, <2>1 DEF UnlinkHead, Queue!Get
  <2> QED
    BY <2>2 DEF Queue!Next
<1>18. ASSUME NEW w \in Workers, ServeClient(w) PROVE [Queue!Next]_(Queue!vars)
  <2>1. JobOf[w] # NoNode /\ JobOf' = [JobOf EXCEPT ![w] = NoNode]
    BY <1>18 DEF ServeClient
  <2>2. Queue!Finish(w)
    BY <1>18, <2>1 DEF ServeClient, Queue!Finish
  <2> QED
    BY <2>2 DEF Queue!Next
<1>19. ASSUME NEW w \in Workers, ServeShared(w) PROVE [Queue!Next]_(Queue!vars)
  <2>1. JobOf[w] # NoNode /\ JobOf' = [JobOf EXCEPT ![w] = NoNode]
    BY <1>19 DEF ServeShared
  <2>2. Queue!Finish(w)
    BY <1>19, <2>1 DEF ServeShared, Queue!Finish
  <2> QED
    BY <2>2 DEF Queue!Next
<1>20. ASSUME NEW w \in Workers, ExitWorker(w) PROVE [Queue!Next]_(Queue!vars)
  <2>1. JobOf[w] # NoNode /\ JobOf' = [JobOf EXCEPT ![w] = NoNode]
    BY <1>20 DEF ExitWorker
  <2>2. Queue!Finish(w)
    BY <1>20, <2>1 DEF ExitWorker, Queue!Finish
  <2> QED
    BY <2>2 DEF Queue!Next
<1>21. ASSUME NEW t \in Threads, Interrupt(t) PROVE [Queue!Next]_(Queue!vars)
  BY <1>21 DEF Interrupt, Queue!vars
<1>22. ASSUME NEW t \in Threads, HandlerCheck(t) PROVE [Queue!Next]_(Queue!vars)
  BY <1>22 DEF HandlerCheck, Queue!vars
<1>23. ASSUME NEW t \in Threads, HandlerSet(t) PROVE [Queue!Next]_(Queue!vars)
  BY <1>23 DEF HandlerSet, Queue!vars
<1>24. ASSUME NEW t \in Threads, HandlerLock(t) PROVE [Queue!Next]_(Queue!vars)
  BY <1>24 DEF HandlerLock, Queue!vars
<1>25. ASSUME NEW t \in Threads, HandlerAdd(t) PROVE [Queue!Next]_(Queue!vars)
  <2>1. JobOf' = JobOf
    BY <1>25 DEF HandlerAdd
  <2>2. Queue!Put(Terminate) \/ UNCHANGED <<list, JobOf>>
    BY <1>25, <2>1 DEF HandlerAdd, Queue!Put
  <2> QED
    BY <2>2 DEF Queue!Next, Queue!vars
<1>26. ASSUME NEW t \in Threads, HandlerCrash(t) PROVE [Queue!Next]_(Queue!vars)
  BY <1>26 DEF HandlerCrash, Queue!vars
<1>27. ASSUME NEW c \in Clients, Connect(c) PROVE [Queue!Next]_(Queue!vars)
  BY <1>27 DEF Connect, Queue!vars
<1>28. CASE UNCHANGED vars
  BY <1>28 DEF vars, Queue!vars
<1> QED
  BY BoundAssumption, <1>1, <1>2, <1>3, <1>4, <1>5, <1>6, <1>7, <1>8, <1>9, <1>10, <1>11,
     <1>12, <1>13, <1>14, <1>15, <1>16, <1>17, <1>18, <1>19, <1>20, <1>21,
     <1>22, <1>23, <1>24, <1>25, <1>26, <1>27, <1>28
  DEF Next, MainStep, WorkerStep, HandlerStep, Threads

\* What keeps Covered: nobody new stays, no TERMINATE node goes, LOOP and the
\* handlers that are adding nodes stay as they are.
LEMMA CoverKept ==
    ASSUME IndInv, Covered, Staying' = Staying, list' \in Seq(Nodes),
           Cardinality(Tokens(list')) >= Cardinality(Tokens(list)),
           ready' => ready, LOOP' = LOOP,
           \A t \in Threads : hpc[t] \in {"lock", "add"} =>
               hpc'[t] \in {"lock", "add"} /\ hcount'[t] = hcount[t]
    PROVE  Covered'
<1>1. /\ Cardinality(Tokens(list)) \in Nat /\ Cardinality(Tokens(list')) \in Nat
      /\ Cardinality(Staying) \in Nat /\ NumThreads \in Nat
      /\ \A t \in Threads : hcount[t] \in Nat
  BY TokensFinite, StayingFinite DEF IndInv, TypeOK
<1>2. Cardinality(Staying') = Cardinality(Staying)
  OBVIOUS
<1>3. SUFFICES ASSUME ~Failures, ready', ~LOOP'
               PROVE  \/ Cardinality(Staying)' <= Cardinality(Tokens(list))'
                      \/ \E t \in Threads : Promised(t)'
  BY DEF Covered
<1>4. ready /\ ~LOOP
  BY <1>3
<1>5. CASE Cardinality(Staying) <= Cardinality(Tokens(list))
  BY <1>1, <1>2, <1>5
<1>6. ASSUME NEW t \in Threads, Promised(t)
      PROVE  Promised(t)'
  <2>1. hpc'[t] \in {"lock", "add"} /\ hcount'[t] = hcount[t]
    BY <1>6 DEF Promised
  <2>2. Cardinality(Staying) + hcount[t] <= NumThreads + Cardinality(Tokens(list))
    BY <1>6 DEF Promised
  <2>3. hcount[t] \in Nat
    BY <1>1
  <2>4. Cardinality(Staying') + hcount'[t] <= NumThreads + Cardinality(Tokens(list'))
    BY <1>1, <1>2, <2>1, <2>2, <2>3
  <2> QED
    BY <2>1, <2>4 DEF Promised
<1> QED
  BY <1>3, <1>4, <1>5, <1>6 DEF Covered

\* Every step keeps what main() and a handler on it are at the outset.
LEMMA OutsetStep == IndInv /\ Outset /\ [Next]_vars => Outset'
<1> SUFFICES ASSUME IndInv, Outset, [Next]_vars PROVE Outset'
  OBVIOUS
<1> USE ThreadAssumption
    DEF IndInv, TypeOK, MutexInv, Outset,
        Threads, MainLabels, WorkerLabels, HandlerLabels, poolVars, sigVars,
        Running, Alive, Broadcast, Acquire, Release
<1>1. CASE InitializeGlobals
  BY <1>1 DEF InitializeGlobals
<1>2. ASSUME NEW w \in Workers, SpawnWorker(w) PROVE Outset'
  BY <1>2 DEF SpawnWorker
<1>3. CASE SpawnDone
  BY <1>3 DEF SpawnDone
<1>4. CASE TestLoop
  BY <1>4 DEF TestLoop
<1>5. CASE PollShared
  BY <1>5 DEF PollShared
<1>6. ASSUME NEW c \in Clients, AcceptClient(c) PROVE Outset'
  BY <1>6 DEF AcceptClient
<1>7. CASE AcceptNobody
  BY <1>7 DEF AcceptNobody
<1>8. CASE AcceptError
  BY <1>8 DEF AcceptError
<1>9. CASE MainLock
  BY <1>9 DEF MainLock
<1>10. CASE MainAdd
  BY <1>10 DEF MainAdd
<1>11. CASE JoinWorkers
  BY <1>11 DEF JoinWorkers
<1>12. CASE CleanUpGlobals
  BY <1>12 DEF CleanUpGlobals
<1>13. ASSUME NEW w \in Workers, WorkerLock(w) PROVE Outset'
  BY <1>13 DEF WorkerLock
<1>14. ASSUME NEW w \in Workers, WorkerWait(w) PROVE Outset'
  BY <1>14 DEF WorkerWait
<1>15. ASSUME NEW w \in Workers, SpuriousWake(w) PROVE Outset'
  BY <1>15 DEF SpuriousWake
<1>16. ASSUME NEW w \in Workers, ReadHead(w) PROVE Outset'
  BY <1>16 DEF ReadHead
<1>17. ASSUME NEW w \in Workers, UnlinkHead(w) PROVE Outset'
  BY <1>17 DEF UnlinkHead
<1>18. ASSUME NEW w \in Workers, ServeClient(w) PROVE Outset'
  BY <1>18 DEF ServeClient
<1>19. ASSUME NEW w \in Workers, ServeShared(w) PROVE Outset'
  BY <1>19 DEF ServeShared
<1>20. ASSUME NEW w \in Workers, ExitWorker(w) PROVE Outset'
  BY <1>20 DEF ExitWorker
<1>21. ASSUME NEW t \in Threads, Interrupt(t) PROVE Outset'
  BY <1>21 DEF Interrupt
<1>22. ASSUME NEW t \in Threads, HandlerCheck(t) PROVE Outset'
  BY <1>22 DEF HandlerCheck
<1>23. ASSUME NEW t \in Threads, HandlerSet(t) PROVE Outset'
  BY <1>23 DEF HandlerSet
<1>24. ASSUME NEW t \in Threads, HandlerLock(t) PROVE Outset'
  BY <1>24 DEF HandlerLock
<1>25. ASSUME NEW t \in Threads, HandlerAdd(t) PROVE Outset'
  BY <1>25 DEF HandlerAdd
<1>26. ASSUME NEW t \in Threads, HandlerCrash(t) PROVE Outset'
  BY <1>26 DEF HandlerCrash
<1>27. ASSUME NEW c \in Clients, Connect(c) PROVE Outset'
  BY <1>27 DEF Connect
<1>28. CASE UNCHANGED vars
  BY <1>28 DEF vars
<1> QED
  BY BoundAssumption, <1>1, <1>2, <1>3, <1>4, <1>5, <1>6, <1>7, <1>8, <1>9, <1>10, <1>11,
     <1>12, <1>13, <1>14, <1>15, <1>16, <1>17, <1>18, <1>19, <1>20, <1>21,
     <1>22, <1>23, <1>24, <1>25, <1>26, <1>27, <1>28
  DEF Next, MainStep, WorkerStep, HandlerStep, Threads

\* Every step keeps the TERMINATE nodes and the promises of the handlers
\* enough for the workers that stay.
LEMMA CoverStep == IndInv /\ TokenInv /\ [Next]_vars => Covered'
<1> SUFFICES ASSUME IndInv, TokenInv, [Next]_vars PROVE Covered'
  OBVIOUS
<1> USE ThreadAssumption, NodeFacts, NodeAssumption
    DEF Threads, poolVars, sigVars, Running, Alive, Broadcast, Acquire, Release
<1>a. list \in Seq(Nodes) /\ TypeOK /\ Bookkeeping /\ HeadStable /\ Outset /\ Covered
  BY DEF IndInv, TypeOK, TokenInv
<1>b. /\ Cardinality(Tokens(list)) \in Nat
      /\ Cardinality(Staying) \in Nat /\ Cardinality(Staying) <= NumThreads /\ NumThreads \in Nat
      /\ \A t \in Threads : hcount[t] \in Nat
  BY <1>a, TokensFinite, StayingFinite DEF TypeOK
<1>c. Cardinality(Tokens(list)) >= Cardinality(Tokens(list))
  BY <1>b
<1>d. pc \in [Threads -> MainLabels \cup WorkerLabels] /\ \A w \in Workers : pc[w] \in WorkerLabels
  BY <1>a DEF TypeOK
<1>e. /\ node \in [Workers -> Nodes \cup {NoNode}] /\ hpc \in [Threads -> HandlerLabels]
      /\ hcount \in [Threads -> 0 .. NumThreads] /\ entry \in Nodes \cup {NoNode}
  BY <1>a DEF TypeOK
<1>1. CASE InitializeGlobals
  <2>1. LOOP'
    BY <1>1, <1>a DEF InitializeGlobals, Outset
  <2> QED
    BY <2>1 DEF Covered
<1>2. ASSUME NEW w \in Workers, SpawnWorker(w) PROVE Covered'
  <2>1. Staying' = Staying
    BY <1>2, <1>a, <1>d, <1>e DEF SpawnWorker, Staying, WorkerLabels, Bookkeeping
  <2>2. list' = list /\ LOOP' = LOOP /\ ready' = ready /\ hcount' = hcount
    BY <1>2 DEF SpawnWorker
  <2>3. \A u \in Threads : hpc[u] \in {"lock", "add"} => hpc'[u] \in {"lock", "add"}
    BY <1>2 DEF SpawnWorker
  <2> QED
    BY <1>a, <1>c, <2>1, <2>2, <2>3, CoverKept
<1>3. CASE SpawnDone
  <2>1. Staying' = Staying
    BY <1>3, <1>a, <1>d, <1>e DEF SpawnDone, Staying, WorkerLabels, Bookkeeping
  <2>2. list' = list /\ LOOP' = LOOP /\ ready' = ready /\ hcount' = hcount
    BY <1>3 DEF SpawnDone
  <2>3. \A u \in Threads : hpc[u] \in {"lock", "add"} => hpc'[u] \in {"lock", "add"}
    BY <1>3 DEF SpawnDone
  <2> QED
    BY <1>a, <1>c, <2>1, <2>2, <2>3, CoverKept
<1>4. CASE TestLoop
  <2>1. Staying' = Staying
    BY <1>4, <1>a, <1>d, <1>e DEF TestLoop, Staying, WorkerLabels, Bookkeeping
  <2>2. list' = list /\ LOOP' = LOOP /\ ready' = ready /\ hcount' = hcount
    BY <1>4 DEF TestLoop
  <2>3. \A u \in Threads : hpc[u] \in {"lock", "add"} => hpc'[u] \in {"lock", "add"}
    BY <1>4 DEF TestLoop
  <2> QED
    BY <1>a, <1>c, <2>1, <2>2, <2>3, CoverKept
<1>5. CASE PollShared
  <2>1. Staying' = Staying
    BY <1>5, <1>a, <1>d, <1>e DEF PollShared, Staying, WorkerLabels, Bookkeeping
  <2>2. list' = list /\ LOOP' = LOOP /\ ready' = ready /\ hcount' = hcount
    BY <1>5 DEF PollShared
  <2>3. \A u \in Threads : hpc[u] \in {"lock", "add"} => hpc'[u] \in {"lock", "add"}
    BY <1>5 DEF PollShared
  <2> QED
    BY <1>a, <1>c, <2>1, <2>2, <2>3, CoverKept
<1>6. ASSUME NEW c \in Clients, AcceptClient(c) PROVE Covered'
  <2>1. Staying' = Staying
    BY <1>6, <1>a, <1>d, <1>e DEF AcceptClient, Staying, WorkerLabels, Bookkeeping
  <2>2. list' = list /\ LOOP' = LOOP /\ ready' = ready /\ hcount' = hcount
    BY <1>6 DEF AcceptClient
  <2>3. \A u \in Threads : hpc[u] \in {"lock", "add"} => hpc'[u] \in {"lock", "add"}
    BY <1>6 DEF AcceptClient
  <2> QED
    BY <1>a, <1>c, <2>1, <2>2, <2>3, CoverKept
<1>7. CASE AcceptNobody
  <2>1. Staying' = Staying
    BY <1>7, <1>a, <1>d, <1>e DEF AcceptNobody, Staying, WorkerLabels, Bookkeeping
  <2>2. list' = list /\ LOOP' = LOOP /\ ready' = ready /\ hcount' = hcount
    BY <1>7 DEF AcceptNobody
  <2>3. \A u \in Threads : hpc[u] \in {"lock", "add"} => hpc'[u] \in {"lock", "add"}
    BY <1>7 DEF AcceptNobody
  <2> QED
    BY <1>a, <1>c, <2>1, <2>2, <2>3, CoverKept
<1>8. CASE AcceptError
  <2>1. Staying' = Staying
    BY <1>8, <1>a, <1>d, <1>e DEF AcceptError, Staying, WorkerLabels, Bookkeeping
  <2>2. list' = list /\ LOOP' = LOOP /\ ready' = ready /\ hcount' = hcount
    BY <1>8 DEF AcceptError
  <2>3. \A u \in Threads : hpc[u] \in {"lock", "add"} => hpc'[u] \in {"lock", "add"}
    BY <1>8 DEF AcceptError
  <2> QED
    BY <1>a, <1>c, <2>1, <2>2, <2>3, CoverKept
<1>9. CASE MainLock
  <2>1. Staying' = Staying
    BY <1>9, <1>a, <1>d, <1>e DEF MainLock, Staying, WorkerLabels, Bookkeeping
  <2>2. list' = list /\ LOOP' = LOOP /\ ready' = ready /\ hcount' = hcount
    BY <1>9 DEF MainLock
  <2>3. \A u \in Threads : hpc[u] \in {"lock", "add"} => hpc'[u] \in {"lock", "add"}
    BY <1>9 DEF MainLock
  <2> QED
    BY <1>a, <1>c, <2>1, <2>2, <2>3, CoverKept
<1>10. CASE MainAdd
  <2>1. Staying' = Staying
    BY <1>10, <1>d DEF MainAdd, Staying
  <2>2. entry \in Nodes
    BY <1>10, <1>a DEF MainAdd, Bookkeeping
  <2>3. list' = Append(list, entry) \/ list' = list
    BY <1>10 DEF MainAdd, AddTail
  <2>4. list' \in Seq(Nodes) /\ Cardinality(Tokens(list')) >= Cardinality(Tokens(list))
    <3>1. CASE list' = list
      BY <3>1, <1>a, <1>b
    <3>2. CASE list' = Append(list, entry)
      <4>1. list' \in Seq(Nodes)
        BY <3>2, <2>2, <1>a, AppendFacts
      <4>2. Cardinality(Tokens(list')) \in {Cardinality(Tokens(list)), Cardinality(Tokens(list)) + 1}
        BY <3>2, <2>2, <1>a, TokensAppend
      <4> QED
        BY <4>1, <4>2, <1>b
    <3> QED
      BY <2>3, <3>1, <3>2
  <2>5. LOOP' = LOOP /\ ready' = ready /\ hpc' = hpc /\ hcount' = hcount
    BY <1>10 DEF MainAdd
  <2> QED
    BY <1>a, <2>1, <2>4, <2>5, CoverKept
<1>11. CASE JoinWorkers
  <2>1. Staying' = Staying
    BY <1>11, <1>a, <1>d, <1>e DEF JoinWorkers, Staying, WorkerLabels, Bookkeeping
  <2>2. list' = list /\ LOOP' = LOOP /\ ready' = ready /\ hcount' = hcount
    BY <1>11 DEF JoinWorkers
  <2>3. \A u \in Threads : hpc[u] \in {"lock", "add"} => hpc'[u] \in {"lock", "add"}
    BY <1>11 DEF JoinWorkers
  <2> QED
    BY <1>a, <1>c, <2>1, <2>2, <2>3, CoverKept
<1>12. CASE CleanUpGlobals
  <2>1. ~ready'
    BY <1>12 DEF CleanUpGlobals
  <2> QED
    BY <2>1 DEF Covered
<1>13. ASSUME NEW w \in Workers, WorkerLock(w) PROVE Covered'
  <2>1. Staying' = Staying
    BY <1>13, <1>a, <1>d, <1>e DEF WorkerLock, Staying, WorkerLabels, Bookkeeping
  <2>2. list' = list /\ LOOP' = LOOP /\ ready' = ready /\ hcount' = hcount
    BY <1>13 DEF WorkerLock
  <2>3. \A u \in Threads : hpc[u] \in {"lock", "add"} => hpc'[u] \in {"lock", "add"}
    BY <1>13 DEF WorkerLock
  <2> QED
    BY <1>a, <1>c, <2>1, <2>2, <2>3, CoverKept
<1>14. ASSUME NEW w \in Workers, WorkerWait(w) PROVE Covered'
  <2>1. Staying' = Staying
    BY <1>14, <1>a, <1>d, <1>e DEF WorkerWait, Staying, WorkerLabels, Bookkeeping
  <2>2. list' = list /\ LOOP' = LOOP /\ ready' = ready /\ hcount' = hcount
    BY <1>14 DEF WorkerWait
  <2>3. \A u \in Threads : hpc[u] \in {"lock", "add"} => hpc'[u] \in {"lock", "add"}
    BY <1>14 DEF WorkerWait
  <2> QED
    BY <1>a, <1>c, <2>1, <2>2, <2>3, CoverKept
<1>15. ASSUME NEW w \in Workers, SpuriousWake(w) PROVE Covered'
  <2>1. Staying' = Staying
    BY <1>15, <1>a, <1>d, <1>e DEF SpuriousWake, Staying, WorkerLabels, Bookkeeping
  <2>2. list' = list /\ LOOP' = LOOP /\ ready' = ready /\ hcount' = hcount
    BY <1>15 DEF SpuriousWake
  <2>3. \A u \in Threads : hpc[u] \in {"lock", "add"} => hpc'[u] \in {"lock", "add"}
    BY <1>15 DEF SpuriousWake
  <2> QED
    BY <1>a, <1>c, <2>1, <2>2, <2>3, CoverKept
<1>16. ASSUME NEW w \in Workers, ReadHead(w) PROVE Covered'
  <2>1. Staying' = Staying
    BY <1>16, <1>a, <1>d, <1>e DEF ReadHead, Staying, WorkerLabels, Bookkeeping
  <2>2. list' = list /\ LOOP' = LOOP /\ ready' = ready /\ hcount' = hcount
    BY <1>16 DEF ReadHead
  <2>3. \A u \in Threads : hpc[u] \in {"lock", "add"} => hpc'[u] \in {"lock", "add"}
    BY <1>16 DEF ReadHead
  <2> QED
    BY <1>a, <1>c, <2>1, <2>2, <2>3, CoverKept
<1>17. ASSUME NEW w \in Workers, UnlinkHead(w) PROVE Covered'
  <2> DEFINE gone == IF Head(list) = Terminate THEN 1 ELSE 0
  <2>1. list # <<>> /\ node[w] = Head(list)
    BY <1>17, <1>a DEF UnlinkHead, HeadStable
  <2>2. list' \in Seq(Nodes) /\ Cardinality(Tokens(list')) \in Nat
    <3>1. list' = Tail(list)
      BY <1>17 DEF UnlinkHead
    <3>2. list' \in Seq(Nodes)
      BY <3>1, <2>1, <1>a, TailFacts
    <3> QED
      BY <3>2, TokensFinite
  <2>3. Cardinality(Tokens(list)) = Cardinality(Tokens(list')) + gone
    <3>1. list' = Tail(list)
      BY <1>17 DEF UnlinkHead
    <3> QED
      BY <3>1, <2>1, <1>a, TokensTail
  <2>4. Cardinality(Staying) = Cardinality(Staying') + gone /\ Cardinality(Staying') \in Nat
    <3>1. w \in Staying /\ pc[w] = "unlink" /\ node' = node /\ pc' = [pc EXCEPT ![w] = "serve"]
      BY <1>17 DEF UnlinkHead, Staying
    <3>2. CASE Head(list) = Terminate
      <4>1. Staying' = Staying \ {w}
        BY <3>1, <3>2, <2>1, <1>d DEF Staying
      <4>2. Cardinality(Staying') = Cardinality(Staying) - 1
        BY <4>1, <3>1, StayingFinite, FS_RemoveElement
      <4>3. Cardinality(Staying') \in Nat
        BY <4>1, StayingFinite, FS_RemoveElement, FS_CardinalityType
      <4> QED
        BY <4>2, <4>3, <3>2, <1>b
    <3>3. CASE Head(list) # Terminate
      <4>1. Staying' = Staying
        BY <3>1, <3>3, <2>1, <1>d DEF Staying
      <4> QED
        BY <4>1, <3>3, <1>b
    <3> QED
      BY <3>2, <3>3
  <2>5. LOOP' = LOOP /\ ready' = ready /\ hpc' = hpc /\ hcount' = hcount
    BY <1>17 DEF UnlinkHead
  <2>6. gone \in Nat
    OBVIOUS
  <2> HIDE DEF gone
  <2>7. SUFFICES ASSUME ~Failures, ready', ~LOOP'
                 PROVE  \/ Cardinality(Staying') <= Cardinality(Tokens(list'))
                        \/ \E t \in Threads : Promised(t)'
    BY DEF Covered
  <2>8. CASE Cardinality(Staying) <= Cardinality(Tokens(list))
    BY <1>b, <2>2, <2>3, <2>4, <2>6, <2>8
  <2>9. ASSUME NEW t \in Threads, Promised(t)
        PROVE  Promised(t)'
    <3>1. Cardinality(Staying) + hcount[t] <= NumThreads + Cardinality(Tokens(list))
      BY <2>9 DEF Promised
    <3>2. Cardinality(Staying') + hcount[t] <= NumThreads + Cardinality(Tokens(list'))
      BY <1>b, <2>2, <2>3, <2>4, <2>6, <3>1
    <3> QED
      BY <2>5, <2>9, <3>2 DEF Promised
  <2> QED
    BY <1>a, <2>5, <2>7, <2>8, <2>9 DEF Covered
<1>18. ASSUME NEW w \in Workers, ServeClient(w) PROVE Covered'
  <2>1. Staying' = Staying
    BY <1>18, <1>a, <1>d, <1>e DEF ServeClient, Staying, WorkerLabels, Bookkeeping
  <2>2. list' = list /\ LOOP' = LOOP /\ ready' = ready /\ hcount' = hcount
    BY <1>18 DEF ServeClient
  <2>3. \A u \in Threads : hpc[u] \in {"lock", "add"} => hpc'[u] \in {"lock", "add"}
    BY <1>18 DEF ServeClient
  <2> QED
    BY <1>a, <1>c, <2>1, <2>2, <2>3, CoverKept
<1>19. ASSUME NEW w \in Workers, ServeShared(w) PROVE Covered'
  <2>1. Staying' = Staying
    BY <1>19, <1>a, <1>d, <1>e DEF ServeShared, Staying, WorkerLabels, Bookkeeping
  <2>2. list' = list /\ LOOP' = LOOP /\ ready' = ready /\ hcount' = hcount
    BY <1>19 DEF ServeShared
  <2>3. \A u \in Threads : hpc[u] \in {"lock", "add"} => hpc'[u] \in {"lock", "add"}
    BY <1>19 DEF ServeShared
  <2> QED
    BY <1>a, <1>c, <2>1, <2>2, <2>3, CoverKept
<1>20. ASSUME NEW w \in Workers, ExitWorker(w) PROVE Covered'
  <2>1. Staying' = Staying
    BY <1>20, <1>a, <1>d, <1>e DEF ExitWorker, Staying, WorkerLabels, Bookkeeping
  <2>2. list' = list /\ LOOP' = LOOP /\ ready' = ready /\ hcount' = hcount
    BY <1>20 DEF ExitWorker
  <2>3. \A u \in Threads : hpc[u] \in {"lock", "add"} => hpc'[u] \in {"lock", "add"}
    BY <1>20 DEF ExitWorker
  <2> QED
    BY <1>a, <1>c, <2>1, <2>2, <2>3, CoverKept
<1>21. ASSUME NEW t \in Threads, Interrupt(t) PROVE Covered'
  <2>1. Staying' = Staying
    BY <1>21, <1>a, <1>d, <1>e DEF Interrupt, Staying, WorkerLabels, Bookkeeping
  <2>2. list' = list /\ LOOP' = LOOP /\ ready' = ready /\ hcount' = hcount
    BY <1>21 DEF Interrupt
  <2>3. \A u \in Threads : hpc[u] \in {"lock", "add"} => hpc'[u] \in {"lock", "add"}
    BY <1>21, <1>e DEF Interrupt
  <2> QED
    BY <1>a, <1>c, <2>1, <2>2, <2>3, CoverKept
<1>22. ASSUME NEW t \in Threads, HandlerCheck(t) PROVE Covered'
  <2>1. Staying' = Staying
    BY <1>22, <1>a, <1>d, <1>e DEF HandlerCheck, Staying, WorkerLabels, Bookkeeping
  <2>2. list' = list /\ LOOP' = LOOP /\ ready' = ready /\ hcount' = hcount
    BY <1>22 DEF HandlerCheck
  <2>3. \A u \in Threads : hpc[u] \in {"lock", "add"} => hpc'[u] \in {"lock", "add"}
    BY <1>22, <1>e DEF HandlerCheck
  <2> QED
    BY <1>a, <1>c, <2>1, <2>2, <2>3, CoverKept
<1>23. ASSUME NEW t \in Threads, HandlerSet(t) PROVE Covered'
  <2>1. Staying' = Staying /\ list' = list
    BY <1>23 DEF HandlerSet, Staying
  <2>2. hpc'[t] = "lock" /\ hcount'[t] = 0
    BY <1>23, <1>e DEF HandlerSet
  <2>3. Cardinality(Staying') + hcount'[t] <= NumThreads + Cardinality(Tokens(list'))
    BY <1>b, <2>1, <2>2
  <2>4. Promised(t)'
    BY <2>2, <2>3 DEF Promised
  <2> QED
    BY <2>4 DEF Covered
<1>24. ASSUME NEW t \in Threads, HandlerLock(t) PROVE Covered'
  <2>1. Staying' = Staying
    BY <1>24, <1>a, <1>d, <1>e DEF HandlerLock, Staying, WorkerLabels, Bookkeeping
  <2>2. list' = list /\ LOOP' = LOOP /\ ready' = ready /\ hcount' = hcount
    BY <1>24 DEF HandlerLock
  <2>3. \A u \in Threads : hpc[u] \in {"lock", "add"} => hpc'[u] \in {"lock", "add"}
    BY <1>24, <1>e DEF HandlerLock
  <2> QED
    BY <1>a, <1>c, <2>1, <2>2, <2>3, CoverKept
<1>25. ASSUME NEW t \in Threads, HandlerAdd(t) PROVE Covered'
  <2>0. CASE Failures
    BY <2>0 DEF Covered
  <2>1. CASE ~Failures
    <3>1. Staying' = Staying
      BY <1>25, <1>d DEF HandlerAdd, Staying
    <3>2. Cardinality(Tokens(list')) = Cardinality(Tokens(list)) + 1
      BY <1>25, <2>1, <1>a, TokensAppend DEF HandlerAdd, AddTail
    <3>3. LOOP' = LOOP /\ ready' = ready
      BY <1>25 DEF HandlerAdd
    <3>4. SUFFICES ASSUME ready', ~LOOP'
                   PROVE  \/ Cardinality(Staying') <= Cardinality(Tokens(list'))
                          \/ \E u \in Threads : Promised(u)'
      BY DEF Covered
    <3>5. CASE Cardinality(Staying) <= Cardinality(Tokens(list))
      BY <1>b, <3>1, <3>2, <3>5
    <3>6. CASE Promised(t)
      <4>1. Cardinality(Staying) + hcount[t] <= NumThreads + Cardinality(Tokens(list))
        BY <3>6 DEF Promised
      <4>2. hcount[t] \in Nat /\ hcount'[t] = hcount[t] + 1
        BY <1>25, <1>b, <1>e DEF HandlerAdd
      <4>3. CASE hcount[t] + 1 < NumThreads
        <5>1. hpc'[t] = "lock"
          BY <4>3, <1>25, <1>e DEF HandlerAdd
        <5>2. Cardinality(Staying') + hcount'[t] <= NumThreads + Cardinality(Tokens(list'))
          BY <1>b, <3>1, <3>2, <4>1, <4>2
        <5> QED
          BY <5>1, <5>2 DEF Promised
      <4>4. CASE ~(hcount[t] + 1 < NumThreads)
        BY <1>b, <3>1, <3>2, <4>1, <4>2, <4>4
      <4> QED
        BY <4>3, <4>4
    <3>7. ASSUME NEW u \in Threads, u # t, Promised(u)
          PROVE  Promised(u)'
      <4>1. Cardinality(Staying) + hcount[u] <= NumThreads + Cardinality(Tokens(list))
        BY <3>7 DEF Promised
      <4>2. hcount[u] \in Nat /\ hcount'[u] = hcount[u] /\ hpc'[u] = hpc[u]
        BY <1>25, <1>b, <1>e, <3>7 DEF HandlerAdd
      <4>3. Cardinality(Staying') + hcount'[u] <= NumThreads + Cardinality(Tokens(list'))
        BY <1>b, <3>1, <3>2, <4>1, <4>2
      <4> QED
        BY <3>7, <4>2, <4>3 DEF Promised
    <3> QED
      BY <1>a, <2>1, <3>3, <3>4, <3>5, <3>6, <3>7 DEF Covered
  <2> QED
    BY <2>0, <2>1
<1>26. ASSUME NEW t \in Threads, HandlerCrash(t) PROVE Covered'
  <2>1. Staying' = Staying
    BY <1>26, <1>a, <1>d, <1>e DEF HandlerCrash, Staying, WorkerLabels, Bookkeeping
  <2>2. list' = list /\ LOOP' = LOOP /\ ready' = ready /\ hcount' = hcount
    BY <1>26 DEF HandlerCrash
  <2>3. \A u \in Threads : hpc[u] \in {"lock", "add"} => hpc'[u] \in {"lock", "add"}
    BY <1>26 DEF HandlerCrash
  <2> QED
    BY <1>a, <1>c, <2>1, <2>2, <2>3, CoverKept
<1>27. ASSUME NEW c \in Clients, Connect(c) PROVE Covered'
  <2>1. Staying' = Staying
    BY <1>27, <1>a, <1>d, <1>e DEF Connect, Staying, WorkerLabels, Bookkeeping
  <2>2. list' = list /\ LOOP' = LOOP /\ ready' = ready /\ hcount' = hcount
    BY <1>27 DEF Connect
  <2>3. \A u \in Threads : hpc[u] \in {"lock", "add"} => hpc'[u] \in {"lock", "add"}
    BY <1>27 DEF Connect
  <2> QED
    BY <1>a, <1>c, <2>1, <2>2, <2>3, CoverKept
<1>28. CASE UNCHANGED vars
  <2>1. Staying' = Staying
    BY <1>28, <1>a, <1>d, <1>e DEF vars, Staying, WorkerLabels, Bookkeeping
  <2>2. list' = list /\ LOOP' = LOOP /\ ready' = ready /\ hcount' = hcount
    BY <1>28 DEF vars
  <2>3. \A u \in Threads : hpc[u] \in {"lock", "add"} => hpc'[u] \in {"lock", "add"}
    BY <1>28 DEF vars
  <2> QED
    BY <1>a, <1>c, <2>1, <2>2, <2>3, CoverKept
<1> QED
  BY BoundAssumption, <1>1, <1>2, <1>3, <1>4, <1>5, <1>6, <1>7, <1>8, <1>9, <1>10, <1>11,
     <1>12, <1>13, <1>14, <1>15, <1>16, <1>17, <1>18, <1>19, <1>20, <1>21,
     <1>22, <1>23, <1>24, <1>25, <1>26, <1>27, <1>28
  DEF Next, MainStep, WorkerStep, HandlerStep, Threads

\* main() starts in a state that satisfies the inductive invariant.
LEMMA IndInvInit == Init => IndInv
<1> SUFFICES ASSUME Init PROVE IndInv
  OBVIOUS
<1> USE ThreadAssumption, NodeAssumption, NodeFacts, NumThreadsPositive DEF Init
<1>1. TypeOK
  <2>1. list \in Seq(Nodes) /\ mConList \in Threads \cup {NoThread}
    OBVIOUS
  <2>2. /\ pc \in [Threads -> MainLabels \cup WorkerLabels] /\ pc[Main] \in MainLabels
        /\ \A w \in Workers : pc[w] \in WorkerLabels
    BY DEF Threads, MainLabels, WorkerLabels
  <2>3. /\ hpc \in [Threads -> HandlerLabels] /\ hcount \in [Threads -> 0 .. NumThreads]
        /\ posts \in Nat /\ signals \in Nat
    BY DEF HandlerLabels
  <2> QED
    BY <2>1, <2>2, <2>3 DEF TypeOK
<1>2. Bookkeeping /\ MutexInv /\ HeadStable /\ NoLostWakeup /\ QuiescentCleanup
  BY DEF Bookkeeping, MutexInv, HeadStable, NoLostWakeup, QuiescentCleanup, Threads
<1>3. ExclusiveCustody
  <2> SUFFICES ASSUME NEW c \in Clients PROVE CustodyOf(c)
    BY DEF ExclusiveCustody
  <2>1. ~InMain(c) /\ ~InList(c) /\ \A w \in Workers : ~WithWorker(c, w)
    BY DEF InMain, InList, WithWorker, Threads
  <2>2. \A i, j \in DOMAIN list : list[i] = Process(c) /\ list[j] = Process(c) => i = j
    OBVIOUS
  <2> QED
    BY <2>1, <2>2 DEF CustodyOf
<1> QED
  BY <1>1, <1>2, <1>3 DEF IndInv

\* The inductive invariant holds in every state of main(), the workers and
\* the signal handlers, however many workers and clients there are, whichever
\* threads SIGINT hits and however often, with or without failing malloc().
THEOREM PoolInvariant == Spec => []IndInv
<1>1. Init => IndInv
  BY IndInvInit
<1>2. IndInv /\ [Next]_vars => IndInv'
  BY TypeStep, BookStep, MutexStep, HeadStep, WakeStep, CleanStep, CustodyStep DEF IndInv
<1> QED
  BY <1>1, <1>2, PTL DEF Spec

\* Every variable of the pool keeps its type, and the loop of catchInterrupt()
\* never adds more than numThreads TERMINATE nodes in one run.
THEOREM TypeCorrect == Spec => []TypeOK
<1>1. IndInv => TypeOK
  BY DEF IndInv
<1> QED
  BY PoolInvariant, <1>1, PTL

\* removeHead() unlinks the very node it returns: between the two halves of it
\* no other thread, and no signal handler on any thread, changes the head.
THEOREM HeadIsStable == Spec => []HeadStable
<1>1. IndInv => HeadStable
  BY DEF IndInv
<1> QED
  BY PoolInvariant, <1>1, PTL

\* No wake-up is lost: a worker of handleClient() that sleeps on free_conn
\* sleeps over an empty list, also when the signal handler adds the nodes.
THEOREM WakeupsReachWorkers == Spec => []NoLostWakeup
<1>1. IndInv => NoLostWakeup
  BY DEF IndInv
<1> QED
  BY PoolInvariant, <1>1, PTL

\* An accepted connection has one keeper - main(), one list node or one worker
\* - and is open as long as it has one, so no socket is served or closed twice.
THEOREM CustodyIsExclusive == Spec => []ExclusiveCustody
<1>1. IndInv => ExclusiveCustody
  BY DEF IndInv
<1> QED
  BY PoolInvariant, <1>1, PTL

\* As long as malloc() succeeds no open connection drops out of sight: main(),
\* the list or a worker holds it until it is closed or main() has returned.
THEOREM NoConnectionForgotten == Spec => []NoSocketForgotten
<1>1. Init => NoSocketForgotten
  BY DEF Init, NoSocketForgotten
<1>2. IndInv /\ NoSocketForgotten /\ [Next]_vars => NoSocketForgotten'
  BY ForgottenStep
<1> QED
  BY <1>1, <1>2, PoolInvariant, PTL DEF Spec

\* cleanUpGlobals() destroys mutex, condition variable and list only when no
\* worker and no signal handler can touch them any more.
THEOREM CleanupIsQuiescent == Spec => []QuiescentCleanup
<1>1. IndInv => QuiescentCleanup
  BY DEF IndInv
<1> QED
  BY PoolInvariant, <1>1, PTL

\* The TERMINATE nodes the handler leaves on the list end every worker: once
\* catchInterrupt() has returned wherever it ran, each worker that has taken no
\* TERMINATE node yet finds one on the list, in whatever order main(), the
\* workers and several interrupted threads went about it (malloc() succeeds).
THEOREM TokensAlwaysSuffice == Spec => []TokensSuffice
<1>1. Init => TokenInv
  BY ThreadAssumption DEF Init, TokenInv, Outset, Covered, Threads
<1>2. IndInv /\ TokenInv /\ [Next]_vars => TokenInv'
  BY OutsetStep, CoverStep DEF TokenInv
<1>3. TokenInv => TokensSuffice
  BY DEF TokenInv, Covered, Promised, TokensSuffice
<1> QED
  BY <1>1, <1>2, <1>3, PoolInvariant, PTL DEF Spec

\* The pool implements the job queue: every execution of main(), the workers
\* and the handlers is, seen through the list and the nodes the workers are
\* serving, an execution of JobQueue.
THEOREM PoolImplementsQueue == Spec => QueueSpec
<1>1. Init => Queue!Init
  BY ThreadAssumption DEF Init, Queue!Init, JobOf, Threads
<1>2. IndInv /\ [Next]_vars => [Queue!Next]_(Queue!vars)
  BY QueueStep
<1> QED
  BY <1>1, <1>2, PoolInvariant, PTL DEF Spec, QueueSpec, Queue!Spec
=============================================================================
