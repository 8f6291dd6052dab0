----------------------------- MODULE WorkerPool -----------------------------
(***************************************************************************)
(* The thread pool that server.c and proxy.c share: main() accepts client  *)
(* connections and puts them on a list, a fixed set of worker threads      *)
(* takes them off (handleClient), and the SIGINT handler catchInterrupt    *)
(* ends the pool by setting LOOP to 0 and adding one TERMINATE node per    *)
(* worker.  The list is guarded by the mutex mConList; workers sleep on    *)
(* the condition variable free_conn (freeConn in proxy.c).                 *)
(*                                                                         *)
(* The list is a sequence here; the module ConList shows that conList.c    *)
(* implements that sequence.  What checkAndSend does with one connection   *)
(* is one step; the shared-memory service of a SHARED node is the subject  *)
(* of the module SharedMem.                                                *)
(*                                                                         *)
(* A handler runs ON a thread: while hpc[t] # "none" the interrupted code  *)
(* of t does not move.                                                     *)
(***************************************************************************)
EXTENDS Naturals, Sequences, FiniteSets

CONSTANTS
    Workers,       \* worker threads; their number is numThreads
    Main,          \* the thread of main()
    NoThread,      \* owner of a free mutex
    Clients,       \* sockets of the clients that may connect
    NoSock,        \* the 0 that SHARED and TERMINATE nodes carry as socket
    NoNode,        \* the list node of a worker that has none
    NonBlocking,   \* accept() does not block: the server with -o
    MaxPosts,      \* bound on the shared-memory requests main() finds
    EarlyHandler,  \* SIGINT is caught before initializeGlobals(): proxy.c
    SigTargets,    \* threads the kernel may deliver SIGINT to
    MaxSignals,    \* bound on the SIGINTs delivered
    Failures       \* malloc() and accept() may fail

Threads == Workers \cup {Main}

ASSUME ThreadAssumption ==
    /\ Workers # {} /\ IsFiniteSet(Workers)
    /\ Main \notin Workers
    /\ NoThread \notin Threads

ASSUME SocketAssumption == NoSock \notin Clients

Process(c) == [conn |-> c, action |-> "PROCESS"]
SharedReq == [conn |-> NoSock, action |-> "SHARED"]
Terminate == [conn |-> NoSock, action |-> "TERMINATE"]

\* The nodes of the connection list: conList.h, types instruction and connection.
Nodes == {Process(c) : c \in Clients} \cup {SharedReq, Terminate}

ASSUME NodeAssumption == NoNode \notin Nodes

ASSUME BoundAssumption ==
    /\ NonBlocking \in BOOLEAN /\ EarlyHandler \in BOOLEAN /\ Failures \in BOOLEAN
    /\ SigTargets \subseteq Threads
    /\ MaxPosts \in Nat /\ MaxSignals \in Nat

NumThreads == Cardinality(Workers)

VARIABLES
    LOOP,       \* the flag of the same name: main() keeps looping
    ready,      \* initializeGlobals() has run: list and mutex exist
    list,       \* the connection list
    mConList,   \* owner of the mutex of the same name
    pc,         \* where each thread is
    node,       \* the list node each worker has
    entry,      \* the list node main() is about to add
    sock,       \* state of each client's connection
    posts,      \* shared-memory requests found so far
    hpc,        \* where the signal handler running on each thread is
    hcount,     \* TERMINATE nodes that handler has tried to add
    signals     \* SIGINTs delivered so far

poolVars == <<list, mConList, node, entry, sock, posts>>
sigVars == <<hpc, hcount, signals>>
vars == <<LOOP, ready, poolVars, pc, sigVars>>

MainLabels == {"init", "spawn", "test", "poll", "accept", "blocked", "eintr",
               "lock", "add", "join", "cleanup", "done", "exit", "crash"}
WorkerLabels == {"unborn", "lock", "check", "waiting", "unlink", "serve", "exited"}
HandlerLabels == {"none", "check", "set", "lock", "add"}

Init ==
    /\ LOOP = TRUE
    /\ ready = FALSE
    /\ list = <<>>
    /\ mConList = NoThread
    /\ pc = [t \in Threads |-> IF t = Main THEN "init" ELSE "unborn"]
    /\ node = [w \in Workers |-> NoNode]
    /\ entry = NoNode
    /\ sock = [c \in Clients |-> "away"]
    /\ posts = 0
    /\ hpc = [t \in Threads |-> "none"]
    /\ hcount = [t \in Threads |-> 0]
    /\ signals = 0

\* The process still exists: main() has not returned and nothing called exit().
Alive == pc[Main] \notin {"done", "exit", "crash"}

\* Thread t executes its own code, not a signal handler.
Running(t) == Alive /\ hpc[t] = "none"

----------------------------------------------------------------------------
(* The list, the mutex and the condition variable.                         *)

\* Mutant: new nodes go to the front, as addHead() would put them.
AddTailInFront(n) ==
    \/ list' = <<n>> \o list
    \/ Failures /\ UNCHANGED list

\* addTail(): newConnection() returns NULL when malloc() fails and the list
\* is then left as it was, without a word to the caller.
AddTail(n) ==
    \/ list' = Append(list, n)
    \/ Failures /\ UNCHANGED list

\* pthread_cond_broadcast(): every sleeping worker goes for the mutex again.
Broadcast == [t \in Threads |-> IF pc[t] = "waiting" THEN "lock" ELSE pc[t]]

Acquire(t) == mConList = NoThread /\ mConList' = t
Release(t) == mConList' = NoThread

----------------------------------------------------------------------------
(* main(): set-up, the accept loop, the end.                               *)

InitializeGlobals ==
    /\ pc[Main] = "init" /\ Running(Main)
    /\ ready' = TRUE
    /\ pc' = [pc EXCEPT ![Main] = "spawn"]
    /\ UNCHANGED <<LOOP, poolVars, sigVars>>

SpawnWorker(w) ==
    /\ pc[Main] = "spawn" /\ Running(Main)
    /\ pc[w] = "unborn"
    /\ pc' = [pc EXCEPT ![w] = "lock"]
    /\ UNCHANGED <<LOOP, ready, poolVars, sigVars>>

SpawnDone ==
    /\ pc[Main] = "spawn" /\ Running(Main)
    /\ \A w \in Workers : pc[w] # "unborn"
    /\ pc' = [pc EXCEPT ![Main] = "test"]
    /\ UNCHANGED <<LOOP, ready, poolVars, sigVars>>

\* while (LOOP)
TestLoop ==
    /\ pc[Main] = "test" /\ Running(Main)
    /\ pc' = [pc EXCEPT ![Main] =
                IF ~LOOP THEN "join" ELSE IF NonBlocking THEN "poll" ELSE "accept"]
    /\ UNCHANGED <<LOOP, ready, poolVars, sigVars>>

\* The server with -o looks for a request in shared memory before accept().
PollShared ==
    /\ pc[Main] = "poll" /\ Running(Main)
    /\ \/ /\ pc' = [pc EXCEPT ![Main] = "accept"]
          /\ UNCHANGED <<entry, posts>>
       \/ /\ posts < MaxPosts
          /\ posts' = posts + 1
          /\ entry' = SharedReq
          /\ pc' = [pc EXCEPT ![Main] = "lock"]
    /\ UNCHANGED <<LOOP, ready, list, mConList, node, sock, sigVars>>

\* accept() returns a connection, at once or after having blocked.
AcceptClient(c) ==
    /\ pc[Main] \in {"accept", "blocked"} /\ Running(Main)
    /\ sock[c] = "backlog"
    /\ sock' = [sock EXCEPT ![c] = "open"]
    /\ entry' = Process(c)
    /\ pc' = [pc EXCEPT ![Main] = "lock"]
    /\ UNCHANGED <<LOOP, ready, list, mConList, node, posts, sigVars>>

\* Nobody is connecting: EAGAIN on a non-blocking socket, else accept() blocks.
AcceptNobody ==
    /\ pc[Main] = "accept" /\ Running(Main)
    /\ \A c \in Clients : sock[c] # "backlog"
    /\ pc' = [pc EXCEPT ![Main] =
                IF ~NonBlocking THEN "blocked" ELSE IF LOOP THEN "test" ELSE "join"]
    /\ UNCHANGED <<LOOP, ready, poolVars, sigVars>>

\* accept() fails: interrupted by the handler (EINTR), or for good.
AcceptError ==
    /\ \/ pc[Main] = "eintr"
       \/ pc[Main] \in {"accept", "blocked"} /\ Failures
    /\ Running(Main)
    /\ pc' = [pc EXCEPT ![Main] = IF LOOP THEN "exit" ELSE "join"]
    /\ UNCHANGED <<LOOP, ready, poolVars, sigVars>>

MainLock ==
    /\ pc[Main] = "lock" /\ Running(Main)
    /\ Acquire(Main)
    /\ pc' = [pc EXCEPT ![Main] = "add"]
    /\ UNCHANGED <<LOOP, ready, list, node, entry, sock, posts, sigVars>>

\* Mutant: the broadcast is forgotten.
MainAddSilently ==
    /\ pc[Main] = "add" /\ Running(Main)
    /\ AddTail(entry)
    /\ Release(Main)
    /\ pc' = [pc EXCEPT ![Main] =
                IF entry = SharedReq THEN "accept" ELSE "test"]
    /\ entry' = NoNode
    /\ UNCHANGED <<LOOP, ready, node, sock, posts, sigVars>>

\* addTail(); pthread_cond_broadcast(); pthread_mutex_unlock()
MainAdd ==
    /\ pc[Main] = "add" /\ Running(Main)
    /\ AddTail(entry)
    /\ Release(Main)
    /\ pc' = [Broadcast EXCEPT ![Main] =
                IF entry = SharedReq THEN "accept" ELSE "test"]
    /\ entry' = NoNode
    /\ UNCHANGED <<LOOP, ready, node, sock, posts, sigVars>>

\* Mutant: the loop over the workers stops before the last one.
JoinAllButOne ==
    /\ pc[Main] = "join" /\ Running(Main)
    /\ \E last \in Workers : \A w \in Workers \ {last} : pc[w] = "exited"
    /\ pc' = [pc EXCEPT ![Main] = "cleanup"]
    /\ UNCHANGED <<LOOP, ready, poolVars, sigVars>>

\* cleanUpGlobals(): first pthread_join() on every worker ...
JoinWorkers ==
    /\ pc[Main] = "join" /\ Running(Main)
    /\ \A w \in Workers : pc[w] = "exited"
    /\ pc' = [pc EXCEPT ![Main] = "cleanup"]
    /\ UNCHANGED <<LOOP, ready, poolVars, sigVars>>

\* ... then the mutex, the condition variable and the list are destroyed.
\* destroyAll() frees what is left on the list and closes no socket.
CleanUpGlobals ==
    /\ pc[Main] = "cleanup" /\ Running(Main)
    /\ list' = <<>>
    /\ ready' = FALSE
    /\ pc' = [pc EXCEPT ![Main] = "done"]
    /\ UNCHANGED <<LOOP, mConList, node, entry, sock, posts, sigVars>>

MainStep ==
    \/ InitializeGlobals \/ SpawnDone \/ TestLoop \/ PollShared
    \/ AcceptNobody \/ AcceptError \/ MainLock \/ MainAdd
    \/ JoinWorkers \/ CleanUpGlobals
    \/ \E w \in Workers : SpawnWorker(w)
    \/ \E c \in Clients : AcceptClient(c)

----------------------------------------------------------------------------
(* handleClient(): the life of a worker.                                   *)

\* Mutant: the list is used without taking the mutex.
WorkerNoLock(w) ==
    /\ pc[w] = "lock" /\ Running(w)
    /\ mConList' = w
    /\ pc' = [pc EXCEPT ![w] = "check"]
    /\ UNCHANGED <<LOOP, ready, list, node, entry, sock, posts, sigVars>>

\* pthread_mutex_lock(&mConList), at the top of the loop or inside
\* pthread_cond_wait() once the worker has been woken
WorkerLock(w) ==
    /\ pc[w] = "lock" /\ Running(w)
    /\ Acquire(w)
    /\ pc' = [pc EXCEPT ![w] = "check"]
    /\ UNCHANGED <<LOOP, ready, list, node, entry, sock, posts, sigVars>>

\* Mutant: the worker sleeps with the mutex locked.
WorkerWaitLocked(w) ==
    /\ pc[w] = "check" /\ Running(w)
    /\ list = <<>>
    /\ pc' = [pc EXCEPT ![w] = "waiting"]
    /\ UNCHANGED <<LOOP, ready, poolVars, sigVars>>

\* while (isEmpty(list)) pthread_cond_wait(&free_conn, &mConList);
WorkerWait(w) ==
    /\ pc[w] = "check" /\ Running(w)
    /\ list = <<>>
    /\ Release(w)
    /\ pc' = [pc EXCEPT ![w] = "waiting"]
    /\ UNCHANGED <<LOOP, ready, list, node, entry, sock, posts, sigVars>>

\* pthread_cond_wait() may return without a broadcast; the while loop takes
\* the worker back to isEmpty().
SpuriousWake(w) ==
    /\ pc[w] = "waiting" /\ Running(w)
    /\ pc' = [pc EXCEPT ![w] = "lock"]
    /\ UNCHANGED <<LOOP, ready, poolVars, sigVars>>

\* removeHead(), first half: toReturn = list->head
ReadHead(w) ==
    /\ pc[w] = "check" /\ Running(w)
    /\ list # <<>>
    /\ node' = [node EXCEPT ![w] = Head(list)]
    /\ pc' = [pc EXCEPT ![w] = "unlink"]
    /\ UNCHANGED <<LOOP, ready, list, mConList, entry, sock, posts, sigVars>>

\* Mutant: the head is returned but stays on the list.
UnlinkNothing(w) ==
    /\ pc[w] = "unlink" /\ Running(w)
    /\ Release(w)
    /\ pc' = [pc EXCEPT ![w] = "serve"]
    /\ UNCHANGED <<LOOP, ready, list, node, entry, sock, posts, sigVars>>

\* removeHead(), second half: list->head = list->head->next; then the unlock
UnlinkHead(w) ==
    /\ pc[w] = "unlink" /\ Running(w)
    /\ list' = Tail(list)
    /\ Release(w)
    /\ pc' = [pc EXCEPT ![w] = "serve"]
    /\ UNCHANGED <<LOOP, ready, node, entry, sock, posts, sigVars>>

\* Mutant: a path of checkAndSend() that does not come back to close().
ServeNoClose(w) ==
    /\ pc[w] = "serve" /\ Running(w)
    /\ \E c \in Clients : node[w] = Process(c)
    /\ node' = [node EXCEPT ![w] = NoNode]
    /\ pc' = [pc EXCEPT ![w] = "lock"]
    /\ UNCHANGED <<LOOP, ready, list, mConList, entry, sock, posts, sigVars>>

\* checkAndSend() on the socket, close(), free(): back to the list
ServeClient(w) ==
    /\ pc[w] = "serve" /\ Running(w)
    /\ \E c \in Clients :
          /\ node[w] = Process(c)
          /\ sock' = [sock EXCEPT ![c] = "closed"]
    /\ node' = [node EXCEPT ![w] = NoNode]
    /\ pc' = [pc EXCEPT ![w] = "lock"]
    /\ UNCHANGED <<LOOP, ready, list, mConList, entry, posts, sigVars>>

\* checkAndSend() on a shared node (see SharedMem), free()
ServeShared(w) ==
    /\ pc[w] = "serve" /\ Running(w)
    /\ node[w] = SharedReq
    /\ node' = [node EXCEPT ![w] = NoNode]
    /\ pc' = [pc EXCEPT ![w] = "lock"]
    /\ UNCHANGED <<LOOP, ready, list, mConList, entry, sock, posts, sigVars>>

\* a TERMINATE node: free() it and pthread_exit()
ExitWorker(w) ==
    /\ pc[w] = "serve" /\ Running(w)
    /\ node[w] = Terminate
    /\ node' = [node EXCEPT ![w] = NoNode]
    /\ pc' = [pc EXCEPT ![w] = "exited"]
    /\ UNCHANGED <<LOOP, ready, list, mConList, entry, sock, posts, sigVars>>

WorkerStep(w) ==
    \/ WorkerLock(w) \/ WorkerWait(w) \/ ReadHead(w) \/ UnlinkHead(w)
    \/ ServeClient(w) \/ ServeShared(w) \/ ExitWorker(w)

----------------------------------------------------------------------------
(* catchInterrupt(), run by whichever thread SIGINT is delivered to.       *)

\* SIGINT interrupts thread t; it is blocked on t while its handler runs.
\* A blocked accept() will return EINTR when the handler returns.
Interrupt(t) ==
    /\ Running(t) /\ signals < MaxSignals
    /\ pc[t] \notin {"unborn", "exited"}
    /\ EarlyHandler \/ pc[Main] # "init"
    /\ signals' = signals + 1
    /\ hpc' = [hpc EXCEPT ![t] = "check"]
    /\ pc' = [pc EXCEPT ![t] = IF @ = "blocked" THEN "eintr" ELSE @]
    /\ UNCHANGED <<LOOP, ready, poolVars, hcount>>

\* if (!LOOP) return;
HandlerCheck(t) ==
    /\ Alive /\ hpc[t] = "check"
    /\ hpc' = [hpc EXCEPT ![t] = IF LOOP THEN "set" ELSE "none"]
    /\ UNCHANGED <<LOOP, ready, poolVars, pc, hcount, signals>>

\* LOOP = 0; i = 0
HandlerSet(t) ==
    /\ Alive /\ hpc[t] = "set"
    /\ LOOP' = FALSE
    /\ hcount' = [hcount EXCEPT ![t] = 0]
    /\ hpc' = [hpc EXCEPT ![t] = "lock"]
    /\ UNCHANGED <<ready, poolVars, pc, signals>>

HandlerLock(t) ==
    /\ Alive /\ hpc[t] = "lock"
    /\ Acquire(t)
    /\ hpc' = [hpc EXCEPT ![t] = "add"]
    /\ UNCHANGED <<LOOP, ready, list, node, entry, sock, posts, pc, hcount, signals>>

\* Mutants: one TERMINATE node too many; one too few; no broadcast.
HandlerAddExtra(t) ==
    /\ Alive /\ hpc[t] = "add" /\ ready
    /\ AddTail(Terminate)
    /\ Release(t)
    /\ pc' = Broadcast
    /\ hcount' = [hcount EXCEPT ![t] = @ + 1]
    /\ hpc' = [hpc EXCEPT ![t] = IF hcount[t] < NumThreads THEN "lock" ELSE "none"]
    /\ UNCHANGED <<LOOP, ready, node, entry, sock, posts, signals>>

HandlerAddShort(t) ==
    /\ Alive /\ hpc[t] = "add" /\ ready
    /\ AddTail(Terminate)
    /\ Release(t)
    /\ pc' = Broadcast
    /\ hcount' = [hcount EXCEPT ![t] = @ + 1]
    /\ hpc' = [hpc EXCEPT ![t] = IF hcount[t] + 2 < NumThreads THEN "lock" ELSE "none"]
    /\ UNCHANGED <<LOOP, ready, node, entry, sock, posts, signals>>

HandlerAddSilently(t) ==
    /\ Alive /\ hpc[t] = "add" /\ ready
    /\ AddTail(Terminate)
    /\ Release(t)
    /\ hcount' = [hcount EXCEPT ![t] = @ + 1]
    /\ hpc' = [hpc EXCEPT ![t] = IF hcount[t] + 1 < NumThreads THEN "lock" ELSE "none"]
    /\ UNCHANGED <<LOOP, ready, node, entry, sock, posts, pc, signals>>

\* addTail(0, TERMINATE, list); pthread_cond_broadcast(); pthread_mutex_unlock()
HandlerAdd(t) ==
    /\ Alive /\ hpc[t] = "add" /\ ready
    /\ AddTail(Terminate)
    /\ Release(t)
    /\ pc' = Broadcast
    /\ hcount' = [hcount EXCEPT ![t] = @ + 1]
    /\ hpc' = [hpc EXCEPT ![t] = IF hcount[t] + 1 < NumThreads THEN "lock" ELSE "none"]
    /\ UNCHANGED <<LOOP, ready, node, entry, sock, posts, signals>>

\* addTail() on a list that initializeGlobals() has not made yet
HandlerCrash(t) ==
    /\ Alive /\ hpc[t] = "add" /\ ~ready
    /\ pc' = [pc EXCEPT ![Main] = "crash"]
    /\ UNCHANGED <<LOOP, ready, poolVars, sigVars>>

HandlerStep(t) ==
    \/ HandlerCheck(t) \/ HandlerSet(t) \/ HandlerLock(t)
    \/ HandlerAdd(t) \/ HandlerCrash(t)

----------------------------------------------------------------------------
(* The environment: a client connects to the listening socket.             *)

Connect(c) ==
    /\ Alive /\ pc[Main] # "init"
    /\ sock[c] = "away"
    /\ sock' = [sock EXCEPT ![c] = "backlog"]
    /\ UNCHANGED <<LOOP, ready, list, mConList, node, entry, posts, pc, sigVars>>

Next ==
    \/ MainStep
    \/ \E w \in Workers : WorkerStep(w) \/ SpuriousWake(w)
    \/ \E t \in Threads : HandlerStep(t)
    \/ \E t \in SigTargets : Interrupt(t)
    \/ \E c \in Clients : Connect(c)

Spec == Init /\ [][Next]_vars

\* Every thread that can move moves in the end, and a client that got a
\* worker sends its request or hangs up: recv() in checkAndSend returns.
\* A mutex that is free again and again is obtained in the end, so workers
\* that spurious wakeups send round their loop keep nobody out for ever.
Fairness ==
    /\ WF_vars(MainStep)
    /\ \A w \in Workers : WF_vars(WorkerStep(w))
    /\ \A t \in Threads : WF_vars(HandlerStep(t))
    /\ SF_vars(MainLock)
    /\ \A w \in Workers : SF_vars(WorkerLock(w))
    /\ \A t \in Threads : SF_vars(HandlerLock(t))

FairSpec == Spec /\ Fairness

----------------------------------------------------------------------------
(* Properties.                                                             *)

\* Every variable has its type; the handler never tries to add more
\* TERMINATE nodes than there are workers (the loop of catchInterrupt()).
TypeOK ==
    /\ LOOP \in BOOLEAN /\ ready \in BOOLEAN
    /\ list \in Seq(Nodes)
    /\ mConList \in Threads \cup {NoThread}
    /\ pc \in [Threads -> MainLabels \cup WorkerLabels]
    /\ pc[Main] \in MainLabels
    /\ \A w \in Workers : pc[w] \in WorkerLabels
    /\ node \in [Workers -> Nodes \cup {NoNode}]
    /\ entry \in Nodes \cup {NoNode}
    /\ sock \in [Clients -> {"away", "backlog", "open", "closed"}]
    /\ posts \in Nat
    /\ hpc \in [Threads -> HandlerLabels]
    /\ hcount \in [Threads -> 0 .. NumThreads]
    /\ signals \in Nat

\* The mutex is held by exactly the thread that is between lock and unlock,
\* be it in its own code or in the signal handler that interrupted it.
MutexInv ==
    \A t \in Threads :
        (mConList = t) <=> (pc[t] \in {"check", "unlink", "add"} \/ hpc[t] = "add")

\* What a worker read as the head in removeHead() is still the head when it
\* unlinks it, whatever main(), the other workers and the handlers do.
HeadStable ==
    \A w \in Workers : pc[w] = "unlink" => list # <<>> /\ node[w] = Head(list)

\* A worker never sleeps on free_conn while the list has something for it:
\* the test of isEmpty() and the wait are one critical section, and every
\* addTail() is followed by a broadcast before the mutex is released.
NoLostWakeup ==
    (\E w \in Workers : pc[w] = "waiting") => list = <<>>

\* The places that hold the accepted connection of client c.
InMain(c) == entry = Process(c)
InList(c) == \E i \in DOMAIN list : list[i] = Process(c)
WithWorker(c, w) == pc[w] = "serve" /\ node[w] = Process(c)

CustodyOf(c) ==
    /\ InMain(c) => ~InList(c) /\ \A w \in Workers : ~WithWorker(c, w)
    /\ InList(c) => \A w \in Workers : ~WithWorker(c, w)
    /\ \A v, w \in Workers : WithWorker(c, v) /\ WithWorker(c, w) => v = w
    /\ \A i, j \in DOMAIN list :
          list[i] = Process(c) /\ list[j] = Process(c) => i = j
    /\ InMain(c) \/ InList(c) \/ (\E w \in Workers : WithWorker(c, w))
          => sock[c] = "open"

\* An accepted connection is in one place at a time: main() about to add it,
\* one position of the list, or one worker.  A connection some place holds is
\* open, so no worker reads from or closes a descriptor another has closed.
ExclusiveCustody == \A c \in Clients : CustodyOf(c)

\* As long as malloc() succeeds, an accepted connection that is not closed
\* yet is held somewhere, up to the moment main() destroys the list.
NoSocketForgotten ==
    ~Failures /\ pc[Main] # "done" =>
        \A c \in Clients : sock[c] = "open" =>
            InMain(c) \/ InList(c) \/ \E w \in Workers : WithWorker(c, w)

\* cleanUpGlobals() destroys the mutex, the condition variable and the list
\* only when nobody can use them any more: every worker has exited, nobody
\* holds the mutex, and no handler is past its test of LOOP.
QuiescentCleanup ==
    pc[Main] \in {"cleanup", "done"} =>
        /\ ~LOOP
        /\ mConList = NoThread
        /\ \A w \in Workers : pc[w] = "exited" /\ hpc[w] = "none"
        /\ hpc[Main] \in {"none", "check"}

\* The workers that have not taken a TERMINATE node yet, and the TERMINATE
\* nodes on the list.
Staying == {w \in Workers : pc[w] # "exited" /\ ~(pc[w] = "serve" /\ node[w] = Terminate)}
Tokens(l) == {i \in DOMAIN l : l[i] = Terminate}

\* Once the handler is through, the TERMINATE nodes on the list are enough to
\* end every worker that has not taken one yet (when malloc() succeeds).
TokensSuffice ==
    ~Failures /\ ready /\ ~LOOP /\ (\A t \in Threads : hpc[t] \in {"none", "check"}) =>
        Cardinality(Staying) <= Cardinality(Tokens(list))

\* What relates the labels to the other variables: the handler's counter is
\* within its loop; a handler adds nodes on no thread that is in a critical
\* section of its own; main() has a node to add when it goes to add one, and
\* only then; a worker has a node exactly from reading the head to being done with it; a
\* worker that has exited runs no handler; and once main() is out of its loop
\* LOOP is 0 and a handler that interrupts main() does nothing.
Bookkeeping ==
    /\ \A t \in Threads : hpc[t] \in {"lock", "add"} => hcount[t] < NumThreads
    /\ \A t \in Threads : hpc[t] = "add" => pc[t] \notin {"check", "unlink", "add"}
    /\ pc[Main] \in {"lock", "add"} => entry \in Nodes
    /\ pc[Main] \notin {"lock", "add", "crash"} => entry = NoNode
    /\ \A w \in Workers : (pc[w] \in {"unlink", "serve"}) <=> (node[w] # NoNode)
    /\ \A w \in Workers : pc[w] = "exited" => hpc[w] = "none"
    /\ pc[Main] \in {"join", "cleanup", "done"} => ~LOOP /\ hpc[Main] \in {"none", "check"}

\* The inductive invariant behind the safety properties: no part of it is
\* preserved by every step of catchInterrupt(), main() and handleClient()
\* unless the others hold.
IndInv ==
    /\ TypeOK /\ Bookkeeping /\ MutexInv /\ HeadStable
    /\ NoLostWakeup /\ QuiescentCleanup /\ ExclusiveCustody

\* The induction for TokensSuffice: the handler that set LOOP to 0 is through
\* or still at it, and then its counter makes up for the difference.  Before
\* initializeGlobals() there is main() only, and a handler that set LOOP to 0
\* on it does not return.
Outset ==
    pc[Main] = "init" =>
        /\ ~ready /\ \A w \in Workers : pc[w] = "unborn" /\ hpc[w] = "none"
        /\ LOOP \/ hpc[Main] \in {"lock", "add"}
Promised(t) ==
    /\ hpc[t] \in {"lock", "add"}
    /\ Cardinality(Staying) + hcount[t] <= NumThreads + Cardinality(Tokens(list))
Covered ==
    ~Failures /\ ready /\ ~LOOP =>
        \/ Cardinality(Staying) <= Cardinality(Tokens(list))
        \/ \E t \in Threads : Promised(t)
TokenInv == Outset /\ Covered

\* The pool implements the job queue: jobs leave in the order they came,
\* each to one worker, and none is thrown away while a worker is busy.
JobOf == [w \in Workers |-> IF pc[w] = "serve" THEN node[w] ELSE NoNode]
Queue == INSTANCE JobQueue
         WITH Jobs <- Nodes, NoJob <- NoNode, queue <- list, job <- JobOf
QueueSpec == Queue!Spec

\* A SIGINT that reaches main() ends the program - every worker joined, the
\* globals destroyed - provided it does not hit main() inside the critical
\* section or between the test of LOOP and a blocking accept().  (One SIGINT,
\* malloc() succeeds.)
ShutdownCompletes ==
    (/\ hpc[Main] = "check" /\ LOOP /\ mConList # Main
     /\ NonBlocking \/ pc[Main] # "accept")
    ~> (pc[Main] = "done")

\* Until a SIGINT comes every client that connects is served and its
\* connection closed: broadcast, mutex and list lose nobody.
Served ==
    \A c \in Clients : (sock[c] = "backlog") ~> (sock[c] = "closed" \/ signals > 0)

----------------------------------------------------------------------------
(* What the comments of the code say and the code does not keep.           *)

\* server.c, catchInterrupt(): the mutex is taken around each addTail() only,
\* "otherwise we risk deadlock".  So the handler should never wait for a
\* mutex that the very thread it runs on holds.
HandlerNeverSelfDeadlocks ==
    \A t \in Threads : ~(hpc[t] = "lock" /\ mConList = t)

\* server.c, catchInterrupt(): "LOOP = 0; /* this will kill the loop in main() */"
LoopKilled == ~LOOP ~> (pc[Main] \in {"join", "cleanup", "done"})
=============================================================================
