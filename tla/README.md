# Itty Bitty Webserver: TLA+ models, checks and proofs

The repository holds a multithreaded web server (`server.c`), a web proxy
(`proxy.c`) that can talk to the server over shared memory instead of sockets,
an XML-RPC image compression server (`rpc/rpcserver.c`) and a benchmark client
(`client.c`). This directory models these programs in TLA+, model-checks them
with TLC and proves part of what is checked with TLAPS.

## 1. Inventory

| Component | State | Operations | Interacts with |
|---|---|---|---|
| **Worker pool** (`server.c`, `proxy.c`: `main`, `handleClient`, `catchInterrupt`, `initializeGlobals`, `cleanUpGlobals`) | `LOOP`, the list and its mutex `mConList`, the condition `free_conn`/`freeConn`, `workers[]` | accept, queue, take, serve, SIGINT, join, destroy | connection list (calls), shared-memory exchange (SHARED nodes), kernel (signals) |
| **Connection list** (`headers/conList.c`) | `head`, `tail`, `numNodes`, heap nodes | `newConList`, `newConnection`, `isEmpty`, `addHead`, `addTail`, `removeHead`, `destroyCon`, `destroyAll` | called by the pool under `mConList` |
| **Shared-memory exchange** (`sharedProxy` in `proxy.c`; polling in `main`, SHARED branch of `handleClient`, `checkAndSend` in `server.c`; `functions/processShared.c`; `findState` in `headers/memList.c`) | per memnode: `proxyState`, `serverState`, `mem`, `spaceUsed`, mutex, condition | post a request, claim it, read it in chunks, answer in chunks, reset | two processes; the pool of each |
| **Shared-memory set-up** (`headers/memList.c`: `getMetanode`, `getMemList`, `memOps_Create`, `memOps_Destroy`) | segments, ONLINE flags, `numNodes` | create, map, initialise, unlink | start and end of both processes |
| **Request processing** (`checkAndSend`, `sendError`, `sendResponse`, `strDecode`, `contentType`, ...) | none between requests | parse, check the path, choose the response | file system, socket or memnode |
| **Socket path of the proxy** (`handleClient` past the pool, `headers/recvAll.c`, `stripAbsURL`, `getHeaderField`, `isJPG`, `xmlrpc.c`) | the global `serverSock`, the header under way | receive, rewrite, forward | origin servers, RPC server |
| **RPC server** (`rpc/rpcserver.c`) | the counter that names temporary files | `compress` | proxy |
| **Client** (`client.c`, `getStatusCode`) | totals per thread | access loop | server or proxy |

What is hard to test here:

* the test of the empty list and the wait, against `addTail` and broadcast by
  another thread or by the signal handler;
* a signal handler that takes a mutex on whichever thread it interrupts, and
  ends the pool by queueing one TERMINATE node per worker;
* two processes that agree on the progress of an exchange through two state
  words that are partly written outside the mutex, waits without a loop around
  them, and a search (`findState`) whose answer is used later;
* pointers of nodes that are freed by one thread and handed out again by
  `malloc()` to another;
* shared memory that outlives its processes: whoever starts next finds what a
  process that was killed left behind, and the one that stops last cleans up;
* a dozen exits of the proxy's `handleClient`, each with its own list of what to
  send, close and free, around a socket that is a global variable;
* answers that are cut off by any of four processes, and counted by a client
  that waits without a timeout;
* requests that arrive in parts, with encodings, for files that change between
  two system calls.

`PROJECT.json` lists these as *hazards*, each at its line and with the
properties that would notice it going wrong, or with a note why none does: mostly
because the code does go wrong there. What makes each part correct:

* *pool*: every connection is served once, by one worker, in order; no worker
  sleeps while there is work; shutdown ends every worker and destroys nothing
  in use;
* *list*: pointers and nodes agree, nothing is freed twice, used after free or
  leaked;
* *exchange*: both sides get whole messages, each request is handled once and
  answered, and only to the thread that asked;
* *set-up*: server and proxy share both segments or none, stay inside them, and
  the last one removes them, never from under the other;
* *request processing*: the file that is sent is the one that was asked for and
  lies below the root; one answer, of the announced length; nothing left open;
* *socket path, RPC server, client*: each client gets the answer to its own
  request, once; descriptors are closed once; the client ends and counts what
  was sent; `compress()` returns the image it was given.

## 2. Modules

| Module | Models |
|---|---|
| `JobQueue` | abstract: a FIFO queue of jobs for a set of workers |
| `WorkerPool` | the pool of `server.c` and `proxy.c`; implements `JobQueue` |
| `ConList` | `conList.c` at the level of pointers; implements `JobQueue` |
| `RequestReply` | abstract: a request is handled exactly once, and only then answered |
| `SharedMem` | the exchange over shared memory; implements `RequestReply` |
| `ShmSetup` | creation, take-over and removal of the shared memory segments by server, proxy and `server DELETE` |
| `Faults` | a budget of failing calls |
| `HttpStream` | the connections between client and proxy |
| `Client` | the benchmark client |
| `RpcServer` | `compress()` and its temporary files |
| `ProxyForward` | the socket path of the proxy; uses `HttpStream` and an instance of `RpcServer` |
| `EndToEnd` | `Client`, `ProxyForward` and `RpcServer` put together; their properties |
| `HttpText` | the functions on strings, as operators on sequences of tokens |
| `FileServe` | one request through the proxy's rewriting and `checkAndSend` to the file system; uses `HttpText` |
| `MCWorkerPool`, `MCConList`, `MCSharedMem`, `MCFileServe` | symmetry sets, start states and texts for TLC |
| `WorkerPool_proofs`, `ConList_proofs`, `SharedMem_proofs`, `Exchange_proofs`, `ShmSetup_proofs`, `FileServe_proofs`, `EndToEnd_proofs` | theorems about the module of that name; `Exchange_proofs` extends `SharedMem_proofs` with those about the protocol |
| `DataLemmas` | facts about numbers and sequences that the proofs share |

`WorkerPool` treats the connection list as a sequence and the service of one
connection as a step. `ConList` justifies the first: its pointers implement the
same `JobQueue`. `SharedMem` is the inside of the second for SHARED nodes; its
`tokens` are the SHARED nodes of `WorkerPool`'s list, and its `Poll` and `Claim`
are what `WorkerPool` has as `PollShared`. `ProxyForward` is the inside of a
connection of the proxy and `FileServe` that of one of the server; both leave
the pool out, and `ProxyForward` has the list as a sequence of descriptors.
`ShmSetup` is about the memory that `SharedMem` takes for granted.

### WorkerPool

Variables carry the names of the code (`LOOP`, `mConList`, `list`). `pc[t]` is
where a thread is, `hpc[t]` where the handler that interrupted it is; as long as
a handler runs on `t`, `t` itself does not move. A step reaches from one access
to shared state to the next: `lock`, then everything up to `unlock`, except
that `removeHead()` is split between reading `list->head` and unlinking it, so
that the mutex has something to protect.

* `NonBlocking` is the server with `-o`; the proxy and the plain server block
  in `accept()`. `EarlyHandler` is the proxy, which installs `catchInterrupt`
  before `initializeGlobals()`.
* A SIGINT may hit any thread of `SigTargets`, also one that holds the mutex or
  sleeps. A blocked `accept()` on the main thread then returns EINTR.
* `Failures` lets `malloc()` fail in `newConnection()` (the node is silently
  dropped) and `accept()` fail for good (`exit()`).
* `pthread_cond_wait()` may wake up spuriously (`SpuriousWake`).
* Left out: debugging output, `bind`/`listen` failures before the threads
  exist, `pthread_create()` failing.

### ConList

The heap is a set of allocated addresses and the functions `conn` and `next`;
freed addresses may be allocated again, with what was in them. The history
variable `order` says which nodes the callers believe to be on the list; no
action reads it to decide what the program does. `Spec` has what server and
proxy call, `SpecAll` adds `addHead()` and `destroyCon()`, which nobody calls.

### SharedMem

A message is a sequence of chunks of SEGMENTSIZE bytes. `mem[n]` is the chunk
in node `n`. Steps are split wherever a node is read or written outside its
mutex: `findState()` by the proxy, by `main()` and by the worker, the claim by
`main()`, `serverState = WAITING_CONT_PRXY` before the lock, the resets to IDLE
after the unlock. The BUSY that `sendShared()` stores while it copies a chunk is
not a state of its own: those who look without the mutex ask for IDLE and
WAITING_INIT_SRVR only. The scan of `findState()` is one step.

`CrossWake` says whether a signal of one process reaches sleepers of the other.
The condition variables are initialised with NULL attributes, i.e. for use in
one process, so POSIX leaves this open. With `CrossWake = TRUE` the runs check
the protocol itself; otherwise the first exchange hangs. The mutexes have the same attributes and are assumed to work between processes all
the same, which is the lenient reading. With `Spurious`, waits may
return without a signal. `malloc()` may fail in `sendShared()`, which then
returns as if it had sent the message (`SendNothing`), and in `receiveShared()`,
whose caller exits; without memory in `stripAbsURL()` the proxy's `sendShared()`
copies from NULL (both are `Fatal`).

### ShmSetup

A segment is a record in `segs`; `named` says which one bears which name, `map`
which ones a process has mapped. Unlinking takes the name away, not the memory.
The steps of a process are its system calls (`OpenExcl`, `Reopen`, `Truncate`,
`Map`, ...) and its reads and writes of the metanode, in the order of
`initializeGlobals()` and `cleanUpGlobals()`; note that the server makes the list
first and the proxy the metanode first. `SetNum`, `ReadNum`, `SetDefault` are the
places where the two agree on the number of nodes. A request is `Post`, `Answer`
and `Collect`, with `findState()` as the operator `First`; `ScanFault` is a scan
that leaves the memory. A fault is a kill, a failing system call, or a start
or end of one process while another starts or ends. The history variables
`overlap` and `rough` remember which of these happened. The types hold in any
case; each other property excludes what its comment names:

| Property | Starts and ends at the same time | Ends other than by `cleanUpGlobals()` | Besides |
|---|---|---|---|
| `SharedWhole` | excluded | only those between the two `shm_unlink()` calls are excluded | |
| `ProxySpares` | excluded | included | |
| `NothingLeft` | excluded | excluded | |
| `InBounds` | excluded | excluded | servers of at most NUMSEGMENTS threads whose first `getMemList()` succeeds |
| `Answered` | excluded | excluded | a server that stops listening |

Failing calls are ends other than by `cleanUpGlobals()`, since the program exits
on them, but for a first `getMemList()` of the server, which is tried again.
`InBounds` is thus about orderly sequences of starts and ends with different
numbers of nodes, and only about those; the refuted statements below say what
happens in the others.

### HttpStream, Client, ProxyForward, RpcServer, EndToEnd

A connection is named by the thread and the access of the client that made it.
A request travels in three parts, the line, the Host field and the empty line,
and a response as a header and pieces of a body; each piece carries the request
it answers, so that a property can tell whose it is. Descriptors of the proxy
are numbers in `fdt`, given out lowest first as POSIX says, so that a second
`close()` hits whoever got the number. `worker[w].at` is where a worker is in
`handleClient`: it takes a connection, receives the request (`RecvRequest`),
looks up the server (`Unresolved` if it fails), tries shared memory
(`Shared`), opens and connects the socket, rewrites and sends, receives the
header (`RecvAnswer`) and runs `recvAll_Forward` (`ForwardHeader` to
`TakeImage`). An exit is `Fail` or `Succeed`, which name what is closed and in
which order; the `close()` calls are steps of their own. Undefined behaviour
(`imgBuffer` and `compImgBuffer` are used uninitialised) is `WildBuffer` and
`WildFree`, where the process dies or goes on. A call that fails costs one of
`MaxFaults`; a call that fails because its peer is gone costs nothing.

`Client` has `numThreads` and `NUMACCESSES` as any two numbers with the product
`NumConns`. `exit()` in one thread is `EndProcess`: all sockets close at once,
and requests under way may be cut. `RpcServer` splits `imageNumber++` into a
read and a write, and has files as names of inodes, so that `fopen("w")`,
`open()`, `unlink()` and reading through a descriptor interact as they do on a
file system.

### HttpText, FileServe

A text is a sequence of tokens: mostly characters, but a name, a method or an
escape such as `%2e` is one token, and `strDecode` turns an escape into what it
stands for. Each C function is one operator over these (`strstr`, `Field` for a
field of `sscanf`, `Forbidden` for the path check, `strcasestr`, `getHeaderField`,
`getPortNumber`, `chopPortNum`, `stripAbsURL`, `appendStr`), with its off-by-ones:
`strcasestr` misses a match at the very end, `chopPortNum` walks back over
digits. `FileServe` sends one request through them. `Relay` is the proxy,
`Receive` the single `recv()` of the server, which may return any prefix, `Parse`
the tests in their order, and the remaining actions are the calls on the file
system, each of which may return anything it can. The names and ports that a URL may
have are the constants `Names` and `Ports`; a request to the proxy has an absolute
URL, with the same name and port in its Host field; `MCFileServe` has those for which
`chopPortNum` and `getPortNumber` do different things.

## 3. Runs

Bounds: two or three workers and two clients are enough for every pairwise race
of worker, main thread and handler, and for a worker that is left over; two
SIGINTs for a handler that meets a handler. Four addresses allow two nodes on
the list and two in the hands of workers, six additions allow every address to
be used again. One thread of the proxy with three requests in a row covers what
one exchange leaves behind for the next; two threads and two nodes cover what
exchanges do to each other. Two starts of each process and one fault let every
process find what each other one left behind; thread counts of 1 and 2 with
`NUMSEGMENTS = 2` give lists that are smaller than what the next one expects. Two
connections are one client thread with two accesses or two threads with one, the
least that can be confused; limits of two and three descriptors leave the proxy
without one for the origin, or for the next client. Targets of up to six tokens
hold "..", encoded or not, at the beginning, in the middle and at the end.
`MaxPosts`, `MaxSignals`, `MaxAdds`, `MaxTx`, `MaxGot`, `MaxStarts`, `MaxDeletes`,
`MaxFaults`, `MaxCalls`, `MaxChunks`, `MaxTarget`, `MaxLong`, `MaxRelayed` and
`MaxSize` bound what the programs do not bound. All runs switch off the deadlock
check because the programs end, and because some of them hang: when they must
not is said by the liveness properties.

| Run | Checks | Shows |
|---|---|---|
| `PoolSafety` | `TypeOK`, `NoLostWakeup`, `ExclusiveCustody`, `NoSocketForgotten`, `QuiescentCleanup`, `TokensSuffice`, `QueueSpec` | 3 workers, 2 clients, 2 SIGINTs on any threads |
| `PoolFailures` | `IndInv`, `HeadStable` | the polling server with failing `malloc()`/`accept()` and an early SIGINT |
| `PoolLive` | `ShutdownCompletes`, `Served` | the blocking server or proxy: every client is served until a SIGINT comes, and a SIGINT on the main thread ends the program unless it falls in one of two windows |
| `ListSafety` | `WellLinked`, `HeldApart`, `NoLeak`, `QueueSpec` | the pointers of the list |
| `SharedOne` | `TypeOK`, `RequestIntact`, `ResponseIntact`, `OneWorkerPerNode`, `RightSide`, `RpcSpec`, `TxCompletes` | one proxy thread, requests of one chunk, responses of up to three; every request is answered unless a process dies or a message is lost to a failing `malloc()` |
| `SharedMany` | `NodeMutex` | two proxy threads on one node, requests of up to two chunks, spurious wakeups, a failing `malloc()` |
| `ShmSetup` | `TypeOK`, `SharedWhole`, `NothingLeft`, `InBounds`, `ProxySpares`, `Answered` | server and proxy start and stop twice, with one kill, failing call or overlap. If no two processes start or end at the same time: both segments are shared or none (unless one is killed between its two `shm_unlink()` calls), and the proxy does not remove those of a running server. If besides every process ends by `cleanUpGlobals()`: no scan leaves them (with at most NUMSEGMENTS threads, and no second `getMemList()`), the last one removes them, and a request posted to a server that goes on listening is answered |
| `Forward` | `TypeOK`, `OwnAnswer`, `DescriptorsHeld`, `OneAnswer`, `TotalIsWhatWasSent`, `ClientEnds` | client, proxy with one worker, origin and RPC server, one failing call anywhere, too few descriptors |
| `Requests` | `TypeOK`, `SafePath`, `AsAsked`, `RightServer`, `CleanEnd` | every target up to the bound, direct or through the proxy, cut anywhere, on a changing file system |

Runs that expect a violation state what a comment or the repository's README says
and the code does not keep (`findings` in `PROJECT.json` quotes the lines):

| Run | Violated | Because |
|---|---|---|
| `PoolSelfDeadlock` | `HandlerNeverSelfDeadlocks` | the handler waits for a mutex that its own thread holds |
| `ForwardCross` | `OwnAnswer` | two workers of the proxy share the global `serverSock` |
| `RpcRace` | `OwnImage` | two `compress()` calls share a temporary file |

The modules contain further statements that the code does not keep. They have no
run of their own; TLC refutes each with these settings (and `MaxFaults = 0` where none is given):

| Statement | Settings | Because |
|---|---|---|
| `WorkerPool!LoopKilled` | `MCWorkerPool`, `FairSpec`, `Clients = {}`, `SigTargets = {main}` | SIGINT between the test of LOOP and `accept()` |
| `ConList!HeadAndTailOnList` | `MCConList`, `MCSpecAll` | `destroyCon()` of the first node leaves `head` |
| `SharedMem!NoFatal` | one proxy thread, two workers, one node, `ReqLens = {1}` | a node is claimed on an old answer of `findState()` |
| `SharedMem!RequestIntact` | one proxy thread, `ReqLens = {2}` | the opening signal is taken for the go-ahead for chunk two |
| `SharedMem!ResponseIntact` | two proxy threads, two nodes | `findState(IDLE)` does not reserve the node |
| `SharedMem!ResponseIntact` | `SharedOne` with `Spurious = TRUE` | the waits for the other side test its state once, with `if` |
| `ShmSetup!NoDoubt` | `Spec` | the proxy posts to a server that is about to go (comment at proxy.c:653-658) |
| `ShmSetup!ErasesAfterExit` | `Spec`, `MaxFaults = 1` (an overlap) | a server starts between the proxy's test of `serverFlag` and its unlinking (comment at proxy.c:627-632) |
| `ShmSetup!LeftoversErased` | `Spec`, `MaxFaults = 1` (a kill) | nobody sets `serverFlag` back to OFFLINE, so the proxy leaves what a killed server left (same comment) |
| `ShmSetup!ListAsAsked` | `Spec`, `MaxFaults = 1` (a kill, or a failing `ftruncate()`) | `getMemList()` takes over a list that is shorter than the one asked for (comment at memList.c:12-19) |

Other weak points the models contain and no property excludes:

* *Pool.* A client accepted while the handler queues its nodes ends up behind
  the TERMINATE nodes and is neither served nor closed. The proxy's handler
  crashes before `initializeGlobals()` (`HandlerCrash`). Two handlers on two
  threads can both pass the test of LOOP and queue two rounds of TERMINATE nodes.
* *Exchange.* With several proxy threads two workers of the server can take one
  memnode; `TxCompletes` fails with `CrossWake = FALSE` or `Spurious = TRUE`.
* *Set-up.* After a failed `ftruncate()` the retry at server.c:566-568 opens the
  leftover of the first attempt, which is too small (`InBounds` excludes
  `retried`). A process killed between its two `shm_unlink()` calls, or one that
  starts while another ends, can leave the two programs with one common segment
  and one each of their own (`SharedWhole` excludes it). A server of two threads that
  takes over the one node of a killed server of one thread writes 2 into the
  metanode, and `findState()` leaves the list (`InBounds` excludes it). A proxy
  that reads OFFLINE at proxy.c:633 takes the names from a server that starts just
  then (`ProxySpares` excludes it). A failing `bind()` exits
  without removing the segments. `server DELETE` on a fresh metanode leaves it in
  place.
* *Proxy.* After one failed RPC `fault_occurred` stays set and every later image
  of that worker is an error. A failure in `recvAll_Forward` sends a 500 after a
  header that has gone out already. A compressed image follows the Content-Length
  of the original. `accept()` without a free descriptor ends the proxy. A JPG that
  comes through shared memory is not sent at all, and if the RPC fails, `compImg`
  and `compImgLen`, which nothing has set, are sent and freed (`Shared`).
* *Client.* A body without Content-Length is counted as nothing. Every thread
  starts its generator from the same state and fetches the same files. Sockets
  stay open until the thread returns, all but the last until the process ends.
* *Requests.* An empty file is answered 403, since no bytes cannot be mapped. A
  file that shrinks under a reply through shared memory kills the server
  (SIGBUS). A name that ends in a digit loses it when there is no port, and a name
  that ends in 'p' loses its port (`RightServer` names both exceptions).

Fairness. Threads are scheduled by the kernel, so each gets weak fairness; a
mutex that is free again and again is obtained in the end, which is strong
fairness of the lock steps of the pool and of the threads of an exchange.
`recv()` on a client's socket is assumed to return, since the code has no
timeout of its own. In `ShmSetup` each process, and in `EndToEnd` each thread of
the four programs, gets weak fairness: nothing there waits for a mutex. A peer in
the middle of a message goes on or hangs up. Apart from these two, nothing is
assumed of the environment: clients need not connect, SIGINT need not come, proxy threads need not start another request,
and spurious wakeups may or may not happen.

Every property of a passing run has a mutant in `PROJECT.json`: a plausible
slip in the code (operators marked *Mutant* in the modules) that makes the run
fail. The mutants are not part of any specification.

## 4. Proofs

The theorems below are checked by tlapm for every value of the constants that
satisfies the assumptions of the module; a run shows the same property on a small
instance. Each rests on an inductive invariant that is defined in the module of
the component, and each step of the program has its lemma.

| Theorem | States | For |
|---|---|---|
| *`WorkerPool_proofs`* | | any workers, clients, SIGINTs on any threads, with or without `-o` and failures |
| `PoolInvariant`, `TypeCorrect` | `[]IndInv`, `[]TypeOK` | |
| `HeadIsStable` | `[]HeadStable` | |
| `WakeupsReachWorkers` | `[]NoLostWakeup` | |
| `CustodyIsExclusive` | `[]ExclusiveCustody` | |
| `NoConnectionForgotten` | `[]NoSocketForgotten` | |
| `CleanupIsQuiescent` | `[]QuiescentCleanup` | |
| `TokensAlwaysSuffice` | `[]TokensSuffice` | |
| `PoolImplementsQueue` | `Spec => QueueSpec` | |
| *`ConList_proofs`* | | any addresses, workers, connections; `Spec`, the operations the programs call |
| `ListInvariant` | `[]ListInv` | |
| `ListIsWellLinked`, `NodesAreHeldApart`, `NothingIsLeaked` | `[]WellLinked`, `[]HeldApart`, `[]NoLeak` | |
| `ListImplementsQueue` | `Spec => QueueSpec` | |
| *`SharedMem_proofs`* | | any proxy threads, workers, nodes and lengths, spurious wakeups |
| `MutexInvariant`, `TypeCorrect`, `NodesAreLocked` | `[]MutexInv`, `[]TypeOK`, `[]NodeMutex` | |
| *`Exchange_proofs`* | | any workers, nodes, exchanges, lengths of responses |
| `ExchangeInvariant` | `[]ExchangeInv` | `OneThread` |
| `RequestsAreIntact`, `ResponsesAreIntact` | `[]RequestIntact`, `[]ResponseIntact` | `OneThread` |
| `WorkersAreApart`, `SidesAreRight` | `[]OneWorkerPerNode`, `[]RightSide` | `OneThread` |
| `ExchangeImplementsRpc` | `Spec => RpcSpec` | `OneThread` |
| *`ShmSetup_proofs`* | | any starts, faults, thread counts and NUMSEGMENTS |
| `SetupTypeCorrect`, `SetupInvariant` | `[]TypeOK`, `[]SetupInv` | |
| `SharedIsWhole`, `NothingIsLeft` | `[]SharedWhole`, `[]NothingLeft` | |
| `ProxySparesServer` | `ProxySpares`, an action property | |
| `SizedInvariant`, `ScansStayInside` | `[]SizedInv`, `[]InBounds` | `FewThreads` |
| *`FileServe_proofs`* | | any texts, targets, names, ports, directories and sizes |
| `ServeInvariant`, `ServeTypeCorrect` | `[]ServeInv`, `[]TypeOK` | |
| `PathsAreSafe`, `EndsAreClean` | `[]SafePath`, `[]CleanEnd` | |
| `AskInvariant` | `[]AskInv` | |
| `FilesAreAsAsked`, `ServersAreRight` | `[]AsAsked`, `[]RightServer` | |
| *`EndToEnd_proofs`* | | any connections, files, pieces, descriptor limits and failing calls, any options |
| `SocketInvariant`, `TypeCorrect` | `[]SocketInv`, `[]TypeOK` | `OneWorker` |
| `AnswersAreOwn` | `[]OwnAnswer` | `OneWorker` |
| `NoDescriptorLost` | `[]DescriptorsHeld` | `OneWorker` |
| `AnsweredOnce` | `[]OneAnswer` | `OneWorker` |
| `CountInvariant` | `[]CountInv` | `OneWorker` |
| `TotalsAreRight` | `[]TotalIsWhatWasSent` | `OneWorker` |

### Assumptions

* `ThreadAssumption` (there is a worker, `main()` is none of them: the code exits
  when `numThreads <= 0`), `NodeAssumption`, `SharedMemAssumption` and the like say
  that names differ and that bounds are numbers. No theorem says how large the
  bounds are.
* `OneThread`: the proxy has one thread, its requests fit in one segment, and
  nobody wakes up without a signal. Each part is needed. Without one of them the
  code does lose or mix messages, as the table of refuted statements above shows.
  `NodesAreLocked` needs none of them: the mutex of a node works in any case, it
  is the protocol above it that fails.
* `FewThreads`: no server has more than NUMSEGMENTS threads. The proxy that comes
  first makes a list of NUMSEGMENTS nodes, and a server of more threads takes it
  over as it is.
* `OneWorker`: the proxy has one thread, as when its second argument is 1. With two
  `serverSock` belongs to whoever assigned it last, and `ForwardCross` refutes
  `OwnAnswer`; the descriptors get mixed up in the same way. With several
  workers the model follows that mix-up only as far as the refutation needs it: a
  worker left with a descriptor that has since been given to another client sees its
  `recv()` fail, where the program could take the request of that client.
* `ForwardAssumption` (a body comes in at least one piece, `recv()` never returns an
  empty one) and `FilesNotEmpty` (with no file on its list the client divides by zero
  before it makes a connection).
* `ShmSetupAssumption` has a largest thread count (`numThreads` is an `int`), and
  `EntriesFinite` says that a directory has finitely many entries.
* `TargetsPlain`, `NamesPlain`, `PortsPlain`: a target has no white space (it ends at
  the first one), a name is not empty and has neither white space nor a colon, a port
  is digits. That is what a request line and a Host field are made of; a target may
  hold anything else.

### Arguments

*Pool.* None of the safety properties is inductive alone. `IndInv` joins them
with `MutexInv` (the holder of `mConList` is the thread between lock and unlock,
in its own code or in a handler) and `Bookkeeping`. The point where intuition
fails is the handler: it runs on a thread that may itself be in the critical
section. It then never gets the mutex, so a handler that adds nodes runs on a
thread that is outside (`Bookkeeping`), so the mutex has one holder who is in one
critical section (`MutexInv`), so the head that a worker read stays the head
(`HeadStable`), so what a worker serves is what left the list
(`ExclusiveCustody`), and an addition happens with no worker between test and
wait (`NoLostWakeup`). `TokensSuffice` counts: `Covered` says that the workers
that stay are no more than the TERMINATE nodes on the list, or that some handler
has enough turns of its loop left to make up for it (`Promised`). Taking a node
keeps the balance because by `HeadStable` the worker has what leaves the list: a
TERMINATE node less is a worker less that stays. `Outset` is about the handler of
the proxy that comes before `initializeGlobals()`.

*List.* `AddTail` writes to the node that `malloc()` returned. That is none of
the list because those are allocated (`WellLinked`), and none a worker reads
because those are too (`HeldApart`). `RemoveHead` takes `head = tail` for the
last node, which is right because the nodes on the list are distinct.
`destroyAll()` leaves nothing because only the list was left (`NoLeak`), and
`DestroyInv` describes its loop half-way.

*Exchange.* `MutexInv` fixes at which labels a thread has the mutex of its node.
`ExchangeInv` builds on it: `ProxySide` and `WorkerSide` give, for each label of
one side, the states of the node, what is in its memory, and at which labels the
other side can be; `OneClaim` says that the node is claimed once. Each lemma
shows the stage a step leads to. The refinement of `RequestReply` then maps a step
to a call, the handling, the reply or a stutter.

*Set-up.* The properties tolerate different disorders, so `SetupInv` is in
layers. `BaseInv` always holds: which segments a process has mapped at each label.
As long as one process at a time starts or ends (`Alone`), what a process maps on
its way up bears the name (`UpToDate`), what is being made is seen by nobody
(`Fresh`), and nobody takes a running server's names (`Keeps`). If besides no
process was killed between its two `shm_unlink()` calls, the proxy has both
segments that bear the names or neither (`Paired`). If besides every process ended
in order, each name has an owner who will take it away (`Owned`): the proof shows
that whoever erases erases alone, with the other process gone, or gone from these
segments. `SizedInv` adds numbers. The number in the metanode is the number of
its server once that has written it, and until then (`Untold`) the proxy's own, for which
the list was made; a server at its second `getMemList()` may have a list of any
size and shares it with a later proxy (`Lends`), which `InBounds` excludes by
`retried`.

*Requests.* `SafePath` rests on lemmas about the string functions: `strchr` and
`strstr` find the first occurrence if there is one, `CString` ends at the first
NUL, and a text that `Forbidden` passes has no component ".." wherever it is cut
or extended as the code does. `ServeInv` has for each label what is open, mapped
and announced. `AsAsked` and `RightServer` compare the code's parsing with the
request that the client wrote, so `AskInv` follows the text on its way. What the
server has received agrees with the request line as far as both go: a `recv()`
that returns a prefix keeps that, and the proxy's rewriting establishes it. The
proxy finds the Host field where it was written and nowhere before, since a target
has no white space, puts it together with the rest of the URL, and `stripAbsURL`
takes off again what is in front of the path. A line that `Parse` accepts has three
fields, and the third is the protocol, so it is not cut in the target, and what is
looked up is what the client asked for. The port of a name is what follows
its last colon, which a name without one does not have, and `chopPortNum` goes back
over the digits at the end and the colon before them, no further.
All of these are about first and last occurrences in a text of any length.

*Socket path.* `OwnAnswer` says of what has been sent that it is the client's own,
but whether the next piece will be depends on which descriptor it goes to and where it
comes from. `SocketInv` has that in four parts. `TableInv`: the open descriptors refer
to different things, and each is in the list, or the worker's `client->conn`, or its
`serverSock`, according to where the worker is and what `toClose` says (`HoldingAt`).
`AnswerInv`: on which stage of `handleClient()` how much has come from the origin
(`Received`), and how much of it has gone to the client (`Forwarded`); an early exit
comes before the answer is whole (`Unfinished`), so that its error stands alone.
`CallInv`: the image `compress()` reads back is the one it wrote, since there is no
other call, so that what is sent after the header is the client's image. `Ahead`: the
connections that the proxy has are none that the client still has to make, so that a
client's step does not undo what is known of an answer. A client that dies, an
origin that gives up and a proxy that dies are steps like any other.

*Accounts.* `TotalIsWhatWasSent` is about the end, when the connections are closed
and the pieces are gone; `due` remembers what each was worth. `CountInv` keeps the
books on the way. On a connection that is over (`Settled`: the proxy has closed it,
or has sent as much as its Content-Length says) nothing that the proxy still does
changes what is due. On the one that is under way (`Underway`) what the client has
counted and what is on its way are together what is due, as long as the proxy
appends on both sides of `sendAll()` alike. So what a thread returns is the sum over
its accesses, and what `main()` has added up is the sum over the threads it has joined.
The proof names three things a step of the proxy can do to a connection (`Kept`,
`Grown`, `Closed`), shows that each keeps the books, and that each step of the proxy does
one of them to each connection. The sum is a recursive function over numbers, not over a
set of connections, so that lemmas about it need no induction over data.

A statement about all numbers is proved from a least counterexample
(`LeastOne` in `DataLemmas`, from the well-foundedness of `<`).

### Only model-checked

* Liveness: `ShutdownCompletes`, `Served`, `TxCompletes`, `Answered`,
  `ClientEnds`. The prover does not do fairness.
* The statements refuted above, of course.

## 5. Plan

Every part that changes state has a module, and each safety property of the passing
runs has a theorem. What is left: `NodeMutex` is all
that is proved of an exchange with several proxy threads, and of the proxy with
several workers nothing is; what still holds there (the types, the descriptors
of the connections that are queued) could be stated and proved. The actions of the
processes could be shown to leave each other's variables alone, once and for all.

### Not modelled

* `contentType()`, `printArgs()`, `isOptimized()`, `copyLength()`,
  `generateSpam.c`: no state, and no property depends on their result.
* `recvAll()`, `recvHeader_Mem()`, `recvBody_Mem()`: no caller.
* `rpc/rpcclient.c`: a stand-alone call of `compress()`.
* `rpc/includes`: vendored headers. Xmlrpc-c, `change_res_JPEG()`, the kernel and
  the file system appear as the results their callers can get.
* Requests to the proxy whose target is no absolute URL, or whose Host field differs
  from it: `stripAbsURL` cuts them at the wrong place (stripAbsURL.c:62-70).
* Requests longer than the buffers of `checkAndSend`, `pthread_create()` failing,
  and memory that is merely leaked.

## 6. Running

    tlc -workers 2 -config PoolSafety.cfg MCWorkerPool
    tlc -workers 2 -config Forward.cfg EndToEnd
    tlapm WorkerPool_proofs.tla
    tlapm ShmSetup_proofs.tla        # takes some minutes
    tlapm EndToEnd_proofs.tla        # likewise
    tlapm FileServe_proofs.tla       # likewise
