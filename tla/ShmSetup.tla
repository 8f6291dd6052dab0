------------------------------ MODULE ShmSetup ------------------------------
(***************************************************************************)
(* Life and death of the two shared memory segments, the metanode and the  *)
(* list of memnodes: memOps_Create() and memOps_Destroy() of memList.c     *)
(* with getMemList(), getMetanode() and their converses, as the server     *)
(* and the proxy (option -o) call them when they start and when they end,  *)
(* and as "server DELETE" calls them to clean up by hand.                  *)
(*                                                                         *)
(* A segment has a name until it is unlinked; a process that has mapped it *)
(* keeps the nameless segment.  The steps are the system calls and the     *)
(* reads and writes of the metanode: between any two of them another       *)
(* process may run, be killed or be started.  The exchange itself is the   *)
(* business of SharedMem: here the proxy posts a request in a node and the *)
(* server answers it.                                                      *)
(***************************************************************************)
EXTENDS Naturals, Sequences

CONSTANTS
    ThreadCounts,  \* numThreads of a server, one for each start
    NUMSEGMENTS,   \* constants.h: number of nodes if the proxy comes first
    MaxStarts,     \* bound on the starts of the server and of the proxy
    MaxDeletes,    \* bound on the runs of "server DELETE"
    MaxFaults      \* bound on kills, failing system calls and overlaps

ASSUME ShmSetupAssumption ==
    /\ ThreadCounts \subseteq Nat \ {0} /\ NUMSEGMENTS \in Nat \ {0}
    /\ \E n \in ThreadCounts \cup {NUMSEGMENTS} :
          \A k \in ThreadCounts \cup {NUMSEGMENTS} : k <= n
    /\ MaxStarts \in Nat /\ MaxDeletes \in Nat
    /\ MaxFaults \in Nat

Procs == {"server", "proxy", "delete"}
Names == {"meta", "list"}
MaxNodes == CHOOSE n \in ThreadCounts \cup {NUMSEGMENTS} :
                \A k \in ThreadCounts \cup {NUMSEGMENTS} : k <= n
NodeIds == 1 .. MaxNodes

VARIABLES
    named,    \* the segment that bears each name, 0 if none does
    segs,     \* all segments ever created, named or not
    pc,       \* where each process is
    seg,      \* the segment its call of memOps_Create() is for
    map,      \* the segments each process has mapped, 0 if none
    fd,       \* the segment that memOps_Create() has open
    exists,   \* what memOps_Create() stores in *exists
    nodes,    \* the number of nodes each process asks getMemList() for
    retried,  \* the server is at its second getMemList()
    at,       \* the node in which the proxy has posted, 0 if none
    starts,   \* how often each process was started
    faults,   \* kills, failing system calls and overlaps so far
    overlap,  \* history: a process has started or ended while another did
    rough     \* history: how badly processes have ended so far

local == <<pc, seg, map, fd, exists, nodes, retried>>
history == <<starts, overlap, rough>>
vars == <<named, segs, local, at, history, faults>>

\* A segment before ftruncate() has no byte that could be read; the bytes that
\* ftruncate() adds are 0, that is OFFLINE and IDLE.  size counts memnodes in a
\* list and metanodes in a metanode.
NewSegment ==
    [size |-> 0, serverFlag |-> "OFFLINE", proxyFlag |-> "OFFLINE",
     numNodes |-> 0, node |-> [n \in NodeIds |-> "IDLE"]]

Init ==
    /\ named = [s \in Names |-> 0] /\ segs = <<>>
    /\ pc = [p \in Procs |-> "down"] /\ seg = [p \in Procs |-> "meta"]
    /\ map = [p \in Procs |-> [s \in Names |-> 0]]
    /\ fd = [p \in Procs |-> 0]
    /\ exists = [p \in Procs |-> FALSE]
    /\ nodes = [p \in Procs |-> 0]
    /\ retried = FALSE /\ at = 0
    /\ starts = [p \in Procs |-> 0]
    /\ faults = 0 /\ overlap = FALSE /\ rough = "clean"

Steady == {"down", "up", "wait"}
Goto(p, l) == pc' = [pc EXCEPT ![p] = l]

Meta(p) == segs[map[p]["meta"]]
List(p) == segs[map[p]["list"]]

NoMap == [s \in Names |-> 0]

\* The process is gone, and its mappings with it; names and segments stay.
Gone(p) ==
    /\ Goto(p, "down") /\ seg' = [seg EXCEPT ![p] = "meta"]
    /\ map' = [map EXCEPT ![p] = NoMap]
    /\ fd' = [fd EXCEPT ![p] = 0]
    /\ exists' = [exists EXCEPT ![p] = FALSE]
    /\ nodes' = [nodes EXCEPT ![p] = 0]
    /\ retried' = (retried /\ p # "server")
    /\ at' = IF p = "proxy" THEN 0 ELSE at

\* It ends by exit(), by a signal or by an access to memory that is not there,
\* leaving what it has set up ("rough") or half of what it was taking down
\* ("torn").
Abort(p) ==
    /\ Gone(p)
    /\ rough' = IF pc[p] = "destroyMeta" THEN "torn"
                ELSE IF rough = "clean" THEN "rough" ELSE rough
    /\ UNCHANGED <<named, segs, starts, overlap>>

----------------------------------------------------------------------------
(* memOps_Create(), for the segment named s.                               *)

\* sizeof(memnode) * numNodes, or sizeof(metanode)
BlockSize(p, s) == IF s = "meta" THEN 1 ELSE nodes[p]

Inside(p, l, s) == pc[p] = l /\ seg[p] = s

\* p calls memOps_Create() for segment s.
Call(p, s) == Goto(p, "open") /\ seg' = [seg EXCEPT ![p] = s]

\* Mutant: a metanode that is there already is made afresh.
OpenExclAfresh(p, s) ==
    /\ Inside(p, "open", s)
    /\ IF named[s] = 0 \/ s = "meta"
       THEN /\ segs' = Append(segs, NewSegment)
            /\ named' = [named EXCEPT ![s] = Len(segs) + 1]
            /\ fd' = [fd EXCEPT ![p] = Len(segs) + 1]
            /\ exists' = [exists EXCEPT ![p] = FALSE]
            /\ Goto(p, "truncate")
       ELSE /\ exists' = [exists EXCEPT ![p] = TRUE]
            /\ Goto(p, "reopen")
            /\ UNCHANGED <<named, segs, fd>>
    /\ UNCHANGED <<seg, map, nodes, retried, at, history>>

\* shm_open() with O_EXCL and O_CREAT: the segment is new, or EEXIST.
OpenExcl(p, s) ==
    /\ Inside(p, "open", s)
    /\ IF named[s] = 0
       THEN /\ segs' = Append(segs, NewSegment)
            /\ named' = [named EXCEPT ![s] = Len(segs) + 1]
            /\ fd' = [fd EXCEPT ![p] = Len(segs) + 1]
            /\ exists' = [exists EXCEPT ![p] = FALSE]
            /\ Goto(p, "truncate")
       ELSE /\ exists' = [exists EXCEPT ![p] = TRUE]
            /\ Goto(p, "reopen")
            /\ UNCHANGED <<named, segs, fd>>
    /\ UNCHANGED <<seg, map, nodes, retried, at, history>>

\* The call returns NULL.  The server tries its list again with the default
\* number of nodes and gives up the second time; without a metanode it destroys
\* the list first.  The proxy exits; "server DELETE" dereferences the NULL.
CreateFails(p, s) ==
    \/ /\ p = "server" /\ s = "list" /\ ~retried
       /\ nodes' = [nodes EXCEPT ![p] = NUMSEGMENTS] /\ retried' = TRUE
       /\ fd' = [fd EXCEPT ![p] = 0]
       /\ Call(p, "list")
       /\ UNCHANGED <<named, segs, map, exists, at, history>>
    \/ /\ p = "server" /\ s = "meta"
       /\ fd' = [fd EXCEPT ![p] = 0]
       /\ Goto(p, "giveUp")
       /\ UNCHANGED <<named, segs, seg, map, exists, nodes, retried, at, history>>
    \/ /\ ~(p = "server" /\ s = "meta") /\ ~(p = "server" /\ ~retried)
       /\ Abort(p)

\* The second shm_open(), which "shouldn't fail".
Reopen(p, s) ==
    /\ Inside(p, "reopen", s) /\ named[s] # 0
    /\ fd' = [fd EXCEPT ![p] = named[s]]
    /\ Goto(p, "map")
    /\ UNCHANGED <<named, segs, seg, map, exists, nodes, retried, at, history>>

ReopenFails(p, s) ==
    /\ Inside(p, "reopen", s) /\ named[s] = 0
    /\ CreateFails(p, s)

Truncate(p, s) ==
    /\ Inside(p, "truncate", s)
    /\ segs' = [segs EXCEPT ![fd[p]].size = BlockSize(p, s)]
    /\ Goto(p, "map")
    /\ UNCHANGED <<named, seg, map, fd, exists, nodes, retried, at, history>>

TruncateFails(p, s) ==
    /\ Inside(p, "truncate", s)
    /\ CreateFails(p, s)

\* The caller goes on with the segment in hand.
Return(p, s) ==
    CASE p = "server" /\ s = "list" -> Call(p, "meta")
      [] p = "server" /\ s = "meta" -> Goto(p, "setServerFlag") /\ UNCHANGED seg
      [] p = "proxy" /\ s = "meta"  -> Goto(p, "readFlag") /\ UNCHANGED seg
      [] p = "proxy" /\ s = "list"  -> Goto(p, "setProxyFlag") /\ UNCHANGED seg
      [] p = "delete" /\ s = "meta" -> Goto(p, "readNum") /\ UNCHANGED seg
      [] p = "delete" /\ s = "list" -> Goto(p, "destroyList") /\ UNCHANGED seg

\* mmap(), which does not look at the size of the segment, and close().
Map(p, s) ==
    /\ Inside(p, "map", s) /\ BlockSize(p, s) > 0
    /\ map' = [map EXCEPT ![p][s] = fd[p]]
    /\ fd' = [fd EXCEPT ![p] = 0]
    /\ IF exists[p] THEN Return(p, s) ELSE Goto(p, "init") /\ UNCHANGED seg
    /\ UNCHANGED <<named, segs, exists, nodes, retried, at, history>>

MapFails(p, s) ==
    /\ Inside(p, "map", s)
    /\ CreateFails(p, s)

\* EINVAL: the metanode says 0 nodes.
MapNothing(p, s) == BlockSize(p, s) = 0 /\ MapFails(p, s)

\* getMemList() and getMetanode() initialize a segment that is new.
InitSegment(p, s) ==
    /\ Inside(p, "init", s)
    /\ LET o == map[p][s]
       IN  segs' = [segs EXCEPT ![o] = [NewSegment EXCEPT !.size = segs[o].size]]
    /\ Return(p, s)
    /\ UNCHANGED <<named, map, fd, exists, nodes, retried, at, history>>

Create(p) == \E s \in Names :
    \/ OpenExcl(p, s) \/ Reopen(p, s) \/ ReopenFails(p, s)
    \/ Truncate(p, s) \/ Map(p, s) \/ MapNothing(p, s) \/ InitSegment(p, s)

----------------------------------------------------------------------------
(* initializeGlobals() of the server and of the proxy, from getMetanode()  *)
(* on.  The metanode may be a segment that its creator has not truncated   *)
(* yet: then the first access is the last.                                 *)

\* What p does to a segment it has mapped, having reached label l.
Access(p, l, s) == pc[p] = l /\ segs[map[p][s]].size > 0

MetaStep == UNCHANGED <<named, map, fd, exists, retried, at, history>>

SetServerFlag ==
    /\ Access("server", "setServerFlag", "meta")
    /\ segs' = [segs EXCEPT ![map["server"]["meta"]].serverFlag = "ONLINE"]
    /\ Goto("server", "setNum")
    /\ MetaStep /\ UNCHANGED <<seg, nodes>>

\* Mutant: the default number of nodes, whatever the list was made for.
SetNumDefault ==
    /\ Access("server", "setNum", "meta")
    /\ segs' = [segs EXCEPT ![map["server"]["meta"]].numNodes = NUMSEGMENTS]
    /\ Goto("server", "bind")
    /\ MetaStep /\ UNCHANGED <<seg, nodes>>

SetNum ==
    /\ Access("server", "setNum", "meta")
    /\ segs' = [segs EXCEPT ![map["server"]["meta"]].numNodes = nodes["server"]]
    /\ Goto("server", "bind")
    /\ MetaStep /\ UNCHANGED <<seg, nodes>>

\* bind() and listen() come after the segments are there and flagged.
Bind ==
    /\ pc["server"] = "bind"
    /\ Goto("server", "up")
    /\ MetaStep /\ UNCHANGED <<segs, seg, nodes>>

BindFails == pc["server"] = "bind" /\ Abort("server")

ReadFlag ==
    /\ Access("proxy", "readFlag", "meta")
    /\ Goto("proxy", IF Meta("proxy").serverFlag = "OFFLINE"
                     THEN "setDefault" ELSE "readNum")
    /\ MetaStep /\ UNCHANGED <<segs, seg, nodes>>

\* Mutant: one node too many.
SetDefaultOff ==
    /\ Access("proxy", "setDefault", "meta")
    /\ segs' = [segs EXCEPT ![map["proxy"]["meta"]].numNodes = NUMSEGMENTS + 1]
    /\ Goto("proxy", "readNum")
    /\ MetaStep /\ UNCHANGED <<seg, nodes>>

SetDefault ==
    /\ Access("proxy", "setDefault", "meta")
    /\ segs' = [segs EXCEPT ![map["proxy"]["meta"]].numNodes = NUMSEGMENTS]
    /\ Goto("proxy", "readNum")
    /\ MetaStep /\ UNCHANGED <<seg, nodes>>

\* getMemList(shMeta->numNodes), in the proxy and in "server DELETE", which
\* exits if the number is 0.
ReadNum(p) ==
    /\ Access(p, "readNum", "meta")
    /\ IF p = "delete" /\ Meta(p).numNodes = 0
       THEN Abort(p)
       ELSE /\ nodes' = [nodes EXCEPT ![p] = Meta(p).numNodes]
            /\ Call(p, "list")
            /\ MetaStep /\ UNCHANGED segs

\* Mutant: the proxy goes online without saying so.
SetProxyFlagLost ==
    /\ Access("proxy", "setProxyFlag", "meta")
    /\ Goto("proxy", "up")
    /\ MetaStep /\ UNCHANGED <<segs, seg, nodes>>

SetProxyFlag ==
    /\ Access("proxy", "setProxyFlag", "meta")
    /\ segs' = [segs EXCEPT ![map["proxy"]["meta"]].proxyFlag = "ONLINE"]
    /\ Goto("proxy", "up")
    /\ MetaStep /\ UNCHANGED <<seg, nodes>>

\* SIGBUS: the metanode has no bytes yet.
MetaFault(p) ==
    /\ pc[p] \in {"setServerFlag", "setNum", "readFlag", "setDefault",
                  "readNum", "setProxyFlag"}
    /\ segs[map[p]["meta"]].size = 0
    /\ Abort(p)

----------------------------------------------------------------------------
(* Both up: the proxy posts requests, the server looks for them.           *)

\* findState() reads nodes 1, 2, ... of numNodes until one is in state st.
Matching(p, st) == {n \in 1 .. Meta(p).numNodes : List(p).node[n] = st}
First(p, st) == CHOOSE n \in Matching(p, st) : \A k \in Matching(p, st) : n <= k
Reach(p, st) == IF Matching(p, st) = {} THEN Meta(p).numNodes ELSE First(p, st)

\* The first n nodes are in the mapping of p and in the segment behind it.
Mapped(p, n) == n <= nodes[p] /\ n <= List(p).size

SetNode(p, n, st) == segs' = [segs EXCEPT ![map[p]["list"]].node[n] = st]
Exchange == UNCHANGED <<named, seg, map, fd, exists, nodes, retried, history>>

\* sharedProxy(): the server is flagged, a node is idle.
Post ==
    /\ pc["proxy"] = "up" /\ Meta("proxy").serverFlag = "ONLINE"
    /\ Matching("proxy", "IDLE") # {} /\ Mapped("proxy", Reach("proxy", "IDLE"))
    /\ SetNode("proxy", First("proxy", "IDLE"), "POSTED")
    /\ at' = First("proxy", "IDLE")
    /\ Goto("proxy", "wait")
    /\ Exchange

\* The server's main loop finds the node and a worker completes the exchange.
Answer ==
    /\ pc["server"] = "up" /\ Meta("server").proxyFlag = "ONLINE"
    /\ Matching("server", "POSTED") # {}
    /\ Mapped("server", Reach("server", "POSTED"))
    /\ SetNode("server", First("server", "POSTED"), "ANSWERED")
    /\ UNCHANGED <<pc, at>> /\ Exchange

Collect ==
    /\ pc["proxy"] = "wait" /\ List("proxy").node[at] = "ANSWERED"
    /\ SetNode("proxy", at, "IDLE")
    /\ at' = 0
    /\ Goto("proxy", "up")
    /\ Exchange

\* findState() runs past the mapping or past the end of the segment.
ScanFault ==
    \/ /\ pc["proxy"] = "up" /\ Meta("proxy").serverFlag = "ONLINE"
       /\ ~Mapped("proxy", Reach("proxy", "IDLE"))
       /\ Abort("proxy")
    \/ /\ pc["server"] = "up" /\ Meta("server").proxyFlag = "ONLINE"
       /\ ~Mapped("server", Reach("server", "POSTED"))
       /\ Abort("server")

----------------------------------------------------------------------------
(* cleanUpGlobals() and the end of "server DELETE".                        *)

\* The others are not at it; DELETE is for when nobody is there.
Others(p) == \A q \in Procs \ {p} :
    pc[q] \in IF p = "delete" THEN {"down"} ELSE Steady

Begin(p) ==
    /\ Others(p) \/ faults < MaxFaults
    /\ overlap' = (overlap \/ ~Others(p))
    /\ faults' = IF Others(p) THEN faults ELSE faults + 1

Start(p) ==
    /\ pc[p] = "down"
    /\ starts[p] < IF p = "delete" THEN MaxDeletes ELSE MaxStarts
    /\ starts' = [starts EXCEPT ![p] = @ + 1]
    /\ Begin(p)
    /\ IF p = "server"
       THEN /\ \E n \in ThreadCounts : nodes' = [nodes EXCEPT ![p] = n]
            /\ Call(p, "list")
       ELSE Call(p, "meta") /\ UNCHANGED nodes
    /\ UNCHANGED <<named, segs, map, fd, exists, retried, at, rough>>

\* All threads are joined.
Shutdown(p) ==
    /\ p # "delete" /\ pc[p] = "up"
    /\ Goto(p, IF p = "server" THEN "destroyList" ELSE "checkFlag")
    /\ Begin(p)
    /\ UNCHANGED <<named, segs, seg, map, fd, exists, nodes, retried, at,
                   starts, rough>>

\* Mutant: the proxy never erases.
CheckFlagNever ==
    /\ pc["proxy"] = "checkFlag"
    /\ Gone("proxy")
    /\ UNCHANGED <<named, segs, history>>

\* Mutant: the proxy always erases.
CheckFlagAlways ==
    /\ pc["proxy"] = "checkFlag"
    /\ Goto("proxy", "destroyList")
    /\ UNCHANGED <<seg, map, fd, exists, nodes, retried, at>>
    /\ UNCHANGED <<named, segs, history>>

\* The proxy leaves the segments to a server that is, or was, online.
CheckFlag ==
    /\ pc["proxy"] = "checkFlag"
    /\ IF Meta("proxy").serverFlag = "OFFLINE"
       THEN /\ Goto("proxy", "destroyList")
            /\ UNCHANGED <<seg, map, fd, exists, nodes, retried, at>>
       ELSE Gone("proxy")
    /\ UNCHANGED <<named, segs, history>>

\* destroyMemList(list, n): the mutexes of n nodes, munmap() and shm_unlink(),
\* which takes the name away from whatever bears it.
DestroyMemList(p) ==
    /\ pc[p] = "destroyList"
    /\ IF Mapped(p, Meta(p).numNodes)
       THEN /\ named' = [named EXCEPT !["list"] = 0]
            /\ Goto(p, "destroyMeta")
            /\ UNCHANGED <<segs, seg, map, fd, exists, nodes, retried, at, history>>
       ELSE Abort(p)

DestroyMetanode(p) ==
    /\ pc[p] = "destroyMeta"
    /\ named' = [named EXCEPT !["meta"] = 0]
    /\ Gone(p)
    /\ UNCHANGED <<segs, history>>

\* The server has no metanode: it destroys the list and exits.
GiveUp ==
    /\ pc["server"] = "giveUp"
    /\ IF Mapped("server", nodes["server"])
       THEN named' = [named EXCEPT !["list"] = 0] ELSE UNCHANGED named
    /\ Gone("server") /\ rough' = "torn"
    /\ UNCHANGED <<segs, starts, overlap>>

Kill(p) == pc[p] # "down" /\ Abort(p)

Work(p) ==
    \/ Create(p) \/ ReadNum(p) \/ MetaFault(p)
    \/ DestroyMemList(p) \/ DestroyMetanode(p)

ServerStep ==
    /\ Work("server") \/ SetServerFlag \/ SetNum \/ Bind \/ Answer \/ GiveUp
    /\ UNCHANGED faults

ProxyStep ==
    /\ Work("proxy") \/ ReadFlag \/ SetDefault \/ SetProxyFlag
       \/ Collect \/ CheckFlag
    /\ UNCHANGED faults

DeleteStep == Work("delete") /\ UNCHANGED faults

\* What goes wrong from outside, MaxFaults times at most.
Fault ==
    /\ faults < MaxFaults /\ faults' = faults + 1
    /\ \/ \E p \in Procs, s \in Names : TruncateFails(p, s) \/ MapFails(p, s)
       \/ \E p \in Procs : Kill(p)
       \/ BindFails

Next ==
    \/ ServerStep \/ ProxyStep \/ DeleteStep \/ Fault
    \/ (Post \/ ScanFault) /\ UNCHANGED faults
    \/ \E p \in Procs : Start(p) \/ Shutdown(p)

\* The scheduler lets every process go on; starting, stopping, killing and
\* sending requests is up to its users.
Fairness == WF_vars(ServerStep) /\ WF_vars(ProxyStep) /\ WF_vars(DeleteStep)

Spec == Init /\ [][Next]_vars
FairSpec == Spec /\ Fairness

----------------------------------------------------------------------------
Labels == Steady \cup {"open", "reopen", "truncate", "map", "init",
    "setServerFlag", "setNum", "bind", "readFlag", "setDefault", "readNum",
    "setProxyFlag", "checkFlag", "destroyList", "destroyMeta", "giveUp"}

Flags == {"OFFLINE", "ONLINE"}
Segment ==
    [size : 0 .. MaxNodes, serverFlag : Flags, proxyFlag : Flags,
     numNodes : 0 .. MaxNodes, node : [NodeIds -> {"IDLE", "POSTED", "ANSWERED"}]]

\* Every variable stays in its type, and a running process has both segments.
TypeOK ==
    /\ named \in [Names -> 0 .. Len(segs)] /\ segs \in Seq(Segment)
    /\ pc \in [Procs -> Labels] /\ seg \in [Procs -> Names]
    /\ map \in [Procs -> [Names -> 0 .. Len(segs)]]
    /\ fd \in [Procs -> 0 .. Len(segs)] /\ exists \in [Procs -> BOOLEAN]
    /\ nodes \in [Procs -> 0 .. MaxNodes] /\ at \in 0 .. MaxNodes
    /\ retried \in BOOLEAN /\ overlap \in BOOLEAN /\ faults \in 0 .. MaxFaults
    /\ rough \in {"clean", "rough", "torn"}
    /\ starts \in [Procs -> Nat]
    /\ \A p \in Procs : pc[p] \in {"up", "wait"} => \A s \in Names : map[p][s] # 0

Running(p) == pc[p] \in {"up", "wait"}

\* The server and the proxy never share one segment without the other: a proxy
\* that sees the server's flags also posts where the server looks.  A process
\* killed at any point but between its two shm_unlink() calls, and any failing
\* system call, leaves this intact; two processes that start or end at the same
\* time need not.
SharedWhole ==
    ~overlap /\ rough # "torn" /\ Running("server") /\ Running("proxy") =>
        (map["server"]["meta"] = map["proxy"]["meta"]
            <=> map["server"]["list"] = map["proxy"]["list"])

\* Once all have ended by cleanUpGlobals(), in whatever order they came and
\* went, no shared memory is left behind: somebody has unlinked it.  Excluded
\* are processes that start or end at the same time, and those that were killed
\* or left by exit(): what these leave stays.
NothingLeft ==
    ~overlap /\ rough = "clean" /\ (\A p \in Procs : pc[p] = "down")
        => named = NoMap

\* findState() and destroyMemList(), which go by shMeta->numNodes, stay inside
\* the mapping and the segment, in whatever order servers and proxies with
\* different numbers of nodes come and go.  This is about orderly sequences only:
\* servers of at most NUMSEGMENTS threads; no two processes that start or end at
\* the same time; every process that ended did so by cleanUpGlobals(); and the
\* first getMemList() of the server has succeeded.  Without any one of these the
\* scan does leave the memory: a server of two threads that takes over the one
\* node of a server that was killed sets numNodes to 2 (see ListAsAsked).
InBounds ==
    ~overlap /\ rough = "clean" /\ ~retried =>
        \A p \in Procs : Running(p) => Mapped(p, Meta(p).numNodes)

\* As long as no two processes start or end at the same time, the proxy does not
\* take away the names of the segments a running server uses, whoever was killed
\* before and whatever call has failed: what the test of serverFlag in
\* cleanUpGlobals() is for.  The test is not atomic with the unlinking: a server
\* that starts between the two loses its segments (see ErasesAfterExit), and this
\* property does not look at it.
ProxySpares ==
    [][~overlap /\ Running("server")
         /\ (DestroyMemList("proxy") \/ DestroyMetanode("proxy"))
       => \A s \in Names : named'[s] # named[s] => named[s] # map["server"][s]]_vars

\* The server polls the segments that the proxy has mapped.
Listening == pc["server"] = "up" /\ map["server"] = map["proxy"]

\* A request that is posted while the server listens is answered: it was told
\* that the proxy is online.  Excluded are a server that stops listening, two
\* processes that start or end at the same time, and those that were killed or
\* left by exit(); the proxy may then wait for ever.
Answered ==
    (~overlap /\ rough = "clean" /\ pc["proxy"] = "wait" /\ Listening)
        ~> (overlap \/ rough # "clean" \/ pc["proxy"] # "wait" \/ ~Listening)

\* sharedProxy() writes to shared memory only when there is a server, starting
\* or up, that has mapped the same nodes and will answer.
NoDoubt ==
    [][Post => /\ pc["server"] \notin {"down", "destroyList", "destroyMeta"}
               /\ map["server"] = map["proxy"]]_vars

\* getMemList() returns an array of the length asked for.  It does not when it
\* takes over what a process that was killed, or that failed half-way, has left.
ListAsAsked == \A p \in Procs : Running(p) => Mapped(p, nodes[p])

\* The proxy erases the segments only when the server has exited.  One that
\* starts after the test of serverFlag finds them and has them erased under it.
ErasesAfterExit ==
    [][DestroyMemList("proxy") => pc["server"] = "down"]_vars

\* What a server has left that exited prematurely is erased by the proxy.  It is
\* not, because nobody ever sets the flag of a server back to OFFLINE.
LeftoversErased ==
    [][CheckFlag /\ pc["server"] = "down" /\ named = map["proxy"]
         => pc'["proxy"] = "destroyList"]_vars

----------------------------------------------------------------------------
(***************************************************************************)
(* The inductive invariant, in four layers: what always holds, what holds  *)
(* as long as processes start and end one at a time, what holds if besides *)
(* no pair of segments is torn apart, and what holds if besides every      *)
(* process has ended in order.                                             *)
(***************************************************************************)
Creating == {"open", "reopen", "truncate", "map", "init"}
\* With both segments mapped; and with the first one only.
Mapping == {"setServerFlag", "setNum", "bind", "up", "wait", "setProxyFlag",
            "checkFlag", "destroyList", "destroyMeta"}
Halfway == {"readFlag", "setDefault", "readNum", "giveUp"}

LabelsOf(p) ==
    CASE p = "server" -> Creating \cup {"down", "up", "setServerFlag", "setNum", "bind",
                                        "destroyList", "destroyMeta", "giveUp"}
      [] p = "proxy"  -> Creating \cup Steady \cup {"readFlag", "setDefault", "readNum",
                            "setProxyFlag", "checkFlag", "destroyList", "destroyMeta"}
      [] p = "delete" -> Creating \cup {"down", "readNum", "destroyList", "destroyMeta"}

\* The segment a process maps first.
FirstOf(p) == IF p = "server" THEN "list" ELSE "meta"

\* p has mapped the segment named s.
Has(p, s) ==
    \/ pc[p] \in Mapping
    \/ pc[p] \in Halfway /\ s = FirstOf(p)
    \/ pc[p] \in Creating /\ seg[p] # FirstOf(p) /\ s = FirstOf(p)
    \/ pc[p] = "init" /\ s = seg[p]

PlacedAt(p) ==
    /\ pc[p] \in LabelsOf(p)
    /\ fd[p] # 0 <=> pc[p] \in {"truncate", "map"}
    /\ pc[p] \in {"truncate", "init"} => ~exists[p]
    /\ pc[p] = "reopen" => exists[p]
    /\ \A s \in Names : Has(p, s) => map[p][s] # 0

BaseInv == TypeOK /\ \A p \in Procs : PlacedAt(p)

Offline(o) == segs[o].serverFlag = "OFFLINE"
\* The server has said that it is there.
Told == {"setNum", "bind", "up", "destroyList", "destroyMeta"}
Ending == {"checkFlag", "destroyList", "destroyMeta"}

\* One process at a time starts or ends.
Alone ==
    \A p \in Procs : \A q \in Procs \ {p} :
        pc[p] \notin Steady => pc[q] \in IF p = "delete" THEN {"down"} ELSE Steady

\* What a process has mapped on its way up is what bears the name.
UpToDateAt(p) ==
    /\ pc[p] \notin Steady \cup Ending =>
         \A s \in Names : Has(p, s) => map[p][s] = named[s]
    /\ pc[p] \in {"truncate", "map"} => fd[p] = named[seg[p]]
UpToDate == \A p \in Procs : UpToDateAt(p)

\* A segment that is being made is mapped by nobody else.
FreshAt(p) ==
    pc[p] \in {"truncate", "map", "init"} /\ ~exists[p] =>
        \A q \in Procs, s \in Names :
            q # p \/ s # seg[p] => map[q][s] # named[seg[p]]
Fresh == \A p \in Procs : FreshAt(p)

\* The names of a running server's segments are not taken away, and a proxy
\* that is to erase has the metanode that bears the name.
Keeps ==
    /\ pc["server"] \in {"up", "destroyList"} =>
         \A s \in Names : map["server"][s] = named[s]
    /\ pc["server"] = "destroyMeta" =>
         map["server"]["meta"] = named["meta"] /\ named["list"] = 0
    /\ pc["server"] \in Told => ~Offline(map["server"]["meta"])
    /\ pc["proxy"] \in {"up", "wait"} \cup Ending /\ Offline(map["proxy"]["meta"]) =>
         map["proxy"]["meta"] = named["meta"]
    /\ pc["proxy"] \in {"destroyList", "destroyMeta"} => Offline(map["proxy"]["meta"])
    /\ pc["proxy"] = "destroyMeta" => named["list"] = 0

\* The proxy has both segments that bear the names, or neither.
Paired ==
    pc["proxy"] \in {"up", "wait", "checkFlag"} /\ pc["server"] # "destroyMeta" =>
        (map["proxy"]["meta"] = named["meta"] <=> map["proxy"]["list"] = named["list"])

\* p has mapped the segment that bears the name s, or is about to.
Owner(p, s) ==
    \/ Has(p, s) /\ map[p][s] = named[s]
    \/ seg[p] = s /\ pc[p] \in {"truncate", "map"} /\ ~exists[p]
    \/ seg[p] = s /\ pc[p] \in Creating /\ p = "server" /\ retried

Owned ==
    /\ pc["server"] # "giveUp" =>
         \A s \in Names : named[s] # 0 => \E p \in Procs : Owner(p, s)
    /\ named["meta"] # 0 /\ pc["server"] \notin Told => Offline(named["meta"])
    /\ pc["delete"] # "down" =>
         /\ pc["delete"] \in {"open", "truncate", "map", "init", "readNum"}
         /\ seg["delete"] = "meta"
         /\ named["meta"] # 0 => segs[named["meta"]].numNodes = 0

\* The number of nodes in the metanode, and the size of the list.
Num(p)  == segs[map[p]["meta"]].numNodes
Size(p) == segs[map[p]["list"]].size

\* A server at its second getMemList() has a list of unknown size, which it
\* shares with a proxy that came later.
Lends == /\ retried /\ map["proxy"] = map["server"]
         /\ pc["server"] \in {"bind", "up", "destroyList", "destroyMeta"}

ServerSized ==
    /\ nodes["server"] <= NUMSEGMENTS
    /\ pc["server"] = "map" /\ seg["server"] = "list" /\ ~exists["server"] =>
         segs[fd["server"]].size = nodes["server"]
    /\ Has("server", "list") /\ ~retried => nodes["server"] <= Size("server")
    /\ pc["server"] = "destroyMeta" => nodes["server"] <= Size("server")
    /\ pc["server"] \in {"bind", "up", "destroyList", "destroyMeta"} =>
         Num("server") = nodes["server"]

\* The proxy is about to map the list; it has done so; and no server has yet
\* said in its metanode for how many nodes.
GetsList == \/ pc["proxy"] \in Creating /\ seg["proxy"] = "list"
            \/ pc["proxy"] = "setProxyFlag"
GotList  == \/ pc["proxy"] = "init" /\ seg["proxy"] = "list"
            \/ pc["proxy"] \in {"setProxyFlag", "up", "wait"}
Untold   == \/ Offline(map["proxy"]["meta"])
            \/ pc["server"] = "setNum" /\ map["proxy"]["meta"] = map["server"]["meta"]

ProxySized ==
    /\ pc["proxy"] = "setDefault" => Offline(map["proxy"]["meta"])
    /\ pc["proxy"] = "readNum" /\ Offline(map["proxy"]["meta"]) =>
         Num("proxy") = NUMSEGMENTS
    /\ GetsList => /\ nodes["proxy"] = Num("proxy")
                   /\ Offline(map["proxy"]["meta"]) => nodes["proxy"] = NUMSEGMENTS
    /\ pc["proxy"] = "map" /\ seg["proxy"] = "list" /\ ~exists["proxy"] =>
         segs[fd["proxy"]].size = nodes["proxy"]
    /\ GotList => /\ Num("proxy") <= nodes["proxy"]
                  /\ Num("proxy") <= Size("proxy") \/ Lends
                  /\ Untold => nodes["proxy"] = NUMSEGMENTS /\ Size("proxy") = NUMSEGMENTS

\* Servers have at most NUMSEGMENTS threads.
FewThreads == \A n \in ThreadCounts : n <= NUMSEGMENTS

SetupInv ==
    /\ BaseInv
    /\ ~overlap => Alone /\ UpToDate /\ Fresh /\ Keeps
    /\ ~overlap /\ rough # "torn" => Paired
    /\ ~overlap /\ rough = "clean" => Owned
SizedInv == ~overlap /\ rough = "clean" => ServerSized /\ ProxySized
====
