------------------------------ MODULE ConList ------------------------------
(***************************************************************************)
(* The connection list of headers/conList.c at the level of its pointers:  *)
(* a heap of connection nodes, the head and tail of the conlist, malloc()  *)
(* and free().  The callers hold mConList around every operation (module   *)
(* WorkerPool), so each operation without a loop is one step; the loops of *)
(* destroyCon() and destroyAll() are stepped through node by node.         *)
(*                                                                         *)
(* Spec has the operations the server and the proxy call: isEmpty(),       *)
(* addTail(), removeHead(), free() of the node by the worker that got it,  *)
(* and destroyAll() at the end.  SpecAll adds the rest of the interface,   *)
(* addHead() and destroyCon(), which no caller uses.                       *)
(*                                                                         *)
(* order is a history variable: the nodes a caller believes to be on the   *)
(* list, first to last.  No action of the program reads it.                *)
(***************************************************************************)
EXTENDS Naturals, Sequences, Functions

CONSTANTS
    Addrs,     \* addresses malloc() can return
    NULL,      \* the null pointer
    Workers,   \* threads that take nodes off the list
    Conns,     \* what a node carries: its conn and action fields
    NoConn,    \* what a worker without a node works on
    MaxAdds    \* bound on the nodes ever added, hence on numNodes

ASSUME ConListAssumption ==
    /\ NULL \notin Addrs
    /\ NoConn \notin Conns
    /\ MaxAdds \in Nat

VARIABLES
    head, tail, numNodes,  \* the conlist
    conn, next,            \* the fields of the node at each address
    heap,                  \* the addresses malloc() has handed out
    held,                  \* the node each worker took with removeHead()
    op,                    \* "run", or the loop that is under way
    cur, prev, target,     \* the locals node and prev, the argument conID
    order                  \* history: the nodes on the list

listVars == <<head, tail, numNodes, conn, next, heap, order>>
loopVars == <<op, cur, prev, target>>
vars == <<listVars, held, loopVars>>

Pointers == Addrs \cup {NULL}

\* newConList()
Init ==
    /\ head = NULL /\ tail = NULL /\ numNodes = 0
    /\ conn \in [Addrs -> Conns]
    /\ next \in [Addrs -> Pointers]
    /\ heap = {}
    /\ held = [w \in Workers |-> NULL]
    /\ op = "run" /\ cur = NULL /\ prev = NULL /\ target = NoConn
    /\ order = <<>>

isEmpty == head = NULL

\* newConnection(): a fresh node; malloc() may hand out a freed address again.
NewConnection(a, c) ==
    /\ a \notin heap
    /\ heap' = heap \cup {a}
    /\ conn' = [conn EXCEPT ![a] = c]

\* Mutant: the new node is linked to the old tail only when there is one
\* element, as if the test were on list->head == list->tail.
AddTailLost(c) ==
    /\ op = "run" /\ numNodes < MaxAdds
    /\ \E a \in Addrs :
          /\ NewConnection(a, c)
          /\ head' = IF isEmpty THEN a ELSE head
          /\ next' = IF head = tail /\ ~isEmpty
                       THEN [next EXCEPT ![tail] = a, ![a] = NULL]
                       ELSE [next EXCEPT ![a] = NULL]
          /\ tail' = a
          /\ order' = Append(order, a)
    /\ numNodes' = numNodes + 1
    /\ UNCHANGED <<held, loopVars>>

\* Mutant: the tail is set when the list was empty only.
AddTailStale(c) ==
    /\ op = "run" /\ numNodes < MaxAdds
    /\ \E a \in Addrs :
          /\ NewConnection(a, c)
          /\ head' = IF isEmpty THEN a ELSE head
          /\ next' = IF isEmpty
                       THEN [next EXCEPT ![a] = NULL]
                       ELSE [next EXCEPT ![tail] = a, ![a] = NULL]
          /\ tail' = IF isEmpty THEN a ELSE tail
          /\ order' = Append(order, a)
    /\ numNodes' = numNodes + 1
    /\ UNCHANGED <<held, loopVars>>

\* addTail(); when malloc() fails nothing changes, so that case is a stutter.
AddTail(c) ==
    /\ op = "run" /\ numNodes < MaxAdds
    /\ \E a \in Addrs :
          /\ NewConnection(a, c)
          /\ head' = IF isEmpty THEN a ELSE head
          /\ next' = IF isEmpty
                       THEN [next EXCEPT ![a] = NULL]
                       ELSE [next EXCEPT ![tail] = a, ![a] = NULL]
          /\ tail' = a
          /\ order' = Append(order, a)
    /\ numNodes' = numNodes + 1
    /\ UNCHANGED <<held, loopVars>>

\* addHead()
AddHead(c) ==
    /\ op = "run" /\ numNodes < MaxAdds
    /\ \E a \in Addrs :
          /\ NewConnection(a, c)
          /\ next' = [next EXCEPT ![a] = head]
          /\ head' = a
          /\ tail' = IF tail = NULL THEN a ELSE tail
          /\ order' = <<a>> \o order
    /\ numNodes' = numNodes + 1
    /\ UNCHANGED <<held, loopVars>>

\* Mutant: the one-element case is forgotten.
RemoveHeadNaive(w) ==
    /\ op = "run" /\ held[w] = NULL /\ ~isEmpty
    /\ held' = [held EXCEPT ![w] = head]
    /\ head' = IF next[head] = NULL THEN head ELSE next[head]
    /\ tail' = tail
    /\ order' = IF order = <<>> THEN <<>> ELSE Tail(order)
    /\ UNCHANGED <<numNodes, conn, next, heap, loopVars>>

\* removeHead(), called after isEmpty() returned 0; numNodes is left alone.
RemoveHead(w) ==
    /\ op = "run" /\ held[w] = NULL /\ ~isEmpty
    /\ held' = [held EXCEPT ![w] = head]
    /\ head' = IF head = tail THEN NULL ELSE next[head]
    /\ tail' = IF head = tail THEN NULL ELSE tail
    /\ order' = Tail(order)
    /\ UNCHANGED <<numNodes, conn, next, heap, loopVars>>

\* free(c), when the worker is done with the node it took
FreeNode(w) ==
    /\ held[w] # NULL
    /\ heap' = heap \ {held[w]}
    /\ held' = [held EXCEPT ![w] = NULL]
    /\ UNCHANGED <<head, tail, numNodes, conn, next, order, loopVars>>

----------------------------------------------------------------------------
(* destroyAll(), called when every worker has exited and so has freed its  *)
(* node (QuiescentCleanup of WorkerPool); its caller frees the conlist.    *)

DestroyAll ==
    /\ op = "run" /\ \A w \in Workers : held[w] = NULL
    /\ op' = "destroyAll"
    /\ cur' = head /\ prev' = NULL
    /\ UNCHANGED <<listVars, held, target>>

\* Mutant: free() before the next pointer is read, and the loop then stops.
DestroyStepEarlyFree ==
    /\ op = "destroyAll" /\ cur # NULL
    /\ prev' = cur
    /\ cur' = NULL
    /\ heap' = heap \ {cur}
    /\ UNCHANGED <<head, tail, numNodes, conn, next, order, held, op, target>>

\* prev = node; node = node->next; free(prev);
DestroyStep ==
    /\ op = "destroyAll" /\ cur # NULL
    /\ prev' = cur
    /\ cur' = next[cur]
    /\ heap' = heap \ {cur}
    /\ UNCHANGED <<head, tail, numNodes, conn, next, order, held, op, target>>

DestroyDone ==
    /\ op = "destroyAll" /\ cur = NULL
    /\ op' = "gone"
    /\ UNCHANGED <<listVars, held, cur, prev, target>>

----------------------------------------------------------------------------
(* destroyCon(): look for the first node with the given conn and free it.  *)

DestroyCon(c) ==
    /\ op = "run"
    /\ op' = "destroyCon"
    /\ cur' = head /\ prev' = NULL /\ target' = c
    /\ UNCHANGED <<listVars, held>>

SearchStep ==
    /\ op = "destroyCon" /\ cur # NULL /\ conn[cur] # target
    /\ prev' = cur
    /\ cur' = next[cur]
    /\ UNCHANGED <<listVars, held, op, target>>

SearchFound ==
    /\ op = "destroyCon" /\ cur # NULL /\ conn[cur] = target
    /\ next' = IF prev # NULL THEN [next EXCEPT ![prev] = next[cur]] ELSE next
    /\ tail' = IF cur = tail THEN prev ELSE tail
    /\ heap' = heap \ {cur}
    /\ numNodes' = numNodes - 1
    /\ order' = SelectSeq(order, LAMBDA a : a # cur)
    /\ op' = "run"
    /\ UNCHANGED <<head, conn, held, cur, prev, target>>

SearchFailed ==
    /\ op = "destroyCon" /\ cur = NULL
    /\ op' = "run"
    /\ UNCHANGED <<listVars, held, cur, prev, target>>

----------------------------------------------------------------------------
Next ==
    \/ \E c \in Conns : AddTail(c)
    \/ \E w \in Workers : RemoveHead(w) \/ FreeNode(w)
    \/ DestroyAll \/ DestroyStep \/ DestroyDone

Spec == Init /\ [][Next]_vars

NextAll ==
    \/ Next
    \/ \E c \in Conns : AddHead(c) \/ DestroyCon(c)
    \/ SearchStep \/ SearchFound \/ SearchFailed

SpecAll == Init /\ [][NextAll]_vars

----------------------------------------------------------------------------
(* Properties.                                                             *)

\* Every variable has its type.
TypeOK ==
    /\ head \in Pointers /\ tail \in Pointers
    /\ numNodes \in 0 .. MaxAdds
    /\ conn \in [Addrs -> Conns]
    /\ next \in [Addrs -> Pointers]
    /\ heap \subseteq Addrs
    /\ held \in [Workers -> Pointers]
    /\ op \in {"run", "destroyAll", "destroyCon", "gone"}
    /\ cur \in Pointers /\ prev \in Pointers
    /\ target \in Conns \cup {NoConn}
    /\ order \in Seq(Addrs)

\* While the list is in use, head and tail point to its first and last node,
\* or are both NULL when it is empty; the next pointers chain its nodes in
\* order and end in NULL; and all these nodes are distinct and allocated.
WellLinked ==
    op = "run" =>
        /\ order = <<>> => head = NULL /\ tail = NULL
        /\ order # <<>> => head = order[1] /\ tail = order[Len(order)]
        /\ \A i \in 1 .. Len(order) :
              /\ order[i] \in heap
              /\ next[order[i]] = IF i = Len(order) THEN NULL ELSE order[i + 1]
        /\ \A i, j \in 1 .. Len(order) : order[i] = order[j] => i = j

\* A node a worker took is allocated, is off the list, and is that worker's
\* alone: no free() of a node that another thread or the list still uses.
HeldApart ==
    \A w \in Workers : held[w] # NULL =>
        /\ held[w] \in heap
        /\ \A i \in 1 .. Len(order) : order[i] # held[w]
        /\ \A v \in Workers : held[v] = held[w] => v = w

\* While the list is in use every allocated node is on it or with a worker,
\* and when destroyAll() is through none is left.
NoLeak ==
    /\ op = "run" => heap \subseteq Range(order) \cup Range(held)
    /\ op = "gone" => heap = {}

\* What the proofs need besides: destroyAll() starts when no worker has a node,
\* and node, its loop variable, walks down the unchanged chain, with the nodes
\* from it on allocated and no others.
DestroyInv ==
    /\ op \in {"run", "destroyAll", "gone"}
    /\ op # "run" => \A w \in Workers : held[w] = NULL
    /\ op = "destroyAll" =>
        /\ \A i \in 1 .. Len(order) :
              next[order[i]] = IF i = Len(order) THEN NULL ELSE order[i + 1]
        /\ \A i, j \in 1 .. Len(order) : order[i] = order[j] => i = j
        /\ \E k \in 1 .. Len(order) + 1 :
              /\ cur = IF k = Len(order) + 1 THEN NULL ELSE order[k]
              /\ heap = {order[i] : i \in k .. Len(order)}

\* The inductive invariant of the operations that server and proxy call.
ListInv == TypeOK /\ WellLinked /\ HeldApart /\ NoLeak /\ DestroyInv

\* The list implements the queue that WorkerPool works with.
Connections == IF op = "run" THEN [i \in DOMAIN order |-> conn[order[i]]] ELSE <<>>
Serving     == [w \in Workers |-> IF held[w] = NULL THEN NoConn ELSE conn[held[w]]]

Queue == INSTANCE JobQueue
         WITH Jobs <- Conns, NoJob <- NoConn, queue <- Connections, job <- Serving
QueueSpec == Queue!Spec

----------------------------------------------------------------------------
(* What the comments of the code say and the code does not keep.           *)

\* conList.h: a conlist is a list of nodes "containing a pointer to both the
\* first and last nodes in the list".  Checked for the whole interface.
HeadAndTailOnList ==
    op = "run" => /\ head \in Range(order) \cup {NULL}
                  /\ tail \in Range(order) \cup {NULL}
=============================================================================
