--------------------------- MODULE ConList_proofs ---------------------------
(***************************************************************************)
(* Proofs about ConList, for any number of addresses, workers and          *)
(* connections: the pointers of the list are well linked, nodes are held   *)
(* apart and none is leaked, under the operations that server and proxy    *)
(* call, and the list implements JobQueue.                                 *)
(*                                                                         *)
(* ListInv is inductive.  Its parts lean on each other: AddTail overwrites *)
(* the node that malloc() returned, which is no node of the list because   *)
(* those are allocated (WellLinked) and none that a worker reads because   *)
(* those are too (HeldApart); RemoveHead finds head = tail just when there *)
(* is one node because the nodes are distinct; and destroyAll() frees      *)
(* everything because nothing was allocated but the list (NoLeak).         *)
(***************************************************************************)
EXTENDS ConList, DataLemmas

----------------------------------------------------------------------------
\* newConList() makes a state that satisfies the invariant.
LEMMA ListInvInit == Init => ListInv
<1> SUFFICES ASSUME Init PROVE ListInv
  OBVIOUS
<1> USE ConListAssumption DEF Init, Pointers
<1>1. TypeOK
  BY DEF TypeOK
<1>2. WellLinked /\ HeldApart /\ NoLeak /\ DestroyInv
  BY DEF WellLinked, HeldApart, NoLeak, DestroyInv
<1> QED
  BY <1>1, <1>2 DEF ListInv

\* The pointers of addTail(): the new node is the last one, and the others
\* are linked as before.
LEMMA AddTailStep == ListInv /\ (\E c \in Conns : AddTail(c)) => ListInv'
<1> SUFFICES ASSUME ListInv, NEW c \in Conns, AddTail(c) PROVE ListInv'
  OBVIOUS
<1> USE ConListAssumption
<1>1. PICK a \in Addrs :
         /\ NewConnection(a, c)
         /\ head' = IF isEmpty THEN a ELSE head
         /\ next' = IF isEmpty
                      THEN [next EXCEPT ![a] = NULL]
                      ELSE [next EXCEPT ![tail] = a, ![a] = NULL]
         /\ tail' = a
         /\ order' = Append(order, a)
  BY DEF AddTail
<1>2. /\ op = "run" /\ numNodes < MaxAdds /\ numNodes' = numNodes + 1
      /\ UNCHANGED <<held, op, cur, prev, target>>
  BY DEF AddTail, loopVars
<1>3. /\ a \notin heap /\ heap' = heap \cup {a} /\ conn' = [conn EXCEPT ![a] = c]
  BY <1>1 DEF NewConnection
<1>4. TypeOK
  BY DEF ListInv
<1>5. order \in Seq(Addrs)
  BY <1>4 DEF TypeOK
<1>6. /\ order' \in Seq(Addrs) /\ Len(order) \in Nat /\ Len(order') = Len(order) + 1
      /\ order' # <<>> /\ order'[Len(order) + 1] = a
      /\ \A i \in 1 .. Len(order) : order'[i] = order[i]
  BY <1>1, <1>5, AppendFacts
<1>7. WellLinked /\ HeldApart /\ NoLeak /\ DestroyInv
  BY DEF ListInv
<1>8. \A i \in 1 .. Len(order) : order[i] \in heap /\ order[i] \in Addrs /\ order[i] # a
  BY <1>2, <1>3, <1>5, <1>7, SeqFacts DEF WellLinked
<1>9. TypeOK'
  <2>1. next' \in [Addrs -> Pointers] /\ head' \in Pointers /\ tail' \in Pointers
    BY <1>1, <1>4 DEF TypeOK, Pointers
  <2>2. conn' \in [Addrs -> Conns] /\ heap' \subseteq Addrs /\ numNodes' \in 0 .. MaxAdds
    BY <1>2, <1>3, <1>4 DEF TypeOK
  <2> QED
    BY <2>1, <2>2, <1>2, <1>4, <1>6 DEF TypeOK
<1>10. isEmpty <=> Len(order) = 0
  <2>1. order = <<>> <=> Len(order) = 0
    BY <1>5, SeqFacts
  <2>2. order # <<>> => head = order[1] /\ head # NULL
    BY <1>2, <1>5, <1>7, <2>1, SeqFacts DEF WellLinked
  <2>3. order = <<>> => head = NULL
    BY <1>2, <1>7 DEF WellLinked
  <2> QED
    BY <2>1, <2>2, <2>3 DEF isEmpty
<1>11. WellLinked'
  <2>1. head' = order'[1] /\ tail' = order'[Len(order')]
    <3>1. CASE Len(order) = 0
      BY <1>1, <1>6, <1>10, <3>1
    <3>2. CASE Len(order) # 0
      <4>1. head = order[1] /\ 1 \in 1 .. Len(order)
        BY <1>2, <1>5, <1>6, <1>7, <3>2, SeqFacts DEF WellLinked
      <4> QED
        BY <1>1, <1>6, <1>10, <3>2, <4>1
    <3> QED
      BY <3>1, <3>2
  <2>2. \A i \in 1 .. Len(order') : order'[i] \in heap'
    BY <1>3, <1>6, <1>8
  <2>3. \A i \in 1 .. Len(order') :
           next'[order'[i]] = IF i = Len(order') THEN NULL ELSE order'[i + 1]
    <3> SUFFICES ASSUME NEW i \in 1 .. Len(order')
                 PROVE  next'[order'[i]] = IF i = Len(order') THEN NULL ELSE order'[i + 1]
      OBVIOUS
    <3>1. CASE i = Len(order) + 1
      BY <1>1, <1>4, <1>6, <3>1 DEF TypeOK
    <3>2. CASE i = Len(order)
      <4>1. i \in 1 .. Len(order) /\ ~isEmpty /\ tail = order[i] /\ tail # a /\ tail \in Addrs
        BY <1>2, <1>5, <1>6, <1>7, <1>8, <1>10, <3>2, SeqFacts DEF WellLinked
      <4>2. next'[tail] = a
        BY <1>1, <1>4, <4>1 DEF TypeOK
      <4> QED
        BY <1>6, <3>2, <4>1, <4>2
    <3>3. CASE i < Len(order)
      <4>1. i \in 1 .. Len(order) /\ i + 1 \in 1 .. Len(order) /\ Len(order) \in 1 .. Len(order)
        BY <1>6, <3>3
      <4>2. tail = order[Len(order)] /\ ~isEmpty
        BY <1>2, <1>5, <1>7, <1>10, <4>1, SeqFacts DEF WellLinked
      <4>3. order[i] # tail /\ order[i] # a /\ next[order[i]] = order[i + 1]
        BY <1>2, <1>6, <1>7, <1>8, <3>3, <4>1, <4>2 DEF WellLinked
      <4>4. next'[order[i]] = next[order[i]]
        BY <1>1, <1>4, <1>8, <4>1, <4>2, <4>3 DEF TypeOK
      <4> QED
        BY <1>6, <3>3, <4>1, <4>3, <4>4
    <3> QED
      BY <1>6, <3>1, <3>2, <3>3
  <2>4. \A i, j \in 1 .. Len(order') : order'[i] = order'[j] => i = j
    BY <1>2, <1>6, <1>7, <1>8 DEF WellLinked
  <2> QED
    BY <1>6, <2>1, <2>2, <2>3, <2>4 DEF WellLinked
<1>12. HeldApart'
  BY <1>2, <1>3, <1>6, <1>7 DEF HeldApart
<1>13. NoLeak'
  <2>1. heap \subseteq Range(order) \cup Range(held)
    BY <1>2, <1>7 DEF NoLeak
  <2>2. Range(order') = Range(order) \cup {a}
    <3>1. DOMAIN order = 1 .. Len(order) /\ DOMAIN order' = 1 .. (Len(order) + 1)
      BY <1>1, <1>5, AppendFacts
    <3> QED
      BY <3>1, <1>6 DEF Range
  <2> QED
    BY <1>2, <1>3, <2>1, <2>2 DEF NoLeak
<1>14. DestroyInv'
  BY <1>2 DEF DestroyInv
<1> QED
  BY <1>9, <1>11, <1>12, <1>13, <1>14 DEF ListInv

\* The pointers of removeHead(): the second node comes first, and when there
\* is none head and tail are NULL.
LEMMA RemoveHeadStep == ListInv /\ (\E w \in Workers : RemoveHead(w)) => ListInv'
<1> SUFFICES ASSUME ListInv, NEW w \in Workers, RemoveHead(w) PROVE ListInv'
  OBVIOUS
<1> USE ConListAssumption
<1>1. /\ op = "run" /\ held[w] = NULL /\ head # NULL
      /\ held' = [held EXCEPT ![w] = head]
      /\ head' = IF head = tail THEN NULL ELSE next[head]
      /\ tail' = IF head = tail THEN NULL ELSE tail
      /\ UNCHANGED <<numNodes, conn, next, heap, op, cur, prev, target>>
  BY DEF RemoveHead, isEmpty, loopVars
<1>2. TypeOK /\ WellLinked /\ HeldApart /\ NoLeak /\ DestroyInv
  BY DEF ListInv
<1>3. order \in Seq(Addrs) /\ order # <<>>
  BY <1>1, <1>2 DEF TypeOK, WellLinked
<1>4. /\ order' \in Seq(Addrs) /\ Len(order) \in Nat \ {0} /\ Len(order') = Len(order) - 1
      /\ DOMAIN order = 1 .. Len(order) /\ DOMAIN order' = 1 .. (Len(order) - 1)
      /\ \A i \in 1 .. (Len(order) - 1) : order'[i] = order[i + 1]
  BY <1>3, TailFacts DEF RemoveHead
<1>5. /\ head = order[1] /\ tail = order[Len(order)]
      /\ \A i \in 1 .. Len(order) :
            /\ order[i] \in heap /\ order[i] \in Addrs
            /\ next[order[i]] = IF i = Len(order) THEN NULL ELSE order[i + 1]
      /\ \A i, j \in 1 .. Len(order) : order[i] = order[j] => i = j
  BY <1>1, <1>2, <1>3, SeqFacts DEF WellLinked
<1>6. head = tail <=> Len(order) = 1
  BY <1>4, <1>5
<1>7. TypeOK'
  BY <1>1, <1>2, <1>4, <1>5 DEF TypeOK, Pointers
<1>8. WellLinked'
  <2>1. order' = <<>> <=> Len(order) = 1
    BY <1>4, SeqFacts
  <2>2. order' = <<>> => head' = NULL /\ tail' = NULL
    BY <1>1, <1>6, <2>1
  <2>3. order' # <<>> => head' = order'[1] /\ tail' = order'[Len(order')]
    <3> HAVE order' # <<>>
    <3>1. 1 \in 1 .. (Len(order) - 1) /\ Len(order) - 1 \in 1 .. (Len(order) - 1)
      BY <1>4, <2>1
    <3>2. order'[1] = order[2] /\ order'[Len(order')] = order[Len(order)]
      BY <1>4, <3>1
    <3>3. next[order[1]] = order[2]
      BY <1>4, <1>5, <3>1
    <3> QED
      BY <1>1, <1>5, <1>6, <2>1, <3>2, <3>3
  <2>4. \A i \in 1 .. Len(order') :
           /\ order'[i] \in heap'
           /\ next'[order'[i]] = IF i = Len(order') THEN NULL ELSE order'[i + 1]
    <3> SUFFICES ASSUME NEW i \in 1 .. (Len(order) - 1)
                 PROVE  /\ order'[i] \in heap
                        /\ next[order'[i]] = IF i = Len(order) - 1 THEN NULL ELSE order'[i + 1]
      BY <1>1, <1>4
    <3>1. i + 1 \in 1 .. Len(order) /\ order'[i] = order[i + 1]
      BY <1>4
    <3>2. i # Len(order) - 1 => order'[i + 1] = order[(i + 1) + 1]
      BY <1>4
    <3>3. /\ order[i + 1] \in heap
          /\ next[order[i + 1]] = IF i + 1 = Len(order) THEN NULL ELSE order[(i + 1) + 1]
      BY <1>5, <3>1
    <3> QED
      BY <1>4, <3>1, <3>2, <3>3
  <2>5. \A i, j \in 1 .. Len(order') : order'[i] = order'[j] => i = j
    BY <1>4, <1>5
  <2> QED
    BY <2>2, <2>3, <2>4, <2>5 DEF WellLinked
<1>9. HeldApart'
  <2> SUFFICES ASSUME NEW v \in Workers, held'[v] # NULL
               PROVE  /\ held'[v] \in heap'
                      /\ \A i \in 1 .. Len(order') : order'[i] # held'[v]
                      /\ \A u \in Workers : held'[u] = held'[v] => u = v
    BY DEF HeldApart
  <2>1. held'[w] = head /\ \A u \in Workers \ {w} : held'[u] = held[u]
    BY <1>1, <1>2 DEF TypeOK
  <2>2. \A u \in Workers \ {w} : held[u] # head
    <3>1. 1 \in 1 .. Len(order) /\ head = order[1]
      BY <1>4, <1>5
    <3> QED
      BY <1>1, <1>2, <3>1 DEF HeldApart
  <2>3. \A i \in 1 .. Len(order') : i + 1 \in 1 .. Len(order) /\ order'[i] = order[i + 1]
    BY <1>4
  <2>4. CASE v = w
    <3>1. 1 \in 1 .. Len(order) /\ head = order[1] /\ head \in heap
      BY <1>4, <1>5
    <3>2. \A i \in 1 .. Len(order') : order'[i] # head
      BY <1>4, <1>5, <2>3, <3>1
    <3> QED
      BY <1>1, <2>1, <2>2, <2>4, <3>1, <3>2
  <2>5. CASE v # w
    <3>1. /\ held[v] \in heap /\ held[v] # NULL
          /\ \A i \in 1 .. Len(order) : order[i] # held[v]
          /\ \A u \in Workers : held[u] = held[v] => u = v
      BY <1>2, <2>1, <2>5 DEF HeldApart
    <3> QED
      BY <1>1, <2>1, <2>2, <2>3, <2>5, <3>1
  <2> QED
    BY <2>4, <2>5
<1>10. NoLeak'
  <2> SUFFICES ASSUME NEW a \in heap PROVE a \in Range(order') \cup Range(held')
    BY <1>1 DEF NoLeak
  <2>1. a \in Range(order) \cup Range(held)
    BY <1>1, <1>2 DEF NoLeak
  <2>2. DOMAIN held = Workers /\ DOMAIN held' = Workers
    BY <1>2, <1>7 DEF TypeOK
  <2>3. held'[w] = head /\ \A u \in Workers \ {w} : held'[u] = held[u]
    BY <1>1, <1>2 DEF TypeOK
  <2>4. CASE a \in Range(held)
    <3>1. PICK u \in Workers : held[u] = a
      BY <2>2, <2>4 DEF Range
    <3>2. a \in Addrs
      BY <1>2 DEF TypeOK
    <3>3. u # w
      BY <1>1, <3>1, <3>2
    <3> QED
      BY <2>2, <2>3, <3>1, <3>3 DEF Range
  <2>5. CASE a \in Range(order)
    <3>1. PICK i \in 1 .. Len(order) : order[i] = a
      BY <1>4, <2>5 DEF Range
    <3>2. CASE i = 1
      BY <1>5, <2>2, <2>3, <3>1, <3>2 DEF Range
    <3>3. CASE i # 1
      <4>1. i - 1 \in 1 .. (Len(order) - 1) /\ order'[i - 1] = a
        BY <1>4, <3>1, <3>3
      <4> QED
        BY <1>4, <4>1 DEF Range
    <3> QED
      BY <3>2, <3>3
  <2> QED
    BY <2>1, <2>4, <2>5
<1>11. DestroyInv'
  BY <1>1 DEF DestroyInv
<1> QED
  BY <1>7, <1>8, <1>9, <1>10, <1>11 DEF ListInv

\* free() by a worker: the node was its own.
LEMMA FreeNodeStep == ListInv /\ (\E w \in Workers : FreeNode(w)) => ListInv'
<1> SUFFICES ASSUME ListInv, NEW w \in Workers, FreeNode(w) PROVE ListInv'
  OBVIOUS
<1> USE ConListAssumption
<1>1. /\ held[w] # NULL /\ heap' = heap \ {held[w]}
      /\ held' = [held EXCEPT ![w] = NULL]
      /\ UNCHANGED <<head, tail, numNodes, conn, next, order, op, cur, prev, target>>
  BY DEF FreeNode, loopVars
<1>2. TypeOK /\ WellLinked /\ HeldApart /\ NoLeak /\ DestroyInv
  BY DEF ListInv
<1>3. op = "run"
  BY <1>1, <1>2 DEF DestroyInv
<1>4. held'[w] = NULL /\ \A u \in Workers \ {w} : held'[u] = held[u]
  BY <1>1, <1>2 DEF TypeOK
<1>5. TypeOK'
  BY <1>1, <1>2 DEF TypeOK, Pointers
<1>6. WellLinked'
  BY <1>1, <1>2, <1>3 DEF WellLinked, HeldApart
<1>7. HeldApart'
  BY <1>1, <1>2, <1>4 DEF HeldApart
<1>8. NoLeak'
  <2> SUFFICES ASSUME NEW a \in heap, a # held[w] PROVE a \in Range(order) \cup Range(held')
    BY <1>1, <1>3 DEF NoLeak
  <2>1. a \in Range(order) \cup Range(held)
    BY <1>2, <1>3 DEF NoLeak
  <2>2. DOMAIN held = Workers /\ DOMAIN held' = Workers
    BY <1>2, <1>5 DEF TypeOK
  <2>3. a \in Range(held) => a \in Range(held')
    BY <1>4, <2>2 DEF Range
  <2> QED
    BY <2>1, <2>3
<1>9. DestroyInv'
  BY <1>1, <1>3 DEF DestroyInv
<1> QED
  BY <1>5, <1>6, <1>7, <1>8, <1>9 DEF ListInv

\* destroyAll(): the loop starts at the head of a list that is all there is.
LEMMA DestroyAllStep == ListInv /\ DestroyAll => ListInv'
<1> SUFFICES ASSUME ListInv, DestroyAll PROVE ListInv'
  OBVIOUS
<1> USE ConListAssumption
<1>1. /\ op = "run" /\ op' = "destroyAll" /\ cur' = head /\ prev' = NULL
      /\ \A w \in Workers : held[w] = NULL
      /\ UNCHANGED <<head, tail, numNodes, conn, next, heap, order, held, target>>
  BY DEF DestroyAll, listVars
<1>2. TypeOK /\ WellLinked /\ HeldApart /\ NoLeak /\ DestroyInv
  BY DEF ListInv
<1>3. order \in Seq(Addrs)
  BY <1>2 DEF TypeOK
<1>4. Len(order) \in Nat /\ DOMAIN order = 1 .. Len(order) /\ (order = <<>> <=> Len(order) = 0)
  BY <1>3, SeqFacts
<1>5. TypeOK' /\ WellLinked' /\ HeldApart' /\ NoLeak'
  BY <1>1, <1>2 DEF TypeOK, WellLinked, HeldApart, NoLeak, Pointers
<1>6. heap = {order[i] : i \in 1 .. Len(order)}
  <2>1. \A a \in heap : a \in Range(order)
    <3> SUFFICES ASSUME NEW a \in heap PROVE a \in Range(order)
      OBVIOUS
    <3>1. a # NULL /\ DOMAIN held = Workers
      BY <1>2 DEF TypeOK
    <3>2. a \notin Range(held)
      BY <1>1, <3>1 DEF Range
    <3> QED
      BY <1>1, <1>2, <3>2 DEF NoLeak
  <2>2. \A i \in 1 .. Len(order) : order[i] \in heap
    BY <1>1, <1>2 DEF WellLinked
  <2> QED
    BY <1>4, <2>1, <2>2 DEF Range
<1>7. head = IF Len(order) = 0 THEN NULL ELSE order[1]
  BY <1>1, <1>2, <1>4 DEF WellLinked
<1>8. DestroyInv'
  <2>1. 1 \in 1 .. Len(order) + 1 /\ (1 = Len(order) + 1 <=> Len(order) = 0)
    BY <1>4
  <2>2. \E k \in 1 .. Len(order) + 1 :
           /\ head = IF k = Len(order) + 1 THEN NULL ELSE order[k]
           /\ heap = {order[i] : i \in k .. Len(order)}
    BY <1>6, <1>7, <2>1
  <2>3. /\ \A i \in 1 .. Len(order) :
              next[order[i]] = IF i = Len(order) THEN NULL ELSE order[i + 1]
        /\ \A i, j \in 1 .. Len(order) : order[i] = order[j] => i = j
    BY <1>1, <1>2 DEF WellLinked
  <2> QED
    BY <1>1, <2>2, <2>3 DEF DestroyInv
<1> QED
  BY <1>5, <1>8 DEF ListInv

\* One turn of the loop: the node that is freed is the first of those left.
LEMMA DestroyStepStep == ListInv /\ DestroyStep => ListInv'
<1> SUFFICES ASSUME ListInv, DestroyStep PROVE ListInv'
  OBVIOUS
<1> USE ConListAssumption
<1>1. /\ op = "destroyAll" /\ cur # NULL /\ prev' = cur /\ cur' = next[cur]
      /\ heap' = heap \ {cur}
      /\ UNCHANGED <<head, tail, numNodes, conn, next, order, held, op, target>>
  BY DEF DestroyStep
<1>2. TypeOK /\ WellLinked /\ HeldApart /\ NoLeak /\ DestroyInv
  BY DEF ListInv
<1>3. order \in Seq(Addrs)
  BY <1>2 DEF TypeOK
<1>4. Len(order) \in Nat /\ \A i \in 1 .. Len(order) : order[i] \in Addrs
  BY <1>3, SeqFacts
<1>5. /\ \A w \in Workers : held[w] = NULL
      /\ \A i \in 1 .. Len(order) :
            next[order[i]] = IF i = Len(order) THEN NULL ELSE order[i + 1]
      /\ \A i, j \in 1 .. Len(order) : order[i] = order[j] => i = j
  BY <1>1, <1>2 DEF DestroyInv
<1>6. PICK k \in 1 .. Len(order) + 1 :
           /\ cur = IF k = Len(order) + 1 THEN NULL ELSE order[k]
           /\ heap = {order[i] : i \in k .. Len(order)}
  BY <1>1, <1>2 DEF DestroyInv
<1>7. k \in 1 .. Len(order) /\ k + 1 \in 1 .. Len(order) + 1 /\ cur = order[k] /\ cur \in Addrs
  BY <1>1, <1>4, <1>6
<1>8. cur' = IF k + 1 = Len(order) + 1 THEN NULL ELSE order[k + 1]
  BY <1>1, <1>4, <1>5, <1>7
<1>9. heap' = {order[i] : i \in k + 1 .. Len(order)}
  BY <1>1, <1>4, <1>5, <1>6, <1>7
<1>10. TypeOK'
  BY <1>1, <1>2, <1>7 DEF TypeOK, Pointers
<1>11. WellLinked' /\ HeldApart' /\ NoLeak'
  BY <1>1, <1>5 DEF WellLinked, HeldApart, NoLeak
<1>12. DestroyInv'
  <2>1. \E l \in 1 .. Len(order) + 1 :
           /\ cur' = IF l = Len(order) + 1 THEN NULL ELSE order[l]
           /\ heap' = {order[i] : i \in l .. Len(order)}
    BY <1>7, <1>8, <1>9
  <2> QED
    BY <1>1, <1>5, <2>1 DEF DestroyInv
<1> QED
  BY <1>10, <1>11, <1>12 DEF ListInv

\* The end of the loop: nothing is left.
LEMMA DestroyDoneStep == ListInv /\ DestroyDone => ListInv'
<1> SUFFICES ASSUME ListInv, DestroyDone PROVE ListInv'
  OBVIOUS
<1> USE ConListAssumption
<1>1. /\ op = "destroyAll" /\ cur = NULL /\ op' = "gone"
      /\ UNCHANGED <<head, tail, numNodes, conn, next, heap, order, held, cur, prev, target>>
  BY DEF DestroyDone, listVars
<1>2. TypeOK /\ WellLinked /\ HeldApart /\ NoLeak /\ DestroyInv
  BY DEF ListInv
<1>3. order \in Seq(Addrs)
  BY <1>2 DEF TypeOK
<1>4. Len(order) \in Nat /\ \A i \in 1 .. Len(order) : order[i] \in Addrs
  BY <1>3, SeqFacts
<1>5. PICK k \in 1 .. Len(order) + 1 :
           /\ cur = IF k = Len(order) + 1 THEN NULL ELSE order[k]
           /\ heap = {order[i] : i \in k .. Len(order)}
  BY <1>1, <1>2 DEF DestroyInv
<1>6. k = Len(order) + 1
  BY <1>1, <1>4, <1>5
<1>7. heap = {}
  BY <1>4, <1>5, <1>6
<1>8. TypeOK' /\ WellLinked' /\ HeldApart' /\ NoLeak'
  BY <1>1, <1>2, <1>7 DEF TypeOK, WellLinked, HeldApart, NoLeak, Pointers
<1>9. DestroyInv'
  BY <1>1, <1>2 DEF DestroyInv
<1> QED
  BY <1>8, <1>9 DEF ListInv

\* The invariant is kept by every operation, and by doing nothing.
LEMMA ListInvStep == ListInv /\ [Next]_vars => ListInv'
<1> SUFFICES ASSUME ListInv, [Next]_vars PROVE ListInv'
  OBVIOUS
<1>1. CASE UNCHANGED vars
  BY <1>1 DEF vars, listVars, loopVars, ListInv, TypeOK, WellLinked, HeldApart, NoLeak,
              DestroyInv, Pointers
<1>2. CASE Next
  BY <1>2, AddTailStep, RemoveHeadStep, FreeNodeStep, DestroyAllStep, DestroyStepStep,
     DestroyDoneStep DEF Next
<1> QED
  BY <1>1, <1>2

----------------------------------------------------------------------------
\* The inductive invariant of the list holds as long as its callers use the
\* operations that server.c and proxy.c use.
THEOREM ListInvariant == Spec => []ListInv
  BY ListInvInit, ListInvStep, PTL DEF Spec

\* head, tail and the next pointers chain exactly the nodes that were added
\* and not yet removed, in order, through any sequence of addTail() and
\* removeHead(), with addresses freed and handed out again.
THEOREM ListIsWellLinked == Spec => []WellLinked
<1>1. ListInv => WellLinked
  BY DEF ListInv
<1> QED
  BY ListInvariant, <1>1, PTL

\* The node that a worker got from removeHead() is allocated, off the list and
\* in no other worker's hands, until that worker frees it.
THEOREM NodesAreHeldApart == Spec => []HeldApart
<1>1. ListInv => HeldApart
  BY DEF ListInv
<1> QED
  BY ListInvariant, <1>1, PTL

\* No node is lost while the list is in use, and destroyAll() frees them all.
THEOREM NothingIsLeaked == Spec => []NoLeak
<1>1. ListInv => NoLeak
  BY DEF ListInv
<1> QED
  BY ListInvariant, <1>1, PTL

----------------------------------------------------------------------------
\* The connections on the list, as a sequence.
LEMMA ConnectionsFacts ==
    ASSUME TypeOK, op = "run"
    PROVE  /\ Connections \in Seq(Conns) /\ Len(Connections) = Len(order)
           /\ \A i \in 1 .. Len(order) : Connections[i] = conn[order[i]]
<1>1. Len(order) \in Nat /\ DOMAIN order = 1 .. Len(order)
      /\ \A i \in 1 .. Len(order) : order[i] \in Addrs
  BY SeqFacts DEF TypeOK
<1>2. Connections = [i \in 1 .. Len(order) |-> conn[order[i]]]
  BY <1>1 DEF Connections
<1> QED
  BY <1>1, <1>2 DEF TypeOK

\* addTail() puts its connection behind those that wait, and disturbs none of
\* them and no worker by what it writes to the heap.
LEMMA AddTailPuts ==
    ListInv /\ (\E c \in Conns : AddTail(c)) => \E c \in Conns : Queue!Put(c)
<1> SUFFICES ASSUME ListInv, NEW c \in Conns, AddTail(c) PROVE Queue!Put(c)
  OBVIOUS
<1>1. PICK a \in Addrs : a \notin heap /\ conn' = [conn EXCEPT ![a] = c]
                         /\ order' = Append(order, a)
  BY DEF AddTail, NewConnection
<1>2. op = "run" /\ op' = "run" /\ held' = held
  BY DEF AddTail, loopVars
<1>3. TypeOK /\ TypeOK' /\ WellLinked /\ HeldApart
  BY AddTailStep DEF ListInv
<1>4. order \in Seq(Addrs)
  BY <1>3 DEF TypeOK
<1>5. /\ Len(order) \in Nat /\ Len(order') = Len(order) + 1 /\ order'[Len(order) + 1] = a
      /\ \A i \in 1 .. Len(order) : order'[i] = order[i]
  BY <1>1, <1>4, AppendFacts
<1>6. \A i \in 1 .. Len(order) : order[i] \in Addrs /\ order[i] # a
  BY <1>1, <1>2, <1>3, <1>4, SeqFacts DEF WellLinked
<1>7. /\ Connections \in Seq(Conns) /\ Len(Connections) = Len(order)
      /\ \A i \in 1 .. Len(order) : Connections[i] = conn[order[i]]
  BY <1>2, <1>3, ConnectionsFacts
<1>8. /\ Connections' \in Seq(Conns) /\ Len(Connections') = Len(order')
      /\ \A i \in 1 .. Len(order') : Connections'[i] = conn'[order'[i]]
  <2>1. order' \in Seq(Addrs) /\ conn' \in [Addrs -> Conns]
    BY <1>2, <1>3 DEF TypeOK
  <2>2. Len(order') \in Nat /\ \A i \in 1 .. Len(order') : order'[i] \in Addrs
    BY <2>1, SeqFacts
  <2>3. Connections' = [i \in 1 .. Len(order') |-> conn'[order'[i]]]
    BY <1>2, <1>3, <2>1, SeqFacts DEF Connections
  <2> QED
    BY <2>1, <2>2, <2>3
<1>9. conn'[a] = c /\ \A b \in Addrs : b # a => conn'[b] = conn[b]
  BY <1>1, <1>3 DEF TypeOK
<1>10. Connections' = Append(Connections, c)
  <2>1. \A i \in 1 .. Len(order) : Connections'[i] = Connections[i]
    BY <1>5, <1>6, <1>7, <1>8, <1>9
  <2>2. Connections'[Len(order) + 1] = c
    BY <1>5, <1>8, <1>9
  <2> QED
    BY <1>5, <1>7, <1>8, <2>1, <2>2
<1>11. Serving' = Serving
  BY <1>1, <1>2, <1>3, <1>9 DEF Serving, HeldApart, TypeOK, Pointers
<1> QED
  BY <1>10, <1>11 DEF Queue!Put

\* removeHead() hands the worker the connection that has waited longest.
LEMMA RemoveHeadGets ==
    ListInv /\ (\E w \in Workers : RemoveHead(w)) => \E w \in Workers : Queue!Get(w)
<1> SUFFICES ASSUME ListInv, NEW w \in Workers, RemoveHead(w) PROVE Queue!Get(w)
  OBVIOUS
<1>1. /\ op = "run" /\ op' = "run" /\ held[w] = NULL /\ head # NULL /\ conn' = conn
      /\ held' = [held EXCEPT ![w] = head]
  BY DEF RemoveHead, isEmpty, loopVars
<1>2. TypeOK /\ TypeOK' /\ WellLinked /\ HeldApart
  BY RemoveHeadStep DEF ListInv
<1>3. order \in Seq(Addrs) /\ order # <<>>
  BY <1>1, <1>2 DEF TypeOK, WellLinked
<1>4. /\ Len(order) \in Nat \ {0} /\ Len(order') = Len(order) - 1
      /\ \A i \in 1 .. (Len(order) - 1) : order'[i] = order[i + 1]
  BY <1>3, TailFacts DEF RemoveHead
<1>5. /\ Connections \in Seq(Conns) /\ Len(Connections) = Len(order)
      /\ \A i \in 1 .. Len(order) : Connections[i] = conn[order[i]]
  BY <1>1, <1>2, ConnectionsFacts
<1>6. /\ Connections' \in Seq(Conns) /\ Len(Connections') = Len(order')
      /\ \A i \in 1 .. Len(order') : Connections'[i] = conn'[order'[i]]
  <2>1. order' \in Seq(Addrs) /\ conn' \in [Addrs -> Conns]
    BY <1>1, <1>2 DEF TypeOK
  <2>2. Len(order') \in Nat /\ \A i \in 1 .. Len(order') : order'[i] \in Addrs
    BY <2>1, SeqFacts
  <2>3. Connections' = [i \in 1 .. Len(order') |-> conn'[order'[i]]]
    BY <1>1, <1>2, <2>1, SeqFacts DEF Connections
  <2> QED
    BY <2>1, <2>2, <2>3
<1>7. Connections # <<>> /\ Head(Connections) = conn[head]
  BY <1>1, <1>2, <1>3, <1>4, <1>5 DEF WellLinked
<1>8. Connections' = Tail(Connections)
  <2>1. Connections # <<>>
    BY <1>7
  <2>2. /\ Tail(Connections) \in Seq(Conns) /\ Len(Tail(Connections)) = Len(order) - 1
        /\ \A i \in 1 .. (Len(order) - 1) : Tail(Connections)[i] = Connections[i + 1]
    BY <1>5, <2>1, TailFacts
  <2>3. \A i \in 1 .. (Len(order) - 1) : Connections'[i] = Tail(Connections)[i]
    <3> SUFFICES ASSUME NEW i \in 1 .. (Len(order) - 1)
                 PROVE  Connections'[i] = Tail(Connections)[i]
      OBVIOUS
    <3>1. i \in 1 .. Len(order') /\ i + 1 \in 1 .. Len(order)
      BY <1>4
    <3> QED
      BY <1>1, <1>4, <1>5, <1>6, <2>2, <3>1
  <2> QED
    BY <1>4, <1>6, <2>2, <2>3
<1>9. Serving[w] = NoConn
  BY <1>1 DEF Serving
<1>10. Serving' = [Serving EXCEPT ![w] = conn[head]]
  BY <1>1, <1>2 DEF Serving, TypeOK
<1> QED
  BY <1>7, <1>8, <1>9, <1>10 DEF Queue!Get

\* free() of its node ends what the worker was doing.
LEMMA FreeNodeFinishes ==
    ListInv /\ (\E w \in Workers : FreeNode(w)) => \E w \in Workers : Queue!Finish(w)
<1> SUFFICES ASSUME ListInv, NEW w \in Workers, FreeNode(w) PROVE Queue!Finish(w)
  OBVIOUS
<1>1. /\ held[w] # NULL /\ held' = [held EXCEPT ![w] = NULL]
      /\ UNCHANGED <<conn, order, op>>
  BY DEF FreeNode, loopVars
<1>2. TypeOK
  BY DEF ListInv
<1>3. Serving[w] # NoConn
  BY <1>1, <1>2, ConListAssumption DEF Serving, TypeOK, Pointers
<1>4. Serving' = [Serving EXCEPT ![w] = NoConn]
  BY <1>1, <1>2 DEF Serving, TypeOK
<1>5. Connections' = Connections
  BY <1>1 DEF Connections
<1> QED
  BY <1>3, <1>4, <1>5 DEF Queue!Finish

\* destroyAll() throws away what still waits; the rest of it is not seen.
LEMMA DestroyDiscards ==
    ListInv /\ (DestroyAll \/ DestroyStep \/ DestroyDone) => [Queue!Discard]_(Queue!vars)
<1> SUFFICES ASSUME ListInv, DestroyAll \/ DestroyStep \/ DestroyDone
             PROVE  [Queue!Discard]_(Queue!vars)
  OBVIOUS
<1>1. CASE DestroyAll
  <2>1. /\ op = "run" /\ op' = "destroyAll" /\ \A w \in Workers : held[w] = NULL
        /\ UNCHANGED <<conn, held>>
    BY <1>1 DEF DestroyAll, listVars
  <2>2. Connections' = <<>> /\ Serving' = Serving /\ \A w \in Workers : Serving[w] = NoConn
    BY <2>1 DEF Connections, Serving
  <2> QED
    BY <2>2 DEF Queue!Discard
<1>2. CASE DestroyStep \/ DestroyDone
  <2>1. op # "run" /\ op' # "run" /\ UNCHANGED <<conn, held>>
    BY <1>2 DEF DestroyStep, DestroyDone, listVars
  <2>2. Connections' = Connections /\ Serving' = Serving
    BY <2>1 DEF Connections, Serving
  <2> QED
    BY <2>2 DEF Queue!vars
<1> QED
  BY <1>1, <1>2

\* The pointers implement the job queue that WorkerPool works with: what the
\* pool takes for a sequence of nodes is what conList.c makes of the heap.
THEOREM ListImplementsQueue == Spec => QueueSpec
<1>1. Init => Queue!Init
  BY DEF Init, Queue!Init, Connections, Serving
<1>2. ListInv /\ [Next]_vars => [Queue!Next]_(Queue!vars)
  <2> SUFFICES ASSUME ListInv, [Next]_vars PROVE [Queue!Next]_(Queue!vars)
    OBVIOUS
  <2>1. CASE UNCHANGED vars
    BY <2>1 DEF vars, listVars, loopVars, Queue!vars, Connections, Serving
  <2>2. CASE Next
    BY <2>2, AddTailPuts, RemoveHeadGets, FreeNodeFinishes, DestroyDiscards
    DEF Next, Queue!Next
  <2> QED
    BY <2>1, <2>2
<1> QED
  BY <1>1, <1>2, ListInvariant, PTL DEF Spec, QueueSpec, Queue!Spec
=============================================================================
