-------------------------- MODULE ShmSetup_proofs ---------------------------
(***************************************************************************)
(* The life of the shared segments, for any number of starts, faults,      *)
(* threads and nodes.  The invariant has four layers: what always holds    *)
(* (BaseInv), what holds if processes start and end one at a time          *)
(* (OrderInv), what holds if besides no pair of segments was torn apart    *)
(* (Paired), and what holds if besides all ended in order (Owned);         *)
(* SizedInv, on top of these, is about numbers of nodes.  For each layer   *)
(* there is one lemma for each step.                                       *)
(***************************************************************************)
EXTENDS ShmSetup, DataLemmas

\* There is a largest number of nodes.
LEMMA MaxNodesFacts ==
    /\ MaxNodes \in Nat \ {0} /\ NUMSEGMENTS \in 1 .. MaxNodes
    /\ ThreadCounts \subseteq 1 .. MaxNodes
<1> DEFINE C == ThreadCounts \cup {NUMSEGMENTS}
<1>1. \E n \in C : \A k \in C : k <= n
  BY ShmSetupAssumption
<1>2. MaxNodes \in C /\ \A k \in C : k <= MaxNodes
  BY <1>1 DEF MaxNodes
<1>3. C \subseteq Nat \ {0}
  BY ShmSetupAssumption
<1> QED
  BY <1>2, <1>3

\* A new segment is a segment.
LEMMA NewSegmentType == NewSegment \in Segment
  BY MaxNodesFacts DEF NewSegment, Segment, Flags

\* One segment is replaced, the others stay.
LEMMA ReplaceSegment ==
    ASSUME segs \in Seq(Segment), NEW o \in 1 .. Len(segs), NEW r \in Segment,
           segs' = [segs EXCEPT ![o] = r]
    PROVE  /\ segs' \in Seq(Segment) /\ Len(segs') = Len(segs) /\ segs'[o] = r
           /\ \A x \in 1 .. Len(segs) : x # o => segs'[x] = segs[x]
<1>1. Len(segs) \in Nat /\ DOMAIN segs = 1 .. Len(segs) /\ \A x \in 1 .. Len(segs) : segs[x] \in Segment
  BY SeqFacts
<1>2. segs' = [x \in 1 .. Len(segs) |-> IF x = o THEN r ELSE segs[x]]
  BY <1>1
<1>3. \A x \in 1 .. Len(segs) : segs'[x] \in Segment
  BY <1>1, <1>2
<1> QED
  BY <1>1, <1>2, <1>3

\* The fields of a segment.
LEMMA FieldTypes ==
    ASSUME NEW r \in Segment
    PROVE  /\ r.size \in 0 .. MaxNodes /\ r.numNodes \in 0 .. MaxNodes
           /\ r.serverFlag \in Flags /\ r.proxyFlag \in Flags
           /\ r.node \in [NodeIds -> {"IDLE", "POSTED", "ANSWERED"}]
           /\ r = [size |-> r.size, serverFlag |-> r.serverFlag, proxyFlag |-> r.proxyFlag,
                   numNodes |-> r.numNodes, node |-> r.node]
  BY DEF Segment

\* A write to one field of a segment leaves the other fields alone.
LEMMA FieldWrites ==
    ASSUME NEW r \in Segment, NEW v \in 0 .. MaxNodes
    PROVE  /\ LET q == [r EXCEPT !.size = v]
              IN  /\ q \in Segment /\ q.size = v
                  /\ q.serverFlag = r.serverFlag /\ q.numNodes = r.numNodes
           /\ LET q == [r EXCEPT !.numNodes = v]
              IN  /\ q \in Segment /\ q.numNodes = v
                  /\ q.size = r.size /\ q.serverFlag = r.serverFlag
  BY DEF Segment

\* The same for the flags.
LEMMA FlagWrites ==
    ASSUME NEW r \in Segment
    PROVE  /\ LET q == [r EXCEPT !.serverFlag = "ONLINE"]
              IN  /\ q \in Segment /\ q.serverFlag = "ONLINE"
                  /\ q.size = r.size /\ q.numNodes = r.numNodes
           /\ LET q == [r EXCEPT !.proxyFlag = "ONLINE"]
              IN  /\ q \in Segment
                  /\ q.size = r.size /\ q.numNodes = r.numNodes /\ q.serverFlag = r.serverFlag
  BY DEF Segment, Flags

\* The same for the state of a node.
LEMMA NodeWrites ==
    ASSUME NEW r \in Segment, NEW n, NEW st \in {"IDLE", "POSTED", "ANSWERED"}
    PROVE  LET q == [r EXCEPT !.node[n] = st]
           IN  /\ q \in Segment
               /\ q.size = r.size /\ q.numNodes = r.numNodes /\ q.serverFlag = r.serverFlag
  BY DEF Segment

\* ftruncate() changes the size.
LEMMA SizeWrite ==
    ASSUME segs \in Seq(Segment), NEW o \in 1 .. Len(segs), NEW v \in 0 .. MaxNodes,
           segs' = [segs EXCEPT ![o].size = v]
    PROVE  /\ segs' \in Seq(Segment) /\ Len(segs') = Len(segs)
           /\ segs'[o].size = v
           /\ \A x \in 1 .. Len(segs) :
                /\ x # o => segs'[x] = segs[x]
                /\ segs'[x].serverFlag = segs[x].serverFlag /\ segs'[x].numNodes = segs[x].numNodes
<1> DEFINE r == [segs[o] EXCEPT !.size = v]
<1>1. segs' = [segs EXCEPT ![o] = r]
  OBVIOUS
<1>2. segs[o] \in Segment
  BY SeqFacts
<1>3. r \in Segment /\ r.size = v /\ r.serverFlag = segs[o].serverFlag /\ r.numNodes = segs[o].numNodes
  BY <1>2, FieldWrites
<1> HIDE DEF r
<1>4. /\ segs' \in Seq(Segment) /\ Len(segs') = Len(segs) /\ segs'[o] = r
      /\ \A x \in 1 .. Len(segs) : x # o => segs'[x] = segs[x]
  BY <1>1, <1>3, ReplaceSegment
<1> QED
  BY <1>3, <1>4

\* The server says that it is there.
LEMMA ServerFlagWrite ==
    ASSUME segs \in Seq(Segment), NEW o \in 1 .. Len(segs),
           segs' = [segs EXCEPT ![o].serverFlag = "ONLINE"]
    PROVE  /\ segs' \in Seq(Segment) /\ Len(segs') = Len(segs)
           /\ segs'[o].serverFlag = "ONLINE"
           /\ \A x \in 1 .. Len(segs) :
                /\ x # o => segs'[x] = segs[x]
                /\ segs'[x].size = segs[x].size /\ segs'[x].numNodes = segs[x].numNodes
<1> DEFINE r == [segs[o] EXCEPT !.serverFlag = "ONLINE"]
<1>1. segs' = [segs EXCEPT ![o] = r]
  OBVIOUS
<1>2. segs[o] \in Segment
  BY SeqFacts
<1>3. r \in Segment /\ r.serverFlag = "ONLINE" /\ r.size = segs[o].size /\ r.numNodes = segs[o].numNodes
  BY <1>2, FlagWrites
<1> HIDE DEF r
<1>4. /\ segs' \in Seq(Segment) /\ Len(segs') = Len(segs) /\ segs'[o] = r
      /\ \A x \in 1 .. Len(segs) : x # o => segs'[x] = segs[x]
  BY <1>1, <1>3, ReplaceSegment
<1> QED
  BY <1>3, <1>4

\* The proxy says that it is there.
LEMMA ProxyFlagWrite ==
    ASSUME segs \in Seq(Segment), NEW o \in 1 .. Len(segs),
           segs' = [segs EXCEPT ![o].proxyFlag = "ONLINE"]
    PROVE  /\ segs' \in Seq(Segment) /\ Len(segs') = Len(segs)
           /\ \A x \in 1 .. Len(segs) :
                /\ x # o => segs'[x] = segs[x]
                /\ segs'[x].size = segs[x].size /\ segs'[x].numNodes = segs[x].numNodes
                /\ segs'[x].serverFlag = segs[x].serverFlag
<1> DEFINE r == [segs[o] EXCEPT !.proxyFlag = "ONLINE"]
<1>1. segs' = [segs EXCEPT ![o] = r]
  OBVIOUS
<1>2. segs[o] \in Segment
  BY SeqFacts
<1>3. r \in Segment /\ r.size = segs[o].size /\ r.numNodes = segs[o].numNodes /\ r.serverFlag = segs[o].serverFlag
  BY <1>2, FlagWrites
<1> HIDE DEF r
<1>4. /\ segs' \in Seq(Segment) /\ Len(segs') = Len(segs) /\ segs'[o] = r
      /\ \A x \in 1 .. Len(segs) : x # o => segs'[x] = segs[x]
  BY <1>1, <1>3, ReplaceSegment
<1> QED
  BY <1>3, <1>4

\* One of them says how many nodes there are.
LEMMA NumNodesWrite ==
    ASSUME segs \in Seq(Segment), NEW o \in 1 .. Len(segs), NEW v \in 0 .. MaxNodes,
           segs' = [segs EXCEPT ![o].numNodes = v]
    PROVE  /\ segs' \in Seq(Segment) /\ Len(segs') = Len(segs)
           /\ segs'[o].numNodes = v
           /\ \A x \in 1 .. Len(segs) :
                /\ x # o => segs'[x] = segs[x]
                /\ segs'[x].size = segs[x].size /\ segs'[x].serverFlag = segs[x].serverFlag
<1> DEFINE r == [segs[o] EXCEPT !.numNodes = v]
<1>1. segs' = [segs EXCEPT ![o] = r]
  OBVIOUS
<1>2. segs[o] \in Segment
  BY SeqFacts
<1>3. r \in Segment /\ r.numNodes = v /\ r.size = segs[o].size /\ r.serverFlag = segs[o].serverFlag
  BY <1>2, FieldWrites
<1> HIDE DEF r
<1>4. /\ segs' \in Seq(Segment) /\ Len(segs') = Len(segs) /\ segs'[o] = r
      /\ \A x \in 1 .. Len(segs) : x # o => segs'[x] = segs[x]
  BY <1>1, <1>3, ReplaceSegment
<1> QED
  BY <1>3, <1>4

\* The state of a node changes.
LEMMA NodeWrite ==
    ASSUME segs \in Seq(Segment), NEW o \in 1 .. Len(segs), NEW n, NEW st \in {"IDLE", "POSTED", "ANSWERED"},
           segs' = [segs EXCEPT ![o].node[n] = st]
    PROVE  /\ segs' \in Seq(Segment) /\ Len(segs') = Len(segs)
           /\ \A x \in 1 .. Len(segs) :
                /\ x # o => segs'[x] = segs[x]
                /\ segs'[x].size = segs[x].size /\ segs'[x].numNodes = segs[x].numNodes
                /\ segs'[x].serverFlag = segs[x].serverFlag
<1> DEFINE r == [segs[o] EXCEPT !.node[n] = st]
<1>1. segs' = [segs EXCEPT ![o] = r]
  OBVIOUS
<1>2. segs[o] \in Segment
  BY SeqFacts
<1>3. r \in Segment /\ r.size = segs[o].size /\ r.numNodes = segs[o].numNodes /\ r.serverFlag = segs[o].serverFlag
  BY <1>2, NodeWrites
<1> HIDE DEF r
<1>4. /\ segs' \in Seq(Segment) /\ Len(segs') = Len(segs) /\ segs'[o] = r
      /\ \A x \in 1 .. Len(segs) : x # o => segs'[x] = segs[x]
  BY <1>1, <1>3, ReplaceSegment
<1> QED
  BY <1>3, <1>4

\* A new segment comes after the others.
LEMMA AppendSegment ==
    ASSUME segs \in Seq(Segment), segs' = Append(segs, NewSegment)
    PROVE  /\ segs' \in Seq(Segment) /\ Len(segs') = Len(segs) + 1 /\ Len(segs) \in Nat
           /\ segs'[Len(segs) + 1] = NewSegment
           /\ \A x \in 1 .. Len(segs) : segs'[x] = segs[x]
  BY NewSegmentType, AppendFacts

\* One that is initialized keeps its size.
LEMMA RenewSegment ==
    ASSUME segs \in Seq(Segment), NEW o \in 1 .. Len(segs),
           segs' = [segs EXCEPT ![o] = [NewSegment EXCEPT !.size = segs[o].size]]
    PROVE  /\ segs' \in Seq(Segment) /\ Len(segs') = Len(segs)
           /\ segs'[o].serverFlag = "OFFLINE" /\ segs'[o].numNodes = 0
           /\ \A x \in 1 .. Len(segs) :
                /\ x # o => segs'[x] = segs[x]
                /\ segs'[x].size = segs[x].size
<1> DEFINE r == [NewSegment EXCEPT !.size = segs[o].size]
<1>1. segs[o] \in Segment /\ segs[o].size \in 0 .. MaxNodes
  BY SeqFacts, FieldTypes
<1>2. r \in Segment /\ r.size = segs[o].size /\ r.serverFlag = NewSegment.serverFlag
        /\ r.numNodes = NewSegment.numNodes
  BY <1>1, NewSegmentType DEF Segment
<1>3. NewSegment.serverFlag = "OFFLINE" /\ NewSegment.numNodes = 0
  BY DEF NewSegment
<1> HIDE DEF r
<1>4. segs' = [segs EXCEPT ![o] = r]
  BY DEF r
<1>5. /\ segs' \in Seq(Segment) /\ Len(segs') = Len(segs) /\ segs'[o] = r
      /\ \A x \in 1 .. Len(segs) : x # o => segs'[x] = segs[x]
  BY <1>2, <1>4, ReplaceSegment
<1> QED
  BY <1>2, <1>3, <1>5

----------------------------------------------------------------------------
(* What always holds: types, and which process has mapped what.            *)

\* At first all processes are down and have nothing mapped.
LEMMA BaseInit == Init => BaseInv
<1> SUFFICES ASSUME Init PROVE BaseInv
  OBVIOUS
<1>1. TypeOK
  <2>1. segs \in Seq(Segment) /\ Len(segs) = 0
    BY DEF Init
  <2>2. \A p \in Procs : pc[p] = "down"
    BY DEF Init
  <2>3. /\ named \in [Names -> 0 .. Len(segs)]
        /\ map \in [Procs -> [Names -> 0 .. Len(segs)]]
        /\ fd \in [Procs -> 0 .. Len(segs)] /\ nodes \in [Procs -> 0 .. MaxNodes]
        /\ at \in 0 .. MaxNodes /\ faults \in 0 .. MaxFaults /\ starts \in [Procs -> Nat]
    BY <2>1, ShmSetupAssumption, MaxNodesFacts DEF Init
  <2>4. pc \in [Procs -> Labels] /\ seg \in [Procs -> Names] /\ exists \in [Procs -> BOOLEAN]
    BY DEF Init, Labels, Steady, Names
  <2> QED
    BY <2>1, <2>2, <2>3, <2>4 DEF Init, TypeOK
<1>2. \A p \in Procs : PlacedAt(p)
  BY DEF Init, PlacedAt, LabelsOf, Procs, Steady, Creating, Has, Mapping, Halfway
<1> QED
  BY <1>1, <1>2 DEF BaseInv

\* A step of p leaves the variables of the other processes alone.
OthersStay(p) == \A q \in Procs \ {p} :
    /\ pc'[q] = pc[q] /\ seg'[q] = seg[q] /\ map'[q] = map[q]
    /\ fd'[q] = fd[q] /\ exists'[q] = exists[q] /\ nodes'[q] = nodes[q]

\* A step of p, by what it leaves in the variables of p.
Moves(p, l, s, m, f, e, n) ==
    /\ pc' = [pc EXCEPT ![p] = l] /\ seg' = [seg EXCEPT ![p] = s]
    /\ map' = [map EXCEPT ![p] = m] /\ fd' = [fd EXCEPT ![p] = f]
    /\ exists' = [exists EXCEPT ![p] = e] /\ nodes' = [nodes EXCEPT ![p] = n]

\* Where a step takes p, value by value, the others staying where they are.
Lands(p, l, s, m, f, e, n) ==
    /\ OthersStay(p)
    /\ pc'[p] = l /\ seg'[p] = s /\ map'[p] = m
    /\ fd'[p] = f /\ exists'[p] = e /\ nodes'[p] = n

\* An update of the functions, read at p and at the others.
LEMMA MovesLands ==
    ASSUME BaseInv, NEW p \in Procs, NEW l, NEW s, NEW m, NEW f, NEW e, NEW n,
           Moves(p, l, s, m, f, e, n)
    PROVE  Lands(p, l, s, m, f, e, n)
  BY DEF BaseInv, TypeOK, Moves, Lands, OthersStay

\* The variables that are not of one process.
Common ==
    /\ segs' \in Seq(Segment) /\ Len(segs') \in Nat /\ Len(segs) <= Len(segs')
    /\ named' \in [Names -> 0 .. Len(segs')]
    /\ retried' \in BOOLEAN /\ overlap' \in BOOLEAN /\ at' \in 0 .. MaxNodes
    /\ rough' \in {"clean", "rough", "torn"} /\ faults' \in 0 .. MaxFaults
    /\ starts' \in [Procs -> Nat]

\* A step of p to a place whose requirements it meets keeps BaseInv.
LEMMA BaseMoves ==
    ASSUME BaseInv, Common, NEW p \in Procs, NEW l \in LabelsOf(p), NEW s \in Names,
           NEW m \in [Names -> 0 .. Len(segs')], NEW f \in 0 .. Len(segs'),
           NEW e \in BOOLEAN, NEW n \in 0 .. MaxNodes,
           Moves(p, l, s, m, f, e, n), PlacedAt(p)'
    PROVE  BaseInv'
<1>1. TypeOK /\ Lands(p, l, s, m, f, e, n)
  BY MovesLands DEF BaseInv
<1>2. 0 .. Len(segs) \subseteq 0 .. Len(segs')
  BY SeqFacts DEF Common
<1>3. l \in Labels
  BY DEF LabelsOf, Labels, Steady, Creating, Procs
<1>4. map' \in [Procs -> [Names -> 0 .. Len(segs')]]
  <2>1. \A q \in Procs : map[q] \in [Names -> 0 .. Len(segs)]
    BY <1>1 DEF TypeOK
  <2>2. \A q \in Procs : map[q] \in [Names -> 0 .. Len(segs')]
    BY <1>2, <2>1
  <2> QED
    BY <1>1, <2>2 DEF TypeOK, Moves
<1>5. fd' \in [Procs -> 0 .. Len(segs')]
  BY <1>1, <1>2 DEF TypeOK, Moves
<1>6. pc' \in [Procs -> Labels] /\ seg' \in [Procs -> Names] /\ nodes' \in [Procs -> 0 .. MaxNodes]
  BY <1>1, <1>3 DEF TypeOK, Moves
<1>7. exists' \in [Procs -> BOOLEAN]
  BY <1>1 DEF TypeOK, Moves
<1>8. ASSUME NEW q \in Procs PROVE PlacedAt(q)'
  <2>1. CASE q = p
    BY <2>1
  <2>2. CASE q # p
    <3>1. PlacedAt(q)
      BY DEF BaseInv
    <3> QED
      BY <1>1, <2>2, <3>1 DEF Lands, OthersStay, PlacedAt, Has
  <2> QED
    BY <2>1, <2>2
<1>9. \A q \in Procs : pc'[q] \in {"up", "wait"} => \A x \in Names : map'[q][x] # 0
  BY <1>8 DEF PlacedAt, Has, Mapping
<1> QED
  BY <1>4, <1>5, <1>6, <1>7, <1>8, <1>9 DEF BaseInv, TypeOK, Common

\* The end of a process.
LEMMA GoneBase ==
    ASSUME BaseInv, Common, NEW p \in Procs, Gone(p)
    PROVE  BaseInv' /\ Lands(p, "down", "meta", NoMap, 0, FALSE, 0)
<1>1. Moves(p, "down", "meta", NoMap, 0, FALSE, 0)
  BY DEF Gone, Goto, Moves
<1>2. Lands(p, "down", "meta", NoMap, 0, FALSE, 0)
  BY <1>1, MovesLands
<1>3. PlacedAt(p)'
  BY <1>2 DEF Lands, PlacedAt, LabelsOf, Procs, Steady, Creating, Has, Mapping, Halfway
<1>4. NoMap \in [Names -> 0 .. Len(segs')] /\ 0 \in 0 .. Len(segs') /\ 0 \in 0 .. MaxNodes
  BY MaxNodesFacts DEF Common, NoMap
<1>5. "down" \in LabelsOf(p) /\ "meta" \in Names
  BY DEF LabelsOf, Procs, Steady, Names
<1> QED
  BY <1>1, <1>2, <1>3, <1>4, <1>5, BaseMoves

\* Most steps leave names, segments and history as they are.
LEMMA CommonKept ==
    ASSUME BaseInv, UNCHANGED <<named, retried, overlap, at, rough, starts>>,
           segs' \in Seq(Segment), Len(segs') = Len(segs), faults' \in 0 .. MaxFaults
    PROVE  Common
<1>1. TypeOK /\ Len(segs) \in Nat
  BY SeqFacts DEF BaseInv, TypeOK
<1> QED
  BY <1>1 DEF Common, TypeOK

\* A process that aborts is down, with nothing mapped.
LEMMA AbortBase ==
    ASSUME BaseInv, NEW p \in Procs, Abort(p), faults' \in 0 .. MaxFaults
    PROVE  BaseInv' /\ Lands(p, "down", "meta", NoMap, 0, FALSE, 0)
<1>1. TypeOK /\ Len(segs) \in Nat /\ segs' = segs /\ named' = named
      /\ starts' = starts /\ overlap' = overlap
  BY SeqFacts DEF BaseInv, TypeOK, Abort
<1>2. rough' \in {"clean", "rough", "torn"}
  BY <1>1 DEF Abort, TypeOK
<1>3. retried' \in BOOLEAN /\ at' \in 0 .. MaxNodes
  BY <1>1, MaxNodesFacts DEF Abort, Gone, TypeOK
<1>4. Common
  BY <1>1, <1>2, <1>3 DEF Common, TypeOK
<1> QED
  BY <1>4, GoneBase DEF Abort

\* shm_open() makes a segment.
LEMMA OpenNewBase ==
    ASSUME BaseInv, NEW p \in Procs, NEW s \in Names, OpenExcl(p, s), named[s] = 0,
           faults' \in 0 .. MaxFaults
    PROVE  /\ BaseInv'
           /\ Lands(p, "truncate", s, map[p], Len(segs) + 1, FALSE, nodes[p])
<1>1. TypeOK /\ Len(segs) \in Nat /\ pc[p] = "open" /\ seg[p] = s /\ PlacedAt(p)
  BY SeqFacts DEF BaseInv, TypeOK, OpenExcl, Inside
<1>2. Moves(p, "truncate", s, map[p], Len(segs) + 1, FALSE, nodes[p])
  BY <1>1 DEF Moves, OpenExcl, Goto, TypeOK
<1>3. Lands(p, "truncate", s, map[p], Len(segs) + 1, FALSE, nodes[p])
  BY <1>2, MovesLands
<1>4. segs' \in Seq(Segment) /\ Len(segs') = Len(segs) + 1
  BY <1>1, AppendSegment DEF OpenExcl, TypeOK
<1>5. named' \in [Names -> 0 .. Len(segs')]
  BY <1>1, <1>4 DEF OpenExcl, TypeOK
<1>6. Common
  BY <1>1, <1>4, <1>5 DEF Common, TypeOK, OpenExcl, history
<1>7. map[p] \in [Names -> 0 .. Len(segs)] /\ nodes[p] \in 0 .. MaxNodes
  BY <1>1 DEF TypeOK
<1>8. map[p] \in [Names -> 0 .. Len(segs')] /\ Len(segs) + 1 \in 0 .. Len(segs')
  BY <1>1, <1>4, <1>7
<1>9. PlacedAt(p)'
  BY <1>1, <1>3 DEF Lands, PlacedAt, LabelsOf, Procs, Creating, Has, Mapping, Halfway
<1>10. "truncate" \in LabelsOf(p)
  BY DEF LabelsOf, Procs, Creating
<1> QED
  BY <1>2, <1>3, <1>6, <1>7, <1>8, <1>9, <1>10, BaseMoves

\* A step that writes at most to the segments, and goes to another label.
LEMMA StepBase ==
    ASSUME BaseInv, NEW p \in Procs, NEW l \in LabelsOf(p), NEW s \in Names,
           NEW f \in 0 .. Len(segs), NEW e \in BOOLEAN, NEW n \in 0 .. MaxNodes,
           Moves(p, l, s, map[p], f, e, n), Common, Len(segs') = Len(segs), PlacedAt(p)'
    PROVE  BaseInv'
<1>1. map[p] \in [Names -> 0 .. Len(segs')] /\ f \in 0 .. Len(segs')
  BY DEF BaseInv, TypeOK
<1> QED
  BY <1>1, BaseMoves

\* shm_open() with O_EXCL finds a segment of that name.
LEMMA OpenOldBase ==
    ASSUME BaseInv, NEW p \in Procs, NEW s \in Names, OpenExcl(p, s), named[s] # 0,
           faults' \in 0 .. MaxFaults
    PROVE  BaseInv' /\ Lands(p, "reopen", s, map[p], 0, TRUE, nodes[p])
<1>1. /\ TypeOK /\ Len(segs) \in Nat /\ pc[p] = "open" /\ seg[p] = s /\ PlacedAt(p)
      /\ UNCHANGED <<segs, named>>
  BY SeqFacts DEF BaseInv, TypeOK, OpenExcl, Inside
<1>2. fd[p] = 0
  BY <1>1 DEF PlacedAt
<1>3. Moves(p, "reopen", s, map[p], 0, TRUE, nodes[p])
  BY <1>1, <1>2 DEF Moves, OpenExcl, Goto, TypeOK
<1>4. Lands(p, "reopen", s, map[p], 0, TRUE, nodes[p])
  BY <1>3, MovesLands
<1>5. Common
  BY <1>1, CommonKept DEF OpenExcl, history, TypeOK
<1>6. nodes[p] \in 0 .. MaxNodes /\ 0 \in 0 .. Len(segs)
  BY <1>1 DEF TypeOK
<1>7. PlacedAt(p)'
  BY <1>1, <1>4 DEF Lands, PlacedAt, LabelsOf, Procs, Creating, Has, Mapping, Halfway
<1>8. "reopen" \in LabelsOf(p)
  BY DEF LabelsOf, Procs, Creating
<1> QED
  BY <1>1, <1>3, <1>4, <1>5, <1>6, <1>7, <1>8, StepBase

\* shm_open() without O_EXCL opens what bears the name now.
LEMMA ReopenBase ==
    ASSUME BaseInv, NEW p \in Procs, NEW s \in Names, Reopen(p, s), faults' \in 0 .. MaxFaults
    PROVE  BaseInv' /\ Lands(p, "map", s, map[p], named[s], TRUE, nodes[p])
<1>1. /\ TypeOK /\ Len(segs) \in Nat /\ pc[p] = "reopen" /\ seg[p] = s /\ PlacedAt(p)
      /\ UNCHANGED <<segs, named>> /\ named[s] # 0
  BY SeqFacts DEF BaseInv, TypeOK, Reopen, Inside
<1>2. exists[p] = TRUE
  BY <1>1 DEF PlacedAt, TypeOK
<1>3. Moves(p, "map", s, map[p], named[s], TRUE, nodes[p])
  BY <1>1, <1>2 DEF Moves, Reopen, Goto, TypeOK
<1>4. Lands(p, "map", s, map[p], named[s], TRUE, nodes[p])
  BY <1>3, MovesLands
<1>5. Common
  BY <1>1, CommonKept DEF Reopen, history, TypeOK
<1>6. nodes[p] \in 0 .. MaxNodes /\ named[s] \in 0 .. Len(segs) /\ "map" \in LabelsOf(p)
  BY <1>1 DEF TypeOK, LabelsOf, Procs, Creating
<1>7. PlacedAt(p)'
  BY <1>1, <1>4 DEF Lands, PlacedAt, LabelsOf, Procs, Creating, Has, Mapping, Halfway
<1> QED
  BY <1>1, <1>3, <1>4, <1>5, <1>6, <1>7, StepBase

\* The size that ftruncate() gives a segment.
LEMMA BlockSizeType ==
    ASSUME BaseInv, NEW p \in Procs, NEW s \in Names PROVE BlockSize(p, s) \in 0 .. MaxNodes
  BY MaxNodesFacts DEF BaseInv, TypeOK, BlockSize

\* ftruncate() sets the size of the segment just made.
LEMMA TruncateBase ==
    ASSUME BaseInv, NEW p \in Procs, NEW s \in Names, Truncate(p, s), faults' \in 0 .. MaxFaults
    PROVE  /\ BaseInv' /\ Lands(p, "map", s, map[p], fd[p], FALSE, nodes[p])
           /\ fd[p] \in 1 .. Len(segs)
<1>1. /\ TypeOK /\ Len(segs) \in Nat /\ pc[p] = "truncate" /\ seg[p] = s /\ PlacedAt(p)
      /\ UNCHANGED named
  BY SeqFacts DEF BaseInv, TypeOK, Truncate, Inside
<1>2. exists[p] = FALSE /\ fd[p] # 0 /\ fd[p] \in 0 .. Len(segs)
  BY <1>1 DEF PlacedAt, TypeOK
<1>3. Moves(p, "map", s, map[p], fd[p], FALSE, nodes[p])
  BY <1>1, <1>2 DEF Moves, Truncate, Goto, TypeOK
<1>4. Lands(p, "map", s, map[p], fd[p], FALSE, nodes[p])
  BY <1>3, MovesLands
<1>5. fd[p] \in 1 .. Len(segs)
  BY <1>1, <1>2
<1>6. segs' \in Seq(Segment) /\ Len(segs') = Len(segs)
  <2>1. segs \in Seq(Segment) /\ BlockSize(p, s) \in 0 .. MaxNodes
        /\ segs' = [segs EXCEPT ![fd[p]].size = BlockSize(p, s)]
    BY <1>1, BlockSizeType DEF TypeOK, Truncate
  <2> QED
    BY <1>5, <2>1, SizeWrite
<1>7. Common
  BY <1>1, <1>6, CommonKept DEF Truncate, history
<1>8. nodes[p] \in 0 .. MaxNodes /\ "map" \in LabelsOf(p)
  BY <1>1 DEF TypeOK, LabelsOf, Procs, Creating
<1>9. PlacedAt(p)'
  BY <1>1, <1>2, <1>4 DEF Lands, PlacedAt, LabelsOf, Procs, Creating, Has, Mapping, Halfway
<1> QED
  BY <1>1, <1>2, <1>3, <1>4, <1>5, <1>6, <1>7, <1>8, <1>9, StepBase

\* A step that goes to a label outside memOps_Create() and maps nothing.
LEMMA HopBase ==
    ASSUME BaseInv, NEW p \in Procs, NEW l \in LabelsOf(p),
           l \notin {"truncate", "map", "init", "reopen"}, fd[p] = 0,
           pc' = [pc EXCEPT ![p] = l], UNCHANGED <<seg, map, fd, exists, nodes>>,
           Common, Len(segs') = Len(segs), \A s \in Names : Has(p, s)' => Has(p, s)
    PROVE  BaseInv' /\ Lands(p, l, seg[p], map[p], 0, exists[p], nodes[p])
<1>1. TypeOK /\ Len(segs) \in Nat /\ PlacedAt(p)
  BY SeqFacts DEF BaseInv, TypeOK
<1>2. Moves(p, l, seg[p], map[p], 0, exists[p], nodes[p])
  BY <1>1 DEF Moves, TypeOK
<1>3. Lands(p, l, seg[p], map[p], 0, exists[p], nodes[p])
  BY <1>2, MovesLands
<1>4. seg[p] \in Names /\ exists[p] \in BOOLEAN /\ nodes[p] \in 0 .. MaxNodes
  BY <1>1 DEF TypeOK
<1>5. 0 \in 0 .. Len(segs)
  BY <1>1
<1>6. PlacedAt(p)'
  BY <1>1, <1>3 DEF Lands, PlacedAt
<1> QED
  BY <1>2, <1>3, <1>4, <1>5, <1>6, StepBase

\* The server calls getMemList() again; or it has no metanode.
LEMMA RetryBase ==
    ASSUME BaseInv, NEW s \in Names, CreateFails("server", s), s = "list", ~retried,
           pc["server"] \in Creating, seg["server"] = "list", faults' \in 0 .. MaxFaults
    PROVE  /\ BaseInv' /\ UNCHANGED <<named, segs, history>> /\ retried'
           /\ Lands("server", "open", "list", map["server"], 0, exists["server"], NUMSEGMENTS)
<1> DEFINE p == "server"
<1>1. TypeOK /\ Len(segs) \in Nat /\ PlacedAt(p) /\ p \in Procs
  BY SeqFacts DEF BaseInv, TypeOK, Procs
<1>2. /\ nodes' = [nodes EXCEPT ![p] = NUMSEGMENTS] /\ retried' = TRUE
      /\ fd' = [fd EXCEPT ![p] = 0] /\ Call(p, "list")
      /\ UNCHANGED <<named, segs, map, exists, at, history>>
  BY DEF CreateFails
<1>3. Moves(p, "open", "list", map[p], 0, exists[p], NUMSEGMENTS)
  BY <1>1, <1>2 DEF Moves, Call, Goto, TypeOK
<1>4. Lands(p, "open", "list", map[p], 0, exists[p], NUMSEGMENTS)
  BY <1>1, <1>3, MovesLands
<1>5. Common
  BY <1>1, <1>2 DEF Common, TypeOK, history
<1>6. exists[p] \in BOOLEAN /\ "list" \in Names
  BY <1>1 DEF TypeOK, Names
<1>7. NUMSEGMENTS \in 0 .. MaxNodes /\ 0 \in 0 .. Len(segs)
  BY <1>1, MaxNodesFacts
<1>8. "open" \in LabelsOf(p)
  BY DEF LabelsOf, Creating
<1>9. PlacedAt(p)'
  BY <1>1, <1>4 DEF Lands, PlacedAt, LabelsOf, Creating, Has, Mapping, Halfway, FirstOf
<1> QED
  BY <1>1, <1>2, <1>3, <1>4, <1>5, <1>6, <1>7, <1>8, <1>9, StepBase

\* The server cannot make a metanode and gives up.
LEMMA NoMetaBase ==
    ASSUME BaseInv, NEW s \in Names, CreateFails("server", s), s = "meta",
           pc["server"] \in Creating, seg["server"] = "meta", faults' \in 0 .. MaxFaults
    PROVE  /\ BaseInv' /\ UNCHANGED <<named, segs, retried, history>>
           /\ Lands("server", "giveUp", "meta", map["server"], 0, exists["server"], nodes["server"])
<1> DEFINE p == "server"
<1>1. TypeOK /\ Len(segs) \in Nat /\ PlacedAt(p) /\ p \in Procs
  BY SeqFacts DEF BaseInv, TypeOK, Procs
<1>2. /\ fd' = [fd EXCEPT ![p] = 0] /\ Goto(p, "giveUp")
      /\ UNCHANGED <<named, segs, seg, map, exists, nodes, retried, at, history>>
  BY DEF CreateFails
<1>3. Moves(p, "giveUp", "meta", map[p], 0, exists[p], nodes[p])
  BY <1>1, <1>2 DEF Moves, Goto, TypeOK
<1>4. Lands(p, "giveUp", "meta", map[p], 0, exists[p], nodes[p])
  BY <1>1, <1>3, MovesLands
<1>5. Common
  BY <1>1, <1>2 DEF Common, TypeOK, history
<1>6. exists[p] \in BOOLEAN /\ "meta" \in Names
  BY <1>1 DEF TypeOK, Names
<1>7. nodes[p] \in 0 .. MaxNodes /\ 0 \in 0 .. Len(segs)
  BY <1>1 DEF TypeOK
<1>8. "giveUp" \in LabelsOf(p)
  BY DEF LabelsOf
<1>9. PlacedAt(p)'
  BY <1>1, <1>4 DEF Lands, PlacedAt, LabelsOf, Creating, Has, Mapping, Halfway, FirstOf
<1> QED
  BY <1>1, <1>2, <1>3, <1>4, <1>5, <1>6, <1>7, <1>8, <1>9, StepBase

\* Where the caller goes on once memOps_Create() has returned a segment.
After(p, s) ==
    CASE p = "server" /\ s = "list" -> "open"
      [] p = "server" /\ s = "meta" -> "setServerFlag"
      [] p = "proxy" /\ s = "meta"  -> "readFlag"
      [] p = "proxy" /\ s = "list"  -> "setProxyFlag"
      [] p = "delete" /\ s = "meta" -> "readNum"
      [] p = "delete" /\ s = "list" -> "destroyList"
\* The segment it works on then.
NextSeg(p, s) == IF p = "server" /\ s = "list" THEN "meta" ELSE s

\* memOps_Create() returns to a place in the code of p.
LEMMA ReturnStep ==
    ASSUME BaseInv, NEW p \in Procs, NEW s \in Names, seg[p] = s, Return(p, s)
    PROVE  /\ pc' = [pc EXCEPT ![p] = After(p, s)]
           /\ seg' = [seg EXCEPT ![p] = NextSeg(p, s)]
           /\ After(p, s) \in LabelsOf(p) /\ NextSeg(p, s) \in Names
           /\ After(p, s) \notin {"truncate", "map", "init", "reopen"}
<1>1. pc' = [pc EXCEPT ![p] = After(p, s)] /\ seg' = [seg EXCEPT ![p] = NextSeg(p, s)]
  BY DEF BaseInv, TypeOK, Return, After, NextSeg, Call, Goto, Procs, Names
<1>2. /\ After(p, s) \in LabelsOf(p) /\ NextSeg(p, s) \in Names
      /\ After(p, s) \notin {"truncate", "map", "init", "reopen"}
  BY DEF After, NextSeg, LabelsOf, Procs, Names, Creating, Steady
<1> QED
  BY <1>1, <1>2

\* mmap(): the segment is mapped, and returned or initialized.
LEMMA MapBase ==
    ASSUME BaseInv, NEW p \in Procs, NEW s \in Names, Map(p, s), faults' \in 0 .. MaxFaults
    PROVE  /\ BaseInv' /\ UNCHANGED <<named, segs>> /\ fd[p] \in 1 .. Len(segs)
           /\ LET m == [map[p] EXCEPT ![s] = fd[p]]
              IN  IF exists[p] THEN Lands(p, After(p, s), NextSeg(p, s), m, 0, TRUE, nodes[p])
                               ELSE Lands(p, "init", s, m, 0, FALSE, nodes[p])
<1> DEFINE m == [map[p] EXCEPT ![s] = fd[p]]
           l == IF exists[p] THEN After(p, s) ELSE "init"
           t == IF exists[p] THEN NextSeg(p, s) ELSE s
<1>1. /\ TypeOK /\ Len(segs) \in Nat /\ pc[p] = "map" /\ seg[p] = s /\ PlacedAt(p)
      /\ UNCHANGED <<segs, named>>
  BY SeqFacts DEF BaseInv, TypeOK, Map, Inside
<1>2. fd[p] # 0 /\ fd[p] \in 0 .. Len(segs) /\ fd[p] \in 1 .. Len(segs)
  BY <1>1 DEF PlacedAt, TypeOK
<1>3. m \in [Names -> 0 .. Len(segs)] /\ m[s] = fd[p] /\ \A x \in Names : x # s => m[x] = map[p][x]
  BY <1>1, <1>2 DEF TypeOK
<1>4. /\ pc' = [pc EXCEPT ![p] = l] /\ seg' = [seg EXCEPT ![p] = t]
      /\ l \in LabelsOf(p) /\ t \in Names /\ l \notin {"truncate", "map", "reopen"}
      /\ l = "init" => ~exists[p]
  <2>1. CASE exists[p]
    BY <1>1, <2>1, ReturnStep DEF Map
  <2>2. CASE ~exists[p]
    <3>1. pc' = [pc EXCEPT ![p] = "init"] /\ seg' = seg /\ l = "init" /\ t = s
      BY <2>2 DEF Map, Goto
    <3>2. seg' = [seg EXCEPT ![p] = s]
      BY <1>1, <3>1 DEF TypeOK
    <3>3. "init" \in LabelsOf(p)
      BY DEF LabelsOf, Procs, Creating
    <3> QED
      BY <2>2, <3>1, <3>2, <3>3
  <2> QED
    BY <2>1, <2>2
<1>5. map' = [map EXCEPT ![p] = m] /\ fd' = [fd EXCEPT ![p] = 0] /\ UNCHANGED <<exists, nodes>>
  BY DEF Map
<1>6. (IF exists[p] THEN l = After(p, s) /\ t = NextSeg(p, s) ELSE l = "init" /\ t = s)
  OBVIOUS
<1>7. /\ l = "open" => p = "server" /\ s = "list" /\ t = "meta"
      /\ l \in Halfway => s = FirstOf(p)
      /\ l \in Mapping => s # FirstOf(p)
      /\ l = "init" => t = s
  BY <1>6 DEF After, NextSeg, Procs, Names, Halfway, Mapping, FirstOf
<1> HIDE DEF m, l, t
<1>8. Moves(p, l, t, m, 0, exists[p], nodes[p])
  BY <1>1, <1>4, <1>5 DEF Moves, TypeOK
<1>9. Lands(p, l, t, m, 0, exists[p], nodes[p])
  BY <1>8, MovesLands
<1>10. Common
  BY <1>1, CommonKept DEF Map, history, TypeOK
<1>11. PlacedAt(p)'
  <2>1. \A x \in Names : Has(p, x) => map[p][x] # 0
    BY <1>1 DEF PlacedAt
  <2>2. \A x \in Names : Has(p, x)' => (x = s \/ Has(p, x))
    BY <1>1, <1>4, <1>7, <1>9 DEF Lands, Has, Names, FirstOf, Creating, Mapping, Halfway
  <2>3. \A x \in Names : Has(p, x)' => map'[p][x] # 0
    BY <1>2, <1>3, <1>9, <2>1, <2>2 DEF Lands
  <2> QED
    BY <1>4, <1>9, <2>3 DEF Lands, PlacedAt
<1>12. exists[p] \in BOOLEAN /\ nodes[p] \in 0 .. MaxNodes
  BY <1>1 DEF TypeOK
<1>13. 0 \in 0 .. Len(segs') /\ m \in [Names -> 0 .. Len(segs')]
  BY <1>1, <1>3
<1>14. BaseInv'
  BY <1>4, <1>8, <1>10, <1>11, <1>12, <1>13, BaseMoves
<1>15. (IF exists[p] THEN Lands(p, After(p, s), NextSeg(p, s), m, 0, TRUE, nodes[p])
                     ELSE Lands(p, "init", s, m, 0, FALSE, nodes[p]))
  BY <1>6, <1>9, <1>12
<1> QED
  BY <1>1, <1>2, <1>14, <1>15 DEF m

\* The new segment is initialized and returned.
LEMMA InitSegmentBase ==
    ASSUME BaseInv, NEW p \in Procs, NEW s \in Names, InitSegment(p, s), faults' \in 0 .. MaxFaults
    PROVE  /\ BaseInv' /\ UNCHANGED named /\ map[p][s] \in 1 .. Len(segs)
           /\ Lands(p, After(p, s), NextSeg(p, s), map[p], 0, FALSE, nodes[p])
<1> DEFINE l == After(p, s)
           t == NextSeg(p, s)
<1>1. /\ TypeOK /\ Len(segs) \in Nat /\ pc[p] = "init" /\ seg[p] = s /\ PlacedAt(p)
      /\ UNCHANGED named
  BY SeqFacts DEF BaseInv, TypeOK, InitSegment, Inside
<1>2. /\ pc' = [pc EXCEPT ![p] = l] /\ seg' = [seg EXCEPT ![p] = t]
      /\ l \in LabelsOf(p) /\ t \in Names
      /\ l \notin {"truncate", "map", "init", "reopen"}
  BY <1>1, ReturnStep DEF InitSegment
<1>3. /\ l = "open" => p = "server" /\ s = "list" /\ t = "meta"
      /\ l \in Halfway => s = FirstOf(p)
      /\ l \in Mapping => s # FirstOf(p)
  BY DEF After, NextSeg, Procs, Names, Halfway, Mapping, FirstOf
<1> HIDE DEF l, t
<1>4. exists[p] = FALSE /\ fd[p] = 0
  BY <1>1 DEF PlacedAt, TypeOK
<1>5. Moves(p, l, t, map[p], 0, FALSE, nodes[p])
  BY <1>1, <1>2, <1>4 DEF Moves, TypeOK, InitSegment
<1>6. Lands(p, l, t, map[p], 0, FALSE, nodes[p])
  BY <1>5, MovesLands
<1>7. map[p][s] # 0
  BY <1>1 DEF PlacedAt, Has
<1>8. map[p][s] \in 0 .. Len(segs) /\ map[p][s] \in 1 .. Len(segs)
  BY <1>1, <1>7 DEF TypeOK
<1>9. segs' \in Seq(Segment) /\ Len(segs') = Len(segs)
  <2>1. segs' = [segs EXCEPT ![map[p][s]] = [NewSegment EXCEPT !.size = segs[map[p][s]].size]]
    BY DEF InitSegment
  <2> QED
    BY <1>1, <1>8, <2>1, RenewSegment DEF TypeOK
<1>10. Common
  BY <1>1, <1>9, CommonKept DEF InitSegment, history
<1>11. PlacedAt(p)'
  <2>1. \A x \in Names : Has(p, x) => map[p][x] # 0
    BY <1>1 DEF PlacedAt
  <2>2. \A x \in Names : Has(p, x)' => Has(p, x)
    BY <1>1, <1>2, <1>3, <1>6 DEF Lands, Has, Names, FirstOf, Creating, Mapping, Halfway
  <2> QED
    BY <1>2, <1>6, <2>1, <2>2 DEF Lands, PlacedAt
<1>12. nodes[p] \in 0 .. MaxNodes /\ 0 \in 0 .. Len(segs)
  BY <1>1 DEF TypeOK
<1>13. BaseInv'
  BY <1>2, <1>5, <1>9, <1>10, <1>11, <1>12, StepBase
<1> QED
  BY <1>1, <1>6, <1>8, <1>13 DEF l, t

\* A process past memOps_Create() has its metanode; one that is up, and more,
\* has its list as well.
LEMMA Mapped2 ==
    ASSUME BaseInv, NEW p \in Procs
    PROVE  /\ pc[p] \notin {"truncate", "map"} => fd[p] = 0
           /\ pc[p] \in Mapping => \A s \in Names : map[p][s] \in 1 .. Len(segs)
           /\ pc[p] \in Halfway \/ (pc[p] \in Creating /\ seg[p] # FirstOf(p)) =>
                map[p][FirstOf(p)] \in 1 .. Len(segs)
           /\ pc[p] \in {"truncate", "map"} => fd[p] \in 1 .. Len(segs)
           /\ pc[p] = "init" => map[p][seg[p]] \in 1 .. Len(segs)
<1>1. TypeOK /\ PlacedAt(p) /\ Len(segs) \in Nat
  BY SeqFacts DEF BaseInv, TypeOK
<1>2. \A s \in Names : map[p][s] \in 0 .. Len(segs)
  BY <1>1 DEF TypeOK
<1>3. \A s \in Names : Has(p, s) => map[p][s] \in 1 .. Len(segs)
  BY <1>1, <1>2 DEF PlacedAt
<1>4. fd[p] \in 0 .. Len(segs) /\ (fd[p] # 0 => fd[p] \in 1 .. Len(segs))
  BY <1>1 DEF TypeOK
<1>5. FirstOf(p) \in Names /\ seg[p] \in Names
  BY <1>1 DEF FirstOf, Names, TypeOK
<1> QED
  BY <1>1, <1>3, <1>4, <1>5 DEF PlacedAt, Has

\* The steps of the two programs that read or write the metanode.
LEMMA SetServerFlagBase ==
    ASSUME BaseInv, SetServerFlag, faults' \in 0 .. MaxFaults
    PROVE  /\ BaseInv' /\ map["server"]["meta"] \in 1 .. Len(segs)
           /\ Lands("server", "setNum", seg["server"], map["server"], 0, exists["server"], nodes["server"])
<1> DEFINE p == "server"
<1>1. TypeOK /\ pc[p] = "setServerFlag" /\ p \in Procs /\ "meta" \in Names
  BY DEF BaseInv, SetServerFlag, Access, Procs, Names
<1>2. map[p]["meta"] \in 1 .. Len(segs) /\ fd[p] = 0
  BY <1>1, Mapped2 DEF Mapping
<1>3. segs' \in Seq(Segment) /\ Len(segs') = Len(segs)
  BY <1>1, <1>2, ServerFlagWrite DEF TypeOK, SetServerFlag
<1>4. Common
  BY <1>3, CommonKept DEF SetServerFlag, MetaStep, history
<1>5. "setNum" \in LabelsOf(p)
  BY DEF LabelsOf
<1>6. /\ pc' = [pc EXCEPT ![p] = "setNum"] /\ UNCHANGED <<seg, map, fd, exists, nodes>>
      /\ pc'[p] = "setNum"
  BY <1>1 DEF SetServerFlag, MetaStep, Goto, TypeOK
<1>7. \A s \in Names : Has(p, s)' => Has(p, s)
  BY <1>1, <1>6 DEF Has, Mapping
<1> QED
  BY <1>1, <1>2, <1>3, <1>4, <1>5, <1>6, <1>7, HopBase

\* The server writes the number of nodes.
LEMMA SetNumBase ==
    ASSUME BaseInv, SetNum, faults' \in 0 .. MaxFaults
    PROVE  /\ BaseInv' /\ map["server"]["meta"] \in 1 .. Len(segs)
           /\ Lands("server", "bind", seg["server"], map["server"], 0, exists["server"], nodes["server"])
<1> DEFINE p == "server"
<1>1. TypeOK /\ pc[p] = "setNum" /\ p \in Procs /\ "meta" \in Names
  BY DEF BaseInv, SetNum, Access, Procs, Names
<1>2. map[p]["meta"] \in 1 .. Len(segs) /\ fd[p] = 0
  BY <1>1, Mapped2 DEF Mapping
<1>3. segs' \in Seq(Segment) /\ Len(segs') = Len(segs)
  BY <1>1, <1>2, NumNodesWrite DEF TypeOK, SetNum
<1>4. Common
  BY <1>3, CommonKept DEF SetNum, MetaStep, history
<1>5. "bind" \in LabelsOf(p)
  BY DEF LabelsOf
<1>6. /\ pc' = [pc EXCEPT ![p] = "bind"] /\ UNCHANGED <<seg, map, fd, exists, nodes>>
      /\ pc'[p] = "bind"
  BY <1>1 DEF SetNum, MetaStep, Goto, TypeOK
<1>7. \A s \in Names : Has(p, s)' => Has(p, s)
  BY <1>1, <1>6 DEF Has, Mapping
<1> QED
  BY <1>1, <1>2, <1>3, <1>4, <1>5, <1>6, <1>7, HopBase

\* bind() and listen() succeed.
LEMMA BindBase ==
    ASSUME BaseInv, Bind, faults' \in 0 .. MaxFaults
    PROVE  /\ BaseInv'
           /\ Lands("server", "up", seg["server"], map["server"], 0, exists["server"], nodes["server"])
<1> DEFINE p == "server"
<1>1. TypeOK /\ pc[p] = "bind" /\ p \in Procs
  BY DEF BaseInv, Bind, Procs
<1>2. fd[p] = 0
  BY <1>1, Mapped2
<1>3. segs' \in Seq(Segment) /\ Len(segs') = Len(segs)
  BY <1>1 DEF TypeOK, Bind
<1>4. Common
  BY <1>3, CommonKept DEF Bind, MetaStep, history
<1>5. "up" \in LabelsOf(p)
  BY DEF LabelsOf
<1>6. /\ pc' = [pc EXCEPT ![p] = "up"] /\ UNCHANGED <<seg, map, fd, exists, nodes>>
      /\ pc'[p] = "up"
  BY <1>1 DEF Bind, MetaStep, Goto, TypeOK
<1>7. \A s \in Names : Has(p, s)' => Has(p, s)
  BY <1>1, <1>6 DEF Has, Mapping
<1> QED
  BY <1>1, <1>2, <1>3, <1>4, <1>5, <1>6, <1>7, HopBase

\* The proxy reads serverFlag.
LEMMA ReadFlagBase ==
    ASSUME BaseInv, ReadFlag, faults' \in 0 .. MaxFaults
    PROVE  /\ BaseInv'
           /\ Lands("proxy", IF Offline(map["proxy"]["meta"]) THEN "setDefault" ELSE "readNum",
                    seg["proxy"], map["proxy"], 0, exists["proxy"], nodes["proxy"])
<1> DEFINE p == "proxy"
           l == IF Offline(map["proxy"]["meta"]) THEN "setDefault" ELSE "readNum"
<1>1. TypeOK /\ pc[p] = "readFlag" /\ p \in Procs
  BY DEF BaseInv, ReadFlag, Access, Procs
<1>2. fd[p] = 0
  BY <1>1, Mapped2
<1>3. segs' \in Seq(Segment) /\ Len(segs') = Len(segs)
  BY <1>1 DEF TypeOK, ReadFlag
<1>4. Common
  BY <1>3, CommonKept DEF ReadFlag, MetaStep, history
<1>5. l \in LabelsOf(p) /\ l \in {"setDefault", "readNum"}
  BY DEF LabelsOf
<1>6. pc' = [pc EXCEPT ![p] = l] /\ UNCHANGED <<seg, map, fd, exists, nodes>>
  BY DEF ReadFlag, MetaStep, Goto, Offline, Meta
<1> HIDE DEF l
<1>7. pc'[p] = l
  BY <1>1, <1>6 DEF TypeOK
<1>8. \A s \in Names : Has(p, s)' => Has(p, s)
  BY <1>1, <1>5, <1>6, <1>7 DEF Has, Mapping, Halfway, Creating
<1>9. Lands(p, l, seg[p], map[p], 0, exists[p], nodes[p]) /\ BaseInv'
  BY <1>1, <1>2, <1>3, <1>4, <1>5, <1>6, <1>8, HopBase
<1> QED
  BY <1>9 DEF l

\* The proxy writes the default number of nodes.
LEMMA SetDefaultBase ==
    ASSUME BaseInv, SetDefault, faults' \in 0 .. MaxFaults
    PROVE  /\ BaseInv' /\ map["proxy"]["meta"] \in 1 .. Len(segs)
           /\ Lands("proxy", "readNum", seg["proxy"], map["proxy"], 0, exists["proxy"], nodes["proxy"])
<1> DEFINE p == "proxy"
<1>1. TypeOK /\ pc[p] = "setDefault" /\ p \in Procs /\ FirstOf(p) = "meta"
  BY DEF BaseInv, SetDefault, Access, Procs, FirstOf
<1>2. map[p]["meta"] \in 1 .. Len(segs) /\ fd[p] = 0
  BY <1>1, Mapped2 DEF Halfway
<1>3. segs' \in Seq(Segment) /\ Len(segs') = Len(segs)
  <2>1. NUMSEGMENTS \in 0 .. MaxNodes
    BY MaxNodesFacts
  <2> QED
    BY <1>1, <1>2, <2>1, NumNodesWrite DEF TypeOK, SetDefault
<1>4. Common
  BY <1>3, CommonKept DEF SetDefault, MetaStep, history
<1>5. "readNum" \in LabelsOf(p)
  BY DEF LabelsOf
<1>6. /\ pc' = [pc EXCEPT ![p] = "readNum"] /\ UNCHANGED <<seg, map, fd, exists, nodes>>
      /\ pc'[p] = "readNum"
  BY <1>1 DEF SetDefault, MetaStep, Goto, TypeOK
<1>7. \A s \in Names : Has(p, s)' => Has(p, s)
  BY <1>1, <1>6 DEF Has, Mapping, Halfway, Creating
<1> QED
  BY <1>1, <1>2, <1>3, <1>4, <1>5, <1>6, <1>7, HopBase

\* The proxy writes proxyFlag.
LEMMA SetProxyFlagBase ==
    ASSUME BaseInv, SetProxyFlag, faults' \in 0 .. MaxFaults
    PROVE  /\ BaseInv' /\ map["proxy"]["meta"] \in 1 .. Len(segs)
           /\ Lands("proxy", "up", seg["proxy"], map["proxy"], 0, exists["proxy"], nodes["proxy"])
<1> DEFINE p == "proxy"
<1>1. TypeOK /\ pc[p] = "setProxyFlag" /\ p \in Procs /\ "meta" \in Names
  BY DEF BaseInv, SetProxyFlag, Access, Procs, Names
<1>2. map[p]["meta"] \in 1 .. Len(segs) /\ fd[p] = 0
  BY <1>1, Mapped2 DEF Mapping
<1>3. segs' \in Seq(Segment) /\ Len(segs') = Len(segs)
  BY <1>1, <1>2, ProxyFlagWrite DEF TypeOK, SetProxyFlag
<1>4. Common
  BY <1>3, CommonKept DEF SetProxyFlag, MetaStep, history
<1>5. "up" \in LabelsOf(p)
  BY DEF LabelsOf, Steady
<1>6. /\ pc' = [pc EXCEPT ![p] = "up"] /\ UNCHANGED <<seg, map, fd, exists, nodes>>
      /\ pc'[p] = "up"
  BY <1>1 DEF SetProxyFlag, MetaStep, Goto, TypeOK
<1>7. \A s \in Names : Has(p, s)' => Has(p, s)
  BY <1>1, <1>6 DEF Has, Mapping, Halfway, Creating
<1> QED
  BY <1>1, <1>2, <1>3, <1>4, <1>5, <1>6, <1>7, HopBase

\* getMemList() is called with the number in the metanode.
LEMMA ReadNumBase ==
    ASSUME BaseInv, NEW p \in Procs, ReadNum(p), ~(p = "delete" /\ Meta(p).numNodes = 0),
           faults' \in 0 .. MaxFaults
    PROVE  /\ BaseInv' /\ UNCHANGED <<named, segs, retried, history>> /\ p # "server"
           /\ map[p]["meta"] \in 1 .. Len(segs)
           /\ Lands(p, "open", "list", map[p], 0, exists[p], Meta(p).numNodes)
<1>1. TypeOK /\ Len(segs) \in Nat /\ pc[p] = "readNum" /\ PlacedAt(p)
  BY SeqFacts DEF BaseInv, TypeOK, ReadNum, Access
<1>2. p # "server" /\ FirstOf(p) = "meta"
  BY <1>1 DEF PlacedAt, LabelsOf, FirstOf, Creating
<1>3. map[p]["meta"] \in 1 .. Len(segs) /\ fd[p] = 0
  BY <1>1, <1>2, Mapped2 DEF Halfway
<1>4. Meta(p).numNodes \in 0 .. MaxNodes
  <2>1. Meta(p) \in Segment
    BY <1>1, <1>3, SeqFacts DEF TypeOK, Meta
  <2> QED
    BY <2>1, FieldTypes
<1>5. /\ nodes' = [nodes EXCEPT ![p] = Meta(p).numNodes] /\ Call(p, "list")
      /\ MetaStep /\ UNCHANGED segs
  BY DEF ReadNum
<1>6. Moves(p, "open", "list", map[p], 0, exists[p], Meta(p).numNodes)
  BY <1>1, <1>3, <1>5 DEF Moves, Call, Goto, MetaStep, TypeOK
<1>7. Lands(p, "open", "list", map[p], 0, exists[p], Meta(p).numNodes)
  BY <1>6, MovesLands
<1>8. Common
  BY <1>1, <1>5, CommonKept DEF MetaStep, history, TypeOK
<1>9. PlacedAt(p)'
  BY <1>1, <1>2, <1>7 DEF Lands, PlacedAt, LabelsOf, Creating, Has, Mapping, Halfway, Procs
<1>10. "open" \in LabelsOf(p) /\ "list" \in Names
  BY DEF LabelsOf, Creating, Procs, Names
<1>11. exists[p] \in BOOLEAN
  BY <1>1 DEF TypeOK
<1>12. 0 \in 0 .. Len(segs)
  BY <1>1
<1>13. BaseInv'
  BY <1>4, <1>5, <1>6, <1>8, <1>9, <1>10, <1>11, <1>12, StepBase
<1> QED
  BY <1>2, <1>3, <1>5, <1>7, <1>13 DEF MetaStep

\* findState() returns a node of the list.
LEMMA FirstType ==
    ASSUME BaseInv, NEW p \in Procs, pc[p] \in Mapping,
           NEW st, Matching(p, st) # {}
    PROVE  First(p, st) \in NodeIds
<1>1. map[p]["meta"] \in 1 .. Len(segs)
  BY Mapped2 DEF Names
<1>2. Meta(p) \in Segment
  BY <1>1, SeqFacts DEF BaseInv, TypeOK, Meta
<1>3. Meta(p).numNodes \in 0 .. MaxNodes
  BY <1>2, FieldTypes
<1> DEFINE M == Matching(p, st)
<1>4. M \subseteq 1 .. Meta(p).numNodes
  BY DEF Matching
<1>5. M \subseteq Nat /\ M \subseteq NodeIds
  BY <1>3, <1>4, MaxNodesFacts DEF NodeIds
<1>6. First(p, st) = CHOOSE n \in M : \A k \in M : n <= k
  BY DEF First
<1> HIDE DEF M
<1>7. M # {}
  BY DEF M
<1>8. \E n \in M : \A k \in M : n <= k
  BY <1>5, <1>7, LeastOne
<1> QED
  BY <1>5, <1>6, <1>8

\* The heads of all segments stay as they are.
SameHeads == \A x \in 1 .. Len(segs) :
    /\ segs'[x].size = segs[x].size /\ segs'[x].numNodes = segs[x].numNodes
    /\ segs'[x].serverFlag = segs[x].serverFlag

\* A step of the exchange changes the state of one node.
LEMMA ExchangeBase ==
    ASSUME BaseInv, NEW p \in {"server", "proxy"}, NEW n, NEW st \in {"IDLE", "POSTED", "ANSWERED"},
           pc[p] \in {"up", "wait"}, NEW l \in LabelsOf(p), l \in {"up", "wait"},
           SetNode(p, n, st), pc' = [pc EXCEPT ![p] = l], at' \in 0 .. MaxNodes,
           Exchange, faults' \in 0 .. MaxFaults
    PROVE  /\ BaseInv' /\ SameHeads /\ Len(segs') = Len(segs)
           /\ UNCHANGED <<named, retried, history>>
           /\ Lands(p, l, seg[p], map[p], 0, exists[p], nodes[p])
<1>1. TypeOK /\ p \in Procs /\ Len(segs) \in Nat
  BY SeqFacts DEF BaseInv, Procs, TypeOK
<1>2. map[p]["list"] \in 1 .. Len(segs) /\ fd[p] = 0
  BY <1>1, Mapped2 DEF Mapping, Names
<1>3. segs' \in Seq(Segment) /\ Len(segs') = Len(segs) /\ SameHeads
  BY <1>1, <1>2, NodeWrite DEF TypeOK, SetNode, SameHeads
<1>4. UNCHANGED <<named, retried, starts, overlap, rough, seg, map, fd, exists, nodes>>
  BY DEF Exchange, history
<1>5. Common
  BY <1>1, <1>3, <1>4 DEF Common, TypeOK
<1>6. pc'[p] = l
  BY <1>1 DEF TypeOK
<1>7. \A s \in Names : Has(p, s)' => Has(p, s)
  BY <1>6 DEF Has, Mapping
<1>8. BaseInv' /\ Lands(p, l, seg[p], map[p], 0, exists[p], nodes[p])
  BY <1>1, <1>2, <1>3, <1>4, <1>5, <1>7, HopBase
<1> QED
  BY <1>3, <1>4, <1>8 DEF history

\* The proxy posts a request in the first idle node.
LEMMA PostBase ==
    ASSUME BaseInv, Post, faults' \in 0 .. MaxFaults
    PROVE  /\ BaseInv' /\ SameHeads /\ Len(segs') = Len(segs)
           /\ UNCHANGED <<named, retried, history>>
           /\ Lands("proxy", "wait", seg["proxy"], map["proxy"], 0, exists["proxy"], nodes["proxy"])
<1>1. First("proxy", "IDLE") \in NodeIds
  BY FirstType DEF Post, Mapping, Procs
<1>2. at' \in 0 .. MaxNodes
  <2>1. at' \in NodeIds
    BY <1>1 DEF Post
  <2> QED
    BY <2>1, MaxNodesFacts DEF NodeIds
<1>3. "wait" \in LabelsOf("proxy")
  BY DEF LabelsOf, Steady
<1> QED
  BY <1>2, <1>3, ExchangeBase DEF Post, Goto

\* The proxy takes its response and frees the node.
LEMMA CollectBase ==
    ASSUME BaseInv, Collect, faults' \in 0 .. MaxFaults
    PROVE  /\ BaseInv' /\ SameHeads /\ Len(segs') = Len(segs)
           /\ UNCHANGED <<named, retried, history>>
           /\ Lands("proxy", "up", seg["proxy"], map["proxy"], 0, exists["proxy"], nodes["proxy"])
<1>1. at' \in 0 .. MaxNodes
  BY MaxNodesFacts DEF Collect
<1>2. "up" \in LabelsOf("proxy")
  BY DEF LabelsOf, Steady
<1> QED
  BY <1>1, <1>2, ExchangeBase DEF Collect, Goto

\* A worker of the server answers.
LEMMA AnswerBase ==
    ASSUME BaseInv, Answer, faults' \in 0 .. MaxFaults
    PROVE  /\ BaseInv' /\ SameHeads /\ Len(segs') = Len(segs)
           /\ UNCHANGED <<named, retried, history>>
           /\ Lands("server", "up", seg["server"], map["server"], 0, exists["server"], nodes["server"])
<1>1. at' \in 0 .. MaxNodes
  BY DEF Answer, BaseInv, TypeOK
<1>2. "up" \in LabelsOf("server")
  BY DEF LabelsOf
<1>3. pc["server"] = "up" /\ pc' = [pc EXCEPT !["server"] = "up"]
  BY DEF Answer, BaseInv, TypeOK, Procs
<1> QED
  BY <1>1, <1>2, <1>3, ExchangeBase DEF Answer

\* A process starts or ends, maybe while another does.
LEMMA BeginType ==
    ASSUME BaseInv, NEW p \in Procs, Begin(p)
    PROVE  /\ overlap' \in BOOLEAN /\ faults' \in 0 .. MaxFaults
           /\ overlap' = (overlap \/ ~Others(p))
<1>1. overlap \in BOOLEAN /\ faults \in 0 .. MaxFaults /\ MaxFaults \in Nat
  BY ShmSetupAssumption DEF BaseInv, TypeOK
<1>2. faults' \in 0 .. MaxFaults
  BY <1>1 DEF Begin
<1> QED
  BY <1>1, <1>2 DEF Begin

\* A process starts, at its first memOps_Create().
LEMMA StartBase ==
    ASSUME BaseInv, NEW p \in Procs, Start(p)
    PROVE  /\ BaseInv' /\ UNCHANGED <<named, segs, retried, rough>> /\ pc[p] = "down"
           /\ overlap' = (overlap \/ ~Others(p))
           /\ \E n \in 0 .. MaxNodes :
                /\ Lands(p, "open", FirstOf(p), map[p], 0, exists[p], n)
                /\ IF p = "server" THEN n \in ThreadCounts ELSE n = nodes[p]
<1>1. TypeOK /\ Len(segs) \in Nat /\ pc[p] = "down" /\ PlacedAt(p)
      /\ UNCHANGED <<named, segs, map, fd, exists, retried, at, rough>>
  BY SeqFacts DEF BaseInv, TypeOK, Start
<1>2. fd[p] = 0
  BY <1>1, Mapped2
<1>3. Call(p, FirstOf(p))
  BY DEF Start, FirstOf
<1>4. PICK n \in 0 .. MaxNodes : /\ nodes' = [nodes EXCEPT ![p] = n]
                               /\ IF p = "server" THEN n \in ThreadCounts ELSE n = nodes[p]
  <2>1. CASE p = "server"
    <3>1. PICK n \in ThreadCounts : nodes' = [nodes EXCEPT ![p] = n]
      BY <2>1 DEF Start
    <3>2. n \in 0 .. MaxNodes
      BY <3>1, MaxNodesFacts
    <3> QED
      BY <2>1, <3>1, <3>2
  <2>2. CASE p # "server"
    BY <1>1, <2>2 DEF Start, TypeOK
  <2> QED
    BY <2>1, <2>2
<1>5. Moves(p, "open", FirstOf(p), map[p], 0, exists[p], n)
  BY <1>1, <1>2, <1>3, <1>4 DEF Moves, Call, Goto, TypeOK
<1>6. Lands(p, "open", FirstOf(p), map[p], 0, exists[p], n)
  BY <1>5, MovesLands
<1>7. /\ overlap' \in BOOLEAN /\ faults' \in 0 .. MaxFaults
      /\ overlap' = (overlap \/ ~Others(p))
  BY BeginType DEF Start
<1>8. starts' \in [Procs -> Nat]
  BY <1>1 DEF TypeOK, Start
<1>9. Common
  BY <1>1, <1>7, <1>8 DEF Common, TypeOK
<1>10. PlacedAt(p)'
  BY <1>1, <1>6 DEF Lands, PlacedAt, LabelsOf, Procs, Creating, Has, Mapping, Halfway
<1>11. "open" \in LabelsOf(p) /\ FirstOf(p) \in Names
  BY DEF LabelsOf, Procs, Creating, FirstOf, Names
<1>12. exists[p] \in BOOLEAN
  BY <1>1 DEF TypeOK
<1>13. 0 \in 0 .. Len(segs)
  BY <1>1
<1>14. BaseInv'
  BY <1>1, <1>5, <1>9, <1>10, <1>11, <1>12, <1>13, StepBase
<1> QED
  BY <1>1, <1>4, <1>6, <1>7, <1>14

\* A process begins to end.
LEMMA ShutdownBase ==
    ASSUME BaseInv, NEW p \in Procs, Shutdown(p)
    PROVE  /\ BaseInv' /\ UNCHANGED <<named, segs, retried, rough>> /\ pc[p] = "up"
           /\ p # "delete" /\ overlap' = (overlap \/ ~Others(p))
           /\ Lands(p, IF p = "server" THEN "destroyList" ELSE "checkFlag",
                    seg[p], map[p], 0, exists[p], nodes[p])
<1> DEFINE l == IF p = "server" THEN "destroyList" ELSE "checkFlag"
<1>1. /\ TypeOK /\ pc[p] = "up" /\ p # "delete" /\ pc' = [pc EXCEPT ![p] = l]
      /\ UNCHANGED <<named, segs, seg, map, fd, exists, nodes, retried, at, starts, rough>>
  BY DEF BaseInv, Shutdown, Goto
<1>2. fd[p] = 0 /\ Len(segs) \in Nat
  BY <1>1, Mapped2, SeqFacts DEF TypeOK
<1>3. /\ overlap' \in BOOLEAN /\ faults' \in 0 .. MaxFaults
      /\ overlap' = (overlap \/ ~Others(p))
  BY BeginType DEF Shutdown
<1>4. Common
  BY <1>1, <1>2, <1>3 DEF Common, TypeOK
<1>5. l \in LabelsOf(p) /\ l \notin {"truncate", "map", "init", "reopen"} /\ l \in Mapping
  BY <1>1 DEF LabelsOf, Procs, Mapping
<1> HIDE DEF l
<1>6. \A s \in Names : Has(p, s)' => Has(p, s)
  BY <1>1 DEF Has, Mapping
<1>7. BaseInv' /\ Lands(p, l, seg[p], map[p], 0, exists[p], nodes[p])
  BY <1>1, <1>2, <1>4, <1>5, <1>6, HopBase
<1> QED
  BY <1>1, <1>3, <1>7 DEF l

\* The end of a proxy, one way and the other.
LEMMA CheckFlagBase ==
    ASSUME BaseInv, CheckFlag, Offline(map["proxy"]["meta"]), faults' \in 0 .. MaxFaults
    PROVE  /\ BaseInv' /\ UNCHANGED <<named, segs, retried, history>>
           /\ Lands("proxy", "destroyList", seg["proxy"], map["proxy"], 0,
                    exists["proxy"], nodes["proxy"])
<1> DEFINE p == "proxy"
<1>1. /\ TypeOK /\ pc[p] = "checkFlag" /\ p \in Procs
      /\ pc' = [pc EXCEPT ![p] = "destroyList"]
      /\ UNCHANGED <<named, segs, seg, map, fd, exists, nodes, retried, at, history>>
  BY DEF BaseInv, CheckFlag, Goto, Procs, Offline, Meta
<1>2. fd[p] = 0
  BY <1>1, Mapped2
<1>3. Common
  BY <1>1, CommonKept DEF TypeOK, history
<1>4. "destroyList" \in LabelsOf(p)
  BY DEF LabelsOf
<1>5. \A s \in Names : Has(p, s)' => Has(p, s)
  BY <1>1 DEF Has, Mapping
<1> QED
  BY <1>1, <1>2, <1>3, <1>4, <1>5, HopBase

\* A proxy that has seen a server leaves the segments to it.
LEMMA LeaveBase ==
    ASSUME BaseInv, CheckFlag, ~Offline(map["proxy"]["meta"]), faults' \in 0 .. MaxFaults
    PROVE  /\ BaseInv' /\ UNCHANGED <<named, segs, retried, history>>
           /\ Lands("proxy", "down", "meta", NoMap, 0, FALSE, 0)
<1>1. TypeOK /\ Gone("proxy") /\ UNCHANGED <<named, segs, history>> /\ Len(segs) \in Nat
  BY SeqFacts DEF BaseInv, TypeOK, CheckFlag, Offline, Meta
<1>2. at' = 0 /\ retried' = retried
  BY <1>1 DEF Gone, TypeOK
<1>3. Common
  BY <1>1, <1>2, MaxNodesFacts DEF Common, TypeOK, history
<1> QED
  BY <1>1, <1>2, <1>3, GoneBase DEF Procs

\* A process erases the list, and then the metanode.
LEMMA DestroyListBase ==
    ASSUME BaseInv, NEW p \in Procs, DestroyMemList(p), Mapped(p, Meta(p).numNodes),
           faults' \in 0 .. MaxFaults
    PROVE  /\ BaseInv' /\ UNCHANGED <<segs, retried, history>> /\ pc[p] = "destroyList"
           /\ named' = [named EXCEPT !["list"] = 0]
           /\ Lands(p, "destroyMeta", seg[p], map[p], 0, exists[p], nodes[p])
<1>1. /\ TypeOK /\ pc[p] = "destroyList" /\ pc' = [pc EXCEPT ![p] = "destroyMeta"]
      /\ named' = [named EXCEPT !["list"] = 0]
      /\ UNCHANGED <<segs, seg, map, fd, exists, nodes, retried, at, history>>
  BY DEF BaseInv, DestroyMemList, Goto
<1>2. fd[p] = 0 /\ Len(segs) \in Nat
  BY <1>1, Mapped2, SeqFacts DEF TypeOK
<1>3. named' \in [Names -> 0 .. Len(segs')]
  BY <1>1, <1>2 DEF TypeOK
<1>4. Common
  BY <1>1, <1>2, <1>3 DEF Common, TypeOK, history
<1>5. "destroyMeta" \in LabelsOf(p)
  BY DEF LabelsOf, Procs
<1>6. \A s \in Names : Has(p, s)' => Has(p, s)
  BY <1>1 DEF Has, Mapping
<1> QED
  BY <1>1, <1>2, <1>4, <1>5, <1>6, HopBase

\* The metanode is unlinked and the process ends.
LEMMA DestroyMetaBase ==
    ASSUME BaseInv, NEW p \in Procs, DestroyMetanode(p), faults' \in 0 .. MaxFaults
    PROVE  /\ BaseInv' /\ UNCHANGED <<segs, history>> /\ pc[p] = "destroyMeta"
           /\ named' = [named EXCEPT !["meta"] = 0]
           /\ retried' = (retried /\ p # "server")
           /\ Lands(p, "down", "meta", NoMap, 0, FALSE, 0)
<1>1. /\ TypeOK /\ Gone(p) /\ UNCHANGED <<segs, history>> /\ Len(segs) \in Nat
      /\ pc[p] = "destroyMeta" /\ named' = [named EXCEPT !["meta"] = 0]
  BY SeqFacts DEF BaseInv, TypeOK, DestroyMetanode
<1>2. named' \in [Names -> 0 .. Len(segs')]
  <2>1. segs' = segs /\ 0 \in 0 .. Len(segs) /\ named \in [Names -> 0 .. Len(segs)]
    BY <1>1 DEF TypeOK
  <2> QED
    BY <1>1, <2>1
<1>3. retried' \in BOOLEAN /\ at' \in 0 .. MaxNodes
  BY <1>1, MaxNodesFacts DEF Gone, TypeOK
<1>4. Common
  BY <1>1, <1>2, <1>3 DEF Common, TypeOK, history
<1> QED
  BY <1>1, <1>4, GoneBase DEF Gone

\* The server without a metanode ends.
LEMMA GiveUpBase ==
    ASSUME BaseInv, GiveUp, faults' \in 0 .. MaxFaults
    PROVE  /\ BaseInv' /\ UNCHANGED <<segs, starts, overlap>> /\ pc["server"] = "giveUp"
           /\ named' = named \/ named' = [named EXCEPT !["list"] = 0]
           /\ rough' = "torn"
           /\ Lands("server", "down", "meta", NoMap, 0, FALSE, 0)
<1>1. /\ TypeOK /\ Gone("server") /\ UNCHANGED <<segs, starts, overlap>> /\ Len(segs) \in Nat
      /\ pc["server"] = "giveUp" /\ rough' = "torn"
      /\ named' = named \/ named' = [named EXCEPT !["list"] = 0]
  BY SeqFacts DEF BaseInv, TypeOK, GiveUp
<1>2. named' \in [Names -> 0 .. Len(segs')]
  <2>1. segs' = segs /\ 0 \in 0 .. Len(segs) /\ named \in [Names -> 0 .. Len(segs)]
    BY <1>1 DEF TypeOK
  <2> QED
    BY <1>1, <2>1
<1>3. retried' \in BOOLEAN /\ at' \in 0 .. MaxNodes
  BY <1>1, MaxNodesFacts DEF Gone, TypeOK
<1>4. Common
  BY <1>1, <1>2, <1>3 DEF Common, TypeOK
<1> QED
  BY <1>1, <1>4, GoneBase DEF Procs

----------------------------------------------------------------------------
(* The steps of the system, one kind at a time.                            *)

\* A process ends by a signal, exit() or a fault.
Aborts == \E p \in Procs : pc[p] # "down" /\ Abort(p)
\* The server is inside a call of memOps_Create() that may fail.
Failing == pc["server"] \in {"reopen", "truncate", "map"}
\* getMemList() of the server fails and is called again.
Retries ==
    /\ Failing /\ seg["server"] = "list" /\ ~retried
    /\ CreateFails("server", "list")
\* getMetanode() of the server fails.
NoMeta == Failing /\ seg["server"] = "meta" /\ CreateFails("server", "meta")
\* getMemList() is called for the number in the metanode.
Lists(p) ==
    ReadNum(p) /\ ~(p = "delete" /\ Meta(p).numNodes = 0)
\* destroyMemList() finds all the nodes it goes by.
EraseList(p) == DestroyMemList(p) /\ Mapped(p, Meta(p).numNodes)

\* All these.
Kinds ==
    \/ \E p \in Procs, s \in Names : OpenExcl(p, s) \/ Reopen(p, s) \/ Truncate(p, s)
                                    \/ Map(p, s) \/ InitSegment(p, s)
    \/ \E p \in Procs : Lists(p) \/ EraseList(p) \/ DestroyMetanode(p)
    \/ Aborts \/ Retries \/ NoMeta
    \/ SetServerFlag \/ SetNum \/ Bind \/ Answer \/ GiveUp
    \/ ReadFlag \/ SetDefault \/ SetProxyFlag \/ Post \/ Collect \/ CheckFlag

\* A call of memOps_Create() that fails ends the process or, in the server, is
\* repeated or leads to giving up.
LEMMA FailureKinds ==
    ASSUME BaseInv, NEW p \in Procs, NEW s \in Names, CreateFails(p, s),
           pc[p] \in {"reopen", "truncate", "map"}, seg[p] = s
    PROVE  Aborts \/ Retries \/ NoMeta
<1>1. CASE p = "server" /\ s = "list" /\ ~retried
  BY <1>1 DEF Retries, Failing
<1>2. CASE p = "server" /\ s = "meta"
  BY <1>2 DEF NoMeta, Failing
<1>3. CASE ~(p = "server" /\ s = "meta") /\ ~(p = "server" /\ ~retried)
  BY <1>3 DEF CreateFails, Aborts
<1> QED
  BY <1>1, <1>2, <1>3 DEF Names

\* What all three programs do is of one of these kinds.
LEMMA WorkKinds ==
    ASSUME BaseInv, NEW p \in Procs, Work(p) PROVE Kinds
<1>1. ASSUME NEW s \in Names, ReopenFails(p, s) \/ MapNothing(p, s) PROVE Kinds
  BY <1>1, FailureKinds DEF ReopenFails, MapNothing, MapFails, Inside, Kinds
<1>2. CASE Create(p)
  BY <1>1, <1>2 DEF Create, Kinds
<1>3. CASE ReadNum(p)
  <2>1. pc[p] = "readNum"
    BY <1>3 DEF ReadNum, Access
  <2> QED
    BY <1>3, <2>1 DEF ReadNum, Lists, Aborts, Kinds
<1>4. CASE MetaFault(p)
  BY <1>4 DEF MetaFault, Aborts, Kinds
<1>5. CASE DestroyMemList(p)
  <2>1. pc[p] = "destroyList"
    BY <1>5 DEF DestroyMemList
  <2> QED
    BY <1>5, <2>1 DEF DestroyMemList, EraseList, Aborts, Kinds
<1>6. CASE DestroyMetanode(p)
  BY <1>6 DEF Kinds
<1> QED
  BY <1>2, <1>3, <1>4, <1>5, <1>6 DEF Work

\* Every step is one of these, or a start or the beginning of an end.
LEMMA NextKinds ==
    ASSUME BaseInv, Next
    PROVE  \/ Kinds /\ faults' \in 0 .. MaxFaults
           \/ \E p \in Procs : Start(p) \/ Shutdown(p)
<1>1. faults \in 0 .. MaxFaults /\ MaxFaults \in Nat
  BY ShmSetupAssumption DEF BaseInv, TypeOK
<1>2. CASE ServerStep
  BY <1>1, <1>2, WorkKinds DEF ServerStep, Kinds, Procs
<1>3. CASE ProxyStep
  BY <1>1, <1>3, WorkKinds DEF ProxyStep, Kinds, Procs
<1>4. CASE DeleteStep
  BY <1>1, <1>4, WorkKinds DEF DeleteStep, Procs
<1>5. CASE Fault
  <2>1. faults' \in 0 .. MaxFaults
    BY <1>1, <1>5 DEF Fault
  <2>2. ASSUME NEW p \in Procs, NEW s \in Names, TruncateFails(p, s) \/ MapFails(p, s)
        PROVE  Kinds
    BY <2>2, FailureKinds DEF TruncateFails, MapFails, Inside, Kinds
  <2>3. ASSUME NEW p \in Procs, Kill(p) PROVE Kinds
    BY <2>3 DEF Kill, Kinds, Aborts
  <2>4. CASE BindFails
    <3>1. pc["server"] = "bind" /\ Abort("server") /\ "server" \in Procs
      BY <2>4 DEF BindFails, Procs
    <3>2. Aborts
      BY <3>1 DEF Aborts
    <3> QED
      BY <2>1, <3>2 DEF Kinds
  <2> QED
    BY <1>5, <2>1, <2>2, <2>3, <2>4 DEF Fault
<1>6. CASE (Post \/ ScanFault) /\ UNCHANGED faults
  BY <1>1, <1>6 DEF ScanFault, Kinds, Aborts, Procs
<1> QED
  BY <1>2, <1>3, <1>4, <1>5, <1>6 DEF Next

\* All of them keep BaseInv.
LEMMA BaseKinds ==
    ASSUME BaseInv, Kinds, faults' \in 0 .. MaxFaults PROVE BaseInv'
<1>1. ASSUME NEW p \in Procs, NEW s \in Names,
             \/ OpenExcl(p, s) \/ Reopen(p, s) \/ Truncate(p, s)
             \/ Map(p, s) \/ InitSegment(p, s)
      PROVE  BaseInv'
  <2>1. CASE OpenExcl(p, s)
    BY <2>1, OpenNewBase, OpenOldBase
  <2>2. CASE Reopen(p, s)
    BY <2>2, ReopenBase
  <2>3. CASE Truncate(p, s)
    BY <2>3, TruncateBase
  <2>4. CASE Map(p, s)
    BY <2>4, MapBase
  <2>5. CASE InitSegment(p, s)
    BY <2>5, InitSegmentBase
  <2> QED
    BY <1>1, <2>1, <2>2, <2>3, <2>4, <2>5
<1>2. ASSUME NEW p \in Procs, Lists(p) \/ EraseList(p) \/ DestroyMetanode(p)
      PROVE  BaseInv'
  BY <1>2, ReadNumBase, DestroyListBase, DestroyMetaBase DEF Lists, EraseList
<1>3. CASE Aborts
  BY <1>3, AbortBase DEF Aborts
<1>4. CASE Retries
  BY <1>4, RetryBase DEF Retries, Failing, Creating, Names
<1>5. CASE NoMeta
  BY <1>5, NoMetaBase DEF NoMeta, Failing, Creating, Names
<1>6. CASE SetServerFlag \/ SetNum \/ Bind
  BY <1>6, SetServerFlagBase, SetNumBase, BindBase
<1>7. CASE Answer \/ GiveUp \/ Post \/ Collect
  BY <1>7, AnswerBase, GiveUpBase, PostBase, CollectBase
<1>8. CASE ReadFlag \/ SetDefault \/ SetProxyFlag
  BY <1>8, ReadFlagBase, SetDefaultBase, SetProxyFlagBase
<1>9. CASE CheckFlag
  BY <1>9, CheckFlagBase, LeaveBase
<1> QED
  BY <1>1, <1>2, <1>3, <1>4, <1>5, <1>6, <1>7, <1>8, <1>9 DEF Kinds

\* So does a step that changes nothing.
LEMMA BaseStutter == ASSUME BaseInv, UNCHANGED vars PROVE BaseInv'
  BY DEF BaseInv, vars, local, history, TypeOK, PlacedAt, Has

\* BaseInv is inductive.
LEMMA BaseStep == BaseInv /\ [Next]_vars => BaseInv'
<1> SUFFICES ASSUME BaseInv, [Next]_vars PROVE BaseInv'
  OBVIOUS
<1>1. CASE Next
  BY <1>1, NextKinds, BaseKinds, StartBase, ShutdownBase
<1>2. CASE UNCHANGED vars
  BY <1>2, BaseStutter
<1> QED
  BY <1>1, <1>2

\* Types are right, and a process at a given place has mapped what it needs.
THEOREM SetupTypeCorrect == Spec => []TypeOK
<1>1. BaseInv => TypeOK
  BY DEF BaseInv
<1> QED
  BY <1>1, BaseInit, BaseStep, PTL DEF Spec

----------------------------------------------------------------------------
(* As long as processes start and end one at a time.                       *)

\* Where each of the three programs can be.
LEMMA ProcFacts ==
    ASSUME BaseInv
    PROVE  /\ pc["delete"] \in Steady => pc["delete"] = "down"
           /\ pc["server"] \in Steady => pc["server"] \in {"down", "up"}
           /\ \A p \in Procs : pc[p] \in LabelsOf(p)
           /\ "server" \in Procs /\ "proxy" \in Procs /\ "delete" \in Procs
           /\ "meta" \in Names /\ "list" \in Names
  BY DEF BaseInv, PlacedAt, Procs, Names, LabelsOf, Steady, Creating

\* The others rest while p is starting or ending.
LEMMA OthersRest ==
    ASSUME BaseInv, Alone, NEW p \in Procs, pc[p] \notin Steady, NEW q \in Procs \ {p}
    PROVE  /\ pc[q] \in Steady /\ (p = "delete" => pc[q] = "down")
           /\ (q = "delete" => pc[q] = "down")
           /\ (q = "server" => pc[q] \in {"down", "up"})
  BY ProcFacts DEF Alone, Steady

\* Alone is kept by a process that is starting or ending, that goes on resting,
\* or that begins when the others rest.
LEMMA AloneStep ==
    ASSUME BaseInv, Alone, NEW p \in Procs, OthersStay(p),
           \/ pc[p] \notin Steady
           \/ pc'[p] \in Steady /\ (pc[p] = "down" => pc'[p] = "down")
           \/ Others(p)
    PROVE  Alone'
<1>1. CASE pc[p] \notin Steady
  <2>1. \A q \in Procs \ {p} : pc'[q] \in Steady /\ (p = "delete" => pc'[q] = "down")
    BY <1>1, OthersRest DEF OthersStay
  <2> QED
    BY <2>1 DEF Alone
<1>2. CASE pc[p] \in Steady /\ pc'[p] \in Steady /\ (pc[p] = "down" => pc'[p] = "down")
  BY <1>2 DEF Alone, OthersStay
<1>3. CASE Others(p)
  <2>1. \A q \in Procs \ {p} : pc'[q] \in IF p = "delete" THEN {"down"} ELSE Steady
    BY <1>3 DEF Others, OthersStay
  <2> QED
    BY <2>1 DEF Alone, Steady
<1> QED
  BY <1>1, <1>2, <1>3

\* A name is taken only by a process that is starting or ending.
LEMMA UpToDateStep ==
    ASSUME BaseInv, Alone, UpToDate, NEW p \in Procs, OthersStay(p),
           pc[p] \in Steady => named' = named, UpToDateAt(p)'
    PROVE  UpToDate'
<1> SUFFICES ASSUME NEW q \in Procs \ {p} PROVE UpToDateAt(q)'
  BY DEF UpToDate
<1>1. pc'[q] = pc[q] /\ seg'[q] = seg[q] /\ map'[q] = map[q] /\ fd'[q] = fd[q]
  BY DEF OthersStay
<1>2. CASE pc[p] \in Steady
  BY <1>1, <1>2 DEF UpToDate, UpToDateAt, Has
<1>3. CASE pc[p] \notin Steady
  <2>1. pc'[q] \in Steady
    BY <1>1, <1>3, OthersRest
  <2> QED
    BY <2>1 DEF UpToDateAt, Steady
<1> QED
  BY <1>2, <1>3

\* A segment in the making stays unshared when another process rests, maps
\* nothing new, and takes no name.
LEMMA FreshStep ==
    ASSUME BaseInv, Alone, UpToDate, Fresh, NEW p \in Procs, OthersStay(p),
           pc[p] \in Steady => named' = named /\ map'[p] \in {map[p], NoMap}, FreshAt(p)'
    PROVE  Fresh'
<1> SUFFICES ASSUME NEW q \in Procs \ {p} PROVE FreshAt(q)'
  BY DEF Fresh
<1>1. pc'[q] = pc[q] /\ seg'[q] = seg[q] /\ map'[q] = map[q] /\ exists'[q] = exists[q]
  BY DEF OthersStay
<1>2. CASE pc[p] \in Steady
  <2> SUFFICES ASSUME pc[q] \in {"truncate", "map", "init"}, ~exists[q],
                      NEW r \in Procs, NEW s \in Names, r # q \/ s # seg[q]
               PROVE  map'[r][s] # named[seg[q]]
    BY <1>1, <1>2 DEF FreshAt
  <2>1. map[r][s] # named[seg[q]]
    BY DEF Fresh, FreshAt
  <2>2. named[seg[q]] # 0
    <3>1. PlacedAt(q) /\ UpToDateAt(q) /\ seg[q] \in Names
      BY DEF BaseInv, UpToDate, TypeOK
    <3>2. CASE pc[q] = "init"
      BY <3>1, <3>2 DEF PlacedAt, UpToDateAt, Has, Steady, Ending
    <3>3. CASE pc[q] # "init"
      BY <3>1, <3>3 DEF PlacedAt, UpToDateAt
    <3> QED
      BY <3>2, <3>3
  <2>3. map'[r][s] = map[r][s] \/ map'[r][s] = 0
    BY <1>2 DEF OthersStay, NoMap
  <2> QED
    BY <2>1, <2>2, <2>3
<1>3. CASE pc[p] \notin Steady
  <2>1. pc'[q] \in Steady
    BY <1>1, <1>3, OthersRest
  <2> QED
    BY <2>1 DEF FreshAt, Steady
<1> QED
  BY <1>2, <1>3

\* What holds as long as processes start and end one at a time.
OrderInv == Alone /\ UpToDate /\ Fresh /\ Keeps

\* Whether the server is said to be there, in the metanode of process q.
SameFlag(q) == Offline(map[q]["meta"])' <=> Offline(map[q]["meta"])

\* A process on its way up takes no name away and lets the flags alone.
LEMMA KeepsOnTheWay ==
    ASSUME BaseInv, Alone, Keeps, NEW p \in Procs, OthersStay(p),
           pc[p] \notin Steady, pc'[p] \notin Steady,
           p = "delete" \/ pc'[p] \notin Told \cup Ending,
           \A s \in Names : named'[s] = named[s] \/ named[s] = 0,
           \A q \in Procs \ {p} : pc[q] # "down" => SameFlag(q)
    PROVE  Keeps'
<1>1. ASSUME NEW q \in Procs \ {p}, pc[q] # "down"
      PROVE  /\ pc[q] \in {"up", "wait"} /\ (q = "server" => pc[q] = "up")
             /\ \A s \in Names : map[q][s] # 0
  <2>1. pc[q] \in Steady /\ (q = "server" => pc[q] \in {"down", "up"})
    BY OthersRest
  <2> QED
    BY <1>1, <2>1 DEF Steady, BaseInv, TypeOK
<1>2. CASE p = "server"
  <2>1. pc'["server"] \notin {"up", "destroyList", "destroyMeta"} \cup Told
    BY <1>2 DEF Told
  <2>2. /\ pc'["proxy"] = pc["proxy"] /\ map'["proxy"] = map["proxy"]
        /\ pc["proxy"] \in Steady /\ "meta" \in Names /\ "proxy" \in Procs \ {p}
    BY <1>2, ProcFacts, OthersRest DEF OthersStay
  <2>3. pc["proxy"] \in {"up", "wait"} /\ Offline(map["proxy"]["meta"])' =>
          map'["proxy"]["meta"] = named'["meta"]
    BY <1>1, <2>2 DEF Keeps, SameFlag
  <2> QED
    BY <2>1, <2>2, <2>3 DEF Keeps, Steady, Ending
<1>3. CASE p = "proxy"
  <2>1. pc'["proxy"] \notin {"up", "wait"} \cup Ending
    BY <1>3 DEF Steady
  <2>2. /\ pc'["server"] = pc["server"] /\ map'["server"] = map["server"]
        /\ pc["server"] \in {"down", "up"} /\ "meta" \in Names /\ "server" \in Procs \ {p}
    BY <1>3, ProcFacts, OthersRest DEF OthersStay
  <2>3. pc["server"] = "up" =>
           /\ \A s \in Names : map'["server"][s] = named'[s]
           /\ ~Offline(map["server"]["meta"])'
    BY <1>1, <2>2 DEF Keeps, SameFlag, Told
  <2> QED
    BY <2>1, <2>2, <2>3 DEF Keeps, Told, Ending
<1>4. CASE p = "delete"
  <2>1. pc'["server"] = "down" /\ pc'["proxy"] = "down"
    BY <1>4, ProcFacts, OthersRest DEF OthersStay
  <2> QED
    BY <2>1 DEF Keeps, Told, Ending
<1> QED
  BY <1>2, <1>3, <1>4 DEF Procs

\* The flags that matter are in mapped segments.
LEMMA SameFlags ==
    ASSUME BaseInv, NEW p \in Procs, OthersStay(p),
           \A x \in 1 .. Len(segs) : segs'[x].serverFlag = segs[x].serverFlag
    PROVE  \A q \in Procs \ {p} : pc[q] \in Mapping => SameFlag(q)
<1> SUFFICES ASSUME NEW q \in Procs \ {p}, pc[q] \in Mapping PROVE SameFlag(q)
  OBVIOUS
<1>1. map[q]["meta"] \in 1 .. Len(segs)
  BY Mapped2, ProcFacts
<1>2. map'[q] = map[q]
  BY DEF OthersStay
<1> QED
  BY <1>1, <1>2 DEF SameFlag, Offline

\* shm_open() in memOps_Create().
LEMMA OpenNewOrder ==
    ASSUME BaseInv, OrderInv, NEW p \in Procs, NEW s \in Names, OpenExcl(p, s), named[s] = 0,
           faults' \in 0 .. MaxFaults
    PROVE  OrderInv'
<1>1. /\ TypeOK /\ Len(segs) \in Nat /\ pc[p] = "open" /\ seg[p] = s
      /\ named' = [named EXCEPT ![s] = Len(segs) + 1] /\ segs' = Append(segs, NewSegment)
  BY SeqFacts DEF BaseInv, TypeOK, OpenExcl, Inside
<1>2. Lands(p, "truncate", s, map[p], Len(segs) + 1, FALSE, nodes[p])
  BY OpenNewBase
<1>3. named'[s] = Len(segs) + 1 /\ \A x \in Names : x # s => named'[x] = named[x]
  BY <1>1 DEF TypeOK
<1>4. pc[p] \notin Steady /\ pc'[p] \notin Steady \cup Told \cup Ending
  BY <1>1, <1>2 DEF Lands, Steady, Told, Ending
<1>5. Alone'
  BY <1>2, <1>4, AloneStep DEF OrderInv, Lands
<1>6. UpToDateAt(p)'
  <2>1. \A x \in Names : Has(p, x)' => Has(p, x) /\ x # s
    BY <1>1, <1>2 DEF Lands, Has, Creating, Mapping, Halfway
  <2>2. \A x \in Names : Has(p, x) => map[p][x] = named[x]
    BY <1>1 DEF OrderInv, UpToDate, UpToDateAt, Steady, Ending
  <2>3. \A x \in Names : Has(p, x)' => map'[p][x] = named'[x]
    BY <1>2, <1>3, <2>1, <2>2 DEF Lands
  <2>4. fd'[p] = named'[seg'[p]]
    BY <1>2, <1>3 DEF Lands
  <2> QED
    BY <2>3, <2>4 DEF UpToDateAt
<1>7. FreshAt(p)'
  <2>1. \A q \in Procs, x \in Names : map'[q][x] = map[q][x]
    BY <1>2 DEF Lands, OthersStay
  <2>2. \A q \in Procs, x \in Names : map[q][x] \in 0 .. Len(segs)
    BY <1>1 DEF TypeOK
  <2>3. \A n \in 0 .. Len(segs) : n # Len(segs) + 1
    BY <1>1
  <2>4. \A q \in Procs, x \in Names : map'[q][x] # named'[s]
    BY <1>3, <2>1, <2>2, <2>3
  <2> QED
    BY <1>2, <2>4 DEF FreshAt, Lands
<1>8. Keeps'
  <2>1. \A x \in 1 .. Len(segs) : segs'[x].serverFlag = segs[x].serverFlag
    BY <1>1, AppendSegment DEF TypeOK
  <2>2. \A q \in Procs \ {p} : pc[q] # "down" => SameFlag(q)
    BY <1>2, <1>4, <2>1, OthersRest, SameFlags DEF Lands, Steady, Mapping, OrderInv
  <2> QED
    BY <1>2, <1>3, <1>4, <2>2, KeepsOnTheWay DEF Lands, OrderInv
<1> QED
  BY <1>2, <1>4, <1>5, <1>6, <1>7, <1>8, UpToDateStep, FreshStep DEF OrderInv, Lands

\* Any other step on the way up.
LEMMA WayOrder ==
    ASSUME BaseInv, OrderInv, NEW p \in Procs, OthersStay(p), named' = named,
           pc[p] \notin Steady, pc'[p] \notin Steady,
           p = "delete" \/ pc'[p] \notin Told \cup Ending,
           \A q \in Procs \ {p} : pc[q] # "down" => SameFlag(q),
           UpToDateAt(p)', FreshAt(p)'
    PROVE  OrderInv'
  BY AloneStep, UpToDateStep, FreshStep, KeepsOnTheWay DEF OrderInv

\* The same, if it writes no flag.
LEMMA QuietOrder ==
    ASSUME BaseInv, OrderInv, NEW p \in Procs, OthersStay(p), named' = named,
           pc[p] \notin Steady, pc'[p] \notin Steady,
           p = "delete" \/ pc'[p] \notin Told \cup Ending,
           \A x \in 1 .. Len(segs) : segs'[x].serverFlag = segs[x].serverFlag,
           UpToDateAt(p)', FreshAt(p)'
    PROVE  OrderInv'
<1>1. \A q \in Procs \ {p} : pc[q] # "down" => SameFlag(q)
  BY OthersRest, SameFlags DEF Steady, Mapping, OrderInv
<1> QED
  BY <1>1, WayOrder

\* shm_open() that finds the name taken.
LEMMA OpenOldOrder ==
    ASSUME BaseInv, OrderInv, NEW p \in Procs, NEW s \in Names, OpenExcl(p, s), named[s] # 0,
           faults' \in 0 .. MaxFaults
    PROVE  OrderInv'
<1>1. pc[p] = "open" /\ seg[p] = s /\ UNCHANGED <<segs, named>>
  BY DEF OpenExcl, Inside
<1>2. Lands(p, "reopen", s, map[p], 0, TRUE, nodes[p])
  BY OpenOldBase
<1>3. pc[p] \notin Steady /\ pc'[p] \notin Steady \cup Told \cup Ending
  BY <1>1, <1>2 DEF Lands, Steady, Told, Ending
<1>4. UpToDateAt(p)'
  <2>1. \A x \in Names : Has(p, x)' => Has(p, x)
    BY <1>1, <1>2 DEF Lands, Has, Creating, Mapping, Halfway
  <2>2. \A x \in Names : Has(p, x) => map[p][x] = named[x]
    BY <1>1 DEF OrderInv, UpToDate, UpToDateAt, Steady, Ending
  <2> QED
    BY <1>1, <1>2, <2>1, <2>2 DEF UpToDateAt, Lands
<1>5. FreshAt(p)'
  BY <1>2 DEF FreshAt, Lands
<1> QED
  BY <1>1, <1>2, <1>3, <1>4, <1>5, QuietOrder DEF Lands

\* shm_open() of what bears the name.
LEMMA ReopenOrder ==
    ASSUME BaseInv, OrderInv, NEW p \in Procs, NEW s \in Names, Reopen(p, s),
           faults' \in 0 .. MaxFaults
    PROVE  OrderInv'
<1>1. pc[p] = "reopen" /\ seg[p] = s /\ UNCHANGED <<segs, named>>
  BY DEF Reopen, Inside
<1>2. Lands(p, "map", s, map[p], named[s], TRUE, nodes[p])
  BY ReopenBase
<1>3. pc[p] \notin Steady /\ pc'[p] \notin Steady \cup Told \cup Ending
  BY <1>1, <1>2 DEF Lands, Steady, Told, Ending
<1>4. UpToDateAt(p)'
  <2>1. \A x \in Names : Has(p, x)' => Has(p, x)
    BY <1>1, <1>2 DEF Lands, Has, Creating, Mapping, Halfway
  <2>2. \A x \in Names : Has(p, x) => map[p][x] = named[x]
    BY <1>1 DEF OrderInv, UpToDate, UpToDateAt, Steady, Ending
  <2> QED
    BY <1>1, <1>2, <2>1, <2>2 DEF UpToDateAt, Lands
<1>5. FreshAt(p)'
  BY <1>2 DEF FreshAt, Lands
<1> QED
  BY <1>1, <1>2, <1>3, <1>4, <1>5, QuietOrder DEF Lands

\* ftruncate() of a segment nobody else has mapped.
LEMMA TruncateOrder ==
    ASSUME BaseInv, OrderInv, NEW p \in Procs, NEW s \in Names, Truncate(p, s),
           faults' \in 0 .. MaxFaults
    PROVE  OrderInv'
<1>1. /\ pc[p] = "truncate" /\ seg[p] = s /\ named' = named
      /\ segs' = [segs EXCEPT ![fd[p]].size = BlockSize(p, s)]
  BY DEF Truncate, Inside
<1>2. Lands(p, "map", s, map[p], fd[p], FALSE, nodes[p]) /\ fd[p] \in 1 .. Len(segs)
  BY TruncateBase
<1>3. pc[p] \notin Steady /\ pc'[p] \notin Steady \cup Told \cup Ending
  BY <1>1, <1>2 DEF Lands, Steady, Told, Ending
<1>4. UpToDateAt(p)'
  <2>1. \A x \in Names : Has(p, x)' => Has(p, x)
    BY <1>1, <1>2 DEF Lands, Has, Creating, Mapping, Halfway
  <2>2. /\ \A x \in Names : Has(p, x) => map[p][x] = named[x]
        /\ fd[p] = named[s]
    BY <1>1 DEF OrderInv, UpToDate, UpToDateAt, Steady, Ending
  <2> QED
    BY <1>1, <1>2, <2>1, <2>2 DEF UpToDateAt, Lands
<1>5. FreshAt(p)'
  <2>1. FreshAt(p) /\ ~exists[p]
    BY <1>1 DEF OrderInv, Fresh, BaseInv, PlacedAt
  <2>2. \A q \in Procs : map'[q] = map[q]
    BY <1>2 DEF Lands, OthersStay
  <2> QED
    BY <1>1, <1>2, <2>1, <2>2 DEF FreshAt, Lands
<1>6. \A x \in 1 .. Len(segs) : segs'[x].serverFlag = segs[x].serverFlag
  BY <1>1, <1>2, SizeWrite, BlockSizeType DEF BaseInv, TypeOK
<1> QED
  BY <1>1, <1>2, <1>3, <1>4, <1>5, <1>6, QuietOrder DEF Lands

\* Where memOps_Create() leads.
LEMMA AfterFacts ==
    ASSUME NEW p \in Procs, NEW s \in Names
    PROVE  /\ After(p, s) \notin Steady
           /\ p = "delete" \/ After(p, s) \notin Told \cup Ending
           /\ After(p, s) \notin {"truncate", "map", "init", "reopen"}
           /\ After(p, s) = "open" => p = "server" /\ s = "list" /\ NextSeg(p, s) = "meta"
           /\ After(p, s) \in Halfway => s = FirstOf(p)
           /\ After(p, s) \in Mapping => s # FirstOf(p)
           /\ After(p, s) \in Creating => After(p, s) = "open"
           /\ After(p, s) \in Ending => p = "delete" /\ s = "list"
  BY DEF After, NextSeg, Procs, Names, Steady, Told, Ending, Halfway, Mapping, FirstOf, Creating

\* mmap(): what p has mapped bears the name.
LEMMA MapOrder ==
    ASSUME BaseInv, OrderInv, NEW p \in Procs, NEW s \in Names, Map(p, s),
           faults' \in 0 .. MaxFaults
    PROVE  OrderInv'
<1> DEFINE m == [map[p] EXCEPT ![s] = fd[p]]
           l == IF exists[p] THEN After(p, s) ELSE "init"
           t == IF exists[p] THEN NextSeg(p, s) ELSE s
<1>1. pc[p] = "map" /\ seg[p] = s /\ UNCHANGED <<segs, named>>
  BY DEF Map, Inside
<1>2. Lands(p, l, t, m, 0, exists[p], nodes[p])
  BY MapBase DEF BaseInv, TypeOK
<1>3. m[s] = fd[p] /\ \A x \in Names : x # s => m[x] = map[p][x]
  BY DEF BaseInv, TypeOK
<1>4. /\ l \notin Steady /\ (p = "delete" \/ l \notin Told \cup Ending)
      /\ l \notin {"truncate", "map", "reopen"}
      /\ l = "open" => p = "server" /\ s = "list" /\ t = "meta"
      /\ l \in Halfway => s = FirstOf(p)
      /\ l \in Mapping => s # FirstOf(p)
      /\ l = "init" => t = s /\ ~exists[p]
      /\ l \in Creating => l \in {"open", "init"}
  BY AfterFacts DEF Steady, Told, Ending, Halfway, Mapping
<1> HIDE DEF m, l, t
<1>5. pc[p] \notin Steady /\ pc'[p] \notin Steady /\ (p = "delete" \/ pc'[p] \notin Told \cup Ending)
  BY <1>1, <1>2, <1>4 DEF Lands, Steady
<1>6. /\ \A x \in Names : Has(p, x) => map[p][x] = named[x]
      /\ fd[p] = named[s]
  BY <1>1 DEF OrderInv, UpToDate, UpToDateAt, Steady, Ending
<1>7. UpToDateAt(p)'
  <2>1. CASE l \in Ending
    BY <1>2, <1>4, <2>1 DEF UpToDateAt, Lands
  <2>2. CASE l \notin Ending
    <3>1. \A x \in Names : Has(p, x)' => (Has(p, x) \/ x = s)
      BY <1>1, <1>2, <1>4 DEF Lands, Has, Creating, Mapping, Halfway, FirstOf, Names
    <3> QED
      BY <1>1, <1>2, <1>3, <1>4, <1>6, <3>1 DEF UpToDateAt, Lands
  <2> QED
    BY <2>1, <2>2
<1>8. FreshAt(p)'
  <2> SUFFICES ASSUME l = "init", ~exists[p], NEW q \in Procs, NEW x \in Names, q # p \/ x # s
               PROVE  map'[q][x] # named[s]
    BY <1>1, <1>2, <1>4 DEF FreshAt, Lands
  <2>1. map[q][x] # named[s]
    BY <1>1 DEF OrderInv, Fresh, FreshAt
  <2>2. map'[q][x] = map[q][x]
    BY <1>2, <1>3 DEF Lands, OthersStay
  <2> QED
    BY <2>1, <2>2
<1> QED
  BY <1>1, <1>2, <1>5, <1>7, <1>8, QuietOrder DEF Lands

\* A new segment, mapped by nobody else, is filled in.
LEMMA InitSegmentOrder ==
    ASSUME BaseInv, OrderInv, NEW p \in Procs, NEW s \in Names, InitSegment(p, s),
           faults' \in 0 .. MaxFaults
    PROVE  OrderInv'
<1> DEFINE l == After(p, s)
           t == NextSeg(p, s)
           o == map[p][s]
<1>1. /\ pc[p] = "init" /\ seg[p] = s /\ UNCHANGED named /\ segs \in Seq(Segment)
      /\ segs' = [segs EXCEPT ![o] = [NewSegment EXCEPT !.size = segs[o].size]]
      /\ ~exists[p]
  BY DEF InitSegment, Inside, BaseInv, TypeOK, PlacedAt
<1>2. Lands(p, l, t, map[p], 0, FALSE, nodes[p]) /\ o \in 1 .. Len(segs)
  BY InitSegmentBase
<1>3. /\ l \notin Steady /\ (p = "delete" \/ l \notin Told \cup Ending)
      /\ l \notin {"truncate", "map", "reopen", "init"}
      /\ l = "open" => p = "server" /\ s = "list" /\ t = "meta"
      /\ l \in Halfway => s = FirstOf(p)
      /\ l \in Mapping => s # FirstOf(p)
      /\ l \in Creating => l = "open"
  BY AfterFacts
<1> HIDE DEF l, t, o
<1>4. \A x \in Names : Has(p, x) => map[p][x] = named[x]
  BY <1>1 DEF OrderInv, UpToDate, UpToDateAt, Steady, Ending
<1>5. o = named[s]
  BY <1>1, <1>4 DEF Has, o
<1>6. \A q \in Procs \ {p} : map[q]["meta"] # o
  BY <1>1, <1>5, ProcFacts DEF OrderInv, Fresh, FreshAt
<1>7. UpToDateAt(p)'
  <2>1. \A x \in Names : Has(p, x)' => Has(p, x)
    BY <1>1, <1>2, <1>3 DEF Lands, Has, Creating, Mapping, Halfway, FirstOf, Names
  <2> QED
    BY <1>1, <1>2, <1>3, <1>4, <2>1 DEF UpToDateAt, Lands
<1>8. FreshAt(p)'
  BY <1>2, <1>3 DEF FreshAt, Lands
<1>9. pc[p] \notin Steady
  BY <1>1 DEF Steady
<1>10. ASSUME NEW q \in Procs \ {p}, pc[q] # "down" PROVE SameFlag(q)
  <2>1. pc[q] \in Mapping
    BY <1>9, <1>10, OthersRest DEF Steady, Mapping, OrderInv
  <2>2. map[q]["meta"] \in 1 .. Len(segs) /\ map'[q] = map[q]
    BY <1>2, <2>1, Mapped2, ProcFacts DEF Lands, OthersStay
  <2>3. segs'[map[q]["meta"]] = segs[map[q]["meta"]]
    BY <1>1, <1>2, <1>6, <2>2, RenewSegment
  <2> QED
    BY <2>2, <2>3 DEF SameFlag, Offline
<1> QED
  BY <1>1, <1>2, <1>3, <1>7, <1>8, <1>9, <1>10, WayOrder DEF Lands

\* The failures of memOps_Create() that the server survives.
LEMMA RetryOrder ==
    ASSUME BaseInv, OrderInv, Retries, faults' \in 0 .. MaxFaults PROVE OrderInv'
<1> DEFINE p == "server"
<1>1. /\ pc[p] \in {"reopen", "truncate", "map"} /\ seg[p] = "list" /\ p \in Procs
      /\ UNCHANGED <<segs, named>>
      /\ Lands(p, "open", "list", map[p], 0, exists[p], NUMSEGMENTS)
  BY RetryBase, ProcFacts DEF Retries, Failing, Creating
<1>2. pc[p] \notin Steady /\ pc'[p] \notin Steady \cup Told \cup Ending
  BY <1>1 DEF Lands, Steady, Told, Ending
<1>3. UpToDateAt(p)' /\ FreshAt(p)'
  BY <1>1 DEF UpToDateAt, FreshAt, Lands, Has, Creating, Mapping, Halfway, FirstOf
<1> QED
  BY <1>1, <1>2, <1>3, QuietOrder DEF Lands

\* The server without a metanode still has its list.
LEMMA NoMetaOrder ==
    ASSUME BaseInv, OrderInv, NoMeta, faults' \in 0 .. MaxFaults PROVE OrderInv'
<1> DEFINE p == "server"
<1>1. /\ pc[p] \in {"reopen", "truncate", "map"} /\ seg[p] = "meta" /\ p \in Procs
      /\ UNCHANGED <<segs, named>>
      /\ Lands(p, "giveUp", "meta", map[p], 0, exists[p], nodes[p])
  BY NoMetaBase, ProcFacts DEF NoMeta, Failing, Creating
<1>2. pc[p] \notin Steady /\ pc'[p] \notin Steady \cup Told \cup Ending
  BY <1>1 DEF Lands, Steady, Told, Ending
<1>3. UpToDateAt(p)' /\ FreshAt(p)'
  <2>1. \A x \in Names : Has(p, x)' => Has(p, x)
    BY <1>1 DEF Lands, Has, Creating, Mapping, Halfway, FirstOf
  <2>2. \A x \in Names : Has(p, x) => map[p][x] = named[x]
    BY <1>1, <1>2 DEF OrderInv, UpToDate, UpToDateAt, Ending, Steady
  <2> QED
    BY <1>1, <2>1, <2>2 DEF UpToDateAt, FreshAt, Lands
<1> QED
  BY <1>1, <1>2, <1>3, QuietOrder DEF Lands

\* A step on the way up that only goes on, or writes what is not a flag.
LEMMA HopOrder ==
    ASSUME BaseInv, OrderInv, NEW p \in Procs, NEW l, NEW t, NEW n,
           Lands(p, l, t, map[p], 0, exists[p], n), named' = named,
           pc[p] \notin Steady \cup Ending, l \notin Steady \cup Told \cup Ending,
           l \notin {"truncate", "map", "init"},
           \A x \in 1 .. Len(segs) : segs'[x].serverFlag = segs[x].serverFlag,
           \A x \in Names : Has(p, x)' => Has(p, x)
    PROVE  OrderInv'
<1>1. UpToDateAt(p)' /\ FreshAt(p)'
  <2>1. \A x \in Names : Has(p, x) => map[p][x] = named[x]
    BY DEF OrderInv, UpToDate, UpToDateAt
  <2> QED
    BY <2>1 DEF UpToDateAt, FreshAt, Lands
<1> QED
  BY <1>1, QuietOrder DEF Lands

\* The proxy reads the flag and writes the default number.
LEMMA ProxyWayOrder ==
    ASSUME BaseInv, OrderInv, ReadFlag \/ SetDefault, faults' \in 0 .. MaxFaults PROVE OrderInv'
<1> DEFINE p == "proxy"
<1>1. CASE ReadFlag
  <2>1. PICK l \in {"setDefault", "readNum"} :
            Lands(p, l, seg[p], map[p], 0, exists[p], nodes[p])
    BY <1>1, ReadFlagBase
  <2>2. pc[p] = "readFlag" /\ UNCHANGED <<named, segs>>
    BY <1>1 DEF ReadFlag, Access, MetaStep
  <2>3. \A x \in Names : Has(p, x)' => Has(p, x)
    BY <2>1, <2>2 DEF Lands, Has, Creating, Mapping, Halfway
  <2>4. /\ pc[p] \notin Steady \cup Ending /\ l \notin Steady \cup Told \cup Ending
        /\ l \notin {"truncate", "map", "init"} /\ p \in Procs
    BY <2>2 DEF Steady, Told, Ending, Procs
  <2> QED
    BY <2>1, <2>2, <2>3, <2>4, HopOrder
<1>2. CASE SetDefault
  <2>1. /\ Lands(p, "readNum", seg[p], map[p], 0, exists[p], nodes[p])
        /\ map[p]["meta"] \in 1 .. Len(segs)
    BY <1>2, SetDefaultBase
  <2>2. /\ pc[p] = "setDefault" /\ named' = named
        /\ segs' = [segs EXCEPT ![map[p]["meta"]].numNodes = NUMSEGMENTS]
    BY <1>2 DEF SetDefault, Access, MetaStep
  <2>3. \A x \in Names : Has(p, x)' => Has(p, x)
    BY <2>1, <2>2 DEF Lands, Has, Creating, Mapping, Halfway
  <2>4. pc[p] \notin Steady \cup Ending /\ "readNum" \notin Steady \cup Told \cup Ending /\ p \in Procs
    BY <2>2 DEF Steady, Told, Ending, Procs
  <2>5. \A x \in 1 .. Len(segs) : segs'[x].serverFlag = segs[x].serverFlag
    <3>1. NUMSEGMENTS \in 0 .. MaxNodes
      BY MaxNodesFacts
    <3> QED
      BY <2>1, <2>2, <3>1, NumNodesWrite DEF BaseInv, TypeOK
  <2> QED
    BY <2>1, <2>2, <2>3, <2>4, <2>5, HopOrder
<1> QED
  BY <1>1, <1>2

\* The proxy, or DELETE, goes on to the list.
LEMMA ListsOrder ==
    ASSUME BaseInv, OrderInv, NEW p \in Procs, Lists(p), faults' \in 0 .. MaxFaults
    PROVE  OrderInv'
<1>1. /\ pc[p] = "readNum" /\ p # "server" /\ UNCHANGED <<named, segs>>
      /\ Lands(p, "open", "list", map[p], 0, exists[p], Meta(p).numNodes)
  BY ReadNumBase DEF Lists, ReadNum, Access
<1>2. \A x \in Names : Has(p, x)' => Has(p, x)
  BY <1>1 DEF Lands, Has, Creating, Mapping, Halfway
<1>3. pc[p] \notin Steady \cup Ending /\ "open" \notin Steady \cup Told \cup Ending
  BY <1>1 DEF Steady, Told, Ending
<1> QED
  BY <1>1, <1>2, <1>3, HopOrder

\* The server has both segments and says so.
LEMMA ServerWayOrder ==
    ASSUME BaseInv, OrderInv, SetServerFlag \/ SetNum \/ Bind, faults' \in 0 .. MaxFaults
    PROVE  OrderInv'
<1> DEFINE p == "server"
           o == map[p]["meta"]
<1>1. /\ pc[p] \in {"setServerFlag", "setNum", "bind"} /\ named' = named
      /\ p \in Procs /\ "proxy" \in Procs /\ "meta" \in Names
  BY ProcFacts DEF SetServerFlag, SetNum, Bind, Access, MetaStep
<1>2. PICK l \in {"setNum", "bind", "up"} :
        /\ Lands(p, l, seg[p], map[p], 0, exists[p], nodes[p])
        /\ l = "up" => pc[p] = "bind"
        /\ l # "setNum" => ~SetServerFlag /\ pc[p] # "setServerFlag"
  BY SetServerFlagBase, SetNumBase, BindBase DEF SetServerFlag, SetNum, Bind, Access
<1>3. o \in 1 .. Len(segs) /\ segs \in Seq(Segment)
  BY <1>1, Mapped2 DEF Mapping, BaseInv, TypeOK
<1>4. /\ l = "setNum" => segs'[o].serverFlag = "ONLINE"
      /\ \A x \in 1 .. Len(segs) : Offline(x)' => Offline(x)
      /\ l # "setNum" => \A x \in 1 .. Len(segs) : Offline(x)' <=> Offline(x)
  <2>1. CASE SetServerFlag
    <3>1. segs' = [segs EXCEPT ![o].serverFlag = "ONLINE"]
      BY <2>1 DEF SetServerFlag
    <3>2. /\ segs'[o].serverFlag = "ONLINE"
          /\ \A x \in 1 .. Len(segs) : x # o => segs'[x] = segs[x]
      BY <1>3, <3>1, ServerFlagWrite
    <3> QED
      BY <1>2, <2>1, <3>2 DEF Offline
  <2>2. CASE SetNum
    <3>1. segs' = [segs EXCEPT ![o].numNodes = nodes[p]] /\ pc[p] = "setNum"
      BY <2>2 DEF SetNum, Access
    <3>2. nodes[p] \in 0 .. MaxNodes
      BY <1>1 DEF BaseInv, TypeOK
    <3>3. \A x \in 1 .. Len(segs) : segs'[x].serverFlag = segs[x].serverFlag
      BY <1>3, <3>1, <3>2, NumNodesWrite
    <3>4. pc'[p] = "bind"
      BY <2>2, SetNumBase DEF Lands
    <3>5. l = "bind"
      BY <1>2, <3>4 DEF Lands
    <3> QED
      BY <3>3, <3>5 DEF Offline
  <2>3. CASE Bind
    <3>1. pc'[p] = "up" /\ segs' = segs
      BY <2>3, BindBase DEF Lands, Bind
    <3>2. l = "up"
      BY <1>2, <3>1 DEF Lands
    <3> QED
      BY <3>1, <3>2 DEF Offline
  <2> QED
    BY <2>1, <2>2, <2>3
<1> HIDE DEF o
<1>5. pc[p] \notin Steady \cup Ending /\ l \notin Ending
  BY <1>1 DEF Steady, Ending
<1>6. \A x \in Names : map[p][x] = named[x]
  <2>1. \A x \in Names : Has(p, x)
    BY <1>1 DEF Has, Mapping
  <2> QED
    BY <1>1, <1>5, <2>1 DEF OrderInv, UpToDate, UpToDateAt
<1>7. UpToDateAt(p)' /\ FreshAt(p)'
  BY <1>1, <1>2, <1>6 DEF UpToDateAt, FreshAt, Lands
<1>8. pc["proxy"] \in Steady /\ pc'["proxy"] = pc["proxy"] /\ map'["proxy"] = map["proxy"]
  BY <1>1, <1>2, <1>5, OthersRest DEF OrderInv, Lands, OthersStay
<1>9. pc["proxy"] \in {"up", "wait"} => map["proxy"]["meta"] \in 1 .. Len(segs)
  BY <1>1, Mapped2 DEF Mapping
<1>10. Keeps'
  <2>1. pc'["proxy"] \in {"up", "wait"} \cup Ending /\ Offline(map["proxy"]["meta"])' =>
           map'["proxy"]["meta"] = named'["meta"]
    BY <1>1, <1>4, <1>8, <1>9 DEF OrderInv, Keeps, Steady, Ending
  <2>2. ~Offline(map["server"]["meta"])'
    <3>1. map'["server"]["meta"] = o
      BY <1>2 DEF Lands, o
    <3>2. CASE l = "setNum"
      BY <1>4, <3>1, <3>2 DEF Offline
    <3>3. CASE l # "setNum"
      <4>1. pc[p] \in Told
        BY <1>1, <1>2, <3>3 DEF Told
      <4>2. segs[o].serverFlag # "OFFLINE"
        BY <4>1 DEF OrderInv, Keeps, o, Offline
      <4>3. segs'[o].serverFlag = "OFFLINE" <=> segs[o].serverFlag = "OFFLINE"
        BY <1>3, <1>4, <3>3 DEF Offline
      <4> QED
        BY <3>1, <4>2, <4>3 DEF Offline
    <3> QED
      BY <3>2, <3>3
  <2> QED
    BY <1>1, <1>2, <1>6, <1>8, <2>1, <2>2 DEF Keeps, Lands, Steady
<1> QED
  BY <1>1, <1>2, <1>5, <1>7, <1>10, AloneStep, UpToDateStep, FreshStep DEF OrderInv, Lands

\* The proxy has both segments and says so.
LEMMA SetProxyFlagOrder ==
    ASSUME BaseInv, OrderInv, SetProxyFlag, faults' \in 0 .. MaxFaults
    PROVE  OrderInv'
<1> DEFINE p == "proxy"
<1>1. /\ pc[p] = "setProxyFlag" /\ named' = named
      /\ segs' = [segs EXCEPT ![map[p]["meta"]].proxyFlag = "ONLINE"]
      /\ p \in Procs /\ "server" \in Procs /\ "meta" \in Names
  BY ProcFacts DEF SetProxyFlag, Access, MetaStep
<1>2. /\ Lands(p, "up", seg[p], map[p], 0, exists[p], nodes[p])
      /\ map[p]["meta"] \in 1 .. Len(segs)
  BY SetProxyFlagBase
<1>3. \A x \in 1 .. Len(segs) : segs'[x].serverFlag = segs[x].serverFlag
  BY <1>1, <1>2, ProxyFlagWrite DEF BaseInv, TypeOK
<1>4. pc[p] \notin Steady \cup Ending
  BY <1>1 DEF Steady, Ending
<1>5. \A x \in Names : map[p][x] = named[x]
  <2>1. \A x \in Names : Has(p, x)
    BY <1>1 DEF Has, Mapping
  <2> QED
    BY <1>1, <1>4, <2>1 DEF OrderInv, UpToDate, UpToDateAt
<1>6. UpToDateAt(p)' /\ FreshAt(p)'
  BY <1>2 DEF UpToDateAt, FreshAt, Lands, Steady
<1>7. /\ pc["server"] \in {"down", "up"} /\ pc'["server"] = pc["server"]
      /\ map'["server"] = map["server"]
  BY <1>1, <1>2, <1>4, OthersRest DEF OrderInv, Lands, OthersStay
<1>8. pc["server"] = "up" => SameFlag("server")
  BY <1>1, <1>2, <1>3, SameFlags DEF Mapping, Lands
<1>9. Keeps'
  BY <1>1, <1>2, <1>5, <1>7, <1>8 DEF OrderInv, Keeps, Lands, Told, SameFlag
<1> QED
  BY <1>1, <1>2, <1>4, <1>6, <1>9, AloneStep, UpToDateStep, FreshStep DEF OrderInv, Lands

\* Requests and answers.
LEMMA ExchangeOrder ==
    ASSUME BaseInv, OrderInv, Post \/ Answer \/ Collect, faults' \in 0 .. MaxFaults
    PROVE  OrderInv'
<1>1. PICK p \in {"server", "proxy"}, l \in {"up", "wait"} :
        /\ Lands(p, l, seg[p], map[p], 0, exists[p], nodes[p])
        /\ pc[p] \in {"up", "wait"} /\ (p = "server" => l = "up" /\ pc[p] = "up")
        /\ named' = named /\ SameHeads
  BY PostBase, AnswerBase, CollectBase DEF Post, Answer, Collect
<1>2. p \in Procs /\ pc[p] \in Mapping /\ "meta" \in Names
  BY <1>1 DEF Procs, Mapping, Names
<1>3. SameFlag(p)
  BY <1>1, <1>2, Mapped2 DEF SameFlag, SameHeads, Lands, Offline
<1>4. \A q \in Procs \ {p} : pc[q] \in Mapping => SameFlag(q)
  BY <1>1, <1>2, SameFlags DEF Lands, SameHeads
<1>5. \A q \in Procs : map'[q] = map[q] /\ (q # p => pc'[q] = pc[q])
  BY <1>1 DEF Lands, OthersStay
<1>6. Keeps'
  BY <1>1, <1>2, <1>3, <1>4, <1>5 DEF OrderInv, Keeps, SameFlag, Lands, Procs, Told, Mapping, Ending
<1>7. UpToDateAt(p)' /\ FreshAt(p)'
  BY <1>1 DEF UpToDateAt, FreshAt, Lands, Steady
<1>8. Alone'
  BY <1>1, <1>2, AloneStep DEF OrderInv, Lands, Steady
<1> QED
  BY <1>1, <1>2, <1>6, <1>7, <1>8, UpToDateStep, FreshStep DEF OrderInv, Lands

\* A process starts while no other starts or ends.
LEMMA StartOrder ==
    ASSUME BaseInv, OrderInv, NEW p \in Procs, Start(p), ~overlap'
    PROVE  OrderInv'
<1>1. /\ pc[p] = "down" /\ UNCHANGED <<named, segs>> /\ Others(p)
      /\ \E n : Lands(p, "open", FirstOf(p), map[p], 0, exists[p], n)
  BY StartBase
<1>2. OthersStay(p) /\ pc'[p] = "open" /\ seg'[p] = FirstOf(p) /\ map'[p] = map[p]
  BY <1>1 DEF Lands
<1>3. \A q \in Procs : map'[q] = map[q] /\ (q # p => pc'[q] = pc[q])
  BY <1>2 DEF OthersStay
<1>4. UpToDateAt(p)' /\ FreshAt(p)'
  BY <1>2 DEF UpToDateAt, FreshAt, Has, Mapping, Halfway, Creating
<1>5. Keeps'
  BY <1>1, <1>2, <1>3 DEF OrderInv, Keeps, Offline, Told, Ending, Procs
<1>6. Alone'
  BY <1>1, <1>2, AloneStep DEF OrderInv
<1> QED
  BY <1>1, <1>2, <1>4, <1>5, <1>6, UpToDateStep, FreshStep DEF OrderInv

\* The server or the proxy begins to end while no other starts or ends.
LEMMA ShutdownOrder ==
    ASSUME BaseInv, OrderInv, NEW p \in Procs, Shutdown(p), ~overlap'
    PROVE  OrderInv'
<1> DEFINE l == IF p = "server" THEN "destroyList" ELSE "checkFlag"
<1>1. /\ pc[p] = "up" /\ UNCHANGED <<named, segs>> /\ Others(p) /\ p # "delete"
      /\ Lands(p, l, seg[p], map[p], 0, exists[p], nodes[p])
  BY ShutdownBase
<1>2. OthersStay(p) /\ pc'[p] = l /\ map'[p] = map[p]
  BY <1>1 DEF Lands
<1>3. \A q \in Procs : map'[q] = map[q] /\ (q # p => pc'[q] = pc[q])
  BY <1>2 DEF OthersStay
<1>4. UpToDateAt(p)' /\ FreshAt(p)'
  BY <1>2 DEF UpToDateAt, FreshAt, Ending
<1>5. Keeps'
  <2>1. CASE p = "server"
    BY <1>1, <1>2, <1>3, <2>1 DEF OrderInv, Keeps, Offline, Told, Ending, Procs
  <2>2. CASE p = "proxy"
    BY <1>1, <1>2, <1>3, <2>2 DEF OrderInv, Keeps, Offline, Told, Ending, Procs
  <2> QED
    BY <1>1, <2>1, <2>2 DEF Procs
<1>6. Alone'
  BY <1>1, <1>2, AloneStep DEF OrderInv
<1> QED
  BY <1>1, <1>2, <1>4, <1>5, <1>6, UpToDateStep, FreshStep DEF OrderInv

\* A process is gone that takes no name with it.
LEMMA GoneOrder ==
    ASSUME BaseInv, OrderInv, NEW p \in Procs, Lands(p, "down", "meta", NoMap, 0, FALSE, 0),
           UNCHANGED <<named, segs>>
    PROVE  OrderInv'
<1>1. OthersStay(p) /\ pc'[p] = "down" /\ map'[p] = NoMap
  BY DEF Lands
<1>2. \A q \in Procs \ {p} : map'[q] = map[q] /\ pc'[q] = pc[q]
  BY <1>1 DEF OthersStay
<1>3. UpToDateAt(p)' /\ FreshAt(p)'
  BY <1>1 DEF UpToDateAt, FreshAt, Steady
<1>4. Keeps'
  BY <1>1, <1>2 DEF OrderInv, Keeps, Offline, Told, Ending, Procs
<1>5. Alone'
  BY <1>1, AloneStep DEF OrderInv, Steady
<1> QED
  BY <1>1, <1>3, <1>4, <1>5, UpToDateStep, FreshStep DEF OrderInv

\* A proxy that reads OFFLINE goes on to erase; the server is down then.
LEMMA CheckFlagOrder ==
    ASSUME BaseInv, OrderInv, CheckFlag, faults' \in 0 .. MaxFaults
    PROVE  OrderInv'
<1>1. CASE ~Offline(map["proxy"]["meta"])
  BY <1>1, LeaveBase, GoneOrder, ProcFacts
<1>2. CASE Offline(map["proxy"]["meta"])
  <2> DEFINE p == "proxy"
  <2>1. /\ pc[p] = "checkFlag" /\ UNCHANGED <<named, segs>> /\ p \in Procs /\ "server" \in Procs
        /\ Lands(p, "destroyList", seg[p], map[p], 0, exists[p], nodes[p])
    BY <1>2, CheckFlagBase, ProcFacts DEF CheckFlag
  <2>2. OthersStay(p) /\ pc'[p] = "destroyList" /\ map'[p] = map[p]
    BY <2>1 DEF Lands
  <2>3. map'["server"] = map["server"] /\ pc'["server"] = pc["server"]
    BY <2>1, <2>2 DEF OthersStay
  <2>4. UpToDateAt(p)' /\ FreshAt(p)'
    BY <2>2 DEF UpToDateAt, FreshAt, Ending
  <2>5. Keeps'
    BY <1>2, <2>1, <2>2, <2>3 DEF OrderInv, Keeps, Offline, Told, Ending
  <2>6. Alone'
    BY <2>1, <2>2, AloneStep DEF OrderInv, Steady
  <2> QED
    BY <2>1, <2>2, <2>4, <2>5, <2>6, UpToDateStep, FreshStep DEF OrderInv, Steady
<1> QED
  BY <1>1, <1>2

\* The heart of the matter: a proxy that erases does so in the absence of the
\* server, whose metanode would say ONLINE and be the one that bears the name.
LEMMA ErasesAlone ==
    ASSUME BaseInv, OrderInv, pc["proxy"] \in {"destroyList", "destroyMeta"}
    PROVE  pc["server"] = "down"
<1>1. pc["server"] \in {"down", "up"}
  BY OthersRest, ProcFacts DEF OrderInv, Steady
<1>2. /\ Offline(map["proxy"]["meta"])
      /\ map["proxy"]["meta"] = named["meta"]
  BY DEF OrderInv, Keeps, Ending
<1>3. ASSUME pc["server"] = "up" PROVE FALSE
  <2>1. map["server"]["meta"] = named["meta"] /\ ~Offline(map["server"]["meta"])
    BY <1>3, ProcFacts DEF OrderInv, Keeps, Told
  <2> QED
    BY <1>2, <2>1
<1> QED
  BY <1>1, <1>3

\* The list loses its name, which nobody else relies on.
LEMMA EraseListOrder ==
    ASSUME BaseInv, OrderInv, NEW p \in Procs, EraseList(p), faults' \in 0 .. MaxFaults
    PROVE  OrderInv'
<1>1. /\ pc[p] = "destroyList" /\ segs' = segs /\ named' = [named EXCEPT !["list"] = 0]
      /\ Lands(p, "destroyMeta", seg[p], map[p], 0, exists[p], nodes[p])
  BY DestroyListBase DEF EraseList
<1>2. OthersStay(p) /\ pc'[p] = "destroyMeta" /\ map'[p] = map[p]
  BY <1>1 DEF Lands
<1>3. named'["list"] = 0 /\ named'["meta"] = named["meta"]
  BY <1>1 DEF BaseInv, TypeOK, Names
<1>4. \A q \in Procs : map'[q] = map[q] /\ (q # p => pc'[q] = pc[q])
  BY <1>2 DEF OthersStay
<1>5. UpToDateAt(p)' /\ FreshAt(p)'
  BY <1>2 DEF UpToDateAt, FreshAt, Ending
<1>6. pc[p] \notin Steady
  BY <1>1 DEF Steady
<1>7. Keeps'
  <2>1. CASE p = "server"
    <3>1. pc["proxy"] \in Steady
      BY <1>6, <2>1, OthersRest, ProcFacts DEF OrderInv
    <3> QED
      BY <1>1, <1>2, <1>3, <1>4, <2>1, <3>1, ProcFacts
      DEF OrderInv, Keeps, Offline, Told, Ending, Steady
  <2>2. CASE p = "proxy"
    <3>1. pc["server"] = "down"
      BY <1>1, <2>2, ErasesAlone
    <3> QED
      BY <1>1, <1>2, <1>3, <1>4, <2>2, <3>1, ProcFacts
      DEF OrderInv, Keeps, Offline, Told, Ending
  <2>3. CASE p = "delete"
    <3>1. pc["server"] = "down" /\ pc["proxy"] = "down"
      BY <1>6, <2>3, OthersRest, ProcFacts DEF OrderInv
    <3> QED
      BY <1>4, <2>3, <3>1, ProcFacts DEF Keeps, Told, Ending
  <2> QED
    BY <2>1, <2>2, <2>3 DEF Procs
<1>8. Alone'
  BY <1>2, <1>6, AloneStep DEF OrderInv
<1> QED
  BY <1>2, <1>5, <1>6, <1>7, <1>8, UpToDateStep, FreshStep DEF OrderInv

\* Then the metanode loses its name.
LEMMA EraseMetaOrder ==
    ASSUME BaseInv, OrderInv, NEW p \in Procs, DestroyMetanode(p), faults' \in 0 .. MaxFaults
    PROVE  OrderInv'
<1>1. /\ pc[p] = "destroyMeta" /\ segs' = segs /\ named' = [named EXCEPT !["meta"] = 0]
      /\ Lands(p, "down", "meta", NoMap, 0, FALSE, 0)
  BY DestroyMetaBase
<1>2. OthersStay(p) /\ pc'[p] = "down" /\ map'[p] = NoMap
  BY <1>1 DEF Lands
<1>3. named'["list"] = named["list"] /\ named'["meta"] = 0
  BY <1>1 DEF BaseInv, TypeOK, Names
<1>4. \A q \in Procs \ {p} : map'[q] = map[q] /\ pc'[q] = pc[q]
  BY <1>2 DEF OthersStay
<1>5. UpToDateAt(p)' /\ FreshAt(p)'
  BY <1>2 DEF UpToDateAt, FreshAt, Steady
<1>6. pc[p] \notin Steady
  BY <1>1 DEF Steady
<1>7. Keeps'
  <2>1. CASE p = "server"
    <3>1. /\ pc["proxy"] \in Steady /\ map["server"]["meta"] = named["meta"]
          /\ ~Offline(map["server"]["meta"])
      BY <1>1, <1>6, <2>1, OthersRest, ProcFacts DEF OrderInv, Keeps, Told
    <3>2. pc["proxy"] \in {"up", "wait"} => ~Offline(map["proxy"]["meta"])
      BY <3>1 DEF OrderInv, Keeps
    <3> QED
      BY <1>1, <1>2, <1>4, <2>1, <3>1, <3>2, ProcFacts
      DEF Keeps, Offline, Told, Ending, Steady
  <2>2. CASE p = "proxy"
    <3>1. pc["server"] = "down"
      BY <1>1, <2>2, ErasesAlone
    <3> QED
      BY <1>2, <1>4, <2>2, <3>1, ProcFacts DEF Keeps, Told, Ending
  <2>3. CASE p = "delete"
    <3>1. pc["server"] = "down" /\ pc["proxy"] = "down"
      BY <1>6, <2>3, OthersRest, ProcFacts DEF OrderInv
    <3> QED
      BY <1>4, <2>3, <3>1, ProcFacts DEF Keeps, Told, Ending
  <2> QED
    BY <2>1, <2>2, <2>3 DEF Procs
<1>8. Alone'
  BY <1>2, <1>6, AloneStep DEF OrderInv
<1> QED
  BY <1>2, <1>5, <1>6, <1>7, <1>8, UpToDateStep, FreshStep DEF OrderInv

\* A server that gives up takes the name of its list away.
LEMMA GiveUpOrder ==
    ASSUME BaseInv, OrderInv, GiveUp, faults' \in 0 .. MaxFaults
    PROVE  OrderInv'
<1> DEFINE p == "server"
<1>1. /\ pc[p] = "giveUp" /\ segs' = segs /\ p \in Procs
      /\ named' = named \/ named' = [named EXCEPT !["list"] = 0]
      /\ Lands(p, "down", "meta", NoMap, 0, FALSE, 0)
  BY GiveUpBase, ProcFacts
<1>2. OthersStay(p) /\ pc'[p] = "down" /\ map'[p] = NoMap
  BY <1>1 DEF Lands
<1>3. named'["meta"] = named["meta"]
  BY <1>1 DEF BaseInv, TypeOK, Names
<1>4. map'["proxy"] = map["proxy"] /\ pc'["proxy"] = pc["proxy"]
  BY <1>2, ProcFacts DEF OthersStay
<1>5. UpToDateAt(p)' /\ FreshAt(p)'
  BY <1>2 DEF UpToDateAt, FreshAt, Steady
<1>6. pc[p] \notin Steady
  BY <1>1 DEF Steady
<1>7. pc["proxy"] \in Steady
  BY <1>6, OthersRest, ProcFacts DEF OrderInv
<1>8. Keeps'
  BY <1>1, <1>2, <1>3, <1>4, <1>7 DEF OrderInv, Keeps, Offline, Told, Ending, Steady
<1>9. Alone'
  BY <1>1, <1>2, <1>6, AloneStep DEF OrderInv
<1> QED
  BY <1>1, <1>2, <1>5, <1>6, <1>8, <1>9, UpToDateStep, FreshStep DEF OrderInv

\* Every step keeps OrderInv.
LEMMA OrderKinds ==
    ASSUME BaseInv, OrderInv, Kinds, faults' \in 0 .. MaxFaults PROVE OrderInv'
<1>1. ASSUME NEW p \in Procs, NEW s \in Names,
             \/ OpenExcl(p, s) \/ Reopen(p, s) \/ Truncate(p, s)
             \/ Map(p, s) \/ InitSegment(p, s)
      PROVE  OrderInv'
  BY <1>1, OpenNewOrder, OpenOldOrder, ReopenOrder, TruncateOrder, MapOrder, InitSegmentOrder
<1>2. ASSUME NEW p \in Procs, Lists(p) \/ EraseList(p) \/ DestroyMetanode(p)
      PROVE  OrderInv'
  BY <1>2, ListsOrder, EraseListOrder, EraseMetaOrder
<1>3. CASE Aborts
  BY <1>3, AbortBase, GoneOrder DEF Aborts, Abort
<1>4. CASE Retries \/ NoMeta \/ GiveUp
  BY <1>4, RetryOrder, NoMetaOrder, GiveUpOrder
<1>5. CASE SetServerFlag \/ SetNum \/ Bind
  BY <1>5, ServerWayOrder
<1>6. CASE Answer \/ Post \/ Collect
  BY <1>6, ExchangeOrder
<1>7. CASE ReadFlag \/ SetDefault \/ SetProxyFlag \/ CheckFlag
  BY <1>7, ProxyWayOrder, SetProxyFlagOrder, CheckFlagOrder
<1> QED
  BY <1>1, <1>2, <1>3, <1>4, <1>5, <1>6, <1>7 DEF Kinds

----------------------------------------------------------------------------
(* As long as, besides, no pair of segments is torn apart.                 *)

\* Most steps leave the names and what the proxy has mapped as they are.
LEMMA PairedFrame ==
    ASSUME BaseInv, Paired, NEW p \in Procs, OthersStay(p), named' = named,
           p = "proxy" => \/ pc'[p] \notin {"up", "wait", "checkFlag"}
                          \/ pc[p] \in {"up", "wait", "checkFlag"} /\ map'[p] = map[p],
           p = "server" => pc[p] # "destroyMeta"
    PROVE  Paired'
<1>1. CASE p = "proxy"
  <2>1. pc'["server"] = pc["server"]
    BY <1>1, ProcFacts DEF OthersStay
  <2> QED
    BY <1>1, <2>1 DEF Paired
<1>2. CASE p # "proxy"
  <2>1. pc'["proxy"] = pc["proxy"] /\ map'["proxy"] = map["proxy"]
        /\ (pc["server"] = "destroyMeta" => pc'["server"] = "destroyMeta")
    BY <1>2, ProcFacts DEF OthersStay
  <2> QED
    BY <2>1 DEF Paired
<1> QED
  BY <1>1, <1>2

\* While a segment is made the proxy, if it is not the maker, has neither a new
\* name nor only one of two.
LEMMA CreatePaired ==
    ASSUME BaseInv, OrderInv, Paired, NEW p \in Procs, NEW s \in Names,
           \/ OpenExcl(p, s) \/ Reopen(p, s) \/ Truncate(p, s)
           \/ Map(p, s) \/ InitSegment(p, s),
           faults' \in 0 .. MaxFaults
    PROVE  Paired'
<1>1. pc[p] \in Creating
  BY DEF OpenExcl, Reopen, Truncate, Map, InitSegment, Inside, Creating
<1>2. OthersStay(p) /\ pc'[p] \notin Steady \cup {"checkFlag"}
  <2>1. After(p, s) \notin Steady \cup {"checkFlag"}
    BY DEF After, Steady, Procs, Names
  <2> QED
    BY <2>1, OpenNewBase, OpenOldBase, ReopenBase, TruncateBase, MapBase, InitSegmentBase
    DEF Lands, Steady
<1>3. CASE named' = named
  BY <1>1, <1>2, <1>3, PairedFrame DEF Creating, Steady
<1>4. CASE named' # named
  <2>1. /\ OpenExcl(p, s) /\ named[s] = 0 /\ Len(segs) \in Nat /\ TypeOK
        /\ named' = [named EXCEPT ![s] = Len(segs) + 1]
    BY <1>4, SeqFacts DEF OpenExcl, Reopen, Truncate, Map, InitSegment, BaseInv, TypeOK
  <2>2. CASE p = "server"
    <3>1. /\ pc["proxy"] \in Steady /\ pc'["proxy"] = pc["proxy"]
          /\ map'["proxy"] = map["proxy"]
      BY <1>1, <1>2, <2>2, OthersRest, ProcFacts DEF OrderInv, OthersStay, Steady, Creating
    <3>2. pc["server"] # "destroyMeta"
      BY <1>1, <2>2 DEF Creating
    <3>3. ASSUME pc["proxy"] \in {"up", "wait"}, NEW x \in Names
          PROVE  map["proxy"][x] = named'[x] <=> map["proxy"][x] = named[x]
      <4>1. map["proxy"][x] \in 1 .. Len(segs)
        BY <3>3, Mapped2, ProcFacts DEF Mapping
      <4>2. map["proxy"][x] # Len(segs) + 1 /\ map["proxy"][x] # 0
        BY <2>1, <4>1
      <4>3. named'[x] = IF x = s THEN Len(segs) + 1 ELSE named[x]
        BY <2>1 DEF TypeOK
      <4> QED
        BY <2>1, <4>2, <4>3
    <3> QED
      BY <3>1, <3>2, <3>3, ProcFacts DEF Paired, Steady
  <2>3. CASE p = "proxy"
    BY <1>2, <2>3 DEF Paired, Steady
  <2>4. CASE p = "delete"
    <3>1. pc'["proxy"] = "down"
      BY <1>1, <1>2, <2>4, OthersRest, ProcFacts DEF OrderInv, OthersStay, Steady, Creating
    <3> QED
      BY <3>1 DEF Paired
  <2> QED
    BY <2>2, <2>3, <2>4 DEF Procs
<1> QED
  BY <1>3, <1>4

\* The list goes, and then the metanode.
LEMMA ErasePaired ==
    ASSUME BaseInv, OrderInv, Paired, NEW p \in Procs, EraseList(p) \/ DestroyMetanode(p),
           faults' \in 0 .. MaxFaults
    PROVE  Paired'
<1>1. /\ pc[p] \in {"destroyList", "destroyMeta"} /\ OthersStay(p)
      /\ pc'[p] = IF pc[p] = "destroyList" THEN "destroyMeta" ELSE "down"
  BY DestroyListBase, DestroyMetaBase DEF EraseList, Lands
<1>2. CASE p = "server"
  <2>1. /\ pc["proxy"] \in Steady /\ pc'["proxy"] = pc["proxy"]
        /\ map'["proxy"] = map["proxy"]
    BY <1>1, <1>2, OthersRest, ProcFacts DEF OrderInv, OthersStay, Steady
  <2>2. CASE pc[p] = "destroyList"
    BY <1>1, <1>2, <2>2 DEF Paired
  <2>3. CASE pc[p] = "destroyMeta"
    <3>1. named["list"] = 0 /\ named' = [named EXCEPT !["meta"] = 0]
      BY <1>2, <2>3, DestroyMetaBase DEF OrderInv, Keeps, EraseList, DestroyMemList
    <3>2. named'["list"] = 0 /\ named'["meta"] = 0
      BY <3>1 DEF BaseInv, TypeOK, Names
    <3>3. pc["proxy"] \in {"up", "wait"} => \A x \in Names : map["proxy"][x] # 0
      BY ProcFacts DEF BaseInv, TypeOK
    <3> QED
      BY <2>1, <3>2, <3>3, ProcFacts DEF Paired, Steady
  <2> QED
    BY <1>1, <2>2, <2>3
<1>3. CASE p = "proxy"
  BY <1>1, <1>3 DEF Paired
<1>4. CASE p = "delete"
  <2>1. pc'["proxy"] = "down"
    BY <1>1, <1>4, OthersRest, ProcFacts DEF OrderInv, OthersStay, Steady
  <2> QED
    BY <2>1 DEF Paired
<1> QED
  BY <1>2, <1>3, <1>4 DEF Procs

\* A proxy that comes up has both segments that bear the names.
LEMMA SetProxyFlagPaired ==
    ASSUME BaseInv, OrderInv, SetProxyFlag, faults' \in 0 .. MaxFaults
    PROVE  Paired'
<1> DEFINE p == "proxy"
<1>1. pc[p] = "setProxyFlag" /\ named' = named /\ p \in Procs
  BY ProcFacts DEF SetProxyFlag, Access, MetaStep
<1>2. map'[p] = map[p]
  BY SetProxyFlagBase DEF Lands
<1>3. \A x \in Names : map[p][x] = named[x]
  <2>1. \A x \in Names : Has(p, x)
    BY <1>1 DEF Has, Mapping
  <2> QED
    BY <1>1, <2>1 DEF OrderInv, UpToDate, UpToDateAt, Steady, Ending
<1> QED
  BY <1>1, <1>2, <1>3, ProcFacts DEF Paired

\* Every step keeps Paired, except one that tears the pair apart.
LEMMA PairedKinds ==
    ASSUME BaseInv, OrderInv, Paired, Kinds, rough' # "torn", faults' \in 0 .. MaxFaults
    PROVE  Paired'
<1>1. ASSUME NEW p \in Procs, NEW s \in Names,
             \/ OpenExcl(p, s) \/ Reopen(p, s) \/ Truncate(p, s)
             \/ Map(p, s) \/ InitSegment(p, s)
      PROVE  Paired'
  BY <1>1, CreatePaired
<1>2. ASSUME NEW p \in Procs, Lists(p) PROVE Paired'
  <2>1. p # "server" /\ OthersStay(p) /\ named' = named /\ pc'[p] = "open"
    BY <1>2, ReadNumBase DEF Lists, Lands
  <2> QED
    BY <2>1, PairedFrame
<1>3. ASSUME NEW p \in Procs, EraseList(p) \/ DestroyMetanode(p) PROVE Paired'
  BY <1>3, ErasePaired
<1>4. ASSUME NEW p \in Procs, Abort(p) PROVE Paired'
  <2>1. /\ named' = named /\ OthersStay(p) /\ pc'[p] = "down"
        /\ (pc[p] = "destroyMeta" => rough' = "torn")
    BY <1>4, AbortBase DEF Abort, Lands
  <2> QED
    BY <2>1, PairedFrame
<1>5. CASE Retries \/ NoMeta
  <2>1. /\ pc["server"] # "destroyMeta" /\ named' = named /\ OthersStay("server")
    BY <1>5, RetryBase, NoMetaBase, ProcFacts DEF Retries, NoMeta, Failing, Creating, Lands
  <2> QED
    BY <2>1, PairedFrame, ProcFacts
<1>6. CASE SetServerFlag \/ SetNum \/ Bind
  <2>1. /\ pc["server"] # "destroyMeta" /\ named' = named /\ OthersStay("server")
    BY <1>6, SetServerFlagBase, SetNumBase, BindBase
    DEF SetServerFlag, SetNum, Bind, Access, MetaStep, Lands
  <2> QED
    BY <2>1, PairedFrame, ProcFacts
<1>7. CASE Answer
  <2>1. /\ pc["server"] # "destroyMeta" /\ named' = named /\ OthersStay("server")
    BY <1>7, AnswerBase DEF Answer, Lands
  <2> QED
    BY <2>1, PairedFrame, ProcFacts
<1>8. CASE Post \/ Collect
  <2>1. /\ pc["proxy"] \in {"up", "wait"} /\ map'["proxy"] = map["proxy"]
        /\ named' = named /\ OthersStay("proxy")
    BY <1>8, PostBase, CollectBase DEF Post, Collect, Lands
  <2> QED
    BY <2>1, PairedFrame, ProcFacts
<1>9. CASE ReadFlag \/ SetDefault
  <2>1. pc'["proxy"] \in {"setDefault", "readNum"} /\ named' = named /\ OthersStay("proxy")
    BY <1>9, ReadFlagBase, SetDefaultBase DEF ReadFlag, SetDefault, MetaStep, Lands
  <2> QED
    BY <2>1, PairedFrame, ProcFacts
<1>10. CASE CheckFlag
  <2>1. pc'["proxy"] \in {"destroyList", "down"}
    BY <1>10, CheckFlagBase, LeaveBase DEF Lands
  <2> QED
    BY <2>1 DEF Paired
<1>11. CASE GiveUp
  BY <1>11, GiveUpBase
<1> QED
  BY <1>1, <1>2, <1>3, <1>4, <1>5, <1>6, <1>7, <1>8, <1>9, <1>10, <1>11, SetProxyFlagPaired
  DEF Kinds, Aborts

\* So does a start and the beginning of an end.
LEMMA BeginPaired ==
    ASSUME BaseInv, Paired, NEW p \in Procs, Start(p) \/ Shutdown(p)
    PROVE  Paired'
<1>1. CASE Start(p)
  <2>1. OthersStay(p) /\ pc'[p] = "open" /\ named' = named /\ pc[p] = "down"
    BY <1>1, StartBase DEF Lands
  <2> QED
    BY <2>1, PairedFrame
<1>2. CASE Shutdown(p)
  <2>1. OthersStay(p) /\ pc[p] = "up" /\ named' = named /\ map'[p] = map[p]
    BY <1>2, ShutdownBase DEF Lands
  <2> QED
    BY <2>1, PairedFrame
<1> QED
  BY <1>1, <1>2

----------------------------------------------------------------------------
(* As long as, besides, every process has ended in order.                  *)

\* What "server DELETE" finds if there was nothing to delete.
DeleteIdle ==
    pc["delete"] # "down" =>
        /\ pc["delete"] \in {"open", "truncate", "map", "init", "readNum"}
        /\ seg["delete"] = "meta"
        /\ named["meta"] # 0 => segs[named["meta"]].numNodes = 0

\* No step of another process while "server DELETE" is at work.
LEMMA DeleteRests ==
    ASSUME BaseInv, Alone, NEW p \in Procs \ {"delete"}, pc[p] # "down"
    PROVE  pc["delete"] = "down"
  BY ProcFacts DEF Alone

\* Owners stay owners unless they do something about it.
LEMMA OwnersStay ==
    ASSUME NEW p \in Procs, OthersStay(p), p # "server" => retried' = retried,
           NEW q \in Procs \ {p}, NEW s \in Names, named'[s] = named[s], Owner(q, s)
    PROVE  Owner(q, s)'
<1>1. /\ pc'[q] = pc[q] /\ seg'[q] = seg[q] /\ map'[q] = map[q] /\ exists'[q] = exists[q]
      /\ q = "server" => retried' = retried
  BY DEF OthersStay
<1> QED
  BY <1>1 DEF Owner, Has

\* What a step has to leave alone for every name to have an owner.
LEMMA OwnedFrame ==
    ASSUME BaseInv, Owned, NEW p \in Procs, OthersStay(p), named' = named,
           p # "server" => retried' = retried,
           p = "server" => pc[p] # "giveUp" /\ (pc[p] \in Told => pc'[p] \in Told),
           (p = "server" /\ pc'[p] = "giveUp") \/ \A s \in Names : Owner(p, s) => Owner(p, s)',
           named["meta"] # 0 /\ pc'["server"] \notin Told /\ Offline(named["meta"]) =>
             segs'[named["meta"]].serverFlag = "OFFLINE",
           DeleteIdle'
    PROVE  Owned'
<1>1. p # "server" => pc'["server"] = pc["server"]
  BY ProcFacts DEF OthersStay
<1>2. ASSUME pc'["server"] # "giveUp", NEW s \in Names, named'[s] # 0
      PROVE  \E q \in Procs : Owner(q, s)'
  <2>1. PICK q \in Procs : Owner(q, s)
    BY <1>1, <1>2 DEF Owned
  <2> QED
    BY <1>2, <2>1, OwnersStay
<1>3. named'["meta"] # 0 /\ pc'["server"] \notin Told => Offline(named["meta"])'
  BY <1>1 DEF Owned, Offline
<1> QED
  BY <1>2, <1>3 DEF Owned, DeleteIdle

\* A segment with a name is one of the segments.
LEMMA NamedSegment ==
    ASSUME BaseInv, NEW s \in Names, named[s] # 0
    PROVE  named[s] \in 1 .. Len(segs)
<1>1. named[s] \in 0 .. Len(segs) /\ Len(segs) \in Nat
  BY SeqFacts DEF BaseInv, TypeOK
<1> QED
  BY <1>1

\* Who makes a segment owns its name.
LEMMA OpenNewOwned ==
    ASSUME BaseInv, OrderInv, Owned, NEW p \in Procs, NEW s \in Names, OpenExcl(p, s),
           named[s] = 0, faults' \in 0 .. MaxFaults
    PROVE  Owned'
<1>1. /\ TypeOK /\ Len(segs) \in Nat /\ pc[p] = "open" /\ seg[p] = s /\ retried' = retried
      /\ named' = [named EXCEPT ![s] = Len(segs) + 1] /\ segs' = Append(segs, NewSegment)
  BY SeqFacts DEF BaseInv, TypeOK, OpenExcl, Inside
<1>2. Lands(p, "truncate", s, map[p], Len(segs) + 1, FALSE, nodes[p])
  BY OpenNewBase
<1>3. named'[s] = Len(segs) + 1 /\ \A x \in Names : x # s => named'[x] = named[x]
  BY <1>1 DEF TypeOK
<1>4. pc'["server"] \in Told <=> pc["server"] \in Told
  BY <1>1, <1>2, ProcFacts DEF Lands, OthersStay, Told
<1>5. ASSUME pc'["server"] # "giveUp", NEW x \in Names, named'[x] # 0
      PROVE  \E q \in Procs : Owner(q, x)'
  <2>1. CASE x = s
    BY <1>2, <2>1 DEF Owner, Lands
  <2>2. CASE x # s
    <3>1. named'[x] = named[x]
      BY <1>3, <2>2
    <3>2. pc["server"] # "giveUp"
      BY <1>1, <1>2, <1>5, ProcFacts DEF Lands, OthersStay
    <3>3. PICK q \in Procs : Owner(q, x)
      BY <1>5, <3>1, <3>2 DEF Owned
    <3>4. CASE q = p
      BY <1>1, <1>2, <2>2, <3>1, <3>3, <3>4 DEF Owner, Has, Lands, Creating, Mapping, Halfway
    <3>5. CASE q # p
      BY <1>1, <1>2, <3>1, <3>3, <3>5, OwnersStay DEF Lands
    <3> QED
      BY <3>4, <3>5
  <2> QED
    BY <2>1, <2>2
<1>6. /\ segs'[Len(segs) + 1].serverFlag = "OFFLINE" /\ segs'[Len(segs) + 1].numNodes = 0
      /\ \A x \in 1 .. Len(segs) : segs'[x] = segs[x]
  BY <1>1, AppendSegment DEF TypeOK, NewSegment
<1>7. named'["meta"] # 0 /\ pc'["server"] \notin Told => segs'[named'["meta"]].serverFlag = "OFFLINE"
  <2>1. CASE s = "meta"
    BY <1>3, <1>6, <2>1
  <2>2. CASE s # "meta"
    BY <1>3, <1>4, <1>6, <2>2, NamedSegment, ProcFacts DEF Owned, Offline
  <2> QED
    BY <2>1, <2>2
<1>8. DeleteIdle'
  <2>1. CASE p = "delete"
    <3>1. s = "meta"
      BY <1>1, <2>1 DEF Owned
    <3> QED
      BY <1>2, <1>3, <1>6, <2>1, <3>1 DEF DeleteIdle, Lands
  <2>2. CASE p # "delete"
    <3>1. pc'["delete"] = "down"
      BY <1>1, <1>2, <2>2, DeleteRests, ProcFacts DEF OrderInv, Lands, OthersStay
    <3> QED
      BY <3>1 DEF DeleteIdle
  <2> QED
    BY <2>1, <2>2
<1> QED
  BY <1>5, <1>7, <1>8 DEF Owned, DeleteIdle, Offline

\* Nothing is there when "server DELETE" opens the metanode.
LEMMA OpenOldOwned ==
    ASSUME BaseInv, OrderInv, Owned, NEW p \in Procs, NEW s \in Names, OpenExcl(p, s),
           named[s] # 0, faults' \in 0 .. MaxFaults
    PROVE  Owned'
<1>1. pc[p] = "open" /\ seg[p] = s /\ UNCHANGED <<segs, named, retried>>
  BY DEF OpenExcl, Inside
<1>2. Lands(p, "reopen", s, map[p], 0, TRUE, nodes[p])
  BY OpenOldBase
<1>3. p # "delete"
  <2> SUFFICES ASSUME p = "delete" PROVE FALSE
    OBVIOUS
  <2>1. s = "meta"
    BY <1>1 DEF Owned
  <2>2. \A q \in Procs \ {p} : pc[q] = "down"
    BY <1>1, OthersRest DEF OrderInv, Steady
  <2>3. PICK q \in Procs : Owner(q, s)
    <3>1. pc["server"] # "giveUp"
      BY <2>2, ProcFacts
    <3> QED
      BY <3>1 DEF Owned
  <2> QED
    BY <1>1, <2>1, <2>2, <2>3 DEF Owner, Has, Creating, Mapping, Halfway, FirstOf
<1>4. \A x \in Names : Owner(p, x) => Owner(p, x)'
  BY <1>1, <1>2 DEF Owner, Has, Lands, Creating, Mapping, Halfway
<1>5. DeleteIdle'
  BY <1>1, <1>2, <1>3, DeleteRests, ProcFacts DEF OrderInv, Lands, OthersStay, DeleteIdle
<1>6. pc[p] # "giveUp" /\ pc[p] \notin Told
  BY <1>1 DEF Told
<1> QED
  BY <1>1, <1>2, <1>4, <1>5, <1>6, OwnedFrame DEF Lands, Offline

\* shm_open() of what bears the name takes it from nobody.
LEMMA ReopenOwned ==
    ASSUME BaseInv, OrderInv, Owned, NEW p \in Procs, NEW s \in Names, Reopen(p, s),
           faults' \in 0 .. MaxFaults
    PROVE  Owned'
<1>1. pc[p] = "reopen" /\ seg[p] = s /\ UNCHANGED <<segs, named, retried>>
  BY DEF Reopen, Inside
<1>2. Lands(p, "map", s, map[p], named[s], TRUE, nodes[p])
  BY ReopenBase
<1>3. p # "delete"
  BY <1>1 DEF Owned
<1>4. \A x \in Names : Owner(p, x) => Owner(p, x)'
  BY <1>1, <1>2 DEF Owner, Has, Lands, Creating, Mapping, Halfway
<1>5. DeleteIdle'
  BY <1>1, <1>2, <1>3, DeleteRests, ProcFacts DEF OrderInv, Lands, OthersStay, DeleteIdle
<1>6. pc[p] # "giveUp" /\ pc[p] \notin Told
  BY <1>1 DEF Told
<1> QED
  BY <1>1, <1>2, <1>4, <1>5, <1>6, OwnedFrame DEF Lands, Offline

\* ftruncate() takes no name away either.
LEMMA TruncateOwned ==
    ASSUME BaseInv, OrderInv, Owned, NEW p \in Procs, NEW s \in Names, Truncate(p, s),
           faults' \in 0 .. MaxFaults
    PROVE  Owned'
<1>1. /\ pc[p] = "truncate" /\ seg[p] = s /\ UNCHANGED <<named, retried>>
      /\ segs' = [segs EXCEPT ![fd[p]].size = BlockSize(p, s)]
  BY DEF Truncate, Inside
<1>2. Lands(p, "map", s, map[p], fd[p], FALSE, nodes[p]) /\ fd[p] \in 1 .. Len(segs)
  BY TruncateBase
<1>3. \A x \in 1 .. Len(segs) : segs'[x].serverFlag = segs[x].serverFlag /\ segs'[x].numNodes = segs[x].numNodes
  BY <1>1, <1>2, SizeWrite, BlockSizeType DEF BaseInv, TypeOK
<1>4. \A x \in Names : Owner(p, x) => Owner(p, x)'
  BY <1>1, <1>2 DEF Owner, Has, Lands, Creating, Mapping, Halfway
<1>5. DeleteIdle'
  <2>1. CASE p = "delete"
    BY <1>1, <1>2, <1>3, <2>1, NamedSegment, ProcFacts DEF Owned, Lands, DeleteIdle
  <2>2. CASE p # "delete"
    BY <1>1, <1>2, <2>2, DeleteRests, ProcFacts DEF OrderInv, Lands, OthersStay, DeleteIdle
  <2> QED
    BY <2>1, <2>2
<1>6. pc[p] # "giveUp" /\ pc[p] \notin Told
  BY <1>1 DEF Told
<1> QED
  BY <1>1, <1>2, <1>3, <1>4, <1>5, <1>6, OwnedFrame, NamedSegment, ProcFacts DEF Lands, Offline

\* Who has mapped the segment it made, owns the name.
LEMMA MapOwned ==
    ASSUME BaseInv, OrderInv, Owned, NEW p \in Procs, NEW s \in Names, Map(p, s),
           faults' \in 0 .. MaxFaults
    PROVE  Owned'
<1> DEFINE m == [map[p] EXCEPT ![s] = fd[p]]
           l == IF exists[p] THEN After(p, s) ELSE "init"
           t == IF exists[p] THEN NextSeg(p, s) ELSE s
<1>1. pc[p] = "map" /\ seg[p] = s /\ UNCHANGED <<segs, named, retried>>
  BY DEF Map, Inside
<1>2. Lands(p, l, t, m, 0, exists[p], nodes[p])
  BY MapBase DEF BaseInv, TypeOK
<1>3. m[s] = fd[p] /\ \A x \in Names : x # s => m[x] = map[p][x]
  BY DEF BaseInv, TypeOK
<1>4. /\ l = "open" => p = "server" /\ s = "list" /\ t = "meta"
      /\ l \in Mapping \cup Halfway \cup {"open", "init"}
      /\ l \in Halfway => s = FirstOf(p)
      /\ l = "init" => t = s
      /\ p = "delete" /\ s = "meta" => l \in {"init", "readNum"} /\ t = "meta"
  BY DEF After, NextSeg, Procs, Names, Mapping, Halfway, FirstOf
<1> HIDE DEF m, l, t
<1>5. fd[p] = named[s]
  BY <1>1 DEF OrderInv, UpToDate, UpToDateAt
<1>6. ASSUME NEW x \in Names, Owner(p, x) PROVE Owner(p, x)'
  <2>1. x # s => Has(p, x) /\ map[p][x] = named[x] /\ x = FirstOf(p)
    BY <1>1, <1>6 DEF Owner, Has, Creating, Mapping, Halfway
  <2>2. Has(p, x)'
    BY <1>1, <1>2, <1>4, <2>1 DEF Has, Lands, Creating, Mapping, Halfway, FirstOf
  <2>3. map'[p][x] = named'[x]
    BY <1>1, <1>2, <1>3, <1>5, <2>1 DEF Lands
  <2> QED
    BY <2>2, <2>3 DEF Owner
<1>7. DeleteIdle'
  <2>1. CASE p = "delete"
    BY <1>1, <1>2, <1>4, <2>1 DEF Owned, Lands, DeleteIdle
  <2>2. CASE p # "delete"
    BY <1>1, <1>2, <2>2, DeleteRests, ProcFacts DEF OrderInv, Lands, OthersStay, DeleteIdle
  <2> QED
    BY <2>1, <2>2
<1>8. pc[p] # "giveUp" /\ pc[p] \notin Told
  BY <1>1 DEF Told
<1> QED
  BY <1>1, <1>2, <1>6, <1>7, <1>8, OwnedFrame DEF Lands, Offline

\* A new metanode says OFFLINE and has no nodes.
LEMMA InitSegmentOwned ==
    ASSUME BaseInv, OrderInv, Owned, NEW p \in Procs, NEW s \in Names, InitSegment(p, s),
           faults' \in 0 .. MaxFaults
    PROVE  Owned'
<1> DEFINE l == After(p, s)
           t == NextSeg(p, s)
           o == map[p][s]
<1>1. /\ pc[p] = "init" /\ seg[p] = s /\ UNCHANGED <<named, retried>> /\ segs \in Seq(Segment)
      /\ segs' = [segs EXCEPT ![o] = [NewSegment EXCEPT !.size = segs[o].size]]
  BY DEF InitSegment, Inside, BaseInv, TypeOK
<1>2. Lands(p, l, t, map[p], 0, FALSE, nodes[p]) /\ o \in 1 .. Len(segs)
  BY InitSegmentBase
<1>3. /\ l = "open" => p = "server" /\ s = "list" /\ t = "meta"
      /\ l \in Mapping \cup Halfway \cup {"open"}
      /\ l \in Halfway => s = FirstOf(p)
      /\ p = "delete" /\ s = "meta" => l = "readNum" /\ t = "meta"
  BY DEF After, NextSeg, Procs, Names, Mapping, Halfway, FirstOf
<1> HIDE DEF l, t, o
<1>4. \A x \in Names : Has(p, x) => map[p][x] = named[x]
  BY <1>1 DEF OrderInv, UpToDate, UpToDateAt, Steady, Ending
<1>5. ASSUME NEW x \in Names, Owner(p, x) PROVE Owner(p, x)'
  <2>1. x # s => Has(p, x) /\ x = FirstOf(p)
    BY <1>1, <1>5 DEF Owner, Has, Creating, Mapping, Halfway
  <2>2. Has(p, x)
    BY <1>1, <2>1 DEF Has
  <2>3. Has(p, x)'
    BY <1>1, <1>2, <1>3, <2>1 DEF Has, Lands, Creating, Mapping, Halfway, FirstOf
  <2> QED
    BY <1>1, <1>2, <1>4, <2>2, <2>3 DEF Owner, Lands
<1>6. /\ segs'[o].serverFlag = "OFFLINE" /\ segs'[o].numNodes = 0
      /\ \A x \in 1 .. Len(segs) : x # o => segs'[x] = segs[x]
  BY <1>1, <1>2, RenewSegment
<1>7. DeleteIdle'
  <2>1. CASE p = "delete"
    BY <1>1, <1>2, <1>3, <1>6, <2>1, NamedSegment, ProcFacts DEF Owned, Lands, DeleteIdle
  <2>2. CASE p # "delete"
    BY <1>1, <1>2, <2>2, DeleteRests, ProcFacts DEF OrderInv, Lands, OthersStay, DeleteIdle
  <2> QED
    BY <2>1, <2>2
<1>8. pc[p] # "giveUp" /\ pc[p] \notin Told
  BY <1>1 DEF Told
<1>9. named["meta"] # 0 /\ Offline(named["meta"]) => segs'[named["meta"]].serverFlag = "OFFLINE"
  BY <1>6, NamedSegment, ProcFacts DEF Offline
<1> QED
  BY <1>1, <1>2, <1>5, <1>7, <1>8, <1>9, OwnedFrame DEF Lands

\* The server's failing calls: it still answers for the list it may have made.
LEMMA RetryOwned ==
    ASSUME BaseInv, OrderInv, Owned, Retries, faults' \in 0 .. MaxFaults PROVE Owned'
<1> DEFINE p == "server"
<1>1. /\ pc[p] \in {"reopen", "truncate", "map"} /\ seg[p] = "list" /\ p \in Procs
      /\ UNCHANGED <<segs, named>> /\ retried'
      /\ Lands(p, "open", "list", map[p], 0, exists[p], NUMSEGMENTS)
  BY RetryBase, ProcFacts DEF Retries, Failing, Creating
<1>2. \A x \in Names : Owner(p, x) => Owner(p, x)'
  BY <1>1 DEF Owner, Has, Lands, Creating, Mapping, Halfway, FirstOf
<1>3. DeleteIdle'
  BY <1>1, DeleteRests, ProcFacts DEF OrderInv, Lands, OthersStay, DeleteIdle
<1>4. pc[p] # "giveUp" /\ pc[p] \notin Told
  BY <1>1 DEF Told
<1> QED
  BY <1>1, <1>2, <1>3, <1>4, OwnedFrame DEF Lands, Offline

\* The server is about to give up.
LEMMA NoMetaOwned ==
    ASSUME BaseInv, OrderInv, Owned, NoMeta, faults' \in 0 .. MaxFaults PROVE Owned'
<1> DEFINE p == "server"
<1>1. /\ pc[p] \in {"reopen", "truncate", "map"} /\ p \in Procs
      /\ UNCHANGED <<segs, named>>
      /\ Lands(p, "giveUp", "meta", map[p], 0, exists[p], nodes[p])
  BY NoMetaBase, ProcFacts DEF NoMeta, Failing, Creating
<1>2. DeleteIdle'
  BY <1>1, DeleteRests, ProcFacts DEF OrderInv, Lands, OthersStay, DeleteIdle
<1>3. pc[p] # "giveUp" /\ pc[p] \notin Told
  BY <1>1 DEF Told
<1> QED
  BY <1>1, <1>2, <1>3, OwnedFrame DEF Lands, Offline

\* A process that has mapped its segments keeps them from step to step.
LEMMA HoldOwned ==
    ASSUME BaseInv, OrderInv, Owned, NEW p \in Procs \ {"delete"}, NEW l, NEW t, NEW n,
           pc[p] \in Mapping \cup Halfway, Lands(p, l, t, map[p], 0, exists[p], n),
           \A x \in Names : Has(p, x) => Has(p, x)',
           named' = named, retried' = retried,
           p = "server" => pc[p] # "giveUp" /\ (pc[p] \in Told => l \in Told),
           named["meta"] # 0 /\ pc'["server"] \notin Told /\ Offline(named["meta"]) =>
             segs'[named["meta"]].serverFlag = "OFFLINE"
    PROVE  Owned'
<1>1. pc[p] \notin Creating /\ pc[p] # "down"
  BY DEF Mapping, Halfway, Creating
<1>2. \A x \in Names : Owner(p, x) => Owner(p, x)'
  BY <1>1 DEF Owner, Lands, Creating
<1>3. DeleteIdle'
  BY <1>1, DeleteRests, ProcFacts DEF OrderInv, Lands, OthersStay, DeleteIdle
<1> QED
  BY <1>2, <1>3, OwnedFrame DEF Lands

\* The server, on its way up, owns both names.
LEMMA ServerWayOwned ==
    ASSUME BaseInv, OrderInv, Owned, SetServerFlag \/ SetNum \/ Bind, faults' \in 0 .. MaxFaults
    PROVE  Owned'
<1> DEFINE p == "server"
<1>1. /\ pc[p] \in {"setServerFlag", "setNum", "bind"} /\ named' = named /\ retried' = retried
      /\ p \in Procs \ {"delete"}
  BY ProcFacts DEF SetServerFlag, SetNum, Bind, Access, MetaStep
<1>2. PICK l \in {"setNum", "bind", "up"} :
        Lands(p, l, seg[p], map[p], 0, exists[p], nodes[p])
  BY SetServerFlagBase, SetNumBase, BindBase
<1>3. l \in Told /\ pc[p] # "giveUp" /\ pc[p] \in Mapping
  BY <1>1 DEF Told, Mapping
<1>4. \A x \in Names : Has(p, x) => Has(p, x)'
  BY <1>2 DEF Has, Lands, Mapping
<1>5. pc'["server"] \in Told
  BY <1>2, <1>3 DEF Lands
<1> QED
  BY <1>1, <1>2, <1>3, <1>4, <1>5, HoldOwned

\* So does the proxy on its way up, or the names are those of a server.
LEMMA ProxyWayOwned ==
    ASSUME BaseInv, OrderInv, Owned, ReadFlag \/ SetDefault \/ SetProxyFlag,
           faults' \in 0 .. MaxFaults
    PROVE  Owned'
<1> DEFINE p == "proxy"
<1>1. /\ pc[p] \in {"readFlag", "setDefault", "setProxyFlag"} /\ named' = named
      /\ retried' = retried /\ p \in Procs \ {"delete"}
  BY ProcFacts DEF ReadFlag, SetDefault, SetProxyFlag, Access, MetaStep
<1>2. PICK l \in {"setDefault", "readNum", "up"} :
        /\ Lands(p, l, seg[p], map[p], 0, exists[p], nodes[p])
        /\ l = "up" <=> pc[p] = "setProxyFlag"
  BY ReadFlagBase, SetDefaultBase, SetProxyFlagBase DEF ReadFlag, SetDefault, SetProxyFlag, Access
<1>3. pc[p] \in Mapping \cup Halfway
  BY <1>1 DEF Mapping, Halfway
<1>4. \A x \in Names : Has(p, x) => Has(p, x)'
  BY <1>1, <1>2 DEF Has, Lands, Mapping, Halfway, Creating
<1>5. \A x \in 1 .. Len(segs) : segs'[x].serverFlag = segs[x].serverFlag
  <2>1. CASE ReadFlag
    BY <2>1 DEF ReadFlag
  <2>2. CASE SetDefault
    <3>1. NUMSEGMENTS \in 0 .. MaxNodes /\ map[p]["meta"] \in 1 .. Len(segs)
      BY <2>2, MaxNodesFacts, SetDefaultBase
    <3> QED
      BY <2>2, <3>1, NumNodesWrite DEF BaseInv, TypeOK, SetDefault
  <2>3. CASE SetProxyFlag
    <3>1. map[p]["meta"] \in 1 .. Len(segs)
      BY <2>3, SetProxyFlagBase
    <3> QED
      BY <2>3, <3>1, ProxyFlagWrite DEF BaseInv, TypeOK, SetProxyFlag
  <2> QED
    BY <2>1, <2>2, <2>3
<1>6. named["meta"] # 0 /\ Offline(named["meta"]) => segs'[named["meta"]].serverFlag = "OFFLINE"
  BY <1>5, NamedSegment, ProcFacts DEF Offline
<1> QED
  BY <1>1, <1>2, <1>3, <1>4, <1>6, HoldOwned

\* "server DELETE" finds no number of nodes if there was nothing to delete.
LEMMA ListsOwned ==
    ASSUME BaseInv, OrderInv, Owned, NEW p \in Procs, Lists(p), faults' \in 0 .. MaxFaults
    PROVE  Owned'
<1>1. /\ pc[p] = "readNum" /\ p # "server" /\ UNCHANGED <<named, segs, retried>>
      /\ map[p]["meta"] \in 1 .. Len(segs)
      /\ Lands(p, "open", "list", map[p], 0, exists[p], Meta(p).numNodes)
  BY ReadNumBase DEF Lists, ReadNum, Access
<1>2. Has(p, "meta")
  BY <1>1 DEF Has, Halfway, FirstOf
<1>3. p # "delete"
  <2> SUFFICES ASSUME p = "delete" PROVE FALSE
    OBVIOUS
  <2>1. map[p]["meta"] = named["meta"]
    BY <1>1, <1>2, ProcFacts DEF OrderInv, UpToDate, UpToDateAt, Steady, Ending
  <2>2. named["meta"] # 0
    <3>1. \A n \in Nat : 0 \notin 1 .. n
      OBVIOUS
    <3>2. Len(segs) \in Nat
      BY SeqFacts DEF BaseInv, TypeOK
    <3> QED
      BY <1>1, <2>1, <3>1, <3>2
  <2>3. segs[named["meta"]].numNodes = 0
    BY <1>1, <2>2 DEF Owned
  <2> QED
    BY <2>1, <2>3 DEF Lists, Meta
<1>4. \A x \in Names : Has(p, x) => Has(p, x)'
  BY <1>1 DEF Has, Lands, Mapping, Halfway, Creating, FirstOf
<1>5. pc[p] \in Halfway
  BY <1>1 DEF Halfway
<1> QED
  BY <1>1, <1>3, <1>4, <1>5, HoldOwned DEF Offline

\* A request changes no name, flag or number.
LEMMA ExchangeOwned ==
    ASSUME BaseInv, OrderInv, Owned, Post \/ Answer \/ Collect, faults' \in 0 .. MaxFaults
    PROVE  Owned'
<1>1. PICK p \in {"server", "proxy"}, l \in {"up", "wait"} :
        /\ Lands(p, l, seg[p], map[p], 0, exists[p], nodes[p])
        /\ pc[p] \in {"up", "wait"} /\ (p = "server" => l = "up" /\ pc[p] = "up")
        /\ named' = named /\ retried' = retried /\ SameHeads
  BY PostBase, AnswerBase, CollectBase DEF Post, Answer, Collect
<1>2. p \in Procs \ {"delete"} /\ pc[p] \in Mapping
  BY <1>1 DEF Procs, Mapping
<1>3. \A x \in Names : Has(p, x) => Has(p, x)'
  BY <1>1 DEF Has, Lands, Mapping
<1>4. named["meta"] # 0 /\ Offline(named["meta"]) => segs'[named["meta"]].serverFlag = "OFFLINE"
  BY <1>1, NamedSegment, ProcFacts DEF Offline, SameHeads
<1>5. p = "server" => pc[p] # "giveUp" /\ l \in Told
  BY <1>1 DEF Told
<1> QED
  BY <1>1, <1>2, <1>3, <1>4, <1>5, HoldOwned

\* A proxy that leaves the segments alone leaves them to a server that is up;
\* what it has mapped does not bear the names if there is none.
LEMMA CheckFlagOwned ==
    ASSUME BaseInv, OrderInv, Paired, Owned, CheckFlag, faults' \in 0 .. MaxFaults
    PROVE  Owned'
<1> DEFINE p == "proxy"
<1>1. pc[p] = "checkFlag" /\ p \in Procs /\ p \in Procs \ {"delete"}
  BY ProcFacts DEF CheckFlag
<1>2. CASE Offline(map[p]["meta"])
  <2>1. /\ UNCHANGED <<named, segs, retried>>
        /\ Lands(p, "destroyList", seg[p], map[p], 0, exists[p], nodes[p])
    BY <1>2, CheckFlagBase
  <2>2. \A x \in Names : Has(p, x) => Has(p, x)'
    BY <2>1 DEF Has, Lands, Mapping
  <2>3. pc[p] \in Mapping
    BY <1>1 DEF Mapping
  <2> QED
    BY <1>1, <2>1, <2>2, <2>3, HoldOwned DEF Offline
<1>3. CASE ~Offline(map[p]["meta"])
  <2>1. /\ UNCHANGED <<named, segs, retried>>
        /\ Lands(p, "down", "meta", NoMap, 0, FALSE, 0)
    BY <1>3, LeaveBase
  <2>2. pc["server"] \in {"down", "up"} /\ pc'["server"] = pc["server"]
    BY <1>1, <2>1, OthersRest, ProcFacts DEF OrderInv, Steady, Lands, OthersStay
  <2>3. ASSUME NEW s \in Names, named'[s] # 0
        PROVE  \E q \in Procs : Owner(q, s)'
    <3>1. CASE pc["server"] = "up"
      <4>1. Owner("server", s)
        BY <3>1 DEF OrderInv, Keeps, Owner, Has, Mapping
      <4> QED
        BY <1>1, <2>1, <4>1, OwnersStay, ProcFacts DEF Lands
    <3>2. CASE pc["server"] = "down"
      <4>1. named["meta"] # 0 => Offline(named["meta"])
        BY <3>2 DEF Owned, Told
      <4>2. \A x \in Names : map[p][x] # 0
        BY <1>1 DEF BaseInv, PlacedAt, Has, Mapping
      <4>3. map[p]["meta"] # named["meta"]
        BY <1>3, <4>1, <4>2, ProcFacts
      <4>4. map[p]["list"] # named["list"]
        BY <1>1, <3>2, <4>3 DEF Paired
      <4>5. ~Owner(p, s)
        BY <1>1, <4>3, <4>4 DEF Owner, Names, Creating
      <4>6. PICK q \in Procs : Owner(q, s)
        BY <2>1, <2>3, <3>2 DEF Owned
      <4> QED
        BY <1>1, <2>1, <4>5, <4>6, OwnersStay DEF Lands
    <3> QED
      BY <2>2, <3>1, <3>2
  <2>4. named'["meta"] # 0 /\ pc'["server"] \notin Told => Offline(named["meta"])'
    BY <2>1, <2>2 DEF Owned, Offline
  <2>5. DeleteIdle'
    BY <1>1, <2>1, DeleteRests, ProcFacts DEF OrderInv, Lands, OthersStay, DeleteIdle
  <2> QED
    BY <2>3, <2>4, <2>5 DEF Owned, DeleteIdle
<1> QED
  BY <1>2, <1>3

\* An erased name needs no owner.
LEMMA EraseListOwned ==
    ASSUME BaseInv, OrderInv, Owned, NEW p \in Procs, EraseList(p), faults' \in 0 .. MaxFaults
    PROVE  Owned'
<1>1. /\ pc[p] = "destroyList" /\ UNCHANGED <<segs, retried>>
      /\ named' = [named EXCEPT !["list"] = 0]
      /\ Lands(p, "destroyMeta", seg[p], map[p], 0, exists[p], nodes[p])
  BY DestroyListBase DEF EraseList
<1>2. p # "delete"
  BY <1>1 DEF Owned
<1>3. named'["list"] = 0 /\ named'["meta"] = named["meta"]
  BY <1>1 DEF BaseInv, TypeOK, Names
<1>4. /\ pc'["server"] \in Told <=> pc["server"] \in Told
      /\ pc'["server"] = "giveUp" <=> pc["server"] = "giveUp"
  BY <1>1, ProcFacts DEF Lands, OthersStay, Told
<1>5. ASSUME pc'["server"] # "giveUp", NEW s \in Names, named'[s] # 0
      PROVE  \E q \in Procs : Owner(q, s)'
  <2>1. s = "meta" /\ named'[s] = named[s]
    BY <1>3, <1>5 DEF Names
  <2>2. PICK q \in Procs : Owner(q, s)
    BY <1>4, <1>5, <2>1 DEF Owned
  <2>3. CASE q = p
    BY <1>1, <2>1, <2>2, <2>3 DEF Owner, Has, Lands, Mapping, Creating
  <2>4. CASE q # p
    BY <1>1, <2>1, <2>2, <2>4, OwnersStay DEF Lands
  <2> QED
    BY <2>3, <2>4
<1>6. named'["meta"] # 0 /\ pc'["server"] \notin Told => Offline(named["meta"])'
  BY <1>1, <1>3, <1>4 DEF Owned, Offline
<1>7. DeleteIdle'
  BY <1>1, <1>2, DeleteRests, ProcFacts DEF OrderInv, Lands, OthersStay, DeleteIdle
<1> QED
  BY <1>5, <1>6, <1>7 DEF Owned, DeleteIdle

\* With the name of the metanode gone there is nothing left to own.
LEMMA EraseMetaOwned ==
    ASSUME BaseInv, OrderInv, Owned, NEW p \in Procs, DestroyMetanode(p), faults' \in 0 .. MaxFaults
    PROVE  Owned'
<1>1. /\ pc[p] = "destroyMeta" /\ segs' = segs
      /\ named' = [named EXCEPT !["meta"] = 0]
      /\ Lands(p, "down", "meta", NoMap, 0, FALSE, 0)
  BY DestroyMetaBase
<1>2. p # "delete"
  BY <1>1 DEF Owned
<1>3. named["list"] = 0
  BY <1>1, <1>2 DEF OrderInv, Keeps, Procs
<1>4. \A s \in Names : named'[s] = 0
  BY <1>1, <1>3 DEF BaseInv, TypeOK, Names
<1>5. DeleteIdle'
  BY <1>1, <1>2, DeleteRests, ProcFacts DEF OrderInv, Lands, OthersStay, DeleteIdle
<1> QED
  BY <1>4, <1>5, ProcFacts DEF Owned, DeleteIdle

\* Every step keeps Owned if the history stays clean.
LEMMA OwnedKinds ==
    ASSUME BaseInv, OrderInv, Paired, Owned, Kinds, rough' = "clean", faults' \in 0 .. MaxFaults
    PROVE  Owned'
<1>1. ASSUME NEW p \in Procs, NEW s \in Names,
             \/ OpenExcl(p, s) \/ Reopen(p, s) \/ Truncate(p, s)
             \/ Map(p, s) \/ InitSegment(p, s)
      PROVE  Owned'
  BY <1>1, OpenNewOwned, OpenOldOwned, ReopenOwned, TruncateOwned, MapOwned, InitSegmentOwned
<1>2. ASSUME NEW p \in Procs, Lists(p) \/ EraseList(p) \/ DestroyMetanode(p)
      PROVE  Owned'
  BY <1>2, ListsOwned, EraseListOwned, EraseMetaOwned
<1>3. CASE Aborts
  <2>1. PICK p \in Procs : Abort(p)
    BY <1>3 DEF Aborts
  <2>2. rough' # "clean"
    BY <2>1 DEF Abort
  <2> QED
    BY <2>2
<1>4. CASE Retries \/ NoMeta \/ GiveUp
  BY <1>4, RetryOwned, NoMetaOwned, GiveUpBase
<1>5. CASE SetServerFlag \/ SetNum \/ Bind
  BY <1>5, ServerWayOwned
<1>6. CASE Answer \/ Post \/ Collect
  BY <1>6, ExchangeOwned
<1>7. CASE ReadFlag \/ SetDefault \/ SetProxyFlag \/ CheckFlag
  BY <1>7, ProxyWayOwned, CheckFlagOwned
<1> QED
  BY <1>1, <1>2, <1>3, <1>4, <1>5, <1>6, <1>7 DEF Kinds

\* "server DELETE" starts when all others have ended, and then nothing has a
\* name.
LEMMA StartOwned ==
    ASSUME BaseInv, OrderInv, Owned, NEW p \in Procs, Start(p), ~overlap'
    PROVE  Owned'
<1>1. /\ pc[p] = "down" /\ UNCHANGED <<named, segs, retried>> /\ Others(p)
      /\ \E n : Lands(p, "open", FirstOf(p), map[p], 0, exists[p], n)
  BY StartBase
<1>2. OthersStay(p) /\ pc'[p] = "open" /\ seg'[p] = FirstOf(p)
  BY <1>1 DEF Lands
<1>3. \A x \in Names : ~Owner(p, x)
  BY <1>1 DEF Owner, Has, Mapping, Halfway, Creating
<1>4. DeleteIdle'
  <2>1. CASE p = "delete"
    <3>1. \A q \in Procs : pc[q] = "down"
      BY <1>1, <2>1 DEF Others
    <3>2. \A q \in Procs, x \in Names : ~Owner(q, x)
      BY <3>1 DEF Owner, Has, Mapping, Halfway, Creating
    <3>3. named["meta"] = 0
      BY <3>1, <3>2, ProcFacts DEF Owned
    <3> QED
      BY <1>1, <1>2, <2>1, <3>3 DEF DeleteIdle, FirstOf
  <2>2. CASE p # "delete"
    <3>1. pc["delete"] \in Steady
      BY <1>1, <2>2, ProcFacts DEF Others
    <3>2. pc'["delete"] = "down"
      BY <1>2, <2>2, <3>1, ProcFacts DEF OthersStay
    <3> QED
      BY <3>2 DEF DeleteIdle
  <2> QED
    BY <2>1, <2>2
<1> QED
  BY <1>1, <1>2, <1>3, <1>4, OwnedFrame DEF Told, Offline

\* Who begins to end still owns what it owned.
LEMMA ShutdownOwned ==
    ASSUME BaseInv, OrderInv, Owned, NEW p \in Procs, Shutdown(p)
    PROVE  Owned'
<1> DEFINE l == IF p = "server" THEN "destroyList" ELSE "checkFlag"
<1>1. /\ pc[p] = "up" /\ UNCHANGED <<named, segs, retried>> /\ p # "delete"
      /\ Lands(p, l, seg[p], map[p], 0, exists[p], nodes[p])
  BY ShutdownBase
<1>2. l \in Mapping /\ (p = "server" => l \in Told)
  BY DEF Mapping, Told
<1> HIDE DEF l
<1>3. pc[p] \in Mapping /\ p \in Procs \ {"delete"} /\ pc[p] # "giveUp"
  BY <1>1 DEF Mapping
<1>4. \A x \in Names : Has(p, x) => Has(p, x)'
  BY <1>1, <1>2 DEF Has, Lands
<1> QED
  BY <1>1, <1>2, <1>3, <1>4, HoldOwned DEF Offline

----------------------------------------------------------------------------
(* The invariant and what follows from it.                                 *)

\* What has happened has happened.
LEMMA HistoryKinds ==
    ASSUME BaseInv, Kinds
    PROVE  /\ overlap' = overlap
           /\ rough' # "torn" => rough # "torn"
           /\ rough' = "clean" => rough = "clean"
<1>1. CASE UNCHANGED history
  BY <1>1 DEF history
<1>2. ASSUME NEW p \in Procs, Abort(p)
      PROVE  /\ overlap' = overlap /\ rough' # "clean"
             /\ rough' # "torn" => rough # "torn"
  BY <1>2 DEF Abort
<1>3. ASSUME GiveUp PROVE overlap' = overlap /\ rough' = "torn"
  BY <1>3 DEF GiveUp
<1>4. ASSUME NEW p \in Procs, NEW s \in Names,
             \/ OpenExcl(p, s) \/ Reopen(p, s) \/ Truncate(p, s)
             \/ Map(p, s) \/ InitSegment(p, s)
      PROVE  UNCHANGED history
  BY <1>4 DEF OpenExcl, Reopen, Truncate, Map, InitSegment
<1>5. ASSUME NEW p \in Procs, Lists(p) \/ EraseList(p) \/ DestroyMetanode(p)
      PROVE  UNCHANGED history
  BY <1>5 DEF Lists, ReadNum, MetaStep, EraseList, DestroyMemList, DestroyMetanode
<1>6. CASE Retries \/ NoMeta
  BY <1>1, <1>6 DEF Retries, NoMeta, CreateFails
<1>7. CASE \/ SetServerFlag \/ SetNum \/ Bind \/ ReadFlag \/ SetDefault
           \/ SetProxyFlag \/ CheckFlag
  BY <1>1, <1>7 DEF SetServerFlag, SetNum, Bind, ReadFlag, SetDefault, SetProxyFlag,
                    MetaStep, CheckFlag
<1>8. CASE Answer \/ Post \/ Collect
  BY <1>1, <1>8 DEF Answer, Post, Collect, Exchange
<1> QED
  BY <1>1, <1>2, <1>3, <1>4, <1>5, <1>6, <1>7, <1>8 DEF Kinds, Aborts

\* At first no segment is there.
LEMMA SetupInit == Init => SetupInv
<1> SUFFICES ASSUME Init PROVE SetupInv
  OBVIOUS
<1>1. BaseInv /\ \A p \in Procs : pc[p] = "down"
  BY BaseInit DEF Init
<1>2. named["meta"] = 0 /\ named["list"] = 0
  BY DEF Init, Names
<1>3. Alone /\ UpToDate /\ Fresh /\ Keeps
  BY <1>1, ProcFacts DEF Alone, UpToDate, UpToDateAt, Fresh, FreshAt, Keeps, Steady, Told, Ending
<1>4. Paired /\ Owned
  BY <1>1, <1>2, ProcFacts DEF Paired, Owned, Names
<1> QED
  BY <1>1, <1>3, <1>4 DEF SetupInv

\* Nothing happens.
LEMMA SetupStutter == ASSUME SetupInv, UNCHANGED vars PROVE SetupInv'
<1>1. BaseInv'
  BY BaseStutter DEF SetupInv
<1>2. UNCHANGED <<named, segs, pc, seg, map, fd, exists, nodes, retried, overlap, rough>>
  BY DEF vars, local, history
<1>3. (Alone => Alone') /\ (UpToDate => UpToDate') /\ (Fresh => Fresh') /\ (Keeps => Keeps')
  BY <1>2 DEF Alone, UpToDate, UpToDateAt, Fresh, FreshAt, Keeps, Has, Offline
<1>4. (Paired => Paired') /\ (Owned => Owned')
  BY <1>2 DEF Paired, Owned, Owner, Has, Offline
<1> QED
  BY <1>1, <1>2, <1>3, <1>4 DEF SetupInv

\* SetupInv is inductive: each layer uses the ones below it.
LEMMA SetupStep == SetupInv /\ [Next]_vars => SetupInv'
<1> SUFFICES ASSUME SetupInv, [Next]_vars PROVE SetupInv'
  OBVIOUS
<1>1. BaseInv /\ BaseInv'
  BY BaseStep DEF SetupInv
<1>2. CASE Kinds /\ faults' \in 0 .. MaxFaults
  <2>1. /\ overlap' = overlap
        /\ rough' # "torn" => rough # "torn"
        /\ rough' = "clean" => rough = "clean"
    BY <1>1, <1>2, HistoryKinds
  <2>2. ~overlap' => OrderInv /\ OrderInv'
    BY <1>1, <1>2, <2>1, OrderKinds DEF SetupInv, OrderInv
  <2>3. ~overlap' /\ rough' # "torn" => Paired /\ Paired'
    BY <1>1, <1>2, <2>1, <2>2, PairedKinds DEF SetupInv
  <2>4. ~overlap' /\ rough' = "clean" => Owned'
    BY <1>1, <1>2, <2>1, <2>2, <2>3, OwnedKinds DEF SetupInv
  <2> QED
    BY <1>1, <2>2, <2>3, <2>4 DEF SetupInv, OrderInv
<1>3. ASSUME NEW p \in Procs, Start(p) \/ Shutdown(p) PROVE SetupInv'
  <2>1. rough' = rough /\ (~overlap' => ~overlap)
    BY <1>1, <1>3, StartBase, ShutdownBase
  <2>2. ~overlap' => OrderInv /\ OrderInv'
    BY <1>1, <1>3, <2>1, StartOrder, ShutdownOrder DEF SetupInv, OrderInv
  <2>3. ~overlap' /\ rough' # "torn" => Paired'
    BY <1>1, <1>3, <2>1, BeginPaired DEF SetupInv
  <2>4. ~overlap' /\ rough' = "clean" => Owned'
    BY <1>1, <1>3, <2>1, <2>2, StartOwned, ShutdownOwned DEF SetupInv
  <2> QED
    BY <1>1, <2>2, <2>3, <2>4 DEF SetupInv, OrderInv
<1>4. CASE UNCHANGED vars
  BY <1>4, SetupStutter
<1> QED
  BY <1>1, <1>2, <1>3, <1>4, NextKinds

\* SetupInv, the inductive invariant of the life of the segments.
THEOREM SetupInvariant == Spec => []SetupInv
  BY SetupInit, SetupStep, PTL DEF Spec

\* The server and the proxy share both segments or none, as long as processes
\* start and end one at a time and none dies between its two shm_unlink().
THEOREM SharedIsWhole == Spec => []SharedWhole
<1>1. SetupInv => SharedWhole
  <2> SUFFICES ASSUME SetupInv, ~overlap, rough # "torn", Running("server"), Running("proxy")
               PROVE  (map["server"]["meta"] = map["proxy"]["meta"]
                         <=> map["server"]["list"] = map["proxy"]["list"])
    BY DEF SharedWhole
  <2>1. BaseInv /\ Keeps /\ Paired
    BY DEF SetupInv
  <2>2. pc["server"] = "up" /\ pc["proxy"] \in {"up", "wait"}
    BY <2>1, ProcFacts DEF Running, Steady
  <2>3. \A s \in Names : map["server"][s] = named[s]
    BY <2>1, <2>2 DEF Keeps
  <2> QED
    BY <2>1, <2>2, <2>3, ProcFacts DEF Paired
<1> QED
  BY <1>1, SetupInvariant, PTL

\* After any number of orderly starts and ends, one at a time, no segment is
\* left when all processes are gone.
THEOREM NothingIsLeft == Spec => []NothingLeft
<1>1. SetupInv => NothingLeft
  <2> SUFFICES ASSUME SetupInv, ~overlap, rough = "clean", \A p \in Procs : pc[p] = "down"
               PROVE  named = NoMap
    BY DEF NothingLeft
  <2>1. BaseInv /\ Owned
    BY DEF SetupInv
  <2>2. \A p \in Procs, s \in Names : ~Owner(p, s)
    BY DEF Owner, Has, Mapping, Halfway, Creating
  <2>3. \A s \in Names : named[s] = 0
    BY <2>1, <2>2, ProcFacts DEF Owned
  <2> QED
    BY <2>1, <2>3 DEF NoMap, BaseInv, TypeOK
<1> QED
  BY <1>1, SetupInvariant, PTL

\* As long as no two processes start or end at the same time, whoever is killed
\* and whatever fails, cleanUpGlobals() of a proxy takes no name away from a
\* running server.  The server that starts between the proxy's test of serverFlag
\* and its unlinking is not covered.
THEOREM ProxySparesServer == Spec => ProxySpares
<1>1. SetupInv =>
        (~overlap /\ Running("server")
           /\ (DestroyMemList("proxy") \/ DestroyMetanode("proxy"))
         => \A s \in Names : named'[s] # named[s] => named[s] # map["server"][s])
  <2> SUFFICES ASSUME SetupInv, ~overlap, Running("server"),
                      DestroyMemList("proxy") \/ DestroyMetanode("proxy")
               PROVE  FALSE
    OBVIOUS
  <2>1. BaseInv /\ OrderInv /\ pc["proxy"] \in {"destroyList", "destroyMeta"}
    BY DEF SetupInv, OrderInv, DestroyMemList, DestroyMetanode
  <2>2. pc["server"] = "down"
    BY <2>1, ErasesAlone
  <2> QED
    BY <2>2 DEF Running
<1> QED
  BY <1>1, SetupInvariant, PTL DEF ProxySpares

----------------------------------------------------------------------------
(* How many nodes there are, for servers of at most NUMSEGMENTS threads.   *)

\* The head of segment o stays as it is.
HeadKept(o) ==
    /\ segs'[o].size = segs[o].size /\ segs'[o].numNodes = segs[o].numNodes
    /\ segs'[o].serverFlag = segs[o].serverFlag

\* So do those of the segments that p has mapped or open.
HeadsKept(p) ==
    \A o \in 1 .. Len(segs) :
        o \in {map[p]["meta"], map[p]["list"], fd[p]} => HeadKept(o)

\* So the heads are kept of all that p goes by.
LEMMA MappedHeads ==
    ASSUME BaseInv, NEW p \in Procs, HeadsKept(p)
    PROVE  /\ \A s \in Names : Has(p, s) => HeadKept(map[p][s])
           /\ pc[p] \in {"truncate", "map"} => HeadKept(fd[p])
<1>1. ASSUME NEW s \in Names, Has(p, s) PROVE HeadKept(map[p][s])
  <2>1. PlacedAt(p) /\ map[p][s] \in 0 .. Len(segs) /\ Len(segs) \in Nat
    BY SeqFacts DEF BaseInv, TypeOK
  <2>2. map[p][s] # 0
    BY <1>1, <2>1 DEF PlacedAt
  <2>3. map[p][s] \in 1 .. Len(segs)
    BY <2>1, <2>2
  <2>4. map[p][s] \in {map[p]["meta"], map[p]["list"]}
    BY DEF Names
  <2> QED
    BY <2>3, <2>4 DEF HeadsKept
<1>2. ASSUME pc[p] \in {"truncate", "map"} PROVE HeadKept(fd[p])
  BY <1>2, Mapped2 DEF HeadsKept
<1> QED
  BY <1>1, <1>2

\* Where the segments of the server and of the proxy are mapped.
LEMMA HasFacts ==
    /\ Has("server", "list") \/ pc["server"] \notin {"bind", "up", "destroyList", "destroyMeta"}
    /\ Has("server", "meta") \/ pc["server"] \notin {"bind", "up", "destroyList", "destroyMeta"}
    /\ (GetsList \/ GotList \/ pc["proxy"] \in {"setDefault", "readNum"}) => Has("proxy", "meta")
    /\ GotList => Has("proxy", "list")
  BY DEF Has, Mapping, Halfway, Creating, FirstOf, GetsList, GotList

\* What another process has to leave alone for the server.
LEMMA ServerNumsFrame ==
    ASSUME BaseInv, ServerSized, NEW p \in Procs \ {"server"}, OthersStay(p), retried' = retried,
           Has("server", "list") => Size("server")' = Size("server"),
           Has("server", "meta") => Num("server")' = Num("server"),
           pc["server"] = "map" => segs'[fd["server"]].size = segs[fd["server"]].size
    PROVE  ServerSized'
<1>1. /\ pc'["server"] = pc["server"] /\ seg'["server"] = seg["server"]
      /\ map'["server"] = map["server"] /\ fd'["server"] = fd["server"]
      /\ exists'["server"] = exists["server"] /\ nodes'["server"] = nodes["server"]
  BY ProcFacts DEF OthersStay
<1>2. Has("server", "list")' <=> Has("server", "list")
  BY <1>1 DEF Has
<1> QED
  BY <1>1, <1>2, HasFacts DEF ServerSized

\* In particular it may leave all heads alone.
LEMMA ServerSizedFrame ==
    ASSUME BaseInv, ServerSized, NEW p \in Procs \ {"server"}, OthersStay(p), retried' = retried,
           HeadsKept("server")
    PROVE  ServerSized'
<1>1. map'["server"] = map["server"]
  BY ProcFacts DEF OthersStay
<1>2. /\ \A s \in Names : Has("server", s) => HeadKept(map["server"][s])
      /\ pc["server"] \in {"truncate", "map"} => HeadKept(fd["server"])
  BY MappedHeads, ProcFacts
<1>3. /\ Has("server", "list") => Size("server")' = Size("server")
      /\ Has("server", "meta") => Num("server")' = Num("server")
      /\ pc["server"] = "map" => segs'[fd["server"]].size = segs[fd["server"]].size
  BY <1>1, <1>2, ProcFacts DEF HeadKept, Size, Num
<1> QED
  BY <1>3, ServerNumsFrame

\* What another process has to leave alone for the proxy.
LEMMA ProxySizedFrame ==
    ASSUME BaseInv, ProxySized, NEW p \in Procs \ {"proxy"}, OthersStay(p),
           HeadsKept("proxy"), GotList /\ Lends => Lends' \/ Num("proxy") <= Size("proxy"),
           GotList /\ Untold' => Untold
    PROVE  ProxySized'
<1>1. /\ pc'["proxy"] = pc["proxy"] /\ seg'["proxy"] = seg["proxy"]
      /\ map'["proxy"] = map["proxy"] /\ fd'["proxy"] = fd["proxy"]
      /\ exists'["proxy"] = exists["proxy"] /\ nodes'["proxy"] = nodes["proxy"]
  BY ProcFacts DEF OthersStay
<1>2. /\ \A s \in Names : Has("proxy", s) => HeadKept(map["proxy"][s])
      /\ pc["proxy"] \in {"truncate", "map"} => HeadKept(fd["proxy"])
  BY MappedHeads, ProcFacts
<1>3. (GetsList' <=> GetsList) /\ (GotList' <=> GotList)
  BY <1>1 DEF GetsList, GotList
<1>4. /\ Has("proxy", "list") => Size("proxy")' = Size("proxy")
      /\ Has("proxy", "meta") => /\ Num("proxy")' = Num("proxy")
                                 /\ Offline(map["proxy"]["meta"])' <=> Offline(map["proxy"]["meta"])
  BY <1>1, <1>2, ProcFacts DEF HeadKept, Size, Num, Offline
<1>5. pc["proxy"] = "map" => segs'[fd'["proxy"]].size = segs[fd["proxy"]].size
  BY <1>1, <1>2 DEF HeadKept
<1> QED
  BY <1>1, <1>3, <1>4, <1>5, HasFacts DEF ProxySized

\* With nobody but "server DELETE" around there is little to say.
LEMMA DeleteSized ==
    ASSUME BaseInv, OrderInv, ServerSized, OthersStay("delete"), pc["delete"] # "down"
    PROVE  ServerSized' /\ ProxySized'
<1>1. pc["delete"] \notin Steady
  BY ProcFacts
<1>2. /\ pc'["server"] = "down" /\ pc'["proxy"] = "down" /\ nodes'["server"] = nodes["server"]
  BY <1>1, OthersRest, ProcFacts DEF OrderInv, OthersStay
<1>3. ~Has("server", "list")'
  BY <1>2 DEF Has, Mapping, Halfway, Creating
<1>4. ~GetsList' /\ ~GotList'
  BY <1>2 DEF GetsList, GotList, Creating
<1> QED
  BY <1>2, <1>3, <1>4 DEF ServerSized, ProxySized

\* The numbers are numbers.
LEMMA NumTypes ==
    ASSUME BaseInv, NEW p \in Procs
    PROVE  /\ nodes[p] \in 0 .. MaxNodes
           /\ Has(p, "meta") => Num(p) \in 0 .. MaxNodes
           /\ Has(p, "list") => Size(p) \in 0 .. MaxNodes
           /\ NUMSEGMENTS \in 1 .. MaxNodes /\ MaxNodes \in Nat
<1>1. nodes[p] \in 0 .. MaxNodes /\ Len(segs) \in Nat /\ PlacedAt(p)
  BY SeqFacts DEF BaseInv, TypeOK
<1>2. ASSUME NEW s \in Names, Has(p, s) PROVE segs[map[p][s]] \in Segment
  <2>1. map[p][s] \in 0 .. Len(segs) /\ map[p][s] # 0
    BY <1>1, <1>2 DEF PlacedAt, BaseInv, TypeOK
  <2>2. map[p][s] \in 1 .. Len(segs)
    BY <1>1, <2>1
  <2> QED
    BY <2>2, SeqFacts DEF BaseInv, TypeOK
<1>3. Has(p, "meta") => Num(p) \in 0 .. MaxNodes
  BY <1>2, FieldTypes, ProcFacts DEF Num
<1>4. Has(p, "list") => Size(p) \in 0 .. MaxNodes
  BY <1>2, FieldTypes, ProcFacts DEF Size
<1> QED
  BY <1>1, <1>3, <1>4, MaxNodesFacts

\* A segment that is being made is nobody else's.
LEMMA FreshTouch ==
    ASSUME BaseInv, OrderInv, NEW p \in Procs, pc[p] \in {"truncate", "init"},
           NEW o, o = IF pc[p] = "truncate" THEN fd[p] ELSE map[p][seg[p]],
           \A x \in 1 .. Len(segs) : x # o => HeadKept(x)
    PROVE  /\ \A q \in Procs \ {p} : HeadsKept(q)
           /\ \A s \in Names \ {seg[p]} : map[p][s] # o
<1>1. /\ seg[p] \in Names /\ ~exists[p] /\ pc[p] \notin Steady \cup Ending
  BY DEF BaseInv, TypeOK, PlacedAt, Steady, Ending
<1>2. o = named[seg[p]]
  <2>1. CASE pc[p] = "truncate"
    BY <2>1 DEF OrderInv, UpToDate, UpToDateAt
  <2>2. CASE pc[p] = "init"
    BY <1>1, <2>2 DEF OrderInv, UpToDate, UpToDateAt, Has
  <2> QED
    BY <2>1, <2>2
<1>3. \A q \in Procs, s \in Names : q # p \/ s # seg[p] => map[q][s] # o
  BY <1>1, <1>2 DEF OrderInv, Fresh, FreshAt
<1>4. ASSUME NEW q \in Procs \ {p}, NEW x \in 1 .. Len(segs),
             x \in {map[q]["meta"], map[q]["list"], fd[q]}
      PROVE  HeadKept(x)
  <2>1. fd[q] = 0
    BY <1>1, OthersRest, Mapped2 DEF OrderInv, Steady
  <2>2. x # 0
    <3>1. \A n \in Nat : 0 \notin 1 .. n
      OBVIOUS
    <3>2. Len(segs) \in Nat
      BY SeqFacts DEF BaseInv, TypeOK
    <3> QED
      BY <3>1, <3>2
  <2> QED
    BY <1>3, <1>4, <2>1, <2>2, ProcFacts
<1> QED
  BY <1>3, <1>4 DEF HeadsKept

\* What a server that is not up yet, or starts, does to the proxy: nothing.
LEMMA ProxySizedQuiet ==
    ASSUME BaseInv, ProxySized, OthersStay("server"), HeadsKept("proxy"),
           pc["server"] \notin {"bind", "up", "destroyList", "destroyMeta"},
           pc'["server"] # "setNum"
    PROVE  ProxySized'
<1>1. ~Lends
  BY DEF Lends
<1>2. ASSUME GotList, Untold' PROVE Untold
  <2>1. Offline(map["proxy"]["meta"])' /\ map'["proxy"] = map["proxy"]
    BY <1>2, ProcFacts DEF Untold, OthersStay
  <2>2. HeadKept(map["proxy"]["meta"])
    BY <1>2, MappedHeads, HasFacts, ProcFacts
  <2> QED
    BY <2>1, <2>2 DEF Untold, Offline, HeadKept
<1> QED
  BY <1>1, <1>2, ProxySizedFrame, ProcFacts

\* A server on its way up, until it has said how many nodes there are.
LEMMA ServerWaySized ==
    ASSUME BaseInv, ServerSized, NEW l, NEW t, NEW m, NEW f, NEW e,
           Lands("server", l, t, m, f, e, nodes["server"]), retried' = retried,
           l \notin {"bind", "up", "destroyList", "destroyMeta"},
           l = "map" /\ t = "list" => e = TRUE,
           Has("server", "list")' => Has("server", "list") /\ Size("server")' = Size("server")
    PROVE  ServerSized'
  BY DEF ServerSized, Lands

\* A proxy at its memOps_Create().
LEMMA ProxyWaySized ==
    ASSUME BaseInv, ProxySized, NEW l \in Creating \ {"init"}, NEW f, NEW e,
           Lands("proxy", l, seg["proxy"], map["proxy"], f, e, nodes["proxy"]),
           pc["proxy"] \in Creating,
           Has("proxy", "meta") => HeadKept(map["proxy"]["meta"]),
           l = "map" /\ seg["proxy"] = "list" /\ ~e => segs'[f].size = nodes["proxy"]
    PROVE  ProxySized'
<1>1. /\ GetsList' => GetsList
      /\ ~GotList'
      /\ l \notin {"setDefault", "readNum"}
  BY DEF GetsList, GotList, Lands, Creating
<1>2. GetsList => HeadKept(map["proxy"]["meta"])
  BY HasFacts
<1>3. GetsList => /\ Num("proxy")' = Num("proxy")
                  /\ Offline(map["proxy"]["meta"])' <=> Offline(map["proxy"]["meta"])
  BY <1>2 DEF HeadKept, Num, Offline, Lands
<1> QED
  BY <1>1, <1>3 DEF ProxySized, Lands

\* shm_open().
LEMMA OpenSized ==
    ASSUME BaseInv, OrderInv, ServerSized, ProxySized, NEW p \in Procs, NEW s \in Names,
           OpenExcl(p, s) \/ Reopen(p, s), faults' \in 0 .. MaxFaults
    PROVE  ServerSized' /\ ProxySized'
<1>1. /\ pc[p] \in {"open", "reopen"} /\ seg[p] = s /\ retried' = retried
      /\ \E l, f, e :
            /\ Lands(p, l, s, map[p], f, e, nodes[p]) /\ l \in {"truncate", "reopen", "map"}
            /\ l = "map" => e = TRUE
  <2>1. CASE OpenExcl(p, s)
    <3>1. pc[p] = "open" /\ seg[p] = s /\ retried' = retried
      BY <2>1 DEF OpenExcl, Inside
    <3>2. CASE named[s] = 0
      <4>1. Lands(p, "truncate", s, map[p], Len(segs) + 1, FALSE, nodes[p])
        BY <2>1, <3>2, OpenNewBase
      <4>2. "truncate" \in {"truncate", "reopen", "map"} /\ "truncate" # "map"
        OBVIOUS
      <4> QED
        BY <3>1, <4>1, <4>2, Zenon
    <3>3. CASE named[s] # 0
      BY <2>1, <3>1, <3>3, OpenOldBase
    <3> QED
      BY <3>2, <3>3
  <2>2. CASE Reopen(p, s)
    BY <2>2, ReopenBase DEF Reopen, Inside
  <2> QED
    BY <2>1, <2>2
<1>2. PICK l, f, e :
            /\ Lands(p, l, s, map[p], f, e, nodes[p]) /\ l \in {"truncate", "reopen", "map"}
            /\ l = "map" => e = TRUE
  BY <1>1
<1>3. \A x \in 1 .. Len(segs) : segs'[x] = segs[x]
  <2>1. segs' = segs \/ segs' = Append(segs, NewSegment)
    BY DEF OpenExcl, Reopen
  <2> QED
    BY <2>1, AppendSegment DEF BaseInv, TypeOK
<1>4. \A q \in Procs : HeadsKept(q)
  BY <1>3 DEF HeadsKept, HeadKept
<1>5. CASE p = "server"
  <2>1. ProxySized'
    BY <1>1, <1>2, <1>4, <1>5, ProxySizedQuiet, ProcFacts DEF Lands
  <2>2. Has(p, "list")' => Has(p, "list")
    BY <1>1, <1>2 DEF Has, Lands, Mapping, Halfway, Creating
  <2>3. Has(p, "list") => HeadKept(map[p]["list"])
    BY <1>4, MappedHeads, ProcFacts
  <2>4. Has(p, "list") => Size(p)' = Size(p)
    BY <1>2, <2>3 DEF Size, HeadKept, Lands
  <2>5. ServerSized'
    BY <1>1, <1>2, <1>5, <2>2, <2>4, ServerWaySized
  <2> QED
    BY <2>1, <2>5
<1>6. CASE p = "proxy"
  <2>1. ServerSized'
    BY <1>1, <1>2, <1>4, <1>6, ServerSizedFrame, ProcFacts DEF Lands
  <2>2. Has(p, "meta") => HeadKept(map[p]["meta"])
    BY <1>4, MappedHeads, ProcFacts
  <2>3. l \in Creating \ {"init"} /\ pc[p] \in Creating
    BY <1>1, <1>2 DEF Creating
  <2>4. ProxySized'
    BY <1>1, <1>2, <1>6, <2>2, <2>3, ProxyWaySized
  <2> QED
    BY <2>1, <2>4
<1>7. CASE p = "delete"
  BY <1>1, <1>2, <1>7, DeleteSized DEF Lands
<1> QED
  BY <1>5, <1>6, <1>7 DEF Procs

\* ftruncate() gives the list as many nodes as were asked for.
LEMMA TruncateSized ==
    ASSUME BaseInv, OrderInv, ServerSized, ProxySized, NEW p \in Procs, NEW s \in Names,
           Truncate(p, s), faults' \in 0 .. MaxFaults
    PROVE  ServerSized' /\ ProxySized'
<1>1. /\ pc[p] = "truncate" /\ seg[p] = s /\ retried' = retried
      /\ segs' = [segs EXCEPT ![fd[p]].size = BlockSize(p, s)]
  BY DEF Truncate, Inside
<1>2. Lands(p, "map", s, map[p], fd[p], FALSE, nodes[p]) /\ fd[p] \in 1 .. Len(segs)
  BY TruncateBase
<1>3. /\ segs'[fd[p]].size = BlockSize(p, s)
      /\ \A x \in 1 .. Len(segs) : x # fd[p] => segs'[x] = segs[x]
  BY <1>1, <1>2, SizeWrite, BlockSizeType DEF BaseInv, TypeOK
<1>4. \A x \in 1 .. Len(segs) : x # fd[p] => HeadKept(x)
  BY <1>3 DEF HeadKept
<1>5. /\ \A q \in Procs \ {p} : HeadsKept(q)
      /\ \A x \in Names \ {s} : map[p][x] # fd[p]
  BY <1>1, <1>4, FreshTouch
<1>6. \A x \in Names : Has(p, x) => map[p][x] # fd[p] /\ map[p][x] \in 1 .. Len(segs)
  <2>1. \A x \in Names : Has(p, x) => x # s /\ x = FirstOf(p) /\ pc[p] \in Creating /\ seg[p] # FirstOf(p)
    BY <1>1 DEF Has, Creating, Mapping, Halfway
  <2> QED
    BY <1>5, <2>1, Mapped2
<1>7. \A x \in Names : Has(p, x) => HeadKept(map[p][x])
  BY <1>4, <1>6
<1>8. s = "list" => segs'[fd[p]].size = nodes[p]
  BY <1>3 DEF BlockSize
<1>9. CASE p = "server"
  <2>1. ProxySized'
    BY <1>1, <1>2, <1>5, <1>9, ProxySizedQuiet, ProcFacts DEF Lands
  <2>2. Has(p, "list")' => Has(p, "list")
    BY <1>1, <1>2 DEF Has, Lands, Mapping, Halfway, Creating
  <2>3. Has(p, "list") => Size(p)' = Size(p)
    BY <1>2, <1>7, ProcFacts DEF Size, HeadKept, Lands
  <2>4. ServerSized'
    <3>1. pc'[p] = "map" /\ seg'[p] = s /\ fd'[p] = fd[p] /\ nodes'[p] = nodes[p]
      BY <1>2 DEF Lands
    <3> QED
      BY <1>1, <1>8, <1>9, <2>2, <2>3, <3>1 DEF ServerSized
  <2> QED
    BY <2>1, <2>4
<1>10. CASE p = "proxy"
  <2>1. ServerSized'
    BY <1>1, <1>2, <1>5, <1>10, ServerSizedFrame, ProcFacts DEF Lands
  <2>2. "map" \in Creating \ {"init"} /\ pc[p] \in Creating
    BY <1>1 DEF Creating
  <2>3. ProxySized'
    BY <1>1, <1>2, <1>7, <1>8, <1>10, <2>2, ProxyWaySized, ProcFacts
  <2> QED
    BY <2>1, <2>3
<1>11. CASE p = "delete"
  BY <1>1, <1>2, <1>11, DeleteSized DEF Lands
<1> QED
  BY <1>9, <1>10, <1>11 DEF Procs

\* A list that is there when a server first looks was made by a proxy, which
\* found no server, for NUMSEGMENTS nodes.
LEMMA ListForServer ==
    ASSUME FewThreads, BaseInv, OrderInv, Paired, Owned, ServerSized, ProxySized,
           pc["server"] = "map", seg["server"] = "list", ~retried
    PROVE  nodes["server"] <= segs[fd["server"]].size
<1>1. fd["server"] = named["list"] /\ fd["server"] \in 1 .. Len(segs)
  BY Mapped2, ProcFacts DEF OrderInv, UpToDate, UpToDateAt
<1>2. segs[fd["server"]].size \in 0 .. MaxNodes
  <2>1. segs[fd["server"]] \in Segment
    BY <1>1, SeqFacts DEF BaseInv, TypeOK
  <2> QED
    BY <2>1, FieldTypes
<1>3. nodes["server"] <= NUMSEGMENTS /\ nodes["server"] \in 0 .. MaxNodes /\ NUMSEGMENTS \in 1 .. MaxNodes
  BY NumTypes, ProcFacts DEF ServerSized
<1>4. CASE ~exists["server"]
  <2>1. segs[fd["server"]].size = nodes["server"]
    BY <1>4 DEF ServerSized
  <2> QED
    BY <1>3, <2>1
<1>5. CASE exists["server"]
  <2>1. named["list"] # 0
    <3>1. \A n \in Nat : 0 \notin 1 .. n
      OBVIOUS
    <3>2. Len(segs) \in Nat
      BY SeqFacts DEF BaseInv, TypeOK
    <3> QED
      BY <1>1, <3>1, <3>2
  <2>2. PICK q \in Procs : Owner(q, "list")
    BY <2>1, ProcFacts DEF Owned
  <2>3. q # "server"
    BY <1>5, <2>2 DEF Owner, Has, Mapping, Halfway, Creating, FirstOf
  <2>4. pc[q] \in Steady /\ (q = "delete" => pc[q] = "down")
    BY <2>3, OthersRest, ProcFacts DEF OrderInv, Steady
  <2>5. Has(q, "list") /\ map[q]["list"] = named["list"] /\ pc[q] # "down"
    BY <2>2, <2>4 DEF Owner, Has, Mapping, Halfway, Creating, Steady
  <2>6. q = "proxy" /\ pc["proxy"] \in {"up", "wait"}
    BY <2>3, <2>4, <2>5 DEF Procs, Steady
  <2>7. map["proxy"]["meta"] = named["meta"]
    BY <2>5, <2>6 DEF Paired
  <2>8. Offline(named["meta"])
    <3>1. map["proxy"]["meta"] # 0
      BY <2>6, ProcFacts DEF BaseInv, TypeOK
    <3>2. pc["server"] \notin Told
      BY DEF Told
    <3> QED
      BY <2>7, <3>1, <3>2 DEF Owned
  <2>9. GotList /\ Untold
    BY <2>6, <2>7, <2>8 DEF GotList, Untold
  <2>10. Size("proxy") = NUMSEGMENTS
    BY <2>9 DEF ProxySized
  <2>11. segs[fd["server"]].size = NUMSEGMENTS
    BY <1>1, <2>5, <2>6, <2>10 DEF Size
  <2> QED
    BY <1>3, <2>11
<1> QED
  BY <1>4, <1>5

\* A proxy maps a list that it has made, or that of the server whose metanode
\* told it the number of nodes.
LEMMA ListForProxy ==
    ASSUME BaseInv, OrderInv, Owned, ServerSized, ProxySized,
           pc["proxy"] = "map", seg["proxy"] = "list"
    PROVE  /\ nodes["proxy"] = Num("proxy")
           /\ ~exists["proxy"] => segs[fd["proxy"]].size = nodes["proxy"]
           /\ Offline(map["proxy"]["meta"]) => ~exists["proxy"] /\ nodes["proxy"] = NUMSEGMENTS
           /\ exists["proxy"] => /\ pc["server"] = "up"
                                 /\ map["proxy"]["meta"] = map["server"]["meta"]
                                 /\ fd["proxy"] = map["server"]["list"]
<1>1. fd["proxy"] = named["list"] /\ fd["proxy"] \in 1 .. Len(segs)
  BY Mapped2, ProcFacts DEF OrderInv, UpToDate, UpToDateAt
<1>2. Has("proxy", "meta") /\ ~Has("proxy", "list")
  BY DEF Has, Creating, Mapping, Halfway, FirstOf
<1>3. map["proxy"]["meta"] = named["meta"]
  BY <1>2, ProcFacts DEF OrderInv, UpToDate, UpToDateAt, Steady, Ending
<1>4. pc["server"] \in {"down", "up"} /\ pc["delete"] = "down"
  BY OthersRest, ProcFacts DEF OrderInv, Steady
<1>5. GetsList
  BY DEF GetsList, Creating
<1>6. ASSUME exists["proxy"] PROVE pc["server"] = "up"
  <2>1. named["list"] # 0
    <3>1. \A n \in Nat : 0 \notin 1 .. n
      OBVIOUS
    <3>2. Len(segs) \in Nat
      BY SeqFacts DEF BaseInv, TypeOK
    <3> QED
      BY <1>1, <3>1, <3>2
  <2>2. PICK q \in Procs : Owner(q, "list")
    BY <1>4, <2>1, ProcFacts DEF Owned
  <2>3. q # "proxy"
    BY <1>2, <1>6, <2>2 DEF Owner
  <2>4. pc[q] # "down"
    BY <2>2 DEF Owner, Has, Mapping, Halfway, Creating
  <2> QED
    BY <1>4, <2>3, <2>4 DEF Procs
<1>7. ASSUME pc["server"] = "up"
      PROVE  /\ map["server"]["meta"] = named["meta"] /\ map["server"]["list"] = named["list"]
             /\ ~Offline(map["server"]["meta"])
  BY <1>7, ProcFacts DEF OrderInv, Keeps, Told
<1>8. nodes["proxy"] = Num("proxy") /\ (Offline(map["proxy"]["meta"]) => nodes["proxy"] = NUMSEGMENTS)
  BY <1>5 DEF ProxySized
<1>9. ~exists["proxy"] => segs[fd["proxy"]].size = nodes["proxy"]
  BY DEF ProxySized
<1> QED
  BY <1>1, <1>3, <1>6, <1>7, <1>8, <1>9

\* mmap() of a list: it was made for as many nodes as p asks for, or by a
\* process whose number is known.
LEMMA MapSized ==
    ASSUME FewThreads, BaseInv, OrderInv, Paired, Owned, ServerSized, ProxySized,
           NEW p \in Procs, NEW s \in Names, Map(p, s), BaseInv', faults' \in 0 .. MaxFaults
    PROVE  ServerSized' /\ ProxySized'
<1> DEFINE m == [map[p] EXCEPT ![s] = fd[p]]
           l == IF exists[p] THEN After(p, s) ELSE "init"
           t == IF exists[p] THEN NextSeg(p, s) ELSE s
<1>1. pc[p] = "map" /\ seg[p] = s /\ UNCHANGED <<segs, named, retried>>
  BY DEF Map, Inside
<1>2. Lands(p, l, t, m, 0, exists[p], nodes[p])
  BY MapBase DEF BaseInv, TypeOK
<1>3. m[s] = fd[p] /\ \A x \in Names : x # s => m[x] = map[p][x]
  BY DEF BaseInv, TypeOK
<1>4. /\ p = "server" => l \in {"open", "setServerFlag", "init"}
      /\ p = "proxy" /\ s = "meta" => l \in {"readFlag", "init"} /\ t = "meta"
      /\ p = "proxy" /\ s = "list" => t = "list" /\ l = IF exists[p] THEN "setProxyFlag" ELSE "init"
  BY DEF After, NextSeg, Names
<1> HIDE DEF m, l, t
<1>5. \A q \in Procs : HeadsKept(q)
  BY <1>1 DEF HeadsKept, HeadKept
<1>6. CASE p = "server"
  <2>1. ProxySized'
    BY <1>1, <1>2, <1>4, <1>5, <1>6, ProxySizedQuiet, ProcFacts DEF Lands
  <2>2. ServerSized'
    <3>1. CASE s = "meta"
      <4>1. Has(p, "list") /\ Size(p)' = Size(p)
        BY <1>1, <1>2, <1>3, <1>6, <3>1, ProcFacts DEF Size, Lands, Has, Creating, FirstOf
      <4> QED
        BY <1>1, <1>2, <1>4, <1>6, <4>1, ServerWaySized
    <3>2. CASE s = "list"
      <4>1. ~retried => nodes[p] <= segs[fd[p]].size
        BY <1>1, <1>6, <3>2, ListForServer
      <4>2. Size(p)' = segs[fd[p]].size
        BY <1>1, <1>2, <1>3, <3>2 DEF Size, Lands
      <4>3. pc'[p] = l /\ nodes'[p] = nodes[p]
        BY <1>2 DEF Lands
      <4> QED
        BY <1>1, <1>4, <1>6, <4>1, <4>2, <4>3 DEF ServerSized
    <3> QED
      BY <3>1, <3>2 DEF Names
  <2> QED
    BY <2>1, <2>2
<1>7. CASE p = "proxy"
  <2>1. ServerSized'
    BY <1>1, <1>2, <1>5, <1>7, ServerSizedFrame, ProcFacts DEF Lands
  <2>2. ProxySized'
    <3>1. CASE s = "meta"
      <4>1. /\ pc'["proxy"] \in {"readFlag", "init"} /\ seg'["proxy"] = "meta"
        BY <1>2, <1>4, <1>7, <3>1 DEF Lands
      <4> QED
        BY <4>1 DEF ProxySized, GetsList, GotList, Creating
    <3>2. CASE s = "list"
      <4>1. /\ nodes["proxy"] = Num("proxy")
            /\ ~exists["proxy"] => segs[fd["proxy"]].size = nodes["proxy"]
            /\ Offline(map["proxy"]["meta"]) => ~exists["proxy"] /\ nodes["proxy"] = NUMSEGMENTS
            /\ exists["proxy"] => /\ pc["server"] = "up"
                                  /\ map["proxy"]["meta"] = map["server"]["meta"]
                                  /\ fd["proxy"] = map["server"]["list"]
        BY <1>1, <1>7, <3>2, ListForProxy
      <4>2. /\ pc'["proxy"] \in {"init", "setProxyFlag"} /\ nodes'["proxy"] = nodes["proxy"]
            /\ map'["proxy"]["meta"] = map["proxy"]["meta"] /\ map'["proxy"]["list"] = fd["proxy"]
            /\ map'["server"] = map["server"] /\ pc'["server"] = pc["server"] /\ segs' = segs
            /\ nodes'["server"] = nodes["server"]
        BY <1>1, <1>2, <1>3, <1>4, <1>7, <3>2, ProcFacts DEF Lands, OthersStay
      <4>3. /\ Num("proxy")' = Num("proxy") /\ Size("proxy")' = segs[fd["proxy"]].size
            /\ Offline(map["proxy"]["meta"])' <=> Offline(map["proxy"]["meta"])
        BY <4>2 DEF Num, Size, Offline
      <4>4. Num("proxy") \in 0 .. MaxNodes
        <5>1. Has("proxy", "meta")
          BY <1>1, <1>7, <3>2 DEF Has, Creating, FirstOf
        <5> QED
          BY <5>1, NumTypes, ProcFacts
      <4>5. pc["server"] \in {"down", "up"}
        BY <1>1, <1>7, OthersRest, ProcFacts DEF OrderInv, Steady
      <4>6. Num("proxy")' <= Size("proxy")' \/ Lends'
        <5>1. CASE ~exists["proxy"]
          BY <4>1, <4>3, <4>4, <5>1
        <5>2. CASE exists["proxy"] /\ retried
          <6>1. map'["proxy"] = map'["server"]
            <7>1. map'["proxy"] \in [Names -> 0 .. Len(segs')] /\ map'["server"] \in [Names -> 0 .. Len(segs')]
              BY ProcFacts DEF BaseInv, TypeOK
            <7>2. \A x \in Names : map'["proxy"][x] = map'["server"][x]
              BY <4>1, <4>2, <5>2 DEF Names
            <7> QED
              BY <7>1, <7>2
          <6> QED
            BY <1>1, <4>1, <4>2, <5>2, <6>1 DEF Lends
        <5>3. CASE exists["proxy"] /\ ~retried
          <6>1. Has("server", "list") /\ Num("server") = nodes["server"] /\ nodes["server"] <= Size("server")
            BY <4>1, <5>3 DEF ServerSized, Has, Mapping
          <6>2. Num("server") = Num("proxy") /\ Size("server") = segs[fd["proxy"]].size
            BY <4>1, <5>3 DEF Num, Size
          <6> QED
            BY <4>3, <6>1, <6>2
        <5> QED
          BY <5>1, <5>2, <5>3
      <4>7. Untold' => Offline(map["proxy"]["meta"])
        BY <4>2, <4>3, <4>5 DEF Untold
      <4>8. Num("proxy")' <= nodes'["proxy"]
        BY <4>1, <4>2, <4>3, <4>4
      <4>9. /\ nodes'["proxy"] = Num("proxy")'
            /\ Offline(map["proxy"]["meta"])' => nodes'["proxy"] = NUMSEGMENTS
            /\ Untold' => nodes'["proxy"] = NUMSEGMENTS /\ Size("proxy")' = NUMSEGMENTS
        BY <4>1, <4>2, <4>3, <4>7
      <4> QED
        BY <4>2, <4>6, <4>8, <4>9 DEF ProxySized
    <3> QED
      BY <3>1, <3>2 DEF Names
  <2> QED
    BY <2>1, <2>2
<1>8. CASE p = "delete"
  BY <1>1, <1>2, <1>8, DeleteSized DEF Lands
<1> QED
  BY <1>6, <1>7, <1>8 DEF Procs

\* A new segment is filled in; its size stays.
LEMMA InitSegmentSized ==
    ASSUME BaseInv, OrderInv, ServerSized, ProxySized, NEW p \in Procs, NEW s \in Names,
           InitSegment(p, s), faults' \in 0 .. MaxFaults
    PROVE  ServerSized' /\ ProxySized'
<1> DEFINE l == After(p, s)
           t == NextSeg(p, s)
           o == map[p][s]
<1>1. /\ pc[p] = "init" /\ seg[p] = s /\ retried' = retried /\ segs \in Seq(Segment)
      /\ segs' = [segs EXCEPT ![o] = [NewSegment EXCEPT !.size = segs[o].size]]
  BY DEF InitSegment, Inside, BaseInv, TypeOK
<1>2. Lands(p, l, t, map[p], 0, FALSE, nodes[p]) /\ o \in 1 .. Len(segs)
  BY InitSegmentBase
<1>3. /\ p = "server" => l \in {"open", "setServerFlag"}
      /\ p = "proxy" /\ s = "meta" => l = "readFlag" /\ t = "meta"
      /\ p = "proxy" /\ s = "list" => l = "setProxyFlag" /\ t = "list"
  BY DEF After, NextSeg, Names
<1> HIDE DEF l, t, o
<1>4. /\ \A x \in 1 .. Len(segs) : x # o => segs'[x] = segs[x]
      /\ \A x \in 1 .. Len(segs) : segs'[x].size = segs[x].size
  BY <1>1, <1>2, RenewSegment
<1>5. \A x \in 1 .. Len(segs) : x # o => HeadKept(x)
  BY <1>4 DEF HeadKept
<1>6. /\ \A q \in Procs \ {p} : HeadsKept(q)
      /\ \A x \in Names \ {s} : map[p][x] # o
  BY <1>1, <1>5, FreshTouch DEF o
<1>7. CASE p = "server"
  <2>1. ProxySized'
    BY <1>1, <1>2, <1>3, <1>6, <1>7, ProxySizedQuiet, ProcFacts DEF Lands
  <2>2. Has(p, "list") /\ map[p]["list"] \in 1 .. Len(segs)
    <3>1. Has(p, "list") /\ PlacedAt(p) /\ map[p]["list"] \in 0 .. Len(segs) /\ Len(segs) \in Nat
      BY <1>1, <1>7, SeqFacts, ProcFacts DEF Has, Creating, FirstOf, Names, BaseInv, TypeOK
    <3>2. map[p]["list"] # 0
      BY <3>1, ProcFacts DEF PlacedAt
    <3> QED
      BY <3>1, <3>2
  <2>3. Size(p)' = Size(p)
    BY <1>2, <1>4, <2>2 DEF Size, Lands
  <2>4. ServerSized'
    BY <1>1, <1>2, <1>3, <1>7, <2>2, <2>3, ServerWaySized
  <2> QED
    BY <2>1, <2>4
<1>8. CASE p = "proxy"
  <2>1. ServerSized'
    BY <1>1, <1>2, <1>6, <1>8, ServerSizedFrame, ProcFacts DEF Lands
  <2>2. ProxySized'
    <3>1. CASE s = "meta"
      <4>1. pc'["proxy"] = "readFlag"
        BY <1>2, <1>3, <1>8, <3>1 DEF Lands
      <4> QED
        BY <4>1 DEF ProxySized, GetsList, GotList, Creating
    <3>2. CASE s = "list"
      <4>1. GetsList /\ GotList /\ Has("proxy", "meta")
        BY <1>1, <1>8, <3>2, HasFacts DEF GetsList, GotList, Creating
      <4>2. /\ pc'["proxy"] = "setProxyFlag" /\ nodes'["proxy"] = nodes["proxy"]
            /\ map'["proxy"] = map["proxy"]
            /\ map'["server"] = map["server"] /\ pc'["server"] = pc["server"]
        BY <1>2, <1>3, <1>8, <3>2, ProcFacts DEF Lands, OthersStay
      <4>3. map["proxy"]["meta"] \in 1 .. Len(segs) /\ map["proxy"]["meta"] # o
        BY <1>1, <1>6, <1>8, <3>2, Mapped2, ProcFacts DEF Creating, FirstOf
      <4>4. /\ Num("proxy")' = Num("proxy")
            /\ Offline(map["proxy"]["meta"])' <=> Offline(map["proxy"]["meta"])
        BY <1>4, <4>2, <4>3 DEF Num, Offline
      <4>5. Size("proxy")' = Size("proxy")
        BY <1>2, <1>4, <1>8, <3>2, <4>2 DEF Size, o
      <4>6. (Untold' => Untold) /\ (Lends => Lends')
        BY <1>1, <4>2, <4>4 DEF Untold, Lends
      <4> QED
        BY <4>1, <4>2, <4>4, <4>5, <4>6 DEF ProxySized
    <3> QED
      BY <3>1, <3>2 DEF Names
  <2> QED
    BY <2>1, <2>2
<1>9. CASE p = "delete"
  BY <1>1, <1>2, <1>9, DeleteSized DEF Lands
<1> QED
  BY <1>7, <1>8, <1>9 DEF Procs

\* The second getMemList() of the server, for the default number of nodes.
LEMMA RetrySized ==
    ASSUME BaseInv, OrderInv, ServerSized, ProxySized, Retries, faults' \in 0 .. MaxFaults
    PROVE  ServerSized' /\ ProxySized'
<1> DEFINE p == "server"
<1>1. /\ pc[p] \in {"reopen", "truncate", "map"}
      /\ UNCHANGED <<segs, named>> /\ retried'
      /\ Lands(p, "open", "list", map[p], 0, exists[p], NUMSEGMENTS)
  BY RetryBase, ProcFacts DEF Retries, Failing, Creating
<1>2. HeadsKept("proxy")
  BY <1>1 DEF HeadsKept, HeadKept
<1>3. ProxySized'
  BY <1>1, <1>2, ProxySizedQuiet DEF Lands
<1>4. NUMSEGMENTS <= NUMSEGMENTS
  BY MaxNodesFacts
<1>5. ServerSized'
  BY <1>1, <1>4 DEF ServerSized, Lands
<1> QED
  BY <1>3, <1>5

\* The server is about to give up.
LEMMA NoMetaSized ==
    ASSUME BaseInv, OrderInv, ServerSized, ProxySized, NoMeta, faults' \in 0 .. MaxFaults
    PROVE  ServerSized' /\ ProxySized'
<1> DEFINE p == "server"
<1>1. /\ pc[p] \in {"reopen", "truncate", "map"} /\ seg[p] = "meta"
      /\ UNCHANGED <<segs, named, retried>>
      /\ Lands(p, "giveUp", "meta", map[p], 0, exists[p], nodes[p])
  BY NoMetaBase, ProcFacts DEF NoMeta, Failing, Creating
<1>2. HeadsKept("proxy")
  BY <1>1 DEF HeadsKept, HeadKept
<1>3. ProxySized'
  BY <1>1, <1>2, ProxySizedQuiet DEF Lands
<1>4. Has(p, "list") /\ Size(p)' = Size(p)
  BY <1>1 DEF Has, Creating, FirstOf, Size, Lands
<1>5. ServerSized'
  BY <1>1, <1>4 DEF ServerSized, Lands
<1> QED
  BY <1>3, <1>5

\* The server says that it is there; the proxy has been told nothing yet.
LEMMA SetServerFlagSized ==
    ASSUME BaseInv, OrderInv, Owned, ServerSized, ProxySized, SetServerFlag, faults' \in 0 .. MaxFaults
    PROVE  ServerSized' /\ ProxySized'
<1> DEFINE p == "server"
           o == map["server"]["meta"]
<1>1. /\ pc[p] = "setServerFlag" /\ retried' = retried
      /\ segs' = [segs EXCEPT ![o].serverFlag = "ONLINE"]
  BY DEF SetServerFlag, Access, MetaStep
<1>2. /\ Lands(p, "setNum", seg[p], map[p], 0, exists[p], nodes[p])
      /\ o \in 1 .. Len(segs)
  BY SetServerFlagBase
<1>3. \A x \in 1 .. Len(segs) :
         /\ x # o => segs'[x] = segs[x]
         /\ segs'[x].size = segs[x].size /\ segs'[x].numNodes = segs[x].numNodes
  BY <1>1, <1>2, ServerFlagWrite DEF BaseInv, TypeOK
<1>4. pc["proxy"] \in Steady
  BY <1>1, OthersRest, ProcFacts DEF OrderInv, Steady
<1>5. /\ pc'["proxy"] = pc["proxy"] /\ map'["proxy"] = map["proxy"]
      /\ nodes'["proxy"] = nodes["proxy"] /\ map'[p] = map[p]
  BY <1>2, ProcFacts DEF Lands, OthersStay
<1>6. ServerSized'
  <2>1. Has(p, "list") /\ map[p]["list"] \in 1 .. Len(segs)
    BY <1>1, Mapped2, ProcFacts DEF Has, Mapping
  <2>2. Size(p)' = Size(p)
    BY <1>3, <1>5, <2>1 DEF Size
  <2> QED
    BY <1>1, <1>2, <2>1, <2>2 DEF ServerSized, Lands
<1>7. ProxySized'
  <2>1. CASE pc["proxy"] = "down"
    BY <1>5, <2>1 DEF ProxySized, GetsList, GotList, Creating
  <2>2. CASE pc["proxy"] \in {"up", "wait"}
    <3>1. map["proxy"]["meta"] \in 1 .. Len(segs) /\ map["proxy"]["list"] \in 1 .. Len(segs)
      BY <2>2, Mapped2, ProcFacts DEF Mapping
    <3>2. Num("proxy")' = Num("proxy") /\ Size("proxy")' = Size("proxy")
      BY <1>3, <1>5, <3>1 DEF Num, Size
    <3>3. ~Lends /\ GotList
      BY <1>1, <2>2 DEF Lends, GotList
    <3>4. Offline(map["proxy"]["meta"])' => Offline(map["proxy"]["meta"])
      <4>1. CASE map["proxy"]["meta"] = o
        <5>1. Has(p, "meta")
          BY <1>1 DEF Has, Mapping
        <5>2. o = named["meta"]
          BY <1>1, <5>1, ProcFacts DEF OrderInv, UpToDate, UpToDateAt, Steady, Ending
        <5>3. o # 0
          BY <1>1, ProcFacts DEF BaseInv, PlacedAt, Has, Mapping
        <5> QED
          BY <1>1, <4>1, <5>2, <5>3 DEF Owned, Told
      <4>2. CASE map["proxy"]["meta"] # o
        BY <1>3, <1>5, <3>1, <4>2 DEF Offline
      <4> QED
        BY <4>1, <4>2
    <3>5. Untold' => Untold
      <4>1. ASSUME map["proxy"]["meta"] = map["server"]["meta"] PROVE Offline(map["proxy"]["meta"])
        <5>1. Has(p, "meta")
          BY <1>1 DEF Has, Mapping
        <5>2. o = named["meta"]
          BY <1>1, <5>1, ProcFacts DEF OrderInv, UpToDate, UpToDateAt, Steady, Ending
        <5>3. o # 0
          BY <1>1, ProcFacts DEF BaseInv, PlacedAt, Has, Mapping
        <5> QED
          BY <1>1, <4>1, <5>2, <5>3 DEF Owned, Told
      <4> QED
        BY <1>5, <3>4, <4>1 DEF Untold
    <3> QED
      BY <1>5, <2>2, <3>2, <3>3, <3>5 DEF ProxySized, GetsList, GotList, Creating
  <2> QED
    BY <1>4, <2>1, <2>2 DEF Steady
<1> QED
  BY <1>6, <1>7

\* The server says how many nodes there are: no more than a proxy that it finds
\* has mapped.
LEMMA SetNumSized ==
    ASSUME BaseInv, OrderInv, ServerSized, ProxySized, SetNum, faults' \in 0 .. MaxFaults
    PROVE  ServerSized' /\ ProxySized'
<1> DEFINE p == "server"
           o == map["server"]["meta"]
<1>1. /\ pc[p] = "setNum" /\ retried' = retried
      /\ segs' = [segs EXCEPT ![o].numNodes = nodes[p]]
  BY DEF SetNum, Access, MetaStep
<1>2. /\ Lands(p, "bind", seg[p], map[p], 0, exists[p], nodes[p])
      /\ o \in 1 .. Len(segs)
  BY SetNumBase
<1>3. nodes[p] \in 0 .. MaxNodes /\ nodes[p] <= NUMSEGMENTS /\ NUMSEGMENTS \in 1 .. MaxNodes
  BY NumTypes, ProcFacts DEF ServerSized
<1>4. /\ segs'[o].numNodes = nodes[p]
      /\ \A x \in 1 .. Len(segs) :
            /\ x # o => segs'[x] = segs[x]
            /\ segs'[x].size = segs[x].size /\ segs'[x].serverFlag = segs[x].serverFlag
  BY <1>1, <1>2, <1>3, NumNodesWrite DEF BaseInv, TypeOK
<1>5. pc["proxy"] \in Steady
  BY <1>1, OthersRest, ProcFacts DEF OrderInv, Steady
<1>6. /\ pc'["proxy"] = pc["proxy"] /\ map'["proxy"] = map["proxy"] /\ pc'[p] = "bind"
      /\ nodes'["proxy"] = nodes["proxy"] /\ map'[p] = map[p] /\ nodes'[p] = nodes[p]
  BY <1>2, ProcFacts DEF Lands, OthersStay
<1>7. ServerSized'
  <2>1. Has(p, "list") /\ map[p]["list"] \in 1 .. Len(segs)
    BY <1>1, Mapped2, ProcFacts DEF Has, Mapping
  <2>2. Size(p)' = Size(p) /\ Num(p)' = nodes[p]
    BY <1>4, <1>6, <2>1 DEF Size, Num
  <2> QED
    BY <1>1, <1>6, <2>1, <2>2 DEF ServerSized
<1>8. ProxySized'
  <2>1. CASE pc["proxy"] = "down"
    BY <1>6, <2>1 DEF ProxySized, GetsList, GotList, Creating
  <2>2. CASE pc["proxy"] \in {"up", "wait"}
    <3>1. map["proxy"]["meta"] \in 1 .. Len(segs) /\ map["proxy"]["list"] \in 1 .. Len(segs)
      BY <2>2, Mapped2, ProcFacts DEF Mapping
    <3>2. Size("proxy")' = Size("proxy")
      BY <1>4, <1>6, <3>1 DEF Size
    <3>3. ~Lends /\ GotList
      BY <1>1, <2>2 DEF Lends, GotList
    <3>4. Untold' => Untold
      BY <1>4, <1>6, <3>1 DEF Untold, Offline
    <3>5. Num("proxy")' <= nodes'["proxy"] /\ Num("proxy")' <= Size("proxy")'
      <4>1. CASE map["proxy"]["meta"] = o
        <5>1. Untold
          BY <1>1, <4>1 DEF Untold
        <5>2. nodes["proxy"] = NUMSEGMENTS /\ Size("proxy") = NUMSEGMENTS
          BY <3>3, <5>1 DEF ProxySized
        <5>3. Num("proxy")' = nodes[p]
          BY <1>4, <1>6, <4>1 DEF Num
        <5> QED
          BY <1>3, <1>6, <3>2, <5>2, <5>3
      <4>2. CASE map["proxy"]["meta"] # o
        <5>1. Num("proxy")' = Num("proxy")
          BY <1>4, <1>6, <3>1, <4>2 DEF Num
        <5> QED
          BY <1>6, <3>2, <3>3, <5>1 DEF ProxySized
      <4> QED
        BY <4>1, <4>2
    <3> QED
      BY <1>6, <2>2, <3>2, <3>3, <3>4, <3>5 DEF ProxySized, GetsList, GotList, Creating
  <2> QED
    BY <1>5, <2>1, <2>2 DEF Steady
<1> QED
  BY <1>7, <1>8

\* A server that has said everything goes on; before it erases its metanode it
\* has seen that its list is large enough.
LEMMA ServerUpSized ==
    ASSUME BaseInv, ServerSized, ProxySized, NEW l \in {"up", "destroyList", "destroyMeta"},
           pc["server"] \in {"bind", "up", "destroyList"},
           Lands("server", l, seg["server"], map["server"], 0, exists["server"], nodes["server"]),
           retried' = retried, \A x \in 1 .. Len(segs) : HeadKept(x),
           l = "destroyMeta" => Num("server") <= Size("server")
    PROVE  ServerSized' /\ ProxySized'
<1>1. /\ map["server"]["meta"] \in 1 .. Len(segs) /\ map["server"]["list"] \in 1 .. Len(segs)
      /\ Has("server", "list")
  BY Mapped2, ProcFacts DEF Mapping, Has
<1>2. pc'["server"] = l /\ map'["server"] = map["server"] /\ nodes'["server"] = nodes["server"]
      /\ map'["proxy"] = map["proxy"]
  BY ProcFacts DEF Lands, OthersStay
<1>3. Num("server")' = Num("server") /\ Size("server")' = Size("server")
  BY <1>1, <1>2 DEF Num, Size, HeadKept
<1>4. ServerSized'
  BY <1>1, <1>2, <1>3 DEF ServerSized
<1>5. HeadsKept("proxy")
  BY DEF HeadsKept
<1>6. Lends => Lends'
  BY <1>2 DEF Lends
<1>7. ASSUME GotList, Untold' PROVE Untold
  <2>1. Offline(map["proxy"]["meta"])'
    BY <1>2, <1>7 DEF Untold
  <2>2. HeadKept(map["proxy"]["meta"])
    BY <1>5, <1>7, MappedHeads, HasFacts, ProcFacts
  <2> QED
    BY <1>2, <2>1, <2>2 DEF Untold, Offline, HeadKept
<1>8. ProxySized'
  BY <1>5, <1>6, <1>7, ProxySizedFrame, ProcFacts DEF Lands
<1> QED
  BY <1>4, <1>8

\* A step that writes to no head keeps them all.
LEMMA SameHeadsSized ==
    ASSUME BaseInv, \/ segs' = segs
                    \/ SameHeads
    PROVE  \A x \in 1 .. Len(segs) : HeadKept(x)
  BY DEF SameHeads, HeadKept

\* bind(), an answered request and the beginning of the end.
LEMMA ServerGoesOnSized ==
    ASSUME BaseInv, ServerSized, ProxySized, Bind \/ Answer \/ Shutdown("server"),
           faults' \in 0 .. MaxFaults
    PROVE  ServerSized' /\ ProxySized'
<1>1. CASE Bind
  <2>1. /\ pc["server"] = "bind" /\ retried' = retried /\ segs' = segs
        /\ Lands("server", "up", seg["server"], map["server"], 0, exists["server"], nodes["server"])
    BY <1>1, BindBase DEF Bind, MetaStep
  <2>2. "up" \in {"up", "destroyList", "destroyMeta"} /\ "up" # "destroyMeta"
    OBVIOUS
  <2> QED
    BY <2>1, <2>2, SameHeadsSized, ServerUpSized
<1>2. CASE Answer
  <2>1. /\ pc["server"] = "up" /\ retried' = retried /\ SameHeads
        /\ Lands("server", "up", seg["server"], map["server"], 0, exists["server"], nodes["server"])
    BY <1>2, AnswerBase DEF Answer
  <2>2. "up" \in {"up", "destroyList", "destroyMeta"} /\ "up" # "destroyMeta"
    OBVIOUS
  <2> QED
    BY <2>1, <2>2, SameHeadsSized, ServerUpSized
<1>3. CASE Shutdown("server")
  <2>1. /\ pc["server"] = "up" /\ retried' = retried /\ segs' = segs
        /\ Lands("server", "destroyList", seg["server"], map["server"], 0, exists["server"], nodes["server"])
    BY <1>3, ShutdownBase, ProcFacts
  <2>2. "destroyList" \in {"up", "destroyList", "destroyMeta"} /\ "destroyList" # "destroyMeta"
    OBVIOUS
  <2> QED
    BY <2>1, <2>2, SameHeadsSized, ServerUpSized
<1> QED
  BY <1>1, <1>2, <1>3

\* The server erases: destroyMemList() goes by the number in its metanode.
LEMMA ServerEndsSized ==
    ASSUME BaseInv, ServerSized, ProxySized, EraseList("server") \/ DestroyMetanode("server"),
           faults' \in 0 .. MaxFaults
    PROVE  ServerSized' /\ ProxySized'
<1>1. CASE EraseList("server")
  <2>1. /\ pc["server"] = "destroyList" /\ retried' = retried /\ segs' = segs
        /\ Lands("server", "destroyMeta", seg["server"], map["server"], 0,
                 exists["server"], nodes["server"])
    BY <1>1, DestroyListBase, ProcFacts DEF EraseList
  <2>2. Num("server") <= Size("server")
    BY <1>1 DEF EraseList, Mapped, Meta, List, Num, Size
  <2> QED
    BY <2>1, <2>2, SameHeadsSized, ServerUpSized
<1>2. CASE DestroyMetanode("server")
  <2>1. /\ pc["server"] = "destroyMeta" /\ segs' = segs
        /\ Lands("server", "down", "meta", NoMap, 0, FALSE, 0)
    BY <1>2, DestroyMetaBase, ProcFacts
  <2>2. 0 <= NUMSEGMENTS
    BY MaxNodesFacts
  <2>3. ServerSized'
    BY <2>1, <2>2 DEF ServerSized, Lands, Has, Mapping, Halfway, Creating
  <2>4. HeadsKept("proxy")
    BY <2>1 DEF HeadsKept, HeadKept
  <2>5. Lends => Num("proxy") <= Size("proxy")
    BY <2>1 DEF Lends, ServerSized, Num, Size
  <2>6. Untold' => Untold
    BY <2>1, ProcFacts DEF Untold, Offline, Lands, OthersStay
  <2>7. ProxySized'
    BY <2>1, <2>4, <2>5, <2>6, ProxySizedFrame, ProcFacts DEF Lands
  <2> QED
    BY <2>3, <2>7
<1> QED
  BY <1>1, <1>2

\* The server starts, with as many threads as it is told.
LEMMA ServerStartsSized ==
    ASSUME FewThreads, BaseInv, ServerSized, ProxySized, Start("server")
    PROVE  ServerSized' /\ ProxySized'
<1>1. /\ pc["server"] = "down" /\ segs' = segs
      /\ \E n \in 0 .. MaxNodes :
            /\ Lands("server", "open", FirstOf("server"), map["server"], 0, exists["server"], n)
            /\ n \in ThreadCounts
  BY StartBase, ProcFacts
<1>2. PICK n \in 0 .. MaxNodes :
            /\ Lands("server", "open", FirstOf("server"), map["server"], 0, exists["server"], n)
            /\ n \in ThreadCounts
  BY <1>1
<1>3. n <= NUMSEGMENTS
  BY <1>2 DEF FewThreads
<1>4. pc'["server"] = "open" /\ seg'["server"] = FirstOf("server") /\ nodes'["server"] = n
  BY <1>2 DEF Lands
<1>5. ServerSized'
  BY <1>3, <1>4 DEF ServerSized, Has, Mapping, Halfway, Creating
<1>6. HeadsKept("proxy")
  BY <1>1 DEF HeadsKept, HeadKept
<1>7. ProxySized'
  BY <1>1, <1>2, <1>4, <1>6, ProxySizedQuiet DEF Lands
<1> QED
  BY <1>5, <1>7

\* The proxy looks for a server and, if there is none, sets the number itself.
LEMMA ReadFlagSized ==
    ASSUME BaseInv, ServerSized, ProxySized, ReadFlag, faults' \in 0 .. MaxFaults
    PROVE  ServerSized' /\ ProxySized'
<1> DEFINE l == IF Offline(map["proxy"]["meta"]) THEN "setDefault" ELSE "readNum"
<1>1. /\ segs' = segs /\ retried' = retried
      /\ Lands("proxy", l, seg["proxy"], map["proxy"], 0, exists["proxy"], nodes["proxy"])
  BY ReadFlagBase DEF ReadFlag, MetaStep
<1>2. HeadsKept("server")
  BY <1>1 DEF HeadsKept, HeadKept
<1>3. ServerSized'
  BY <1>1, <1>2, ServerSizedFrame, ProcFacts DEF Lands
<1>4. pc'["proxy"] = l /\ map'["proxy"] = map["proxy"]
  BY <1>1 DEF Lands
<1>5. Offline(map["proxy"]["meta"])' <=> Offline(map["proxy"]["meta"])
  BY <1>1, <1>4 DEF Offline
<1>6. ProxySized'
  BY <1>4, <1>5 DEF ProxySized, GetsList, GotList, Creating
<1> QED
  BY <1>3, <1>6

\* The proxy that found no server writes the default number to a metanode no
\* server has mapped.
LEMMA SetDefaultSized ==
    ASSUME BaseInv, OrderInv, ServerSized, ProxySized, SetDefault, faults' \in 0 .. MaxFaults
    PROVE  ServerSized' /\ ProxySized'
<1> DEFINE p == "proxy"
           o == map["proxy"]["meta"]
<1>1. /\ pc[p] = "setDefault" /\ retried' = retried
      /\ segs' = [segs EXCEPT ![o].numNodes = NUMSEGMENTS]
  BY DEF SetDefault, Access, MetaStep
<1>2. /\ Lands(p, "readNum", seg[p], map[p], 0, exists[p], nodes[p])
      /\ o \in 1 .. Len(segs)
  BY SetDefaultBase
<1>3. NUMSEGMENTS \in 0 .. MaxNodes
  BY MaxNodesFacts
<1>4. /\ segs'[o].numNodes = NUMSEGMENTS
      /\ \A x \in 1 .. Len(segs) :
            /\ x # o => segs'[x] = segs[x]
            /\ segs'[x].size = segs[x].size /\ segs'[x].serverFlag = segs[x].serverFlag
  BY <1>1, <1>2, <1>3, NumNodesWrite DEF BaseInv, TypeOK
<1>5. pc["server"] \in {"down", "up"}
  BY <1>1, OthersRest, ProcFacts DEF OrderInv, Steady
<1>6. map'["server"] = map["server"] /\ map'[p] = map[p] /\ pc'[p] = "readNum"
  BY <1>2, ProcFacts DEF Lands, OthersStay
<1>7. ServerSized'
  <2>1. CASE pc["server"] = "down"
    <3>1. ~Has("server", "list") /\ ~Has("server", "meta") /\ pc["server"] # "map"
      BY <2>1 DEF Has, Mapping, Halfway, Creating
    <3> QED
      BY <1>1, <1>2, <3>1, ServerNumsFrame, ProcFacts DEF Lands
  <2>2. CASE pc["server"] = "up"
    <3>1. map["server"]["meta"] \in 1 .. Len(segs) /\ map["server"]["list"] \in 1 .. Len(segs)
      BY <2>2, Mapped2, ProcFacts DEF Mapping
    <3>2. map["server"]["meta"] # o
      BY <1>1, <2>2 DEF OrderInv, Keeps, Told, ProxySized
    <3>3. Num("server")' = Num("server") /\ Size("server")' = Size("server")
      BY <1>4, <1>6, <3>1, <3>2 DEF Num, Size
    <3>4. pc["server"] # "map"
      BY <2>2
    <3> QED
      BY <1>1, <1>2, <3>3, <3>4, ServerNumsFrame, ProcFacts DEF Lands
  <2> QED
    BY <1>5, <2>1, <2>2
<1>8. Num(p)' = NUMSEGMENTS
  BY <1>4, <1>6 DEF Num
<1>9. ProxySized'
  BY <1>6, <1>8 DEF ProxySized, GetsList, GotList, Creating
<1> QED
  BY <1>7, <1>9

\* The proxy asks for as many nodes as its metanode says.
LEMMA ListsSized ==
    ASSUME BaseInv, ServerSized, ProxySized, Lists("proxy"), faults' \in 0 .. MaxFaults
    PROVE  ServerSized' /\ ProxySized'
<1>1. /\ segs' = segs /\ retried' = retried /\ pc["proxy"] = "readNum"
      /\ Lands("proxy", "open", "list", map["proxy"], 0, exists["proxy"], Num("proxy"))
  BY ReadNumBase, ProcFacts DEF Lists, ReadNum, Access, Meta, Num
<1>2. HeadsKept("server")
  BY <1>1 DEF HeadsKept, HeadKept
<1>3. ServerSized'
  BY <1>1, <1>2, ServerSizedFrame, ProcFacts DEF Lands
<1>4. /\ pc'["proxy"] = "open" /\ map'["proxy"] = map["proxy"]
      /\ nodes'["proxy"] = Num("proxy")
  BY <1>1 DEF Lands
<1>5. Num("proxy")' = Num("proxy") /\ (Offline(map["proxy"]["meta"])' <=> Offline(map["proxy"]["meta"]))
  BY <1>1, <1>4 DEF Offline, Num
<1>6. ~GotList'
  BY <1>4 DEF GotList
<1>7. ProxySized'
  BY <1>1, <1>4, <1>5, <1>6 DEF ProxySized
<1> QED
  BY <1>3, <1>7

\* The proxy says that it is there, and exchanges requests.
LEMMA ProxyUpSized ==
    ASSUME BaseInv, ServerSized, ProxySized, SetProxyFlag \/ Post \/ Collect,
           faults' \in 0 .. MaxFaults
    PROVE  ServerSized' /\ ProxySized'
<1>1. /\ pc["proxy"] \in {"setProxyFlag", "up", "wait"} /\ retried' = retried
      /\ \E l \in {"up", "wait"} : Lands("proxy", l, seg["proxy"], map["proxy"], 0,
                                         exists["proxy"], nodes["proxy"])
  BY SetProxyFlagBase, PostBase, CollectBase
     DEF SetProxyFlag, Access, MetaStep, Post, Collect
<1>2. PICK l \in {"up", "wait"} : Lands("proxy", l, seg["proxy"], map["proxy"], 0,
                                         exists["proxy"], nodes["proxy"])
  BY <1>1
<1>3. \A x \in 1 .. Len(segs) : HeadKept(x)
  <2>1. CASE SetProxyFlag
    <3>1. /\ segs' = [segs EXCEPT ![map["proxy"]["meta"]].proxyFlag = "ONLINE"]
          /\ map["proxy"]["meta"] \in 1 .. Len(segs)
      BY <2>1, SetProxyFlagBase DEF SetProxyFlag
    <3> QED
      BY <3>1, ProxyFlagWrite DEF HeadKept, BaseInv, TypeOK
  <2>2. CASE Post \/ Collect
    BY <2>2, PostBase, CollectBase, SameHeadsSized
  <2> QED
    BY <2>1, <2>2
<1>4. ServerSized'
  BY <1>1, <1>2, <1>3, ServerSizedFrame, ProcFacts DEF HeadsKept, Lands
<1>5. /\ pc'["proxy"] = l /\ map'["proxy"] = map["proxy"] /\ nodes'["proxy"] = nodes["proxy"]
      /\ map'["server"] = map["server"] /\ pc'["server"] = pc["server"]
  BY <1>2, ProcFacts DEF Lands, OthersStay
<1>6. map["proxy"]["meta"] \in 1 .. Len(segs) /\ map["proxy"]["list"] \in 1 .. Len(segs)
  BY <1>1, Mapped2, ProcFacts DEF Mapping
<1>7. /\ Num("proxy")' = Num("proxy") /\ Size("proxy")' = Size("proxy")
      /\ Offline(map["proxy"]["meta"])' <=> Offline(map["proxy"]["meta"])
  BY <1>3, <1>5, <1>6 DEF Num, Size, Offline, HeadKept
<1>8. (Untold' => Untold) /\ (Lends => Lends')
  BY <1>1, <1>5, <1>7 DEF Untold, Lends
<1>9. GotList /\ ~GetsList'
  BY <1>1, <1>5 DEF GotList, GetsList, Creating
<1>10. ProxySized'
  BY <1>5, <1>7, <1>8, <1>9 DEF ProxySized
<1> QED
  BY <1>4, <1>10

\* A proxy that starts, or is leaving, goes by no number.
LEMMA ProxyAwaySized ==
    ASSUME BaseInv, ServerSized, ProxySized, NEW l, NEW s, NEW m, NEW f, NEW e, NEW n,
           Lands("proxy", l, s, m, f, e, n), segs' = segs, retried' = retried,
           l \in {"down", "checkFlag", "destroyList", "destroyMeta"} \/ (l = "open" /\ s = "meta")
    PROVE  ServerSized' /\ ProxySized'
<1>1. HeadsKept("server")
  BY DEF HeadsKept, HeadKept
<1>2. ServerSized'
  BY <1>1, ServerSizedFrame, ProcFacts DEF Lands
<1>3. pc'["proxy"] = l /\ seg'["proxy"] = s
  BY DEF Lands
<1>4. ~GetsList' /\ ~GotList'
  BY <1>3 DEF GetsList, GotList, Creating
<1>5. ProxySized'
  BY <1>3, <1>4 DEF ProxySized
<1> QED
  BY <1>2, <1>5

\* The proxy leaves the segments to a server, or erases them.
LEMMA ProxyEndsSized ==
    ASSUME BaseInv, ServerSized, ProxySized,
           CheckFlag \/ EraseList("proxy") \/ DestroyMetanode("proxy"),
           faults' \in 0 .. MaxFaults
    PROVE  ServerSized' /\ ProxySized'
<1>1. retried \in BOOLEAN /\ "proxy" # "server" /\ "proxy" \in Procs
  BY ProcFacts DEF BaseInv, TypeOK
<1>2. CASE CheckFlag
  BY <1>2, CheckFlagBase, LeaveBase, ProxyAwaySized
<1>3. CASE EraseList("proxy")
  <2>1. /\ segs' = segs /\ retried' = retried
        /\ Lands("proxy", "destroyMeta", seg["proxy"], map["proxy"], 0,
                 exists["proxy"], nodes["proxy"])
    BY <1>1, <1>3, DestroyListBase DEF EraseList
  <2> QED
    BY <2>1, ProxyAwaySized
<1>4. CASE DestroyMetanode("proxy")
  <2>1. /\ segs' = segs /\ retried' = retried
        /\ Lands("proxy", "down", "meta", NoMap, 0, FALSE, 0)
    BY <1>1, <1>4, DestroyMetaBase
  <2> QED
    BY <2>1, ProxyAwaySized
<1> QED
  BY <1>2, <1>3, <1>4

\* The same while "server DELETE" is around.
LEMMA DeleteEndsSized ==
    ASSUME BaseInv, OrderInv, ServerSized,
           Lists("delete") \/ EraseList("delete") \/ DestroyMetanode("delete"),
           faults' \in 0 .. MaxFaults
    PROVE  ServerSized' /\ ProxySized'
<1>1. pc["delete"] # "down"
  BY DEF Lists, ReadNum, Access, EraseList, DestroyMemList, DestroyMetanode
<1>2. OthersStay("delete")
  BY ReadNumBase, DestroyListBase, DestroyMetaBase, ProcFacts DEF Lists, EraseList, Lands
<1> QED
  BY <1>1, <1>2, DeleteSized

\* Every step keeps both parts if the history stays clean.
LEMMA SizedKinds ==
    ASSUME FewThreads, BaseInv, OrderInv, Paired, Owned, ServerSized, ProxySized, Kinds,
           ~Aborts, ~GiveUp, faults' \in 0 .. MaxFaults
    PROVE  ServerSized' /\ ProxySized'
<1>1. ASSUME NEW p \in Procs, NEW s \in Names,
             \/ OpenExcl(p, s) \/ Reopen(p, s) \/ Truncate(p, s)
             \/ Map(p, s) \/ InitSegment(p, s)
      PROVE  ServerSized' /\ ProxySized'
  <2>1. CASE OpenExcl(p, s) \/ Reopen(p, s)
    BY <2>1, OpenSized
  <2>2. CASE Truncate(p, s)
    BY <2>2, TruncateSized
  <2>3. CASE Map(p, s)
    BY <2>3, MapBase, MapSized
  <2>4. CASE InitSegment(p, s)
    BY <2>4, InitSegmentSized
  <2> QED
    BY <1>1, <2>1, <2>2, <2>3, <2>4
<1>2. ASSUME NEW p \in Procs, Lists(p) \/ EraseList(p) \/ DestroyMetanode(p)
      PROVE  ServerSized' /\ ProxySized'
  <2>1. CASE p = "server"
    <3>1. ~Lists("server")
      BY ReadNumBase, ProcFacts DEF Lists
    <3> QED
      BY <1>2, <2>1, <3>1, ServerEndsSized
  <2>2. CASE p = "proxy"
    BY <1>2, <2>2, ListsSized, ProxyEndsSized
  <2>3. CASE p = "delete"
    BY <1>2, <2>3, DeleteEndsSized
  <2> QED
    BY <2>1, <2>2, <2>3 DEF Procs
<1>3. CASE Retries \/ NoMeta
  BY <1>3, RetrySized, NoMetaSized
<1>4. CASE SetServerFlag \/ SetNum \/ Bind \/ Answer
  BY <1>4, SetServerFlagSized, SetNumSized, ServerGoesOnSized
<1>5. CASE ReadFlag \/ SetDefault
  BY <1>5, ReadFlagSized, SetDefaultSized
<1>6. CASE SetProxyFlag \/ Post \/ Collect \/ CheckFlag
  BY <1>6, ProxyUpSized, ProxyEndsSized
<1> QED
  BY <1>1, <1>2, <1>3, <1>4, <1>5, <1>6 DEF Kinds

\* So does a start and the beginning of an end.
LEMMA BeginSized ==
    ASSUME FewThreads, BaseInv, ServerSized, ProxySized, ~overlap',
           NEW p \in Procs, Start(p) \/ Shutdown(p)
    PROVE  ServerSized' /\ ProxySized'
<1>1. /\ segs' = segs /\ retried' = retried /\ faults' \in 0 .. MaxFaults
      /\ Others(p) /\ BaseInv'
  BY StartBase, ShutdownBase DEF BaseInv, TypeOK
<1>2. CASE p = "server"
  BY <1>1, <1>2, ServerStartsSized, ServerGoesOnSized
<1>3. CASE p = "proxy"
  <2>1. CASE Start(p)
    <3>1. FirstOf("proxy") = "meta" /\ \E n \in 0 .. MaxNodes :
             Lands("proxy", "open", FirstOf("proxy"), map["proxy"], 0, exists["proxy"], n)
      BY <1>3, <2>1, StartBase DEF FirstOf
    <3> QED
      BY <1>1, <3>1, ProxyAwaySized
  <2>2. CASE Shutdown(p)
    <3>1. Lands("proxy", "checkFlag", seg["proxy"], map["proxy"], 0, exists["proxy"], nodes["proxy"])
      BY <1>3, <2>2, ShutdownBase
    <3> QED
      BY <1>1, <3>1, ProxyAwaySized
  <2> QED
    BY <2>1, <2>2
<1>4. CASE p = "delete"
  <2>1. pc["server"] = "down" /\ pc["proxy"] = "down" /\ OthersStay("delete")
    BY <1>1, <1>4, StartBase, ShutdownBase, ProcFacts DEF Others, Lands
  <2>2. /\ pc'["server"] = "down" /\ pc'["proxy"] = "down" /\ nodes'["server"] = nodes["server"]
    BY <2>1, ProcFacts DEF OthersStay
  <2>3. ~Has("server", "list")' /\ ~GetsList' /\ ~GotList'
    BY <2>2 DEF Has, Mapping, Halfway, Creating, GetsList, GotList
  <2> QED
    BY <2>2, <2>3 DEF ServerSized, ProxySized
<1> QED
  BY <1>2, <1>3, <1>4 DEF Procs

\* At first there is nothing to size.
LEMMA SizedInit == Init => SizedInv
<1> SUFFICES ASSUME Init PROVE ServerSized /\ ProxySized
  BY DEF SizedInv
<1>1. BaseInv /\ \A p \in Procs : pc[p] = "down"
  BY BaseInit DEF Init
<1>2. nodes["server"] = 0 /\ 0 <= NUMSEGMENTS
  BY <1>1, MaxNodesFacts, ProcFacts DEF Init
<1>3. ~Has("server", "list") /\ ~GetsList /\ ~GotList
  BY <1>1, ProcFacts DEF Has, Mapping, Halfway, Creating, GetsList, GotList
<1> QED
  BY <1>1, <1>2, <1>3, ProcFacts DEF ServerSized, ProxySized

\* SizedInv is kept, given SetupInv.
LEMMA SizedStep ==
    ASSUME FewThreads, SetupInv, SetupInv', SizedInv, [Next]_vars PROVE SizedInv'
<1>1. CASE UNCHANGED vars
  BY <1>1 DEF vars, local, history, SizedInv, ServerSized, ProxySized, Has, GetsList, GotList,
              Untold, Lends, Offline, Num, Size
<1>2. CASE Kinds /\ faults' \in 0 .. MaxFaults
  <2> SUFFICES ASSUME ~overlap', rough' = "clean" PROVE ServerSized' /\ ProxySized'
    BY DEF SizedInv
  <2>1. ~overlap /\ rough = "clean"
    BY <1>2, HistoryKinds DEF SetupInv
  <2>2. ~Aborts /\ ~GiveUp
    BY <2>1 DEF Aborts, Abort, GiveUp
  <2> QED
    BY <1>2, <2>1, <2>2, SizedKinds DEF SetupInv, OrderInv, SizedInv
<1>3. ASSUME NEW p \in Procs, Start(p) \/ Shutdown(p) PROVE SizedInv'
  <2> SUFFICES ASSUME ~overlap', rough' = "clean" PROVE ServerSized' /\ ProxySized'
    BY DEF SizedInv
  <2>1. ~overlap /\ rough = "clean"
    BY <1>3, StartBase, ShutdownBase DEF SetupInv
  <2> QED
    BY <1>3, <2>1, BeginSized DEF SetupInv, SizedInv
<1> QED
  BY <1>1, <1>2, <1>3, NextKinds DEF SetupInv

\* SizedInv: how many nodes the metanode speaks of and the list has.
THEOREM SizedInvariant == ASSUME FewThreads PROVE Spec => []SizedInv
<1>1. SetupInv /\ SizedInv /\ [Next]_vars /\ SetupInv' => SizedInv'
  BY SizedStep
<1> QED
  BY <1>1, SizedInit, SetupInvariant, PTL DEF Spec

\* findState() and destroyMemList(), which go by shMeta->numNodes, stay inside
\* the mapping and the segment through any sequence of orderly starts and ends,
\* one at a time, of servers of at most NUMSEGMENTS threads whose first
\* getMemList() succeeds.  What is taken over from a killed process is not
\* covered.
THEOREM ScansStayInside == ASSUME FewThreads PROVE Spec => []InBounds
<1>1. SetupInv /\ SizedInv => InBounds
  <2> SUFFICES ASSUME SetupInv, SizedInv, ~overlap, rough = "clean", ~retried,
                      NEW p \in Procs, Running(p)
               PROVE  Mapped(p, Meta(p).numNodes)
    BY DEF InBounds
  <2>1. BaseInv /\ ServerSized /\ ProxySized
    BY DEF SetupInv, SizedInv
  <2>2. Meta(p).numNodes = Num(p) /\ List(p).size = Size(p)
    BY DEF Meta, List, Num, Size
  <2>3. CASE p = "server"
    <3>1. pc[p] = "up" /\ Has(p, "list")
      BY <2>1, <2>3, ProcFacts DEF Running, Steady, Has, Mapping
    <3> QED
      BY <2>1, <2>2, <2>3, <3>1, NumTypes, ProcFacts DEF Mapped, ServerSized, Has, Mapping
  <2>4. CASE p = "proxy"
    <3>1. GotList /\ ~Lends
      BY <2>4 DEF Running, GotList, Lends
    <3> QED
      BY <2>1, <2>2, <2>4, <3>1 DEF Mapped, ProxySized
  <2>5. CASE p = "delete"
    BY <2>1, <2>5, ProcFacts DEF Running, Steady
  <2> QED
    BY <2>3, <2>4, <2>5 DEF Procs
<1> QED
  BY <1>1, SetupInvariant, SizedInvariant, PTL
=============================================================================
