-------------------------- MODULE SamuBuildProofs --------------------------
(***************************************************************************)
(* Theorems about SamuBuild, for every graph, every -j and -k, and every   *)
(* outcome of the commands: its type invariant, that the jobs array and    *)
(* its free list stay sound, and that pools are never overdrawn.           *)
(***************************************************************************)
EXTENDS SamuBuild, FiniteSetTheorems, FunctionTheorems, TLAPS

(* Only busy slots are ever scanned, and a scan goes on to its end. *)
ScanInv == revents \subseteq Busy /\ (pc # "scan" => revents = {})

(* The manifest is built first only if it has a node. *)
PassInv == pass = "manifest" => Manifest \in Nodes

(* The inductive invariant.  The types alone are not inductive: that the   *)
(* slot jobstart() takes exists is a fact about the free list, and that a  *)
(* scanned slot has an edge is ScanInv.                                    *)
IInv == TypeOK /\ ScanInv /\ PassInv /\ SlotsSound

-----------------------------------------------------------------------------
(* The types of the graph. *)
LEMMA GraphTypes ==
  /\ In \in [Edges -> Seq(Nodes)]
  /\ Out \in [Edges -> Seq(Nodes)]
  /\ Use \in [Nodes -> Seq(Edges)]
  BY GraphAssumption DEF GraphAssumption

LEMMA PoolTypes ==
  /\ NoPool \notin Pools
  /\ Pool \in [Edges -> Pools \cup {NoPool}]
  BY GraphAssumption DEF GraphAssumption

LEMMA GenType == Gen \in [Nodes -> Edges \cup {NoEdge}]
  <1> SUFFICES ASSUME NEW n \in Nodes PROVE Gen[n] \in Edges \cup {NoEdge}
    BY DEF Gen
  <1> QED
    BY DEF Gen

LEMMA OutMembers == \A e \in Edges : Members(Out[e]) \subseteq Nodes /\ Members(In[e]) \subseteq Nodes
  BY GraphTypes DEF Members

LEMMA InputCount ==
  ASSUME NEW e \in Edges, NEW S \in SUBSET DOMAIN In[e]
  PROVE  IsFiniteSet(S) /\ Cardinality(S) \in Nat
  <1>1. DOMAIN In[e] = 1..Len(In[e]) /\ Len(In[e]) \in Nat
    BY GraphTypes
  <1>2. IsFiniteSet(DOMAIN In[e])
    BY <1>1, FS_Interval
  <1>3. IsFiniteSet(S)
    BY <1>2, FS_Subset
  <1> QED
    BY <1>3, FS_CardinalityType

(* Pushing on, popping from and looking at a stack. *)
LEMMA Push ==
  ASSUME NEW S, NEW x \in S, NEW s \in Seq(S)
  PROVE  <<x>> \o s \in Seq(S)
  <1>1. <<x>> \in Seq(S)
    OBVIOUS
  <1> QED
    BY <1>1

LEMMA Joined ==
  ASSUME NEW S, NEW s \in Seq(S), NEW t \in Seq(S)
  PROVE  s \o t \in Seq(S)
  OBVIOUS

LEMMA Pop ==
  ASSUME NEW S, NEW s \in Seq(S), s # << >>
  PROVE  Head(s) \in S /\ Tail(s) \in Seq(S)
  OBVIOUS

(* What pushing and popping do to the positions of a stack. *)
LEMMA Pushed ==
  ASSUME NEW S, NEW x \in S, NEW s \in Seq(S)
  PROVE  /\ DOMAIN (<<x>> \o s) = 1..(Len(s) + 1) /\ DOMAIN s = 1..Len(s) /\ Len(s) \in Nat
         /\ (<<x>> \o s)[1] = x
         /\ \A k \in DOMAIN s : (<<x>> \o s)[k + 1] = s[k]
         /\ \A k \in 1..(Len(s) + 1) : k # 1 => k - 1 \in DOMAIN s /\ (<<x>> \o s)[k] = s[k - 1]
  <1>1. Len(s) \in Nat /\ DOMAIN s = 1..Len(s)
    OBVIOUS
  <1>2. <<x>> \in Seq(S) /\ Len(<<x>>) = 1 /\ <<x>>[1] = x
    OBVIOUS
  <1>3. Len(<<x>> \o s) = Len(s) + 1 /\ DOMAIN (<<x>> \o s) = 1..(Len(s) + 1)
    BY <1>1, <1>2
  <1>4. \A k \in 1..(Len(s) + 1) : (<<x>> \o s)[k] = IF k <= 1 THEN <<x>>[k] ELSE s[k - 1]
    BY <1>1, <1>2
  <1> QED
    BY <1>1, <1>2, <1>3, <1>4

LEMMA Popped ==
  ASSUME NEW S, NEW s \in Seq(S), s # << >>
  PROVE  /\ 1 \in DOMAIN s /\ Head(s) = s[1] /\ Head(s) \in S /\ Tail(s) \in Seq(S)
         /\ Len(s) \in Nat /\ DOMAIN s = 1..Len(s) /\ DOMAIN Tail(s) = 1..(Len(s) - 1)
         /\ \A k \in DOMAIN Tail(s) : k + 1 \in DOMAIN s /\ Tail(s)[k] = s[k + 1]
  OBVIOUS

(* A part of the state that a step leaves alone keeps its type. *)
LEMMA Keep ==
  ASSUME TypeOK
  PROVE  /\ UNCHANGED fileVars => FileType'
         /\ UNCHANGED nodeVars => NodeType'
         /\ UNCHANGED edgeVars => EdgeType'
         /\ UNCHANGED queueVars => QueueType'
         /\ UNCHANGED countVars => CountType'
         /\ UNCHANGED addVars => AddType'
         /\ UNCHANGED jobVars => JobType'
         /\ UNCHANGED mainVars => MainType'
         /\ UNCHANGED todo => TodoType'
         /\ UNCHANGED histVars => HistType'
  <1>1. UNCHANGED fileVars => FileType'
    BY DEF TypeOK, FileType, fileVars
  <1>2. UNCHANGED nodeVars => NodeType'
    BY DEF TypeOK, NodeType, nodeVars
  <1>3. UNCHANGED edgeVars => EdgeType'
    BY DEF TypeOK, EdgeType, edgeVars
  <1>4. UNCHANGED queueVars => QueueType'
    BY DEF TypeOK, QueueType, queueVars
  <1>5. UNCHANGED countVars => CountType'
    BY DEF TypeOK, CountType, countVars
  <1>6. UNCHANGED addVars => AddType'
    BY DEF TypeOK, AddType, addVars
  <1>7. UNCHANGED jobVars => JobType'
    BY DEF TypeOK, JobType, jobVars
  <1>8. UNCHANGED mainVars => MainType'
    BY DEF TypeOK, MainType, mainVars
  <1>9. UNCHANGED todo => TodoType'
    BY DEF TypeOK, TodoType
  <1>10. UNCHANGED histVars => HistType'
    BY DEF TypeOK, HistType, histVars
  <1> QED
    BY <1>1, <1>2, <1>3, <1>4, <1>5, <1>6, <1>7, <1>8, <1>9, <1>10

(* queue() keeps the types of the queues. *)
LEMMA QueueKeepsType ==
  ASSUME TypeOK, NEW e \in Edges, queue(e)
  PROVE  QueueType'
  <1>1. work \in Seq(Edges) /\ poolwork \in [Pools -> Seq(Edges)] /\ poolnum \in [Pools -> Int]
    BY DEF TypeOK, QueueType
  <1>2. <<e>> \o work \in Seq(Edges)
    BY <1>1, Push
  <1>3. CASE Pooled(e) /\ Full(Pool[e])
    <2>1. Pool[e] \in Pools
      BY <1>3, PoolTypes DEF Pooled
    <2>2. <<e>> \o poolwork[Pool[e]] \in Seq(Edges)
      BY <1>1, <2>1, Push
    <2> QED
      BY <1>1, <1>3, <2>2 DEF queue, QueueType
  <1>4. CASE Pooled(e) /\ ~Full(Pool[e])
    <2>1. Pool[e] \in Pools
      BY <1>4, PoolTypes DEF Pooled
    <2>2. /\ work' = <<e>> \o work /\ poolwork' = poolwork
          /\ poolnum' = [poolnum EXCEPT ![Pool[e]] = poolnum[Pool[e]] + 1]
      BY <1>4 DEF queue
    <2>3. poolnum' \in [Pools -> Int]
      BY <1>1, <2>1, <2>2
    <2> QED
      BY <1>1, <1>2, <2>2, <2>3 DEF QueueType
  <1>5. CASE ~Pooled(e)
    BY <1>1, <1>2, <1>5 DEF queue, QueueType
  <1> QED
    BY <1>3, <1>4, <1>5

-----------------------------------------------------------------------------
(* The free list *)

(* While a job may be started, a full array has no free slot, and the      *)
(* first free slot of any other is "next".                                 *)
LEMMA FirstFree ==
  ASSUME NEW js \in Seq(SlotType), NEW nx \in Nat, NEW c \in Nat, Sound(js, nx, c)
  PROVE  \/ nx = Len(js) + 1 /\ c = Len(js)
         \/ nx \in DOMAIN js /\ c < Len(js) /\ js[nx].edge = NoEdge
  <1>1. PICK fl \in [1..(Len(js) - c) -> FreeSlots(js)] : FreeList(fl, js, nx)
    BY DEF Sound
  <1>2. Len(js) \in Nat /\ c <= Len(js)
    BY DEF Sound
  <1>3. CASE c = Len(js)
    <2>1. DOMAIN fl = 1..0
      BY <1>1, <1>3, <1>2
    <2> QED
      BY <1>1, <1>2, <1>3, <2>1 DEF FreeList
  <1>4. CASE c < Len(js)
    <2>1. 1 \in DOMAIN fl
      BY <1>1, <1>2, <1>4
    <2>2. nx = fl[1]
      BY <1>1, <2>1 DEF FreeList
    <2> QED
      BY <1>1, <1>2, <1>4, <2>1, <2>2 DEF FreeSlots
  <1> QED
    BY <1>2, <1>3, <1>4

(* jobstart() takes the first free slot. *)
LEMMA TakeSlot ==
  ASSUME NEW js \in Seq(SlotType), NEW nx \in Nat, NEW c \in Nat, Sound(js, nx, c),
         nx \in DOMAIN js, NEW s \in SlotType, s.edge # NoEdge
  PROVE  Sound([js EXCEPT ![nx] = s], js[nx].next, c + 1)
  <1> DEFINE new == [js EXCEPT ![nx] = s]
  <1>1. PICK fl \in [1..(Len(js) - c) -> FreeSlots(js)] : FreeList(fl, js, nx)
    BY DEF Sound
  <1>2. /\ Len(js) \in Nat /\ c <= Len(js) /\ Len(js) <= MaxJobs /\ c = Cardinality(BusySlots(js))
        /\ DOMAIN js = 1..Len(js)
    BY DEF Sound
  <1>3. c < Len(js) /\ js[nx].edge = NoEdge
    BY FirstFree, <1>2
  <1>4. DOMAIN new = DOMAIN js /\ Len(new) = Len(js)
    BY <1>2
  <1>5. /\ BusySlots(new) = BusySlots(js) \cup {nx} /\ nx \notin BusySlots(js)
        /\ FreeSlots(new) = FreeSlots(js) \ {nx}
    BY <1>3, <1>4 DEF BusySlots, FreeSlots
  <1>6. IsFiniteSet(BusySlots(js))
    <2>1. IsFiniteSet(DOMAIN js)
      BY <1>2, FS_Interval
    <2> QED
      BY <2>1, FS_Subset DEF BusySlots
  <1>7. Cardinality(BusySlots(new)) = c + 1
    BY <1>2, <1>5, <1>6, FS_AddElement
  <1>8. 1 \in DOMAIN fl /\ nx = fl[1] /\ DOMAIN fl = 1..(Len(js) - c)
    BY <1>1, <1>2, <1>3 DEF FreeList
  <1> DEFINE rest == [i \in 1..(Len(js) - (c + 1)) |-> fl[i + 1]]
  <1>9. \A i \in 1..(Len(js) - (c + 1)) : i + 1 \in DOMAIN fl /\ fl[i + 1] # nx
    BY <1>1, <1>2, <1>8, SMTT(20) DEF FreeList
  <1>10. rest \in [1..(Len(js) - (c + 1)) -> FreeSlots(new)]
    BY <1>1, <1>5, <1>9
  <1>11. FreeList(rest, new, js[nx].next)
    <2>1. \A i \in FreeSlots(new) : \E k \in DOMAIN rest : rest[k] = i
      <3> SUFFICES ASSUME NEW i \in FreeSlots(new) PROVE \E k \in DOMAIN rest : rest[k] = i
        OBVIOUS
      <3>1. PICK k \in DOMAIN fl : fl[k] = i
        BY <1>1, <1>5 DEF FreeList
      <3>2. k # 1
        BY <1>5, <1>8, <3>1
      <3>3. k - 1 \in DOMAIN rest /\ rest[k - 1] = i
        BY <1>2, <1>8, <3>1, <3>2
      <3> QED
        BY <3>3
    <2>2. \A i, k \in DOMAIN rest : rest[i] = rest[k] => i = k
      BY <1>1, <1>9 DEF FreeList
    <2>3. \A i \in DOMAIN rest : new[rest[i]].next = IF i + 1 \in DOMAIN rest THEN rest[i + 1] ELSE Len(new) + 1
      <3> SUFFICES ASSUME NEW i \in DOMAIN rest
                   PROVE  new[rest[i]].next = IF i + 1 \in DOMAIN rest THEN rest[i + 1] ELSE Len(new) + 1
        OBVIOUS
      <3>1. i + 1 \in DOMAIN fl /\ rest[i] = fl[i + 1] /\ new[rest[i]] = js[fl[i + 1]]
        BY <1>9, <1>10 DEF FreeSlots
      <3>2. js[fl[i + 1]].next = IF i + 2 \in DOMAIN fl THEN fl[i + 2] ELSE Len(js) + 1
        BY <1>1, <3>1 DEF FreeList
      <3>3. i + 2 \in DOMAIN fl <=> i + 1 \in DOMAIN rest
        BY <1>2, <1>8
      <3> QED
        BY <1>4, <3>1, <3>2, <3>3
    <2>4. js[nx].next = IF 1 \in DOMAIN rest THEN rest[1] ELSE Len(new) + 1
      <3>1. js[nx].next = IF 2 \in DOMAIN fl THEN fl[2] ELSE Len(js) + 1
        BY <1>1, <1>8, SMTT(20) DEF FreeList
      <3>2. 2 \in DOMAIN fl <=> 1 \in DOMAIN rest
        BY <1>2, <1>8
      <3> QED
        BY <1>4, <3>1, <3>2
    <2> QED
      BY <2>1, <2>2, <2>3, <2>4 DEF FreeList
  <1>12. \E f \in [1..(Len(new) - (c + 1)) -> FreeSlots(new)] : FreeList(f, new, js[nx].next)
    BY <1>4, <1>10, <1>11
  <1>13. c + 1 = Cardinality(BusySlots(new)) /\ c + 1 <= Len(new) /\ Len(new) <= MaxJobs
    BY <1>2, <1>3, <1>4, <1>7
  <1> HIDE DEF new
  <1>14. Sound(new, js[nx].next, c + 1)
    BY <1>12, <1>13 DEF Sound
  <1> QED
    BY <1>14 DEF new

(* A finished job's slot becomes the first free one. *)
LEMMA GiveSlot ==
  ASSUME NEW js \in Seq(SlotType), NEW nx \in Nat, NEW c \in Nat, Sound(js, nx, c),
         NEW d \in BusySlots(js)
  PROVE  c > 0 /\ Sound([js EXCEPT ![d] = FreeSlot(nx)], d, c - 1)
  <1> DEFINE new == [js EXCEPT ![d] = FreeSlot(nx)]
  <1>1. PICK fl \in [1..(Len(js) - c) -> FreeSlots(js)] : FreeList(fl, js, nx)
    BY DEF Sound
  <1>2. /\ Len(js) \in Nat /\ c <= Len(js) /\ Len(js) <= MaxJobs /\ c = Cardinality(BusySlots(js))
        /\ DOMAIN js = 1..Len(js) /\ DOMAIN fl = 1..(Len(js) - c)
    BY <1>1 DEF Sound
  <1>3. d \in DOMAIN js /\ js[d].edge # NoEdge
    BY DEF BusySlots
  <1>4. DOMAIN new = DOMAIN js /\ Len(new) = Len(js)
    BY <1>2
  <1>5. /\ BusySlots(new) = BusySlots(js) \ {d}
        /\ FreeSlots(new) = FreeSlots(js) \cup {d} /\ d \notin FreeSlots(js)
    BY <1>3, <1>4 DEF BusySlots, FreeSlots, FreeSlot
  <1>6. IsFiniteSet(BusySlots(js))
    <2>1. IsFiniteSet(DOMAIN js)
      BY <1>2, FS_Interval
    <2> QED
      BY <2>1, FS_Subset DEF BusySlots
  <1>7. Cardinality(BusySlots(new)) = c - 1
    BY <1>2, <1>5, <1>6, FS_RemoveElement
  <1>8. c > 0
    BY <1>2, <1>6, <1>5, <1>7, FS_EmptySet, FS_CardinalityType
  <1> DEFINE n == Len(js) - (c - 1)
  <1> DEFINE more == [i \in 1..n |-> IF i = 1 THEN d ELSE fl[i - 1]]
  <1>9. \A i \in 1..n : i # 1 => i - 1 \in DOMAIN fl
    BY <1>2, <1>8
  <1>10. more \in [1..n -> FreeSlots(new)]
    BY <1>1, <1>5, <1>9
  <1>11. FreeList(more, new, d)
    <2>1. \A i \in FreeSlots(new) : \E k \in DOMAIN more : more[k] = i
      <3> SUFFICES ASSUME NEW i \in FreeSlots(new) PROVE \E k \in DOMAIN more : more[k] = i
        OBVIOUS
      <3>0. 1 \in 1..n
        BY <1>2
      <3>1. CASE i = d
        BY <3>0, <3>1
      <3>2. CASE i # d
        <4>1. PICK k \in DOMAIN fl : fl[k] = i
          BY <1>1, <1>5, <3>2 DEF FreeList
        <4>2. k + 1 \in 1..n /\ k + 1 # 1 /\ more[k + 1] = fl[k]
          BY <1>2, <4>1
        <4> QED
          BY <4>1, <4>2
      <3> QED
        BY <3>1, <3>2
    <2>2. \A i, k \in DOMAIN more : more[i] = more[k] => i = k
      <3> SUFFICES ASSUME NEW i \in 1..n, NEW k \in 1..n, more[i] = more[k] PROVE i = k
        OBVIOUS
      <3>1. \A m \in DOMAIN fl : fl[m] # d
        BY <1>1, <1>5
      <3>4. \A a, b \in DOMAIN fl : fl[a] = fl[b] => a = b
        BY <1>1 DEF FreeList
      <3>2. CASE i = 1 \/ k = 1
        BY <1>9, <3>1, <3>2
      <3>3. CASE i # 1 /\ k # 1
        <4>1. i - 1 \in DOMAIN fl /\ k - 1 \in DOMAIN fl /\ fl[i - 1] = fl[k - 1]
          BY <1>9, <3>3
        <4>2. i - 1 = k - 1
          BY <3>4, <4>1
        <4> QED
          BY <4>2
      <3> QED
        BY <3>2, <3>3
    <2>3. \A i \in DOMAIN more : new[more[i]].next = IF i + 1 \in DOMAIN more THEN more[i + 1] ELSE Len(new) + 1
      <3> SUFFICES ASSUME NEW i \in 1..n
                   PROVE  new[more[i]].next = IF i + 1 \in 1..n THEN more[i + 1] ELSE Len(new) + 1
        OBVIOUS
      <3>1. CASE i = 1
        <4>1. new[more[i]].next = nx
          BY <1>3, <3>1 DEF FreeSlot
        <4>2. nx = IF 1 \in DOMAIN fl THEN fl[1] ELSE Len(js) + 1
          BY <1>1 DEF FreeList
        <4>3. 1 \in DOMAIN fl <=> 2 \in 1..n
          BY <1>2
        <4> QED
          BY <1>4, <3>1, <4>1, <4>2, <4>3
      <3>2. CASE i # 1
        <4>1. i - 1 \in DOMAIN fl /\ more[i] = fl[i - 1] /\ fl[i - 1] # d
          BY <1>1, <1>5, <1>9, <3>2
        <4>2. new[more[i]] = js[fl[i - 1]]
          BY <1>1, <4>1 DEF FreeSlots
        <4>3. js[fl[i - 1]].next = IF i \in DOMAIN fl THEN fl[i] ELSE Len(js) + 1
          <5>1. (i - 1) + 1 = i
            OBVIOUS
          <5> QED
            BY <1>1, <4>1, <5>1, SMTT(20) DEF FreeList
        <4>4. i \in DOMAIN fl <=> i + 1 \in 1..n
          BY <1>2, <3>2
        <4> QED
          BY <1>4, <3>2, <4>2, <4>3, <4>4, SMTT(20)
      <3> QED
        BY <3>1, <3>2
    <2>4. d = IF 1 \in DOMAIN more THEN more[1] ELSE Len(new) + 1
      BY <1>2
    <2> QED
      BY <2>1, <2>2, <2>3, <2>4 DEF FreeList
  <1>12. \E f \in [1..(Len(new) - (c - 1)) -> FreeSlots(new)] : FreeList(f, new, d)
    BY <1>4, <1>10, <1>11
  <1>13. c - 1 = Cardinality(BusySlots(new)) /\ c - 1 <= Len(new) /\ Len(new) <= MaxJobs
    BY <1>2, <1>4, <1>7
  <1> HIDE DEF new
  <1>14. Sound(new, d, c - 1)
    BY <1>12, <1>13 DEF Sound
  <1> QED
    BY <1>8, <1>14 DEF new

(* Enlarging the array puts the new slots, in order, on an empty free list. *)
LEMMA GrowSlots ==
  ASSUME TypeOK, SlotsSound, numjobs < MaxJobs
  PROVE  /\ Slots \in Seq(SlotType)
         /\ Sound(Slots, next, numjobs)
         /\ next \in DOMAIN Slots /\ Slots[next].edge = NoEdge
  <1>0. /\ jobs \in Seq(SlotType) /\ next \in Nat /\ numjobs \in Int
        /\ Len(jobs) \in Nat /\ DOMAIN jobs = 1..Len(jobs)
    BY DEF TypeOK, JobType
  <1>1. MaxJobs \in Nat /\ SlotChunk \in Nat \ {0}
    BY BuildAssumption DEF BuildAssumption
  <1>2. numjobs \in Nat /\ Len(jobs) <= MaxJobs /\ numjobs = Cardinality(Busy) /\ numjobs <= Len(jobs)
    <2>1. IsFiniteSet(Busy)
      <3>1. IsFiniteSet(DOMAIN jobs)
        BY <1>0, FS_Interval
      <3> QED
        BY <3>1, FS_Subset DEF Busy, BusySlots
    <2> QED
      BY <2>1, FS_CardinalityType DEF SlotsSound, Sound, Busy
  <1>3. \/ next = Len(jobs) + 1 /\ numjobs = Len(jobs)
        \/ next \in DOMAIN jobs /\ numjobs < Len(jobs) /\ jobs[next].edge = NoEdge
    BY <1>0, <1>2, FirstFree DEF SlotsSound
  <1>4. CASE next \in DOMAIN jobs
    <2>1. Slots = jobs
      BY <1>0, <1>4 DEF Slots
    <2>2. jobs[next].edge = NoEdge
      <3>1. next <= Len(jobs)
        BY <1>0, <1>4
      <3>2. next # Len(jobs) + 1
        BY <1>0, <3>1
      <3> QED
        BY <1>3, <3>2
    <2>3. Sound(jobs, next, numjobs)
      BY DEF SlotsSound
    <2> QED
      BY <1>0, <1>4, <2>1, <2>2, <2>3
  <1>5. CASE next = Len(jobs) + 1 /\ numjobs = Len(jobs)
    <2> DEFINE len == Smaller(SlotsWanted, MaxJobs)
    <2>1. SlotsWanted \in Nat /\ SlotsWanted > Len(jobs)
      <3>1. CASE jobs = << >>
        BY <1>1, <3>1 DEF SlotsWanted
      <3>2. CASE jobs # << >>
        BY <1>0, <3>2 DEF SlotsWanted
      <3> QED
        BY <3>1, <3>2
    <2>2. len \in Nat /\ len > Len(jobs) /\ len <= MaxJobs
      BY <1>0, <1>1, <1>5, <2>1 DEF Smaller
    <2>3. Slots = [i \in 1..len |-> IF i < next THEN jobs[i] ELSE FreeSlot(i + 1)]
      BY <1>0, <1>5 DEF Slots
    <2> HIDE DEF len
    <2>4. \A i \in 1..len : Slots[i] \in SlotType
      <3> SUFFICES ASSUME NEW i \in 1..len PROVE Slots[i] \in SlotType
        OBVIOUS
      <3>1. CASE i < next
        BY <1>0, <1>5, <2>2, <2>3, <3>1
      <3>2. CASE ~(i < next)
        BY <2>2, <2>3, <3>2 DEF FreeSlot, SlotType
      <3> QED
        BY <3>1, <3>2
    <2>5. Slots \in Seq(SlotType) /\ Len(Slots) = len /\ DOMAIN Slots = 1..len
      BY <2>2, <2>3, <2>4
    <2>6. BusySlots(Slots) = BusySlots(jobs) /\ BusySlots(jobs) = 1..Len(jobs)
      <3>1. BusySlots(jobs) = DOMAIN jobs
        <4>1. \A i \in DOMAIN jobs : jobs[i].edge # NoEdge
          <5>1. PICK fl \in [1..(Len(jobs) - numjobs) -> FreeSlots(jobs)] : FreeList(fl, jobs, next)
            BY DEF SlotsSound, Sound
          <5>2. DOMAIN fl = 1..0
            BY <1>0, <1>5, <5>1
          <5> QED
            BY <5>1, <5>2 DEF FreeList, FreeSlots
        <4> QED
          BY <4>1 DEF BusySlots
      <3>2. \A i \in 1..len : Slots[i].edge # NoEdge <=> i <= Len(jobs)
        <4> SUFFICES ASSUME NEW i \in 1..len PROVE Slots[i].edge # NoEdge <=> i <= Len(jobs)
          OBVIOUS
        <4>1. CASE i < next
          BY <1>0, <1>5, <2>2, <2>3, <3>1, <4>1 DEF BusySlots
        <4>2. CASE ~(i < next)
          BY <1>0, <1>5, <2>2, <2>3, <4>2 DEF FreeSlot
        <4> QED
          BY <4>1, <4>2
      <3> QED
        BY <1>0, <2>2, <2>5, <3>1, <3>2 DEF BusySlots
    <2>7. FreeSlots(Slots) = next..len
      <3>1. FreeSlots(Slots) = DOMAIN Slots \ BusySlots(Slots)
        BY DEF FreeSlots, BusySlots
      <3> QED
        BY <1>0, <1>5, <2>2, <2>5, <2>6, <3>1
    <2> DEFINE n == len - numjobs
    <2> DEFINE fl == [i \in 1..n |-> Len(jobs) + i]
    <2>8. \A i \in 1..n : Len(jobs) + i \in next..len
      BY <1>0, <1>5, <2>2
    <2>9. fl \in [1..n -> FreeSlots(Slots)]
      BY <2>7, <2>8
    <2>10. FreeList(fl, Slots, next)
      <3>1. \A i \in FreeSlots(Slots) : \E k \in DOMAIN fl : fl[k] = i
        <4> SUFFICES ASSUME NEW i \in next..len PROVE \E k \in DOMAIN fl : fl[k] = i
          BY <2>7
        <4>1. i - Len(jobs) \in 1..n /\ fl[i - Len(jobs)] = i
          BY <1>0, <1>5, <2>2
        <4> QED
          BY <4>1
      <3>2. \A i, k \in DOMAIN fl : fl[i] = fl[k] => i = k
        BY <1>0
      <3>3. \A i \in DOMAIN fl : Slots[fl[i]].next = IF i + 1 \in DOMAIN fl THEN fl[i + 1] ELSE Len(Slots) + 1
        <4> SUFFICES ASSUME NEW i \in 1..n
                     PROVE  Slots[Len(jobs) + i].next = IF i + 1 \in 1..n THEN Len(jobs) + (i + 1) ELSE len + 1
          BY <2>5
        <4>1. Len(jobs) + i \in 1..len /\ ~(Len(jobs) + i < next)
          BY <1>0, <1>5, <2>2, <2>8
        <4>2. Slots[Len(jobs) + i].next = Len(jobs) + i + 1
          BY <2>3, <4>1 DEF FreeSlot
        <4> QED
          BY <1>0, <1>5, <2>2, <4>2
      <3>4. next = IF 1 \in DOMAIN fl THEN fl[1] ELSE Len(Slots) + 1
        BY <1>0, <1>5, <2>2
      <3> QED
        BY <3>1, <3>2, <3>3, <3>4 DEF FreeList
    <2>11. Sound(Slots, next, numjobs)
      <3>1. \E f \in [1..(Len(Slots) - numjobs) -> FreeSlots(Slots)] : FreeList(f, Slots, next)
        BY <2>5, <2>9, <2>10
      <3>2. numjobs = Cardinality(BusySlots(Slots))
        BY <1>2, <2>6 DEF Busy
      <3> QED
        BY <1>2, <2>2, <2>5, <3>1, <3>2 DEF Sound
    <2>12. next \in DOMAIN Slots /\ Slots[next].edge = NoEdge
      BY <1>0, <1>5, <2>2, <2>5, <2>7 DEF FreeSlots
    <2> QED
      BY <2>5, <2>11, <2>12
  <1> QED
    BY <1>3, <1>4, <1>5

-----------------------------------------------------------------------------
(* The type invariant *)

LEMMA EnterKeepsType ==
  ASSUME TypeOK, NEW n \in Nodes, NEW rest \in Seq(AddFrame), Enter(n, rest)
  PROVE  /\ mtime' \in [Nodes -> Mtimes] /\ dirty' \in [Nodes -> BOOLEAN]
         /\ flags' \in [Edges -> SUBSET Flags] /\ nblock' \in [Edges -> Int]
         /\ adding' \in Seq(AddFrame) /\ MainType'
  <1> DEFINE e == Gen[n]
  <1>1. /\ mtime \in [Nodes -> Mtimes] /\ dirty \in [Nodes -> BOOLEAN]
        /\ flags \in [Edges -> SUBSET Flags] /\ nblock \in [Edges -> Int] /\ MainType
        /\ disk \in [Nodes -> Mtimes]
    BY DEF TypeOK, NodeType, EdgeType, FileType, Mtimes
  <1>2. UNCHANGED mainVars => MainType'
    BY Keep
  <1>3. Fatal => MainType'
    BY <1>1 DEF Fatal, MainType
  <1>4. e \in Edges \cup {NoEdge}
    BY GenType
  <1> HIDE DEF e
  <1>5. CASE e = NoEdge
    <2>1. /\ mtime' = [mtime EXCEPT ![n] = IF mtime[n] = MTIME_UNKNOWN THEN Stat(n) ELSE mtime[n]]
          /\ adding' = rest /\ flags' = flags /\ nblock' = nblock
          /\ (Fatal /\ dirty' = dirty) \/ (dirty' = [dirty EXCEPT ![n] = FALSE] /\ UNCHANGED mainVars)
      BY <1>5 DEF Enter, e
    <2>2. mtime' \in [Nodes -> Mtimes]
      BY <1>1, <2>1 DEF Stat
    <2>3. dirty' \in [Nodes -> BOOLEAN]
      BY <1>1, <2>1
    <2> QED
      BY <1>1, <1>2, <1>3, <2>1, <2>2, <2>3
  <1>6. CASE e # NoEdge /\ (OnStack(e) \/ Seen(e))
    <2>1. /\ adding' = rest /\ UNCHANGED <<mtime, dirty, flags, nblock>>
          /\ Fatal \/ UNCHANGED mainVars
      BY <1>6 DEF Enter, e
    <2> QED
      BY <1>1, <1>2, <1>3, <2>1
  <1>7. CASE e # NoEdge /\ ~OnStack(e) /\ ~Seen(e)
    <2>1. e \in Edges
      BY <1>4, <1>7
    <2>2. /\ mtime' = [m \in Nodes |-> IF m \in Members(Out[e]) /\ mtime[m] = MTIME_UNKNOWN
                                       THEN Stat(m) ELSE mtime[m]]
          /\ dirty' = [m \in Nodes |-> dirty[m] /\ m \notin Members(Out[e])]
          /\ flags' = [flags EXCEPT ![e] = flags[e] \cup {"CYCLE", "WORK", "DEPS"} \cup
                          IF "DEPS" \notin flags[e] /\ e \in nodeps THEN {"DIRTY_OUT"} ELSE {}]
          /\ nblock' = [nblock EXCEPT ![e] = 0]
          /\ adding' = <<[edge |-> e, input |-> 1]>> \o rest
          /\ UNCHANGED mainVars
      BY <1>7 DEF Enter, e
    <2>3. mtime' \in [Nodes -> Mtimes]
      BY <1>1, <2>2 DEF Stat
    <2>4. dirty' \in [Nodes -> BOOLEAN]
      BY <1>1, <2>2
    <2>5. flags' \in [Edges -> SUBSET Flags]
      BY <1>1, <2>1, <2>2 DEF Flags
    <2>6. nblock' \in [Edges -> Int]
      BY <1>1, <2>1, <2>2
    <2>7. adding' \in Seq(AddFrame)
      <3>1. [edge |-> e, input |-> 1] \in AddFrame
        BY <2>1 DEF AddFrame
      <3> QED
        BY <2>2, <3>1, Push
    <2> QED
      BY <1>2, <2>2, <2>3, <2>4, <2>5, <2>6, <2>7
  <1> QED
    BY <1>5, <1>6, <1>7

LEMMA AddTypes ==
  ASSUME TypeOK, AddTarget \/ AddInput \/ AddFinish
  PROVE  TypeOK'
  <1>0. adds \in Seq(Nodes) /\ adding \in Seq(AddFrame)
    BY DEF TypeOK, AddType
  <1>1. CASE AddTarget
    <2>1. /\ adds # << >> /\ Enter(Head(adds), << >>) /\ adds' = Tail(adds)
          /\ UNCHANGED <<fileVars, queueVars, countVars, jobVars, todo, histVars>>
          /\ logmtime' = logmtime /\ samehash' = samehash /\ nprune' = nprune
      BY <1>1 DEF AddTarget
    <2>2. Head(adds) \in Nodes /\ Tail(adds) \in Seq(Nodes)
      BY <1>0, <2>1, Pop
    <2>3. << >> \in Seq(AddFrame)
      OBVIOUS
    <2>4. /\ mtime' \in [Nodes -> Mtimes] /\ dirty' \in [Nodes -> BOOLEAN]
          /\ flags' \in [Edges -> SUBSET Flags] /\ nblock' \in [Edges -> Int]
          /\ adding' \in Seq(AddFrame) /\ MainType'
      BY <2>1, <2>2, <2>3, EnterKeepsType
    <2>5. NodeType' /\ EdgeType' /\ AddType'
      BY <2>1, <2>2, <2>4 DEF TypeOK, NodeType, EdgeType, AddType
    <2> QED
      BY <2>1, <2>4, <2>5, Keep DEF TypeOK
  <1>2. CASE AddInput
    <2> DEFINE f == Head(adding)
    <2>1. /\ adding # << >> /\ f.input <= Len(In[f.edge])
          /\ Enter(In[f.edge][f.input], <<[f EXCEPT !.input = f.input + 1]>> \o Tail(adding))
          /\ UNCHANGED <<fileVars, queueVars, countVars, jobVars, todo, histVars>>
          /\ logmtime' = logmtime /\ samehash' = samehash /\ nprune' = nprune /\ adds' = adds
      BY <1>2 DEF AddInput
    <2>2. f \in AddFrame /\ Tail(adding) \in Seq(AddFrame)
      BY <1>0, <2>1, Pop
    <2> HIDE DEF f
    <2>3. f.edge \in Edges /\ f.input \in Nat \ {0}
      BY <2>2 DEF AddFrame
    <2>4. In[f.edge][f.input] \in Nodes
      BY <2>1, <2>3, GraphTypes
    <2>5. <<[f EXCEPT !.input = f.input + 1]>> \o Tail(adding) \in Seq(AddFrame)
      <3>1. [f EXCEPT !.input = f.input + 1] \in AddFrame
        BY <2>2, <2>3 DEF AddFrame
      <3> QED
        BY <2>2, <3>1, Push
    <2>6. /\ mtime' \in [Nodes -> Mtimes] /\ dirty' \in [Nodes -> BOOLEAN]
          /\ flags' \in [Edges -> SUBSET Flags] /\ nblock' \in [Edges -> Int]
          /\ adding' \in Seq(AddFrame) /\ MainType'
      BY <2>1, <2>4, <2>5, EnterKeepsType
    <2>7. NodeType' /\ EdgeType' /\ AddType'
      BY <2>1, <2>6 DEF TypeOK, NodeType, EdgeType, AddType
    <2> QED
      BY <2>1, <2>6, <2>7, Keep DEF TypeOK
  <1>3. CASE AddFinish
    <2> DEFINE e == Head(adding).edge
               S == {i \in DOMAIN In[e] : Blocks(In[e][i])}
               blocked == Cardinality(S)
    <2>1. adding # << >> /\ adding' = Tail(adding) /\ adds' = adds
      BY <1>3 DEF AddFinish
    <2>2. e \in Edges /\ Tail(adding) \in Seq(AddFrame)
      <3>1. Head(adding) \in AddFrame /\ Tail(adding) \in Seq(AddFrame)
        BY <1>0, <2>1, Pop
      <3> QED
        BY <3>1 DEF AddFrame
    <2>3. blocked \in Nat
      BY <2>2, InputCount
    <2>4. PICK fl \in SUBSET Flags, t \in {0, 1}, keep \in BOOLEAN :
             /\ flags' = [flags EXCEPT ![e] = fl]
             /\ nblock' = [nblock EXCEPT ![e] = blocked]
             /\ nprune' = IF keep THEN nprune ELSE [nprune EXCEPT ![e] = blocked]
             /\ dirty' = [n \in Nodes |-> dirty[n] \/ (Dirty(fl) /\ n \in Members(Out[e]))]
             /\ queue(e) \/ UNCHANGED queueVars
             /\ ntotal' = ntotal + t
      <3> DEFINE dirtyin == \E n \in Essential(e) : dirty[n]
                 dirtyout == \/ "DIRTY_OUT" \in flags[e]
                             \/ \E n \in Members(Out[e]) :
                                   isdirty(e, mtime[n], logmtime[n], samehash[n], mtime)
                 fl == (flags[e] \ {"CYCLE"}) \cup (IF dirtyin THEN {"DIRTY_IN"} ELSE {})
                                              \cup (IF dirtyout THEN {"DIRTY_OUT"} ELSE {})
      <3>1. /\ flags' = [flags EXCEPT ![e] = fl]
            /\ nblock' = [nblock EXCEPT ![e] = blocked]
            /\ nprune' = IF dirtyout THEN nprune ELSE [nprune EXCEPT ![e] = blocked]
            /\ dirty' = [n \in Nodes |-> dirty[n] \/ (Dirty(fl) /\ n \in Members(Out[e]))]
            /\ IF Dirty(fl) /\ blocked = 0 THEN queue(e) ELSE UNCHANGED queueVars
            /\ ntotal' = IF Dirty(fl) /\ e \notin Phony THEN ntotal + 1 ELSE ntotal
        BY <1>3 DEF AddFinish
      <3>2. fl \in SUBSET Flags
        <4>1. flags[e] \in SUBSET Flags
          BY <2>2 DEF TypeOK, EdgeType
        <4> QED
          BY <4>1 DEF Flags
      <3>3. dirtyout \in BOOLEAN
        OBVIOUS
      <3> HIDE DEF fl, dirtyin, dirtyout, blocked, e
      <3>4. ntotal \in Int
        BY DEF TypeOK, CountType
      <3>5. CASE Dirty(fl) /\ e \notin Phony
        BY <3>1, <3>2, <3>3, <3>5
      <3>6. CASE ~(Dirty(fl) /\ e \notin Phony)
        <4>1. ntotal' = ntotal + 0
          BY <3>1, <3>4, <3>6
        <4> QED
          BY <3>1, <3>2, <3>3, <4>1
      <3> QED
        BY <3>5, <3>6
    <2>5. UNCHANGED <<fileVars, mtime, logmtime, samehash, nstarted, nfinished, jobVars,
                      mainVars, todo, histVars>>
      BY <1>3 DEF AddFinish
    <2> HIDE DEF e, blocked
    <2>6. EdgeType'
      <3>1. flags' \in [Edges -> SUBSET Flags]
        BY <2>2, <2>4 DEF TypeOK, EdgeType
      <3>2. nblock' \in [Edges -> Int]
        BY <2>2, <2>3, <2>4 DEF TypeOK, EdgeType
      <3>3. nprune' \in [Edges -> Int]
        BY <2>2, <2>3, <2>4 DEF TypeOK, EdgeType
      <3> QED
        BY <3>1, <3>2, <3>3 DEF EdgeType
    <2>7. NodeType'
      <3>1. dirty' \in [Nodes -> BOOLEAN]
        BY <2>4
      <3> QED
        BY <2>5, <3>1 DEF TypeOK, NodeType
    <2>8. QueueType'
      BY <2>2, <2>4, QueueKeepsType, Keep
    <2>9. CountType'
      BY <2>4, <2>5 DEF TypeOK, CountType
    <2>10. AddType'
      BY <1>0, <2>1, <2>2 DEF AddType
    <2> QED
      BY <2>5, <2>6, <2>7, <2>8, <2>9, <2>10, Keep DEF TypeOK
  <1> QED
    BY <1>1, <1>2, <1>3

LEMMA MainTypes ==
  ASSUME TypeOK, PassInv,
         ManifestClean \/ BuildBegin \/ Finished \/ ManifestRetry \/ ManifestPruned
  PROVE  TypeOK'
  <1>0. Targets \in Seq(Nodes) /\ adding \in Seq(AddFrame) /\ MainType /\ EdgeType
    BY BuildAssumption DEF BuildAssumption, TypeOK, AddType
  <1>1. CASE ManifestClean
    <2>1. /\ UNCHANGED <<fileVars, nodeVars, edgeVars, queueVars, countVars, jobVars, todo, histVars>>
          /\ UNCHANGED <<adding, pc, tries, status>> /\ pass' = "targets" /\ adds' = Targets
      BY <1>1 DEF ManifestClean
    <2>2. AddType' /\ MainType'
      BY <1>0, <2>1 DEF AddType, MainType
    <2> QED
      BY <2>1, <2>2, Keep DEF TypeOK
  <1>2. CASE BuildBegin
    <2>1. /\ UNCHANGED <<fileVars, nodeVars, edgeVars, queueVars, addVars, todo, histVars>>
          /\ UNCHANGED <<nfinished, ntotal, pass, tries, status>>
          /\ pc' = IF ntotal = 0 THEN "return" ELSE "start"
          /\ nstarted' = IF ntotal = 0 THEN nstarted ELSE 0
          /\ jobs' = << >> /\ next' = 1 /\ numjobs' = 0 /\ numfail' = 0 /\ revents' = {}
      BY <1>2 DEF BuildBegin
    <2>2. MainType'
      BY <1>0, <2>1 DEF MainType
    <2>3. CountType'
      BY <2>1 DEF TypeOK, CountType
    <2>4. JobType'
      BY <2>1 DEF JobType
    <2> QED
      BY <2>1, <2>2, <2>3, <2>4, Keep DEF TypeOK
  <1>3. CASE Finished
    <2>1. /\ UNCHANGED <<fileVars, nodeVars, edgeVars, queueVars, countVars, addVars, jobVars, todo, histVars>>
          /\ UNCHANGED <<pass, tries>> /\ pc' = "exit" /\ status' = "ok"
      BY <1>3 DEF Finished
    <2>2. MainType'
      BY <1>0, <2>1 DEF MainType
    <2> QED
      BY <2>1, <2>2, Keep DEF TypeOK
  <1>4. CASE ManifestRetry
    <2>1. /\ UNCHANGED <<fileVars, countVars, jobVars, todo>>
          /\ UNCHANGED <<logmtime, samehash, work, adding, pass, nruns>>
          /\ tries' = tries + 1 /\ pass = "manifest"
      BY <1>4 DEF ManifestRetry
    <2>2. CASE pc' = "exit" /\ status' = "fatal" /\
               UNCHANGED <<mtime, dirty, edgeVars, poolwork, poolnum, adds, result>>
      <3>1. MainType'
        BY <1>0, <2>1, <2>2 DEF MainType
      <3>2. AddType' /\ NodeType' /\ QueueType' /\ HistType'
        BY <2>1, <2>2 DEF TypeOK, AddType, NodeType, QueueType, HistType
      <3> QED
        BY <2>1, <2>2, <3>1, <3>2, Keep DEF TypeOK
    <2>3. CASE pc' = "add" /\ adds' = <<Manifest>> /\ FreshGraph /\ UNCHANGED status
      <3>1. MainType'
        BY <1>0, <2>1, <2>3 DEF MainType
      <3>2. AddType'
        BY <1>0, <2>1, <2>3 DEF AddType, PassInv
      <3>3. NodeType' /\ EdgeType'
        BY <2>1, <2>3 DEF FreshGraph, TypeOK, NodeType, EdgeType, Mtimes
      <3>4. QueueType'
        BY <2>1, <2>3 DEF FreshGraph, TypeOK, QueueType
      <3>5. HistType'
        BY <2>1, <2>3 DEF FreshGraph, TypeOK, HistType
      <3> QED
        BY <2>1, <3>1, <3>2, <3>3, <3>4, <3>5, Keep DEF TypeOK
    <2> QED
      BY <1>4, <2>2, <2>3 DEF ManifestRetry
  <1>5. CASE ManifestPruned
    <2>1. /\ UNCHANGED <<fileVars, nodeVars, queueVars, countVars, jobVars, todo, histVars>>
          /\ UNCHANGED <<nblock, nprune, adding, status>>
          /\ tries' = IF ManifestRebuilt THEN tries + 1 ELSE tries
          /\ flags' = NoWork
          /\ pc' = "add" /\ pass' = "targets" /\ adds' = Targets
      BY <1>5 DEF ManifestPruned
    <2>2. MainType' /\ AddType'
      BY <1>0, <2>1 DEF MainType, AddType
    <2>3. EdgeType'
      BY <1>0, <2>1 DEF EdgeType, NoWork
    <2> QED
      BY <2>1, <2>2, <2>3, Keep DEF TypeOK
  <1> QED
    BY <1>1, <1>2, <1>3, <1>4, <1>5

LEMMA NotifyType ==
  ASSUME NEW e \in Edges, NEW pr \in [DOMAIN Out[e] -> BOOLEAN]
  PROVE  Notify(e, pr) \in Seq(FrameType)
  <1>1. Out[e] \in Seq(Nodes) /\ DOMAIN Out[e] = 1..Len(Out[e]) /\ Len(Out[e]) \in Nat
    BY GraphTypes
  <1>2. \A i \in DOMAIN Out[e] : [node |-> Out[e][i], use |-> 1, prune |-> pr[i]] \in FrameType
    BY <1>1 DEF FrameType
  <1> QED
    BY <1>1, <1>2 DEF Notify

LEMMA StartTypes ==
  ASSUME IInv, StartNothing \/ StartJob \/ StartFails \/ BuildEnd \/ WaitForJobs
  PROVE  TypeOK'
  <1>0. TypeOK /\ SlotsSound /\ work \in Seq(Edges) /\ CountType /\ HistType /\ MainType /\ JobType
    BY DEF IInv, TypeOK, QueueType
  <1>1. ASSUME MayStart
        PROVE  /\ Head(work) \in Edges /\ Tail(work) \in Seq(Edges)
               /\ work' = Tail(work) /\ UNCHANGED <<poolwork, poolnum>> => QueueType'
    <2>1. Head(work) \in Edges /\ Tail(work) \in Seq(Edges)
      BY <1>0, <1>1, Pop DEF MayStart
    <2> QED
      BY <1>0, <2>1 DEF TypeOK, QueueType
  <1>2. CASE StartNothing
    <2> DEFINE e == Head(work)
               k == IF e \in Phony THEN 0 ELSE 1
    <2>1. /\ UNCHANGED <<fileVars, nodeVars, edgeVars, addVars, jobVars, mainVars>>
          /\ UNCHANGED <<poolwork, poolnum, ntotal, nruns>>
          /\ nstarted' = nstarted + k /\ nfinished' = nfinished + k
          /\ todo' = Notify(e, Always(e, FALSE))
          /\ result' = [result EXCEPT ![e] = "ok"] /\ work' = Tail(work) /\ MayStart
      BY <1>2 DEF StartNothing
    <2>2. e \in Edges /\ QueueType' /\ k \in Nat
      BY <1>1, <2>1
    <2> HIDE DEF e, k
    <2>3. CountType'
      BY <1>0, <2>1, <2>2 DEF CountType
    <2>4. Always(e, FALSE) \in [DOMAIN Out[e] -> BOOLEAN]
      BY DEF Always
    <2>5. TodoType'
      BY <2>1, <2>2, <2>4, NotifyType DEF TodoType
    <2>6. HistType'
      BY <1>0, <2>1, <2>2 DEF HistType
    <2> QED
      BY <1>0, <2>1, <2>2, <2>3, <2>5, <2>6, Keep DEF TypeOK
  <1>3. CASE StartJob
    <2> DEFINE e == Head(work)
    <2>1. /\ UNCHANGED <<fileVars, nodeVars, edgeVars, addVars, mainVars, todo>>
          /\ UNCHANGED <<poolwork, poolnum, nfinished, ntotal, numfail, revents>>
          /\ jobs' = [Slots EXCEPT ![next] = [Slots[next] EXCEPT !.edge = e, !.pipe = "open",
                                                                 !.proc = "live"]]
          /\ next' = Slots[next].next
          /\ result' = [result EXCEPT ![e] = "running"]
          /\ nruns' = [nruns EXCEPT ![e] = nruns[e] + 1]
          /\ work' = Tail(work) /\ nstarted' = nstarted + 1 /\ numjobs' = numjobs + 1 /\ MayStart
      BY <1>3 DEF StartJob
    <2>2. e \in Edges /\ QueueType' /\ numjobs < MaxJobs
      BY <1>1, <2>1 DEF MayStart
    <2>3. Slots \in Seq(SlotType) /\ next \in DOMAIN Slots
      BY <1>0, <2>2, GrowSlots
    <2> HIDE DEF e
    <2>4. CountType'
      BY <1>0, <2>1 DEF CountType
    <2>5. HistType'
      BY <1>0, <2>1, <2>2 DEF HistType
    <2>6. Slots[next] \in SlotType
      BY <2>3
    <2>7. [Slots[next] EXCEPT !.edge = e, !.pipe = "open", !.proc = "live"] \in SlotType
      BY <2>2, <2>6 DEF SlotType
    <2>8. jobs' \in Seq(SlotType)
      BY <2>1, <2>3, <2>7
    <2>9. next' \in Nat
      BY <2>1, <2>6 DEF SlotType
    <2>10. JobType'
      BY <1>0, <2>1, <2>8, <2>9 DEF JobType
    <2> QED
      BY <1>0, <2>1, <2>2, <2>4, <2>5, <2>10, Keep DEF TypeOK
  <1>4. CASE StartFails
    <2>1. /\ UNCHANGED <<fileVars, nodeVars, edgeVars, addVars, mainVars, todo>>
          /\ UNCHANGED <<poolwork, poolnum, nfinished, ntotal, next, numjobs, revents, nruns>>
          /\ jobs' = Slots
          /\ result' = [result EXCEPT ![Head(work)] = "failed"]
          /\ work' = Tail(work) /\ nstarted' = nstarted + 1 /\ numfail' = numfail + 1 /\ MayStart
      BY <1>4 DEF StartFails
    <2>2. Head(work) \in Edges /\ QueueType' /\ numjobs < MaxJobs
      BY <1>1, <2>1 DEF MayStart
    <2>3. Slots \in Seq(SlotType)
      BY <1>0, <2>2, GrowSlots
    <2>4. CountType' /\ JobType'
      BY <1>0, <2>1, <2>3 DEF CountType, JobType
    <2>5. HistType'
      BY <1>0, <2>1, <2>2 DEF HistType
    <2> QED
      BY <1>0, <2>1, <2>2, <2>4, <2>5, Keep DEF TypeOK
  <1>5. CASE BuildEnd
    <2>1. UNCHANGED <<fileVars, nodeVars, edgeVars, queueVars, nstarted, nfinished, addVars, jobVars, todo, histVars>>
      BY <1>5 DEF BuildEnd
    <2>2. CountType' /\ MainType'
      BY <1>0, <1>5, <2>1 DEF BuildEnd, Fatal, CountType, MainType
    <2> QED
      BY <1>0, <2>1, <2>2, Keep DEF TypeOK
  <1>6. CASE WaitForJobs
    <2>1. /\ UNCHANGED <<fileVars, nodeVars, edgeVars, queueVars, countVars, addVars, jobVars, todo, histVars>>
          /\ UNCHANGED <<pass, tries, status>> /\ pc' = "poll"
      BY <1>6 DEF WaitForJobs
    <2>2. MainType'
      BY <1>0, <2>1 DEF MainType
    <2> QED
      BY <1>0, <2>1, <2>2, Keep DEF TypeOK
  <1> QED
    BY <1>2, <1>3, <1>4, <1>5, <1>6

LEMMA ReleaseType ==
  ASSUME TypeOK, NEW e \in Edges, ReleasePool(Pool[e])
  PROVE  QueueType'
  <1> DEFINE p == Pool[e]
  <1>0. QueueType /\ (p \in Pools \/ p = NoPool)
    BY PoolTypes DEF TypeOK
  <1> HIDE DEF p
  <1>1. CASE p # NoPool /\ poolwork[p] # << >>
    <2>1. /\ work' = <<Head(poolwork[p])>> \o work /\ poolnum' = poolnum
          /\ poolwork' = [poolwork EXCEPT ![p] = Tail(poolwork[p])]
      BY <1>1 DEF ReleasePool, p
    <2>2. poolwork[p] \in Seq(Edges) /\ p \in Pools
      BY <1>0, <1>1 DEF QueueType
    <2>3. Head(poolwork[p]) \in Edges /\ Tail(poolwork[p]) \in Seq(Edges)
      BY <1>1, <2>2, Pop
    <2>4. work' \in Seq(Edges)
      BY <1>0, <2>1, <2>3, Push DEF QueueType
    <2>5. poolwork' \in [Pools -> Seq(Edges)]
      BY <1>0, <2>1, <2>2, <2>3 DEF QueueType
    <2> QED
      BY <1>0, <2>1, <2>4, <2>5 DEF QueueType
  <1>2. CASE p # NoPool /\ poolwork[p] = << >>
    <2>1. /\ work' = work /\ poolwork' = poolwork
          /\ poolnum' = [poolnum EXCEPT ![p] = poolnum[p] - 1]
      BY <1>2 DEF ReleasePool, p
    <2>2. poolnum' \in [Pools -> Int]
      BY <1>0, <1>2, <2>1 DEF QueueType
    <2> QED
      BY <1>0, <2>1, <2>2 DEF QueueType
  <1>3. CASE p = NoPool
    <2>1. UNCHANGED queueVars
      BY <1>3 DEF ReleasePool, p, queueVars
    <2> QED
      BY <2>1, Keep
  <1> QED
    BY <1>1, <1>2, <1>3

LEMMA EdgedoneType ==
  ASSUME TypeOK, NEW e \in Edges, edgedone(e), UNCHANGED dirty
  PROVE  /\ NodeType' /\ TodoType' /\ nodeps' \in SUBSET Edges
         /\ result' \in [Edges -> {"none", "running", "ok", "failed"}]
  <1>0. FileType /\ NodeType /\ HistType
    BY DEF TypeOK
  <1>1. /\ \E stats : mtime' = [n \in Nodes |-> IF n \in stats THEN Stat(n) ELSE mtime[n]]
        /\ logmtime' = [n \in Nodes |-> IF n \in Members(Out[e]) THEN LogTime(e, n) ELSE logmtime[n]]
        /\ samehash' = [n \in Nodes |-> samehash[n] \/ n \in Members(Out[e])]
        /\ nodeps' = nodeps \ {e}
        /\ todo' = Notify(e, [i \in DOMAIN Out[e] |-> shouldprune(e, Out[e][i])])
        /\ result' = [result EXCEPT ![e] = "ok"]
    BY DEF edgedone
  <1>2. mtime' \in [Nodes -> Mtimes]
    BY <1>0, <1>1 DEF Stat, FileType, NodeType, Mtimes
  <1>3. \A n \in Nodes : LogTime(e, n) \in Nat \cup {MTIME_MISSING}
    <2> SUFFICES ASSUME NEW n \in Nodes PROVE LogTime(e, n) \in Nat \cup {MTIME_MISSING}
      OBVIOUS
    <2> DEFINE times == {Stat(i) : i \in Essential(e)} \ {MTIME_MISSING}
               Newest(t) == \A u \in times : u <= t
    <2>1. Essential(e) \subseteq Nodes
      <3>1. Inorder[e] \in Nat /\ Inorder[e] <= Len(In[e]) /\ In[e] \in Seq(Nodes)
        BY GraphAssumption, UseAssumption DEF GraphAssumption, UseAssumption
      <3> QED
        BY <3>1 DEF Essential
    <2>2. times \subseteq Nat
      BY <1>0, <2>1 DEF Stat, FileType
    <2>3. Stat(n) \in Nat \cup {MTIME_MISSING}
      BY <1>0 DEF Stat, FileType
    <2>4. LogTime(e, n) = IF shouldprune(e, n) /\ \E t \in times : Newest(t)
                          THEN CHOOSE t \in times : Newest(t)
                          ELSE IF Stat(n) = MTIME_MISSING THEN 0 ELSE Stat(n)
      BY DEF LogTime
    <2>5. CASE shouldprune(e, n) /\ \E t \in times : Newest(t)
      BY <2>2, <2>4, <2>5
    <2>6. CASE ~(shouldprune(e, n) /\ \E t \in times : Newest(t))
      <3> HIDE DEF times
      <3>1. LogTime(e, n) = IF Stat(n) = MTIME_MISSING THEN 0 ELSE Stat(n)
        BY <2>4, <2>6
      <3> QED
        BY <2>3, <3>1
    <2> QED
      BY <2>5, <2>6
  <1>4. logmtime' \in [Nodes -> Nat \cup {MTIME_MISSING}]
    BY <1>0, <1>1, <1>3 DEF NodeType
  <1>5. samehash' \in [Nodes -> BOOLEAN]
    BY <1>1
  <1>6. NodeType'
    BY <1>0, <1>2, <1>4, <1>5 DEF NodeType
  <1>7. [i \in DOMAIN Out[e] |-> shouldprune(e, Out[e][i])] \in [DOMAIN Out[e] -> BOOLEAN]
    BY DEF shouldprune
  <1>8. TodoType'
    BY <1>1, <1>7, NotifyType DEF TodoType
  <1>9. nodeps' \in SUBSET Edges /\ result' \in [Edges -> {"none", "running", "ok", "failed"}]
    BY <1>0, <1>1 DEF FileType, HistType
  <1> QED
    BY <1>6, <1>8, <1>9

LEMMA ScanTypes ==
  ASSUME IInv, Poll \/ JobDone \/ ScanEnd
  PROVE  TypeOK'
  <1>0. TypeOK /\ CountType /\ HistType /\ MainType /\ JobType /\ FileType /\ ScanInv
    BY DEF IInv, TypeOK
  <1>1. CASE Poll
    <2>1. /\ UNCHANGED <<fileVars, nodeVars, edgeVars, queueVars, countVars, addVars, todo, histVars>>
          /\ UNCHANGED <<jobs, next, numjobs, numfail, pass, tries, status>>
          /\ pc' = "scan" /\ revents' \subseteq Busy
      BY <1>1 DEF Poll
    <2>2. MainType'
      BY <1>0, <2>1 DEF MainType
    <2>3. Busy \subseteq Nat
      BY <1>0 DEF Busy, BusySlots, JobType
    <2>4. JobType'
      BY <1>0, <2>1, <2>3 DEF JobType
    <2> QED
      BY <1>0, <2>1, <2>2, <2>4, Keep DEF TypeOK
  <1>2. CASE JobDone
    <2>1. /\ UNCHANGED <<edgeVars, addVars, mainVars>>
          /\ UNCHANGED <<disk, clock, nstarted, ntotal, nruns>>
          /\ nfinished' = nfinished + 1 /\ numjobs' = numjobs - 1
      BY <1>2 DEF JobDone
    <2>2. PICK i \in revents :
             /\ ReleasePool(Pool[jobs[i].edge])
             /\ \/ edgedone(jobs[i].edge) /\ UNCHANGED <<dirty, numfail>>
                \/ /\ numfail' = numfail + 1
                   /\ result' = [result EXCEPT ![jobs[i].edge] = "failed"]
                   /\ UNCHANGED <<nodeps, nodeVars, todo>>
             /\ jobs' = [jobs EXCEPT ![i] = FreeSlot(next)]
             /\ next' = i
             /\ revents' = revents \ {i}
      BY <1>2 DEF JobDone
    <2>3. i \in DOMAIN jobs /\ jobs[i].edge \in Edges /\ i \in Nat
      <3>1. i \in DOMAIN jobs /\ jobs[i].edge # NoEdge
        BY <1>0 DEF ScanInv, Busy, BusySlots
      <3>2. jobs[i] \in SlotType /\ i \in Nat
        BY <1>0, <3>1 DEF JobType
      <3> QED
        BY <3>1, <3>2 DEF SlotType
    <2>4. QueueType'
      BY <1>0, <2>2, <2>3, ReleaseType
    <2>5. CountType'
      BY <1>0, <2>1 DEF CountType
    <2>6. FreeSlot(next) \in SlotType
      BY <1>0 DEF FreeSlot, SlotType, JobType
    <2>7. jobs' \in Seq(SlotType)
      BY <1>0, <2>2, <2>3, <2>6 DEF JobType
    <2>8. numfail' \in Nat
      BY <1>0, <2>2 DEF JobType
    <2>9. JobType'
      BY <1>0, <2>1, <2>2, <2>3, <2>7, <2>8 DEF JobType
    <2>10. /\ NodeType' /\ TodoType' /\ nodeps' \in SUBSET Edges
           /\ result' \in [Edges -> {"none", "running", "ok", "failed"}]
      <3>1. CASE edgedone(jobs[i].edge) /\ UNCHANGED <<dirty, numfail>>
        <4>1. jobs[i].edge \in Edges /\ edgedone(jobs[i].edge) /\ UNCHANGED dirty
          BY <2>3, <3>1
        <4> QED
          BY <1>0, <4>1, EdgedoneType
      <3>2. CASE /\ result' = [result EXCEPT ![jobs[i].edge] = "failed"]
                 /\ UNCHANGED <<nodeps, nodeVars, todo>>
        <4>1. result' \in [Edges -> {"none", "running", "ok", "failed"}]
          BY <1>0, <2>3, <3>2 DEF HistType
        <4> QED
          BY <1>0, <3>2, <4>1, Keep DEF FileType
      <3> QED
        BY <2>2, <3>1, <3>2
    <2>11. FileType' /\ HistType'
      BY <1>0, <2>1, <2>10 DEF FileType, HistType
    <2> QED
      BY <1>0, <2>1, <2>4, <2>5, <2>9, <2>10, <2>11, Keep DEF TypeOK
  <1>3. CASE ScanEnd
    <2>1. /\ UNCHANGED <<fileVars, nodeVars, edgeVars, queueVars, countVars, addVars, jobVars, todo, histVars>>
          /\ UNCHANGED <<pass, tries, status>> /\ pc' = "start"
      BY <1>3 DEF ScanEnd
    <2>2. MainType'
      BY <1>0, <2>1 DEF MainType
    <2> QED
      BY <1>0, <2>1, <2>2, Keep DEF TypeOK
  <1> QED
    BY <1>1, <1>2, <1>3

(* The frames of nodedone() that stay on its stack. *)
LEMMA TodoStack ==
  ASSUME TypeOK, todo # << >>
  PROVE  /\ top \in FrameType /\ Tail(todo) \in Seq(FrameType) /\ After \in Seq(FrameType)
         /\ top.use <= Len(Use[top.node]) => User \in Edges
  <1>1. top \in FrameType /\ Tail(todo) \in Seq(FrameType)
    BY Pop DEF TypeOK, TodoType, top
  <1>2. [top EXCEPT !.use = top.use + 1] \in FrameType
    BY <1>1 DEF FrameType
  <1>3. After \in Seq(FrameType)
    BY <1>1, <1>2, Push DEF After
  <1>4. ASSUME top.use <= Len(Use[top.node]) PROVE User \in Edges
    <2>1. top.node \in Nodes /\ top.use \in Nat \ {0}
      BY <1>1 DEF FrameType
    <2>2. Use[top.node] \in Seq(Edges)
      BY <2>1, GraphTypes
    <2>3. top.use \in DOMAIN Use[top.node]
      BY <1>4, <2>1, <2>2
    <2> QED
      BY <2>2, <2>3 DEF User
  <1> QED
    BY <1>1, <1>3, <1>4

LEMMA NodedoneTypes ==
  ASSUME TypeOK, Prune \/ Unblock \/ SkipUser \/ NodeDone
  PROVE  TypeOK'
  <1>0. EdgeType /\ CountType
    BY DEF TypeOK
  <1>1. CASE Prune
    <2>1. /\ UNCHANGED <<fileVars, nodeVars, queueVars, addVars, jobVars, mainVars, histVars>>
          /\ UNCHANGED <<flags, nblock, nstarted, nfinished>>
          /\ todo # << >> /\ top.use <= Len(Use[top.node])
          /\ nprune' = [nprune EXCEPT ![User] = 0]
          /\ todo' = Notify(User, Always(User, TRUE)) \o After
          /\ ntotal' = IF Dirty(flags[User]) /\ User \notin Phony THEN ntotal - 1 ELSE ntotal
      BY <1>1 DEF Prune, AtUser
    <2>2. User \in Edges /\ After \in Seq(FrameType)
      BY <2>1, TodoStack
    <2>3. Always(User, TRUE) \in [DOMAIN Out[User] -> BOOLEAN]
      BY DEF Always
    <2>4. Notify(User, Always(User, TRUE)) \in Seq(FrameType)
      BY <2>2, <2>3, NotifyType
    <2>5. TodoType'
      <3>1. Notify(User, Always(User, TRUE)) \o After \in Seq(FrameType)
        BY <2>2, <2>4, Joined
      <3> QED
        BY <2>1, <3>1 DEF TodoType
    <2>6. EdgeType' /\ CountType'
      BY <1>0, <2>1, <2>2 DEF EdgeType, CountType
    <2> QED
      BY <2>1, <2>5, <2>6, Keep DEF TypeOK
  <1>2. CASE Unblock
    <2>1. /\ UNCHANGED <<fileVars, nodeVars, countVars, addVars, jobVars, mainVars, histVars>>
          /\ UNCHANGED flags
          /\ todo # << >> /\ top.use <= Len(Use[top.node])
          /\ nprune' = [nprune EXCEPT ![User] = nprune[User] - 1] \/ nprune' = nprune
          /\ nblock' = [nblock EXCEPT ![User] = nblock[User] - 1]
          /\ queue(User) \/ UNCHANGED queueVars
          /\ todo' = After
      BY <1>2 DEF Unblock, AtUser
    <2>2. User \in Edges /\ After \in Seq(FrameType)
      BY <2>1, TodoStack
    <2>3. QueueType'
      BY <2>1, <2>2, QueueKeepsType, Keep
    <2>4. TodoType'
      BY <2>1, <2>2 DEF TodoType
    <2>5. EdgeType'
      BY <1>0, <2>1, <2>2 DEF EdgeType
    <2> QED
      BY <2>1, <2>3, <2>4, <2>5, Keep DEF TypeOK
  <1>3. CASE SkipUser \/ NodeDone
    <2>1. /\ UNCHANGED <<fileVars, nodeVars, edgeVars, queueVars, countVars, addVars, jobVars, mainVars, histVars>>
          /\ todo # << >> /\ todo' \in {After, Tail(todo)}
      BY <1>3 DEF SkipUser, NodeDone
    <2>2. TodoType'
      BY <2>1, TodoStack DEF TodoType
    <2> QED
      BY <2>1, <2>2, Keep DEF TypeOK
  <1> QED
    BY <1>1, <1>2, <1>3

LEMMA CommandTypes ==
  ASSUME TypeOK, NEW i \in Busy,
         PipeCloses(i) \/ \E x \in {"ok", "fail"} : CommandExits(i, x)
  PROVE  TypeOK'
  <1>0. FileType /\ JobType /\ i \in DOMAIN jobs /\ jobs[i] \in SlotType
    BY DEF TypeOK, Busy, BusySlots, JobType
  <1>1. CASE PipeCloses(i)
    <2>1. /\ UNCHANGED <<fileVars, nodeVars, edgeVars, queueVars, countVars, addVars, mainVars, todo, histVars>>
          /\ UNCHANGED <<next, numjobs, numfail, revents>>
          /\ jobs' = [jobs EXCEPT ![i] = [jobs[i] EXCEPT !.pipe = "eof"]]
      BY <1>1 DEF PipeCloses
    <2>2. [jobs[i] EXCEPT !.pipe = "eof"] \in SlotType
      BY <1>0 DEF SlotType
    <2>3. jobs' \in Seq(SlotType)
      BY <1>0, <2>1, <2>2 DEF JobType
    <2>4. JobType'
      BY <1>0, <2>1, <2>3 DEF JobType
    <2> QED
      BY <2>1, <2>4, Keep DEF TypeOK
  <1>2. ASSUME NEW x \in {"ok", "fail"}, CommandExits(i, x) PROVE TypeOK'
    <2>1. /\ UNCHANGED <<nodeVars, edgeVars, queueVars, countVars, addVars, mainVars, todo, histVars>>
          /\ UNCHANGED <<nodeps, next, numjobs, numfail, revents>>
          /\ jobs' = [jobs EXCEPT ![i] = [jobs[i] EXCEPT !.proc = x]]
          /\ \E s : /\ clock' = IF s = {} THEN clock ELSE clock + 1
                    /\ disk' = [n \in Nodes |-> IF n \in s THEN clock + 1 ELSE disk[n]]
      BY <1>2 DEF CommandExits
    <2>2. [jobs[i] EXCEPT !.proc = x] \in SlotType
      BY <1>0 DEF SlotType
    <2>3. jobs' \in Seq(SlotType)
      BY <1>0, <2>1, <2>2 DEF JobType
    <2>4. JobType'
      BY <1>0, <2>1, <2>3 DEF JobType
    <2>5. FileType'
      BY <1>0, <2>1 DEF FileType
    <2> QED
      BY <2>1, <2>4, <2>5, Keep DEF TypeOK
  <1> QED
    BY <1>1, <1>2

-----------------------------------------------------------------------------
(* The whole invariant *)

LEMMA InitTypes == Init => TypeOK
  <1> SUFFICES ASSUME Init PROVE TypeOK
    OBVIOUS
  <1>1. PICK f \in InitFiles :
           /\ disk = f.disk /\ clock = f.clock /\ nodeps = f.nodeps
           /\ logmtime = f.logmtime /\ samehash = f.samehash
    BY DEF Init
  <1>2. FileType /\ NodeType
    BY <1>1, BuildAssumption DEF BuildAssumption, Init, FileType, NodeType, Mtimes
  <1>3. EdgeType /\ QueueType /\ CountType /\ TodoType /\ HistType /\ JobType
    BY DEF Init, EdgeType, QueueType, CountType, TodoType, HistType, JobType
  <1>4. MainType
    BY DEF Init, MainType, FirstPass
  <1>5. TargetsOf(FirstPass) \in Seq(Nodes)
    BY BuildAssumption DEF BuildAssumption, TargetsOf, FirstPass, HasManifestRule
  <1>6. AddType
    BY <1>5 DEF Init, AddType
  <1> QED
    BY <1>2, <1>3, <1>4, <1>6 DEF TypeOK

(* A new jobs array has no slots, and an empty free list. *)
LEMMA NoSlots == Sound(<< >>, 1, 0)
  <1>1. BusySlots(<< >>) = {} /\ FreeSlots(<< >>) = {}
    BY DEF BusySlots, FreeSlots
  <1>2. Cardinality(BusySlots(<< >>)) = 0
    BY <1>1, FS_EmptySet
  <1>3. MaxJobs \in Nat
    BY BuildAssumption DEF BuildAssumption
  <1> DEFINE fl == [i \in 1..0 |-> i]
  <1>4. FreeList(fl, << >>, 1)
    BY <1>1 DEF FreeList
  <1>5. fl \in [1..(Len(<< >>) - 0) -> FreeSlots(<< >>)]
    BY <1>1
  <1> HIDE DEF fl
  <1>6. \E f \in [1..(Len(<< >>) - 0) -> FreeSlots(<< >>)] : FreeList(f, << >>, 1)
    BY <1>4, <1>5
  <1>7. 0 = Cardinality(BusySlots(<< >>)) /\ 0 <= Len(<< >>) /\ Len(<< >>) <= MaxJobs
    BY <1>2, <1>3
  <1> QED
    BY <1>6, <1>7 DEF Sound

LEMMA InitInv == Init => IInv
  <1> SUFFICES ASSUME Init PROVE IInv
    OBVIOUS
  <1>1. TypeOK
    BY InitTypes
  <1>2. ScanInv
    BY DEF Init, ScanInv
  <1>3. PassInv
    BY BuildAssumption DEF BuildAssumption, Init, PassInv, FirstPass, HasManifestRule
  <1>4. SlotsSound
    <2>1. jobs = << >> /\ next = 1 /\ numjobs = 0
      BY DEF Init
    <2> QED
      BY <2>1, NoSlots DEF SlotsSound
  <1> QED
    BY <1>1, <1>2, <1>3, <1>4 DEF IInv

(* What a command does to its slot, the scheduler's part of it apart,      *)
(* keeps the array sound.                                                  *)
LEMMA CommandSlots ==
  ASSUME TypeOK, SlotsSound, NEW i \in Busy, NEW s \in SlotType,
         s.edge = jobs[i].edge, s.next = jobs[i].next,
         jobs' = [jobs EXCEPT ![i] = s], UNCHANGED <<next, numjobs>>
  PROVE  SlotsSound' /\ Busy' = Busy
  <1>1. jobs \in Seq(SlotType) /\ Len(jobs) \in Nat /\ DOMAIN jobs = 1..Len(jobs) /\ i \in DOMAIN jobs
    BY DEF TypeOK, JobType, Busy, BusySlots
  <1>2. DOMAIN jobs' = DOMAIN jobs /\ Len(jobs') = Len(jobs)
    BY <1>1
  <1>3. \A k \in DOMAIN jobs : jobs'[k].edge = jobs[k].edge /\ jobs'[k].next = jobs[k].next
    BY <1>1
  <1>4. BusySlots(jobs') = BusySlots(jobs) /\ FreeSlots(jobs') = FreeSlots(jobs)
    BY <1>2, <1>3 DEF BusySlots, FreeSlots
  <1>5. PICK fl \in [1..(Len(jobs) - numjobs) -> FreeSlots(jobs)] : FreeList(fl, jobs, next)
    BY DEF SlotsSound, Sound
  <1>6. \A k \in DOMAIN fl : fl[k] \in DOMAIN jobs
    BY <1>5 DEF FreeSlots
  <1>7. FreeList(fl, jobs', next)
    BY <1>2, <1>3, <1>4, <1>5, <1>6 DEF FreeList
  <1>8. Sound(jobs', next, numjobs)
    BY <1>2, <1>4, <1>5, <1>7 DEF SlotsSound, Sound
  <1> QED
    BY <1>4, <1>8 DEF SlotsSound, Busy

(* Every step of samu keeps the types. *)
LEMMA StepTypes == IInv /\ [Next]_vars => TypeOK'
  <1> SUFFICES ASSUME IInv, [Next]_vars PROVE TypeOK'
    OBVIOUS
  <1>0. TypeOK /\ PassInv
    BY DEF IInv
  <1>1. CASE AddTarget \/ AddInput \/ AddFinish
    BY <1>0, <1>1, AddTypes
  <1>2. CASE ManifestClean \/ BuildBegin \/ Finished \/ ManifestRetry \/ ManifestPruned
    BY <1>0, <1>2, MainTypes
  <1>3. CASE StartNothing \/ StartJob \/ StartFails \/ BuildEnd \/ WaitForJobs
    BY <1>3, StartTypes
  <1>4. CASE Poll \/ JobDone \/ ScanEnd
    BY <1>4, ScanTypes
  <1>5. CASE Prune \/ Unblock \/ SkipUser \/ NodeDone
    BY <1>0, <1>5, NodedoneTypes
  <1>6. CASE Commands
    BY <1>0, <1>6, CommandTypes DEF Commands
  <1>7. CASE UNCHANGED vars
    <2>1. UNCHANGED <<fileVars, nodeVars, edgeVars, queueVars, countVars, addVars, jobVars,
                      mainVars, todo, histVars>>
      BY <1>7 DEF vars
    <2> QED
      BY <1>0, <2>1, Keep DEF TypeOK
  <1> QED
    BY <1>1, <1>2, <1>3, <1>4, <1>5, <1>6, <1>7 DEF Next, Samu, Exited

LEMMA StepPass == IInv /\ [Next]_vars => PassInv'
  <1> SUFFICES ASSUME IInv, [Next]_vars PROVE PassInv'
    OBVIOUS
  <1>1. pass' \in {pass, "targets"}
    <2>1. CASE AddTarget \/ AddInput \/ AddFinish
      BY <2>1 DEF AddTarget, AddInput, AddFinish, Enter, Fatal, mainVars
    <2>2. CASE ManifestClean \/ BuildBegin \/ Finished \/ ManifestRetry \/ ManifestPruned
      BY <2>2 DEF ManifestClean, BuildBegin, Finished, ManifestRetry, ManifestPruned
    <2>3. CASE StartNothing \/ StartJob \/ StartFails \/ BuildEnd \/ WaitForJobs
      BY <2>3 DEF StartNothing, StartJob, StartFails, BuildEnd, Fatal, WaitForJobs, mainVars
    <2>4. CASE Poll \/ JobDone \/ ScanEnd
      BY <2>4 DEF Poll, JobDone, ScanEnd, mainVars
    <2>5. CASE Prune \/ Unblock \/ SkipUser \/ NodeDone
      BY <2>5 DEF Prune, Unblock, SkipUser, NodeDone, mainVars
    <2>6. CASE Commands
      BY <2>6 DEF Commands, PipeCloses, CommandExits, mainVars
    <2>7. CASE UNCHANGED vars
      BY <2>7 DEF vars, mainVars
    <2> QED
      BY <2>1, <2>2, <2>3, <2>4, <2>5, <2>6, <2>7 DEF Next, Samu, Exited
  <1> QED
    BY <1>1 DEF IInv, PassInv

(* Every step keeps the jobs array and its free list sound, and scans only *)
(* busy slots of it.                                                       *)
LEMMA StepSlots == IInv /\ [Next]_vars => SlotsSound' /\ ScanInv'
  <1> SUFFICES ASSUME IInv, [Next]_vars PROVE SlotsSound' /\ ScanInv'
    OBVIOUS
  <1>0. TypeOK /\ SlotsSound /\ ScanInv
    BY DEF IInv
  <1>a. jobs \in Seq(SlotType) /\ next \in Nat /\ numjobs \in Nat
    <2>1. jobs \in Seq(SlotType) /\ next \in Nat /\ DOMAIN jobs = 1..Len(jobs) /\ Len(jobs) \in Nat
      BY <1>0 DEF TypeOK, JobType
    <2>2. IsFiniteSet(BusySlots(jobs))
      <3>1. IsFiniteSet(DOMAIN jobs)
        BY <2>1, FS_Interval
      <3> QED
        BY <3>1, FS_Subset DEF BusySlots
    <2>3. Cardinality(BusySlots(jobs)) \in Nat
      BY <2>2, FS_CardinalityType
    <2> QED
      BY <1>0, <2>1, <2>3 DEF SlotsSound, Sound
  <1>b. ASSUME UNCHANGED jobVars, pc' = pc \/ pc # "scan" PROVE SlotsSound' /\ ScanInv'
    <2>1. jobs' = jobs /\ next' = next /\ numjobs' = numjobs /\ revents' = revents
      BY <1>b DEF jobVars
    <2>2. SlotsSound'
      BY <1>0, <2>1 DEF SlotsSound
    <2>3. Busy' = Busy
      BY <2>1 DEF Busy
    <2> QED
      BY <1>0, <1>b, <2>1, <2>2, <2>3 DEF ScanInv
  <1>1. CASE AddTarget \/ AddInput \/ AddFinish
    <2>1. UNCHANGED jobVars /\ pc # "scan"
      BY <1>1 DEF AddTarget, AddInput, AddFinish
    <2> QED
      BY <1>b, <2>1
  <1>2. CASE ManifestClean \/ Finished \/ ManifestRetry \/ ManifestPruned
    <2>1. UNCHANGED jobVars /\ pc # "scan"
      BY <1>2 DEF ManifestClean, Finished, ManifestRetry, ManifestPruned
    <2> QED
      BY <1>b, <2>1
  <1>3. CASE BuildBegin
    <2>1. jobs' = << >> /\ next' = 1 /\ numjobs' = 0 /\ revents' = {}
      BY <1>3 DEF BuildBegin
    <2>2. SlotsSound'
      BY <2>1, NoSlots DEF SlotsSound
    <2> QED
      BY <2>1, <2>2 DEF ScanInv
  <1>4. CASE StartNothing \/ BuildEnd \/ WaitForJobs
    <2>1. UNCHANGED jobVars /\ pc # "scan"
      BY <1>4 DEF StartNothing, MayStart, BuildEnd, Stalled, WaitForJobs
    <2> QED
      BY <1>b, <2>1
  <1>5. CASE StartJob
    <2> DEFINE s == [Slots[next] EXCEPT !.edge = Head(work), !.pipe = "open", !.proc = "live"]
    <2>1. /\ jobs' = [Slots EXCEPT ![next] = s]
          /\ next' = Slots[next].next
          /\ numjobs' = numjobs + 1 /\ revents' = revents /\ MayStart /\ UNCHANGED mainVars
      BY <1>5 DEF StartJob
    <2>2. pc = "start" /\ pc' = "start" /\ revents = {} /\ numjobs < MaxJobs
      BY <1>0, <2>1 DEF MayStart, mainVars, ScanInv
    <2>3. Head(work) \in Edges
      BY <1>0, <2>1, Pop DEF MayStart, TypeOK, QueueType
    <2>4. Head(work) # NoEdge
      BY <2>3, GraphAssumption DEF GraphAssumption
    <2>5. /\ Slots \in Seq(SlotType) /\ Sound(Slots, next, numjobs)
          /\ next \in DOMAIN Slots
      BY <1>0, <2>2, GrowSlots
    <2>6. Slots[next] \in SlotType
      BY <2>5
    <2>7. s \in SlotType /\ s.edge = Head(work)
      BY <2>3, <2>6 DEF SlotType
    <2> HIDE DEF s
    <2>8. Sound([Slots EXCEPT ![next] = s], Slots[next].next, numjobs + 1)
      BY <1>a, <2>4, <2>5, <2>7, TakeSlot
    <2>9. SlotsSound'
      BY <2>1, <2>8 DEF SlotsSound
    <2> QED
      BY <2>1, <2>2, <2>9 DEF ScanInv
  <1>6. CASE StartFails
    <2>1. /\ jobs' = Slots /\ UNCHANGED <<next, numjobs, revents, mainVars>> /\ MayStart
      BY <1>6 DEF StartFails
    <2>2. pc = "start" /\ pc' = "start" /\ revents = {} /\ numjobs < MaxJobs
      BY <1>0, <2>1 DEF MayStart, mainVars, ScanInv
    <2>3. Sound(Slots, next, numjobs)
      BY <1>0, <2>2, GrowSlots
    <2>4. SlotsSound'
      BY <2>1, <2>3 DEF SlotsSound
    <2> QED
      BY <2>1, <2>2, <2>4 DEF ScanInv
  <1>7. CASE Poll
    <2>1. UNCHANGED <<jobs, next, numjobs>> /\ pc' = "scan" /\ revents' \subseteq Busy
      BY <1>7 DEF Poll
    <2>2. SlotsSound'
      BY <1>0, <2>1 DEF SlotsSound
    <2>3. Busy' = Busy
      BY <2>1 DEF Busy
    <2> QED
      BY <2>1, <2>2, <2>3 DEF ScanInv
  <1>8. CASE JobDone
    <2>1. pc = "scan" /\ pc' = pc /\ numjobs' = numjobs - 1
      BY <1>8 DEF JobDone, mainVars
    <2>2. PICK d \in revents : /\ jobs' = [jobs EXCEPT ![d] = FreeSlot(next)]
                               /\ next' = d
                               /\ revents' = revents \ {d}
      BY <1>8 DEF JobDone
    <2>3. d \in BusySlots(jobs)
      BY <1>0 DEF ScanInv, Busy
    <2>4. Sound([jobs EXCEPT ![d] = FreeSlot(next)], d, numjobs - 1)
      BY <1>0, <1>a, <2>3, GiveSlot DEF SlotsSound
    <2>5. SlotsSound'
      BY <2>1, <2>2, <2>4 DEF SlotsSound
    <2>6. \A k \in revents \ {d} : k \in Busy'
      BY <1>0, <1>a, <2>2 DEF ScanInv, Busy, BusySlots
    <2> QED
      BY <2>1, <2>2, <2>5, <2>6 DEF ScanInv
  <1>9. CASE ScanEnd
    <2>1. UNCHANGED jobVars /\ revents = {} /\ revents' = {}
      BY <1>9 DEF ScanEnd, jobVars
    <2>2. SlotsSound'
      BY <1>0, <2>1 DEF SlotsSound, jobVars
    <2> QED
      BY <2>1, <2>2 DEF ScanInv
  <1>10. CASE Prune \/ Unblock \/ SkipUser \/ NodeDone
    <2>1. UNCHANGED jobVars /\ pc' = pc
      BY <1>10 DEF Prune, Unblock, SkipUser, NodeDone, mainVars
    <2> QED
      BY <1>b, <2>1
  <1>11. CASE Commands
    <2>1. PICK i \in Busy : PipeCloses(i) \/ \E x \in {"ok", "fail"} : CommandExits(i, x)
      BY <1>11 DEF Commands
    <2>2. jobs[i] \in SlotType
      BY <1>a DEF Busy, BusySlots
    <2>3. PICK s \in SlotType : /\ s.edge = jobs[i].edge /\ s.next = jobs[i].next
                                /\ jobs' = [jobs EXCEPT ![i] = s]
      <3>1. CASE PipeCloses(i)
        <4>1. jobs' = [jobs EXCEPT ![i] = [jobs[i] EXCEPT !.pipe = "eof"]]
          BY <3>1 DEF PipeCloses
        <4>2. [jobs[i] EXCEPT !.pipe = "eof"] \in SlotType
          BY <2>2 DEF SlotType
        <4> QED
          BY <2>2, <4>1, <4>2 DEF SlotType
      <3>2. ASSUME NEW x \in {"ok", "fail"}, CommandExits(i, x)
            PROVE  \E s \in SlotType : /\ s.edge = jobs[i].edge /\ s.next = jobs[i].next
                                       /\ jobs' = [jobs EXCEPT ![i] = s]
        <4>1. jobs' = [jobs EXCEPT ![i] = [jobs[i] EXCEPT !.proc = x]]
          BY <3>2 DEF CommandExits
        <4>2. [jobs[i] EXCEPT !.proc = x] \in SlotType
          BY <2>2 DEF SlotType
        <4> QED
          BY <2>2, <4>1, <4>2 DEF SlotType
      <3> QED
        BY <2>1, <3>1, <3>2
    <2>4. UNCHANGED <<next, numjobs, revents>> /\ pc' = pc
      BY <2>1 DEF PipeCloses, CommandExits, mainVars
    <2>5. SlotsSound' /\ Busy' = Busy
      BY <1>0, <2>3, <2>4, CommandSlots
    <2> QED
      BY <1>0, <2>4, <2>5 DEF ScanInv
  <1>12. CASE UNCHANGED vars
    <2>1. UNCHANGED jobVars /\ pc' = pc
      BY <1>12 DEF vars, mainVars
    <2> QED
      BY <1>b, <2>1
  <1> QED
    BY <1>1, <1>2, <1>3, <1>4, <1>5, <1>6, <1>7, <1>8, <1>9, <1>10, <1>11, <1>12
    DEF Next, Samu, Exited

(* The invariant holds in every state of every run.                        *)
THEOREM Invariant == Spec => []IInv
  <1>1. IInv /\ [Next]_vars => IInv'
    BY StepTypes, StepPass, StepSlots DEF IInv
  <1> QED
    BY InitInv, <1>1, PTL DEF Spec

(* Whatever the graph, the options and the commands, no variable of the    *)
(* scheduler leaves its type: buildadd(), nodedone() and the job loop only *)
(* ever use existing nodes, edges and slots of the jobs array.             *)
THEOREM TypeCorrect == Spec => []TypeOK
  <1>1. IInv => TypeOK
    BY DEF IInv
  <1> QED
    BY Invariant, <1>1, PTL

(* Whatever -j is and in whatever order the commands finish, the free list *)
(* build() threads through its growing jobs array names every free slot    *)
(* exactly once and no busy one, and numjobs counts the running jobs.      *)
THEOREM SlotsCorrect == Spec => []SlotsSound
  <1>1. IInv => SlotsSound
    BY DEF IInv
  <1> QED
    BY Invariant, <1>1, PTL

-----------------------------------------------------------------------------
(* The pools.  A pool's counter is compared with the positions of the work *)
(* stack and the slots of the jobs array that hold one of its slots, not   *)
(* with the edges there: that an edge is queued only once is not needed.   *)

PoolEdges(p) == {e \in Edges : Pooled(e) /\ Pool[e] = p}

(* The positions of a sequence that hold one of P. *)
Spots(s, P) == {i \in DOMAIN s : s[i] \in P}
Count(s, P) == Cardinality(Spots(s, P))

(* The slots of the jobs array that hold a slot of pool p. *)
Runs(js, p) == {i \in BusySlots(js) : Pool[js[i].edge] = p}

Held(p) == Count(work, PoolEdges(p)) + Cardinality(Runs(jobs, p))

(* What the counter has over what is held. *)
Slack(p) == poolnum[p] - Held(p)

(* Only edges of the pool wait for it. *)
Waiting ==
    \A p \in Pools : \A k \in DOMAIN poolwork[p] : poolwork[p][k] \in PoolEdges(p)

(* The counter covers what is held. *)
Covered == \A p \in Pools : Held(p) <= poolnum[p] /\ poolnum[p] <= Depth[p]

(* Between two builds nothing runs and no node is being finished.  While   *)
(* edges are added, ntotal counts at least those queued that are not       *)
(* phony; when build() returns, there are none: samu_main() may then       *)
(* forget the counters of the pools and the jobs.                          *)
Between ==
    /\ pc \in {"add", "return"} => todo = << >> /\ Busy = {}
    /\ pc = "add" => Count(work, Edges \ Phony) <= ntotal
    /\ pc = "return" => Spots(work, Edges \ Phony) = {} /\ ntotal = 0

PoolInv == Waiting /\ Covered /\ Between


-----------------------------------------------------------------------------
(* Counting the positions of a sequence *)

LEMMA SpotsFinite ==
  ASSUME NEW s \in Seq(Edges), NEW P
  PROVE  IsFiniteSet(Spots(s, P)) /\ Count(s, P) \in Nat
  <1>1. DOMAIN s = 1..Len(s) /\ Len(s) \in Nat
    OBVIOUS
  <1>2. IsFiniteSet(DOMAIN s)
    BY <1>1, FS_Interval
  <1>3. IsFiniteSet(Spots(s, P))
    BY <1>2, FS_Subset DEF Spots
  <1> QED
    BY <1>3, FS_CardinalityType DEF Count

LEMMA CountPush ==
  ASSUME NEW s \in Seq(Edges), NEW x \in Edges, NEW P
  PROVE  Count(<<x>> \o s, P) = Count(s, P) + (IF x \in P THEN 1 ELSE 0)
  <1> DEFINE t == <<x>> \o s
             A == Spots(s, P)
             B == {i \in Spots(t, P) : i # 1}
             f == [i \in A |-> i + 1]
  <1>1. /\ DOMAIN t = 1..(Len(s) + 1) /\ DOMAIN s = 1..Len(s) /\ Len(s) \in Nat
        /\ t[1] = x
        /\ \A k \in DOMAIN s : t[k + 1] = s[k]
        /\ \A k \in 1..(Len(s) + 1) : k # 1 => k - 1 \in DOMAIN s /\ t[k] = s[k - 1]
    BY Pushed
  <1> HIDE DEF t
  <1>2. IsFiniteSet(A) /\ Cardinality(A) \in Nat
    BY SpotsFinite DEF Count
  <1>3. f \in Bijection(A, B)
    <2>1. \A i \in A : i \in Nat /\ i + 1 \in B
      BY <1>1 DEF Spots
    <2>2. f \in [A -> B]
      BY <2>1
    <2>3. \A i, k \in A : f[i] = f[k] => i = k
      BY <2>1
    <2>4. \A j \in B : \E i \in A : f[i] = j
      <3> SUFFICES ASSUME NEW j \in B PROVE \E i \in A : f[i] = j
        OBVIOUS
      <3>1. j \in Nat /\ j - 1 \in A /\ (j - 1) + 1 = j
        BY <1>1 DEF Spots
      <3> QED
        BY <3>1
    <2> QED
      BY <2>2, <2>3, <2>4, Fun_IsBij
  <1>4. IsFiniteSet(B) /\ Cardinality(B) = Cardinality(A)
    BY <1>2, <1>3, FS_Bijection, Fun_ExistsBij
  <1> HIDE DEF A, f
  <1>5. CASE x \in P
    <2>1. Spots(t, P) = B \cup {1} /\ 1 \notin B
      BY <1>1, <1>5 DEF Spots
    <2> HIDE DEF B
    <2>2. Cardinality(Spots(t, P)) = Cardinality(B) + 1
      BY <1>4, <2>1, FS_AddElement
    <2> QED
      BY <1>4, <1>5, <2>2 DEF Count, A, t
  <1>6. CASE x \notin P
    <2>1. Spots(t, P) = B
      BY <1>1, <1>6 DEF Spots
    <2>2. Count(t, P) = Count(s, P)
      BY <1>4, <2>1 DEF Count, A
    <2> QED
      BY <1>2, <1>6, <2>2 DEF Count, A, t
  <1> QED
    BY <1>5, <1>6

LEMMA CountPop ==
  ASSUME NEW s \in Seq(Edges), s # << >>, NEW P
  PROVE  Count(s, P) = Count(Tail(s), P) + (IF Head(s) \in P THEN 1 ELSE 0)
  <1> DEFINE h == Head(s)
             t == Tail(s)
  <1>1. h \in Edges /\ t \in Seq(Edges)
    BY Pop
  <1>2. s = <<h>> \o t
    OBVIOUS
  <1> HIDE DEF h, t
  <1>3. Count(<<h>> \o t, P) = Count(t, P) + (IF h \in P THEN 1 ELSE 0)
    BY <1>1, CountPush
  <1>4. Count(s, P) = Count(t, P) + (IF h \in P THEN 1 ELSE 0)
    BY <1>2, <1>3, Zenon
  <1> QED
    BY <1>4 DEF h, t

LEMMA CountEmpty == \A P : Count(<< >>, P) = 0
  <1> SUFFICES ASSUME NEW P PROVE Count(<< >>, P) = 0
    OBVIOUS
  <1>1. Spots(<< >>, P) = {}
    BY DEF Spots
  <1> QED
    BY <1>1, FS_EmptySet DEF Count

(* Only edges that are not phony take a slot of a pool. *)
LEMMA PoolCount ==
  ASSUME NEW s \in Seq(Edges), NEW p, Spots(s, Edges \ Phony) = {}
  PROVE  Count(s, PoolEdges(p)) = 0
  <1>1. Spots(s, PoolEdges(p)) = {}
    BY DEF Spots, PoolEdges, Pooled
  <1> QED
    BY <1>1, FS_EmptySet DEF Count

(* The slots that hold a slot of a pool *)
LEMMA RunsFinite ==
  ASSUME NEW js \in Seq(SlotType), NEW p
  PROVE  IsFiniteSet(Runs(js, p)) /\ Cardinality(Runs(js, p)) \in Nat
  <1>1. DOMAIN js = 1..Len(js) /\ Len(js) \in Nat
    OBVIOUS
  <1>2. IsFiniteSet(DOMAIN js)
    BY <1>1, FS_Interval
  <1>3. IsFiniteSet(Runs(js, p))
    BY <1>2, FS_Subset DEF Runs, BusySlots
  <1> QED
    BY <1>3, FS_CardinalityType

LEMMA NoRuns ==
  ASSUME NEW js, BusySlots(js) = {}, NEW p
  PROVE  Cardinality(Runs(js, p)) = 0
  <1>1. Runs(js, p) = {}
    BY DEF Runs
  <1> QED
    BY <1>1, FS_EmptySet


-----------------------------------------------------------------------------
(* The operations on the queues *)

(* queue(e) takes a slot of the pool, or lets e wait for one. *)
LEMMA QueueCovered ==
  ASSUME TypeOK, Waiting, Covered, NEW e \in Edges, queue(e), jobs' = jobs
  PROVE  /\ Waiting' /\ Covered' /\ \A p \in Pools : Slack(p)' = Slack(p)
         /\ Count(work', Edges \ Phony) <=
               Count(work, Edges \ Phony) + (IF e \in Phony THEN 0 ELSE 1)
  <1>1. work \in Seq(Edges) /\ poolwork \in [Pools -> Seq(Edges)] /\ poolnum \in [Pools -> Int]
    BY DEF TypeOK, QueueType
  <1>2. jobs \in Seq(SlotType)
    BY DEF TypeOK, JobType
  <1>3. \A P : Count(<<e>> \o work, P) = Count(work, P) + (IF e \in P THEN 1 ELSE 0)
    BY <1>1, CountPush
  <1>4. \A P : Count(work, P) \in Nat
    BY <1>1, SpotsFinite
  <1>5. \A p : Cardinality(Runs(jobs, p)) \in Nat
    BY <1>2, RunsFinite
  <1>6. CASE Pooled(e) /\ Full(Pool[e])
    <2>1. /\ poolwork' = [poolwork EXCEPT ![Pool[e]] = <<e>> \o poolwork[Pool[e]]]
          /\ work' = work /\ poolnum' = poolnum
      BY <1>6 DEF queue
    <2>2. Pool[e] \in Pools
      BY <1>6, PoolTypes DEF Pooled
    <2>3. Waiting'
      <3> SUFFICES ASSUME NEW p \in Pools, NEW k \in DOMAIN poolwork'[p]
                   PROVE  poolwork'[p][k] \in PoolEdges(p)
        BY DEF Waiting
      <3>1. CASE p = Pool[e]
        <4>1. poolwork[p] \in Seq(Edges) /\ poolwork'[p] = <<e>> \o poolwork[p]
          BY <1>1, <2>1, <2>2, <3>1
        <4>2. k = 1 \/ (k - 1 \in DOMAIN poolwork[p] /\ poolwork'[p][k] = poolwork[p][k - 1])
          BY <4>1, Pushed
        <4>3. poolwork'[p][1] = e
          BY <4>1, Pushed
        <4>4. e \in PoolEdges(p)
          BY <1>6, <3>1 DEF PoolEdges
        <4> QED
          BY <4>2, <4>3, <4>4 DEF Waiting
      <3>2. CASE p # Pool[e]
        <4>1. poolwork'[p] = poolwork[p]
          BY <1>1, <2>1, <3>2
        <4> QED
          BY <4>1 DEF Waiting
      <3> QED
        BY <3>1, <3>2
    <2>4. Covered' /\ \A p \in Pools : Slack(p)' = Slack(p)
      BY <2>1 DEF Covered, Slack, Held
    <2> QED
      BY <1>4, <2>1, <2>3, <2>4
  <1>7. CASE Pooled(e) /\ ~Full(Pool[e])
    <2>1. /\ poolnum' = [poolnum EXCEPT ![Pool[e]] = poolnum[Pool[e]] + 1]
          /\ work' = <<e>> \o work /\ poolwork' = poolwork
      BY <1>7 DEF queue
    <2>2. Pool[e] \in Pools /\ e \notin Phony
      BY <1>7, PoolTypes DEF Pooled
    <2>3. Covered' /\ \A p \in Pools : Slack(p)' = Slack(p)
      <3> SUFFICES ASSUME NEW p \in Pools
                   PROVE  Held(p)' <= poolnum'[p] /\ poolnum'[p] <= Depth[p] /\ Slack(p)' = Slack(p)
        BY DEF Covered
      <3>0. Depth[p] \in Nat
        BY GraphAssumption DEF GraphAssumption
      <3>1. Held(p) <= poolnum[p] /\ poolnum[p] <= Depth[p]
        BY DEF Covered
      <3>2. Held(p)' = Held(p) + (IF e \in PoolEdges(p) THEN 1 ELSE 0) /\ Held(p) \in Nat
        <4>1. Held(p)' = Count(<<e>> \o work, PoolEdges(p)) + Cardinality(Runs(jobs, p))
          BY <2>1 DEF Held
        <4> QED
          BY <1>3, <1>4, <1>5, <4>1 DEF Held
      <3>3. CASE p = Pool[e]
        <4>1. poolnum'[p] = poolnum[p] + 1 /\ e \in PoolEdges(p)
          BY <1>1, <1>7, <2>1, <2>2, <3>3 DEF PoolEdges
        <4>2. poolnum[p] # Depth[p] /\ poolnum[p] \in Int
          BY <1>1, <1>7, <3>3 DEF Full
        <4> QED
          BY <3>0, <3>1, <3>2, <4>1, <4>2 DEF Slack
      <3>4. CASE p # Pool[e]
        <4>1. poolnum'[p] = poolnum[p] /\ e \notin PoolEdges(p)
          BY <1>1, <2>1, <3>4 DEF PoolEdges
        <4> QED
          BY <3>1, <3>2, <4>1 DEF Slack
      <3> QED
        BY <3>3, <3>4
    <2>4. Waiting'
      BY <2>1 DEF Waiting
    <2>5. Count(work', Edges \ Phony) = Count(work, Edges \ Phony) + 1
      BY <1>3, <2>1, <2>2
    <2> QED
      BY <1>4, <2>2, <2>3, <2>4, <2>5
  <1>8. CASE ~Pooled(e)
    <2>1. work' = <<e>> \o work /\ poolwork' = poolwork /\ poolnum' = poolnum
      BY <1>8 DEF queue
    <2>2. Covered' /\ \A p \in Pools : Slack(p)' = Slack(p)
      <3> SUFFICES ASSUME NEW p \in Pools
                   PROVE  Held(p)' <= poolnum'[p] /\ poolnum'[p] <= Depth[p] /\ Slack(p)' = Slack(p)
        BY DEF Covered
      <3>1. e \notin PoolEdges(p)
        BY <1>8 DEF PoolEdges
      <3>2. Count(<<e>> \o work, PoolEdges(p)) = Count(work, PoolEdges(p))
        BY <1>3, <1>4, <3>1
      <3>3. Held(p)' = Held(p)
        BY <2>1, <3>2 DEF Held
      <3> QED
        BY <2>1, <3>3 DEF Covered, Slack
    <2>3. Waiting'
      BY <2>1 DEF Waiting
    <2>4. Count(work', Edges \ Phony) = Count(work, Edges \ Phony) + (IF e \in Edges \ Phony THEN 1 ELSE 0)
      BY <1>3, <2>1
    <2> QED
      BY <1>4, <2>2, <2>3, <2>4
  <1> QED
    BY <1>6, <1>7, <1>8

(* Nothing is held that was not. *)
LEMMA FewerHeld ==
  ASSUME Waiting, Covered, UNCHANGED <<poolwork, poolnum>>,
         \A p \in Pools : Held(p) \in Nat /\ Held(p)' \in Nat /\ Held(p)' <= Held(p),
         poolnum \in [Pools -> Int]
  PROVE  Waiting' /\ Covered'
  <1>1. Waiting'
    BY DEF Waiting
  <1>2. \A p \in Pools : Depth[p] \in Nat
    BY GraphAssumption DEF GraphAssumption
  <1>3. Covered'
    <2> SUFFICES ASSUME NEW p \in Pools PROVE Held(p)' <= poolnum'[p] /\ poolnum'[p] <= Depth[p]
      BY DEF Covered
    <2>1. poolnum'[p] = poolnum[p] /\ poolnum[p] \in Int
      OBVIOUS
    <2>2. Held(p) <= poolnum[p] /\ poolnum[p] <= Depth[p]
      BY DEF Covered
    <2> QED
      BY <2>1, <2>2
  <1> QED
    BY <1>1, <1>3

(* The state the pools depend on is left alone. *)
LEMMA PoolSame ==
  ASSUME Waiting, Covered, UNCHANGED queueVars, \A p \in Pools : Runs(jobs', p) = Runs(jobs, p)
  PROVE  Waiting' /\ Covered'
  <1>1. UNCHANGED <<work, poolwork, poolnum>>
    BY DEF queueVars
  <1>2. Waiting'
    BY <1>1 DEF Waiting
  <1>3. Covered'
    BY <1>1 DEF Covered, Held
  <1> QED
    BY <1>2, <1>3

(* The slots a larger array has are free. *)
LEMMA SlotsRuns ==
  ASSUME TypeOK, SlotsSound, numjobs < MaxJobs
  PROVE  /\ BusySlots(Slots) = BusySlots(jobs)
         /\ \A i \in BusySlots(jobs) : Slots[i] = jobs[i]
  <1>0. /\ jobs \in Seq(SlotType) /\ next \in Nat /\ numjobs \in Int
        /\ Len(jobs) \in Nat /\ DOMAIN jobs = 1..Len(jobs)
    BY DEF TypeOK, JobType
  <1>1. CASE next <= Len(jobs)
    BY <1>1 DEF Slots
  <1>2. CASE ~(next <= Len(jobs))
    <2> DEFINE len == Smaller(SlotsWanted, MaxJobs)
    <2>1. Slots = [i \in 1..len |-> IF i < next THEN jobs[i] ELSE FreeSlot(i + 1)]
      BY <1>2 DEF Slots
    <2>2. numjobs \in Nat
      <3>1. IsFiniteSet(Busy)
        <4>1. IsFiniteSet(DOMAIN jobs)
          BY <1>0, FS_Interval
        <4> QED
          BY <4>1, FS_Subset DEF Busy, BusySlots
      <3> QED
        BY <3>1, FS_CardinalityType DEF SlotsSound, Sound, Busy
    <2>3. next = Len(jobs) + 1 /\ numjobs = Len(jobs)
      <3>1. \/ next = Len(jobs) + 1 /\ numjobs = Len(jobs)
            \/ next \in DOMAIN jobs /\ numjobs < Len(jobs) /\ jobs[next].edge = NoEdge
        BY <1>0, <2>2, FirstFree DEF SlotsSound
      <3>2. next \notin DOMAIN jobs
        BY <1>0, <1>2
      <3> QED
        BY <3>1, <3>2
    <2>4. len \in Nat /\ Len(jobs) < len
      <3>1. MaxJobs \in Nat /\ SlotChunk \in Nat \ {0}
        BY BuildAssumption DEF BuildAssumption
      <3>2. SlotsWanted \in Nat /\ SlotsWanted > Len(jobs)
        <4>1. CASE jobs = << >>
          BY <3>1, <4>1 DEF SlotsWanted
        <4>2. CASE jobs # << >>
          BY <1>0, <4>2 DEF SlotsWanted
        <4> QED
          BY <4>1, <4>2
      <3> QED
        BY <1>0, <2>3, <3>1, <3>2 DEF Smaller
    <2> HIDE DEF len
    <2>5. DOMAIN Slots = 1..len
      BY <2>1
    <2>6. \A i \in 1..len : IF i \in DOMAIN jobs THEN Slots[i] = jobs[i] ELSE Slots[i].edge = NoEdge
      <3> SUFFICES ASSUME NEW i \in 1..len
                   PROVE  IF i \in DOMAIN jobs THEN Slots[i] = jobs[i] ELSE Slots[i].edge = NoEdge
        OBVIOUS
      <3>1. CASE i < next
        BY <1>0, <2>1, <2>3, <2>4, <3>1
      <3>2. CASE ~(i < next)
        BY <1>0, <2>1, <2>3, <2>4, <3>2 DEF FreeSlot
      <3> QED
        BY <3>1, <3>2
    <2>7. DOMAIN jobs \subseteq 1..len
      BY <1>0, <2>4
    <2> QED
      BY <2>5, <2>6, <2>7 DEF BusySlots
  <1> QED
    BY <1>1, <1>2


(* What is held is counted by a natural number. *)
LEMMA HeldType ==
  ASSUME TypeOK
  PROVE  \A p \in Pools : /\ Held(p) \in Nat
                          /\ Count(work, PoolEdges(p)) \in Nat /\ Cardinality(Runs(jobs, p)) \in Nat
  BY SpotsFinite, RunsFinite DEF TypeOK, QueueType, JobType, Held

(* An edge leaves the work stack without a job. *)
LEMMA DropHead ==
  ASSUME TypeOK, Waiting, Covered, work # << >>, work' = Tail(work),
         UNCHANGED <<poolwork, poolnum>>, \A p \in Pools : Runs(jobs', p) = Runs(jobs, p)
  PROVE  Waiting' /\ Covered'
  <1>1. work \in Seq(Edges) /\ poolnum \in [Pools -> Int]
    BY DEF TypeOK, QueueType
  <1>2. Tail(work) \in Seq(Edges)
    BY <1>1, Pop
  <1>3. \A p \in Pools : Held(p) \in Nat /\ Held(p)' \in Nat /\ Held(p)' <= Held(p)
    <2> SUFFICES ASSUME NEW p \in Pools PROVE Held(p) \in Nat /\ Held(p)' \in Nat /\ Held(p)' <= Held(p)
      OBVIOUS
    <2>1. Count(work, PoolEdges(p)) = Count(Tail(work), PoolEdges(p)) + (IF Head(work) \in PoolEdges(p) THEN 1 ELSE 0)
      BY <1>1, CountPop
    <2>2. Count(Tail(work), PoolEdges(p)) \in Nat
      BY <1>2, SpotsFinite
    <2>3. Held(p)' = Count(Tail(work), PoolEdges(p)) + Cardinality(Runs(jobs, p))
      BY DEF Held
    <2>4. Cardinality(Runs(jobs, p)) \in Nat
      BY HeldType
    <2> QED
      BY <2>1, <2>2, <2>3, <2>4 DEF Held
  <1> QED
    BY <1>1, <1>3, FewerHeld

(* An edge goes from the work stack to a free slot of the jobs array, and  *)
(* takes its slot of the pool along.                                       *)
LEMMA StartHeld ==
  ASSUME IInv, Waiting, Covered, StartJob
  PROVE  Waiting' /\ Covered' /\ \A p \in Pools : Slack(p)' = Slack(p)
  <1> DEFINE e == Head(work)
             s == [Slots[next] EXCEPT !.edge = e, !.pipe = "open", !.proc = "live"]
  <1>0. TypeOK /\ SlotsSound
    BY DEF IInv
  <1>1. /\ MayStart /\ e \notin Phony /\ work' = Tail(work) /\ UNCHANGED <<poolwork, poolnum>>
        /\ jobs' = [Slots EXCEPT ![next] = s]
    BY DEF StartJob
  <1>2. work \in Seq(Edges) /\ poolnum \in [Pools -> Int] /\ work # << >> /\ numjobs < MaxJobs
    BY <1>0, <1>1 DEF TypeOK, QueueType, MayStart
  <1>3. e \in Edges /\ Tail(work) \in Seq(Edges) /\ e # NoEdge
    BY <1>2, Pop, GraphAssumption DEF GraphAssumption
  <1>4. Slots \in Seq(SlotType) /\ next \in DOMAIN Slots /\ Slots[next].edge = NoEdge
    BY <1>0, <1>2, GrowSlots
  <1>5. BusySlots(Slots) = BusySlots(jobs) /\ \A i \in BusySlots(jobs) : Slots[i] = jobs[i]
    BY <1>0, <1>2, SlotsRuns
  <1>6. s.edge = e
    BY <1>4 DEF SlotType
  <1> HIDE DEF s, e
  <1>7. BusySlots(jobs') = BusySlots(jobs) \cup {next} /\ next \notin BusySlots(jobs)
    BY <1>1, <1>3, <1>4, <1>5, <1>6 DEF BusySlots
  <1>8. jobs'[next].edge = e /\ \A i \in BusySlots(jobs) : jobs'[i] = jobs[i]
    BY <1>1, <1>4, <1>5, <1>6, <1>7 DEF BusySlots
  <1>9. \A p \in Pools : Held(p) \in Nat /\ Held(p)' = Held(p)
    <2> SUFFICES ASSUME NEW p \in Pools PROVE Held(p) \in Nat /\ Held(p)' = Held(p)
      OBVIOUS
    <2> DEFINE R == Runs(jobs, p)
               c == Count(Tail(work), PoolEdges(p))
    <2>1. Count(work, PoolEdges(p)) = c + (IF e \in PoolEdges(p) THEN 1 ELSE 0)
      BY <1>2, CountPop DEF e
    <2>2. c \in Nat
      BY <1>3, SpotsFinite
    <2>3. Held(p)' = c + Cardinality(Runs(jobs', p)) /\ Held(p) = Count(work, PoolEdges(p)) + Cardinality(R)
      BY <1>1 DEF Held
    <2>4. IsFiniteSet(R) /\ Cardinality(R) \in Nat
      BY <1>0, RunsFinite DEF TypeOK, JobType
    <2>5. next \notin R
      BY <1>7 DEF Runs
    <2>6. CASE Pool[e] = p
      <3>1. e \in PoolEdges(p)
        BY <1>1, <1>3, <2>6, PoolTypes DEF PoolEdges, Pooled
      <3>2. Runs(jobs', p) = R \cup {next}
        BY <1>7, <1>8, <2>6 DEF Runs
      <3> HIDE DEF R, c
      <3>3. Cardinality(R \cup {next}) = Cardinality(R) + 1
        BY <2>4, <2>5, FS_AddElement
      <3>4. Cardinality(Runs(jobs', p)) = Cardinality(R) + 1
        BY <3>2, <3>3, Zenon
      <3> QED
        BY <2>1, <2>2, <2>3, <2>4, <3>1, <3>4
    <2>7. CASE Pool[e] # p
      <3>1. e \notin PoolEdges(p)
        BY <2>7 DEF PoolEdges
      <3>2. Runs(jobs', p) = R
        BY <1>7, <1>8, <2>7 DEF Runs
      <3> HIDE DEF R, c
      <3>3. Cardinality(Runs(jobs', p)) = Cardinality(R)
        BY <3>2, Zenon
      <3> QED
        BY <2>1, <2>2, <2>3, <2>4, <3>1, <3>3
    <2> QED
      BY <2>6, <2>7
  <1>10. \A p \in Pools : Held(p)' <= Held(p) /\ Slack(p)' = Slack(p)
    BY <1>1, <1>9 DEF Slack
  <1> QED
    BY <1>1, <1>2, <1>9, <1>10, FewerHeld

(* A finished job gives its slot of the pool to a waiting edge, or back.   *)
LEMMA DoneHeld ==
  ASSUME IInv, Waiting, Covered, JobDone
  PROVE  Waiting' /\ Covered' /\ \A p \in Pools : Slack(p)' = Slack(p)
  <1>0. TypeOK /\ revents \subseteq Busy
    BY DEF IInv, ScanInv
  <1>1. PICK i \in revents : ReleasePool(Pool[jobs[i].edge]) /\ jobs' = [jobs EXCEPT ![i] = FreeSlot(next)]
    BY DEF JobDone
  <1> DEFINE e == jobs[i].edge
             q == Pool[e]
  <1>2. /\ work \in Seq(Edges) /\ poolnum \in [Pools -> Int] /\ poolwork \in [Pools -> Seq(Edges)]
        /\ jobs \in Seq(SlotType)
    BY <1>0 DEF TypeOK, QueueType, JobType
  <1>3. i \in BusySlots(jobs)
    BY <1>0 DEF Busy
  <1>4. /\ BusySlots(jobs') = BusySlots(jobs) \ {i}
        /\ \A k \in BusySlots(jobs) : k # i => jobs'[k] = jobs[k]
    BY <1>1, <1>2, <1>3 DEF BusySlots, FreeSlot
  <1>5. \A p \in Pools : IF p = q THEN Cardinality(Runs(jobs', p)) = Cardinality(Runs(jobs, p)) - 1
                                  ELSE Cardinality(Runs(jobs', p)) = Cardinality(Runs(jobs, p))
    <2> SUFFICES ASSUME NEW p \in Pools
                 PROVE  IF p = q THEN Cardinality(Runs(jobs', p)) = Cardinality(Runs(jobs, p)) - 1
                                 ELSE Cardinality(Runs(jobs', p)) = Cardinality(Runs(jobs, p))
      OBVIOUS
    <2> DEFINE R == Runs(jobs, p)
    <2>1. IsFiniteSet(R)
      BY <1>2, RunsFinite
    <2>2. CASE p = q
      <3>1. Runs(jobs', p) = R \ {i} /\ i \in R
        BY <1>3, <1>4, <2>2 DEF Runs
      <3> HIDE DEF R
      <3>2. Cardinality(R \ {i}) = Cardinality(R) - 1
        BY <2>1, <3>1, FS_RemoveElement
      <3>3. Cardinality(Runs(jobs', p)) = Cardinality(R) - 1
        BY <3>1, <3>2, Zenon
      <3> QED
        BY <2>2, <3>3 DEF R
    <2>3. CASE p # q
      <3>1. Runs(jobs', p) = R
        BY <1>3, <1>4, <2>3 DEF Runs
      <3> QED
        BY <2>3, <3>1
    <2> QED
      BY <2>2, <2>3
  <1> HIDE DEF q, e
  <1>6. /\ Count(work', PoolEdges(q)) \in Nat
        /\ \A p \in Pools : /\ Held(p) \in Nat /\ Count(work, PoolEdges(p)) \in Nat /\ Cardinality(Runs(jobs, p)) \in Nat
                            /\ Depth[p] \in Nat /\ poolnum[p] \in Int
    <2>1. work' \in Seq(Edges)
      <3>1. QueueType'
        BY StepTypes DEF IInv, TypeOK, Next, Samu
      <3> QED
        BY <3>1 DEF QueueType
    <2> QED
      BY <1>0, <1>2, <2>1, HeldType, SpotsFinite, GraphAssumption DEF GraphAssumption
  <1>7. CASE q # NoPool /\ poolwork[q] # << >>
    <2>1. /\ work' = <<Head(poolwork[q])>> \o work
          /\ poolwork' = [poolwork EXCEPT ![q] = Tail(poolwork[q])] /\ poolnum' = poolnum
      BY <1>1, <1>7 DEF ReleasePool, q, e
    <2>2. q \in Pools
      <3>1. e \in Edges
        <4>1. i \in DOMAIN jobs /\ jobs[i].edge # NoEdge
          BY <1>3 DEF BusySlots
        <4>2. jobs[i] \in SlotType
          BY <1>2, <4>1
        <4> QED
          BY <4>1, <4>2 DEF e, SlotType
      <3> QED
        BY <1>7, <3>1, PoolTypes DEF q
    <2>3. poolwork[q] \in Seq(Edges)
      BY <1>2, <2>2
    <2> DEFINE h == Head(poolwork[q])
    <2>4. h \in PoolEdges(q) /\ h \in Edges
      <3>1. 1 \in DOMAIN poolwork[q] /\ h = poolwork[q][1]
        BY <1>7, <2>3, Popped
      <3> QED
        BY <2>2, <3>1 DEF Waiting, PoolEdges
    <2> HIDE DEF h
    <2>5. \A P : Count(<<h>> \o work, P) = Count(work, P) + (IF h \in P THEN 1 ELSE 0)
      BY <1>2, <2>4, CountPush
    <2>6. Covered' /\ \A p \in Pools : Slack(p)' = Slack(p)
      <3> SUFFICES ASSUME NEW p \in Pools
                   PROVE  Held(p)' <= poolnum'[p] /\ poolnum'[p] <= Depth[p] /\ Slack(p)' = Slack(p)
        BY DEF Covered
      <3>1. Held(p)' = Count(<<h>> \o work, PoolEdges(p)) + Cardinality(Runs(jobs', p))
        BY <2>1 DEF Held, h
      <3>2. Held(p)' = Held(p)
        <4>1. CASE p = q
          <5>1. Count(<<h>> \o work, PoolEdges(p)) = Count(work, PoolEdges(p)) + 1
            BY <2>4, <2>5, <4>1
          <5>2. Cardinality(Runs(jobs', p)) = Cardinality(Runs(jobs, p)) - 1
            BY <1>5, <4>1
          <5> QED
            BY <1>6, <3>1, <5>1, <5>2 DEF Held
        <4>2. CASE p # q
          <5>1. h \notin PoolEdges(p)
            BY <2>4, <4>2 DEF PoolEdges
          <5>2. Count(<<h>> \o work, PoolEdges(p)) = Count(work, PoolEdges(p))
            BY <1>6, <2>5, <5>1
          <5>3. Cardinality(Runs(jobs', p)) = Cardinality(Runs(jobs, p))
            BY <1>5, <4>2
          <5> QED
            BY <1>6, <3>1, <5>2, <5>3 DEF Held
        <4> QED
          BY <4>1, <4>2
      <3>3. Held(p)' \in Int
        <4>1. Cardinality(Runs(jobs', p)) \in Int
          BY <1>5, <1>6
        <4> QED
          BY <1>6, <2>5, <3>1, <4>1
      <3>4. Held(p) <= poolnum[p] /\ poolnum[p] <= Depth[p]
        BY DEF Covered
      <3> QED
        BY <1>6, <2>1, <3>2, <3>3, <3>4 DEF Slack
    <2>7. Waiting'
      <3> SUFFICES ASSUME NEW p \in Pools, NEW k \in DOMAIN poolwork'[p]
                   PROVE  poolwork'[p][k] \in PoolEdges(p)
        BY DEF Waiting
      <3>1. CASE p = q
        <4>1. poolwork'[p] = Tail(poolwork[p])
          BY <1>2, <2>1, <3>1
        <4>2. k + 1 \in DOMAIN poolwork[p] /\ poolwork'[p][k] = poolwork[p][k + 1]
          BY <1>7, <2>3, <3>1, <4>1, Popped
        <4> QED
          BY <4>2 DEF Waiting
      <3>2. CASE p # q
        <4>1. poolwork'[p] = poolwork[p]
          BY <1>2, <2>1, <3>2
        <4> QED
          BY <4>1 DEF Waiting
      <3> QED
        BY <3>1, <3>2
    <2> QED
      BY <2>6, <2>7
  <1>8. CASE q = NoPool \/ poolwork[q] = << >>
    <2>1. /\ work' = work /\ poolwork' = poolwork
          /\ IF q = NoPool THEN poolnum' = poolnum ELSE poolnum' = [poolnum EXCEPT ![q] = poolnum[q] - 1]
      BY <1>1, <1>8 DEF ReleasePool, q, e
    <2>2. \A p \in Pools : poolnum'[p] = IF p = q THEN poolnum[p] - 1 ELSE poolnum[p]
      BY <1>2, <2>1, PoolTypes
    <2>3. Covered' /\ \A p \in Pools : Slack(p)' = Slack(p)
      <3> SUFFICES ASSUME NEW p \in Pools
                   PROVE  Held(p)' <= poolnum'[p] /\ poolnum'[p] <= Depth[p] /\ Slack(p)' = Slack(p)
        BY DEF Covered
      <3>1. Held(p)' = Count(work, PoolEdges(p)) + Cardinality(Runs(jobs', p))
        BY <2>1 DEF Held
      <3>2. Held(p) <= poolnum[p] /\ poolnum[p] <= Depth[p] /\ Held(p) = Count(work, PoolEdges(p)) + Cardinality(Runs(jobs, p))
        BY DEF Covered, Held
      <3>3. CASE p = q
        <4>1. Cardinality(Runs(jobs', p)) = Cardinality(Runs(jobs, p)) - 1 /\ poolnum'[p] = poolnum[p] - 1
          BY <1>5, <2>2, <3>3
        <4> QED
          BY <1>6, <3>1, <3>2, <4>1 DEF Slack
      <3>4. CASE p # q
        <4>1. Cardinality(Runs(jobs', p)) = Cardinality(Runs(jobs, p)) /\ poolnum'[p] = poolnum[p]
          BY <1>5, <2>2, <3>4
        <4> QED
          BY <3>1, <3>2, <4>1 DEF Slack
      <3> QED
        BY <3>3, <3>4
    <2>4. Waiting'
      BY <2>1 DEF Waiting
    <2> QED
      BY <2>3, <2>4
  <1> QED
    BY <1>7, <1>8


-----------------------------------------------------------------------------
(* The steps *)

(* Between two builds: nothing that matters changes. *)
LEMMA BetweenSame ==
  ASSUME Between, UNCHANGED <<pc, todo, work, ntotal>>, Busy' = Busy
  PROVE  Between'
  BY DEF Between

(* In the middle of a build Between says nothing. *)
LEMMA BetweenBuilds ==
  ASSUME pc' \notin {"add", "return"}
  PROVE  Between'
  BY DEF Between

LEMMA JobsSame ==
  ASSUME jobs' = jobs
  PROVE  Busy' = Busy /\ \A p \in Pools : Runs(jobs', p) = Runs(jobs, p)
  BY DEF Busy

LEMMA AddPool ==
  ASSUME TypeOK, PoolInv, AddTarget \/ AddInput \/ AddFinish
  PROVE  PoolInv'
  <1>0. Waiting /\ Covered /\ Between
    BY DEF PoolInv
  <1>1. pc = "add" /\ todo' = todo /\ jobs' = jobs
    BY DEF AddTarget, AddInput, AddFinish, jobVars
  <1>2. Busy' = Busy /\ \A p \in Pools : Runs(jobs', p) = Runs(jobs, p)
    BY <1>1, JobsSame
  <1>3. CASE AddTarget \/ AddInput
    <2>1. UNCHANGED <<queueVars, countVars>>
      BY <1>3 DEF AddTarget, AddInput
    <2>2. pc' = pc \/ pc' = "exit"
      <3>1. \E n, rest : Enter(n, rest)
        BY <1>3 DEF AddTarget, AddInput
      <3> QED
        BY <3>1 DEF Enter, Fatal, mainVars
    <2>3. Waiting' /\ Covered'
      BY <1>0, <1>2, <2>1, PoolSame
    <2>4. UNCHANGED <<work, ntotal>>
      BY <2>1 DEF queueVars, countVars
    <2>5. Between'
      BY <1>0, <1>1, <1>2, <2>2, <2>4 DEF Between
    <2> QED
      BY <2>3, <2>5 DEF PoolInv
  <1>4. CASE AddFinish
    <2> DEFINE e == Head(adding).edge
    <2>1. e \in Edges
      <3>1. adding \in Seq(AddFrame) /\ adding # << >>
        BY <1>4 DEF TypeOK, AddType, AddFinish
      <3>2. Head(adding) \in AddFrame
        BY <3>1, Pop
      <3> QED
        BY <3>2 DEF AddFrame
    <2>2. /\ \/ queue(e) /\ (e \in Phony => ntotal' = ntotal) /\ (e \notin Phony => ntotal' = ntotal + 1)
             \/ UNCHANGED queueVars /\ (ntotal' = ntotal \/ ntotal' = ntotal + 1)
          /\ pc' = pc
      <3> DEFINE dirtyin == \E n \in Essential(e) : dirty[n]
                 dirtyout == \/ "DIRTY_OUT" \in flags[e]
                             \/ \E n \in Members(Out[e]) :
                                   isdirty(e, mtime[n], logmtime[n], samehash[n], mtime)
                 fl == (flags[e] \ {"CYCLE"}) \cup (IF dirtyin THEN {"DIRTY_IN"} ELSE {})
                                              \cup (IF dirtyout THEN {"DIRTY_OUT"} ELSE {})
                 blocked == Cardinality({i \in DOMAIN In[e] : Blocks(In[e][i])})
      <3>1. /\ IF Dirty(fl) /\ blocked = 0 THEN queue(e) ELSE UNCHANGED queueVars
            /\ ntotal' = IF Dirty(fl) /\ e \notin Phony THEN ntotal + 1 ELSE ntotal
            /\ pc' = pc
        BY <1>4 DEF AddFinish, mainVars
      <3> HIDE DEF e, fl, blocked
      <3> QED
        BY <3>1
    <2> HIDE DEF e
    <2>3. ntotal \in Int /\ Count(work, Edges \ Phony) \in Nat /\ Count(work, Edges \ Phony) <= ntotal
      BY <1>0, <1>1, SpotsFinite DEF TypeOK, QueueType, CountType, Between
    <2>4. CASE queue(e) /\ (e \in Phony => ntotal' = ntotal) /\ (e \notin Phony => ntotal' = ntotal + 1)
      <3>1. /\ Waiting' /\ Covered'
            /\ Count(work', Edges \ Phony) <=
                  Count(work, Edges \ Phony) + (IF e \in Phony THEN 0 ELSE 1)
        BY <1>0, <1>1, <2>1, <2>4, QueueCovered
      <3>2. Count(work', Edges \ Phony) \in Nat
        <4>1. QueueType'
          BY <2>1, <2>4, QueueKeepsType
        <4> QED
          BY <4>1, SpotsFinite DEF QueueType
      <3>3. Count(work', Edges \ Phony) <= ntotal'
        <4>1. CASE e \in Phony
          BY <2>3, <2>4, <3>1, <3>2, <4>1
        <4>2. CASE e \notin Phony
          BY <2>3, <2>4, <3>1, <3>2, <4>2
        <4> QED
          BY <4>1, <4>2
      <3>4. Between'
        BY <1>0, <1>1, <1>2, <2>2, <3>3 DEF Between
      <3> QED
        BY <3>1, <3>4 DEF PoolInv
    <2>5. CASE UNCHANGED queueVars /\ (ntotal' = ntotal \/ ntotal' = ntotal + 1)
      <3>1. Waiting' /\ Covered'
        BY <1>0, <1>2, <2>5, PoolSame
      <3>2. Count(work', Edges \ Phony) <= ntotal'
        <4>1. work' = work
          BY <2>5 DEF queueVars
        <4>2. Count(work', Edges \ Phony) = Count(work, Edges \ Phony)
          BY <4>1
        <4> QED
          BY <2>3, <2>5, <4>2
      <3>3. Between'
        BY <1>0, <1>1, <1>2, <2>2, <3>2 DEF Between
      <3> QED
        BY <3>1, <3>3 DEF PoolInv
    <2> QED
      BY <2>2, <2>4, <2>5
  <1> QED
    BY <1>3, <1>4

LEMMA MainPool ==
  ASSUME TypeOK, PoolInv,
         ManifestClean \/ BuildBegin \/ Finished \/ ManifestRetry \/ ManifestPruned
  PROVE  PoolInv'
  <1>0. Waiting /\ Covered /\ Between
    BY DEF PoolInv
  <1>t. work \in Seq(Edges) /\ poolnum \in [Pools -> Int] /\ ntotal \in Int /\ jobs \in Seq(SlotType)
    BY DEF TypeOK, QueueType, CountType, JobType
  <1>1. CASE ManifestClean
    <2>1. UNCHANGED <<queueVars, countVars, jobVars, todo, pc>>
      BY <1>1 DEF ManifestClean
    <2>2. UNCHANGED <<work, ntotal, jobs>>
      BY <2>1 DEF queueVars, countVars, jobVars
    <2>3. Busy' = Busy /\ \A p \in Pools : Runs(jobs', p) = Runs(jobs, p)
      BY <2>2, JobsSame
    <2> QED
      BY <1>0, <2>1, <2>2, <2>3, PoolSame, BetweenSame DEF PoolInv
  <1>2. CASE BuildBegin
    <2>1. /\ pc = "add" /\ pc' = (IF ntotal = 0 THEN "return" ELSE "start") /\ jobs' = << >>
          /\ UNCHANGED <<queueVars, ntotal, todo>>
      BY <1>2 DEF BuildBegin
    <2>2. UNCHANGED <<work, poolwork, poolnum>>
      BY <2>1 DEF queueVars
    <2>3. BusySlots(jobs) = {} /\ BusySlots(jobs') = {}
      BY <1>0, <2>1 DEF Between, Busy, BusySlots
    <2>4. \A p \in Pools : Runs(jobs', p) = Runs(jobs, p)
      BY <2>3 DEF Runs
    <2>5. Waiting' /\ Covered'
      BY <1>0, <2>1, <2>4, PoolSame
    <2>6. ntotal = 0 => Spots(work, Edges \ Phony) = {}
      <3>1. IsFiniteSet(Spots(work, Edges \ Phony)) /\ Count(work, Edges \ Phony) \in Nat
        BY <1>t, SpotsFinite
      <3>2. Count(work, Edges \ Phony) <= ntotal
        BY <1>0, <2>1 DEF Between
      <3> QED
        BY <3>1, <3>2, FS_EmptySet DEF Count
    <2>7. Between'
      BY <1>0, <2>1, <2>2, <2>3, <2>6 DEF Between, Busy
    <2> QED
      BY <2>5, <2>7 DEF PoolInv
  <1>3. CASE Finished
    <2>1. UNCHANGED <<queueVars, jobVars>> /\ pc' = "exit"
      BY <1>3 DEF Finished
    <2>2. \A p \in Pools : Runs(jobs', p) = Runs(jobs, p)
      BY <2>1, JobsSame DEF jobVars
    <2> QED
      BY <1>0, <2>1, <2>2, PoolSame, BetweenBuilds DEF PoolInv
  <1>4. CASE ManifestRetry
    <2>1. /\ pc = "return" /\ UNCHANGED <<work, countVars, jobVars, todo>>
          /\ \/ pc' = "exit" /\ UNCHANGED <<poolwork, poolnum>>
             \/ pc' = "add" /\ FreshGraph
      BY <1>4 DEF ManifestRetry
    <2>2. jobs' = jobs /\ ntotal' = ntotal
      BY <2>1 DEF jobVars, countVars
    <2>3. Busy' = Busy /\ \A p \in Pools : Runs(jobs', p) = Runs(jobs, p)
      BY <2>2, JobsSame
    <2>4. CASE pc' = "exit" /\ UNCHANGED <<poolwork, poolnum>>
      <3>1. UNCHANGED queueVars
        BY <2>1, <2>4 DEF queueVars
      <3> QED
        BY <1>0, <2>3, <2>4, <3>1, PoolSame, BetweenBuilds DEF PoolInv
    <2>5. CASE pc' = "add" /\ FreshGraph
      <3>1. /\ Busy = {} /\ todo = << >> /\ Spots(work, Edges \ Phony) = {} /\ ntotal = 0
        BY <1>0, <2>1 DEF Between
      <3>2. /\ poolwork' = [p \in Pools |-> << >>] /\ poolnum' = [p \in Pools |-> 0]
        BY <2>5 DEF FreshGraph
      <3>3. Waiting'
        BY <3>2 DEF Waiting
      <3>4. Covered'
        <4> SUFFICES ASSUME NEW p \in Pools PROVE Held(p)' <= poolnum'[p] /\ poolnum'[p] <= Depth[p]
          BY DEF Covered
        <4>1. Count(work, PoolEdges(p)) = 0
          BY <1>t, <3>1, PoolCount
        <4>2. Cardinality(Runs(jobs, p)) = 0
          BY <3>1, NoRuns DEF Busy
        <4>3. Held(p)' = 0
          <5>1. Held(p)' = Count(work, PoolEdges(p)) + Cardinality(Runs(jobs, p))
            BY <2>1, <2>2 DEF Held
          <5> QED
            BY <4>1, <4>2, <5>1
        <4>4. Depth[p] \in Nat
          BY GraphAssumption DEF GraphAssumption
        <4> QED
          BY <3>2, <4>3, <4>4
      <3>5. Count(work', Edges \ Phony) <= ntotal'
        <4>1. Count(work, Edges \ Phony) = 0
          BY <3>1, FS_EmptySet DEF Count
        <4> QED
          BY <2>1, <2>2, <3>1, <4>1
      <3>6. Between'
        BY <2>1, <2>3, <2>5, <3>1, <3>5 DEF Between
      <3> QED
        BY <3>3, <3>4, <3>6 DEF PoolInv
    <2> QED
      BY <2>1, <2>4, <2>5
  <1>5. CASE ManifestPruned
    <2>1. pc = "return" /\ pc' = "add" /\ UNCHANGED <<queueVars, countVars, jobVars, todo>>
      BY <1>5 DEF ManifestPruned
    <2>2. UNCHANGED <<work, ntotal, jobs>>
      BY <2>1 DEF queueVars, countVars, jobVars
    <2>3. Busy' = Busy /\ \A p \in Pools : Runs(jobs', p) = Runs(jobs, p)
      BY <2>2, JobsSame
    <2>4. Count(work', Edges \ Phony) <= ntotal'
      <3>1. Spots(work, Edges \ Phony) = {} /\ ntotal = 0
        BY <1>0, <2>1 DEF Between
      <3>2. Count(work, Edges \ Phony) = 0
        BY <3>1, FS_EmptySet DEF Count
      <3> QED
        BY <2>2, <3>1, <3>2
    <2>5. Between'
      BY <1>0, <2>1, <2>3, <2>4 DEF Between
    <2> QED
      BY <1>0, <2>1, <2>3, <2>5, PoolSame DEF PoolInv
  <1> QED
    BY <1>1, <1>2, <1>3, <1>4, <1>5

LEMMA BuildPool ==
  ASSUME IInv, PoolInv,
         StartNothing \/ StartJob \/ StartFails \/ BuildEnd \/ WaitForJobs \/ Poll \/ JobDone \/ ScanEnd
  PROVE  PoolInv'
  <1>0. Waiting /\ Covered /\ Between /\ TypeOK /\ SlotsSound
    BY DEF PoolInv, IInv
  <1>t. work \in Seq(Edges) /\ jobs \in Seq(SlotType)
    BY <1>0 DEF TypeOK, QueueType, JobType
  <1>1. CASE StartNothing
    <2>1. /\ pc' = "start" /\ work # << >> /\ work' = Tail(work) /\ UNCHANGED <<poolwork, poolnum, jobVars>>
      BY <1>1 DEF StartNothing, MayStart, mainVars
    <2>2. \A p \in Pools : Runs(jobs', p) = Runs(jobs, p)
      BY <2>1, JobsSame DEF jobVars
    <2> QED
      BY <1>0, <2>1, <2>2, DropHead, BetweenBuilds DEF PoolInv
  <1>2. CASE StartJob
    <2>1. pc' = "start"
      BY <1>2 DEF StartJob, MayStart, mainVars
    <2> QED
      BY <1>0, <1>2, <2>1, StartHeld, BetweenBuilds DEF PoolInv
  <1>3. CASE StartFails
    <2>1. /\ pc' = "start" /\ work # << >> /\ work' = Tail(work) /\ UNCHANGED <<poolwork, poolnum>>
          /\ jobs' = Slots /\ numjobs < MaxJobs
      BY <1>3 DEF StartFails, MayStart, mainVars
    <2>2. \A p \in Pools : Runs(jobs', p) = Runs(jobs, p)
      BY <1>0, <2>1, SlotsRuns DEF Runs
    <2> QED
      BY <1>0, <2>1, <2>2, DropHead, BetweenBuilds DEF PoolInv
  <1>4. CASE BuildEnd
    <2>1. /\ Stalled /\ numjobs = 0 /\ UNCHANGED <<queueVars, jobVars, todo>>
          /\ pc' = "exit" \/ (numfail = 0 /\ pc' = "return" /\ ntotal' = 0)
      BY <1>4 DEF BuildEnd, Fatal
    <2>2. Busy' = Busy /\ \A p \in Pools : Runs(jobs', p) = Runs(jobs, p)
      BY <2>1, JobsSame DEF jobVars
    <2>3. Waiting' /\ Covered'
      BY <1>0, <2>1, <2>2, PoolSame
    <2>4. CASE numfail = 0 /\ pc' = "return" /\ ntotal' = 0
      <3>1. Busy = {}
        <4>1. IsFiniteSet(Busy)
          <5>1. DOMAIN jobs = 1..Len(jobs) /\ Len(jobs) \in Nat
            BY <1>t
          <5>2. IsFiniteSet(DOMAIN jobs)
            BY <5>1, FS_Interval
          <5> QED
            BY <5>2, FS_Subset DEF Busy, BusySlots
        <4>2. Cardinality(Busy) = 0
          BY <1>0, <2>1 DEF SlotsSound, Sound, Busy
        <4> QED
          BY <4>1, <4>2, FS_EmptySet
      <3>2. work = << >> /\ todo = << >>
        <4>1. MaxJobs \in Nat \ {0} /\ MaxFail \in Nat \ {0}
          BY BuildAssumption DEF BuildAssumption
        <4>2. ~(numjobs >= MaxJobs) /\ ~(numfail >= MaxFail)
          BY <2>1, <2>4, <4>1
        <4> QED
          BY <2>1, <4>2 DEF Stalled
      <3>3. work' = << >> /\ todo' = << >> /\ Busy' = {}
        BY <2>1, <2>2, <3>1, <3>2 DEF queueVars
      <3>4. Spots(work', Edges \ Phony) = {}
        BY <3>3 DEF Spots
      <3> QED
        BY <2>3, <2>4, <3>3, <3>4 DEF PoolInv, Between
    <2>5. CASE pc' = "exit"
      BY <2>3, <2>5, BetweenBuilds DEF PoolInv
    <2> QED
      BY <2>1, <2>4, <2>5
  <1>5. CASE WaitForJobs \/ Poll \/ ScanEnd
    <2>1. jobs' = jobs /\ UNCHANGED queueVars /\ pc' \in {"poll", "scan", "start"}
      BY <1>5 DEF WaitForJobs, Poll, ScanEnd, jobVars
    <2>2. \A p \in Pools : Runs(jobs', p) = Runs(jobs, p)
      BY <2>1, JobsSame
    <2> QED
      BY <1>0, <2>1, <2>2, PoolSame, BetweenBuilds DEF PoolInv
  <1>6. CASE JobDone
    <2>1. pc' = "scan"
      BY <1>6 DEF JobDone, mainVars
    <2> QED
      BY <1>0, <1>6, <2>1, DoneHeld, BetweenBuilds DEF PoolInv
  <1> QED
    BY <1>1, <1>2, <1>3, <1>4, <1>5, <1>6

LEMMA DonePool ==
  ASSUME TypeOK, PoolInv, Prune \/ Unblock \/ SkipUser \/ NodeDone
  PROVE  PoolInv'
  <1>0. Waiting /\ Covered /\ Between
    BY DEF PoolInv
  <1>1. todo # << >> /\ jobs' = jobs /\ pc' = pc
    BY DEF Prune, Unblock, SkipUser, NodeDone, AtUser, jobVars, mainVars
  <1>2. pc' \notin {"add", "return"}
    BY <1>0, <1>1 DEF Between
  <1>3. \A p \in Pools : Runs(jobs', p) = Runs(jobs, p)
    BY <1>1, JobsSame
  <1>4. UNCHANGED queueVars \/ (queue(User) /\ User \in Edges)
    <2>1. CASE Unblock
      <3>1. AtUser
        BY <2>1 DEF Unblock
      <3>2. todo \in Seq(FrameType)
        BY DEF TypeOK, TodoType
      <3>3. top \in FrameType
        BY <1>1, <3>2, Pop DEF top
      <3>4. top.node \in Nodes /\ top.use \in Nat \ {0} /\ top.use <= Len(Use[top.node])
        BY <3>1, <3>3 DEF FrameType, AtUser
      <3>5. User \in Edges
        BY <3>4, GraphTypes DEF User
      <3> QED
        BY <2>1, <3>5 DEF Unblock
    <2>2. CASE Prune \/ SkipUser \/ NodeDone
      BY <2>2 DEF Prune, SkipUser, NodeDone
    <2> QED
      BY <2>1, <2>2
  <1>5. Waiting' /\ Covered'
    BY <1>0, <1>1, <1>3, <1>4, PoolSame, QueueCovered
  <1> QED
    BY <1>2, <1>5, BetweenBuilds DEF PoolInv

(* A command changes the state of its own slot only, and not its edge.     *)
LEMMA CommandEdges ==
  ASSUME TypeOK, Commands
  PROVE  /\ DOMAIN jobs' = DOMAIN jobs /\ \A k \in DOMAIN jobs : jobs'[k].edge = jobs[k].edge
         /\ BusySlots(jobs') = BusySlots(jobs)
         /\ UNCHANGED <<nodeVars, edgeVars, queueVars, countVars, addVars, mainVars, todo, histVars>>
  <1>0. jobs \in Seq(SlotType)
    BY DEF TypeOK, JobType
  <1>1. PICK i \in Busy : PipeCloses(i) \/ \E x \in {"ok", "fail"} : CommandExits(i, x)
    BY DEF Commands
  <1>2. UNCHANGED <<nodeVars, edgeVars, queueVars, countVars, addVars, mainVars, todo, histVars>>
    BY <1>1 DEF PipeCloses, CommandExits
  <1>3. i \in DOMAIN jobs /\ jobs[i] \in SlotType
    BY <1>0 DEF Busy, BusySlots
  <1>4. DOMAIN jobs' = DOMAIN jobs /\ \A k \in DOMAIN jobs : jobs'[k].edge = jobs[k].edge
    <2>1. CASE PipeCloses(i)
      <3>1. jobs' = [jobs EXCEPT ![i] = [jobs[i] EXCEPT !.pipe = "eof"]]
        BY <2>1 DEF PipeCloses
      <3>2. [jobs[i] EXCEPT !.pipe = "eof"].edge = jobs[i].edge
        BY <1>3 DEF SlotType
      <3> QED
        BY <1>0, <1>3, <3>1, <3>2
    <2>2. ASSUME NEW x \in {"ok", "fail"}, CommandExits(i, x)
          PROVE  DOMAIN jobs' = DOMAIN jobs /\ \A k \in DOMAIN jobs : jobs'[k].edge = jobs[k].edge
      <3>1. jobs' = [jobs EXCEPT ![i] = [jobs[i] EXCEPT !.proc = x]]
        BY <2>2 DEF CommandExits
      <3>2. [jobs[i] EXCEPT !.proc = x].edge = jobs[i].edge
        BY <1>3 DEF SlotType
      <3> QED
        BY <1>0, <1>3, <3>1, <3>2
    <2> QED
      BY <1>1, <2>1, <2>2
  <1>5. BusySlots(jobs') = BusySlots(jobs)
    BY <1>4 DEF BusySlots
  <1> QED
    BY <1>2, <1>4, <1>5

LEMMA CommandPool ==
  ASSUME TypeOK, PoolInv, Commands
  PROVE  PoolInv'
  <1>0. Waiting /\ Covered /\ Between /\ jobs \in Seq(SlotType)
    BY DEF PoolInv, TypeOK, JobType
  <1>4. DOMAIN jobs' = DOMAIN jobs /\ \A k \in DOMAIN jobs : jobs'[k].edge = jobs[k].edge
    BY CommandEdges
  <1>5. BusySlots(jobs') = BusySlots(jobs) /\ UNCHANGED <<queueVars, countVars, mainVars, todo>>
    BY CommandEdges
  <1>6. \A p \in Pools : Runs(jobs', p) = Runs(jobs, p)
    BY <1>4, <1>5 DEF Runs, BusySlots
  <1>7. Waiting' /\ Covered'
    BY <1>0, <1>5, <1>6, PoolSame
  <1>8. Between'
    BY <1>0, <1>5, BetweenSame DEF queueVars, countVars, mainVars, Busy
  <1> QED
    BY <1>7, <1>8 DEF PoolInv

LEMMA PoolStep == IInv /\ PoolInv /\ [Next]_vars => PoolInv'
  <1> SUFFICES ASSUME IInv, PoolInv, [Next]_vars PROVE PoolInv'
    OBVIOUS
  <1>0. TypeOK /\ Waiting /\ Covered /\ Between
    BY DEF IInv, PoolInv
  <1>1. CASE UNCHANGED vars
    <2>1. UNCHANGED <<queueVars, jobs, pc, todo, work, ntotal>>
      BY <1>1 DEF vars, jobVars, mainVars, queueVars, countVars
    <2>2. Busy' = Busy /\ \A p \in Pools : Runs(jobs', p) = Runs(jobs, p)
      BY <2>1, JobsSame
    <2> QED
      BY <1>0, <2>1, <2>2, PoolSame, BetweenSame DEF PoolInv
  <1> QED
    BY <1>0, <1>1, AddPool, MainPool, BuildPool, DonePool, CommandPool DEF Next, Samu, Exited

LEMMA PoolInit == Init => PoolInv
  <1> SUFFICES ASSUME Init PROVE PoolInv
    OBVIOUS
  <1>1. /\ work = << >> /\ poolwork = [p \in Pools |-> << >>] /\ poolnum = [p \in Pools |-> 0]
        /\ jobs = << >> /\ todo = << >> /\ ntotal = 0 /\ pc = "add"
    BY DEF Init
  <1>2. BusySlots(jobs) = {}
    BY <1>1 DEF BusySlots
  <1>3. Waiting
    BY <1>1 DEF Waiting
  <1>4. Covered
    <2> SUFFICES ASSUME NEW p \in Pools PROVE Held(p) <= poolnum[p] /\ poolnum[p] <= Depth[p]
      BY DEF Covered
    <2>1. Count(work, PoolEdges(p)) = 0
      BY <1>1, CountEmpty
    <2>2. Cardinality(Runs(jobs, p)) = 0
      BY <1>2, NoRuns
    <2>3. Depth[p] \in Nat
      BY GraphAssumption DEF GraphAssumption
    <2> QED
      BY <1>1, <2>1, <2>2, <2>3 DEF Held
  <1>5. Between
    BY <1>1, <1>2, CountEmpty DEF Between, Busy
  <1> QED
    BY <1>3, <1>4, <1>5 DEF PoolInv

(* There are at most as many holders of a pool's slots as positions that   *)
(* hold one.                                                               *)
LEMMA HoldersCounted ==
  ASSUME TypeOK, NEW p \in Pools
  PROVE  Cardinality(Holders(p)) \in Nat /\ Cardinality(Holders(p)) <= Held(p)
  <1> DEFINE A == Spots(work, PoolEdges(p))
             B == Runs(jobs, p)
             X == {e \in Edges : Pooled(e) /\ Pool[e] = p /\ e \in Members(work)}
             Y == {jobs[i].edge : i \in {i \in Busy : Pool[jobs[i].edge] = p}}
             f == [i \in A |-> work[i]]
             g == [i \in B |-> jobs[i].edge]
  <1>1. IsFiniteSet(A) /\ Cardinality(A) \in Nat /\ IsFiniteSet(B) /\ Cardinality(B) \in Nat
    BY SpotsFinite, RunsFinite DEF TypeOK, QueueType, JobType, Count
  <1>2. f \in Surjection(A, X)
    <2>1. f \in [A -> X]
      BY DEF Spots, PoolEdges, Members
    <2>2. \A x \in X : \E i \in A : f[i] = x
      BY DEF Spots, PoolEdges, Members
    <2> QED
      BY <2>1, <2>2, Fun_IsSurj
  <1>3. g \in Surjection(B, Y)
    <2>1. g \in [B -> Y]
      BY DEF Runs, Busy
    <2>2. \A y \in Y : \E i \in B : g[i] = y
      BY DEF Runs, Busy
    <2> QED
      BY <2>1, <2>2, Fun_IsSurj
  <1>4. Holders(p) = X \cup Y
    BY DEF Holders
  <1>5. Held(p) = Cardinality(A) + Cardinality(B)
    BY DEF Held, Count
  <1> HIDE DEF A, B, X, Y, f, g
  <1>6. IsFiniteSet(X) /\ Cardinality(X) <= Cardinality(A) /\ Cardinality(X) \in Nat
    BY <1>1, <1>2, FS_Surjection, FS_CardinalityType
  <1>7. IsFiniteSet(Y) /\ Cardinality(Y) <= Cardinality(B) /\ Cardinality(Y) \in Nat
    BY <1>1, <1>3, FS_Surjection, FS_CardinalityType
  <1>8. /\ IsFiniteSet(X \cup Y) /\ Cardinality(X \cap Y) \in Nat
        /\ Cardinality(X \cup Y) = Cardinality(X) + Cardinality(Y) - Cardinality(X \cap Y)
    <2>1. IsFiniteSet(X \cap Y)
      BY <1>6, FS_Subset
    <2> QED
      BY <1>6, <1>7, <2>1, FS_Union, FS_CardinalityType
  <1>9. Cardinality(X \cup Y) \in Nat
    BY <1>8, FS_CardinalityType
  <1>10. Cardinality(X \cup Y) <= Cardinality(A) + Cardinality(B)
    BY <1>1, <1>6, <1>7, <1>8
  <1> QED
    BY <1>4, <1>5, <1>9, <1>10

(* However deep the pools are, whatever fails and in whatever order the    *)
(* commands end, never more commands of a pool are ready to run or running *)
(* than its counter says, and the counter never exceeds the pool's depth:  *)
(* the console pool runs one command at a time.                            *)
THEOREM PoolsRespected == Spec => []PoolDepth
  <1>1. IInv /\ PoolInv => PoolDepth
    <2> SUFFICES ASSUME IInv, PoolInv, NEW p \in Pools
                 PROVE  Cardinality(Holders(p)) <= poolnum[p] /\ poolnum[p] <= Depth[p]
      BY DEF PoolDepth
    <2>1. TypeOK /\ poolnum[p] \in Int
      BY DEF IInv, TypeOK, QueueType
    <2>2. Held(p) <= poolnum[p] /\ poolnum[p] <= Depth[p]
      BY DEF PoolInv, Covered
    <2>3. Cardinality(Holders(p)) \in Nat /\ Cardinality(Holders(p)) <= Held(p) /\ Held(p) \in Nat
      BY <2>1, HoldersCounted, HeldType
    <2> QED
      BY <2>1, <2>2, <2>3
  <1> QED
    BY PoolInit, PoolStep, Invariant, <1>1, PTL DEF Spec
=============================================================================
