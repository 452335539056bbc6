------------------------ MODULE SamuProgressProofs ------------------------
(***************************************************************************)
(* build() makes progress: an edge that is ready is on a queue, a queue of *)
(* a pool has edges only while the pool is full, and the counters of       *)
(* started and planned jobs are exact.  So build() stops only when every   *)
(* edge is settled or lies above one that failed.                          *)
(*                                                                         *)
(* The order of the build is SamuOrderProofs'; like there, the manifest is *)
(* not itself built.  A dry run is excluded: it takes slots of the pools   *)
(* that it never gives back (build(), jobdone()).                          *)
(***************************************************************************)
EXTENDS SamuOrderProofs, NaturalsInduction, WellFoundedInduction

(* A job that could not be started keeps its slot of the pool (build()     *)
(* counts it as failed without jobdone()); otherwise the counters of the   *)
(* pools are exact.                                                        *)
Leaked == SpawnFails /\ numfail > 0
SlotsKept == ~Leaked => \A p \in Pools : Slack(p) = 0

(* Edges wait for a slot of their pool only while it is full. *)
Waits == \A p \in Pools : poolwork[p] # << >> => Full(p)

(* An edge that is ready is on a queue, a running one has a job. *)
Queue == Members(work) \cup UNION {Members(poolwork[p]) : p \in Pools}
Queued == IdleEdges \subseteq Queue
Running == \A e \in Edges : result[e] = "running" => \E i \in Busy : jobs[i].edge = e

Failed ==
    /\ numfail = 0 => \A e \in Edges : result[e] # "failed"
    /\ pc = "add" => numfail = 0

(* Only edges that are out of date are run: for another one nprune runs    *)
(* down together with nblock, and prunes it.                               *)
Pruning(e) ==
    /\ result[e] # "none" => Dirty(flags[e])
    /\ ~Settled(e) /\ result[e] = "none" /\ ~Dirty(flags[e]) => nprune[e] = nblock[e]

(* ntotal counts the commands to run, those of pruned edges subtracted;    *)
(* nstarted those that were started.                                       *)
Planned == {e \in Through \ Phony : Dirty(flags[e]) /\ (Settled(e) => result[e] # "none")}
Started == {e \in Through \ Phony : result[e] # "none"}
Progress ==
    /\ IsFiniteSet(Through)
    /\ ntotal = Cardinality(Planned)
    /\ pc # "add" => nstarted = Cardinality(Started)

Working ==
    /\ SlotsKept /\ Waits /\ Queued /\ Running /\ Failed /\ Progress
    /\ \A e \in Through : Pruning(e)

(* The inductive invariant: build() has returned, or is still to do so.    *)
ProgressInv ==
    IF pc \in {"return", "exit"}
    THEN ~SpawnFails => BlockedByCapacity /\ KeepsGoing
    ELSE Working

-----------------------------------------------------------------------------
(* What is left alone *)

(* The queues and the pools *)
LEMMA PoolsSame ==
  ASSUME SlotsKept, Waits, Queued, IdleEdges' \subseteq IdleEdges, Leaked => Leaked',
         UNCHANGED queueVars, \A p \in Pools : Runs(jobs', p) = Runs(jobs, p)
  PROVE  SlotsKept' /\ Waits' /\ Queued'
  <1>1. UNCHANGED <<work, poolwork, poolnum>>
    BY DEF queueVars
  <1>2. SlotsKept'
    BY <1>1 DEF SlotsKept, Slack, Held
  <1>3. Waits'
    BY <1>1 DEF Waits, Full
  <1>4. Queued'
    BY <1>1 DEF Queued, Queue
  <1> QED
    BY <1>2, <1>3, <1>4

(* Settled edges are finitely many, and so are the others that are through. *)
LEMMA CountersFinite ==
  ASSUME IsFiniteSet(Through)
  PROVE  /\ IsFiniteSet(Planned) /\ Cardinality(Planned) \in Nat
         /\ IsFiniteSet(Started) /\ Cardinality(Started) \in Nat
  <1>1. Planned \subseteq Through /\ Started \subseteq Through
    BY DEF Planned, Started
  <1> QED
    BY <1>1, FS_Subset, FS_CardinalityType

(* Nothing changes for the edges that are through, and no job ends or      *)
(* begins.                                                                 *)
LEMMA WorkingSame ==
  ASSUME Working, Through' = Through,
         \A e \in Through : flags'[e] = flags[e] /\ nblock'[e] = nblock[e] /\ nprune'[e] = nprune[e],
         UNCHANGED <<result, queueVars, ntotal, numfail>>, pc' = "add" => pc = "add",
         pc' # "add" => nstarted' = Cardinality(Started),
         BusySlots(jobs') = BusySlots(jobs), \A i \in Busy : jobs'[i].edge = jobs[i].edge
  PROVE  Working'
  <1>1. \A e \in Edges : (Settled(e)' <=> Settled(e))
    <2> SUFFICES ASSUME NEW e \in Edges PROVE Settled(e)' <=> Settled(e)
      OBVIOUS
    <2>1. CASE e \in Through
      BY <2>1 DEF Settled, Seen, OnStack
    <2>2. CASE e \notin Through
      <3>1. e \notin Through'
        BY <2>2
      <3>2. ~Settled(e)
        BY <2>2 DEF Settled, Seen, OnStack, Through
      <3>3. ~Settled(e)'
        BY <3>1 DEF Settled, Seen, OnStack, Through
      <3> QED
        BY <3>2, <3>3
    <2> QED
      BY <2>1, <2>2
  <1>2. SlotsKept' /\ Waits' /\ Queued'
    <2>1. IdleEdges' \subseteq IdleEdges
      BY <1>1 DEF IdleEdges, Idle
    <2>2. \A p \in Pools : Runs(jobs', p) = Runs(jobs, p)
      BY DEF Runs, Busy
    <2> QED
      BY <2>1, <2>2, PoolsSame DEF Working, Leaked
  <1>3. Running'
    BY DEF Working, Running, Busy
  <1>4. Failed'
    BY DEF Working, Failed
  <1>5. Progress'
    <2>1. Planned' = Planned
      BY <1>1 DEF Planned, Through
    <2>2. Started' = Started
      BY DEF Started
    <2> QED
      BY <2>1, <2>2 DEF Working, Progress
  <1>6. \A e \in Through' : Pruning(e)'
    BY <1>1 DEF Working, Pruning, Through
  <1> QED
    BY <1>2, <1>3, <1>4, <1>5, <1>6 DEF Working

-----------------------------------------------------------------------------
(* The queues *)

LEMMA PushMembers ==
  ASSUME NEW x \in Edges, NEW s \in Seq(Edges)
  PROVE  Members(<<x>> \o s) = Members(s) \cup {x}
  <1> DEFINE t == <<x>> \o s
  <1>1. /\ DOMAIN t = 1..(Len(s) + 1) /\ DOMAIN s = 1..Len(s) /\ Len(s) \in Nat /\ t[1] = x
        /\ \A k \in DOMAIN s : t[k + 1] = s[k]
        /\ \A k \in 1..(Len(s) + 1) : k # 1 => k - 1 \in DOMAIN s /\ t[k] = s[k - 1]
    BY Pushed
  <1> HIDE DEF t
  <1>2. \A k \in DOMAIN t : k = 1 \/ (k - 1 \in DOMAIN s /\ t[k] = s[k - 1])
    BY <1>1
  <1>3. 1 \in DOMAIN t /\ \A k \in DOMAIN s : k + 1 \in DOMAIN t
    BY <1>1
  <1>4. Members(t) \subseteq Members(s) \cup {x}
    BY <1>1, <1>2 DEF Members
  <1>5. Members(s) \cup {x} \subseteq Members(t)
    BY <1>1, <1>3 DEF Members
  <1> QED
    BY <1>4, <1>5 DEF t

LEMMA PopMembers ==
  ASSUME NEW s \in Seq(Edges), s # << >>
  PROVE  Head(s) \in Edges /\ Members(s) = Members(Tail(s)) \cup {Head(s)}
  <1>1. PICK h, t : h = Head(s) /\ t = Tail(s)
    OBVIOUS
  <1>2. h \in Edges /\ t \in Seq(Edges) /\ s = <<h>> \o t
    BY <1>1
  <1> QED
    BY <1>1, <1>2, PushMembers

(* queue() forgets no edge, and lets one wait only for a full pool.        *)
LEMMA QueueWaits ==
  ASSUME TypeOK, Waits, NEW e \in Edges, queue(e)
  PROVE  Waits' /\ Queue \cup {e} \subseteq Queue'
  <1>0. work \in Seq(Edges) /\ poolwork \in [Pools -> Seq(Edges)] /\ poolnum \in [Pools -> Int]
    BY DEF TypeOK, QueueType
  <1>1. CASE Pooled(e) /\ Full(Pool[e])
    <2> DEFINE q == Pool[e]
    <2>1. q \in Pools /\ Full(q) /\ UNCHANGED <<work, poolnum>>
      BY <1>1, PoolTypes DEF Pooled, queue
    <2>2. poolwork' = [poolwork EXCEPT ![q] = <<e>> \o poolwork[q]]
      BY <1>1 DEF queue
    <2>3. Members(<<e>> \o poolwork[q]) = Members(poolwork[q]) \cup {e}
      BY <1>0, <2>1, PushMembers
    <2> HIDE DEF q
    <2>4. \A p \in Pools : poolwork'[p] = IF p = q THEN <<e>> \o poolwork[q] ELSE poolwork[p]
      BY <1>0, <2>1, <2>2
    <2>5. Waits'
      BY <2>1, <2>4 DEF Waits, Full
    <2>6. Queue \cup {e} \subseteq Queue'
      BY <2>1, <2>3, <2>4 DEF Queue
    <2> QED
      BY <2>5, <2>6
  <1>2. CASE Pooled(e) /\ ~Full(Pool[e])
    <2>1. /\ poolnum' = [poolnum EXCEPT ![Pool[e]] = poolnum[Pool[e]] + 1]
          /\ work' = <<e>> \o work /\ poolwork' = poolwork
      BY <1>2 DEF queue
    <2>2. \A p \in Pools : p # Pool[e] => poolnum'[p] = poolnum[p]
      BY <1>0, <2>1
    <2>3. Waits'
      BY <1>2, <2>1, <2>2 DEF Waits, Full
    <2>4. Members(work') = Members(work) \cup {e}
      BY <1>0, <2>1, PushMembers
    <2> QED
      BY <2>1, <2>3, <2>4 DEF Queue
  <1>3. CASE ~Pooled(e)
    <2>1. work' = <<e>> \o work /\ poolwork' = poolwork /\ poolnum' = poolnum
      BY <1>3 DEF queue
    <2>2. Members(work') = Members(work) \cup {e}
      BY <1>0, <2>1, PushMembers
    <2> QED
      BY <2>1, <2>2 DEF Queue, Waits, Full
  <1> QED
    BY <1>1, <1>2, <1>3

(* So does the slot of a finished job. *)
LEMMA ReleaseWaits ==
  ASSUME TypeOK, Waits, NEW q \in Pools \cup {NoPool}, ReleasePool(q)
  PROVE  Waits' /\ Queue \subseteq Queue'
  <1>0. work \in Seq(Edges) /\ poolwork \in [Pools -> Seq(Edges)] /\ poolnum \in [Pools -> Int]
    BY DEF TypeOK, QueueType
  <1>1. CASE q # NoPool /\ poolwork[q] # << >>
    <2>1. /\ q \in Pools /\ work' = <<Head(poolwork[q])>> \o work
          /\ poolwork' = [poolwork EXCEPT ![q] = Tail(poolwork[q])] /\ poolnum' = poolnum
      BY <1>1 DEF ReleasePool
    <2>2. PICK h : h = Head(poolwork[q])
      OBVIOUS
    <2>3. h \in Edges /\ Members(poolwork[q]) = Members(Tail(poolwork[q])) \cup {h}
      BY <1>0, <1>1, <2>1, <2>2, PopMembers
    <2>4. Members(work') = Members(work) \cup {h}
      BY <1>0, <2>1, <2>2, <2>3, PushMembers
    <2>5. \A p \in Pools : poolwork'[p] = IF p = q THEN Tail(poolwork[q]) ELSE poolwork[p]
      BY <1>0, <2>1
    <2>6. Waits'
      BY <1>1, <2>1, <2>5 DEF Waits, Full
    <2>7. \A p \in Pools : Members(poolwork[p]) \subseteq Members(poolwork'[p]) \cup {h}
      BY <2>3, <2>5
    <2>8. Queue \subseteq Queue'
      BY <2>4, <2>7 DEF Queue
    <2> QED
      BY <2>6, <2>8
  <1>2. CASE q = NoPool \/ poolwork[q] = << >>
    <2>1. /\ UNCHANGED <<work, poolwork>>
          /\ \A p \in Pools : p # q => poolnum'[p] = poolnum[p]
      BY <1>0, <1>2 DEF ReleasePool
    <2> QED
      BY <1>2, <2>1, PoolTypes DEF Queue, Waits, Full
  <1> QED
    BY <1>1, <1>2

(* A phony edge leaves the work stack without a job: it held no slot.      *)
LEMMA PhonySlack ==
  ASSUME TypeOK, work # << >>, Head(work) \in Phony, work' = Tail(work), UNCHANGED <<jobs, poolnum>>
  PROVE  \A p \in Pools : Slack(p)' = Slack(p)
  <1> SUFFICES ASSUME NEW p \in Pools PROVE Slack(p)' = Slack(p)
    OBVIOUS
  <1>1. work \in Seq(Edges) /\ Tail(work) \in Seq(Edges)
    BY Pop DEF TypeOK, QueueType
  <1>2. Head(work) \notin PoolEdges(p)
    BY DEF PoolEdges, Pooled
  <1>3. Count(work, PoolEdges(p)) = Count(Tail(work), PoolEdges(p)) + 0
    BY <1>1, <1>2, CountPop
  <1>4. Count(Tail(work), PoolEdges(p)) \in Nat
    BY <1>1, SpotsFinite
  <1>5. Count(work', PoolEdges(p)) = Count(work, PoolEdges(p))
    BY <1>3, <1>4
  <1> QED
    BY <1>5 DEF Slack, Held

-----------------------------------------------------------------------------
(* The edges *)

(* An edge that is ready is out of date. *)
LEMMA IdleDirty ==
  ASSUME NEW x \in Through, result[x] = "none", ~Settled(x), nblock[x] = 0, Pruning(x)
  PROVE  Dirty(flags[x])
  BY DEF Pruning, Settled, Seen, OnStack, Through, Dirty

(* Only edge x changes. *)
LEMMA OthersWork ==
  ASSUME Working, flags' = flags, NEW x \in Through,
         \A d \in Edges : d # x =>
            result'[d] = result[d] /\ nprune'[d] = nprune[d] /\ nblock'[d] = nblock[d]
  PROVE  /\ Through' = Through
         /\ \A d \in Through : d # x => Pruning(d)'
         /\ IdleEdges' \subseteq IdleEdges \cup {x}
         /\ Planned' \ {x} = Planned \ {x} /\ Started' \ {x} = Started \ {x}
  <1>1. Through' = Through /\ \A d \in Edges : d # x => (Settled(d)' <=> Settled(d))
    BY OneEdge
  <1>2. \A d \in Through : d \in Edges
    BY DEF Through
  <1>3. \A d \in Through : d # x => Pruning(d)'
    BY <1>1, <1>2 DEF Working, Pruning
  <1>4. IdleEdges' \subseteq IdleEdges \cup {x}
    BY <1>1 DEF IdleEdges, Idle
  <1>5. Planned' \ {x} = Planned \ {x}
    BY <1>1, <1>2 DEF Planned
  <1>6. Started' \ {x} = Started \ {x}
    BY <1>1, <1>2 DEF Started
  <1> QED
    BY <1>1, <1>3, <1>4, <1>5, <1>6

(* Edge x is run or done: the plan stays. *)
LEMMA PlanKept ==
  ASSUME NEW x \in Through, Through' = Through, flags' = flags, Planned' \ {x} = Planned \ {x},
         Dirty(flags[x]), Settled(x) => result[x] # "none", Settled(x)' => result'[x] # "none"
  PROVE  Planned' = Planned
  <1>1. x \in Planned' <=> x \in Planned
    BY DEF Planned
  <1> QED
    BY <1>1

(* build() takes the first edge off the stack. *)
LEMMA HeadGone ==
  ASSUME TypeOK, OrderInv, Working, MayStart, NEW to \in {"running", "ok", "failed"},
         result' = [result EXCEPT ![Head(work)] = to], work' = Tail(work),
         UNCHANGED <<flags, nblock, nprune, poolwork, poolnum>>
  PROVE  /\ Head(work) \in Through /\ result[Head(work)] = "none"
         /\ result'[Head(work)] = to /\ \A d \in Edges : d # Head(work) => result'[d] = result[d]
         /\ Through' = Through /\ Planned' = Planned
         /\ Started' = Started \cup ({Head(work)} \ Phony) /\ Head(work) \notin Started
         /\ Waits' /\ Queued' /\ \A d \in Through' : Pruning(d)'
  <1>0. pc = "start" /\ todo = << >> /\ work # << >> /\ work \in Seq(Edges)
    BY DEF MayStart, TypeOK, QueueType
  <1>1. PICK x : x = Head(work)
    OBVIOUS
  <1>2. /\ x \in Through /\ x \in Edges /\ result[x] = "none" /\ ~Settled(x) /\ nblock[x] = 0
    BY <1>1, HeadReady
  <1>3. result'[x] = to /\ \A d \in Edges : d # x => result'[d] = result[d]
    BY <1>1, <1>2 DEF TypeOK, HistType
  <1>4. /\ Through' = Through
        /\ \A d \in Through : d # x => Pruning(d)'
        /\ IdleEdges' \subseteq IdleEdges \cup {x}
        /\ Planned' \ {x} = Planned \ {x} /\ Started' \ {x} = Started \ {x}
    BY <1>2, <1>3, OthersWork
  <1>5. Dirty(flags[x])
    BY <1>2, IdleDirty DEF Working
  <1>6. Pruning(x)'
    BY <1>3, <1>5 DEF Pruning
  <1>7. Planned' = Planned
    BY <1>2, <1>3, <1>4, <1>5, PlanKept
  <1>8. Started' = Started \cup ({x} \ Phony) /\ x \notin Started
    BY <1>2, <1>3, <1>4 DEF Started
  <1>9. Waits'
    BY DEF Working, Waits, Full
  <1>10. Queued'
    <2>1. x \notin IdleEdges'
      BY <1>3 DEF IdleEdges, Idle
    <2>2. Members(work) = Members(work') \cup {x}
      BY <1>0, <1>1, PopMembers
    <2> QED
      BY <1>4, <2>1, <2>2 DEF Working, Queued, Queue
  <1> QED
    BY <1>1, <1>2, <1>3, <1>4, <1>6, <1>7, <1>8, <1>9, <1>10

LEMMA NothingWorks ==
  ASSUME ~DryRun, IInv, OrderInv, Working, StartNothing
  PROVE  Working' /\ pc' = "start"
  <1>0. TypeOK /\ MayStart /\ pc = "start"
    BY DEF IInv, StartNothing, MayStart
  <1>1. PICK x : x = Head(work)
    OBVIOUS
  <1>2. /\ x \in Phony /\ result' = [result EXCEPT ![x] = "ok"] /\ work' = Tail(work) /\ nstarted' = nstarted + 0
        /\ UNCHANGED <<flags, nblock, nprune, poolwork, poolnum, jobs, numfail, pc, ntotal>> /\ work # << >>
    BY <1>1 DEF StartNothing, MayStart, edgeVars, jobVars, mainVars
  <1>3. /\ x \in Through /\ result[x] = "none"
        /\ result'[x] = "ok" /\ \A d \in Edges : d # x => result'[d] = result[d]
        /\ Through' = Through /\ Planned' = Planned
        /\ Started' = Started \cup ({x} \ Phony)
        /\ Waits' /\ Queued' /\ \A d \in Through' : Pruning(d)'
    BY <1>0, <1>1, <1>2, HeadGone
  <1>4. SlotsKept'
    <2>1. \A p \in Pools : Slack(p)' = Slack(p)
      BY <1>0, <1>1, <1>2, PhonySlack
    <2> QED
      BY <1>2, <2>1 DEF Working, SlotsKept, Leaked
  <1>5. Running' /\ Failed'
    BY <1>0, <1>2, <1>3 DEF Working, Running, Failed, Busy
  <1>6. Progress'
    <2>1. Started' = Started /\ nstarted' = nstarted
      BY <1>0, <1>2, <1>3 DEF TypeOK, CountType
    <2> QED
      BY <1>0, <1>2, <1>3, <2>1 DEF Working, Progress
  <1> QED
    BY <1>0, <1>2, <1>3, <1>4, <1>5, <1>6 DEF Working

(* The counter of the started jobs goes up with their set. *)
LEMMA OneMore ==
  ASSUME TypeOK, Working, pc # "add", NEW x, x \notin Started, Started' = Started \cup {x},
         nstarted' = nstarted + 1, Through' = Through, Planned' = Planned, ntotal' = ntotal
  PROVE  Progress'
  <1>1. IsFiniteSet(Started) /\ nstarted = Cardinality(Started)
    BY CountersFinite DEF Working, Progress
  <1>2. PICK S : S = Started
    OBVIOUS
  <1>3. Cardinality(S \cup {x}) = Cardinality(S) + 1
    BY <1>1, <1>2, FS_AddElement
  <1>4. nstarted' = Cardinality(Started')
    BY <1>1, <1>2, <1>3
  <1> QED
    BY <1>4 DEF Working, Progress

LEMMA StartWorks ==
  ASSUME IInv, PoolInv, OrderInv, Working, StartJob
  PROVE  Working' /\ pc' = "start"
  <1> DEFINE s == [Slots[next] EXCEPT !.edge = Head(work), !.pipe = "open", !.proc = "live"]
  <1>0. TypeOK /\ SlotsSound /\ MayStart /\ pc = "start" /\ Waiting /\ Covered
    BY DEF IInv, StartJob, MayStart, PoolInv
  <1>1. PICK x : x = Head(work)
    OBVIOUS
  <1>2. /\ x \notin Phony /\ result' = [result EXCEPT ![x] = "running"] /\ work' = Tail(work)
        /\ nstarted' = nstarted + 1 /\ jobs' = [Slots EXCEPT ![next] = s]
        /\ UNCHANGED <<flags, nblock, nprune, poolwork, poolnum, numfail, pc, ntotal>>
    BY <1>1 DEF StartJob, edgeVars, mainVars
  <1>3. /\ x \in Through /\ result[x] = "none"
        /\ result'[x] = "running" /\ \A d \in Edges : d # x => result'[d] = result[d]
        /\ Through' = Through /\ Planned' = Planned
        /\ Started' = Started \cup ({x} \ Phony) /\ x \notin Started
        /\ Waits' /\ Queued' /\ \A d \in Through' : Pruning(d)'
    BY <1>0, <1>1, <1>2, HeadGone
  <1>4. SlotsKept'
    <2>1. \A p \in Pools : Slack(p)' = Slack(p)
      BY <1>0, StartHeld
    <2> QED
      BY <1>2, <2>1 DEF Working, SlotsKept, Leaked
  <1>5. next \in Busy' /\ jobs'[next].edge = x /\ \A i \in Busy : i \in Busy' /\ jobs'[i] = jobs[i]
    <2>1. numjobs < MaxJobs /\ x \in Edges /\ x # NoEdge
      BY <1>0, <1>3, GraphAssumption DEF MayStart, Through, GraphAssumption
    <2>2. Slots \in Seq(SlotType) /\ next \in DOMAIN Slots /\ Slots[next].edge = NoEdge
      BY <1>0, <2>1, GrowSlots
    <2>3. BusySlots(Slots) = BusySlots(jobs) /\ \A i \in BusySlots(jobs) : Slots[i] = jobs[i]
      BY <1>0, <2>1, SlotsRuns
    <2>4. s.edge = x
      BY <1>1, <2>2 DEF SlotType
    <2> HIDE DEF s
    <2> QED
      BY <1>2, <2>1, <2>2, <2>3, <2>4 DEF Busy, BusySlots
  <1>6. Running'
    BY <1>3, <1>5 DEF Working, Running
  <1>7. Failed'
    BY <1>0, <1>2, <1>3 DEF Working, Failed
  <1>8. Progress'
    BY <1>0, <1>2, <1>3, OneMore
  <1> QED
    BY <1>0, <1>2, <1>3, <1>4, <1>6, <1>7, <1>8 DEF Working

LEMMA FailureWorks ==
  ASSUME IInv, OrderInv, Working, StartFails
  PROVE  Working' /\ pc' = "start"
  <1>0. TypeOK /\ SlotsSound /\ MayStart /\ pc = "start" /\ numjobs < MaxJobs /\ SpawnFails
    BY DEF IInv, StartFails, MayStart
  <1>1. PICK x : x = Head(work)
    OBVIOUS
  <1>2. /\ x \notin Phony /\ result' = [result EXCEPT ![x] = "failed"] /\ work' = Tail(work)
        /\ nstarted' = nstarted + 1 /\ numfail' = numfail + 1 /\ jobs' = Slots
        /\ UNCHANGED <<flags, nblock, nprune, poolwork, poolnum, pc, ntotal>>
    BY <1>1 DEF StartFails, edgeVars, mainVars
  <1>3. /\ x \in Through /\ result[x] = "none"
        /\ result'[x] = "failed" /\ \A d \in Edges : d # x => result'[d] = result[d]
        /\ Through' = Through /\ Planned' = Planned
        /\ Started' = Started \cup ({x} \ Phony) /\ x \notin Started
        /\ Waits' /\ Queued' /\ \A d \in Through' : Pruning(d)'
    BY <1>0, <1>1, <1>2, HeadGone
  <1>4. numfail' > 0
    BY <1>0, <1>2 DEF TypeOK, JobType
  <1>5. SlotsKept'
    BY <1>0, <1>4 DEF SlotsKept, Leaked
  <1>6. Running'
    <2>1. BusySlots(Slots) = BusySlots(jobs) /\ \A i \in BusySlots(jobs) : Slots[i] = jobs[i]
      BY <1>0, SlotsRuns
    <2> QED
      BY <1>2, <1>3, <2>1 DEF Working, Running, Busy
  <1>7. Failed'
    BY <1>0, <1>2, <1>4 DEF Failed
  <1>8. Progress'
    BY <1>0, <1>2, <1>3, OneMore
  <1> QED
    BY <1>0, <1>2, <1>3, <1>5, <1>6, <1>7, <1>8 DEF Working

LEMMA DoneWorks ==
  ASSUME IInv, PoolInv, OrderInv, Working, JobDone
  PROVE  Working' /\ pc' = "scan"
  <1>0. /\ TypeOK /\ Waiting /\ Covered /\ pc = "scan" /\ todo = << >> /\ revents \subseteq Busy
        /\ Jobs /\ Fresh
    BY DEF IInv, ScanInv, PoolInv, OrderInv, JobDone
  <1>1. PICK i \in revents :
            /\ ReleasePool(Pool[jobs[i].edge]) /\ jobs' = [jobs EXCEPT ![i] = FreeSlot(next)]
            /\ \/ edgedone(jobs[i].edge) /\ numfail' = numfail
               \/ (result' = [result EXCEPT ![jobs[i].edge] = "failed"] /\ numfail' = numfail + 1)
    BY DEF JobDone
  <1>2. UNCHANGED <<flags, nblock, nprune, nstarted, ntotal, pc>>
    BY DEF JobDone, edgeVars, mainVars
  <1>3. PICK x : x = jobs[i].edge
    OBVIOUS
  <1>4. i \in Busy /\ x \in Edges /\ result[x] = "running" /\ x \in Through
    <2>1. i \in Busy /\ x \in Edges
      BY <1>0, <1>1, <1>3, BusyEdges
    <2> QED
      BY <1>0, <1>3, <2>1 DEF Jobs, Fresh
  <1>5. \/ result' = [result EXCEPT ![x] = "ok"] /\ numfail' = numfail
        \/ result' = [result EXCEPT ![x] = "failed"] /\ numfail' = numfail + 1
    BY <1>1, <1>3 DEF edgedone
  <1>6. /\ result'[x] \in {"ok", "failed"} /\ \A d \in Edges : d # x => result'[d] = result[d]
        /\ result'[x] = "failed" => numfail' > 0
        /\ numfail' = 0 => numfail = 0
    BY <1>0, <1>4, <1>5 DEF TypeOK, HistType, JobType
  <1>7. /\ Through' = Through
        /\ \A d \in Through : d # x => Pruning(d)'
        /\ IdleEdges' \subseteq IdleEdges \cup {x}
        /\ Planned' \ {x} = Planned \ {x} /\ Started' \ {x} = Started \ {x}
    <2>1. \A d \in Edges : d # x =>
              result'[d] = result[d] /\ nprune'[d] = nprune[d] /\ nblock'[d] = nblock[d]
      BY <1>2, <1>6
    <2> QED
      BY <1>2, <1>4, <2>1, OthersWork
  <1>8. Dirty(flags[x])
    BY <1>4 DEF Working, Pruning
  <1>9. Pruning(x)'
    BY <1>2, <1>6, <1>8 DEF Pruning
  <1>10. Planned' = Planned
    BY <1>2, <1>4, <1>6, <1>7, <1>8, PlanKept
  <1>11. Started' = Started
    <2>1. x \in Started' <=> x \in Started
      BY <1>4, <1>6, <1>7 DEF Started
    <2> QED
      BY <1>7, <2>1
  <1>12. Waits' /\ Queued'
    <2>1. Pool[x] \in Pools \cup {NoPool} /\ ReleasePool(Pool[x])
      BY <1>1, <1>3, <1>4, PoolTypes
    <2>2. Waits' /\ Queue \subseteq Queue'
      BY <1>0, <2>1, ReleaseWaits DEF Working
    <2>3. x \notin IdleEdges'
      BY <1>6 DEF IdleEdges, Idle
    <2> QED
      BY <1>7, <2>2, <2>3 DEF Working, Queued
  <1>13. SlotsKept'
    <2>1. \A p \in Pools : Slack(p)' = Slack(p)
      BY <1>0, DoneHeld
    <2>2. Leaked => Leaked'
      BY <1>0, <1>5 DEF Leaked, TypeOK, JobType
    <2> QED
      BY <2>1, <2>2 DEF Working, SlotsKept
  <1>14. Running'
    <2>1. \A k \in Busy : k # i => k \in Busy' /\ jobs'[k] = jobs[k]
      BY <1>0, <1>1 DEF Busy, BusySlots, TypeOK, JobType
    <2> QED
      BY <1>3, <1>6, <2>1 DEF Working, Running
  <1>15. Failed'
    BY <1>0, <1>2, <1>6 DEF Working, Failed
  <1>16. Progress'
    BY <1>0, <1>2, <1>7, <1>10, <1>11 DEF Working, Progress
  <1> QED
    BY <1>0, <1>2, <1>7, <1>9, <1>12, <1>13, <1>14, <1>15, <1>16 DEF Working

LEMMA PruneWorks ==
  ASSUME IInv, CycleInv, PoolInv, OrderInv, Working, Prune
  PROVE  Working' /\ pc' = pc
  <1>0. TypeOK /\ AtUser /\ todo # << >> /\ pc \notin {"add", "exit"}
    BY NodedoneWhen DEF IInv, Prune, AtUser
  <1>1. PICK x : x = User
    OBVIOUS
  <1>2. x \in Through /\ x \in Edges /\ ~Settled(x) /\ result[x] = "none"
    BY <1>0, <1>1, UserWaits
  <1>3. /\ nprune' = [nprune EXCEPT ![x] = 0] /\ "DIRTY_OUT" \notin flags[x]
        /\ ntotal' = IF Dirty(flags[x]) /\ x \notin Phony THEN ntotal - 1 ELSE ntotal
        /\ UNCHANGED <<flags, nblock, result, queueVars, jobs, numfail, nstarted, pc>>
    BY <1>1 DEF Prune, Prunable, Dirty, jobVars, mainVars, histVars
  <1>4. nprune'[x] = 0 /\ \A d \in Edges : d # x =>
            result'[d] = result[d] /\ nprune'[d] = nprune[d] /\ nblock'[d] = nblock[d]
    BY <1>0, <1>2, <1>3 DEF TypeOK, EdgeType
  <1>5. Settled(x)'
    BY <1>2, <1>3, <1>4 DEF Settled, Seen, OnStack, Through
  <1>6. /\ Through' = Through
        /\ \A d \in Through : d # x => Pruning(d)'
        /\ IdleEdges' \subseteq IdleEdges \cup {x}
        /\ Planned' \ {x} = Planned \ {x} /\ Started' \ {x} = Started \ {x}
    BY <1>2, <1>3, <1>4, OthersWork
  <1>7. Pruning(x)'
    BY <1>2, <1>3, <1>5 DEF Pruning
  <1>8. SlotsKept' /\ Waits' /\ Queued'
    <2>1. IdleEdges' \subseteq IdleEdges
      BY <1>5, <1>6 DEF IdleEdges, Idle
    <2>2. \A p \in Pools : Runs(jobs', p) = Runs(jobs, p)
      BY <1>3
    <2>3. Leaked => Leaked'
      BY <1>3 DEF Leaked
    <2> QED
      BY <1>3, <2>1, <2>2, <2>3, PoolsSame DEF Working
  <1>9. Running' /\ Failed'
    BY <1>3 DEF Working, Running, Failed, Busy
  <1>10. Progress'
    <2>1. IsFiniteSet(Planned) /\ Cardinality(Planned) \in Nat /\ ntotal = Cardinality(Planned)
      BY CountersFinite DEF Working, Progress
    <2>2. Started' = Started
      BY <1>3, <1>6 DEF Started
    <2>3. x \in Planned <=> Dirty(flags[x]) /\ x \notin Phony
      BY <1>2 DEF Planned
    <2>4. Planned' = Planned \ {x}
      <3>1. x \notin Planned'
        BY <1>2, <1>3, <1>5 DEF Planned
      <3> QED
        BY <1>6, <3>1
    <2>5. PICK P : P = Planned
      OBVIOUS
    <2>6. ntotal' = Cardinality(P \ {x})
      <3>1. CASE x \in P
        <4>1. Cardinality(P \ {x}) = Cardinality(P) - 1
          BY <2>1, <2>5, <3>1, FS_RemoveElement
        <4> QED
          BY <1>3, <2>1, <2>3, <2>5, <3>1, <4>1
      <3>2. CASE x \notin P
        <4>1. P \ {x} = P
          BY <3>2
        <4> QED
          BY <1>3, <2>1, <2>3, <2>5, <3>2, <4>1
      <3> QED
        BY <3>1, <3>2
    <2>7. ntotal' = Cardinality(Planned')
      BY <2>4, <2>5, <2>6
    <2> QED
      BY <1>3, <1>6, <2>2, <2>7 DEF Working, Progress
  <1> QED
    BY <1>3, <1>6, <1>7, <1>8, <1>9, <1>10 DEF Working

LEMMA UnblockWorks ==
  ASSUME IInv, CycleInv, PoolInv, OrderInv, Working, Unblock
  PROVE  Working' /\ pc' = pc
  <1>0. TypeOK /\ Waiting /\ Covered /\ AtUser /\ todo # << >> /\ pc \notin {"add", "exit"}
    BY NodedoneWhen DEF IInv, PoolInv, Unblock, AtUser
  <1>1. PICK x : x = User
    OBVIOUS
  <1>2. /\ x \in Through /\ x \in Edges /\ ~Settled(x) /\ result[x] = "none"
        /\ nblock[x] \in Nat \ {0}
    BY <1>0, <1>1, UserWaits
  <1>3. /\ \/ Prunable /\ nprune' = [nprune EXCEPT ![x] = nprune[x] - 1]
           \/ ~Prunable /\ nprune' = nprune
        /\ nblock' = [nblock EXCEPT ![x] = nblock[x] - 1]
        /\ IF nblock[x] = 1 THEN queue(x) ELSE UNCHANGED queueVars
        /\ UNCHANGED <<flags, result, jobs, numfail, nstarted, ntotal, pc>>
    BY <1>1 DEF Unblock, jobVars, mainVars, histVars, countVars
  <1>4. nblock \in [Edges -> Int] /\ nprune \in [Edges -> Int]
    BY <1>0 DEF TypeOK, EdgeType
  <1>5. nblock'[x] = nblock[x] - 1 /\ \A d \in Edges : d # x => nblock'[d] = nblock[d]
    BY <1>2, <1>3, <1>4
  <1>6. \A d \in Edges : d # x => nprune'[d] = nprune[d]
    <2>1. CASE nprune' = [nprune EXCEPT ![x] = nprune[x] - 1]
      BY <1>2, <1>4, <2>1
    <2>2. CASE nprune' = nprune
      BY <2>2
    <2> QED
      BY <1>3, <2>1, <2>2
  <1>7. ~Settled(x)'
    <2>1. EdgeState(x)' = EdgeState(x)
      BY <1>2, UnblockDone
    <2> QED
      BY <1>0, <1>2, <1>3, <2>1 DEF EdgeState
  <1>8. ~Dirty(flags[x]) => nprune'[x] = nblock'[x]
    <2> SUFFICES ASSUME ~Dirty(flags[x]) PROVE nprune'[x] = nblock'[x]
      OBVIOUS
    <2>1. nprune[x] = nblock[x]
      BY <1>2 DEF Working, Pruning
    <2>2. Prunable
      BY <1>1 DEF Prunable, Dirty
    <2>3. nprune'[x] = nprune[x] - 1
      BY <1>2, <1>3, <1>4, <2>2
    <2> QED
      BY <1>5, <2>1, <2>3
  <1>9. /\ Through' = Through
        /\ \A d \in Through : d # x => Pruning(d)'
        /\ IdleEdges' \subseteq IdleEdges \cup {x}
        /\ Planned' \ {x} = Planned \ {x} /\ Started' \ {x} = Started \ {x}
    <2>1. \A d \in Edges : d # x =>
            result'[d] = result[d] /\ nprune'[d] = nprune[d] /\ nblock'[d] = nblock[d]
      BY <1>3, <1>5, <1>6
    <2> QED
      BY <1>2, <1>3, <2>1, OthersWork
  <1>10. Pruning(x)'
    BY <1>2, <1>3, <1>8 DEF Pruning
  <1>11. SlotsKept' /\ Waits' /\ Queued'
    <2>0. \A p \in Pools : Runs(jobs', p) = Runs(jobs, p)
      BY <1>3
    <2>1. CASE nblock[x] = 1
      <3>1. queue(x)
        BY <1>3, <2>1
      <3>2. Waits' /\ Queue \cup {x} \subseteq Queue'
        BY <1>0, <1>2, <3>1, QueueWaits DEF Working
      <3>3. \A p \in Pools : Slack(p)' = Slack(p)
        BY <1>0, <1>2, <1>3, <3>1, QueueCovered
      <3>4. SlotsKept'
        BY <1>3, <3>3 DEF Working, SlotsKept, Leaked
      <3> QED
        BY <1>9, <3>2, <3>4 DEF Working, Queued
    <2>2. CASE nblock[x] # 1
      <3>1. x \notin IdleEdges'
        BY <1>2, <1>5, <2>2 DEF IdleEdges, Idle
      <3>2. IdleEdges' \subseteq IdleEdges /\ UNCHANGED queueVars
        BY <1>3, <1>9, <2>2, <3>1
      <3>3. Leaked => Leaked'
        BY <1>3 DEF Leaked
      <3> QED
        BY <2>0, <3>2, <3>3, PoolsSame DEF Working
    <2> QED
      BY <2>1, <2>2
  <1>12. Running' /\ Failed'
    BY <1>3 DEF Working, Running, Failed, Busy
  <1>13. Progress'
    <2>1. x \in Planned' <=> x \in Planned
      BY <1>2, <1>3, <1>7, <1>9 DEF Planned
    <2>2. x \in Started' <=> x \in Started
      BY <1>3, <1>9 DEF Started
    <2>3. Planned' = Planned /\ Started' = Started
      BY <1>9, <2>1, <2>2
    <2> QED
      BY <1>3, <1>9, <2>3 DEF Working, Progress
  <1> QED
    BY <1>3, <1>9, <1>10, <1>11, <1>12, <1>13 DEF Working

-----------------------------------------------------------------------------
(* buildadd() *)

(* What buildadd() decides of an edge: it is done at once if it is clean   *)
(* and waits for nothing, and queued if it is dirty and waits for nothing. *)
LEMMA AddDecides ==
  ASSUME TypeOK, CycleInv, PoolInv, OrderInv, AddFinish
  PROVE  \E e \in Edges \ Through :
            /\ Through' = Through \cup {e}
            /\ \A d \in Edges : d # e =>
                  flags'[d] = flags[d] /\ nblock'[d] = nblock[d] /\ nprune'[d] = nprune[d]
            /\ Settled(e)' <=> ~Dirty(flags'[e]) /\ nblock'[e] = 0
            /\ ~Dirty(flags'[e]) => nprune'[e] = nblock'[e]
            /\ IF Dirty(flags'[e]) /\ nblock'[e] = 0 THEN queue(e) ELSE UNCHANGED queueVars
            /\ ntotal' = IF Dirty(flags'[e]) /\ e \notin Phony THEN ntotal + 1 ELSE ntotal
  <1>0. PICK e : e = Head(adding).edge
    OBVIOUS
  <1> DEFINE K == {i \in DOMAIN In[e] : Blocks(In[e][i])}
             blocked == Cardinality(K)
             dirtyin == \E n \in Essential(e) : dirty[n]
             dirtyout == \/ "DIRTY_OUT" \in flags[e]
                         \/ \E n \in Members(Out[e]) :
                               isdirty(e, mtime[n], logmtime[n], samehash[n], mtime)
             fl == (flags[e] \ {"CYCLE"}) \cup (IF dirtyin THEN {"DIRTY_IN"} ELSE {})
                                          \cup (IF dirtyout THEN {"DIRTY_OUT"} ELSE {})
  <1>1. /\ flags' = [flags EXCEPT ![e] = fl]
        /\ nblock' = [nblock EXCEPT ![e] = blocked]
        /\ nprune' = IF dirtyout THEN nprune ELSE [nprune EXCEPT ![e] = blocked]
        /\ IF Dirty(fl) /\ blocked = 0 THEN queue(e) ELSE UNCHANGED queueVars
        /\ ntotal' = IF Dirty(fl) /\ e \notin Phony THEN ntotal + 1 ELSE ntotal
        /\ result' = result
    BY <1>0 DEF AddFinish, histVars
  <1>2. Fresh /\ nblock \in [Edges -> Int] /\ nprune \in [Edges -> Int]
    BY DEF OrderInv, AddFinish, TypeOK, EdgeType
  <1>3. /\ "CYCLE" \notin fl /\ flags[e] \ {"CYCLE"} \subseteq fl
        /\ "DIRTY_OUT" \in fl <=> dirtyout
        /\ "DIRTY_IN" \in fl <=> dirtyin \/ "DIRTY_IN" \in flags[e]
    <2> HIDE DEF dirtyin
    <2>1. "DIRTY_OUT" \in flags[e] => dirtyout
      OBVIOUS
    <2> HIDE DEF dirtyout
    <2> QED
      BY <2>1
  <1> HIDE DEF dirtyout, fl
  <1>4. /\ e \in Edges /\ e \notin Through /\ Through' = Through \cup {e}
        /\ flags'[e] = fl /\ \A d \in Edges : d # e => flags'[d] = flags[d]
    BY <1>0, <1>1, <1>3, FinishJoins, ZenonT(40)
  <1>5. dirtyin => K # {}
    <2>1. SUFFICES ASSUME NEW i \in 1..Inorder[e], dirty[In[e][i]] PROVE i \in K
      BY DEF Essential
    <2>2. i \in DOMAIN In[e]
      <3>1. Inorder[e] <= Len(In[e]) /\ Inorder[e] \in Nat /\ In[e] \in Seq(Nodes)
        BY <1>4, UseAssumption, GraphAssumption DEF UseAssumption, GraphAssumption
      <3> QED
        BY <3>1
    <2> QED
      BY <2>1, <2>2 DEF Blocks
  <1> HIDE DEF dirtyin
  <1>6. blocked = 0 <=> K = {}
    <2>1. IsFiniteSet(K)
      BY <1>4, InputCount
    <2> HIDE DEF K
    <2> QED
      BY <2>1, FS_EmptySet
  <1> HIDE DEF K
  <1>7. Dirty(fl) <=> dirtyin \/ dirtyout
    BY <1>2, <1>3, <1>4 DEF Dirty, Fresh
  <1>8. /\ nblock'[e] = blocked /\ (~dirtyout => nprune'[e] = blocked)
        /\ \A d \in Edges : d # e => nblock'[d] = nblock[d] /\ nprune'[d] = nprune[d]
    <2>1. nblock'[e] = blocked /\ \A d \in Edges : d # e => nblock'[d] = nblock[d]
      BY <1>1, <1>2, <1>4
    <2>2. CASE dirtyout
      BY <1>1, <2>1, <2>2
    <2>3. CASE ~dirtyout
      BY <1>1, <1>2, <1>4, <2>1, <2>3
    <2> QED
      BY <2>2, <2>3
  <1>9. Settled(e)' <=> ~dirtyout /\ blocked = 0
    <2>1. "WORK" \in flags'[e] /\ "CYCLE" \notin flags'[e] /\ result'[e] = "none"
      BY <1>1, <1>2, <1>4 DEF Through, Fresh
    <2> QED
      BY <1>3, <1>4, <1>8, <2>1 DEF Settled, Seen, OnStack
  <1> HIDE DEF blocked
  <1> QED
    BY <1>1, <1>4, <1>5, <1>6, <1>7, <1>8, <1>9

LEMMA FinishWorks ==
  ASSUME IInv, CycleInv, PoolInv, OrderInv, Working, AddFinish
  PROVE  Working' /\ pc' = "add"
  <1>0. /\ TypeOK /\ Waiting /\ Covered /\ pc = "add" /\ pc' = "add" /\ Adding
        /\ UNCHANGED <<result, jobs, numfail>>
    BY DEF IInv, PoolInv, OrderInv, AddFinish, mainVars, histVars, jobVars
  <1>1. PICK e \in Edges \ Through :
            /\ Through' = Through \cup {e}
            /\ \A d \in Edges : d # e =>
                  flags'[d] = flags[d] /\ nblock'[d] = nblock[d] /\ nprune'[d] = nprune[d]
            /\ Settled(e)' <=> ~Dirty(flags'[e]) /\ nblock'[e] = 0
            /\ ~Dirty(flags'[e]) => nprune'[e] = nblock'[e]
            /\ IF Dirty(flags'[e]) /\ nblock'[e] = 0 THEN queue(e) ELSE UNCHANGED queueVars
            /\ ntotal' = IF Dirty(flags'[e]) /\ e \notin Phony THEN ntotal + 1 ELSE ntotal
    BY <1>0, AddDecides
  <1>2. \A d \in Edges : result[d] = "none" /\ result'[d] = "none"
    BY <1>0 DEF Adding
  <1>3. \A d \in Edges : d # e => (Settled(d)' <=> Settled(d))
    BY <1>0, <1>1 DEF Settled, Seen, OnStack
  <1>4. \A d \in Through' : Pruning(d)'
    <2>1. Pruning(e)'
      BY <1>1, <1>2 DEF Pruning
    <2>2. \A d \in Through : Pruning(d)'
      BY <1>1, <1>2, <1>3 DEF Working, Pruning, Through
    <2> QED
      BY <1>1, <2>1, <2>2
  <1>5. SlotsKept' /\ Waits' /\ Queued'
    <2>0. \A p \in Pools : Runs(jobs', p) = Runs(jobs, p)
      BY <1>0
    <2>1. \A d \in Edges : d # e /\ d \in IdleEdges' => d \in IdleEdges
      BY <1>0, <1>1, <1>3 DEF IdleEdges, Idle
    <2>2. CASE Dirty(flags'[e]) /\ nblock'[e] = 0
      <3>1. queue(e)
        BY <1>1, <2>2
      <3>2. Waits' /\ Queue \cup {e} \subseteq Queue'
        BY <1>0, <1>1, <3>1, QueueWaits DEF Working
      <3>3. \A p \in Pools : Slack(p)' = Slack(p)
        BY <1>0, <1>1, <3>1, QueueCovered
      <3>4. SlotsKept'
        BY <1>0, <3>3 DEF Working, SlotsKept, Leaked
      <3>5. Queued'
        BY <2>1, <3>2 DEF Working, Queued, IdleEdges
      <3> QED
        BY <3>2, <3>4, <3>5
    <2>3. CASE ~(Dirty(flags'[e]) /\ nblock'[e] = 0)
      <3>1. e \notin IdleEdges'
        BY <1>1, <2>3 DEF IdleEdges, Idle
      <3>2. IdleEdges' \subseteq IdleEdges
        BY <2>1, <3>1 DEF IdleEdges
      <3>3. UNCHANGED queueVars /\ (Leaked => Leaked')
        BY <1>0, <1>1, <2>3 DEF Leaked
      <3> QED
        BY <2>0, <3>2, <3>3, PoolsSame DEF Working
    <2> QED
      BY <2>2, <2>3
  <1>6. Running' /\ Failed'
    BY <1>0, <1>2 DEF Working, Running, Failed
  <1>7. Progress'
    <2>1. IsFiniteSet(Through) /\ IsFiniteSet(Planned) /\ ntotal = Cardinality(Planned)
      BY CountersFinite DEF Working, Progress
    <2>2. IsFiniteSet(Through')
      BY <1>1, <2>1, FS_AddElement
    <2>3. Planned' \ {e} = Planned /\ e \notin Planned
      <3>1. \A d \in Through : d \in Edges /\ d # e
        BY <1>1 DEF Through
      <3> QED
        BY <1>0, <1>1, <1>2, <1>3, <3>1 DEF Planned
    <2>4. e \in Planned' <=> Dirty(flags'[e]) /\ e \notin Phony
      BY <1>1 DEF Planned
    <2>5. PICK P : P = Planned
      OBVIOUS
    <2>6. CASE e \in Planned'
      <3>1. Planned' = P \cup {e} /\ e \notin P
        BY <2>3, <2>5, <2>6
      <3>2. Cardinality(P \cup {e}) = Cardinality(P) + 1
        BY <2>1, <2>3, <2>5, FS_AddElement
      <3>3. ntotal' = Cardinality(P \cup {e})
        BY <1>1, <2>1, <2>4, <2>5, <2>6, <3>2
      <3>4. ntotal' = Cardinality(Planned')
        BY <3>1, <3>3
      <3> QED
        BY <1>0, <2>2, <3>4 DEF Progress
    <2>7. CASE e \notin Planned'
      <3>1. Planned' = Planned
        BY <2>3, <2>7
      <3>2. ntotal' = ntotal
        BY <1>1, <2>4, <2>7
      <3>3. ntotal' = Cardinality(Planned')
        BY <2>1, <3>1, <3>2
      <3> QED
        BY <1>0, <2>2, <3>3 DEF Progress
    <2> QED
      BY <2>6, <2>7
  <1> QED
    BY <1>0, <1>4, <1>5, <1>6, <1>7 DEF Working


(* Calls of buildadd() change nothing for the edges that are through. *)
LEMMA EnterThrough ==
  ASSUME TypeOK, NEW n \in Nodes, NEW rest, Enter(n, rest)
  PROVE  /\ Through' = Through /\ pc' \in {pc, "exit"}
         /\ \A d \in Through : flags'[d] = flags[d] /\ nblock'[d] = nblock[d]
  <1>0. flags \in [Edges -> SUBSET Flags] /\ nblock \in [Edges -> Int]
    BY DEF TypeOK, EdgeType
  <1>1. pc' \in {pc, "exit"}
    BY DEF Enter, Fatal, mainVars
  <1>2. CASE Gen[n] = NoEdge \/ OnStack(Gen[n]) \/ Seen(Gen[n])
    <2>1. UNCHANGED <<flags, nblock>>
      BY <1>2 DEF Enter
    <2> QED
      BY <1>1, <2>1 DEF Through
  <1>3. CASE Gen[n] # NoEdge /\ ~OnStack(Gen[n]) /\ ~Seen(Gen[n])
    <2> DEFINE e == Gen[n]
               f == flags[e] \cup {"CYCLE", "WORK", "DEPS"} \cup
                      IF "DEPS" \notin flags[e] /\ e \in nodeps THEN {"DIRTY_OUT"} ELSE {}
    <2>1. e \in Edges /\ e \notin Through
      BY <1>3, GenType DEF Seen, Through
    <2>2. flags' = [flags EXCEPT ![e] = f] /\ nblock' = [nblock EXCEPT ![e] = 0]
      BY <1>3 DEF Enter
    <2>3. "CYCLE" \in f
      OBVIOUS
    <2> HIDE DEF f, e
    <2>4. flags'[e] = f /\ \A d \in Edges : d # e => flags'[d] = flags[d] /\ nblock'[d] = nblock[d]
      BY <1>0, <2>1, <2>2
    <2>5. Through' = Through
      BY <2>1, <2>3, <2>4 DEF Through
    <2>6. \A d \in Through : flags'[d] = flags[d] /\ nblock'[d] = nblock[d]
      BY <2>1, <2>4 DEF Through
    <2> QED
      BY <1>1, <2>5, <2>6
  <1> QED
    BY <1>2, <1>3

-----------------------------------------------------------------------------
(* The end of build() *)

(* An edge waits for its pool while every slot of it is in use: no edge is *)
(* counted twice, as the queued ones are ready and the others run.         *)
LEMMA Capacity ==
  ASSUME TypeOK, OrderInv, Working, pc # "exit", ~SpawnFails
  PROVE  BlockedByCapacity
  <1> SUFFICES ASSUME NEW p \in Pools, poolwork[p] # << >>
               PROVE  Cardinality(Holders(p)) = Depth[p]
    BY DEF BlockedByCapacity
  <1> DEFINE A == Spots(work, PoolEdges(p))
             B == Runs(jobs, p)
             X == {e \in Edges : Pooled(e) /\ Pool[e] = p /\ e \in Members(work)}
             Y == {jobs[i].edge : i \in {i \in Busy : Pool[jobs[i].edge] = p}}
             f == [i \in A |-> work[i]]
             g == [i \in B |-> jobs[i].edge]
  <1>1. Once(work) /\ Members(work) \subseteq IdleEdges /\ Jobs
    BY DEF OrderInv, Queues, QueuesIn
  <1>2. IsFiniteSet(A) /\ Cardinality(A) \in Nat /\ IsFiniteSet(B) /\ Cardinality(B) \in Nat
    BY SpotsFinite, RunsFinite DEF TypeOK, QueueType, JobType, Count
  <1>3. f \in Bijection(A, X)
    <2>1. f \in [A -> X]
      BY DEF Spots, PoolEdges, Members
    <2>2. \A x \in X : \E i \in A : f[i] = x
      BY DEF Spots, PoolEdges, Members
    <2>3. \A i, k \in A : f[i] = f[k] => i = k
      BY <1>1 DEF Spots, Once
    <2> QED
      BY <2>1, <2>2, <2>3, Fun_IsBij
  <1>4. g \in Bijection(B, Y)
    <2>1. g \in [B -> Y]
      BY DEF Runs, Busy
    <2>2. \A y \in Y : \E i \in B : g[i] = y
      BY DEF Runs, Busy
    <2>3. \A i, k \in B : g[i] = g[k] => i = k
      BY <1>1 DEF Runs, Busy, Jobs
    <2> QED
      BY <2>1, <2>2, <2>3, Fun_IsBij
  <1>5. X \cap Y = {}
    <2>1. \A x \in X : result[x] = "none"
      BY <1>1 DEF IdleEdges, Idle
    <2>2. \A y \in Y : result[y] = "running"
      BY <1>1 DEF Jobs
    <2> QED
      BY <2>1, <2>2
  <1>6. Holders(p) = X \cup Y
    BY DEF Holders
  <1>7. Cardinality(A) + Cardinality(B) = Depth[p]
    <2>1. Slack(p) = 0 /\ poolnum[p] = Depth[p] /\ Depth[p] \in Nat
      BY GraphAssumption DEF Working, SlotsKept, Leaked, Waits, Full, GraphAssumption
    <2>2. Held(p) = Cardinality(A) + Cardinality(B)
      BY DEF Held, Count
    <2> HIDE DEF A, B
    <2> QED
      BY <1>2, <2>1, <2>2 DEF Slack
  <1> HIDE DEF A, B, X, Y, f, g
  <1>8. IsFiniteSet(X) /\ Cardinality(X) = Cardinality(A)
    BY <1>2, <1>3, FS_Bijection DEF ExistsBijection
  <1>9. IsFiniteSet(Y) /\ Cardinality(Y) = Cardinality(B)
    BY <1>2, <1>4, FS_Bijection DEF ExistsBijection
  <1>10. Cardinality(X \cup Y) = Cardinality(X) + Cardinality(Y)
    <2>1. Cardinality(X \cup Y) = Cardinality(X) + Cardinality(Y) - Cardinality(X \cap Y)
      BY <1>8, <1>9, FS_Union
    <2>2. Cardinality(X \cap Y) = 0
      BY <1>5, FS_EmptySet
    <2> QED
      BY <1>2, <1>8, <1>9, <2>1, <2>2
  <1> QED
    BY <1>6, <1>7, <1>8, <1>9, <1>10

(* When nothing runs and nothing can be started, an edge that did not run  *)
(* needs another one that did not.                                         *)
LEMMA NothingLeft ==
  ASSUME TypeOK, SlotsSound, PoolInv, OrderInv, Working, pc = "start", todo = << >>,
         work = << >>, numjobs = 0, ~Leaked
  PROVE  /\ \A p \in Pools : poolwork[p] = << >>
         /\ \A e \in Edges : result[e] # "running"
         /\ \A e \in Through : ~Settled(e) /\ result[e] # "failed" =>
               \E f \in Producers(e) : f \in Edges /\ ~Settled(f)
  <1>1. Busy = {}
    <2>1. jobs \in Seq(SlotType) /\ Cardinality(BusySlots(jobs)) = 0
      BY DEF TypeOK, JobType, SlotsSound, Sound
    <2>2. IsFiniteSet(DOMAIN jobs)
      BY <2>1, FS_Interval
    <2>3. IsFiniteSet(BusySlots(jobs))
      BY <2>2, FS_Subset DEF BusySlots
    <2> QED
      BY <2>1, <2>3, FS_EmptySet DEF Busy
  <1>2. ASSUME NEW p \in Pools PROVE poolwork[p] = << >>
    <2>1. Held(p) = 0
      <3>1. Cardinality(Runs(jobs, p)) = 0
        BY <1>1, NoRuns DEF Busy
      <3>2. Count(work, PoolEdges(p)) = 0
        BY CountEmpty
      <3> QED
        BY <3>1, <3>2 DEF Held
    <2>2. poolnum[p] = 0
      BY <1>2, <2>1 DEF Working, SlotsKept, Slack, TypeOK, QueueType
    <2>3. Depth[p] # 0
      BY GraphAssumption DEF GraphAssumption
    <2> QED
      BY <2>2, <2>3 DEF Working, Waits, Full
  <1>3. IdleEdges = {}
    <2>1. Queue = {}
      BY <1>2 DEF Queue, Members
    <2> QED
      BY <2>1 DEF Working, Queued
  <1>4. \A e \in Edges : result[e] # "running"
    BY <1>1 DEF Working, Running
  <1>5. ASSUME NEW e \in Through, ~Settled(e), result[e] # "failed"
        PROVE  \E f \in Producers(e) : f \in Edges /\ ~Settled(f)
    <2>1. e \in Edges /\ Counted(e)
      BY DEF Through, OrderInv
    <2>2. result[e] = "none"
      <3>1. result[e] \in {"none", "running", "ok", "failed"}
        BY <2>1 DEF TypeOK, HistType
      <3>2. result[e] # "ok"
        BY <1>5 DEF Settled, Seen, OnStack, Through
      <3> QED
        BY <1>4, <1>5, <2>1, <3>1, <3>2
    <2>3. nblock[e] # 0
      BY <1>3, <1>5, <2>1, <2>2 DEF IdleEdges, Idle
    <2>4. Pending(e) # {}
      <3>1. nblock[e] = Cardinality(Pending(e))
        BY <1>5, <2>1 DEF Counted
      <3> QED
        BY <2>3, <3>1, FS_EmptySet
    <2>5. PICK i \in DOMAIN In[e] : ~Told(SettledEdges, todo, In[e][i], UseOf(e, i))
      BY <2>4 DEF Pending, Untold
    <2>6. Gen[In[e][i]] # NoEdge /\ Gen[In[e][i]] \notin SettledEdges
      BY <2>5 DEF Told
    <2>7. In[e][i] \in Nodes /\ In[e][i] \in Members(In[e])
      BY <2>1, OutMembers DEF Members
    <2>8. Gen[In[e][i]] \in Edges /\ Gen[In[e][i]] \in Producers(e)
      BY <2>6, <2>7, GenType DEF Producers
    <2> QED
      BY <2>6, <2>8 DEF SettledEdges
  <1> QED
    BY <1>2, <1>4, <1>5


(* While the queues and the edges of the jobs stay, the slots are as full  *)
(* as before.                                                              *)
LEMMA CapacityKept ==
  ASSUME BlockedByCapacity, UNCHANGED <<work, poolwork>>,
         BusySlots(jobs') = BusySlots(jobs), \A i \in Busy : jobs'[i].edge = jobs[i].edge
  PROVE  BlockedByCapacity'
  <1>1. \A p \in Pools : Holders(p)' = Holders(p)
    <2> SUFFICES ASSUME NEW p \in Pools PROVE Holders(p)' = Holders(p)
      OBVIOUS
    <2>1. Busy' = Busy
      BY DEF Busy
    <2>2. {i \in Busy' : Pool[jobs'[i].edge] = p} = {i \in Busy : Pool[jobs[i].edge] = p}
      BY <2>1
    <2>3. {jobs'[i].edge : i \in {i \in Busy : Pool[jobs[i].edge] = p}}
          = {jobs[i].edge : i \in {i \in Busy : Pool[jobs[i].edge] = p}}
      OBVIOUS
    <2> QED
      BY <2>2, <2>3 DEF Holders
  <1> QED
    BY <1>1 DEF BlockedByCapacity

(* buildadd() ends samu: no command has been started.                      *)
LEMMA AddProgress ==
  ASSUME IInv, CycleInv, PoolInv, OrderInv, Working, AddTarget \/ AddInput \/ AddFinish
  PROVE  ProgressInv'
  <1>0. TypeOK /\ pc = "add"
    BY DEF IInv, AddTarget, AddInput, AddFinish
  <1>1. CASE AddTarget \/ AddInput
    <2>1. \E n \in Nodes : \E rest : Enter(n, rest)
      <3>1. CASE AddTarget
        <4>1. adds \in Seq(Nodes) /\ adds # << >> /\ Enter(Head(adds), << >>)
          BY <1>0, <3>1 DEF AddTarget, TypeOK, AddType
        <4>2. Head(adds) \in Nodes
          BY <4>1, Pop
        <4> QED
          BY <4>1, <4>2
      <3>2. CASE AddInput
        <4> DEFINE t == Head(adding)
                   rest == <<[t EXCEPT !.input = t.input + 1]>> \o Tail(adding)
        <4>1. /\ adding \in Seq(AddFrame) /\ adding # << >> /\ t.input <= Len(In[t.edge])
              /\ Enter(In[t.edge][t.input], rest)
          BY <1>0, <3>2 DEF AddInput, TypeOK, AddType
        <4>2. t \in AddFrame
          BY <4>1, Pop
        <4> HIDE DEF t, rest
        <4>3. t.edge \in Edges /\ t.input \in Nat \ {0}
          BY <4>2 DEF AddFrame
        <4>4. In[t.edge] \in Seq(Nodes)
          BY <4>3, GraphTypes
        <4>5. In[t.edge][t.input] \in Nodes
          BY <4>1, <4>3, <4>4
        <4> QED
          BY <4>1, <4>5
      <3> QED
        BY <1>1, <3>1, <3>2
    <2>2. /\ Through' = Through /\ pc' \in {"add", "exit"}
          /\ \A d \in Through : flags'[d] = flags[d] /\ nblock'[d] = nblock[d]
      BY <1>0, <2>1, EnterThrough
    <2>3. UNCHANGED <<nprune, result, queueVars, ntotal, numfail, jobs>>
      BY <1>1 DEF AddTarget, AddInput, countVars, jobVars, histVars
    <2>4. CASE pc' = "add"
      <3>1. Working'
        BY <1>0, <2>2, <2>3, <2>4, WorkingSame
      <3> QED
        BY <2>4, <3>1 DEF ProgressInv
    <2>5. CASE pc' = "exit"
      <3>1. ~SpawnFails => BlockedByCapacity
        BY <1>0, Capacity
      <3>2. ~SpawnFails => BlockedByCapacity'
        BY <2>3, <3>1, CapacityKept DEF queueVars
      <3>3. numfail' = 0
        BY <1>0, <2>3 DEF Working, Failed
      <3>4. KeepsGoing'
        BY <3>3 DEF KeepsGoing
      <3> QED
        BY <2>5, <3>2, <3>4 DEF ProgressInv
    <2> QED
      BY <2>2, <2>4, <2>5
  <1>2. CASE AddFinish
    BY <1>2, FinishWorks DEF ProgressInv
  <1> QED
    BY <1>1, <1>2

(* build() is called. *)
LEMMA BeginProgress ==
  ASSUME IInv, PoolInv, OrderInv, Working, BuildBegin
  PROVE  ProgressInv'
  <1>1. /\ pc = "add" /\ jobs' = << >> /\ numfail' = 0 /\ pc' = (IF ntotal = 0 THEN "return" ELSE "start")
        /\ nstarted' = (IF ntotal = 0 THEN nstarted ELSE 0)
        /\ UNCHANGED <<flags, nblock, nprune, result, queueVars, ntotal>>
    BY DEF BuildBegin, edgeVars, histVars
  <1>2. TypeOK /\ Busy = {} /\ numfail = 0 /\ \A e \in Edges : result[e] = "none"
    BY <1>1 DEF IInv, PoolInv, Between, OrderInv, Adding, Working, Failed
  <1>3. BusySlots(jobs') = BusySlots(jobs) /\ \A i \in Busy : jobs'[i].edge = jobs[i].edge
    BY <1>1, <1>2 DEF Busy, BusySlots
  <1>4. CASE ntotal = 0
    <2>1. ~SpawnFails => BlockedByCapacity
      BY <1>1, <1>2, Capacity
    <2>2. ~SpawnFails => BlockedByCapacity'
      BY <1>1, <1>3, <2>1, CapacityKept DEF queueVars
    <2>3. KeepsGoing' /\ pc' = "return"
      BY <1>1, <1>4 DEF KeepsGoing
    <2> QED
      BY <2>2, <2>3 DEF ProgressInv
  <1>5. CASE ntotal # 0
    <2>1. pc' = "start" /\ nstarted' = 0
      BY <1>1, <1>5
    <2>2. Started = {}
      BY <1>2 DEF Started, Through
    <2>3. nstarted' = Cardinality(Started)
      BY <2>1, <2>2, FS_EmptySet
    <2>4. Through' = Through
      BY <1>1 DEF Through
    <2>5. Working'
      BY <1>1, <1>2, <1>3, <2>1, <2>3, <2>4, WorkingSame
    <2> QED
      BY <2>1, <2>5 DEF ProgressInv
  <1> QED
    BY <1>4, <1>5

(* build() gives up only over edges above a failed one.                    *)
LEMMA EndProgress ==
  ASSUME IInv, CycleInv, PoolInv, OrderInv, Working, BuildEnd
  PROVE  ProgressInv'
  <1>1. /\ pc = "start" /\ todo = << >> /\ numjobs = 0 /\ pc' \in {"return", "exit"}
        /\ work = << >> \/ numjobs >= MaxJobs \/ numfail >= MaxFail
        /\ UNCHANGED <<flags, nprune, result, queueVars, jobs, numfail>>
    BY DEF BuildEnd, Stalled, Fatal, edgeVars, jobVars, histVars
  <1>2. TypeOK /\ SlotsSound
    BY DEF IInv
  <1>3. SUFFICES ASSUME ~SpawnFails PROVE BlockedByCapacity' /\ KeepsGoing'
    BY <1>1 DEF ProgressInv
  <1>4. BlockedByCapacity'
    <2>1. BlockedByCapacity
      BY <1>1, <1>2, <1>3, Capacity
    <2> QED
      BY <1>1, <2>1, CapacityKept DEF queueVars
  <1>5. KeepsGoing'
    <2>1. SUFFICES ASSUME numfail < MaxFail, NEW e \in Edges, "WORK" \in flags[e],
                          ~Settled(e)', result[e] # "failed"
                   PROVE  \E f \in Producers(e) : ~Settled(f)'
      BY <1>1 DEF KeepsGoing
    <2>2. work = << >>
      BY <1>1, <1>2, <2>1, BuildAssumption DEF BuildAssumption, TypeOK, JobType
    <2>3. e \in Through
      <3>1. adding = << >>
        BY <1>1 DEF CycleInv
      <3>2. "CYCLE" \notin flags[e]
        BY <1>1, <3>1, NotMarked
      <3> QED
        BY <2>1, <3>2 DEF Through
    <2>4. \A d \in Edges : Settled(d)' <=> Settled(d)
      BY <1>1 DEF Settled, Seen, OnStack
    <2>5. \E f \in Producers(e) : f \in Edges /\ ~Settled(f)
      <3>1. ~Leaked
        BY <1>3 DEF Leaked
      <3>2. ~Settled(e)
        BY <2>1, <2>4
      <3> QED
        BY <1>1, <1>2, <2>1, <2>2, <2>3, <3>1, <3>2, NothingLeft
    <2> QED
      BY <2>4, <2>5
  <1> QED
    BY <1>4, <1>5

(* The steps that only look, and those of the commands *)
LEMMA IdleProgress ==
  ASSUME IInv, PoolInv, OrderInv, Working, pc \notin {"return", "exit"},
         WaitForJobs \/ Poll \/ ScanEnd \/ SkipUser \/ NodeDone \/ Commands \/ UNCHANGED vars
  PROVE  ProgressInv'
  <1>0. TypeOK
    BY DEF IInv
  <1>1. /\ UNCHANGED <<flags, nblock, nprune, result, queueVars, ntotal, nstarted, numfail>>
        /\ BusySlots(jobs') = BusySlots(jobs) /\ \A i \in Busy : jobs'[i].edge = jobs[i].edge
    <2>1. CASE Commands
      <3>1. numfail' = numfail
        BY <2>1 DEF Commands, PipeCloses, CommandExits
      <3>2. \A i \in Busy : i \in DOMAIN jobs
        BY DEF Busy, BusySlots
      <3> QED
        BY <1>0, <2>1, <3>1, <3>2, CommandEdges DEF edgeVars, countVars, histVars
    <2>2. CASE WaitForJobs \/ Poll \/ ScanEnd \/ SkipUser \/ NodeDone \/ UNCHANGED vars
      <3>1. UNCHANGED <<flags, nblock, nprune, result, queueVars, ntotal, nstarted, numfail, jobs>>
        BY <2>2 DEF WaitForJobs, Poll, ScanEnd, SkipUser, NodeDone, vars, edgeVars, histVars, countVars, jobVars
      <3> QED
        BY <3>1
    <2> QED
      BY <2>1, <2>2
  <1>2. pc' \notin {"return", "exit"} /\ (pc' = "add" <=> pc = "add")
    <2>1. CASE Commands \/ SkipUser \/ NodeDone \/ UNCHANGED vars
      <3>1. pc' = pc
        BY <1>0, <2>1, CommandEdges DEF SkipUser, NodeDone, vars, mainVars
      <3> QED
        BY <3>1
    <2>2. CASE WaitForJobs \/ Poll \/ ScanEnd
      BY <2>2 DEF WaitForJobs, Poll, ScanEnd, Stalled
    <2> QED
      BY <2>1, <2>2
  <1>3. Through' = Through
    BY <1>1 DEF Through
  <1>4. Working'
    <2>1. pc' # "add" => nstarted' = Cardinality(Started)
      BY <1>1, <1>2 DEF Working, Progress
    <2> QED
      BY <1>1, <1>2, <1>3, <2>1, WorkingSame
  <1> QED
    BY <1>2, <1>4 DEF ProgressInv

(* Once build() has returned, only samu's exit and left-over commands come. *)
LEMMA ReturnProgress ==
  ASSUME IInv, PoolInv, OrderInv, ProgressInv, pc \in {"return", "exit"}, [Next]_vars
  PROVE  ProgressInv'
  <1>0. TypeOK /\ pass = "targets" /\ todo = << >>
    BY DEF IInv, OrderInv, PoolInv, Between
  <1>1. Finished \/ Commands \/ UNCHANGED vars
    BY <1>0 DEF Next, Samu, Exited, AddTarget, AddInput, AddFinish, ManifestClean, ManifestRetry,
                ManifestPruned, BuildBegin, StartNothing, StartJob, StartFails, MayStart, BuildEnd, Stalled,
                WaitForJobs, Poll, JobDone, ScanEnd, Prune, Unblock, AtUser, SkipUser, NodeDone
  <1>2. /\ UNCHANGED <<flags, nprune, result, work, poolwork, numfail>> /\ pc' \in {"return", "exit"}
        /\ BusySlots(jobs') = BusySlots(jobs) /\ \A i \in Busy : jobs'[i].edge = jobs[i].edge
        /\ UNCHANGED <<pc, status>> \/ status' = "ok"
    <2>1. CASE Commands
      <3>1. numfail' = numfail
        BY <2>1 DEF Commands, PipeCloses, CommandExits
      <3>2. \A i \in Busy : i \in DOMAIN jobs
        BY DEF Busy, BusySlots
      <3> QED
        BY <1>0, <2>1, <3>1, <3>2, CommandEdges DEF edgeVars, histVars, queueVars, mainVars
    <2>2. CASE Finished \/ UNCHANGED vars
      BY <2>2 DEF Finished, vars, edgeVars, histVars, queueVars, jobVars, mainVars
    <2> QED
      BY <1>1, <2>1, <2>2
  <1>3. SUFFICES ASSUME ~SpawnFails PROVE BlockedByCapacity' /\ KeepsGoing'
    BY <1>2 DEF ProgressInv
  <1>4. BlockedByCapacity /\ KeepsGoing
    BY <1>3 DEF ProgressInv
  <1>5. BlockedByCapacity'
    BY <1>2, <1>4, CapacityKept
  <1>6. KeepsGoing'
    <2>1. \A d : Settled(d)' <=> Settled(d)
      BY <1>2 DEF Settled, Seen, OnStack
    <2> QED
      BY <1>2, <1>4, <2>1 DEF KeepsGoing
  <1> QED
    BY <1>5, <1>6


LEMMA ProgressStep ==
  ~DryRun /\ IInv /\ CycleInv /\ PoolInv /\ OrderInv /\ ProgressInv /\ [Next]_vars => ProgressInv'
  <1> SUFFICES ASSUME ~DryRun, IInv, CycleInv, PoolInv, OrderInv, ProgressInv, [Next]_vars
               PROVE  ProgressInv'
    OBVIOUS
  <1>1. CASE pc \in {"return", "exit"}
    BY <1>1, ReturnProgress
  <1>2. CASE pc \notin {"return", "exit"}
    <2>0. Working
      BY <1>2 DEF ProgressInv
    <2>1. CASE AddTarget \/ AddInput \/ AddFinish
      BY <2>0, <2>1, AddProgress
    <2>2. CASE BuildBegin
      BY <2>0, <2>2, BeginProgress
    <2>3. CASE BuildEnd
      BY <2>0, <2>3, EndProgress
    <2>4. CASE StartNothing \/ StartJob \/ StartFails \/ JobDone
      <3>1. Working' /\ pc' \in {"start", "scan"}
        BY <2>0, <2>4, NothingWorks, StartWorks, FailureWorks, DoneWorks
      <3> QED
        BY <3>1 DEF ProgressInv
    <2>5. CASE Prune \/ Unblock
      <3>1. Working' /\ pc' = pc
        BY <2>0, <2>5, PruneWorks, UnblockWorks
      <3> QED
        BY <1>2, <3>1 DEF ProgressInv
    <2>6. CASE WaitForJobs \/ Poll \/ ScanEnd \/ SkipUser \/ NodeDone \/ Commands \/ UNCHANGED vars
      BY <1>2, <2>0, <2>6, IdleProgress
    <2>7. CASE ManifestClean \/ ManifestRetry \/ ManifestPruned \/ Finished
      BY <1>2, <2>7 DEF OrderInv, ManifestClean, ManifestRetry, ManifestPruned, Finished
    <2> QED
      BY <2>1, <2>2, <2>3, <2>4, <2>5, <2>6, <2>7 DEF Next, Samu, Exited
  <1> QED
    BY <1>1, <1>2

LEMMA ProgressInit == Init => ProgressInv
  <1> SUFFICES ASSUME Init PROVE ProgressInv
    OBVIOUS
  <1>1. /\ pc = "add" /\ numfail = 0 /\ ntotal = 0 /\ work = << >> /\ jobs = << >>
        /\ poolwork = [p \in Pools |-> << >>] /\ poolnum = [p \in Pools |-> 0]
        /\ flags = [e \in Edges |-> {}] /\ result = [e \in Edges |-> "none"]
    BY DEF Init
  <1>2. Through = {} /\ Planned = {}
    BY <1>1 DEF Through, Planned
  <1>3. SlotsKept
    <2> SUFFICES ASSUME NEW p \in Pools PROVE Slack(p) = 0
      BY DEF SlotsKept
    <2>1. BusySlots(jobs) = {}
      BY <1>1 DEF BusySlots
    <2>2. Cardinality(Runs(jobs, p)) = 0
      BY <2>1, NoRuns
    <2>3. Count(work, PoolEdges(p)) = 0
      BY <1>1, CountEmpty
    <2> QED
      BY <1>1, <2>2, <2>3 DEF Slack, Held
  <1>4. Waits /\ Queued /\ Running /\ Failed
    BY <1>1, <1>2 DEF Waits, Queued, IdleEdges, Idle, Running, Failed
  <1>5. Progress
    BY <1>1, <1>2, FS_EmptySet DEF Progress
  <1> QED
    BY <1>1, <1>2, <1>3, <1>4, <1>5 DEF ProgressInv, Working

(* build() is over without a failure: every edge is settled. *)
LEMMA AllSettled ==
  ASSUME IInv, CycleInv, PoolInv, OrderInv, ProgressInv
  PROVE  NothingForgotten
  <1> SUFFICES ASSUME pc = "start", Stalled, numjobs = 0, numfail = 0
               PROVE  /\ \A e \in Edges : "WORK" \in flags[e] => Settled(e)
                      /\ \A p \in Pools : poolwork[p] = << >>
                      /\ nstarted = ntotal
    BY DEF NothingForgotten
  <1>1. TypeOK /\ SlotsSound /\ Working /\ Acyclic(Through) /\ todo = << >>
    BY DEF IInv, ProgressInv, CycleInv, Stalled
  <1>2. work = << >>
    BY BuildAssumption DEF Stalled, BuildAssumption
  <1>3. ~Leaked /\ \A e \in Edges : result[e] # "failed"
    BY <1>1 DEF Leaked, Working, Failed
  <1>4. /\ \A p \in Pools : poolwork[p] = << >>
        /\ \A e \in Edges : result[e] # "running"
        /\ \A e \in Through : ~Settled(e) /\ result[e] # "failed" =>
              \E f \in Producers(e) : f \in Edges /\ ~Settled(f)
    BY <1>1, <1>2, <1>3, NothingLeft
  <1>5. \A e \in Edges : "WORK" \in flags[e] => e \in Through
    <2>1. \A e \in Edges : "CYCLE" \notin flags[e]
      BY NotMarked DEF CycleInv
    <2> QED
      BY <2>1 DEF Through
  <1>6. \A e \in Through : Settled(e)
    <2> DEFINE S == {e \in Through : ~Settled(e)}
    <2>1. SUFFICES ASSUME S # {} PROVE FALSE
      OBVIOUS
    <2>2. PICK e \in S : Producers(e) \cap S = {}
      BY <1>1, <2>1 DEF Acyclic
    <2>3. PICK f \in Producers(e) : f \in Edges /\ ~Settled(f)
      BY <1>3, <1>4, <2>2 DEF Through
    <2>4. f \in Through
      BY <2>2, <2>3 DEF CycleInv, Closed
    <2> QED
      BY <2>2, <2>3, <2>4
  <1>7. nstarted = ntotal
    <2>1. Planned = Started
      <3>1. \A e \in Through : result[e] # "none" => Dirty(flags[e])
        BY <1>1 DEF Working, Pruning
      <3> QED
        BY <1>6, <3>1 DEF Planned, Started
    <2> QED
      BY <1>1, <2>1 DEF Working, Progress
  <1> QED
    BY <1>4, <1>5, <1>6, <1>7

-----------------------------------------------------------------------------
(* The theorems *)

(* Where every job can be started: an edge waits on a pool's list only     *)
(* while all slots of the pool are in use, so that a slot given back goes  *)
(* to a waiting edge at once (queue(), jobdone()).  A job that could not   *)
(* be started, and a dry run, keep their slot for good.                    *)
THEOREM CapacityUsed ==
  ASSUME ~HasManifestRule, ~DryRun, ~SpawnFails
  PROVE  Spec => []BlockedByCapacity
  <1>1. Init => ProgressInv /\ OrderInv /\ CycleInv /\ PoolInv
    BY ProgressInit, OrderInit, CycleInit, PoolInit
  <1>2. IInv /\ CycleInv /\ PoolInv /\ [Next]_vars => CycleInv' /\ PoolInv'
    BY CycleStep, PoolStep
  <1>3. IInv /\ CycleInv /\ PoolInv /\ OrderInv /\ ProgressInv /\ [Next]_vars => OrderInv' /\ ProgressInv'
    BY OrderStep, ProgressStep DEF Exact
  <1>4. IInv /\ OrderInv /\ ProgressInv => BlockedByCapacity
    BY Capacity DEF IInv, ProgressInv
  <1> QED
    BY <1>1, <1>2, <1>3, <1>4, Invariant, PTL DEF Spec

(* When build() ends without a failure, every edge buildadd() took on was  *)
(* run or needs no run, no edge is left waiting for its pool, and the      *)
(* counter of started commands has reached the total (nodedone(), build(), *)
(* jobdone()): whatever was pruned, and in whatever order jobs ended.      *)
THEOREM AllBuilt ==
  ASSUME ~HasManifestRule, ~DryRun
  PROVE  Spec => []NothingForgotten
  <1>1. Init => ProgressInv /\ OrderInv /\ CycleInv /\ PoolInv
    BY ProgressInit, OrderInit, CycleInit, PoolInit
  <1>2. IInv /\ CycleInv /\ PoolInv /\ [Next]_vars => CycleInv' /\ PoolInv'
    BY CycleStep, PoolStep
  <1>3. IInv /\ CycleInv /\ PoolInv /\ OrderInv /\ ProgressInv /\ [Next]_vars => OrderInv' /\ ProgressInv'
    BY OrderStep, ProgressStep DEF Exact
  <1>4. IInv /\ CycleInv /\ PoolInv /\ OrderInv /\ ProgressInv => NothingForgotten
    BY AllSettled
  <1> QED
    BY <1>1, <1>2, <1>3, <1>4, Invariant, PTL DEF Spec

(* With -k, build() gives up before the limit of failures only over edges  *)
(* that need, through edges that did not run, one that failed (build()).   *)
THEOREM GivesUpLate ==
  ASSUME ~HasManifestRule, ~DryRun, ~SpawnFails
  PROVE  Spec => []KeepsGoing
  <1>1. Init => ProgressInv /\ OrderInv /\ CycleInv /\ PoolInv
    BY ProgressInit, OrderInit, CycleInit, PoolInit
  <1>2. IInv /\ CycleInv /\ PoolInv /\ [Next]_vars => CycleInv' /\ PoolInv'
    BY CycleStep, PoolStep
  <1>3. IInv /\ CycleInv /\ PoolInv /\ OrderInv /\ ProgressInv /\ [Next]_vars => OrderInv' /\ ProgressInv'
    BY OrderStep, ProgressStep DEF Exact
  <1>4. ProgressInv => KeepsGoing
    BY DEF ProgressInv, KeepsGoing
  <1> QED
    BY <1>1, <1>2, <1>3, <1>4, Invariant, PTL DEF Spec

-----------------------------------------------------------------------------
(* What is left behind: after a build that succeeded, every edge that      *)
(* buildadd() took on is up to date by the times on disk and in the log.   *)
(*                                                                         *)
(* The argument is about what is known of an edge that was found clean but *)
(* has inputs to be rebuilt.  Its outputs are compared with its inputs     *)
(* once, in buildadd(); later an input may become newer.  Then either the  *)
(* edge is told of it by nodedone(), which leaves nprune above nblock, so  *)
(* that nblock falls to 0 first and the edge is run; or the input's        *)
(* command left the file alone and the comparison still stands.            *)

(* Times do not lie in the future. *)
Past == \A n \in Nodes : disk[n] <= clock

(* What samu knows of a file is true, unless its command was started and   *)
(* has not succeeded.                                                      *)
Unsure(n) == Gen[n] \in Edges /\ result[Gen[n]] \in {"running", "failed"}
Known == \A n \in Nodes : mtime[n] # MTIME_UNKNOWN /\ ~Unsure(n) => mtime[n] = disk[n]

(* buildadd() has stat'ed the outputs of the edges it has entered and the  *)
(* inputs it has passed.                                                   *)
Found(ns) == \A n \in ns : mtime[n] # MTIME_UNKNOWN
Statted ==
    /\ \A e \in Edges : "WORK" \in flags[e] => Found(Members(Out[e]))
    /\ \A e \in Through : Found(Members(In[e]))
    /\ \A k \in DOMAIN adding :
          LET e == adding[k].edge IN
          Found({In[e][i] : i \in {j \in DOMAIN In[e] : j < adding[k].input}})

(* An edge without its dependency record is out of date. *)
Recorded ==
    \A e \in Edges :
        /\ "WORK" \notin flags[e] => "DEPS" \notin flags[e]
        /\ "WORK" \in flags[e] /\ "DIRTY_OUT" \notin flags[e] => e \notin nodeps

(* An edge that has an input to be rebuilt is marked so. *)
Marks ==
    /\ pc = "add" => \A n \in Nodes : Gen[n] \in Through /\ Dirty(flags[Gen[n]]) => dirty[n]
    /\ \A e \in Through : \A n \in Essential(e) :
          Gen[n] \in Edges /\ Dirty(flags[Gen[n]]) => "DIRTY_IN" \in flags[e]

(* By the times in m, input n does not make e's outputs out of date. *)
OldFor(e, n, m) ==
    m[n] # MTIME_MISSING =>
        \A o \in Members(Out[e]) :
            /\ m[n] > m[o] => e \in Restat /\ logmtime[o] # MTIME_MISSING
            /\ logmtime[o] # MTIME_MISSING => m[n] <= logmtime[o]

(* So are the outputs of e all there, and made by its present command. *)
Made(e, m) ==
    \A o \in Members(Out[e]) :
        /\ m[o] # MTIME_MISSING
        /\ e \in Generator \/ (logmtime[o] # MTIME_MISSING /\ samehash[o])

(* Input i of e was rebuilt, and nodedone() is about to tell e. *)
ToTell(e, i) ==
    /\ i \in Pending(e) /\ "DIRTY_IN" \in flags[e] /\ Gen[In[e][i]] \in SettledEdges
    /\ \A k \in DOMAIN todo : todo[k].node = In[e][i] => ~todo[k].prune

(* An edge whose outputs were found up to date: they still are, or the     *)
(* edge will be run, since nprune cannot fall to 0 before nblock does.     *)
StillOld(e, i) ==
    \/ OldFor(e, In[e][i], mtime)
    \/ nprune[e] # 0 /\ nprune[e] > nblock[e]
    \/ ToTell(e, i)
Unrun ==
    \A e \in Through \ Phony : result[e] = "none" /\ "DIRTY_OUT" \notin flags[e] =>
        Made(e, mtime) /\ \A i \in 1..Inorder[e] : StillOld(e, i)

(* The command of a job writes after all of its inputs, or not at all. *)
Outcome ==
    \A j \in Busy :
        LET e == jobs[j].edge IN
        /\ jobs[j].proc \in {"live", "ok", "fail"}
        /\ jobs[j].proc = "live" => \A o \in Members(Out[e]) : disk[o] = mtime[o]
        /\ jobs[j].proc = "ok" => \A o \in Members(Out[e]) :
              /\ disk[o] # MTIME_MISSING
              /\ \/ disk[o] > mtime[o] /\ \A n \in Essential(e) : disk[n] < disk[o]
                 \/ e \in Restat /\ disk[o] = mtime[o]

(* e is up to date by the times in m. *)
Current(e, m) ==
    /\ e \notin nodeps
    /\ \A o \in Members(Out[e]) : ~isdirty(e, m[o], logmtime[o], samehash[o], m)
Done == \A e \in Through \ Phony : result[e] = "ok" => Current(e, disk)

Timely ==
    /\ Past /\ Known /\ Statted /\ Recorded /\ Marks
    /\ Unrun /\ Outcome /\ Done

TimesInv ==
    IF pc \in {"return", "exit"}
    THEN /\ status # "fatal" => 
              /\ Busy = {}
              /\ \A e \in Edges \ Phony : "WORK" \in flags[e] => Current(e, disk)
         /\ pc = "return" => status = "run"
         /\ pc = "exit" => status # "run" 
    ELSE status = "run" /\ Timely

(* The files that samu finds are not from the future. *)
PastFiles == \A f \in InitFiles : \A n \in Nodes : f.disk[n] <= f.clock

-----------------------------------------------------------------------------
(* What is left alone *)

LEMMA Times ==
  ASSUME TypeOK
  PROVE  /\ disk \in [Nodes -> Nat \cup {MTIME_MISSING}] /\ clock \in Nat
         /\ mtime \in [Nodes -> Mtimes] /\ logmtime \in [Nodes -> Nat \cup {MTIME_MISSING}]
         /\ \A n \in Nodes : /\ disk[n] \in Int /\ disk[n] # MTIME_UNKNOWN
                             /\ mtime[n] \in Int /\ logmtime[n] \in Int
  BY DEF TypeOK, FileType, NodeType, Mtimes, MTIME_MISSING, MTIME_UNKNOWN

LEMMA Inputs ==
  ASSUME NEW e \in Edges
  PROVE  /\ Inorder[e] \in Nat /\ 1..Inorder[e] \subseteq DOMAIN In[e]
         /\ \A i \in DOMAIN In[e] : In[e][i] \in Nodes /\ In[e][i] \in Members(In[e])
         /\ \A i \in 1..Inorder[e] : In[e][i] \in Essential(e)
         /\ \A n \in Essential(e) : n \in Members(In[e]) /\ n \in Nodes /\ \E i \in 1..Inorder[e] : n = In[e][i]
         /\ \A n \in Members(In[e]) : Gen[n] \in Edges => Gen[n] \in Producers(e)
  <1>1. In[e] \in Seq(Nodes) /\ Inorder[e] \in Nat /\ Inorder[e] <= Len(In[e])
    BY GraphAssumption, UseAssumption DEF GraphAssumption, UseAssumption
  <1>2. DOMAIN In[e] = 1..Len(In[e]) /\ Len(In[e]) \in Nat
    BY <1>1
  <1>3. 1..Inorder[e] \subseteq DOMAIN In[e]
    BY <1>1, <1>2
  <1>4. \A i \in DOMAIN In[e] : In[e][i] \in Nodes /\ In[e][i] \in Members(In[e])
    BY <1>1 DEF Members
  <1>5. \A n \in Members(In[e]) : Gen[n] \in Edges => Gen[n] \in Producers(e)
    BY Generates DEF Producers
  <1> QED
    BY <1>1, <1>3, <1>4, <1>5 DEF Essential

(* The files and what is known of them stay, and no command starts to      *)
(* succeed.                                                                *)
LEMMA FilesSame ==
  ASSUME Timely, UNCHANGED <<disk, clock, nodeps, mtime, flags, adding>>,
         pc' = "add" => pc = "add" /\ dirty' = dirty,
         \A e \in Edges : result[e] \in {"running", "failed"} => result'[e] \in {"running", "failed"}
  PROVE  Past' /\ Known' /\ Statted' /\ Recorded' /\ Marks'
  <1>1. Through' = Through
    BY DEF Through
  <1>2. Past' /\ Recorded'
    BY DEF Timely, Past, Recorded
  <1>3. Known'
    BY DEF Timely, Known, Unsure
  <1>4. Statted'
    BY <1>1 DEF Timely, Statted, Found
  <1>5. Marks'
    BY <1>1 DEF Timely, Marks
  <1> QED
    BY <1>2, <1>3, <1>4, <1>5

LEMMA DoneSame ==
  ASSUME Done, UNCHANGED <<disk, nodeps, logmtime, samehash, flags>>,
         \A e \in Edges \ Phony : result'[e] = "ok" => result[e] = "ok"
  PROVE  Done'
  <1>1. Through' = Through /\ Through \subseteq Edges
    BY DEF Through
  <1>2. \A e : Current(e, disk)' <=> Current(e, disk)
    BY DEF Current
  <1> QED
    BY <1>1, <1>2 DEF Done

LEMMA OutcomeSame ==
  ASSUME Outcome, UNCHANGED <<disk, mtime, jobs>>
  PROVE  Outcome'
  BY DEF Outcome, Busy

(* Only the count of the inputs that an edge still waits for changes.      *)
LEMMA UnrunKept ==
  ASSUME Unrun, UNCHANGED <<mtime, logmtime, samehash, flags>>,
         \A e \in Through \ Phony : result'[e] = "none" => result[e] = "none",
         \A e \in Through \ Phony : \A i \in 1..Inorder[e] :
            result[e] = "none" /\ result'[e] = "none" /\ "DIRTY_OUT" \notin flags[e] /\ StillOld(e, i)
            => StillOld(e, i)'
  PROVE  Unrun'
  <1>1. Through' = Through
    BY DEF Through
  <1>2. \A e : Made(e, mtime)' <=> Made(e, mtime)
    BY DEF Made
  <1> QED
    BY <1>1, <1>2 DEF Unrun

(* The calls of nodedone() in new are among those of old, or tell of edges *)
(* not in S.                                                               *)
Continues(S, new, old) ==
    \A k \in DOMAIN new :
        \/ Gen[new[k].node] \notin S
        \/ \E j \in DOMAIN old : old[j].node = new[k].node /\ old[j].prune = new[k].prune

LEMMA ToTellKept ==
  ASSUME UNCHANGED flags, SettledEdges \subseteq SettledEdges', Continues(SettledEdges, todo', todo),
         NEW e, NEW i, ToTell(e, i), i \in Pending(e)'
  PROVE  ToTell(e, i)'
  <1>1. /\ "DIRTY_IN" \in flags[e] /\ Gen[In[e][i]] \in SettledEdges
        /\ \A k \in DOMAIN todo : todo[k].node = In[e][i] => ~todo[k].prune
    BY DEF ToTell
  <1>2. \A k \in DOMAIN todo' : todo'[k].node = In[e][i] => ~todo'[k].prune
    BY <1>1 DEF Continues
  <1> QED
    BY <1>1, <1>2 DEF ToTell

LEMMA StillOldKept ==
  ASSUME UNCHANGED <<mtime, logmtime, flags>>, SettledEdges \subseteq SettledEdges',
         Continues(SettledEdges, todo', todo), NEW e, NEW i,
         StillOld(e, i), nprune'[e] = nprune[e], nblock'[e] = nblock[e], Pending(e)' = Pending(e)
  PROVE  StillOld(e, i)'
  <1>1. CASE OldFor(e, In[e][i], mtime)
    BY <1>1 DEF StillOld, OldFor
  <1>2. CASE nprune[e] # 0 /\ nprune[e] > nblock[e]
    BY <1>2 DEF StillOld
  <1>3. CASE ToTell(e, i)
    <2>1. i \in Pending(e)'
      BY <1>3 DEF ToTell
    <2> QED
      BY <1>3, <2>1, ToTellKept DEF StillOld
  <1> QED
    BY <1>1, <1>2, <1>3 DEF StillOld

LEMMA TodoSame ==
  ASSUME NEW S, NEW s
  PROVE  Continues(S, s, s)
  BY DEF Continues

(* Nothing of what the invariant is about changes. *)
LEMMA TimelySame ==
  ASSUME Timely, UNCHANGED <<disk, clock, nodeps, mtime, logmtime, samehash, flags, nblock, nprune,
                             adding, result, todo>>,
         jobs' = jobs \/ Busy' = {}, pc' = "add" => pc = "add" /\ dirty' = dirty
  PROVE  Timely'
  <1>1. Past' /\ Known' /\ Statted' /\ Recorded' /\ Marks'
    BY FilesSame
  <1>2. Done' /\ Outcome'
    BY DoneSame, OutcomeSame DEF Timely, Outcome
  <1>3. SettledEdges' = SettledEdges /\ Through \subseteq Edges
    BY DEF SettledEdges, Settled, Seen, OnStack, Through
  <1>4. Unrun'
    <2>1. \A e : Pending(e)' = Pending(e)
      BY <1>3 DEF Pending
    <2>2. Continues(SettledEdges, todo', todo)
      BY TodoSame
    <2>3. Unrun
      BY DEF Timely
    <2>4. ASSUME NEW e \in Through \ Phony, NEW i \in 1..Inorder[e], StillOld(e, i) PROVE StillOld(e, i)'
      BY <1>3, <2>1, <2>2, <2>4, StillOldKept
    <2> QED
      BY <2>3, <2>4, UnrunKept
  <1> QED
    BY <1>1, <1>2, <1>4 DEF Timely

-----------------------------------------------------------------------------
(* nodedone() *)

LEMMA NextUse ==
  ASSUME NEW f \in FrameType
  PROVE  LET h == [f EXCEPT !.use = @ + 1]
         IN h \in FrameType /\ h.node = f.node /\ h.prune = f.prune
  BY DEF FrameType

LEMMA AfterContinues ==
  ASSUME NEW S, NEW fr \in Seq(FrameType), fr # << >>
  PROVE  Continues(S, Advanced(fr), fr)
  <1> DEFINE f == Head(fr)
             h == [Head(fr) EXCEPT !.use = @ + 1]
             t == Tail(fr)
  <1>1. /\ 1 \in DOMAIN fr /\ f = fr[1] /\ f \in FrameType /\ t \in Seq(FrameType)
        /\ Len(fr) \in Nat /\ DOMAIN fr = 1..Len(fr) /\ DOMAIN t = 1..(Len(fr) - 1)
        /\ \A k \in DOMAIN t : k + 1 \in DOMAIN fr /\ t[k] = fr[k + 1]
    BY Popped
  <1>2. h \in FrameType /\ h.node = f.node /\ h.prune = f.prune
    BY <1>1, NextUse
  <1>3. Advanced(fr) = <<h>> \o t
    BY DEF Advanced
  <1> HIDE DEF h, f
  <1>4. /\ DOMAIN Advanced(fr) = 1..(Len(t) + 1) /\ DOMAIN t = 1..Len(t) /\ Len(t) \in Nat
        /\ Advanced(fr)[1] = h
        /\ \A k \in 1..(Len(t) + 1) : k # 1 => k - 1 \in DOMAIN t /\ Advanced(fr)[k] = t[k - 1]
    BY <1>1, <1>2, <1>3, Pushed
  <1> HIDE DEF t
  <1> SUFFICES ASSUME NEW k \in DOMAIN Advanced(fr)
               PROVE  \E j \in DOMAIN fr : fr[j].node = Advanced(fr)[k].node /\ fr[j].prune = Advanced(fr)[k].prune
    BY DEF Continues
  <1>5. CASE k = 1
    BY <1>1, <1>2, <1>4, <1>5
  <1>6. CASE k # 1
    <2>1. k - 1 \in DOMAIN t /\ Advanced(fr)[k] = t[k - 1]
      BY <1>4, <1>6
    <2>2. (k - 1) + 1 \in DOMAIN fr /\ t[k - 1] = fr[(k - 1) + 1]
      BY <1>1, <2>1
    <2> QED
      BY <2>1, <2>2
  <1> QED
    BY <1>5, <1>6

LEMMA TailContinues ==
  ASSUME NEW S, NEW fr \in Seq(FrameType), fr # << >>
  PROVE  Continues(S, Tail(fr), fr)
  <1>1. \A k \in DOMAIN Tail(fr) : k + 1 \in DOMAIN fr /\ Tail(fr)[k] = fr[k + 1]
    BY Popped
  <1> QED
    BY <1>1 DEF Continues

LEMMA NotifyContinues ==
  ASSUME NEW S, NEW fr \in Seq(FrameType), NEW old, Continues(S, fr, old),
         NEW e \in Edges, e \notin S, NEW pr \in [DOMAIN Out[e] -> BOOLEAN]
  PROVE  Continues(S, Notify(e, pr) \o fr, old)
  <1> DEFINE N == Notify(e, pr)
             new == N \o fr
  <1>1. /\ Len(N) \in Nat /\ Len(fr) \in Nat /\ DOMAIN Out[e] = 1..Len(N)
        /\ DOMAIN new = 1..(Len(N) + Len(fr))
        /\ \A k \in 1..Len(N) : new[k].node = Out[e][k]
        /\ \A k \in 1..(Len(N) + Len(fr)) : k \notin 1..Len(N) => k - Len(N) \in DOMAIN fr /\ new[k] = fr[k - Len(N)]
    BY NotifyFrames
  <1>2. \A k \in DOMAIN Out[e] : Gen[Out[e][k]] = e
    BY Generates DEF Members
  <1> HIDE DEF N, new
  <1>3. \A k \in 1..Len(N) : Gen[new[k].node] \notin S
    BY <1>1, <1>2
  <1>4. \A k \in DOMAIN new : k \notin 1..Len(N) =>
           \/ Gen[new[k].node] \notin S
           \/ \E j \in DOMAIN old : old[j].node = new[k].node /\ old[j].prune = new[k].prune
    BY <1>1 DEF Continues
  <1> QED
    BY <1>3, <1>4 DEF Continues, N, new

LEMMA PassedTimes ==
  ASSUME IInv, CycleInv, PoolInv, OrderInv, OrderInv', Timely, SkipUser \/ NodeDone
  PROVE  Timely'
  <1>0. TypeOK /\ todo # << >> /\ pc \notin {"add", "exit"} /\ todo \in Seq(FrameType)
    BY NodedoneWhen DEF IInv, SkipUser, NodeDone, TypeOK, TodoType
  <1>1. UNCHANGED <<disk, clock, nodeps, mtime, logmtime, samehash, flags, nblock, nprune, adding, jobs, result, pc>>
    BY DEF SkipUser, NodeDone, fileVars, nodeVars, edgeVars, addVars, jobVars, mainVars, histVars
  <1>2. Past' /\ Known' /\ Statted' /\ Recorded' /\ Marks'
    BY <1>0, <1>1, FilesSame
  <1>3. Done' /\ Outcome'
    BY <1>1, DoneSame, OutcomeSame DEF Timely
  <1>4. SettledEdges' = SettledEdges /\ Through \subseteq Edges
    BY <1>1 DEF SettledEdges, Settled, Seen, OnStack, Through
  <1>5. /\ \A d \in Through : Pending(d)' = Pending(d)
        /\ Continues(SettledEdges, todo', todo)
    <2> DEFINE S == SettledEdges
               fr == todo
    <2>1. /\ S \in SUBSET Edges /\ fr \in Seq(FrameType) /\ TellsOnce(S, fr) /\ fr # << >>
          /\ \A d : Pending(d) = Untold(S, fr, d)
      BY <1>0 DEF SettledEdges, OrderInv, Telling, Pending
    <2>2. \A d : Pending(d)' = Untold(S, todo', d)
      BY <1>4 DEF Pending
    <2>3. CASE SkipUser
      <3>1. todo' = Advanced(fr) /\ Head(fr).use <= Len(Use[Head(fr).node]) /\ UseAt(fr) \notin Through
        BY <2>3 DEF SkipUser, Through, top, User, UseAt, After, Advanced
      <3> HIDE DEF S, fr
      <3>2. \A d \in Edges : d # UseAt(fr) => Untold(S, Advanced(fr), d) = Untold(S, fr, d)
        BY <2>1, <3>1, AdvanceTold
      <3>3. Continues(S, Advanced(fr), fr)
        BY <2>1, AfterContinues
      <3> QED
        BY <1>4, <2>1, <2>2, <3>1, <3>2, <3>3 DEF S, fr
    <2>4. CASE NodeDone
      <3>1. todo' = Tail(fr) /\ Head(fr).use > Len(Use[Head(fr).node])
        BY <2>4 DEF NodeDone, top
      <3> HIDE DEF S, fr
      <3>2. \A d \in Edges : Untold(S, Tail(fr), d) = Untold(S, fr, d)
        BY <2>1, <3>1, PopTold
      <3>3. Continues(S, Tail(fr), fr)
        BY <2>1, TailContinues
      <3> QED
        BY <1>4, <2>1, <2>2, <3>1, <3>2, <3>3 DEF S, fr
    <2> QED
      BY <2>3, <2>4
  <1>6. Unrun'
    <2>1. ASSUME NEW e \in Through \ Phony, NEW i \in 1..Inorder[e], StillOld(e, i) PROVE StillOld(e, i)'
      BY <1>1, <1>4, <1>5, <2>1, StillOldKept
    <2> QED
      BY <1>1, <2>1, UnrunKept DEF Timely
  <1> QED
    BY <1>2, <1>3, <1>6 DEF Timely

(* An input of which nodedone() is about to tell the edge is its node.     *)
LEMMA UserTold ==
  ASSUME TypeOK, CycleInv, PoolInv, OrderInv, AtUser
  PROVE  \E i \in Pending(User) :
            /\ i \in DOMAIN In[User] /\ In[User][i] = top.node
            /\ Untold(SettledEdges, After, User) = Pending(User) \ {i}
            /\ ToTell(User, i) => ~top.prune /\ "DIRTY_IN" \in flags[User]
  <1>0. todo # << >> /\ top.use <= Len(Use[top.node])
    BY DEF AtUser
  <1>1. PICK i \in Pending(User) :
               /\ i \in DOMAIN In[User] /\ In[User][i] = top.node
               /\ Untold(SettledEdges, After, User) = Pending(User) \ {i}
    BY <1>0, AfterTold
  <1>2. 1 \in DOMAIN todo /\ top = todo[1]
    BY <1>0, Popped DEF top, TypeOK, TodoType
  <1>3. ToTell(User, i) => ~top.prune /\ "DIRTY_IN" \in flags[User]
    BY <1>1, <1>2 DEF ToTell
  <1> QED
    BY <1>1, <1>3

LEMMA PruneTimes ==
  ASSUME IInv, CycleInv, PoolInv, OrderInv, OrderInv', Timely, Prune
  PROVE  Timely'
  <1>0. /\ TypeOK /\ AtUser /\ todo # << >> /\ top.use <= Len(Use[top.node]) /\ pc \notin {"add", "exit"}
        /\ todo \in Seq(FrameType)
    BY NodedoneWhen DEF IInv, Prune, AtUser, TypeOK, TodoType
  <1>1. PICK x : x = User
    OBVIOUS
  <1>2. PICK fr : fr = After
    OBVIOUS
  <1>3. /\ x \in Through /\ x \in Edges /\ ~Settled(x) /\ result[x] = "none"
        /\ nblock[x] = Cardinality(Pending(x)) /\ nblock[x] \in Nat \ {0}
    BY <1>0, <1>1, UserWaits
  <1>4. /\ nprune[x] = 1 /\ nprune' = [nprune EXCEPT ![x] = 0] /\ "DIRTY_OUT" \notin flags[x]
        /\ todo' = Notify(x, Always(x, TRUE)) \o fr
        /\ ~top.prune => "DIRTY_IN" \notin flags[x]
    BY <1>1, <1>2 DEF Prune, Prunable, Dirty
  <1>5. UNCHANGED <<disk, clock, nodeps, mtime, logmtime, samehash, flags, nblock, adding, jobs, result, pc>>
    BY DEF Prune, fileVars, nodeVars, addVars, jobVars, mainVars, histVars
  <1>6. PICK i \in Pending(x) :
            /\ i \in DOMAIN In[x] /\ In[x][i] = top.node
            /\ Untold(SettledEdges, fr, x) = Pending(x) \ {i}
            /\ ToTell(x, i) => ~top.prune /\ "DIRTY_IN" \in flags[x]
    BY <1>0, <1>1, <1>2, UserTold
  <1>7. Pending(x) = {i}
    <2>1. nblock[x] = 1
      <3>1. "DIRTY_OUT" \notin flags[x] => nprune[x] >= nblock[x]
        BY <1>0, <1>1, UserWaits
      <3> QED
        BY <1>3, <1>4, <3>1
    <2>2. IsFiniteSet(Pending(x))
      BY <1>3, UntoldFinite DEF Pending
    <2>3. \E j : Pending(x) = {j}
      BY <1>3, <2>1, <2>2, FS_Singleton
    <2> QED
      BY <2>3
  <1>8. \A j \in 1..Inorder[x] : StillOld(x, j) => OldFor(x, In[x][j], mtime)
    <2> SUFFICES ASSUME NEW j \in 1..Inorder[x], StillOld(x, j) PROVE OldFor(x, In[x][j], mtime)
      OBVIOUS
    <2>1. ~(nprune[x] > nblock[x])
      BY <1>3, <1>4
    <2>2. ~ToTell(x, j)
      <3>1. ToTell(x, j) => j = i
        BY <1>7 DEF ToTell
      <3> QED
        BY <1>4, <1>6, <3>1
    <2> QED
      BY <2>1, <2>2 DEF StillOld
  <1>9. nprune'[x] = 0 /\ \A d \in Edges : d # x => nprune'[d] = nprune[d]
    BY <1>0, <1>3, <1>4 DEF TypeOK, EdgeType
  <1>10. Settled(x)'
    BY <1>3, <1>4, <1>5, <1>9 DEF Settled, Seen, OnStack, Through
  <1>11. Always(x, TRUE) \in [DOMAIN Out[x] -> BOOLEAN]
    BY DEF Always
  <1>12. fr \in Seq(FrameType) /\ TellsOnce(SettledEdges, fr)
         /\ \A d \in Edges : d # x => Untold(SettledEdges, fr, d) = Pending(d)
    BY <1>0, <1>1, <1>2, AfterTold
  <1>13. /\ SettledEdges' = SettledEdges \cup {x}
         /\ \A d \in Edges : Untold(SettledEdges', todo', d) = Untold(SettledEdges, fr, d)
    <2> DEFINE pr == Always(x, TRUE)
    <2>1. /\ pr \in [DOMAIN Out[x] -> BOOLEAN] /\ todo' = Notify(x, pr) \o fr /\ Untold(SettledEdges, fr, x) = {}
      BY <1>4, <1>6, <1>7, <1>11
    <2> HIDE DEF pr
    <2>2. flags' = flags /\ \A d \in Edges : d # x => result'[d] = result[d] /\ nprune'[d] = nprune[d]
      BY <1>5, <1>9
    <2> QED
      BY <1>3, <1>10, <1>12, <2>1, <2>2, EdgeSettles
  <1>14. Continues(SettledEdges, todo', todo)
    <2>1. Continues(SettledEdges, fr, todo)
      <3>1. fr = Advanced(todo)
        BY <1>2 DEF After, Advanced, top
      <3> QED
        BY <1>0, <3>1, AfterContinues
    <2>2. x \notin SettledEdges
      BY <1>3 DEF SettledEdges
    <2> QED
      BY <1>3, <1>4, <1>11, <1>12, <2>1, <2>2, NotifyContinues
  <1>15. Past' /\ Known' /\ Statted' /\ Recorded' /\ Marks'
    BY <1>0, <1>5, FilesSame
  <1>16. Done' /\ Outcome'
    BY <1>5, DoneSame, OutcomeSame DEF Timely
  <1>17. Unrun'
    <2>1. ASSUME NEW e \in Through \ Phony, NEW j \in 1..Inorder[e], StillOld(e, j) PROVE StillOld(e, j)'
      <3>1. CASE e = x
        <4>1. OldFor(x, In[x][j], mtime)
          BY <1>8, <2>1, <3>1
        <4> QED
          BY <1>5, <3>1, <4>1 DEF StillOld, OldFor
      <3>2. CASE e # x
        <4>1. e \in Edges
          BY DEF Through
        <4>2. Pending(e)' = Pending(e)
          BY <1>12, <1>13, <3>2, <4>1 DEF Pending
        <4> QED
          BY <1>5, <1>9, <1>13, <1>14, <2>1, <3>2, <4>1, <4>2, StillOldKept
      <3> QED
        BY <3>1, <3>2
    <2> QED
      BY <1>5, <2>1, UnrunKept DEF Timely
  <1> QED
    BY <1>15, <1>16, <1>17 DEF Timely

LEMMA UnblockTimes ==
  ASSUME IInv, CycleInv, PoolInv, OrderInv, OrderInv', Timely, Unblock
  PROVE  Timely'
  <1>0. /\ TypeOK /\ AtUser /\ todo # << >> /\ top.use <= Len(Use[top.node]) /\ pc \notin {"add", "exit"}
        /\ todo \in Seq(FrameType)
    BY NodedoneWhen DEF IInv, Unblock, AtUser, TypeOK, TodoType
  <1>1. PICK x : x = User
    OBVIOUS
  <1>2. /\ x \in Through /\ x \in Edges /\ ~Settled(x) /\ result[x] = "none"
        /\ nblock[x] \in Nat \ {0}
        /\ "DIRTY_OUT" \notin flags[x] => nprune[x] >= nblock[x]
    BY <1>0, <1>1, UserWaits
  <1>3. /\ \/ Prunable /\ nprune[x] # 1 /\ nprune' = [nprune EXCEPT ![x] = nprune[x] - 1]
           \/ ~Prunable /\ nprune' = nprune
        /\ nblock' = [nblock EXCEPT ![x] = nblock[x] - 1]
        /\ todo' = After
    BY <1>1 DEF Unblock
  <1>4. UNCHANGED <<disk, clock, nodeps, mtime, logmtime, samehash, flags, adding, jobs, result, pc>>
    BY DEF Unblock, fileVars, nodeVars, addVars, jobVars, mainVars, histVars
  <1>5. nblock \in [Edges -> Int] /\ nprune \in [Edges -> Int]
    BY <1>0 DEF TypeOK, EdgeType
  <1>6. /\ nblock'[x] = nblock[x] - 1
        /\ \/ Prunable /\ nprune[x] # 1 /\ nprune'[x] = nprune[x] - 1
           \/ ~Prunable /\ nprune'[x] = nprune[x]
        /\ \A d \in Edges : d # x => nprune'[d] = nprune[d] /\ nblock'[d] = nblock[d]
    BY <1>2, <1>3, <1>5
  <1>7. ~Settled(x)'
    <2>1. "DIRTY_OUT" \notin flags[x] => nprune[x] # 0
      BY <1>2 DEF Settled, Seen, OnStack, Through
    <2>2. "DIRTY_OUT" \notin flags[x] => nprune'[x] # 0
      BY <1>2, <1>5, <1>6, <2>1
    <2> QED
      BY <1>2, <1>4, <2>2 DEF Settled
  <1>8. SettledEdges' = SettledEdges
    BY <1>2, <1>4, <1>6, <1>7, OneEdge
  <1>9. PICK i \in Pending(x) :
            /\ i \in DOMAIN In[x] /\ In[x][i] = top.node
            /\ Untold(SettledEdges, After, x) = Pending(x) \ {i}
            /\ ToTell(x, i) => ~top.prune /\ "DIRTY_IN" \in flags[x]
    BY <1>0, <1>1, UserTold
  <1>10. /\ Pending(x)' = Pending(x) \ {i}
         /\ \A d \in Edges : d # x => Pending(d)' = Pending(d)
    <2>1. \A d \in Edges : d # x => Untold(SettledEdges, After, d) = Pending(d)
      BY <1>0, <1>1, AfterTold
    <2> QED
      BY <1>3, <1>8, <1>9, <2>1 DEF Pending
  <1>11. Continues(SettledEdges, todo', todo)
    <2>1. todo' = Advanced(todo)
      BY <1>3 DEF After, Advanced, top
    <2> QED
      BY <1>0, <2>1, AfterContinues
  <1>12. Past' /\ Known' /\ Statted' /\ Recorded' /\ Marks'
    BY <1>0, <1>4, FilesSame
  <1>13. Done' /\ Outcome'
    BY <1>4, DoneSame, OutcomeSame DEF Timely
  <1>14. Unrun'
    <2>1. ASSUME NEW e \in Through \ Phony, NEW j \in 1..Inorder[e], "DIRTY_OUT" \notin flags[e], StillOld(e, j)
          PROVE  StillOld(e, j)'
      <3>1. CASE e # x
        <4>1. e \in Edges
          BY DEF Through
        <4> QED
          BY <1>4, <1>6, <1>8, <1>10, <1>11, <2>1, <3>1, <4>1, StillOldKept
      <3>2. CASE e = x /\ OldFor(x, In[x][j], mtime)
        BY <1>4, <3>2 DEF StillOld, OldFor
      <3>3. CASE e = x /\ nprune[x] # 0 /\ nprune[x] > nblock[x]
        <4>1. nprune'[x] # 0 /\ nprune'[x] > nblock'[x]
          BY <1>2, <1>5, <1>6, <3>3
        <4> QED
          BY <3>3, <4>1 DEF StillOld
      <3>4. CASE e = x /\ ToTell(x, j) /\ j # i
        <4>1. j \in Pending(x)'
          BY <1>10, <3>4 DEF ToTell
        <4>2. ToTell(x, j)'
          BY <1>4, <1>8, <1>11, <3>4, <4>1, ToTellKept
        <4> QED
          BY <3>4, <4>2 DEF StillOld
      <3>5. CASE e = x /\ ToTell(x, i)
        <4>1. ~Prunable
          BY <1>1, <1>9, <3>5 DEF Prunable, Dirty
        <4>2. nprune'[x] # 0 /\ nprune'[x] > nblock'[x]
          BY <1>2, <1>5, <1>6, <2>1, <3>5, <4>1
        <4> QED
          BY <3>5, <4>2 DEF StillOld
      <3> QED
        BY <2>1, <3>1, <3>2, <3>3, <3>4, <3>5 DEF StillOld
    <2> QED
      BY <1>4, <2>1, UnrunKept DEF Timely
  <1> QED
    BY <1>12, <1>13, <1>14 DEF Timely

-----------------------------------------------------------------------------
(* build(): starting the edges *)

(* An edge that was started has settled producers; settled edges are not   *)
(* writing.                                                                *)
LEMMA InputsSettled ==
  ASSUME OrderInv, pc # "exit", NEW e \in Through, Settled(e) \/ result[e] # "none"
  PROVE  \A n \in Members(In[e]) : Gen[n] \in Edges => Gen[n] \in SettledEdges /\ ~Unsure(n)
  <1>1. e \in Edges /\ Counted(e)
    BY DEF Through, OrderInv
  <1>2. Pending(e) = {}
    BY <1>1 DEF Counted
  <1>3. Producers(e) \subseteq SettledEdges
    BY <1>1, <1>2, ProducersSettled DEF Pending
  <1>4. \A d \in SettledEdges : result[d] \notin {"running", "failed"}
    BY DEF SettledEdges, Settled
  <1>5. ASSUME NEW n \in Members(In[e]), Gen[n] \in Edges
        PROVE  Gen[n] \in SettledEdges /\ ~Unsure(n)
    <2>1. Gen[n] \in SettledEdges
      BY <1>1, <1>3, <1>5, Inputs
    <2> QED
      BY <1>4, <2>1 DEF Unsure
  <1> QED
    BY <1>5

(* Edge x has succeeded, and its users are to be told. *)
LEMMA UsersToTell ==
  ASSUME TypeOK, OrderInv, pc # "exit", todo = << >>, NEW x \in Through, x \in Edges, ~Settled(x), Pending(x) = {},
         UNCHANGED <<flags, nprune>>, result'[x] = "ok", \A d \in Edges : d # x => result'[d] = result[d],
         NEW pr \in [DOMAIN Out[x] -> BOOLEAN], todo' = Notify(x, pr)
  PROVE  /\ SettledEdges' = SettledEdges \cup {x}
         /\ \A d \in Edges : Pending(d)' = Pending(d)
         /\ Continues(SettledEdges, todo', todo)
  <1>1. todo' = Notify(x, pr) \o todo
    <2>1. Notify(x, pr) \in Seq(FrameType)
      BY NotifyType
    <2> QED
      BY <2>1, JoinNothing
  <1>2. Settled(x)'
    BY DEF Settled, Seen, OnStack, Through
  <1>3. todo \in Seq(FrameType) /\ TellsOnce(SettledEdges, todo) /\ Untold(SettledEdges, todo, x) = {}
    BY DEF TypeOK, TodoType, OrderInv, Telling, Pending
  <1>4. /\ SettledEdges' = SettledEdges \cup {x}
        /\ \A d \in Edges : Untold(SettledEdges', todo', d) = Untold(SettledEdges, todo, d)
    BY <1>1, <1>2, <1>3, EdgeSettles, ZenonT(40)
  <1>5. Continues(SettledEdges, todo', todo)
    <2>1. Continues(SettledEdges, todo, todo)
      BY TodoSame
    <2>2. x \notin SettledEdges
      BY DEF SettledEdges
    <2>3. Continues(SettledEdges, Notify(x, pr) \o todo, todo)
      BY <1>3, <2>1, <2>2, NotifyContinues
    <2> QED
      BY <1>1, <2>3
  <1> QED
    BY <1>4, <1>5 DEF Pending

LEMMA NothingTimes ==
  ASSUME ~DryRun, IInv, OrderInv, Timely, StartNothing
  PROVE  Timely'
  <1>0. TypeOK /\ MayStart /\ pc = "start" /\ todo = << >>
    BY DEF IInv, StartNothing, MayStart
  <1>1. PICK x \in Through :
            /\ x = Head(work) /\ x \in Edges /\ result[x] = "none" /\ ~Settled(x) /\ Pending(x) = {}
    BY <1>0, HeadReady
  <1>2. /\ x \in Phony /\ result' = [result EXCEPT ![x] = "ok"]
        /\ todo' = Notify(x, Always(x, FALSE))
        /\ UNCHANGED <<disk, clock, nodeps, mtime, logmtime, samehash, flags, nblock, nprune, adding, jobs, pc>>
    BY <1>1 DEF StartNothing, fileVars, nodeVars, edgeVars, addVars, jobVars, mainVars
  <1>3. result'[x] = "ok" /\ \A d \in Edges : d # x => result'[d] = result[d]
    BY <1>0, <1>1, <1>2 DEF TypeOK, HistType
  <1>4. /\ SettledEdges' = SettledEdges \cup {x}
        /\ \A d \in Edges : Pending(d)' = Pending(d)
        /\ Continues(SettledEdges, todo', todo)
    <2>1. Always(x, FALSE) \in [DOMAIN Out[x] -> BOOLEAN]
      BY DEF Always
    <2> QED
      BY <1>0, <1>1, <1>2, <1>3, <2>1, UsersToTell
  <1>5. Past' /\ Known' /\ Statted' /\ Recorded' /\ Marks'
    BY <1>0, <1>1, <1>2, <1>3, FilesSame
  <1>6. Done' /\ Outcome'
    BY <1>2, <1>3, DoneSame, OutcomeSame DEF Timely
  <1>7. Unrun'
    <2>1. ASSUME NEW e \in Through \ Phony, NEW i \in 1..Inorder[e], StillOld(e, i) PROVE StillOld(e, i)'
      <3>1. e \in Edges
        BY DEF Through
      <3> QED
        BY <1>2, <1>4, <2>1, <3>1, StillOldKept
    <2>2. \A e \in Through \ Phony : result'[e] = "none" => result[e] = "none"
      BY <1>2, <1>3 DEF Through
    <2> QED
      BY <1>2, <2>1, <2>2, UnrunKept DEF Timely
  <1> QED
    BY <1>5, <1>6, <1>7 DEF Timely

(* The first edge of the stack leaves it: its command runs, or could not   *)
(* be started.                                                             *)
LEMMA TakenTimes ==
  ASSUME TypeOK, OrderInv, Timely, MayStart, NEW to \in {"running", "failed"},
         result' = [result EXCEPT ![Head(work)] = to],
         UNCHANGED <<disk, clock, nodeps, mtime, logmtime, samehash, flags, nblock, nprune, adding, todo, pc>>,
         \A i \in Busy' : IF i \in Busy THEN jobs'[i] = jobs[i]
                          ELSE jobs'[i].edge = Head(work) /\ jobs'[i].proc = "live"
  PROVE  Timely'
  <1>0. pc = "start"
    BY DEF MayStart
  <1>1. PICK x \in Through :
            /\ x = Head(work) /\ x \in Edges /\ result[x] = "none" /\ ~Settled(x) /\ Pending(x) = {}
    BY HeadReady
  <1>2. result'[x] = to /\ \A d \in Edges : d # x => result'[d] = result[d]
    BY <1>1 DEF TypeOK, HistType
  <1>3. SettledEdges' = SettledEdges
    <2>1. ~Settled(x)'
      BY <1>2 DEF Settled
    <2> QED
      BY <1>1, <1>2, <2>1, OneEdge
  <1>4. Past' /\ Known' /\ Statted' /\ Recorded' /\ Marks'
    BY <1>0, <1>1, <1>2, FilesSame
  <1>5. Done'
    BY <1>2, DoneSame DEF Timely
  <1>6. Unrun'
    <2>0. \A e : Pending(e)' = Pending(e)
      BY <1>3 DEF Pending
    <2>1. ASSUME NEW e \in Through \ Phony, NEW i \in 1..Inorder[e], StillOld(e, i) PROVE StillOld(e, i)'
      BY <1>3, <2>0, <2>1, TodoSame, StillOldKept
    <2>2. \A e \in Through \ Phony : result'[e] = "none" => result[e] = "none"
      BY <1>1, <1>2 DEF Through
    <2> QED
      BY <2>1, <2>2, UnrunKept DEF Timely
  <1>7. Outcome'
    <2>1. \A o \in Members(Out[x]) : disk[o] = mtime[o]
      <3>1. \A o \in Members(Out[x]) : o \in Nodes /\ Gen[o] = x
        BY <1>1, Generates
      <3>2. \A o \in Members(Out[x]) : mtime[o] # MTIME_UNKNOWN
        BY <1>1 DEF Timely, Statted, Found, Through
      <3> QED
        BY <1>1, <3>1, <3>2 DEF Timely, Known, Unsure
    <2>2. Outcome
      BY DEF Timely
    <2> SUFFICES ASSUME NEW j \in Busy'
                 PROVE  LET e == jobs'[j].edge IN
                        /\ jobs'[j].proc \in {"live", "ok", "fail"}
                        /\ jobs'[j].proc = "live" => \A o \in Members(Out[e]) : disk'[o] = mtime'[o]
                        /\ jobs'[j].proc = "ok" => \A o \in Members(Out[e]) :
                              /\ disk'[o] # MTIME_MISSING
                              /\ \/ disk'[o] > mtime'[o] /\ \A n \in Essential(e) : disk'[n] < disk'[o]
                                 \/ e \in Restat /\ disk'[o] = mtime'[o]
      BY DEF Outcome
    <2>3. CASE j \in Busy
      <3>1. jobs'[j] = jobs[j]
        BY <2>3
      <3> QED
        BY <2>2, <2>3, <3>1 DEF Outcome
    <2>4. CASE j \notin Busy
      <3>1. jobs'[j].edge = x /\ jobs'[j].proc = "live"
        BY <1>1, <2>4
      <3> QED
        BY <2>1, <3>1
    <2> QED
      BY <2>3, <2>4
  <1> QED
    BY <1>4, <1>5, <1>6, <1>7 DEF Timely

LEMMA JobTimes ==
  ASSUME IInv, OrderInv, Timely, StartJob
  PROVE  Timely'
  <1> DEFINE e == Head(work)
             s == [Slots[next] EXCEPT !.edge = e, !.pipe = "open", !.proc = "live"]
  <1>0. TypeOK /\ SlotsSound /\ MayStart
    BY DEF IInv, StartJob
  <1>1. /\ jobs' = [Slots EXCEPT ![next] = s] /\ result' = [result EXCEPT ![e] = "running"]
        /\ UNCHANGED <<disk, clock, nodeps, mtime, logmtime, samehash, flags, nblock, nprune, adding, todo, pc>>
    BY DEF StartJob, edgeVars, mainVars, fileVars, nodeVars, addVars
  <1>2. numjobs < MaxJobs /\ e \in Edges /\ e # NoEdge
    <2>1. work \in Seq(Edges) /\ work # << >> /\ numjobs < MaxJobs
      BY <1>0 DEF TypeOK, QueueType, MayStart
    <2> QED
      BY <2>1, Pop, GraphAssumption DEF GraphAssumption
  <1>3. Slots \in Seq(SlotType) /\ next \in DOMAIN Slots /\ Slots[next].edge = NoEdge
    BY <1>0, <1>2, GrowSlots
  <1>4. BusySlots(Slots) = BusySlots(jobs) /\ \A i \in BusySlots(jobs) : Slots[i] = jobs[i]
    BY <1>0, <1>2, SlotsRuns
  <1>5. s.edge = e /\ s.proc = "live"
    BY <1>3 DEF SlotType
  <1> HIDE DEF s, e
  <1>6. BusySlots(jobs') = BusySlots(jobs) \cup {next} /\ next \notin BusySlots(jobs)
    BY <1>1, <1>2, <1>3, <1>4, <1>5 DEF BusySlots
  <1>7. jobs'[next] = s /\ \A i \in BusySlots(jobs) : jobs'[i] = jobs[i]
    BY <1>1, <1>3, <1>4, <1>5, <1>6 DEF BusySlots
  <1>8. \A i \in Busy' : IF i \in Busy THEN jobs'[i] = jobs[i]
                         ELSE jobs'[i].edge = e /\ jobs'[i].proc = "live"
    BY <1>5, <1>6, <1>7 DEF Busy
  <1> QED
    BY <1>0, <1>1, <1>8, TakenTimes DEF e

LEMMA FailureTimes ==
  ASSUME IInv, OrderInv, Timely, StartFails
  PROVE  Timely'
  <1>0. TypeOK /\ SlotsSound /\ MayStart /\ numjobs < MaxJobs
    BY DEF IInv, StartFails, MayStart
  <1>1. /\ jobs' = Slots /\ result' = [result EXCEPT ![Head(work)] = "failed"]
        /\ UNCHANGED <<disk, clock, nodeps, mtime, logmtime, samehash, flags, nblock, nprune, adding, todo, pc>>
    BY DEF StartFails, edgeVars, mainVars, fileVars, nodeVars, addVars
  <1>2. Busy' = Busy /\ \A i \in Busy : jobs'[i] = jobs[i]
    BY <1>0, <1>1, SlotsRuns DEF Busy
  <1> QED
    BY <1>0, <1>1, <1>2, TakenTimes

-----------------------------------------------------------------------------
(* build(): the end of a job *)

(* Induction over the natural numbers, as a fact about sets. *)
LEMMA NatSetInduction ==
  ASSUME NEW S, 0 \in S, \A k \in Nat : k \in S => k + 1 \in S
  PROVE  Nat \subseteq S
  <1> DEFINE T == Nat \ S
             R == {ss \in Nat \X Nat : ss[1] < ss[2]}
  <1>1. IsWellFoundedOn(R, Nat)
    BY NatLessThanWellFounded DEF OpToRel
  <1> SUFFICES ASSUME T # {} PROVE FALSE
    OBVIOUS
  <1> HIDE DEF R
  <1>2. PICK x \in T : \A y \in T : ~(<<y, x>> \in R)
    <2>1. T \subseteq Nat
      OBVIOUS
    <2> HIDE DEF T
    <2> QED
      BY <1>1, <2>1, WFMin
  <1>3. x \in Nat /\ x # 0 /\ x - 1 \in Nat
    OBVIOUS
  <1>4. x - 1 \notin T
    <2>1. <<x - 1, x>> \in R
      BY <1>3 DEF R
    <2> QED
      BY <1>2, <2>1
  <1>5. x - 1 \in S /\ (x - 1) + 1 = x
    BY <1>3, <1>4
  <1> QED
    BY <1>2, <1>3, <1>5

(* Of the inputs that are there, one is the newest. *)
LEMMA NewestInput ==
  ASSUME TypeOK, NEW e \in Edges
  PROVE  LET times == {Stat(n) : n \in Essential(e)} \ {MTIME_MISSING}
         IN times = {} \/ \E t \in times : \A u \in times : u <= t
  <1> DEFINE T(k) == {Stat(In[e][i]) : i \in 1..k} \ {MTIME_MISSING}
             Greatest(U) == \E t \in U : \A u \in U : u <= t
             S == {k \in Nat : k <= Inorder[e] => T(k) = {} \/ Greatest(T(k))}
  <1>1. 0 \in S
    <2>1. T(0) = {}
      OBVIOUS
    <2> QED
      BY <2>1
  <1>2. ASSUME NEW k \in Nat, k \in S PROVE k + 1 \in S
    <2> SUFFICES ASSUME k + 1 <= Inorder[e] PROVE T(k + 1) = {} \/ Greatest(T(k + 1))
      OBVIOUS
    <2>1. Inorder[e] \in Nat /\ k + 1 \in 1..Inorder[e]
      BY Inputs
    <2>2. In[e][k + 1] \in Nodes
      BY <2>1, Inputs
    <2>3. PICK t : t = Stat(In[e][k + 1])
      OBVIOUS
    <2>4. t \in Int
      BY <2>2, <2>3, Times DEF Stat
    <2>5. T(k + 1) = T(k) \cup ({t} \ {MTIME_MISSING})
      <3>1. 1..(k + 1) = 1..k \cup {k + 1}
        BY <2>1
      <3> QED
        BY <2>3, <3>1
    <2>6. T(k) = {} \/ Greatest(T(k))
      BY <1>2, <2>1
    <2>7. T(k) \subseteq Int
      <3>1. \A i \in 1..k : i \in 1..Inorder[e]
        BY <2>1
      <3>2. \A i \in 1..k : In[e][i] \in Nodes
        BY <3>1, Inputs
      <3> QED
        BY <3>2, Times DEF Stat
    <2> HIDE DEF T
    <2>8. CASE t = MTIME_MISSING
      BY <2>5, <2>6, <2>8
    <2>9. CASE t # MTIME_MISSING /\ T(k) = {}
      BY <2>4, <2>5, <2>9
    <2>10. CASE t # MTIME_MISSING /\ Greatest(T(k))
      <3>1. PICK u \in T(k) : \A v \in T(k) : v <= u
        BY <2>10
      <3>2. u \in Int /\ T(k + 1) = T(k) \cup {t}
        BY <2>5, <2>7, <2>10
      <3>3. CASE t <= u
        BY <3>1, <3>2, <3>3
      <3>4. CASE ~(t <= u)
        <4>1. \A v \in T(k + 1) : v <= t
          BY <2>4, <2>7, <3>1, <3>2, <3>4
        <4> QED
          BY <3>2, <4>1
      <3> QED
        BY <3>3, <3>4
    <2> QED
      BY <2>6, <2>8, <2>9, <2>10
  <1>3. Inorder[e] \in Nat
    BY Inputs
  <1> HIDE DEF S
  <1>4. Inorder[e] \in S
    BY <1>1, <1>2, <1>3, NatSetInduction
  <1>5. T(Inorder[e]) = {Stat(n) : n \in Essential(e)} \ {MTIME_MISSING}
    BY DEF Essential
  <1>6. T(Inorder[e]) = {} \/ Greatest(T(Inorder[e]))
    BY <1>3, <1>4 DEF S
  <1> QED
    BY <1>5, <1>6

(* What edgedone() logs for the outputs of a command that did what it is   *)
(* to do: none is older than an input by the times on disk and in the log. *)
LEMMA LoggedTime ==
  ASSUME TypeOK, NEW e \in Edges, NEW o \in Nodes, disk[o] # MTIME_MISSING,
         \/ disk[o] > mtime[o] /\ \A n \in Essential(e) : disk[n] < disk[o]
         \/ e \in Restat /\ disk[o] = mtime[o]
  PROVE  /\ LogTime(e, o) # MTIME_MISSING
         /\ \A n \in Essential(e) : disk[n] # MTIME_MISSING =>
               /\ ~(disk[n] > LogTime(e, o))
               /\ e \in Restat \/ ~(disk[n] > disk[o])
  <1> DEFINE times == {Stat(i) : i \in Essential(e)} \ {MTIME_MISSING}
             Newest(t) == \A u \in times : u <= t
  <1>0. /\ \A n \in Nodes : disk[n] \in Int /\ mtime[n] \in Int
        /\ \A n \in Essential(e) : n \in Nodes
        /\ \A n \in Essential(e) : disk[n] # MTIME_MISSING => disk[n] \in times
        /\ times \subseteq Int
    BY Times, Inputs DEF Stat
  <1>1. LogTime(e, o) = IF shouldprune(e, o) /\ \E t \in times : Newest(t)
                        THEN CHOOSE t \in times : Newest(t) ELSE disk[o]
    BY DEF LogTime, Stat
  <1>2. times = {} \/ \E t \in times : Newest(t)
    BY NewestInput
  <1>3. CASE shouldprune(e, o) /\ \E t \in times : Newest(t)
    <2>1. LogTime(e, o) \in times /\ Newest(LogTime(e, o))
      BY <1>1, <1>3
    <2>2. e \in Restat
      BY <1>3 DEF shouldprune
    <2>3. \A n \in Essential(e) : disk[n] # MTIME_MISSING => disk[n] <= LogTime(e, o)
      BY <1>0, <2>1
    <2> QED
      BY <1>0, <2>1, <2>2, <2>3
  <1>4. CASE shouldprune(e, o) /\ ~\E t \in times : Newest(t)
    <2>1. LogTime(e, o) = disk[o] /\ times = {}
      BY <1>1, <1>2, <1>4
    <2> QED
      BY <1>0, <2>1
  <1>5. CASE ~shouldprune(e, o)
    <2>1. LogTime(e, o) = disk[o]
      BY <1>1, <1>5
    <2>2. \A n \in Essential(e) : disk[n] < disk[o]
      BY <1>5 DEF shouldprune, Stat
    <2> QED
      BY <1>0, <2>1, <2>2
  <1> QED
    BY <1>3, <1>4, <1>5

(* An edge stays up to date while its outputs, its inputs and what is      *)
(* logged of it stay.                                                      *)
LEMMA CurrentKept ==
  ASSUME NEW e \in Edges \ Phony, Current(e, disk), nodeps' \subseteq nodeps,
         \A o \in Members(Out[e]) : disk'[o] = disk[o] /\ logmtime'[o] = logmtime[o] /\ samehash'[o] = samehash[o],
         \A n \in Essential(e) : disk'[n] = disk[n]
  PROVE  Current(e, disk)'
  BY DEF Current, isdirty, NewerInput

(* The job of edge x, in slot i, has ended. *)
LEMMA EndedJob ==
  ASSUME IInv, OrderInv, NEW i \in revents, pc = "scan", todo = << >>,
         jobs' = [jobs EXCEPT ![i] = FreeSlot(next)]
  PROVE  \E x \in Through :
            /\ x = jobs[i].edge /\ x \in Edges /\ result[x] = "running" /\ ~Settled(x) /\ Pending(x) = {}
            /\ i \in Busy /\ Busy' = Busy \ {i} /\ \A k \in Busy' : jobs'[k] = jobs[k]
            /\ \A k \in Busy' : jobs[k].edge \in Edges /\ jobs[k].edge # x
  <1>0. TypeOK /\ revents \subseteq Busy
    BY DEF IInv, ScanInv
  <1>1. PICK x : x = jobs[i].edge
    OBVIOUS
  <1>2. i \in Busy /\ x \in Edges
    BY <1>0, <1>1, BusyEdges
  <1>3. Jobs /\ Fresh /\ \A d \in Through : Counted(d)
    BY DEF OrderInv
  <1>4. result[x] = "running" /\ x \in Through
    BY <1>1, <1>2, <1>3 DEF Jobs, Fresh
  <1>5. ~Settled(x) /\ Pending(x) = {}
    BY <1>3, <1>4 DEF Settled, Counted
  <1>6. jobs \in Seq(SlotType)
    BY <1>0 DEF TypeOK, JobType
  <1>7. Busy' = Busy \ {i} /\ \A k \in Busy' : jobs'[k] = jobs[k]
    BY <1>2, <1>6 DEF Busy, BusySlots, FreeSlot
  <1>8. \A k \in Busy' : jobs[k].edge # x /\ jobs[k].edge \in Edges
    BY <1>0, <1>1, <1>2, <1>3, <1>7, BusyEdges DEF Jobs
  <1> QED
    BY <1>1, <1>2, <1>4, <1>5, <1>7, <1>8

LEMMA FailedTimes ==
  ASSUME IInv, OrderInv, Timely, pc = "scan", todo = << >>, NEW i \in revents,
         jobs' = [jobs EXCEPT ![i] = FreeSlot(next)],
         result' = [result EXCEPT ![jobs[i].edge] = "failed"],
         UNCHANGED <<disk, clock, nodeps, mtime, logmtime, samehash, flags, nblock, nprune, adding, todo, pc>>
  PROVE  Timely'
  <1>1. PICK x \in Through :
            /\ x = jobs[i].edge /\ x \in Edges /\ result[x] = "running" /\ ~Settled(x)
            /\ i \in Busy /\ Busy' = Busy \ {i} /\ \A k \in Busy' : jobs'[k] = jobs[k]
    BY EndedJob
  <1>2. result'[x] = "failed" /\ \A d \in Edges : d # x => result'[d] = result[d]
    BY <1>1 DEF IInv, TypeOK, HistType
  <1>3. SettledEdges' = SettledEdges
    <2>1. ~Settled(x)'
      BY <1>2 DEF Settled
    <2> QED
      BY <1>1, <1>2, <2>1, OneEdge
  <1>4. Past' /\ Known' /\ Statted' /\ Recorded' /\ Marks'
    BY <1>2, FilesSame
  <1>5. Done'
    BY <1>2, DoneSame DEF Timely
  <1>6. Unrun'
    <2>0. \A e : Pending(e)' = Pending(e)
      BY <1>3 DEF Pending
    <2>1. ASSUME NEW e \in Through \ Phony, NEW j \in 1..Inorder[e], StillOld(e, j) PROVE StillOld(e, j)'
      BY <1>3, <2>0, <2>1, TodoSame, StillOldKept
    <2>2. \A e \in Through \ Phony : result'[e] = "none" => result[e] = "none"
      BY <1>1, <1>2 DEF Through
    <2> QED
      BY <2>1, <2>2, UnrunKept DEF Timely
  <1>7. Outcome'
    <2>1. Outcome
      BY DEF Timely
    <2> QED
      BY <1>1, <2>1 DEF Outcome
  <1> QED
    BY <1>4, <1>5, <1>6, <1>7 DEF Timely

LEMMA SucceededTimes ==
  ASSUME IInv, CycleInv, OrderInv, Working, Timely, pc = "scan", todo = << >>, NEW i \in revents,
         jobs[i].proc = "ok", jobs' = [jobs EXCEPT ![i] = FreeSlot(next)], edgedone(jobs[i].edge),
         UNCHANGED <<disk, clock, dirty, flags, nblock, nprune, adding, pc>>
  PROVE  Timely'
  <1>0. TypeOK
    BY DEF IInv
  <1>1. PICK x \in Through :
            /\ x = jobs[i].edge /\ x \in Edges /\ result[x] = "running" /\ ~Settled(x) /\ Pending(x) = {}
            /\ i \in Busy /\ Busy' = Busy \ {i} /\ \A k \in Busy' : jobs'[k] = jobs[k]
            /\ \A k \in Busy' : jobs[k].edge \in Edges /\ jobs[k].edge # x
    BY EndedJob
  <1> DEFINE outs == Members(Out[x])
             pr == [k \in DOMAIN Out[x] |-> shouldprune(x, Out[x][k])]
             stats == outs \cup IF \E n \in outs : shouldprune(x, n) THEN Essential(x) ELSE {}
  <1>2. /\ mtime' = [n \in Nodes |-> IF n \in stats THEN Stat(n) ELSE mtime[n]]
        /\ logmtime' = [n \in Nodes |-> IF n \in outs THEN LogTime(x, n) ELSE logmtime[n]]
        /\ samehash' = [n \in Nodes |-> samehash[n] \/ n \in outs]
        /\ nodeps' = nodeps \ {x}
        /\ todo' = Notify(x, pr)
        /\ result' = [result EXCEPT ![x] = "ok"]
    BY <1>1 DEF edgedone
  <1>3. result'[x] = "ok" /\ \A d \in Edges : d # x => result'[d] = result[d]
    BY <1>0, <1>1, <1>2 DEF TypeOK, HistType
  <1>4. /\ \A n \in outs : n \in Nodes /\ Gen[n] = x
        /\ outs \subseteq stats /\ \A n \in stats : n \in outs \/ n \in Essential(x)
    BY <1>1, Generates
  <1>5. Known /\ Statted /\ Recorded /\ Marks /\ Unrun /\ Outcome /\ Done /\ Through \subseteq Edges
    BY DEF Timely, Through
  <1>6. pr \in [DOMAIN Out[x] -> BOOLEAN] /\ \A k \in DOMAIN Out[x] : pr[k] = shouldprune(x, Out[x][k])
    BY DEF shouldprune
  <1> HIDE DEF outs, pr, stats
  <1>7. /\ \A n \in Nodes : mtime'[n] = IF n \in outs THEN disk[n] ELSE mtime[n]
        /\ \A n \in Nodes \ outs : logmtime'[n] = logmtime[n] /\ (samehash'[n] <=> samehash[n])
        /\ \A n \in outs : logmtime'[n] = LogTime(x, n) /\ samehash'[n]
    <2>1. ASSUME NEW n \in Essential(x) PROVE mtime[n] = disk[n]
      <3>1. n \in Nodes /\ n \in Members(In[x])
        BY <1>1, Inputs
      <3>2. mtime[n] # MTIME_UNKNOWN
        BY <1>5, <3>1 DEF Statted, Found
      <3>3. ~Unsure(n)
        BY <1>1, <3>1, InputsSettled DEF Unsure
      <3> QED
        BY <1>5, <3>1, <3>2, <3>3 DEF Known
    <2>2. \A n \in Nodes : mtime'[n] = IF n \in outs THEN disk[n] ELSE mtime[n]
      BY <1>2, <1>4, <2>1 DEF Stat
    <2>3. \A n \in Nodes : samehash[n] \in BOOLEAN
      BY <1>0 DEF TypeOK, NodeType
    <2> QED
      BY <1>2, <1>4, <2>2, <2>3
  <1>8. /\ SettledEdges' = SettledEdges \cup {x}
        /\ \A d \in Edges : Pending(d)' = Pending(d)
        /\ Continues(SettledEdges, todo', todo)
    BY <1>0, <1>1, <1>2, <1>3, <1>6, UsersToTell
  <1>9. Through' = Through
    BY DEF Through
  <1>10. \A e \in Edges : e # x => \A o \in Members(Out[e]) : o \in Nodes \ outs
    BY <1>4, Generates
  <1>11. Past'
    BY DEF Timely, Past
  <1>12. Known'
    <2> SUFFICES ASSUME NEW n \in Nodes, mtime'[n] # MTIME_UNKNOWN, ~Unsure(n)' PROVE mtime'[n] = disk'[n]
      BY DEF Known
    <2>1. CASE n \in outs
      BY <1>7, <2>1
    <2>2. CASE n \notin outs
      <3>1. Gen[n] # x
        BY <1>1, <2>2, Generates DEF outs
      <3>2. ~Unsure(n)
        BY <1>3, <3>1 DEF Unsure
      <3> QED
        BY <1>5, <1>7, <2>2, <3>2 DEF Known
    <2> QED
      BY <2>1, <2>2
  <1>13. Statted'
    <2>1. \A n \in Nodes : mtime[n] # MTIME_UNKNOWN => mtime'[n] # MTIME_UNKNOWN
      BY <1>0, <1>7, Times
    <2>2. \A ns \in SUBSET Nodes : Found(ns) => Found(ns)'
      BY <2>1 DEF Found
    <2>3. \A e \in Edges : Members(Out[e]) \subseteq Nodes /\ Members(In[e]) \subseteq Nodes
      BY OutMembers
    <2>4. adding = << >>
      BY DEF CycleInv
    <2> QED
      BY <1>5, <1>9, <2>2, <2>3, <2>4 DEF Statted
  <1>14. Recorded'
    BY <1>2, <1>5 DEF Recorded
  <1>15. Marks'
    BY <1>5, <1>9 DEF Marks
  <1>16. Outcome'
    <2> SUFFICES ASSUME NEW j \in Busy'
                 PROVE  LET e == jobs'[j].edge IN
                        /\ jobs'[j].proc \in {"live", "ok", "fail"}
                        /\ jobs'[j].proc = "live" => \A o \in Members(Out[e]) : disk'[o] = mtime'[o]
                        /\ jobs'[j].proc = "ok" => \A o \in Members(Out[e]) :
                              /\ disk'[o] # MTIME_MISSING
                              /\ \/ disk'[o] > mtime'[o] /\ \A n \in Essential(e) : disk'[n] < disk'[o]
                                 \/ e \in Restat /\ disk'[o] = mtime'[o]
      BY DEF Outcome
    <2>1. j \in Busy /\ jobs'[j] = jobs[j] /\ jobs[j].edge \in Edges /\ jobs[j].edge # x
      BY <1>1
    <2>2. \A o \in Members(Out[jobs[j].edge]) : mtime'[o] = mtime[o]
      BY <1>7, <1>10, <2>1
    <2> QED
      BY <1>5, <2>1, <2>2 DEF Outcome
  <1>17. Done'
    <2> SUFFICES ASSUME NEW e \in Through \ Phony, result'[e] = "ok" PROVE Current(e, disk)'
      BY <1>9 DEF Done
    <2>1. CASE e # x
      <3>1. Current(e, disk) /\ e \in Edges
        BY <1>3, <1>5, <2>1 DEF Done
      <3>2. \A o \in Members(Out[e]) : logmtime'[o] = logmtime[o] /\ (samehash'[o] <=> samehash[o])
        BY <1>7, <1>10, <2>1, <3>1
      <3> QED
        BY <1>2, <3>1, <3>2 DEF Current, isdirty, NewerInput
    <2>2. CASE e = x
      <3>1. ASSUME NEW o \in outs
            PROVE  ~isdirty(x, disk[o], logmtime'[o], samehash'[o], disk)
        <4>1. /\ disk[o] # MTIME_MISSING
              /\ \/ disk[o] > mtime[o] /\ \A n \in Essential(x) : disk[n] < disk[o]
                 \/ x \in Restat /\ disk[o] = mtime[o]
          BY <1>1, <1>5 DEF Outcome, outs
        <4>2. /\ LogTime(x, o) # MTIME_MISSING
              /\ \A n \in Essential(x) : disk[n] # MTIME_MISSING =>
                    /\ ~(disk[n] > LogTime(x, o))
                    /\ x \in Restat \/ ~(disk[n] > disk[o])
          BY <1>0, <1>1, <1>4, <4>1, LoggedTime
        <4>3. logmtime'[o] = LogTime(x, o) /\ samehash'[o]
          BY <1>7
        <4> QED
          BY <2>2, <4>1, <4>2, <4>3 DEF isdirty, NewerInput
      <3> QED
        BY <1>2, <2>2, <3>1 DEF Current, outs
    <2> QED
      BY <2>1, <2>2
  <1>18. Unrun'
    <2> SUFFICES ASSUME NEW e \in Through \ Phony, result'[e] = "none", "DIRTY_OUT" \notin flags[e]
                 PROVE  Made(e, mtime)' /\ \A j \in 1..Inorder[e] : StillOld(e, j)'
      BY <1>9 DEF Unrun
    <2>1. e \in Edges /\ e # x /\ result[e] = "none"
      BY <1>3, <1>5
    <2>2. Made(e, mtime) /\ \A j \in 1..Inorder[e] : StillOld(e, j)
      BY <1>5, <2>1 DEF Unrun
    <2>3. \A o \in Members(Out[e]) : mtime'[o] = mtime[o] /\ logmtime'[o] = logmtime[o] /\ (samehash'[o] <=> samehash[o])
      BY <1>7, <1>10, <2>1
    <2>4. Made(e, mtime)'
      BY <2>2, <2>3 DEF Made
    <2>5. ASSUME NEW j \in 1..Inorder[e] PROVE StillOld(e, j)'
      <3> DEFINE n == In[e][j]
      <3>1. n \in Nodes /\ n \in Essential(e) /\ n \in Members(In[e]) /\ j \in DOMAIN In[e]
        BY <2>1, Inputs
      <3>2. StillOld(e, j)
        BY <2>2
      <3>3. CASE OldFor(e, n, mtime) /\ mtime'[n] = mtime[n]
        <4>1. OldFor(e, n, mtime)'
          BY <2>3, <3>3 DEF OldFor
        <4> QED
          BY <4>1 DEF StillOld
      <3>4. CASE mtime'[n] # mtime[n]
        <4>1. n \in outs /\ ~shouldprune(x, n) /\ Gen[n] = x
          BY <1>4, <1>7, <3>1, <3>4 DEF shouldprune, Stat
        <4>2. j \in Pending(e)
          <5>1. x # NoEdge /\ x \notin SettledEdges
            BY <1>1, Generates DEF SettledEdges
          <5> QED
            BY <3>1, <4>1, <5>1 DEF Pending, Untold, Told
        <4>3. "DIRTY_IN" \in flags[e]
          <5>1. Dirty(flags[x])
            BY <1>1 DEF Working, Pruning
          <5> QED
            BY <1>1, <1>5, <3>1, <4>1, <5>1 DEF Marks
        <4>4. \A k \in DOMAIN todo' : todo'[k].node = n => ~todo'[k].prune
          BY <1>2, <1>6, <4>1 DEF Notify
        <4>5. ToTell(e, j)'
          BY <1>8, <2>1, <4>1, <4>2, <4>3, <4>4 DEF ToTell
        <4> QED
          BY <4>5 DEF StillOld
      <3>5. CASE nprune[e] # 0 /\ nprune[e] > nblock[e]
        BY <3>5 DEF StillOld
      <3>6. CASE ToTell(e, j)
        <4>1. j \in Pending(e)'
          BY <1>8, <2>1, <3>6 DEF ToTell
        <4>2. ToTell(e, j)'
          BY <1>8, <3>6, <4>1, ToTellKept
        <4> QED
          BY <4>2 DEF StillOld
      <3> QED
        BY <3>2, <3>3, <3>4, <3>5, <3>6 DEF StillOld
    <2> QED
      BY <2>4, <2>5
  <1> QED
    BY <1>11, <1>12, <1>13, <1>14, <1>15, <1>16, <1>17, <1>18 DEF Timely

LEMMA DoneTimes ==
  ASSUME IInv, CycleInv, OrderInv, Working, Timely, JobDone
  PROVE  Timely'
  <1>1. PICK i \in revents :
            /\ jobs' = [jobs EXCEPT ![i] = FreeSlot(next)]
            /\ \/ jobs[i].proc = "ok" /\ edgedone(jobs[i].edge) /\ UNCHANGED dirty
               \/ /\ result' = [result EXCEPT ![jobs[i].edge] = "failed"]
                  /\ UNCHANGED <<nodeps, nodeVars, todo>>
    BY DEF JobDone
  <1>2. pc = "scan" /\ todo = << >> /\ UNCHANGED <<disk, clock, flags, nblock, nprune, adding, pc>>
    BY DEF JobDone, edgeVars, addVars, mainVars
  <1>3. CASE jobs[i].proc = "ok" /\ edgedone(jobs[i].edge) /\ UNCHANGED dirty
    BY <1>1, <1>2, <1>3, SucceededTimes
  <1>4. CASE result' = [result EXCEPT ![jobs[i].edge] = "failed"] /\ UNCHANGED <<nodeps, nodeVars, todo>>
    BY <1>1, <1>2, <1>4, FailedTimes DEF nodeVars
  <1> QED
    BY <1>1, <1>3, <1>4

-----------------------------------------------------------------------------
(* The commands *)

LEMMA PipeTimes ==
  ASSUME IInv, Timely, NEW j \in Busy, PipeCloses(j)
  PROVE  Timely'
  <1>1. /\ jobs' = [jobs EXCEPT ![j].pipe = "eof"] /\ jobs \in Seq(SlotType)
        /\ UNCHANGED <<disk, clock, nodeps, mtime, logmtime, samehash, dirty, flags, nblock, nprune,
                       adding, result, todo, pc>>
    BY DEF PipeCloses, fileVars, nodeVars, edgeVars, addVars, mainVars, histVars, IInv, TypeOK, JobType
  <1>2. Busy' = Busy /\ \A k \in Busy : jobs'[k].edge = jobs[k].edge /\ jobs'[k].proc = jobs[k].proc
    <2>1. \A k \in DOMAIN jobs : jobs[k] \in SlotType
      BY <1>1
    <2>2. DOMAIN jobs' = DOMAIN jobs
      BY <1>1
    <2>3. \A k \in DOMAIN jobs : jobs'[k].edge = jobs[k].edge /\ jobs'[k].proc = jobs[k].proc
      BY <1>1, <2>1 DEF SlotType
    <2> QED
      BY <2>2, <2>3 DEF Busy, BusySlots
  <1>3. Past' /\ Known' /\ Statted' /\ Recorded' /\ Marks'
    BY <1>1, FilesSame
  <1>4. Done'
    BY <1>1, DoneSame DEF Timely
  <1>5. Outcome'
    BY <1>1, <1>2 DEF Outcome, Timely
  <1>6. Unrun'
    <2>0. SettledEdges' = SettledEdges
      BY <1>1 DEF SettledEdges, Settled, Seen, OnStack
    <2>1. \A e : Pending(e)' = Pending(e)
      BY <1>1, <2>0 DEF Pending
    <2>2. ASSUME NEW e \in Through \ Phony, NEW i \in 1..Inorder[e], StillOld(e, i) PROVE StillOld(e, i)'
      BY <1>1, <2>0, <2>1, <2>2, TodoSame, StillOldKept
    <2> QED
      BY <1>1, <2>2, UnrunKept DEF Timely
  <1> QED
    BY <1>3, <1>4, <1>5, <1>6 DEF Timely

(* A command writes only outputs of its own edge, and later than anything  *)
(* that was there.                                                         *)
LEMMA ExitWrites ==
  ASSUME IInv, OrderInv, pc # "exit", Timely, NEW j \in Busy, NEW x \in {"ok", "fail"}, CommandExits(j, x)
  PROVE  \E w \in Through :
            /\ w = jobs[j].edge /\ w \in Edges /\ result[w] = "running" /\ ~Settled(w) /\ jobs[j].proc = "live"
            /\ \A n \in Nodes : disk'[n] # disk[n] => Gen[n] = w
            /\ Past'
            /\ x = "ok" => \A o \in Members(Out[w]) :
                  /\ disk'[o] # MTIME_MISSING
                  /\ \/ disk'[o] > mtime[o] /\ \A n \in Essential(w) : disk'[n] < disk'[o]
                     \/ w \in Restat /\ disk'[o] = mtime[o]
            /\ Busy' = Busy /\ jobs'[j].edge = w /\ jobs'[j].proc = x
            /\ \A k \in Busy \ {j} : jobs'[k] = jobs[k] /\ jobs[k].edge # w /\ jobs[k].edge \in Edges
  <1>0. TypeOK /\ jobs \in Seq(SlotType)
    BY DEF IInv, TypeOK, JobType
  <1>1. PICK w : w = jobs[j].edge
    OBVIOUS
  <1>2. w \in Edges /\ \A k \in Busy : k \in DOMAIN jobs /\ jobs[k] \in SlotType /\ jobs[k].edge \in Edges
    BY <1>0, <1>1, BusyEdges
  <1>3. Jobs /\ Fresh
    BY DEF OrderInv
  <1>4. w \in Through /\ result[w] = "running" /\ ~Settled(w)
    BY <1>1, <1>2, <1>3 DEF Jobs, Fresh, Settled
  <1>5. PICK s \in Written(w, x) :
            /\ clock' = IF s = {} THEN clock ELSE clock + 1
            /\ disk' = [n \in Nodes |-> IF n \in s THEN clock + 1 ELSE disk[n]]
    BY <1>1 DEF CommandExits
  <1>6. jobs[j].proc = "live" /\ jobs' = [jobs EXCEPT ![j].proc = x]
    BY DEF CommandExits
  <1>7. /\ s \subseteq Members(Out[w])
        /\ x = "ok" => \A o \in Members(Out[w]) : o \notin s => w \in Restat /\ disk[o] # MTIME_MISSING
    <2>1. CASE x = "fail"
      BY <1>5, <2>1 DEF Written
    <2>2. CASE x = "ok" /\ w \notin Restat
      BY <1>5, <2>2 DEF Written
    <2>3. CASE x = "ok" /\ w \in Restat
      BY <1>5, <2>3 DEF Written
    <2> QED
      BY <2>1, <2>2, <2>3
  <1>8. /\ \A n \in Nodes : disk'[n] = IF n \in s THEN clock + 1 ELSE disk[n]
        /\ \A n \in Nodes : disk[n] \in Int /\ disk[n] <= clock
        /\ clock \in Nat
    BY <1>0, <1>5, Times DEF Timely, Past
  <1>9. \A o \in Members(Out[w]) : o \in Nodes /\ Gen[o] = w
    BY <1>2, Generates
  <1>10. \A n \in Essential(w) : n \in Nodes /\ n \notin s
    <2> SUFFICES ASSUME NEW n \in Essential(w) PROVE n \in Nodes /\ n \notin s
      OBVIOUS
    <2>1. n \in Nodes /\ n \in Members(In[w])
      BY <1>2, Inputs
    <2>2. Gen[n] \in Edges => Gen[n] \in SettledEdges
      BY <1>4, <2>1, InputsSettled
    <2>3. w \notin SettledEdges
      BY <1>4 DEF SettledEdges
    <2> QED
      BY <1>2, <1>7, <1>9, <2>1, <2>2, <2>3
  <1>11. \A n \in Nodes : disk'[n] # disk[n] => Gen[n] = w
    BY <1>7, <1>8, <1>9
  <1>12. Past'
    <2>1. clock' >= clock /\ (s # {} => clock' = clock + 1)
      BY <1>5, <1>8
    <2> QED
      BY <1>5, <1>8, <2>1 DEF Past
  <1>13. ASSUME x = "ok", NEW o \in Members(Out[w])
         PROVE  /\ disk'[o] # MTIME_MISSING
                /\ \/ disk'[o] > mtime[o] /\ \A n \in Essential(w) : disk'[n] < disk'[o]
                   \/ w \in Restat /\ disk'[o] = mtime[o]
    <2>1. disk[o] = mtime[o]
      BY <1>1, <1>6 DEF Timely, Outcome
    <2>2. CASE o \in s
      <3>1. disk'[o] = clock + 1 /\ disk'[o] > mtime[o]
        BY <1>8, <1>9, <2>1, <2>2
      <3>2. \A n \in Essential(w) : disk'[n] < disk'[o]
        BY <1>8, <1>10, <3>1
      <3> QED
        BY <1>8, <3>1, <3>2 DEF MTIME_MISSING
    <2>3. CASE o \notin s
      BY <1>7, <1>8, <1>9, <1>13, <2>1, <2>3
    <2> QED
      BY <2>2, <2>3
  <1>14. Busy' = Busy /\ jobs'[j].edge = w /\ jobs'[j].proc = x /\ \A k \in Busy \ {j} : jobs'[k] = jobs[k]
    <2>1. DOMAIN jobs' = DOMAIN jobs /\ \A k \in DOMAIN jobs \ {j} : jobs'[k] = jobs[k]
      BY <1>6
    <2>2. jobs'[j].edge = w /\ jobs'[j].proc = x
      BY <1>1, <1>2, <1>6 DEF SlotType
    <2>3. w # NoEdge
      BY <1>2, Generates
    <2> QED
      BY <1>1, <2>1, <2>2, <2>3 DEF Busy, BusySlots
  <1>15. \A k \in Busy \ {j} : jobs[k].edge # w
    BY <1>1, <1>3 DEF Jobs
  <1> QED
    BY <1>1, <1>2, <1>4, <1>6, <1>11, <1>12, <1>13, <1>14, <1>15

LEMMA ExitTimes ==
  ASSUME IInv, OrderInv, pc # "exit", Timely, NEW j \in Busy, NEW x \in {"ok", "fail"}, CommandExits(j, x)
  PROVE  Timely'
  <1>1. PICK w \in Through :
            /\ w = jobs[j].edge /\ w \in Edges /\ result[w] = "running" /\ ~Settled(w) /\ jobs[j].proc = "live"
            /\ \A n \in Nodes : disk'[n] # disk[n] => Gen[n] = w
            /\ Past'
            /\ x = "ok" => \A o \in Members(Out[w]) :
                  /\ disk'[o] # MTIME_MISSING
                  /\ \/ disk'[o] > mtime[o] /\ \A n \in Essential(w) : disk'[n] < disk'[o]
                     \/ w \in Restat /\ disk'[o] = mtime[o]
            /\ Busy' = Busy /\ jobs'[j].edge = w /\ jobs'[j].proc = x
            /\ \A k \in Busy \ {j} : jobs'[k] = jobs[k] /\ jobs[k].edge # w /\ jobs[k].edge \in Edges
    BY ExitWrites
  <1>2. UNCHANGED <<nodeps, mtime, logmtime, samehash, dirty, flags, nblock, nprune, adding, result, todo, pc>>
    BY DEF CommandExits, nodeVars, edgeVars, addVars, mainVars, histVars
  <1>3. Through' = Through /\ Through \subseteq Edges /\ SettledEdges' = SettledEdges
    BY <1>2 DEF Through, SettledEdges, Settled, Seen, OnStack
  <1>4. Known'
    <2> SUFFICES ASSUME NEW n \in Nodes, mtime[n] # MTIME_UNKNOWN, ~Unsure(n) PROVE mtime[n] = disk'[n]
      BY <1>2 DEF Known, Unsure
    <2>1. Gen[n] # w
      BY <1>1 DEF Unsure
    <2> QED
      BY <1>1, <2>1 DEF Timely, Known
  <1>5. Statted' /\ Recorded' /\ Marks'
    BY <1>2, <1>3 DEF Timely, Statted, Found, Recorded, Marks
  <1>6. ASSUME NEW e \in Through, e # w, Settled(e) \/ result[e] # "none"
        PROVE  /\ \A o \in Members(Out[e]) : disk'[o] = disk[o]
               /\ \A n \in Essential(e) : disk'[n] = disk[n]
    <2>1. e \in Edges
      BY <1>3
    <2>2. \A o \in Members(Out[e]) : o \in Nodes /\ Gen[o] = e
      BY <2>1, Generates
    <2>3. ASSUME NEW n \in Essential(e) PROVE n \in Nodes /\ Gen[n] # w
      <3>1. n \in Nodes /\ n \in Members(In[e])
        BY <2>1, Inputs
      <3>2. Gen[n] \in Edges => Gen[n] \in SettledEdges
        BY <1>6, <3>1, InputsSettled
      <3> QED
        BY <1>1, <3>1, <3>2 DEF SettledEdges
    <2> QED
      BY <1>1, <1>6, <2>2, <2>3
  <1>7. Done'
    <2> SUFFICES ASSUME NEW e \in Through \ Phony, result[e] = "ok" PROVE Current(e, disk)'
      BY <1>2, <1>3 DEF Done
    <2>1. e # w /\ Current(e, disk)
      BY <1>1 DEF Timely, Done
    <2> QED
      BY <1>2, <1>3, <1>6, <2>1, CurrentKept
  <1>8. Outcome'
    <2> SUFFICES ASSUME NEW k \in Busy'
                 PROVE  LET e == jobs'[k].edge IN
                        /\ jobs'[k].proc \in {"live", "ok", "fail"}
                        /\ jobs'[k].proc = "live" => \A o \in Members(Out[e]) : disk'[o] = mtime'[o]
                        /\ jobs'[k].proc = "ok" => \A o \in Members(Out[e]) :
                              /\ disk'[o] # MTIME_MISSING
                              /\ \/ disk'[o] > mtime'[o] /\ \A n \in Essential(e) : disk'[n] < disk'[o]
                                 \/ e \in Restat /\ disk'[o] = mtime'[o]
      BY DEF Outcome
    <2>1. CASE k = j
      BY <1>1, <1>2, <2>1
    <2>2. CASE k # j
      <3>1. PICK e : e = jobs[k].edge
        OBVIOUS
      <3>2. k \in Busy /\ jobs'[k] = jobs[k] /\ e # w /\ e \in Edges
        BY <1>1, <2>2, <3>1
      <3>3. e \in Through /\ result[e] = "running"
        BY <3>1, <3>2 DEF OrderInv, Jobs, Fresh
      <3>4. /\ \A o \in Members(Out[e]) : disk'[o] = disk[o]
            /\ \A n \in Essential(e) : disk'[n] = disk[n]
        BY <1>6, <3>2, <3>3
      <3> QED
        BY <1>2, <3>1, <3>2, <3>4 DEF Timely, Outcome
    <2> QED
      BY <2>1, <2>2
  <1>9. Unrun'
    <2>1. \A e : Pending(e)' = Pending(e)
      BY <1>2, <1>3 DEF Pending
    <2>2. ASSUME NEW e \in Through \ Phony, NEW i \in 1..Inorder[e], StillOld(e, i) PROVE StillOld(e, i)'
      BY <1>2, <1>3, <2>1, <2>2, TodoSame, StillOldKept
    <2> QED
      BY <1>2, <2>2, UnrunKept DEF Timely
  <1> QED
    BY <1>1, <1>4, <1>5, <1>7, <1>8, <1>9 DEF Timely

-----------------------------------------------------------------------------
(* buildadd() *)

(* While no node is being finished, no edge is about to be told of one.    *)
LEMMA NoneToTell ==
  ASSUME todo = << >>, NEW e, NEW i
  PROVE  ~ToTell(e, i)
  <1> SUFFICES ASSUME ToTell(e, i) PROVE FALSE
    OBVIOUS
  <1>1. i \in Untold(SettledEdges, todo, e) /\ Gen[In[e][i]] \in SettledEdges
    BY DEF ToTell, Pending
  <1>2. DOMAIN todo = {}
    OBVIOUS
  <1> QED
    BY <1>1, <1>2 DEF Untold, Told

(* An edge whose outputs isdirty() finds clean, and the other way round.   *)
LEMMA CleanOutputs ==
  ASSUME NEW e \in Edges \ Phony, NEW m, \A n \in Nodes : m[n] \in Int /\ logmtime[n] \in Int
  PROVE  (\A o \in Members(Out[e]) : ~isdirty(e, m[o], logmtime[o], samehash[o], m)) <=>
            /\ Made(e, m)
            /\ \A n \in Essential(e) : OldFor(e, n, m)
  <1>1. /\ \A o \in Members(Out[e]) : m[o] \in Int /\ logmtime[o] \in Int
        /\ \A n \in Essential(e) : m[n] \in Int
    BY OutMembers, Inputs
  <1>2. \A o \in Members(Out[e]) :
          ~isdirty(e, m[o], logmtime[o], samehash[o], m) <=>
             /\ m[o] # MTIME_MISSING
             /\ e \in Generator \/ (logmtime[o] # MTIME_MISSING /\ samehash[o])
             /\ \A n \in Essential(e) : m[n] # MTIME_MISSING =>
                   /\ m[n] > m[o] => e \in Restat /\ logmtime[o] # MTIME_MISSING
                   /\ logmtime[o] # MTIME_MISSING => m[n] <= logmtime[o]
    <2> SUFFICES ASSUME NEW o \in Members(Out[e])
                 PROVE  ~isdirty(e, m[o], logmtime[o], samehash[o], m) <=>
                           /\ m[o] # MTIME_MISSING
                           /\ e \in Generator \/ (logmtime[o] # MTIME_MISSING /\ samehash[o])
                           /\ \A n \in Essential(e) : m[n] # MTIME_MISSING =>
                                 /\ m[n] > m[o] => e \in Restat /\ logmtime[o] # MTIME_MISSING
                                 /\ logmtime[o] # MTIME_MISSING => m[n] <= logmtime[o]
      OBVIOUS
    <2>1. \A n \in Essential(e) : m[n] <= logmtime[o] <=> ~(m[n] > logmtime[o])
      BY <1>1
    <2> QED
      BY <2>1 DEF isdirty, NewerInput
  <1> QED
    BY <1>2 DEF Made, OldFor

(* The call buildadd(n) stats files that were not stat'ed yet.             *)
LEMMA EnterFiles ==
  ASSUME TypeOK, Timely, pc' = "add", NEW n \in Nodes, NEW rest, Enter(n, rest)
  PROVE  /\ status' = status
         /\ \A m \in Nodes : mtime'[m] = mtime[m] \/ (mtime[m] = MTIME_UNKNOWN /\ mtime'[m] = disk[m])
         /\ mtime'[n] # MTIME_UNKNOWN
         /\ \A m \in Nodes : Gen[m] \in Through => dirty'[m] = dirty[m]
         /\ \/ adding' = rest /\ flags' = flags
            \/ /\ adding' = <<[edge |-> Gen[n], input |-> 1]>> \o rest
               /\ Gen[n] \in Edges /\ "WORK" \notin flags[Gen[n]] /\ "WORK" \in flags'[Gen[n]]
               /\ \A m \in Members(Out[Gen[n]]) : mtime'[m] # MTIME_UNKNOWN
               /\ \A d \in Edges : d # Gen[n] => flags'[d] = flags[d]
               /\ "DIRTY_OUT" \notin flags'[Gen[n]] => Gen[n] \notin nodeps
  <1> DEFINE e == Gen[n]
  <1>0. /\ e \in Edges \cup {NoEdge} /\ NoEdge \notin Edges
        /\ flags \in [Edges -> SUBSET Flags] /\ mtime \in [Nodes -> Mtimes] /\ dirty \in [Nodes -> BOOLEAN]
        /\ \A m \in Nodes : disk[m] # MTIME_UNKNOWN
        /\ Statted /\ Recorded
    BY GenType, Generates, Times DEF TypeOK, EdgeType, NodeType, Timely
  <1>1. CASE e = NoEdge
    <2>1. /\ mtime' = [mtime EXCEPT ![n] = IF mtime[n] = MTIME_UNKNOWN THEN disk[n] ELSE mtime[n]]
          /\ adding' = rest /\ flags' = flags
      BY <1>1 DEF Enter, Stat
    <2>2. status' = status /\ dirty' = [dirty EXCEPT ![n] = FALSE]
      BY <1>1 DEF Enter, Fatal, mainVars
    <2>3. \A m \in Nodes : Gen[m] \in Through => m # n
      BY <1>0, <1>1 DEF Through
    <2> HIDE DEF e
    <2>4. \A m \in Nodes : m # n => mtime'[m] = mtime[m] /\ dirty'[m] = dirty[m]
      BY <1>0, <2>1, <2>2
    <2>5. mtime'[n] = IF mtime[n] = MTIME_UNKNOWN THEN disk[n] ELSE mtime[n]
      BY <1>0, <2>1
    <2> QED
      BY <1>0, <2>1, <2>2, <2>3, <2>4, <2>5
  <1>2. CASE e # NoEdge /\ OnStack(e)
    BY <1>2 DEF Enter, Fatal
  <1>3. CASE e # NoEdge /\ ~OnStack(e) /\ Seen(e)
    <2>1. UNCHANGED <<mtime, dirty, flags, status>> /\ adding' = rest
      BY <1>3 DEF Enter, mainVars
    <2>2. mtime[n] # MTIME_UNKNOWN
      BY <1>0, <1>3, Generates DEF Statted, Found, Seen
    <2> QED
      BY <2>1, <2>2
  <1>4. CASE e # NoEdge /\ ~OnStack(e) /\ ~Seen(e)
    <2> DEFINE f == flags[e] \cup {"CYCLE", "WORK", "DEPS"} \cup
                      IF "DEPS" \notin flags[e] /\ e \in nodeps THEN {"DIRTY_OUT"} ELSE {}
    <2>1. /\ mtime' = [m \in Nodes |-> IF m \in Members(Out[e]) /\ mtime[m] = MTIME_UNKNOWN
                                       THEN disk[m] ELSE mtime[m]]
          /\ dirty' = [m \in Nodes |-> dirty[m] /\ m \notin Members(Out[e])]
          /\ flags' = [flags EXCEPT ![e] = f]
          /\ adding' = <<[edge |-> e, input |-> 1]>> \o rest
          /\ status' = status
      BY <1>4 DEF Enter, Stat, mainVars
    <2>2. e \in Edges /\ "WORK" \notin flags[e] /\ "DEPS" \notin flags[e] /\ e \notin Through
      BY <1>0, <1>4 DEF Seen, Recorded, Through
    <2>3. "WORK" \in f /\ (e \in nodeps => "DIRTY_OUT" \in f)
      BY <2>2
    <2>4. n \in Members(Out[e]) /\ \A m \in Members(Out[e]) : m \in Nodes /\ Gen[m] = e
      BY <2>2, Generates
    <2> HIDE DEF e, f
    <2>5. flags'[e] = f /\ \A d \in Edges : d # e => flags'[d] = flags[d]
      BY <1>0, <2>1, <2>2
    <2>6. \A m \in Nodes : Gen[m] \in Through => dirty'[m] = dirty[m]
      BY <1>0, <2>1, <2>2, <2>4
    <2>7. \A m \in Nodes : mtime'[m] = IF m \in Members(Out[e]) /\ mtime[m] = MTIME_UNKNOWN
                                       THEN disk[m] ELSE mtime[m]
      BY <2>1
    <2>8. /\ \A m \in Nodes : mtime'[m] = mtime[m] \/ (mtime[m] = MTIME_UNKNOWN /\ mtime'[m] = disk[m])
          /\ \A m \in Members(Out[e]) : mtime'[m] # MTIME_UNKNOWN
      BY <1>0, <2>4, <2>7
    <2> QED
      BY <2>1, <2>2, <2>3, <2>4, <2>5, <2>6, <2>8 DEF e
  <1> QED
    BY <1>0, <1>1, <1>2, <1>3, <1>4

LEMMA EnterTimes ==
  ASSUME TypeOK, PoolInv, OrderInv, CycleInv, Timely, pc = "add", pc' = "add",
         NEW n \in Nodes, NEW rest \in Seq(AddFrame), Enter(n, rest),
         \A k \in DOMAIN rest : \A i \in DOMAIN In[rest[k].edge] :
            i < rest[k].input => mtime[In[rest[k].edge][i]] # MTIME_UNKNOWN \/ In[rest[k].edge][i] = n,
         UNCHANGED <<fileVars, logmtime, samehash, nprune, todo, result, jobs>>
  PROVE  Timely' /\ status' = status
  <1>0. /\ UNCHANGED <<disk, clock, nodeps>>
        /\ todo = << >> /\ Busy = {} /\ \A e \in Edges : result[e] = "none"
        /\ \A e \in Through : e \in Edges /\ "WORK" \in flags[e] /\ Producers(e) \subseteq Through
        /\ flags \in [Edges -> SUBSET Flags]
        /\ Past /\ Known /\ Statted /\ Recorded /\ Marks /\ Unrun
    BY DEF TypeOK, EdgeType, fileVars, PoolInv, Between, OrderInv, Adding, CycleInv, Closed, Through, Timely
  <1>1. /\ status' = status
        /\ \A m \in Nodes : mtime'[m] = mtime[m] \/ (mtime[m] = MTIME_UNKNOWN /\ mtime'[m] = disk[m])
        /\ mtime'[n] # MTIME_UNKNOWN
        /\ \A m \in Nodes : Gen[m] \in Through => dirty'[m] = dirty[m]
    BY EnterFiles
  <1>2. \/ adding' = rest /\ flags' = flags
        \/ /\ adding' = <<[edge |-> Gen[n], input |-> 1]>> \o rest
           /\ Gen[n] \in Edges /\ "WORK" \notin flags[Gen[n]] /\ "WORK" \in flags'[Gen[n]]
           /\ \A m \in Members(Out[Gen[n]]) : mtime'[m] # MTIME_UNKNOWN
           /\ \A d \in Edges : d # Gen[n] => flags'[d] = flags[d]
           /\ "DIRTY_OUT" \notin flags'[Gen[n]] => Gen[n] \notin nodeps
    BY EnterFiles
  <1>3. Through' = Through /\ \A d \in Through : flags'[d] = flags[d] /\ nblock'[d] = nblock[d]
    BY EnterThrough
  <1>4. \A m \in Nodes : disk[m] # MTIME_UNKNOWN /\ (mtime[m] # MTIME_UNKNOWN => mtime'[m] = mtime[m])
    BY <1>1, Times
  <1>5. Past' /\ Known'
    <2>1. \A m \in Nodes : ~Unsure(m)
      BY <1>0 DEF Unsure
    <2> QED
      BY <1>0, <1>1, <2>1 DEF Past, Known
  <1>6. Statted'
    <2>1. ASSUME NEW e \in Edges, "WORK" \in flags'[e] PROVE Found(Members(Out[e]))'
      <3>1. CASE "WORK" \in flags[e]
        <4>1. Found(Members(Out[e])) /\ Members(Out[e]) \subseteq Nodes
          BY <1>0, <3>1, OutMembers DEF Statted
        <4> QED
          BY <1>4, <4>1 DEF Found
      <3>2. CASE "WORK" \notin flags[e]
        BY <1>2, <2>1, <3>2 DEF Found
      <3> QED
        BY <3>1, <3>2
    <2>2. ASSUME NEW e \in Through' PROVE Found(Members(In[e]))'
      <3>1. Found(Members(In[e])) /\ Members(In[e]) \subseteq Nodes
        BY <1>0, <1>3, OutMembers DEF Statted
      <3> QED
        BY <1>4, <3>1 DEF Found
    <2>3. \A k \in DOMAIN rest : \A i \in DOMAIN In[rest[k].edge] :
             i < rest[k].input => mtime'[In[rest[k].edge][i]] # MTIME_UNKNOWN
      <3> SUFFICES ASSUME NEW k \in DOMAIN rest, NEW i \in DOMAIN In[rest[k].edge], i < rest[k].input
                   PROVE  mtime'[In[rest[k].edge][i]] # MTIME_UNKNOWN
        OBVIOUS
      <3>1. rest[k] \in AddFrame
        OBVIOUS
      <3>2. rest[k].edge \in Edges
        BY <3>1 DEF AddFrame
      <3>3. In[rest[k].edge][i] \in Nodes
        BY <3>2, Inputs
      <3> QED
        BY <1>1, <1>4, <3>3
    <2>4. ASSUME NEW k \in DOMAIN adding'
          PROVE  \A i \in DOMAIN In[adding'[k].edge] :
                    i < adding'[k].input => mtime'[In[adding'[k].edge][i]] # MTIME_UNKNOWN
      <3>1. CASE adding' = rest
        BY <2>3, <2>4, <3>1
      <3>2. CASE /\ adding' = <<[edge |-> Gen[n], input |-> 1]>> \o rest
                 /\ Gen[n] \in Edges
        <4> DEFINE x == [edge |-> Gen[n], input |-> 1]
        <4>1. x \in AddFrame /\ x.edge = Gen[n] /\ x.input = 1
          BY <3>2 DEF AddFrame
        <4>2. adding' = <<x>> \o rest
          BY <3>2
        <4> HIDE DEF x
        <4>3. /\ DOMAIN (<<x>> \o rest) = 1..(Len(rest) + 1) /\ (<<x>> \o rest)[1] = x
              /\ \A h \in 1..(Len(rest) + 1) : h # 1 => h - 1 \in DOMAIN rest /\ (<<x>> \o rest)[h] = rest[h - 1]
          BY <4>1, Pushed
        <4>4. CASE k = 1
          <5>1. adding'[k].edge = Gen[n] /\ adding'[k].input = 1
            BY <4>1, <4>2, <4>3, <4>4
          <5>2. \A j \in DOMAIN In[Gen[n]] : ~(j < 1)
            <6>1. In[Gen[n]] \in Seq(Nodes)
              BY <3>2, GraphTypes
            <6> QED
              BY <6>1
          <5> QED
            BY <5>1, <5>2
        <4>5. CASE k # 1
          <5>1. k - 1 \in DOMAIN rest /\ adding'[k] = rest[k - 1]
            BY <2>4, <4>2, <4>3, <4>5
          <5> QED
            BY <2>3, <5>1
        <4> QED
          BY <4>4, <4>5
      <3> QED
        BY <1>2, <3>1, <3>2
    <2>5. \A k \in DOMAIN adding' :
             LET e == adding'[k].edge IN
             \A m \in {In[e][i] : i \in {j \in DOMAIN In[e] : j < adding'[k].input}} : mtime'[m] # MTIME_UNKNOWN
      BY <2>4
    <2> QED
      BY <2>1, <2>2, <2>5 DEF Statted, Found
  <1>7. Recorded'
    <2> SUFFICES ASSUME NEW e \in Edges
                 PROVE  /\ "WORK" \notin flags'[e] => "DEPS" \notin flags'[e]
                        /\ "WORK" \in flags'[e] /\ "DIRTY_OUT" \notin flags'[e] => e \notin nodeps
      BY <1>0 DEF Recorded
    <2>1. CASE flags'[e] = flags[e]
      BY <1>0, <2>1 DEF Recorded
    <2>2. CASE flags'[e] # flags[e]
      BY <1>2, <2>2
    <2> QED
      BY <2>1, <2>2
  <1>8. Marks'
    <2>1. ASSUME NEW e \in Through, NEW m \in Essential(e), Gen[m] \in Edges
          PROVE  Gen[m] \in Through
      BY <1>0, <2>1, Inputs
    <2> QED
      BY <1>0, <1>1, <1>3, <2>1 DEF Marks
  <1>9. Unrun'
    <2> SUFFICES ASSUME NEW e \in Through \ Phony, "DIRTY_OUT" \notin flags[e]
                 PROVE  Made(e, mtime)' /\ \A i \in 1..Inorder[e] : StillOld(e, i)'
      BY <1>3 DEF Unrun
    <2>0. e \in Edges
      BY <1>0
    <2>1. \A m \in Members(Out[e]) \cup Members(In[e]) : mtime'[m] = mtime[m]
      <3>1. Found(Members(Out[e])) /\ Found(Members(In[e]))
        BY <1>0 DEF Statted
      <3>2. Members(Out[e]) \subseteq Nodes /\ Members(In[e]) \subseteq Nodes
        BY <2>0, OutMembers
      <3> QED
        BY <1>4, <3>1, <3>2 DEF Found
    <2>2. Made(e, mtime) /\ \A i \in 1..Inorder[e] : StillOld(e, i)
      BY <1>0 DEF Unrun
    <2>3. Made(e, mtime)'
      BY <2>1, <2>2 DEF Made
    <2>4. ASSUME NEW i \in 1..Inorder[e] PROVE StillOld(e, i)'
      <3>1. OldFor(e, In[e][i], mtime) \/ (nprune[e] # 0 /\ nprune[e] > nblock[e])
        BY <1>0, <2>2, NoneToTell DEF StillOld
      <3>2. CASE OldFor(e, In[e][i], mtime)
        <4>1. In[e][i] \in Members(In[e])
          BY <2>0, Inputs
        <4> QED
          BY <2>1, <3>2, <4>1 DEF StillOld, OldFor
      <3>3. CASE nprune[e] # 0 /\ nprune[e] > nblock[e]
        BY <1>3, <3>3 DEF StillOld
      <3> QED
        BY <3>1, <3>2, <3>3
    <2> QED
      BY <2>3, <2>4
  <1>10. Outcome' /\ Done'
    BY <1>0, <1>3 DEF Outcome, Busy, Done
  <1> QED
    BY <1>1, <1>5, <1>6, <1>7, <1>8, <1>9, <1>10 DEF Timely

(* AddTarget and AddInput *)
LEMMA TargetTimes ==
  ASSUME TypeOK, PoolInv, OrderInv, CycleInv, Timely, AddTarget, pc' = "add"
  PROVE  Timely' /\ status' = status
  <1> DEFINE rest == << >>
  <1>1. /\ pc = "add" /\ adds # << >> /\ Enter(Head(adds), rest)
        /\ UNCHANGED <<fileVars, logmtime, samehash, nprune, todo, result, jobs>>
    BY DEF AddTarget, jobVars, histVars
  <1>2. Head(adds) \in Nodes
    BY <1>1, Pop DEF TypeOK, AddType
  <1>3. rest \in Seq(AddFrame) /\ DOMAIN rest = {}
    OBVIOUS
  <1> HIDE DEF rest
  <1> QED
    BY <1>1, <1>2, <1>3, EnterTimes

LEMMA InputTimes ==
  ASSUME TypeOK, PoolInv, OrderInv, CycleInv, Timely, AddInput, pc' = "add"
  PROVE  Timely' /\ status' = status
  <1> DEFINE t == Head(adding)
             moved == [t EXCEPT !.input = t.input + 1]
             rest == <<moved>> \o Tail(adding)
             n == In[t.edge][t.input]
  <1>1. /\ pc = "add" /\ adding # << >> /\ t.input <= Len(In[t.edge]) /\ Enter(n, rest)
        /\ UNCHANGED <<fileVars, logmtime, samehash, nprune, todo, result, jobs>>
    BY DEF AddInput, jobVars, histVars
  <1>2. adding \in Seq(AddFrame)
    BY DEF TypeOK, AddType
  <1>3. /\ 1 \in DOMAIN adding /\ t = adding[1] /\ t \in AddFrame /\ Tail(adding) \in Seq(AddFrame)
        /\ \A k \in DOMAIN Tail(adding) : k + 1 \in DOMAIN adding /\ Tail(adding)[k] = adding[k + 1]
    BY <1>1, <1>2, Popped
  <1>4. t.edge \in Edges /\ t.input \in Nat \ {0}
    BY <1>3 DEF AddFrame
  <1>5. moved \in AddFrame /\ moved.edge = t.edge /\ moved.input = t.input + 1
    BY <1>3, <1>4 DEF AddFrame
  <1>6. In[t.edge] \in Seq(Nodes)
    BY <1>4, GraphTypes
  <1>7. n \in Nodes /\ \A i \in DOMAIN In[t.edge] : i \in Int
    BY <1>1, <1>4, <1>6
  <1>8. \A i \in DOMAIN In[t.edge] : i < t.input + 1 => i < t.input \/ In[t.edge][i] = n
    BY <1>4, <1>7
  <1> HIDE DEF t, moved, n
  <1>9. /\ rest \in Seq(AddFrame) /\ DOMAIN rest = 1..(Len(Tail(adding)) + 1) /\ rest[1] = moved
        /\ \A k \in 1..(Len(Tail(adding)) + 1) : k # 1 =>
              k - 1 \in DOMAIN Tail(adding) /\ rest[k] = Tail(adding)[k - 1]
    BY <1>3, <1>5, Pushed, Push
  <1>10. \A k \in DOMAIN adding : \A i \in DOMAIN In[adding[k].edge] :
            i < adding[k].input => mtime[In[adding[k].edge][i]] # MTIME_UNKNOWN
    BY DEF Timely, Statted, Found
  <1> HIDE DEF rest
  <1>11. \A k \in DOMAIN rest : \A i \in DOMAIN In[rest[k].edge] :
            i < rest[k].input => mtime[In[rest[k].edge][i]] # MTIME_UNKNOWN \/ In[rest[k].edge][i] = n
    <2> SUFFICES ASSUME NEW k \in DOMAIN rest, NEW i \in DOMAIN In[rest[k].edge], i < rest[k].input
                 PROVE  mtime[In[rest[k].edge][i]] # MTIME_UNKNOWN \/ In[rest[k].edge][i] = n
      OBVIOUS
    <2>1. CASE k = 1
      <3>1. rest[k].edge = t.edge /\ rest[k].input = t.input + 1
        BY <1>5, <1>9, <2>1
      <3>2. i \in DOMAIN In[t.edge] /\ (i < t.input \/ In[t.edge][i] = n)
        BY <1>8, <3>1
      <3> QED
        BY <1>3, <1>10, <3>1, <3>2
    <2>2. CASE k # 1
      <3>1. k - 1 \in DOMAIN Tail(adding) /\ rest[k] = Tail(adding)[k - 1]
        BY <1>9, <2>2
      <3>2. (k - 1) + 1 \in DOMAIN adding /\ rest[k] = adding[(k - 1) + 1]
        BY <1>3, <3>1
      <3> QED
        BY <1>10, <3>2
    <2> QED
      BY <2>1, <2>2
  <1> QED
    BY <1>1, <1>7, <1>9, <1>11, EnterTimes

(* AddFinish: the edge's outputs have been compared with its inputs.       *)
LEMMA FinishTimes ==
  ASSUME TypeOK, PoolInv, OrderInv, CycleInv, Timely, AddFinish
  PROVE  Timely' /\ status' = status
  <1>0. PICK e : e = Head(adding).edge
    OBVIOUS
  <1> DEFINE blocked == Cardinality({i \in DOMAIN In[e] : Blocks(In[e][i])})
             dirtyin == \E n \in Essential(e) : dirty[n]
             unclean == \E n \in Members(Out[e]) :
                               isdirty(e, mtime[n], logmtime[n], samehash[n], mtime)
             dirtyout == "DIRTY_OUT" \in flags[e] \/ unclean
             fl == (flags[e] \ {"CYCLE"}) \cup (IF dirtyin THEN {"DIRTY_IN"} ELSE {})
                                          \cup (IF dirtyout THEN {"DIRTY_OUT"} ELSE {})
  <1>1. /\ pc = "add" /\ pc' = "add" /\ adding # << >> /\ Head(adding).input > Len(In[e])
        /\ flags' = [flags EXCEPT ![e] = fl]
        /\ nblock' = [nblock EXCEPT ![e] = blocked]
        /\ nprune' = IF dirtyout THEN nprune ELSE [nprune EXCEPT ![e] = blocked]
        /\ dirty' = [n \in Nodes |-> dirty[n] \/ (Dirty(fl) /\ n \in Members(Out[e]))]
        /\ adding' = Tail(adding)
        /\ UNCHANGED <<disk, clock, nodeps, mtime, logmtime, samehash, jobs, todo, result, status>>
    BY <1>0 DEF AddFinish, fileVars, jobVars, mainVars, histVars
  <1>2. /\ todo = << >> /\ Busy = {} /\ \A d \in Edges : result[d] = "none"
        /\ Past /\ Known /\ Statted /\ Recorded /\ Marks /\ Unrun
    BY <1>1 DEF PoolInv, Between, OrderInv, Adding, Timely
  <1>3. /\ nblock \in [Edges -> Int] /\ nprune \in [Edges -> Int] /\ adding \in Seq(AddFrame)
    BY DEF TypeOK, EdgeType, AddType
  <1>4. /\ "CYCLE" \notin fl /\ flags[e] \ {"CYCLE"} \subseteq fl
        /\ fl \subseteq flags[e] \cup {"DIRTY_IN", "DIRTY_OUT"}
        /\ dirtyin => "DIRTY_IN" \in fl
        /\ "DIRTY_OUT" \in fl <=> dirtyout
    <2> HIDE DEF dirtyin
    <2>1. "DIRTY_OUT" \in flags[e] => dirtyout
      OBVIOUS
    <2> HIDE DEF dirtyout
    <2> QED
      BY <2>1
  <1>5. ~dirtyout => "DIRTY_OUT" \notin flags[e] /\ ~unclean
    OBVIOUS
  <1> HIDE DEF dirtyout, fl, blocked
  <1>6. /\ e \in Edges /\ e \notin Through /\ Through' = Through \cup {e}
        /\ Producers(e) \subseteq Through /\ \A d \in Through : Producers(d) \subseteq Through
        /\ flags'[e] = fl /\ \A d \in Edges : d # e => flags'[d] = flags[d]
        /\ "CYCLE" \in flags[e]
    <2>1. flags' = [flags EXCEPT ![e] = fl]
      BY <1>1
    <2>2. "CYCLE" \notin fl /\ flags[e] \ {"CYCLE"} \subseteq fl
      BY <1>4
    <2> QED
      BY <1>0, <2>1, <2>2, FinishJoins, ZenonT(40)
  <1>7. "CYCLE" \in flags[e] /\ "WORK" \in flags[e]
    BY <1>1, <1>6 DEF CycleInv, Marked
  <1>8. Through \subseteq Edges /\ e \notin Through
        /\ \A d \in Through : d # e /\ nblock'[d] = nblock[d] /\ nprune'[d] = nprune[d] /\ flags'[d] = flags[d]
    BY <1>1, <1>3, <1>6 DEF Through
  <1>9. /\ 1 \in DOMAIN adding /\ Head(adding) = adding[1]
        /\ \A k \in DOMAIN Tail(adding) : k + 1 \in DOMAIN adding /\ Tail(adding)[k] = adding[k + 1]
    BY <1>1, <1>3, Popped
  <1>10. Past' /\ Known'
    BY <1>1, <1>2 DEF Past, Known, Unsure
  <1>11. Statted'
    <2>1. \A d \in Edges : "WORK" \in flags'[d] => "WORK" \in flags[d]
      BY <1>6, <1>7
    <2>2. Found(Members(In[e]))
      <3>1. adding[1].edge = e /\ adding[1].input > Len(In[e]) /\ adding[1] \in AddFrame
        BY <1>0, <1>1, <1>3, <1>9
      <3>2. In[e] \in Seq(Nodes) /\ adding[1].input \in Nat
        BY <1>6, <3>1, GraphTypes DEF AddFrame
      <3>3. \A i \in DOMAIN In[e] : i < adding[1].input
        BY <3>1, <3>2
      <3>4. \A i \in DOMAIN In[e] : i < adding[1].input => mtime[In[e][i]] # MTIME_UNKNOWN
        BY <1>2, <1>9, <3>1 DEF Statted, Found
      <3> QED
        BY <3>3, <3>4 DEF Found, Members
    <2>3. \A d \in Through' : Found(Members(In[d]))
      BY <1>2, <1>6, <2>2 DEF Statted
    <2>4. \A k \in DOMAIN adding' :
             LET d == adding'[k].edge IN
             \A m \in {In[d][i] : i \in {j \in DOMAIN In[d] : j < adding'[k].input}} : mtime[m] # MTIME_UNKNOWN
      BY <1>1, <1>2, <1>9 DEF Statted, Found
    <2>5. \A d \in Edges : "WORK" \in flags'[d] => Found(Members(Out[d]))
      BY <1>2, <2>1 DEF Statted
    <2> QED
      BY <1>1, <2>3, <2>4, <2>5 DEF Statted, Found
  <1>12. Recorded'
    <2>1. "DIRTY_OUT" \notin fl => "DIRTY_OUT" \notin flags[e]
      BY <1>4, <1>5
    <2>2. "DIRTY_OUT" \notin fl => e \notin nodeps
      BY <1>2, <1>6, <1>7, <2>1 DEF Recorded
    <2>3. "WORK" \in fl
      BY <1>4, <1>7
    <2> QED
      BY <1>1, <1>2, <1>6, <2>2, <2>3 DEF Recorded
  <1>13. \A n \in Nodes : dirty'[n] <=> dirty[n] \/ (Dirty(fl) /\ n \in Members(Out[e]))
    BY <1>1
  <1>14. Marks'
    <2>1. ASSUME NEW n \in Nodes, Gen[n] \in Through', Dirty(flags'[Gen[n]]) PROVE dirty'[n]
      <3>1. CASE Gen[n] = e
        <4>1. n \in Members(Out[e])
          BY <1>6, <3>1, Generates
        <4> QED
          BY <1>6, <1>13, <2>1, <3>1, <4>1
      <3>2. CASE Gen[n] # e
        <4>1. Gen[n] \in Through /\ Dirty(flags[Gen[n]])
          BY <1>6, <1>8, <2>1, <3>2
        <4> QED
          BY <1>1, <1>2, <1>13, <4>1 DEF Marks
      <3> QED
        BY <3>1, <3>2
    <2>2. ASSUME NEW d \in Through', NEW n \in Essential(d), Gen[n] \in Edges, Dirty(flags'[Gen[n]])
          PROVE  "DIRTY_IN" \in flags'[d]
      <3>1. n \in Nodes /\ Gen[n] \in Producers(d)
        BY <1>6, <1>8, <2>2, Inputs
      <3>2. Gen[n] \in Through /\ Dirty(flags[Gen[n]])
        BY <1>6, <1>8, <2>2, <3>1
      <3>3. CASE d = e
        <4>1. dirty[n]
          BY <1>1, <1>2, <3>1, <3>2 DEF Marks
        <4> QED
          BY <1>4, <1>6, <2>2, <3>3, <4>1
      <3>4. CASE d # e
        <4>1. d \in Through
          BY <1>6, <3>4
        <4> QED
          BY <1>2, <1>8, <2>2, <3>2, <4>1 DEF Marks
      <3> QED
        BY <3>3, <3>4
    <2> QED
      BY <2>1, <2>2 DEF Marks
  <1>15. Unrun'
    <2> SUFFICES ASSUME NEW d \in Through' \ Phony, "DIRTY_OUT" \notin flags'[d]
                 PROVE  Made(d, mtime)' /\ \A i \in 1..Inorder[d] : StillOld(d, i)'
      BY DEF Unrun
    <2>1. CASE d = e
      <3>1. ~unclean
        BY <1>4, <1>5, <1>6, <2>1
      <3>2. \A n \in Nodes : mtime[n] \in Int /\ logmtime[n] \in Int
        BY Times
      <3>3. e \in Edges \ Phony /\ \A o \in Members(Out[e]) : ~isdirty(e, mtime[o], logmtime[o], samehash[o], mtime)
        BY <1>6, <2>1, <3>1
      <3>4. Made(e, mtime) /\ \A n \in Essential(e) : OldFor(e, n, mtime)
        BY <3>2, <3>3, CleanOutputs
      <3>5. \A i \in 1..Inorder[e] : OldFor(e, In[e][i], mtime)
        BY <3>3, <3>4, Inputs
      <3> QED
        BY <1>1, <2>1, <3>4, <3>5 DEF Made, StillOld, OldFor
    <2>2. CASE d # e
      <3>1. d \in Through \ Phony /\ "DIRTY_OUT" \notin flags[d] /\ result[d] = "none"
        BY <1>2, <1>6, <1>8, <2>2
      <3>2. Made(d, mtime) /\ \A i \in 1..Inorder[d] : StillOld(d, i)
        BY <1>2, <3>1 DEF Unrun
      <3>3. ASSUME NEW i \in 1..Inorder[d] PROVE StillOld(d, i)'
        <4>1. OldFor(d, In[d][i], mtime) \/ (nprune[d] # 0 /\ nprune[d] > nblock[d])
          BY <1>2, <3>2, NoneToTell DEF StillOld
        <4> QED
          BY <1>1, <1>8, <3>1, <4>1 DEF StillOld, OldFor
      <3> QED
        BY <1>1, <3>2, <3>3 DEF Made
    <2> QED
      BY <2>1, <2>2
  <1>16. Outcome' /\ Done'
    BY <1>1, <1>2, <1>6, <1>8 DEF Outcome, Busy, Done
  <1> QED
    BY <1>1, <1>10, <1>11, <1>12, <1>14, <1>15, <1>16 DEF Timely

-----------------------------------------------------------------------------
(* build(): its begin and its end *)

(* An edge that is through and was found clean is up to date by the times  *)
(* on disk, unless a command at work on its files may have changed them.   *)
LEMMA UnrunCurrent ==
  ASSUME TypeOK, Timely, NEW e \in Through \ Phony, e \in Edges, "DIRTY_OUT" \notin flags[e],
         Made(e, mtime), \A i \in 1..Inorder[e] : OldFor(e, In[e][i], mtime),
         \A n \in Members(In[e]) \cup Members(Out[e]) : ~Unsure(n)
  PROVE  Current(e, disk)
  <1>1. "WORK" \in flags[e] /\ Known /\ Statted /\ Recorded
    BY DEF Through, Timely
  <1>2. e \notin nodeps
    BY <1>1 DEF Recorded
  <1>3. \A n \in Members(In[e]) \cup Members(Out[e]) : n \in Nodes /\ mtime[n] = disk[n]
    <2>1. Found(Members(Out[e])) /\ Found(Members(In[e]))
      BY <1>1 DEF Statted
    <2> QED
      BY <1>1, <2>1, OutMembers DEF Found, Known
  <1>4. Made(e, disk)
    BY <1>3 DEF Made
  <1>5. \A n \in Essential(e) : OldFor(e, n, disk)
    <2> SUFFICES ASSUME NEW i \in 1..Inorder[e] PROVE OldFor(e, In[e][i], disk)
      BY Inputs
    <2>1. OldFor(e, In[e][i], mtime) /\ In[e][i] \in Members(In[e])
      BY Inputs
    <2> QED
      BY <1>3, <2>1 DEF OldFor
  <1>6. \A n \in Nodes : disk[n] \in Int /\ logmtime[n] \in Int
    BY Times
  <1>7. e \in Edges \ Phony
    OBVIOUS
  <1> QED
    BY <1>2, <1>4, <1>5, <1>6, <1>7, CleanOutputs DEF Current

LEMMA BeginTimes ==
  ASSUME IInv, CycleInv, PoolInv, OrderInv, Working, Timely, status = "run", BuildBegin
  PROVE  TimesInv'
  <1>1. /\ pc = "add" /\ adding = << >> /\ pc' = (IF ntotal = 0 THEN "return" ELSE "start")
        /\ jobs' = << >> /\ status' = "run"
        /\ UNCHANGED <<disk, clock, nodeps, mtime, logmtime, samehash, flags, nblock, nprune, adding, result, todo>>
    BY DEF BuildBegin, fileVars, nodeVars, edgeVars, addVars, mainVars, histVars
  <1>2. Busy' = {}
    BY <1>1 DEF Busy, BusySlots
  <1>3. CASE ntotal # 0
    <2>1. pc' = "start"
      BY <1>1, <1>3
    <2>2. Timely'
      BY <1>1, <1>2, <2>1, TimelySame
    <2> QED
      BY <1>1, <2>1, <2>2 DEF TimesInv
  <1>4. CASE ntotal = 0
    <2>0. /\ TypeOK /\ todo = << >> /\ \A e \in Edges : result[e] = "none" /\ "CYCLE" \notin flags[e]
      BY <1>1, NotMarked DEF IInv, PoolInv, Between, OrderInv, Adding
    <2>1. Planned = {}
      BY <1>4, CountersFinite, FS_EmptySet DEF Working, Progress
    <2>2. ASSUME NEW e \in Edges \ Phony, "WORK" \in flags[e] PROVE Current(e, disk)
      <3>1. e \in Through \ Phony /\ e \in Edges /\ result[e] = "none"
        BY <2>0, <2>2 DEF Through
      <3>2. "DIRTY_OUT" \notin flags[e] /\ ~(nprune[e] # 0 /\ nprune[e] > nblock[e])
        <4>1. CASE Settled(e)
          BY <3>1, <4>1 DEF Settled
        <4>2. CASE ~Settled(e)
          <5>1. ~Dirty(flags[e])
            BY <2>1, <3>1, <4>2 DEF Planned
          <5>2. nprune[e] = nblock[e] /\ nprune[e] \in Int
            BY <2>0, <3>1, <4>2, <5>1 DEF Working, Pruning, TypeOK, EdgeType
          <5> QED
            BY <5>1, <5>2 DEF Dirty
        <4> QED
          BY <4>1, <4>2
      <3>3. Made(e, mtime) /\ \A i \in 1..Inorder[e] : OldFor(e, In[e][i], mtime)
        BY <2>0, <3>1, <3>2, NoneToTell DEF Timely, Unrun, StillOld
      <3>4. \A n : ~Unsure(n)
        BY <2>0 DEF Unsure
      <3> QED
        BY <2>0, <3>1, <3>2, <3>3, <3>4, UnrunCurrent
    <2>3. \A e \in Edges \ Phony : "WORK" \in flags'[e] => Current(e, disk)'
      BY <1>1, <2>2 DEF Current
    <2> QED
      BY <1>1, <1>2, <1>4, <2>3 DEF TimesInv
  <1> QED
    BY <1>3, <1>4

LEMMA EndTimes ==
  ASSUME IInv, CycleInv, PoolInv, OrderInv, ProgressInv, Timely, status = "run", BuildEnd
  PROVE  TimesInv'
  <1>1. /\ pc = "start" /\ Stalled /\ numjobs = 0
        /\ UNCHANGED <<disk, nodeps, mtime, logmtime, samehash, flags, jobs>>
        /\ \/ pc' = "exit" /\ status' = "fatal"
           \/ numfail = 0 /\ pc' = "return" /\ status' = "run"
    BY DEF BuildEnd, Stalled, Fatal, fileVars, nodeVars, edgeVars, jobVars
  <1>2. CASE pc' = "exit" /\ status' = "fatal"
    BY <1>2 DEF TimesInv
  <1>3. CASE numfail = 0 /\ pc' = "return" /\ status' = "run"
    <2>0. TypeOK /\ pc # "exit" /\ adding = << >>
      BY <1>1 DEF IInv, CycleInv
    <2>1. Busy = {}
      <3>1. jobs \in Seq(SlotType)
        BY <2>0 DEF TypeOK, JobType
      <3>2. DOMAIN jobs = 1..Len(jobs) /\ Len(jobs) \in Nat
        BY <3>1
      <3>3. IsFiniteSet(BusySlots(jobs))
        <4>1. IsFiniteSet(DOMAIN jobs)
          BY <3>2, FS_Interval
        <4>2. BusySlots(jobs) \subseteq DOMAIN jobs
          BY DEF BusySlots
        <4> QED
          BY <4>1, <4>2, FS_Subset
      <3> QED
        BY <1>1, <3>3, FS_EmptySet DEF IInv, SlotsSound, Sound, Busy
    <2>2. \A e \in Edges : "WORK" \in flags[e] => Settled(e)
      BY <1>1, <1>3, AllSettled DEF NothingForgotten
    <2>3. ASSUME NEW e \in Edges \ Phony, "WORK" \in flags[e] PROVE Current(e, disk)
      <3>1. e \in Through /\ e \in Edges \ Phony /\ Settled(e)
        BY <2>0, <2>2, <2>3, NotMarked DEF Through
      <3>2. CASE result[e] = "ok"
        BY <3>1, <3>2 DEF Timely, Done
      <3>3. CASE result[e] # "ok"
        <4>1. result[e] = "none" /\ "DIRTY_OUT" \notin flags[e] /\ nprune[e] = 0 /\ Pending(e) = {}
          BY <2>0, <3>1, <3>3 DEF Settled, OrderInv, Counted
        <4>2. Made(e, mtime) /\ \A i \in 1..Inorder[e] : OldFor(e, In[e][i], mtime)
          BY <3>1, <4>1 DEF Timely, Unrun, StillOld, ToTell
        <4>3. \A n \in Members(In[e]) : ~Unsure(n)
          BY <2>0, <3>1, InputsSettled DEF Unsure
        <4>4. \A n \in Members(Out[e]) : ~Unsure(n)
          BY <3>1, <4>1, Generates DEF Unsure
        <4> QED
          BY <2>0, <3>1, <4>1, <4>2, <4>3, <4>4, UnrunCurrent
      <3> QED
        BY <3>2, <3>3
    <2>4. \A e \in Edges \ Phony : "WORK" \in flags'[e] => Current(e, disk)'
      BY <1>1, <2>3 DEF Current
    <2>5. Busy' = {}
      BY <1>1, <2>1 DEF Busy
    <2> QED
      BY <1>3, <2>4, <2>5 DEF TimesInv
  <1> QED
    BY <1>1, <1>2, <1>3

(* The steps that only look *)
LEMMA IdleTimes ==
  ASSUME Timely, status = "run", pc \notin {"return", "exit"},
         WaitForJobs \/ Poll \/ ScanEnd \/ UNCHANGED vars
  PROVE  TimesInv'
  <1>1. UNCHANGED <<disk, clock, nodeps, mtime, logmtime, samehash, flags, nblock, nprune,
                    adding, jobs, result, todo, status>>
    BY DEF WaitForJobs, Poll, ScanEnd, vars, fileVars, nodeVars, edgeVars, addVars, jobVars, mainVars, histVars
  <1>2. pc' \notin {"return", "exit"} /\ (pc' = "add" => pc = "add" /\ dirty' = dirty)
    BY DEF WaitForJobs, Poll, ScanEnd, vars, nodeVars, mainVars
  <1>3. Timely'
    BY <1>1, <1>2, TimelySame
  <1> QED
    BY <1>1, <1>2, <1>3 DEF TimesInv

(* Once build() has returned, only samu's exit comes, and after a failure  *)
(* left-over commands.                                                     *)
LEMMA ReturnTimes ==
  ASSUME IInv, PoolInv, OrderInv, TimesInv, pc \in {"return", "exit"}, [Next]_vars
  PROVE  TimesInv'
  <1>0. TypeOK /\ pass = "targets" /\ todo = << >>
    BY DEF IInv, OrderInv, PoolInv, Between
  <1>1. Finished \/ Commands \/ UNCHANGED vars
    BY <1>0 DEF Next, Samu, Exited, AddTarget, AddInput, AddFinish, ManifestClean, ManifestRetry,
                ManifestPruned, BuildBegin, StartNothing, StartJob, StartFails, MayStart, BuildEnd, Stalled,
                WaitForJobs, Poll, JobDone, ScanEnd, Prune, Unblock, AtUser, SkipUser, NodeDone
  <1>2. CASE Finished \/ UNCHANGED vars
    <2>1. /\ UNCHANGED <<disk, nodeps, logmtime, samehash, flags, jobs>>
          /\ (pc' = pc /\ status' = status) \/ (pc = "return" /\ pc' = "exit" /\ status' = "ok")
      BY <1>2 DEF Finished, vars, fileVars, nodeVars, edgeVars, jobVars, mainVars
    <2>2. Busy' = Busy /\ \A e : Current(e, disk)' <=> Current(e, disk)
      BY <2>1 DEF Busy, Current
    <2> QED
      BY <2>1, <2>2 DEF TimesInv
  <1>3. CASE Commands
    <2>1. Busy # {}
      BY <1>3 DEF Commands
    <2>2. status = "fatal" /\ pc = "exit"
      BY <2>1 DEF TimesInv
    <2>3. pc' = pc /\ status' = status
      BY <1>0, <1>3, CommandEdges DEF mainVars
    <2> QED
      BY <2>2, <2>3 DEF TimesInv
  <1> QED
    BY <1>1, <1>2, <1>3

LEMMA TimesStep ==
  ~DryRun /\ IInv /\ CycleInv /\ PoolInv /\ OrderInv /\ ProgressInv /\ TimesInv /\ [Next]_vars => TimesInv'
  <1> SUFFICES ASSUME ~DryRun, IInv, CycleInv, PoolInv, OrderInv, ProgressInv, TimesInv, [Next]_vars
               PROVE  TimesInv'
    OBVIOUS
  <1>1. CASE pc \in {"return", "exit"}
    BY <1>1, ReturnTimes
  <1>2. CASE pc \notin {"return", "exit"}
    <2>0. TypeOK /\ Working /\ Timely /\ status = "run" /\ pc # "exit" /\ OrderInv'
      BY <1>2, OrderStep DEF IInv, ProgressInv, TimesInv, Exact
    <2>1. CASE AddTarget \/ AddInput
      <3>1. pc = "add" /\ (pc' = "add" \/ (pc' = "exit" /\ status' = "fatal"))
        BY <2>1 DEF AddTarget, AddInput, Enter, Fatal, mainVars
      <3>2. CASE pc' = "add"
        <4>1. Timely' /\ status' = status
          BY <2>0, <2>1, <3>2, TargetTimes, InputTimes
        <4> QED
          BY <2>0, <3>2, <4>1 DEF TimesInv
      <3>3. CASE pc' = "exit" /\ status' = "fatal"
        BY <3>3 DEF TimesInv
      <3> QED
        BY <3>1, <3>2, <3>3
    <2>2. CASE AddFinish
      <3>1. Timely' /\ status' = status
        BY <2>0, <2>2, FinishTimes
      <3>2. pc' = "add"
        BY <2>2 DEF AddFinish, mainVars
      <3> QED
        BY <2>0, <3>1, <3>2 DEF TimesInv
    <2>3. CASE BuildBegin
      BY <2>0, <2>3, BeginTimes
    <2>4. CASE BuildEnd
      BY <2>0, <2>4, EndTimes
    <2>5. CASE StartNothing \/ StartJob \/ StartFails \/ JobDone \/ Prune \/ Unblock \/ SkipUser \/ NodeDone
      <3>1. Timely'
        BY <2>0, <2>5, NothingTimes, JobTimes, FailureTimes, DoneTimes, PruneTimes, UnblockTimes, PassedTimes
      <3>2. pc' = pc /\ status' = status
        BY <2>5 DEF StartNothing, StartJob, StartFails, JobDone, Prune, Unblock, SkipUser, NodeDone, mainVars
      <3> QED
        BY <1>2, <2>0, <3>1, <3>2 DEF TimesInv
    <2>6. CASE Commands
      <3>1. PICK j \in Busy : PipeCloses(j) \/ \E x \in {"ok", "fail"} : CommandExits(j, x)
        BY <2>6 DEF Commands
      <3>2. Timely'
        BY <2>0, <3>1, PipeTimes, ExitTimes
      <3>3. pc' = pc /\ status' = status
        BY <2>0, <2>6, CommandEdges DEF mainVars
      <3> QED
        BY <1>2, <2>0, <3>2, <3>3 DEF TimesInv
    <2>7. CASE WaitForJobs \/ Poll \/ ScanEnd \/ UNCHANGED vars
      BY <1>2, <2>0, <2>7, IdleTimes
    <2>8. CASE ManifestClean \/ ManifestRetry \/ ManifestPruned \/ Finished
      BY <1>2, <2>8 DEF OrderInv, ManifestClean, ManifestRetry, ManifestPruned, Finished
    <2> QED
      BY <2>1, <2>2, <2>3, <2>4, <2>5, <2>6, <2>7, <2>8 DEF Next, Samu, Exited
  <1> QED
    BY <1>1, <1>2

LEMMA TimesInit ==
  Init /\ PastFiles => TimesInv
  <1> SUFFICES ASSUME Init, PastFiles PROVE TimesInv
    OBVIOUS
  <1>1. /\ pc = "add" /\ status = "run" /\ jobs = << >> /\ adding = << >>
        /\ mtime = [n \in Nodes |-> MTIME_UNKNOWN] /\ flags = [e \in Edges |-> {}]
    BY DEF Init
  <1>2. Past
    BY DEF Init, PastFiles, Past
  <1>3. Through = {} /\ Busy = {} /\ \A e \in Edges : flags[e] = {}
    BY <1>1 DEF Through, Busy, BusySlots
  <1>4. Known /\ Statted /\ Recorded /\ Outcome /\ Unrun /\ Done
    BY <1>1, <1>3 DEF Known, Statted, Recorded, Outcome, Unrun, Done
  <1>5. Marks
    BY <1>3 DEF Marks
  <1> QED
    BY <1>1, <1>2, <1>4, <1>5 DEF TimesInv, Timely

-----------------------------------------------------------------------------
(* The theorem *)

(* When samu has succeeded, running it again would find nothing to do: by  *)
(* the times now on disk and in the log, no output of an edge that         *)
(* buildadd() took on is missing, older than an input, or made by another  *)
(* command (edgedone(), nodedone(), isdirty()).                            *)
THEOREM NothingToRedo ==
  ASSUME ~HasManifestRule, ~DryRun, PastFiles
  PROVE  Spec => []UpToDate
  <1>1. Init => TimesInv /\ ProgressInv /\ OrderInv /\ CycleInv /\ PoolInv
    BY TimesInit, ProgressInit, OrderInit, CycleInit, PoolInit
  <1>2. IInv /\ CycleInv /\ PoolInv /\ [Next]_vars => CycleInv' /\ PoolInv'
    BY CycleStep, PoolStep
  <1>3. IInv /\ CycleInv /\ PoolInv /\ OrderInv /\ ProgressInv /\ [Next]_vars => OrderInv' /\ ProgressInv'
    BY OrderStep, ProgressStep DEF Exact
  <1>4. IInv /\ CycleInv /\ PoolInv /\ OrderInv /\ ProgressInv /\ TimesInv /\ [Next]_vars => TimesInv'
    BY TimesStep
  <1>5. TimesInv => UpToDate
    BY DEF TimesInv, UpToDate, Current
  <1> QED
    BY <1>1, <1>2, <1>3, <1>4, <1>5, Invariant, PTL DEF Spec

=============================================================================
