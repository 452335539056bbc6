--------------------------- MODULE ShellJobsProofs ---------------------------
(***************************************************************************)
(* Job control, proved for every number of jobs, processes and pids: the   *)
(* list of jobs is sound whatever fails; where fork() and pipe() do not    *)
(* fail, the table agrees with the kernel about who has exited, and the    *)
(* shell has the terminal back between commands.                           *)
(***************************************************************************)
EXTENDS ShellJobs, FiniteSetTheorems, SequenceTheorems, TLAPS

Once(l) == \A i, k \in DOMAIN l : l[i] = l[k] => i = k

Procs == UNION {[1..n -> [pid : Pids, status : {"run", "stop", "exit"}]] : n \in 0..MaxProc}
JobsType == jobtab \in [Slots -> Job] /\ joblist \in Seq(Slots)
KernType ==
    /\ proc \in [Pids -> {"none", "run", "stopping", "stopped", "zombie"}]
    /\ pgrp \in [Pids -> Pids \cup {rootpid}] /\ tty \in Pids \cup {rootpid}
Blocks == {"none", "block", "cmd", "all"}
Thens == {"builtin", "fg", "fgcmd", "all", "one", "jobs", "pgid", "changed"}

(* The callers that use the job they waited for have one. *)
WaitInv == wait.then \in {"fg", "fgcmd", "one"} => wait.job \in Slots

IInv == TypeOK /\ ListSound /\ WaitInv

LEMMA SlotNumbers == MaxJob \in Nat \ {0} /\ MaxProc \in Nat \ {0} /\ NoJob \notin Slots
  BY JobsAssumption DEF JobsAssumption, Slots, NoJob

-----------------------------------------------------------------------------
(* The list *)

LEMMA ListOf ==
  ASSUME NEW l \in Seq(Slots)
  PROVE  DOMAIN l = 1..Len(l) /\ Len(l) \in Nat /\ \A k \in DOMAIN l : l[k] \in Slots
  OBVIOUS

(* A job is taken out. *)
LEMMA WithoutList ==
  ASSUME NEW l \in Seq(Slots), Once(l), NEW j
  PROVE  /\ Without(l, j) \in Seq(Slots) /\ Once(Without(l, j))
         /\ Listed(Without(l, j)) = Listed(l) \ {j}
  <1>1. CASE j \notin Listed(l)
    <2>1. Without(l, j) = l
      BY <1>1 DEF Without
    <2> QED
      BY <1>1, <2>1
  <1>2. CASE j \in Listed(l)
    <2> DEFINE k == CHOOSE k \in DOMAIN l : l[k] = j
               q == [i \in 1..(Len(l) - 1) |-> IF i < k THEN l[i] ELSE l[i + 1]]
    <2>1. k \in DOMAIN l /\ l[k] = j
      BY <1>2 DEF Listed
    <2>2. Without(l, j) = q
      BY <1>2 DEF Without
    <2>3. DOMAIN l = 1..Len(l) /\ Len(l) \in Nat /\ \A i \in DOMAIN l : l[i] \in Slots
      BY ListOf
    <2> HIDE DEF k
    <2>4. k \in 1..Len(l) /\ Len(l) - 1 \in Nat
      BY <2>1, <2>3
    <2>5. /\ \A i \in DOMAIN q : q[i] = IF i < k THEN l[i] ELSE l[i + 1]
          /\ DOMAIN q = 1..(Len(l) - 1)
      OBVIOUS
    <2>6. \A i \in 1..(Len(l) - 1) : i \in DOMAIN l /\ i + 1 \in DOMAIN l
      BY <2>3, <2>4
    <2>7. q \in Seq(Slots)
      <3>1. \A i \in 1..(Len(l) - 1) : (IF i < k THEN l[i] ELSE l[i + 1]) \in Slots
        BY <2>3, <2>6
      <3> QED
        BY <2>4, <3>1
    <2> HIDE DEF q
    <2>8. Once(q)
      <3> SUFFICES ASSUME NEW a \in DOMAIN q, NEW b \in DOMAIN q, q[a] = q[b] PROVE a = b
        BY DEF Once
      <3>1. l[IF a < k THEN a ELSE a + 1] = l[IF b < k THEN b ELSE b + 1]
        BY <2>5
      <3>2. (IF a < k THEN a ELSE a + 1) = (IF b < k THEN b ELSE b + 1)
        BY <2>5, <2>6, <3>1 DEF Once
      <3> QED
        BY <2>4, <2>5, <3>2
    <2>9. Listed(q) \subseteq Listed(l) \ {j}
      <3> SUFFICES ASSUME NEW a \in DOMAIN q PROVE q[a] \in Listed(l) /\ q[a] # j
        BY DEF Listed
      <3>1. (IF a < k THEN a ELSE a + 1) \in DOMAIN l /\ (IF a < k THEN a ELSE a + 1) # k
        BY <2>4, <2>5, <2>6
      <3>2. q[a] = l[IF a < k THEN a ELSE a + 1]
        BY <2>5
      <3> QED
        BY <2>1, <3>1, <3>2 DEF Listed, Once
    <2>10. Listed(l) \ {j} \subseteq Listed(q)
      <3> SUFFICES ASSUME NEW i \in DOMAIN l, l[i] # j PROVE l[i] \in Listed(q)
        BY DEF Listed
      <3>1. CASE i < k
        <4>1. i \in DOMAIN q /\ q[i] = l[i]
          BY <2>3, <2>4, <2>5, <3>1
        <4> QED
          BY <4>1 DEF Listed
      <3>2. CASE ~(i < k)
        <4>1. i # k
          BY <2>1
        <4>2. i - 1 \in DOMAIN q /\ ~(i - 1 < k) /\ (i - 1) + 1 = i
          BY <2>3, <2>4, <2>5, <3>2, <4>1
        <4>3. q[i - 1] = l[i]
          BY <2>5, <4>2
        <4> QED
          BY <4>2, <4>3 DEF Listed
      <3> QED
        BY <3>1, <3>2
    <2> QED
      BY <2>2, <2>7, <2>8, <2>9, <2>10
  <1> QED
    BY <1>1, <1>2

(* A job is put in, after the first n. *)
LEMMA Inserted ==
  ASSUME NEW l \in Seq(Slots), Once(l), NEW j \in Slots, j \notin Listed(l), NEW n \in 0..Len(l),
         NEW q \in Seq(Slots), Len(q) = Len(l) + 1,
         \A i \in 1..n : q[i] = l[i], q[n + 1] = j,
         \A i \in (n + 2)..(Len(l) + 1) : q[i] = l[i - 1]
  PROVE  Once(q) /\ Listed(q) = Listed(l) \cup {j}
  <1>1. DOMAIN l = 1..Len(l) /\ Len(l) \in Nat /\ n \in Nat /\ n <= Len(l)
    BY ListOf
  <1>2. /\ \A i \in 1..n : q[i] = l[i]
        /\ q[n + 1] = j
        /\ \A i \in (n + 2)..(Len(l) + 1) : q[i] = l[i - 1]
    OBVIOUS
  <1>3. DOMAIN q = 1..(Len(l) + 1)
    BY ListOf
  <1> DEFINE at(i) == IF i <= n THEN i ELSE i - 1
  <1>4. \A i \in DOMAIN q : i # n + 1 => at(i) \in DOMAIN l /\ q[i] = l[at(i)]
    BY <1>1, <1>2, <1>3
  <1>5. \A i \in DOMAIN l : \E k \in DOMAIN q : k # n + 1 /\ q[k] = l[i]
    <2> SUFFICES ASSUME NEW i \in DOMAIN l PROVE \E k \in DOMAIN q : k # n + 1 /\ q[k] = l[i]
      OBVIOUS
    <2>1. CASE i <= n
      BY <1>1, <1>2, <1>3, <2>1
    <2>2. CASE ~(i <= n)
      <3>1. i + 1 \in DOMAIN q /\ i + 1 \in (n + 2)..(Len(l) + 1) /\ (i + 1) - 1 = i
        BY <1>1, <1>3, <2>2
      <3> QED
        BY <1>1, <1>2, <3>1
    <2> QED
      BY <2>1, <2>2
  <1>6. n + 1 \in DOMAIN q
    BY <1>1, <1>3
  <1>7. Listed(q) = Listed(l) \cup {j}
    <2>1. \A k \in DOMAIN q : q[k] \in Listed(l) \cup {j}
      BY <1>2, <1>4 DEF Listed
    <2>2. \A i \in DOMAIN l : l[i] \in Listed(q)
      BY <1>5 DEF Listed
    <2>3. j \in Listed(q)
      BY <1>2, <1>6 DEF Listed
    <2> QED
      BY <2>1, <2>2, <2>3 DEF Listed
  <1>8. Once(q)
    <2> SUFFICES ASSUME NEW a \in DOMAIN q, NEW b \in DOMAIN q, q[a] = q[b] PROVE a = b
      BY DEF Once
    <2>1. CASE a # n + 1 /\ b # n + 1
      <3>1. at(a) = at(b)
        BY <1>4, <2>1 DEF Once
      <3> QED
        BY <1>1, <1>3, <2>1, <3>1
    <2>2. CASE a = n + 1 \/ b = n + 1
      <3>1. \A i \in DOMAIN q : i # n + 1 => q[i] # j
        BY <1>4 DEF Listed
      <3> QED
        BY <1>2, <2>2, <3>1
    <2> QED
      BY <2>1, <2>2
  <1> QED
    BY <1>7, <1>8

LEMMA InsertList ==
  ASSUME NEW l \in Seq(Slots), Once(l), NEW j \in Slots, j \notin Listed(l), NEW n \in 0..Len(l)
  PROVE  LET q == SubSeq(l, 1, n) \o <<j>> \o SubSeq(l, n + 1, Len(l))
         IN q \in Seq(Slots) /\ Once(q) /\ Listed(q) = Listed(l) \cup {j}
  <1>1. n \in Nat /\ n <= Len(l) /\ Len(l) \in Nat
    BY ListOf
  <1>2. PICK u, v : u = SubSeq(l, 1, n) /\ v = SubSeq(l, n + 1, Len(l))
    OBVIOUS
  <1>3. u \in Seq(Slots) /\ Len(u) = n /\ \A i \in 1..n : u[i] = l[i]
    BY <1>1, <1>2
  <1>4. v \in Seq(Slots) /\ Len(v) = Len(l) - n /\ \A i \in 1..(Len(l) - n) : v[i] = l[n + i]
    BY <1>1, <1>2
  <1>5. PICK q : q = u \o <<j>> \o v
    OBVIOUS
  <1>6. PICK w : w = u \o <<j>>
    OBVIOUS
  <1>7. w \in Seq(Slots) /\ Len(w) = n + 1 /\ w[n + 1] = j /\ \A i \in 1..n : w[i] = l[i]
    BY <1>1, <1>3, <1>6
  <1>8. q = w \o v
    BY <1>5, <1>6
  <1>9. /\ q \in Seq(Slots) /\ Len(q) = Len(l) + 1
        /\ \A i \in 1..(n + 1) : q[i] = w[i]
        /\ \A i \in (n + 2)..(Len(l) + 1) : q[i] = v[i - (n + 1)]
    <2>1. /\ q \in Seq(Slots) /\ Len(q) = Len(w) + Len(v)
          /\ \A i \in 1..(Len(w) + Len(v)) : q[i] = IF i <= Len(w) THEN w[i] ELSE v[i - Len(w)]
      BY <1>4, <1>7, <1>8, ConcatProperties
    <2>2. /\ \A i \in 1..Len(w) : q[i] = w[i]
          /\ \A i \in (Len(w) + 1)..(Len(w) + Len(v)) : q[i] = v[i - Len(w)]
      <3>1. PICK a \in Nat, b \in Nat : a = Len(w) /\ b = Len(v)
        BY <1>4, <1>7
      <3>2. \A i \in 1..(a + b) : q[i] = IF i <= a THEN w[i] ELSE v[i - a]
        BY <2>1, <3>1
      <3>3. \A i \in 1..a : q[i] = w[i]
        BY <3>2
      <3>4. \A i \in (a + 1)..(a + b) : q[i] = v[i - a]
        BY <3>2
      <3> QED
        BY <3>1, <3>3, <3>4
    <2>3. (Len(w) + 1)..(Len(w) + Len(v)) = (n + 2)..(Len(l) + 1)
      BY <1>1, <1>4, <1>7
    <2> QED
      BY <1>1, <1>4, <1>7, <2>1, <2>2, <2>3
  <1>10. \A i \in (n + 2)..(Len(l) + 1) : i - (n + 1) \in 1..(Len(l) - n) /\ n + (i - (n + 1)) = i - 1
    BY <1>1
  <1>11. \A i \in (n + 2)..(Len(l) + 1) : q[i] = l[i - 1]
    BY <1>4, <1>9, <1>10
  <1>12. q[n + 1] = j /\ \A i \in 1..n : q[i] = l[i]
    BY <1>1, <1>7, <1>9
  <1>13. Once(q) /\ Listed(q) = Listed(l) \cup {j}
    BY <1>9, <1>11, <1>12, Inserted, SMTT(20)
  <1> QED
    BY <1>2, <1>5, <1>9, <1>13

(* set_curjob() *)
LEMMA FirstList ==
  ASSUME NEW l \in Seq(Slots), Once(l), NEW j \in Slots, j \notin Listed(l)
  PROVE  <<j>> \o l \in Seq(Slots) /\ Once(<<j>> \o l) /\ Listed(<<j>> \o l) = Listed(l) \cup {j}
  <1>1. <<j>> \o l = SubSeq(l, 1, 0) \o <<j>> \o SubSeq(l, 0 + 1, Len(l))
    OBVIOUS
  <1>2. 0 \in 0..Len(l)
    BY ListOf
  <1> QED
    BY <1>1, <1>2, InsertList

LEMMA RunningList ==
  ASSUME NEW l \in Seq(Slots), Once(l), NEW j \in Slots, NEW tab
  PROVE  /\ CurRunning(l, j, tab) \in Seq(Slots) /\ Once(CurRunning(l, j, tab))
         /\ Listed(CurRunning(l, j, tab)) = Listed(l) \cup {j}
  <1> DEFINE m == Without(l, j)
             K == {k \in DOMAIN m : \A i \in 1..k : Stopped(tab, m[i])}
  <1>1. m \in Seq(Slots) /\ Once(m) /\ Listed(m) = Listed(l) \ {j}
    BY WithoutList
  <1>2. Cardinality(K) \in 0..Len(m)
    <2>1. DOMAIN m = 1..Len(m) /\ Len(m) \in Nat
      BY <1>1, ListOf
    <2>2. IsFiniteSet(DOMAIN m) /\ Cardinality(DOMAIN m) = Len(m)
      <3>1. PICK d \in Nat : d = Len(m)
        BY <2>1
      <3>2. IsFiniteSet(1..d) /\ Cardinality(1..d) = d
        BY FS_Interval
      <3> QED
        BY <2>1, <3>1, <3>2
    <2>3. IsFiniteSet(K) /\ Cardinality(K) <= Len(m)
      BY <2>2, FS_Subset
    <2>4. Cardinality(K) \in Nat
      BY <2>3, FS_CardinalityType
    <2> QED
      BY <2>1, <2>3, <2>4
  <1>3. CurRunning(l, j, tab) = SubSeq(m, 1, Cardinality(K)) \o <<j>> \o SubSeq(m, Cardinality(K) + 1, Len(m))
    BY DEF CurRunning, InsertRunning
  <1> HIDE DEF m, K
  <1>4. j \notin Listed(m)
    BY <1>1
  <1>5. /\ CurRunning(l, j, tab) \in Seq(Slots) /\ Once(CurRunning(l, j, tab))
        /\ Listed(CurRunning(l, j, tab)) = Listed(m) \cup {j}
    BY <1>1, <1>2, <1>3, <1>4, InsertList, SMTT(20)
  <1> QED
    BY <1>1, <1>5

(* A job is put first, having been taken out. *)
LEMMA AgainFirst ==
  ASSUME NEW l \in Seq(Slots), Once(l), NEW j \in Slots, NEW q, q = <<j>> \o Without(l, j)
  PROVE  q \in Seq(Slots) /\ Once(q) /\ Listed(q) = Listed(l) \cup {j}
  <1>1. PICK m : m = Without(l, j)
    OBVIOUS
  <1>2. m \in Seq(Slots) /\ Once(m) /\ Listed(m) = Listed(l) \ {j}
    BY <1>1, WithoutList
  <1>3. q \in Seq(Slots) /\ Once(q) /\ Listed(q) = Listed(m) \cup {j}
    BY <1>1, <1>2, FirstList
  <1> QED
    BY <1>2, <1>3

(* showjobs() *)
LEMMA RemainingList ==
  ASSUME NEW l \in Seq(Slots), Once(l), NEW gone, NEW q \in Remaining(l, gone)
  PROVE  q \in Seq(Slots) /\ Once(q) /\ Listed(q) = Listed(l) \ gone
  <1>1. PICK n \in 0..Len(l) : q \in [1..n -> Listed(l) \ gone]
    BY DEF Remaining
  <1>2. /\ Listed(q) = Listed(l) \ gone
        /\ \A i, k \in DOMAIN q : i < k =>
              \E a, b \in DOMAIN l : a < b /\ l[a] = q[i] /\ l[b] = q[k]
    BY DEF Remaining
  <1>3. DOMAIN q = 1..n /\ n \in Nat /\ DOMAIN l = 1..Len(l) /\ Listed(l) \subseteq Slots
    BY <1>1, ListOf DEF Listed
  <1>4. q \in Seq(Slots)
    BY <1>1, <1>3
  <1>5. Once(q)
    <2> SUFFICES ASSUME NEW i \in DOMAIN q, NEW k \in DOMAIN q, i < k PROVE q[i] # q[k]
      BY <1>3 DEF Once
    <2>1. PICK a, b \in DOMAIN l : a < b /\ l[a] = q[i] /\ l[b] = q[k]
      BY <1>2
    <2> QED
      BY <1>3, <2>1 DEF Once
  <1> QED
    BY <1>2, <1>4, <1>5


-----------------------------------------------------------------------------
(* The parts of the state *)

WaitType ==
    /\ pc \in {"idle", "clear", "wait3", "suspend", "waited", "scan"}
    /\ wait \in [block : Blocks, job : Slots \cup {NoJob}, rpid : BOOLEAN, then : Thens]
FlagType == gotsigchld \in BOOLEAN /\ pending_sig \in BOOLEAN

LEMMA Parts ==
  IInv <=> JobsType /\ KernType /\ FlagType /\ WaitType /\ Listed(joblist) = Used /\ Once(joblist) /\ WaitInv
  BY DEF IInv, TypeOK, ListSound, JobsType, KernType, FlagType, WaitType, Blocks, Thens, Listed, Once

LEMMA TableEntry ==
  ASSUME jobtab \in [Slots -> Job], NEW j \in Slots, NEW new \in Job, jobtab' = [jobtab EXCEPT ![j] = new]
  PROVE  /\ jobtab' \in [Slots -> Job]
         /\ Used' = IF new.used THEN Used \cup {j} ELSE Used \ {j}
  BY DEF Used

LEMMA SameUsed ==
  ASSUME NEW tab, jobtab' = tab, \A j \in Slots : tab[j].used = jobtab[j].used
  PROVE  Used' = Used
  BY DEF Used

LEMMA FreeJobType == FreeJob \in Job /\ ~FreeJob.used
  <1>1. 0 \in 0..MaxProc
    BY SlotNumbers
  <1>2. << >> \in Procs
    BY <1>1 DEF Procs
  <1> QED
    BY <1>2 DEF FreeJob, Job, Procs

LEMMA NewPids ==
  ASSUME NEW n \in Nat, NEW s \in PidSeqs(n)
  PROVE  /\ DOMAIN s = 1..n /\ \A i \in 1..n : s[i] \in Pids /\ Fresh(s[i])
         /\ \A i, k \in 1..n : s[i] = s[k] => i = k
  BY DEF PidSeqs

LEMMA NewJobType ==
  ASSUME NEW n \in 0..MaxProc, NEW s \in PidSeqs(n)
  PROVE  NewJob(s) \in Job /\ NewJob(s).used
  <1>1. DOMAIN s = 1..n /\ \A i \in 1..n : s[i] \in Pids
    BY NewPids
  <1>2. [i \in DOMAIN s |-> [pid |-> s[i], status |-> "run"]]
           \in [1..n -> [pid : Pids, status : {"run", "stop", "exit"}]]
    BY <1>1
  <1>3. [i \in DOMAIN s |-> [pid |-> s[i], status |-> "run"]] \in Procs
    BY <1>2 DEF Procs
  <1> HIDE DEF Procs
  <1> QED
    BY <1>3 DEF NewJob, FreeJob, Job, Procs

LEMMA ForkedType ==
  ASSUME KernType, NEW n \in Nat, NEW s \in PidSeqs(n), NEW mode, Forked(s, mode)
  PROVE  KernType'
  <1>1. DOMAIN s = 1..n /\ \A i \in 1..n : s[i] \in Pids
    BY NewPids
  <1> DEFINE new == {s[i] : i \in DOMAIN s}
  <1>2. new # {} => s[1] \in Pids
    <2>1. new # {} => 1 \in 1..n
      BY <1>1
    <2> QED
      BY <1>1, <2>1
  <1>3. /\ proc' = [p \in Pids |-> IF p \in new THEN "run" ELSE proc[p]]
        /\ pgrp' = [p \in Pids |-> IF p \in new THEN IF JobCtl THEN s[1] ELSE rootpid ELSE pgrp[p]]
        /\ tty' = IF JobCtl /\ mode = "fg" /\ new # {} THEN s[1] ELSE tty
    BY DEF Forked
  <1> HIDE DEF new
  <1> QED
    BY <1>2, <1>3 DEF KernType

LEMMA EnterWaitType ==
  ASSUME NEW block \in Blocks, NEW j \in Slots \cup {NoJob}, NEW then \in Thens, NEW tab,
         EnterWait(block, j, then, tab)
  PROVE  /\ WaitType' /\ pc' \in {"waited", "clear"}
         /\ wait'.job = j /\ wait'.then = then /\ wait'.rpid
  <1>1. PICK b \in Blocks : /\ wait' = [block |-> b, job |-> j, rpid |-> TRUE, then |-> then]
                            /\ pc' = IF b = "none" /\ ~gotsigchld THEN "waited" ELSE "clear"
    BY DEF EnterWait, Blocks
  <1> QED
    BY <1>1 DEF WaitType

LEMMA BuiltinDoneType ==
  ASSUME BuiltinDone
  PROVE  WaitType' /\ WaitInv' /\ pc' \in {"waited", "clear"} /\ wait'.then = "builtin"
  <1>1. EnterWait("none", NoJob, "builtin", jobtab')
    BY DEF BuiltinDone
  <1>2. /\ WaitType' /\ pc' \in {"waited", "clear"} /\ wait'.then = "builtin"
    BY <1>1, EnterWaitType DEF Blocks, Thens
  <1> QED
    BY <1>2 DEF WaitInv


-----------------------------------------------------------------------------
(* The table and the list through each action *)

Lists == JobsType /\ Listed(joblist) = Used /\ Once(joblist)

LEMMA StartLists ==
  ASSUME Lists, NEW mode, NEW n \in 1..MaxProc, Start(mode, n)
  PROVE  Lists'
  <1>1. PICK j \in Slots, s \in PidSeqs(n) :
          /\ jobtab' = [jobtab EXCEPT ![j] = NewJob(s)]
          /\ joblist' = IF mode = "bg" THEN CurRunning(NewList(j), j, jobtab') ELSE NewList(j)
    BY DEF Start
  <1>2. NewJob(s) \in Job /\ NewJob(s).used
    BY SlotNumbers, NewJobType
  <1>3. jobtab' \in [Slots -> Job] /\ Used' = Used \cup {j}
    BY <1>1, <1>2, TableEntry DEF Lists, JobsType
  <1>4. NewList(j) \in Seq(Slots) /\ Once(NewList(j)) /\ Listed(NewList(j)) = Used \cup {j}
    BY AgainFirst DEF Lists, JobsType, NewList
  <1>5. joblist' \in Seq(Slots) /\ Once(joblist') /\ Listed(joblist') = Used \cup {j}
    BY <1>1, <1>4, RunningList
  <1> QED
    BY <1>3, <1>5 DEF Lists, JobsType, Once, Listed

LEMMA ForkFailsLists ==
  ASSUME Lists, NEW mode, NEW k, ForkFails(mode, k)
  PROVE  Lists'
  <1>1. PICK j \in Slots : /\ jobtab' = [jobtab EXCEPT ![j] = FreeJob]
                           /\ joblist' = Without(joblist, j)
    BY DEF ForkFails
  <1>2. jobtab' \in [Slots -> Job] /\ Used' = Used \ {j}
    BY <1>1, FreeJobType, TableEntry DEF Lists, JobsType
  <1>3. joblist' \in Seq(Slots) /\ Once(joblist') /\ Listed(joblist') = Used \ {j}
    BY <1>1, WithoutList DEF Lists, JobsType
  <1> QED
    BY <1>2, <1>3 DEF Lists, JobsType, Once, Listed

LEMMA PipeFailsLists ==
  ASSUME Lists, NEW mode, NEW k \in 0..(MaxProc - 2), PipeFails(mode, k)
  PROVE  Lists'
  <1>1. PICK j \in Slots, s \in PidSeqs(k) :
          /\ jobtab' = [jobtab EXCEPT ![j] = NewJob(s)]
          /\ joblist' = IF mode = "bg" /\ k > 0 THEN CurRunning(NewList(j), j, jobtab') ELSE NewList(j)
    BY DEF PipeFails
  <1>2. NewJob(s) \in Job /\ NewJob(s).used
    BY SlotNumbers, NewJobType
  <1>3. jobtab' \in [Slots -> Job] /\ Used' = Used \cup {j}
    BY <1>1, <1>2, TableEntry DEF Lists, JobsType
  <1>4. NewList(j) \in Seq(Slots) /\ Once(NewList(j)) /\ Listed(NewList(j)) = Used \cup {j}
    BY AgainFirst DEF Lists, JobsType, NewList
  <1>5. joblist' \in Seq(Slots) /\ Once(joblist') /\ Listed(joblist') = Used \cup {j}
    BY <1>1, <1>4, RunningList
  <1> QED
    BY <1>3, <1>5 DEF Lists, JobsType, Once, Listed

LEMMA JobFound ==
  ASSUME Lists, NEW p, NEW j \in ThisJob(p)
  PROVE  j = NoJob \/ j \in Used
  <1>1. j = NoJob \/ \E k \in DOMAIN joblist : j = joblist[k]
    BY DEF ThisJob
  <1> QED
    BY <1>1 DEF Lists, Listed

(* What waitone() makes of a job. *)
LEMMA UpdateType ==
  ASSUME Lists, NEW j \in Used, NEW p \in Pids, NEW st \in {"exit", "stop"}, Update(j, p, st)
  PROVE  jobtab' \in [Slots -> Job] /\ Used' = Used
  <1> DEFINE ps == [i \in DOMAIN jobtab[j].ps |->
                       IF jobtab[j].ps[i].pid = p THEN [pid |-> p, status |-> st] ELSE jobtab[j].ps[i]]
             state == IF ps = << >> THEN IF st = "stop" THEN "stopped" ELSE "done" ELSE StateOf(ps)
             changes == state # "running"
  <1>1. j \in Slots /\ jobtab \in [Slots -> Job] /\ jobtab[j] \in Job
    BY DEF Used, Lists, JobsType
  <1>2. ps \in Procs
    <2>1. PICK n \in 0..MaxProc : jobtab[j].ps \in [1..n -> [pid : Pids, status : {"run", "stop", "exit"}]]
      BY <1>1 DEF Job
    <2>2. ps \in [1..n -> [pid : Pids, status : {"run", "stop", "exit"}]]
      BY <2>1
    <2> QED
      BY <2>2 DEF Procs
  <1>3. state \in {"running", "stopped", "done"}
    BY DEF StateOf
  <1>4. jobtab' = [jobtab EXCEPT ![j].ps = ps, ![j].changed = @ \/ changes,
                                 ![j].state = IF changes THEN state ELSE @]
    BY DEF Update
  <1> HIDE DEF ps, state
  <1>5. PICK new : new = [jobtab[j] EXCEPT !.ps = ps, !.changed = @ \/ changes,
                                           !.state = IF changes THEN state ELSE @]
    OBVIOUS
  <1>6. new \in Job /\ new.used = jobtab[j].used
    BY <1>1, <1>2, <1>3, <1>5 DEF Job, Procs
  <1>7. jobtab' = [jobtab EXCEPT ![j] = new]
    BY <1>1, <1>4, <1>5
  <1> QED
    BY <1>1, <1>6, <1>7, TableEntry DEF Used

LEMMA ReapLists ==
  ASSUME Lists, NEW p \in Pids, Reap(p)
  PROVE  Lists'
  <1>1. PICK st \in {"exit", "stop"}, j \in ThisJob(p) : IF j = NoJob THEN UNCHANGED jobVars ELSE Update(j, p, st)
    BY DEF Reap
  <1>2. CASE j = NoJob
    BY <1>1, <1>2 DEF Lists, JobsType, jobVars, Once, Listed, Used
  <1>3. CASE j # NoJob
    <2>1. j \in Used /\ Update(j, p, st)
      BY <1>1, <1>3, JobFound
    <2>2. jobtab' \in [Slots -> Job] /\ Used' = Used
      BY <2>1, UpdateType
    <2>3. joblist' = CurStopped(joblist, j) \/ joblist' = joblist
      BY <2>1 DEF Update
    <2>4. joblist' \in Seq(Slots) /\ Once(joblist') /\ Listed(joblist') = Listed(joblist)
      BY <2>1, <2>3, AgainFirst, SMTT(20) DEF Lists, JobsType, CurStopped, Used
    <2> QED
      BY <2>2, <2>4 DEF Lists, JobsType, Once, Listed
  <1> QED
    BY <1>2, <1>3

LEMMA FreeLists ==
  ASSUME Lists, NEW j \in Slots, FreeIfDone(j)
  PROVE  Lists'
  <1>1. CASE jobtab[j].state = "done"
    <2>1. jobtab' = [jobtab EXCEPT ![j] = FreeJob] /\ joblist' = Without(joblist, j)
      BY <1>1 DEF FreeIfDone
    <2>2. jobtab' \in [Slots -> Job] /\ Used' = Used \ {j}
      BY <2>1, FreeJobType, TableEntry DEF Lists, JobsType
    <2>3. joblist' \in Seq(Slots) /\ Once(joblist') /\ Listed(joblist') = Used \ {j}
      BY <2>1, WithoutList DEF Lists, JobsType
    <2> QED
      BY <2>2, <2>3 DEF Lists, JobsType, Once, Listed
  <1>2. CASE jobtab[j].state # "done"
    BY <1>2 DEF FreeIfDone, Lists, JobsType, jobVars, Once, Listed, Used
  <1> QED
    BY <1>1, <1>2

LEMMA ScanLists ==
  ASSUME Lists, ScanJobs
  PROVE  Lists'
  <1>1. PICK before : jobtab' = [j \in Slots |-> IF j \in before THEN [jobtab[j] EXCEPT !.waited = TRUE]
                                                 ELSE jobtab[j]]
    BY DEF ScanJobs
  <1>2. jobtab \in [Slots -> Job]
    BY DEF Lists, JobsType
  <1>3. \A j \in Slots : [jobtab[j] EXCEPT !.waited = TRUE] \in Job /\ [jobtab[j] EXCEPT !.waited = TRUE].used = jobtab[j].used
    BY <1>2 DEF Job
  <1>4. jobtab' \in [Slots -> Job] /\ \A j \in Slots : jobtab'[j].used = jobtab[j].used
    BY <1>1, <1>2, <1>3
  <1>5. Used' = Used
    BY <1>4 DEF Used
  <1>6. joblist' = joblist
    BY DEF ScanJobs
  <1> QED
    BY <1>4, <1>5, <1>6 DEF Lists, JobsType, Once, Listed

LEMMA WaitedJobLists ==
  ASSUME Lists, wait.job \in Slots, WaitedJob
  PROVE  Lists'
  <1>1. jobtab' = (IF wait.rpid THEN [jobtab EXCEPT ![wait.job].waited = TRUE] ELSE jobtab) /\ joblist' = joblist
    BY DEF WaitedJob
  <1>2. jobtab \in [Slots -> Job] /\ jobtab[wait.job] \in Job
    BY DEF Lists, JobsType
  <1>3. jobtab' \in [Slots -> Job] /\ \A j \in Slots : jobtab'[j].used = jobtab[j].used
    <2>1. [jobtab[wait.job] EXCEPT !.waited = TRUE] \in Job
      BY <1>2 DEF Job
    <2>2. [jobtab[wait.job] EXCEPT !.waited = TRUE].used = jobtab[wait.job].used
      BY <1>2 DEF Job
    <2> QED
      BY <1>1, <1>2, <2>1, <2>2
  <1>4. Used' = Used
    BY <1>3 DEF Used
  <1> QED
    BY <1>1, <1>3, <1>4 DEF Lists, JobsType, Once, Listed

(* restartjob() *)
LEMMA RestartedType ==
  ASSUME Lists, NEW j \in Slots
  PROVE  Restarted(j) \in [Slots -> Job] /\ \A i \in Slots : Restarted(j)[i].used = jobtab[i].used
  <1>1. jobtab \in [Slots -> Job] /\ jobtab[j] \in Job
    BY DEF Lists, JobsType
  <1>2. CASE jobtab[j].state = "done"
    BY <1>1, <1>2 DEF Restarted
  <1>3. CASE jobtab[j].state # "done"
    <2> DEFINE ps == [i \in DOMAIN jobtab[j].ps |->
                         IF jobtab[j].ps[i].status = "stop" THEN [jobtab[j].ps[i] EXCEPT !.status = "run"]
                         ELSE jobtab[j].ps[i]]
    <2>1. ps \in Procs
      <3>1. PICK n \in 0..MaxProc : jobtab[j].ps \in [1..n -> [pid : Pids, status : {"run", "stop", "exit"}]]
        BY <1>1 DEF Job
      <3>2. ps \in [1..n -> [pid : Pids, status : {"run", "stop", "exit"}]]
        BY <3>1
      <3> QED
        BY <3>2 DEF Procs
    <2>2. Restarted(j) = [jobtab EXCEPT ![j].state = "running", ![j].ps = ps]
      BY <1>1, <1>3 DEF Restarted
    <2> HIDE DEF ps
    <2>3. PICK new : new = [jobtab[j] EXCEPT !.state = "running", !.ps = ps]
      OBVIOUS
    <2>4. new \in Job /\ new.used = jobtab[j].used
      BY <1>1, <2>1, <2>3 DEF Job, Procs
    <2>5. Restarted(j) = [jobtab EXCEPT ![j] = new]
      BY <1>1, <2>2, <2>3
    <2> QED
      BY <1>1, <2>4, <2>5
  <1> QED
    BY <1>2, <1>3

LEMMA RestartLists ==
  ASSUME Lists, NEW j \in Slots, Restart(j),
         joblist' = joblist \/ (j \in Used /\ joblist' = CurRunning(joblist, j, jobtab))
  PROVE  Lists'
  <1>1. jobtab' = Restarted(j)
    BY DEF Restart
  <1>2. jobtab' \in [Slots -> Job] /\ \A i \in Slots : jobtab'[i].used = jobtab[i].used
    BY <1>1, RestartedType
  <1>3. Used' = Used
    BY <1>2 DEF Used
  <1>4. joblist' \in Seq(Slots) /\ Once(joblist') /\ Listed(joblist') = Listed(joblist)
    <2>1. CASE joblist' = joblist
      BY <2>1 DEF Lists, JobsType
    <2>2. CASE j \in Used /\ joblist' = CurRunning(joblist, j, jobtab)
      <3>1. PICK q : q = CurRunning(joblist, j, jobtab)
        OBVIOUS
      <3>2. q \in Seq(Slots) /\ Once(q) /\ Listed(q) = Listed(joblist) \cup {j}
        BY <3>1, RunningList DEF Lists, JobsType
      <3>3. joblist' = q /\ Listed(joblist) \cup {j} = Listed(joblist)
        BY <2>2, <3>1 DEF Lists
      <3> QED
        BY <3>2, <3>3
    <2> QED
      BY <2>1, <2>2
  <1> QED
    BY <1>2, <1>3, <1>4 DEF Lists, JobsType, Once, Listed

LEMMA ShowLists ==
  ASSUME Lists, NEW shown, Show(shown)
  PROVE  Lists'
  <1>1. PICK freed : /\ jobtab' = [j \in Slots |-> IF j \in freed THEN FreeJob
                                      ELSE IF j \in shown THEN [jobtab[j] EXCEPT !.changed = FALSE]
                                      ELSE jobtab[j]]
                     /\ joblist' \in Remaining(joblist, freed)
    BY DEF Show
  <1>2. jobtab \in [Slots -> Job]
    BY DEF Lists, JobsType
  <1>3. \A j \in Slots : [jobtab[j] EXCEPT !.changed = FALSE] \in Job /\ [jobtab[j] EXCEPT !.changed = FALSE].used = jobtab[j].used
    BY <1>2 DEF Job
  <1>4. jobtab' \in [Slots -> Job] /\ \A j \in Slots : jobtab'[j].used <=> jobtab[j].used /\ j \notin freed
    BY <1>1, <1>2, <1>3, FreeJobType
  <1>5. Used' = Used \ freed
    BY <1>4 DEF Used
  <1>6. joblist' \in Seq(Slots) /\ Once(joblist') /\ Listed(joblist') = Used \ freed
    BY <1>1, RemainingList DEF Lists, JobsType
  <1> QED
    BY <1>4, <1>5, <1>6 DEF Lists, JobsType, Once, Listed


LEMMA ListsStep ==
  ASSUME Lists, WaitInv, Next
  PROVE  Lists'
  <1> DEFINE Same == UNCHANGED jobVars
  <1>1. Same => Lists'
    BY DEF Lists, JobsType, jobVars, Once, Listed, Used
  <1>2. CASE Command
    <2>1. ASSUME NEW mode \in {"fg", "bg"}, NEW n \in 1..MaxProc, Start(mode, n) PROVE Lists'
      BY <2>1, StartLists
    <2>2. ASSUME NEW mode \in {"fg", "bg"}, NEW k \in 0..(MaxProc - 1), ForkFails(mode, k) PROVE Lists'
      BY <2>2, ForkFailsLists
    <2>3. ASSUME NEW mode \in {"fg", "bg"}, NEW k \in 0..(MaxProc - 2), PipeFails(mode, k) PROVE Lists'
      BY <2>3, PipeFailsLists
    <2>4. ASSUME NEW j \in Slots, Fg(j) PROVE Lists'
      BY <2>4, RestartLists DEF Fg
    <2>5. ASSUME NEW j \in Slots, Bg(j) PROVE Lists'
      <3>1. Restart(j) /\ j \in Used /\ joblist' = CurRunning(joblist, j, jobtab)
        BY <2>5 DEF Bg, Used
      <3> QED
        BY <3>1, RestartLists
    <2>6. ASSUME NEW j \in Slots, ShowJob(j) PROVE Lists'
      BY <2>6, ShowLists DEF ShowJob
    <2>7. HereDocument \/ WaitAll \/ (\E j \in Slots : WaitJob(j))
             \/ (\E mode \in {"jobs", "pgid", "changed"} : ShowJobs(mode)) \/ DoTrap => Same
      BY DEF HereDocument, WaitAll, WaitJob, ShowJobs, DoTrap
    <2> HIDE DEF Same
    <2> QED
      BY <1>1, <1>2, <2>1, <2>2, <2>3, <2>4, <2>5, <2>6, <2>7 DEF Command
  <1>3. CASE Waiting
    <2>1. ASSUME NEW p \in Pids, Reap(p) PROVE Lists'
      BY <2>1, ReapLists
    <2>2. ASSUME Foreground PROVE Lists'
      BY <2>2, FreeLists DEF Foreground, WaitInv
    <2>3. ASSUME ScanJobs PROVE Lists'
      BY <2>3, ScanLists
    <2>4. ASSUME WaitedJob PROVE Lists'
      BY <2>4, WaitedJobLists DEF WaitedJob, WaitInv
    <2>5. ASSUME ShownJobs PROVE Lists'
      BY <2>5, ShowLists DEF ShownJobs
    <2>6. ClearChld \/ WaitEnds \/ WaitSuspends \/ WakeUp \/ NothingToDo \/ WaitedAll => Same
      BY DEF ClearChld, WaitEnds, WaitSuspends, WakeUp, NothingToDo, WaitedAll
    <2> HIDE DEF Same
    <2> QED
      BY <1>1, <1>3, <2>1, <2>2, <2>3, <2>4, <2>5, <2>6 DEF Waiting
  <1>4. CASE Kernel
    <2>1. Same
      BY <1>4 DEF Kernel, ChildExits, ChildStops, ChildContinues, Changes, SignalArrives
    <2> QED
      BY <1>1, <2>1
  <1> QED
    BY <1>2, <1>3, <1>4 DEF Next

(* The first process of a job, which fg and bg make the leader. *)
LEMMA Leader ==
  ASSUME JobsType, NEW j \in Slots, jobtab[j].ps # << >>
  PROVE  jobtab[j].ps[1].pid \in Pids
  <1>1. jobtab[j] \in Job
    BY DEF JobsType
  <1>2. PICK n \in 0..MaxProc : jobtab[j].ps \in [1..n -> [pid : Pids, status : {"run", "stop", "exit"}]]
    BY <1>1 DEF Job
  <1>3. n # 0
    <2>1. SUFFICES ASSUME n = 0 PROVE FALSE
      OBVIOUS
    <2>2. jobtab[j].ps = << >>
      BY <1>2, <2>1
    <2> QED
      BY <2>2
  <1>4. 1 \in 1..n
    BY <1>3, SlotNumbers
  <1> QED
    BY <1>2, <1>4

LEMMA KernStep ==
  ASSUME KernType, FlagType, JobsType, Next
  PROVE  KernType' /\ FlagType'
  <1>1. CASE Command
    <2>1. ASSUME NEW mode \in {"fg", "bg"}, NEW n \in 0..MaxProc, NEW s \in PidSeqs(n),
                 Forked(s, mode), UNCHANGED sigVars
          PROVE  KernType' /\ FlagType'
      BY <2>1, ForkedType, SlotNumbers DEF sigVars, FlagType
    <2>2. ASSUME NEW mode \in {"fg", "bg"}, NEW n \in 1..MaxProc, Start(mode, n) PROVE KernType' /\ FlagType'
      BY <2>1, <2>2, SlotNumbers DEF Start
    <2>3. ASSUME NEW mode \in {"fg", "bg"}, NEW k \in 0..(MaxProc - 1), ForkFails(mode, k) PROVE KernType' /\ FlagType'
      BY <2>1, <2>3, SlotNumbers DEF ForkFails
    <2>4. ASSUME NEW mode \in {"fg", "bg"}, NEW k \in 0..(MaxProc - 2), PipeFails(mode, k) PROVE KernType' /\ FlagType'
      BY <2>1, <2>4, SlotNumbers DEF PipeFails
    <2>5. ASSUME HereDocument PROVE KernType' /\ FlagType'
      BY <2>5 DEF HereDocument, KernType, FlagType, sigVars
    <2>6. ASSUME NEW j \in Slots, Restart(j) PROVE proc' \in [Pids -> {"none", "run", "stopping", "stopped", "zombie"}]
                     /\ pgrp' = pgrp /\ FlagType'
      BY <2>6 DEF Restart, KernType, FlagType
    <2>7. ASSUME NEW j \in Slots, Fg(j) PROVE KernType' /\ FlagType'
      <3>1. tty' \in Pids \cup {rootpid}
        BY <2>7, Leader DEF Fg, KernType
      <3> QED
        BY <2>6, <2>7, <3>1 DEF Fg, KernType
    <2>8. ASSUME NEW j \in Slots, Bg(j) PROVE KernType' /\ FlagType'
      BY <2>6, <2>8 DEF Bg, KernType
    <2>9. ASSUME WaitAll \/ (\E j \in Slots : WaitJob(j) \/ ShowJob(j))
                    \/ (\E mode \in {"jobs", "pgid", "changed"} : ShowJobs(mode))
          PROVE  UNCHANGED <<kernVars, sigVars>>
      BY <2>9 DEF WaitAll, WaitJob, ShowJob, ShowJobs
    <2>10. UNCHANGED <<kernVars, sigVars>> => KernType' /\ FlagType'
      BY DEF kernVars, sigVars, KernType, FlagType
    <2>11. ASSUME DoTrap PROVE KernType' /\ FlagType'
      BY <2>11 DEF DoTrap, kernVars, KernType, FlagType
    <2> QED
      BY <1>1, <2>2, <2>3, <2>4, <2>5, <2>7, <2>8, <2>9, <2>10, <2>11 DEF Command
  <1>2. CASE Waiting
    <2>1. ASSUME NEW p \in Pids, Reap(p) PROVE KernType' /\ FlagType'
      BY <2>1 DEF Reap, sigVars, KernType, FlagType
    <2>2. ASSUME ClearChld \/ WaitEnds \/ WaitSuspends \/ WakeUp PROVE KernType' /\ FlagType'
      BY <2>2 DEF ClearChld, WaitEnds, WaitSuspends, WakeUp, kernVars, sigVars, KernType, FlagType
    <2>3. ASSUME Foreground PROVE KernType' /\ FlagType'
      BY <2>3 DEF Foreground, TakeBack, sigVars, KernType, FlagType
    <2>4. ASSUME NothingToDo \/ ScanJobs \/ WaitedAll \/ WaitedJob \/ ShownJobs PROVE KernType' /\ FlagType'
      BY <2>4 DEF NothingToDo, ScanJobs, WaitedAll, WaitedJob, ShownJobs, kernVars, sigVars, KernType, FlagType
    <2> QED
      BY <1>2, <2>1, <2>2, <2>3, <2>4 DEF Waiting
  <1>3. CASE Kernel
    <2>1. ASSUME NEW p \in Pids, ChildExits(p) \/ ChildStops(p) \/ ChildContinues(p) PROVE KernType' /\ FlagType'
      BY <2>1 DEF ChildExits, ChildStops, ChildContinues, Changes, KernType, FlagType
    <2>2. ASSUME SignalArrives PROVE KernType' /\ FlagType'
      BY <2>2 DEF SignalArrives, kernVars, KernType, FlagType
    <2> QED
      BY <1>3, <2>1, <2>2 DEF Kernel
  <1> QED
    BY <1>1, <1>2, <1>3 DEF Next

LEMMA WaitStep ==
  ASSUME WaitType, WaitInv, Next
  PROVE  WaitType' /\ WaitInv'
  <1> DEFINE Good == WaitType' /\ WaitInv'
  <1>1. UNCHANGED <<pc, wait>> => Good
    BY DEF WaitType, WaitInv
  <1>2. ASSUME NEW q \in {"idle", "clear", "wait3", "suspend", "waited", "scan"}, pc' = q, wait' = wait PROVE Good
    BY <1>2 DEF WaitType, WaitInv
  <1>3. BuiltinDone => Good
    BY BuiltinDoneType
  <1>4. ASSUME NEW block \in Blocks, NEW j \in Slots \cup {NoJob}, NEW then \in Thens, NEW tab,
               then \in {"fg", "fgcmd", "one"} => j \in Slots, EnterWait(block, j, then, tab)
        PROVE  Good
    BY <1>4, EnterWaitType DEF WaitInv
  <1>5. CASE Command
    <2>1. ASSUME NEW mode \in {"fg", "bg"}, NEW n \in 1..MaxProc, Start(mode, n) PROVE Good
      <3>1. PICK j \in Slots : IF mode = "fg" THEN EnterWait("block", j, "fg", jobtab') ELSE UNCHANGED <<pc, wait>>
        BY <2>1 DEF Start
      <3> QED
        BY <1>1, <1>4, <3>1 DEF Blocks, Thens
    <2>2. ASSUME NEW j \in Slots, Fg(j) PROVE Good
      <3>1. EnterWait("block", j, "fgcmd", jobtab')
        BY <2>2 DEF Fg
      <3> QED
        BY <1>4, <3>1 DEF Blocks, Thens
    <2>3. ASSUME NEW j \in Slots, WaitJob(j) PROVE Good
      <3>1. EnterWait("cmd", j, "one", jobtab)
        BY <2>3 DEF WaitJob
      <3> QED
        BY <1>4, <3>1 DEF Blocks, Thens
    <2>4. ASSUME NEW mode \in {"jobs", "pgid", "changed"}, ShowJobs(mode) PROVE Good
      <3>1. EnterWait("none", NoJob, mode, jobtab)
        BY <2>4 DEF ShowJobs
      <3> QED
        BY <1>4, <3>1 DEF Blocks, Thens
    <2>5. ASSUME NEW j \in Slots, Bg(j) \/ ShowJob(j) PROVE Good
      BY <1>3, <2>5 DEF Bg, ShowJob
    <2>6. WaitAll => Good
      BY <1>2 DEF WaitAll
    <2>7. ASSUME NEW mode, NEW k, ForkFails(mode, k) \/ PipeFails(mode, k) PROVE Good
      BY <1>1, <2>7 DEF ForkFails, PipeFails
    <2>8. HereDocument \/ DoTrap => Good
      BY <1>1 DEF HereDocument, DoTrap
    <2> QED
      BY <1>5, <2>1, <2>2, <2>3, <2>4, <2>5, <2>6, <2>7, <2>8 DEF Command
  <1>6. CASE Waiting
    <2>1. ClearChld \/ WaitEnds \/ WaitSuspends \/ NothingToDo => Good
      BY <1>2 DEF ClearChld, WaitEnds, WaitSuspends, NothingToDo
    <2>2. ASSUME NEW p \in Pids, Reap(p) PROVE Good
      BY <2>2 DEF Reap, WaitType, WaitInv, Blocks
    <2>3. WakeUp => Good
      BY DEF WakeUp, WaitType, WaitInv, Blocks
    <2>4. Foreground => Good
      BY <1>2, <1>3 DEF Foreground
    <2>5. ASSUME ScanJobs PROVE Good
      <3>1. BuiltinDone \/ EnterWait("all", NoJob, "all", jobtab)
        BY <2>5 DEF ScanJobs
      <3> QED
        BY <1>3, <1>4, <3>1 DEF Blocks, Thens
    <2>6. ASSUME WaitedAll PROVE Good
      <3>1. (pc' = "scan" /\ wait' = wait) \/ EnterWait("none", NoJob, "builtin", jobtab)
        BY <2>6 DEF WaitedAll
      <3> QED
        BY <1>2, <1>4, <3>1 DEF Blocks, Thens
    <2>7. WaitedJob => Good
      BY <1>3 DEF WaitedJob
    <2>8. ShownJobs => Good
      BY <1>2, <1>3 DEF ShownJobs
    <2> QED
      BY <1>6, <2>1, <2>2, <2>3, <2>4, <2>5, <2>6, <2>7, <2>8 DEF Waiting
  <1>7. CASE Kernel
    BY <1>1, <1>7 DEF Kernel, ChildExits, ChildStops, ChildContinues, Changes, SignalArrives
  <1> QED
    BY <1>5, <1>6, <1>7 DEF Next

LEMMA InvInit == Init => IInv
  <1>1. FreeJob \in Job /\ ~FreeJob.used
    BY FreeJobType
  <1> SUFFICES ASSUME Init PROVE IInv
    OBVIOUS
  <1>2. Used = {} /\ Listed(joblist) = {} /\ Once(joblist) /\ JobsType
    BY <1>1 DEF Init, Used, Listed, Once, JobsType
  <1>3. KernType /\ FlagType /\ WaitType /\ WaitInv
    BY DEF Init, KernType, FlagType, WaitType, WaitInv, Blocks, Thens
  <1> QED
    BY <1>2, <1>3, Parts

LEMMA InvStep == IInv /\ [Next]_vars => IInv'
  <1> SUFFICES ASSUME IInv, [Next]_vars PROVE IInv'
    OBVIOUS
  <1>1. Lists /\ KernType /\ FlagType /\ WaitType /\ WaitInv
    BY Parts DEF Lists
  <1>2. CASE Next
    <2>1. Lists' /\ KernType' /\ FlagType' /\ WaitType' /\ WaitInv'
      BY <1>1, <1>2, ListsStep, KernStep, WaitStep DEF Lists
    <2>2. JobsType' /\ KernType' /\ FlagType' /\ WaitType' /\ (Listed(joblist) = Used)' /\ Once(joblist)' /\ WaitInv'
      BY <2>1 DEF Lists
    <2> QED
      BY <2>2 DEF IInv, TypeOK, ListSound, JobsType, KernType, FlagType, WaitType, Blocks, Thens, Listed, Once
  <1>3. CASE UNCHANGED vars
    BY <1>3 DEF IInv, TypeOK, ListSound, WaitInv, Used, vars, jobVars, kernVars, sigVars
  <1> QED
    BY <1>2, <1>3

LEMMA Invariant == Spec => []IInv
  <1> QED
    BY InvInit, InvStep, PTL DEF Spec

(* Every variable keeps its type, whatever the children, the kernel and    *)
(* the user do and whichever calls fail: in particular the callers of      *)
(* dowait() that look at the job they waited for have one.                 *)
THEOREM TypeCorrect == Spec => []TypeOK
  <1>1. IInv => TypeOK
    BY DEF IInv
  <1> QED
    BY <1>1, Invariant, PTL

(* makejob(), freejob(), set_curjob(), restartjob(), waitone() and         *)
(* showjobs() keep every job in use in the list from curjob on, and in it  *)
(* once: set_curjob() never runs off the end of the list.                  *)
THEOREM ListCorrect == Spec => []ListSound
  <1>1. IInv => ListSound
    BY DEF IInv
  <1> QED
    BY <1>1, Invariant, PTL


-----------------------------------------------------------------------------
(* The terminal *)

(* The shell is without the terminal only while it waits for a job in the  *)
(* foreground.                                                             *)
Lent == pc \notin {"idle", "scan"} /\ wait.then \in {"fg", "fgcmd"}
TermInv == (JobCtl \/ tty = rootpid) /\ (Lent \/ tty = rootpid)

LEMMA StartTerm ==
  ASSUME TermInv, NEW mode \in {"fg", "bg"}, NEW n \in 1..MaxProc, Start(mode, n)
  PROVE  TermInv'
  <1>1. PICK j \in Slots, s \in PidSeqs(n) :
          /\ Forked(s, mode)
          /\ IF mode = "fg" THEN EnterWait("block", j, "fg", jobtab') ELSE UNCHANGED <<pc, wait>>
    BY DEF Start
  <1>2. CASE mode = "bg"
    <2>1. tty' = tty /\ pc' = pc /\ wait' = wait
      BY <1>1, <1>2 DEF Forked
    <2> QED
      BY <2>1 DEF TermInv, Lent
  <1>3. CASE mode = "fg"
    <2>1. pc' \in {"waited", "clear"} /\ wait'.then = "fg"
      BY <1>1, <1>3, EnterWaitType DEF Blocks, Thens
    <2>2. JobCtl \/ tty' = tty
      BY <1>1 DEF Forked
    <2> QED
      BY <2>1, <2>2 DEF TermInv, Lent
  <1> QED
    BY <1>2, <1>3

LEMMA FailTerm ==
  ASSUME Failures => ~JobCtl, TermInv, NEW mode, NEW k, ForkFails(mode, k) \/ PipeFails(mode, k)
  PROVE  TermInv'
  <1>1. ~JobCtl
    BY DEF ForkFails, PipeFails
  <1>2. PICK s : Forked(s, mode)
    BY DEF ForkFails, PipeFails
  <1>3. tty' = tty
    BY <1>1, <1>2 DEF Forked
  <1> QED
    BY <1>1, <1>3 DEF TermInv

LEMMA TermStep ==
  ASSUME Failures => ~JobCtl, TermInv, Next
  PROVE  TermInv'
  <1>1. ASSUME tty = rootpid, tty' = tty PROVE TermInv'
    BY <1>1 DEF TermInv
  <1>2. UNCHANGED <<tty, pc, wait>> => TermInv'
    BY DEF TermInv, Lent
  <1>3. pc \in {"idle", "scan"} => tty = rootpid
    BY DEF TermInv, Lent
  <1>4. CASE Command
    <2>1. ASSUME NEW j \in Slots, Fg(j) PROVE TermInv'
      <3>1. JobCtl /\ EnterWait("block", j, "fgcmd", jobtab')
        BY <2>1 DEF Fg
      <3>2. pc' \in {"waited", "clear"} /\ wait'.then = "fgcmd"
        BY <3>1, EnterWaitType DEF Blocks, Thens
      <3> QED
        BY <3>1, <3>2 DEF TermInv, Lent
    <2>2. WaitAll \/ (\E j \in Slots : WaitJob(j) \/ Bg(j) \/ ShowJob(j))
             \/ (\E mode \in {"jobs", "pgid", "changed"} : ShowJobs(mode)) => TermInv'
      BY <1>1, <1>3 DEF WaitAll, WaitJob, Bg, ShowJob, ShowJobs, kernVars
    <2>3. HereDocument \/ DoTrap => TermInv'
      BY <1>2 DEF HereDocument, DoTrap, kernVars
    <2>4. ASSUME NEW mode \in {"fg", "bg"}, NEW n \in 1..MaxProc, Start(mode, n) PROVE TermInv'
      BY <2>4, StartTerm
    <2>5. ASSUME NEW mode, NEW k, ForkFails(mode, k) \/ PipeFails(mode, k) PROVE TermInv'
      BY <2>5, FailTerm
    <2> QED
      BY <1>4, <2>1, <2>2, <2>3, <2>4, <2>5 DEF Command
  <1>5. CASE Waiting
    <2>1. ClearChld \/ (\E p \in Pids : Reap(p)) \/ WaitEnds \/ WaitSuspends \/ WakeUp => TermInv'
      <3>1. ASSUME pc \notin {"idle", "scan"}, pc' \notin {"idle", "scan"}, wait'.then = wait.then, tty' = tty
            PROVE  TermInv'
        BY <3>1 DEF TermInv, Lent
      <3>2. ClearChld \/ WaitEnds \/ WaitSuspends => TermInv'
        BY <3>1 DEF ClearChld, WaitEnds, WaitSuspends, kernVars
      <3>3. ASSUME NEW p \in Pids, Reap(p) PROVE TermInv'
        <4>1. pc = "wait3" /\ pc' = "clear" /\ wait'.then = wait.then /\ tty' = tty
          BY <3>3 DEF Reap
        <4> QED
          BY <3>1, <4>1
      <3>4. ASSUME WakeUp PROVE TermInv'
        <4>1. pc = "suspend" /\ pc' = "clear" /\ wait'.then = wait.then /\ tty' = tty
          BY <3>4 DEF WakeUp, kernVars
        <4> QED
          BY <3>1, <4>1
      <3> QED
        BY <3>2, <3>3, <3>4
    <2>2. Foreground => TermInv'
      BY DEF Foreground, TakeBack, TermInv
    <2>3. wait.then \notin {"fg", "fgcmd"} => tty = rootpid
      BY DEF TermInv, Lent
    <2>4. NothingToDo \/ WaitedAll \/ WaitedJob \/ ShownJobs => TermInv'
      BY <1>1, <2>3 DEF NothingToDo, WaitedAll, WaitedJob, ShownJobs, kernVars
    <2>5. ScanJobs => TermInv'
      BY <1>1, <1>3 DEF ScanJobs, kernVars
    <2> QED
      BY <1>5, <2>1, <2>2, <2>4, <2>5 DEF Waiting
  <1>6. CASE Kernel
    BY <1>2, <1>6 DEF Kernel, ChildExits, ChildStops, ChildContinues, Changes, SignalArrives, kernVars
  <1> QED
    BY <1>4, <1>5, <1>6 DEF Next

(* waitforjob() takes the terminal back however the job ends or stops, so  *)
(* that the shell has it between commands - unless fork() or pipe() fails  *)
(* under job control once a process of the pipeline has got it.            *)
THEOREM TerminalCorrect ==
  ASSUME Failures => ~JobCtl
  PROVE  Spec => []TerminalBack
  <1>1. Init => TermInv
    BY DEF Init, TermInv
  <1>2. TermInv /\ [Next]_vars => TermInv'
    BY TermStep DEF vars, kernVars, TermInv, Lent
  <1>3. TermInv => TerminalBack
    BY DEF TermInv, Lent, TerminalBack
  <1> QED
    BY <1>1, <1>2, <1>3, PTL DEF Spec


-----------------------------------------------------------------------------
(* What a step does to the jobs and to the processes they name *)

LEMMA Process ==
  ASSUME JobsType, NEW j \in Slots, NEW i \in DOMAIN jobtab[j].ps
  PROVE  jobtab[j].ps[i].pid \in Pids /\ jobtab[j].ps[i].status \in {"run", "stop", "exit"}
  <1>1. jobtab[j] \in Job
    BY DEF JobsType
  <1>2. PICK n \in 0..MaxProc : jobtab[j].ps \in [1..n -> [pid : Pids, status : {"run", "stop", "exit"}]]
    BY <1>1 DEF Job
  <1> QED
    BY <1>2

(* No process that a job names comes or goes. *)
SameProcesses == \A p \in Pids : Named(p) => (proc'[p] = "none" <=> proc[p] = "none")

(* The jobs left are as they were, a job was made, or one was restarted.   *)
SameJobs == \A j \in Used' : j \in Used /\ jobtab'[j].state = jobtab[j].state /\ jobtab'[j].ps = jobtab[j].ps
JobMade == \E j \in Slots, n \in Nat : \E s \in PidSeqs(n) :
              /\ n = 0 => Failures
              /\ jobtab' = [jobtab EXCEPT ![j] = NewJob(s)]
              /\ \A i \in 1..n : proc'[s[i]] = "run"
JobRestarted == \E j \in Used : JobCtl /\ jobtab[j].ps # << >> /\ jobtab' = Restarted(j)

LEMMA ForkedProcesses ==
  ASSUME KernType, ~PidReuse, NEW n \in Nat, NEW s \in PidSeqs(n), NEW mode, Forked(s, mode)
  PROVE  SameProcesses /\ \A i \in 1..n : proc'[s[i]] = "run"
  <1> DEFINE new == {s[i] : i \in DOMAIN s}
  <1>1. DOMAIN s = 1..n /\ \A i \in 1..n : s[i] \in Pids /\ Fresh(s[i])
    BY NewPids
  <1>2. proc' = [p \in Pids |-> IF p \in new THEN "run" ELSE proc[p]]
    BY DEF Forked
  <1>3. \A p \in new : ~Named(p)
    BY <1>1 DEF Fresh
  <1>4. \A i \in 1..n : s[i] \in new /\ s[i] \in Pids
    BY <1>1
  <1> HIDE DEF new
  <1>5. \A p \in Pids : Named(p) => proc'[p] = proc[p]
    BY <1>2, <1>3
  <1>6. \A i \in 1..n : proc'[s[i]] = "run"
    BY <1>2, <1>4
  <1> QED
    BY <1>5, <1>6 DEF SameProcesses

LEMMA Unchanged == UNCHANGED jobtab => SameJobs
  BY DEF SameJobs, Used

LEMMA RestartSteps ==
  ASSUME KernType, JobCtl, NEW j \in Used, jobtab[j].ps # << >>, Restart(j)
  PROVE  SameProcesses /\ JobRestarted
  <1>1. \A p \in Pids : proc'[p] = "none" <=> proc[p] = "none"
    BY DEF Restart, Continued
  <1> QED
    BY <1>1 DEF SameProcesses, JobRestarted, Restart

LEMMA ShowSteps ==
  ASSUME NEW shown, Show(shown)
  PROVE  SameJobs
  <1>1. PICK freed : jobtab' = [j \in Slots |-> IF j \in freed THEN FreeJob
                                      ELSE IF j \in shown THEN [jobtab[j] EXCEPT !.changed = FALSE]
                                      ELSE jobtab[j]]
    BY DEF Show
  <1> SUFFICES ASSUME NEW j \in Used'
               PROVE  j \in Used /\ jobtab'[j].state = jobtab[j].state /\ jobtab'[j].ps = jobtab[j].ps
    BY DEF SameJobs
  <1> QED
    BY <1>1, FreeJobType DEF Used

LEMMA CommandSteps ==
  ASSUME IInv, ~PidReuse, Command
  PROVE  SameProcesses /\ (SameJobs \/ JobMade \/ JobRestarted)
  <1> DEFINE Goal == SameProcesses /\ (SameJobs \/ JobMade \/ JobRestarted)
  <1>1. KernType /\ JobsType
    BY Parts
  <1>2. UNCHANGED <<jobtab, proc>> => Goal
    BY Unchanged DEF SameProcesses
  <1>3. ASSUME NEW j \in Slots, NEW n \in 1..MaxProc, NEW s \in PidSeqs(n), NEW mode,
               Forked(s, mode), jobtab' = [jobtab EXCEPT ![j] = NewJob(s)]
        PROVE  Goal
    <2>1. n \in Nat /\ n # 0
      BY SlotNumbers
    <2>2. SameProcesses /\ \A i \in 1..n : proc'[s[i]] = "run"
      BY <1>1, <1>3, <2>1, ForkedProcesses
    <2>3. JobMade
      BY <1>3, <2>1, <2>2 DEF JobMade
    <2> QED
      BY <2>2, <2>3
  <1>4. ASSUME NEW mode \in {"fg", "bg"}, NEW n \in 1..MaxProc, Start(mode, n) PROVE Goal
    <2>1. PICK j \in Slots, s \in PidSeqs(n) : Forked(s, mode) /\ jobtab' = [jobtab EXCEPT ![j] = NewJob(s)]
      BY <1>4 DEF Start
    <2> QED
      BY <1>3, <2>1
  <1>5. ASSUME NEW mode \in {"fg", "bg"}, NEW k \in 0..(MaxProc - 1), ForkFails(mode, k) PROVE Goal
    <2>1. PICK j \in Slots, s \in PidSeqs(k) : Forked(s, mode) /\ jobtab' = [jobtab EXCEPT ![j] = FreeJob]
      BY <1>5 DEF ForkFails
    <2>2. SameJobs
      BY <1>1, <2>1, FreeJobType DEF SameJobs, Used, JobsType
    <2> QED
      BY <1>1, <2>1, <2>2, ForkedProcesses
  <1>6. ASSUME NEW mode \in {"fg", "bg"}, NEW k \in 0..(MaxProc - 2), PipeFails(mode, k) PROVE Goal
    <2>1. PICK j \in Slots, s \in PidSeqs(k) : Forked(s, mode) /\ jobtab' = [jobtab EXCEPT ![j] = NewJob(s)]
      BY <1>6 DEF PipeFails
    <2>2. Failures /\ k \in Nat
      BY <1>6 DEF PipeFails
    <2> QED
      BY <1>1, <2>1, <2>2, ForkedProcesses DEF JobMade
  <1>7. ASSUME HereDocument PROVE Goal
    <2>1. PICK p \in Pids : Fresh(p) /\ proc' = [proc EXCEPT ![p] = "run"]
      BY <1>7 DEF HereDocument
    <2>2. ~Named(p)
      BY <2>1 DEF Fresh
    <2>3. SameProcesses
      BY <1>1, <2>1, <2>2 DEF SameProcesses, KernType
    <2> QED
      BY <1>7, <2>3, Unchanged DEF HereDocument, jobVars
  <1>8. ASSUME NEW j \in Slots, Fg(j) \/ Bg(j) PROVE Goal
    BY <1>1, <1>8, RestartSteps DEF Fg, Bg, Used
  <1>9. ASSUME NEW j \in Slots, ShowJob(j) PROVE Goal
    BY <1>9, ShowSteps DEF ShowJob, kernVars, SameProcesses
  <1>10. WaitAll \/ (\E j \in Slots : WaitJob(j)) \/ DoTrap
            \/ (\E mode \in {"jobs", "pgid", "changed"} : ShowJobs(mode)) => Goal
    BY <1>2 DEF WaitAll, WaitJob, DoTrap, ShowJobs, jobVars, kernVars
  <1> QED
    BY <1>4, <1>5, <1>6, <1>7, <1>8, <1>9, <1>10 DEF Command

LEMMA WaitingSteps ==
  ASSUME IInv, Waiting
  PROVE  (\E p \in Pids : Reap(p)) \/ (SameProcesses /\ SameJobs)
  <1> DEFINE Goal == SameProcesses /\ SameJobs
  <1>1. UNCHANGED <<jobtab, proc>> => Goal
    BY Unchanged DEF SameProcesses
  <1>2. proc' = proc => SameProcesses
    BY DEF SameProcesses
  <1>3. jobtab \in [Slots -> Job]
    BY Parts DEF JobsType
  <1>4. ClearChld \/ WaitEnds \/ WaitSuspends \/ WakeUp \/ NothingToDo \/ WaitedAll => Goal
    BY <1>1 DEF ClearChld, WaitEnds, WaitSuspends, WakeUp, NothingToDo, WaitedAll, jobVars, kernVars
  <1>5. ASSUME Foreground PROVE Goal
    <2>1. wait.job \in Slots /\ FreeIfDone(wait.job) /\ proc' = proc
      BY <1>5 DEF Foreground, IInv, WaitInv
    <2>2. jobtab' = [jobtab EXCEPT ![wait.job] = FreeJob] \/ jobtab' = jobtab
      BY <2>1 DEF FreeIfDone, jobVars
    <2> QED
      BY <1>2, <1>3, <2>1, <2>2, FreeJobType DEF SameJobs, Used
  <1>6. ASSUME ScanJobs PROVE Goal
    <2>1. PICK before : jobtab' = [j \in Slots |-> IF j \in before THEN [jobtab[j] EXCEPT !.waited = TRUE]
                                                   ELSE jobtab[j]]
      BY <1>6 DEF ScanJobs
    <2>2. \A j \in Slots : jobtab'[j].used = jobtab[j].used /\ jobtab'[j].state = jobtab[j].state
                              /\ jobtab'[j].ps = jobtab[j].ps
      BY <1>3, <2>1 DEF Job
    <2> QED
      BY <1>2, <1>6, <2>2 DEF SameJobs, Used, ScanJobs, kernVars
  <1>7. ASSUME WaitedJob PROVE Goal
    <2>1. wait.job \in Slots
      BY <1>7 DEF WaitedJob, IInv, WaitInv
    <2>2. jobtab' = [jobtab EXCEPT ![wait.job].waited = TRUE] \/ jobtab' = jobtab
      BY <1>7 DEF WaitedJob
    <2>3. \A j \in Slots : jobtab'[j].used = jobtab[j].used /\ jobtab'[j].state = jobtab[j].state
                              /\ jobtab'[j].ps = jobtab[j].ps
      BY <1>3, <2>1, <2>2 DEF Job
    <2> QED
      BY <1>2, <1>7, <2>3 DEF SameJobs, Used, WaitedJob, kernVars
  <1>8. ASSUME ShownJobs PROVE Goal
    BY <1>2, <1>8, ShowSteps DEF ShownJobs, kernVars
  <1> QED
    BY <1>4, <1>5, <1>6, <1>7, <1>8 DEF Waiting

LEMMA Steps ==
  ASSUME IInv, ~PidReuse, Next
  PROVE  (\E p \in Pids : Reap(p)) \/ (SameProcesses /\ (SameJobs \/ JobMade \/ JobRestarted))
  <1>1. ASSUME Kernel PROVE SameProcesses /\ SameJobs
    <2>1. ASSUME NEW p \in Pids, ChildExits(p) \/ ChildStops(p) \/ ChildContinues(p) PROVE SameProcesses /\ SameJobs
      <3>1. /\ proc[p] # "none" /\ jobtab' = jobtab
            /\ \E to \in {"zombie", "stopping", "run"} : proc' = [proc EXCEPT ![p] = to]
        BY <2>1 DEF ChildExits, ChildStops, ChildContinues, Changes, jobVars
      <3> QED
        BY <3>1, Unchanged DEF SameProcesses, IInv, TypeOK
    <2>2. ASSUME SignalArrives PROVE SameProcesses /\ SameJobs
      BY <2>2, Unchanged DEF SignalArrives, jobVars, kernVars, SameProcesses
    <2> QED
      BY <1>1, <2>1, <2>2 DEF Kernel
  <1> QED
    BY <1>1, CommandSteps, WaitingSteps DEF Next

(* What waitone() writes into the job it has found. *)
Noted(ps, p, st) == [i \in DOMAIN ps |-> IF ps[i].pid = p THEN [pid |-> p, status |-> st] ELSE ps[i]]
StateNoted(ps, st) == IF ps = << >> THEN IF st = "stop" THEN "stopped" ELSE "done" ELSE StateOf(ps)

LEMMA Updated ==
  ASSUME JobsType, NEW j \in Slots, NEW p, NEW st, Update(j, p, st)
  PROVE  /\ jobtab'[j].ps = Noted(jobtab[j].ps, p, st)
         /\ jobtab'[j].state = IF StateNoted(Noted(jobtab[j].ps, p, st), st) # "running"
                               THEN StateNoted(Noted(jobtab[j].ps, p, st), st) ELSE jobtab[j].state
         /\ \A k \in Slots \ {j} : jobtab'[k] = jobtab[k]
  <1>1. PICK ps, state : ps = Noted(jobtab[j].ps, p, st) /\ state = StateNoted(ps, st)
    OBVIOUS
  <1>2. jobtab' = [jobtab EXCEPT ![j].ps = ps, ![j].changed = @ \/ state # "running",
                                 ![j].state = IF state # "running" THEN state ELSE @]
    BY <1>1 DEF Update, Noted, StateNoted
  <1>3. jobtab \in [Slots -> Job] /\ jobtab[j] \in Job
    BY DEF JobsType
  <1>4. jobtab[j] = [used |-> jobtab[j].used, state |-> jobtab[j].state, ps |-> jobtab[j].ps,
                     waited |-> jobtab[j].waited, changed |-> jobtab[j].changed]
    BY <1>3 DEF Job
  <1>5. jobtab'[j].ps = ps /\ jobtab'[j].state = IF state # "running" THEN state ELSE jobtab[j].state
    BY <1>2, <1>3, <1>4
  <1>6. \A k \in Slots \ {j} : jobtab'[k] = jobtab[k]
    BY <1>2, <1>3
  <1> QED
    BY <1>1, <1>5, <1>6


-----------------------------------------------------------------------------
(* wait, without job control *)

(* Without job control no job is ever stopped, an entry says exit only of  *)
(* a process that is gone, and a job is done only when all entries do.     *)
ExitsOf(j) ==
    /\ jobtab[j].state # "stopped"
    /\ \A i \in DOMAIN jobtab[j].ps :
          /\ jobtab[j].ps[i].status # "stop"
          /\ jobtab[j].ps[i].status = "exit" => proc[jobtab[j].ps[i].pid] = "none"
          /\ jobtab[j].state = "done" => jobtab[j].ps[i].status = "exit"
Exits == \A j \in Used : ExitsOf(j)

LEMMA NamedIn ==
  ASSUME NEW j \in Used, NEW i \in DOMAIN jobtab[j].ps
  PROVE  j \in Slots /\ Named(jobtab[j].ps[i].pid)
  BY DEF Used, Named

LEMMA Made ==
  ASSUME IInv, NEW j \in Slots, NEW n \in Nat, NEW s \in PidSeqs(n), jobtab' = [jobtab EXCEPT ![j] = NewJob(s)]
  PROVE  /\ jobtab'[j].state = "running" /\ DOMAIN jobtab'[j].ps = 1..n
         /\ \A i \in 1..n : jobtab'[j].ps[i].pid = s[i] /\ jobtab'[j].ps[i].status = "run"
         /\ \A k \in Used' : k # j => k \in Used /\ jobtab'[k] = jobtab[k]
  <1>1. jobtab \in [Slots -> Job]
    BY Parts DEF JobsType
  <1>2. jobtab'[j] = NewJob(s)
    BY <1>1
  <1>3. DOMAIN s = 1..n
    BY NewPids
  <1>4. jobtab'[j].state = "running" /\ jobtab'[j].ps = [i \in DOMAIN s |-> [pid |-> s[i], status |-> "run"]]
    BY <1>2, ZenonT(40) DEF NewJob, FreeJob
  <1>5. \A k \in Used' : k # j => k \in Used /\ jobtab'[k] = jobtab[k]
    BY <1>1 DEF Used
  <1>6. \A i \in 1..n : jobtab'[j].ps[i] = [pid |-> s[i], status |-> "run"]
    BY <1>3, <1>4
  <1>7. \A i \in 1..n : jobtab'[j].ps[i].pid = s[i] /\ jobtab'[j].ps[i].status = "run"
    <2> TAKE i \in 1..n
    <2>1. PICK e : e = jobtab'[j].ps[i]
      OBVIOUS
    <2>2. e = [pid |-> s[i], status |-> "run"]
      BY <1>6, <2>1
    <2> QED
      BY ONLY <2>1, <2>2
  <1> QED
    BY <1>3, <1>4, <1>5, <1>7

LEMMA ReapExits ==
  ASSUME IInv, Exits, ~JobCtl, NEW p \in Pids, Reap(p)
  PROVE  Exits'
  <1>1. JobsType /\ KernType /\ Lists
    BY Parts DEF Lists
  <1>2. proc[p] = "zombie"
    BY DEF Reap, Reportable
  <1>3. proc' = [proc EXCEPT ![p] = "none"]
    BY <1>2 DEF Reap
  <1>4. PICK j \in ThisJob(p) : IF j = NoJob THEN UNCHANGED jobVars ELSE Update(j, p, "exit")
    BY <1>2 DEF Reap
  <1>5. \A q \in Pids : proc[q] = "none" => proc'[q] = "none"
    BY <1>1, <1>3 DEF KernType
  <1>6. ASSUME NEW k \in Used, jobtab'[k] = jobtab[k]
        PROVE  ExitsOf(k)'
    <2>1. \A i \in DOMAIN jobtab[k].ps : jobtab[k].ps[i].pid \in Pids
      BY <1>1, NamedIn, Process
    <2> QED
      BY <1>5, <1>6, <2>1 DEF Exits, ExitsOf
  <1>7. CASE j = NoJob
    <2>1. jobtab' = jobtab /\ Used' = Used
      BY <1>4, <1>7 DEF jobVars, Used
    <2> QED
      BY <1>6, <2>1 DEF Exits, ExitsOf
  <1>8. CASE j # NoJob
    <2>1. j \in Used /\ j \in Slots /\ Update(j, p, "exit")
      BY <1>1, <1>4, <1>8, JobFound DEF Used
    <2>2. Used' = Used
      BY <1>1, <2>1, UpdateType
    <2> DEFINE old == jobtab[j].ps
               ps == Noted(old, p, "exit")
    <2>3. /\ jobtab'[j].ps = ps
          /\ jobtab'[j].state = IF StateNoted(ps, "exit") # "running" THEN StateNoted(ps, "exit") ELSE jobtab[j].state
          /\ \A k \in Slots \ {j} : jobtab'[k] = jobtab[k]
      BY <1>1, <2>1, Updated
    <2>4. /\ DOMAIN ps = DOMAIN old
          /\ \A i \in DOMAIN old : ps[i] = IF old[i].pid = p THEN [pid |-> p, status |-> "exit"] ELSE old[i]
      BY DEF Noted
    <2>5. \A i \in DOMAIN old : old[i].pid \in Pids /\ old[i].status \in {"run", "exit"}
                                   /\ (old[i].status = "exit" => proc[old[i].pid] = "none")
      BY <1>1, <2>1, Process DEF Exits, ExitsOf
    <2> HIDE DEF ps, old
    <2>6. \A i \in DOMAIN ps : ps[i].status \in {"run", "exit"}
                                   /\ (ps[i].status = "exit" => proc'[ps[i].pid] = "none")
      BY <1>1, <1>3, <1>5, <2>4, <2>5 DEF KernType
    <2>7. /\ StateNoted(ps, "exit") \in {"running", "done"}
          /\ StateNoted(ps, "exit") = "done" => \A i \in DOMAIN ps : ps[i].status = "exit"
      <3>1. CASE ps = << >>
        BY <3>1 DEF StateNoted
      <3>2. CASE ps # << >>
        BY <2>6, <3>2 DEF StateNoted, StateOf
      <3> QED
        BY <3>1, <3>2
    <2>8. jobtab[j].state # "stopped" /\ (jobtab[j].state = "done" => \A i \in DOMAIN old : old[i].status = "exit")
      BY <2>1 DEF Exits, ExitsOf, old
    <2>9. jobtab'[j].state # "stopped" /\ (jobtab'[j].state = "done" => \A i \in DOMAIN ps : ps[i].status = "exit")
      BY <2>3, <2>4, <2>7, <2>8
    <2> QED
      BY <1>6, <2>2, <2>3, <2>6, <2>9 DEF Exits, ExitsOf, Used
  <1> QED
    BY <1>7, <1>8

LEMMA ExitsStep ==
  ASSUME IInv, Exits, ~JobCtl, ~PidReuse, Next
  PROVE  Exits'
  <1>1. JobsType
    BY Parts
  <1>2. ASSUME SameProcesses, NEW k \in Used, jobtab'[k].state = jobtab[k].state, jobtab'[k].ps = jobtab[k].ps
        PROVE  ExitsOf(k)'
    <2>1. \A i \in DOMAIN jobtab[k].ps : jobtab[k].ps[i].pid \in Pids /\ Named(jobtab[k].ps[i].pid)
      BY <1>1, NamedIn, Process
    <2> QED
      BY <1>2, <2>1 DEF Exits, ExitsOf, SameProcesses
  <1>3. CASE SameProcesses /\ SameJobs
    BY <1>2, <1>3 DEF SameJobs, Exits, ExitsOf
  <1>4. CASE SameProcesses /\ JobMade
    <2> PICK j \in Slots, n \in Nat : \E s \in PidSeqs(n) : jobtab' = [jobtab EXCEPT ![j] = NewJob(s)]
      BY <1>4 DEF JobMade
    <2>1. PICK s \in PidSeqs(n) : jobtab' = [jobtab EXCEPT ![j] = NewJob(s)]
      OBVIOUS
    <2>2. /\ jobtab'[j].state = "running" /\ DOMAIN jobtab'[j].ps = 1..n
          /\ \A i \in 1..n : jobtab'[j].ps[i].pid = s[i] /\ jobtab'[j].ps[i].status = "run"
          /\ \A k \in Used' : k # j => k \in Used /\ jobtab'[k] = jobtab[k]
      BY <2>1, Made
    <2>3. \A i \in 1..n : jobtab'[j].ps[i].status = "run"
      BY <2>2
    <2>4. SUFFICES ASSUME NEW k \in Used', k # j
          PROVE  ExitsOf(k)'
      BY <2>2, <2>3 DEF Exits, ExitsOf
    <2>5. k \in Used /\ jobtab'[k].state = jobtab[k].state /\ jobtab'[k].ps = jobtab[k].ps
      BY <2>2, <2>4
    <2> QED
      BY <1>2, <1>4, <2>5
  <1>5. ~JobRestarted
    BY DEF JobRestarted
  <1> QED
    BY <1>3, <1>4, <1>5, ReapExits, Steps

LEMMA ScanEnds ==
  ASSUME IInv, Exits, Next, pc = "scan", pc' # "scan", wait'.then = "builtin"
  PROVE  \A j \in Used : \A i \in DOMAIN jobtab[j].ps : proc[jobtab[j].ps[i].pid] = "none"
  <1>1. ScanJobs
    BY DEF Next, Command, Waiting, Kernel, Start, ForkFails, PipeFails, HereDocument, WaitAll, WaitJob, Fg, Bg,
           ShowJob, ShowJobs, DoTrap, ClearChld, Reap, WaitEnds, WaitSuspends, WakeUp, Foreground, NothingToDo,
           WaitedAll, WaitedJob, ShownJobs, ChildExits, ChildStops, ChildContinues, Changes, SignalArrives
  <1>2. RunningAt = {}
    <2>1. EnterWait("all", NoJob, "all", jobtab) => wait'.then = "all"
      BY EnterWaitType DEF Blocks, Thens
    <2> QED
      BY <1>1, <2>1 DEF ScanJobs
  <1>3. \A j \in Used : jobtab[j].state # "running"
    <2>1. \A k \in DOMAIN joblist : jobtab[joblist[k]].state # "running"
      BY <1>2 DEF RunningAt
    <2>2. Used = {joblist[k] : k \in DOMAIN joblist}
      BY DEF IInv, ListSound
    <2> QED
      BY <2>1, <2>2
  <1>4. \A j \in Used : jobtab[j].state \in {"running", "stopped", "done"}
    BY Parts DEF JobsType, Job, Used
  <1> QED
    BY <1>3, <1>4 DEF Exits, ExitsOf

(* wait without arguments (waitcmd()'s loop over the jobs, dowait() and    *)
(* waitone()) returns only when no process of any job is left, for a shell *)
(* without job control whose table names no pid the kernel gave out again. *)
THEOREM WaitCorrect ==
  ASSUME ~JobCtl, ~PidReuse
  PROVE  Spec => WaitForAll
  <1>1. Init => Exits
    BY DEF Init, Exits, ExitsOf, Used, FreeJob
  <1>2. IInv /\ Exits /\ [Next]_vars => Exits'
    BY ExitsStep DEF vars, jobVars, kernVars, Exits, ExitsOf, Used
  <1>3. IInv /\ Exits /\ [Next]_vars =>
          [pc = "scan" /\ pc' # "scan" /\ wait'.then = "builtin" =>
             \A j \in Used : \A i \in DOMAIN jobtab[j].ps : proc[jobtab[j].ps[i].pid] = "none"]_vars
    BY ScanEnds
  <1> QED
    BY <1>1, <1>2, <1>3, Invariant, PTL DEF Spec, WaitForAll


-----------------------------------------------------------------------------
(* The table and the kernel *)

(* Of each job: an entry says exit when its process is gone, and the job   *)
(* is done when all its entries do.  No two jobs name the same process.    *)
AgreesOf(j) ==
    /\ jobtab[j].ps # << >>
    /\ \A i \in DOMAIN jobtab[j].ps :
          jobtab[j].ps[i].status = "exit" <=> proc[jobtab[j].ps[i].pid] = "none"
    /\ jobtab[j].state = "done" <=> \A i \in DOMAIN jobtab[j].ps : jobtab[j].ps[i].status = "exit"
Apart == \A j, k \in Used : \A a \in DOMAIN jobtab[j].ps, b \in DOMAIN jobtab[k].ps :
            jobtab[j].ps[a].pid = jobtab[k].ps[b].pid => j = k
Agrees == (\A j \in Used : AgreesOf(j)) /\ Apart

(* The job waitone() finds names the process, and if it finds none, none   *)
(* does.                                                                   *)
LEMMA RightJob ==
  ASSUME IInv, Agrees, NEW p \in Pids, proc[p] # "none", NEW j \in ThisJob(p)
  PROVE  \/ j = NoJob /\ ~Named(p)
         \/ j \in Used /\ \E i \in DOMAIN jobtab[j].ps : jobtab[j].ps[i].pid = p
  <1> DEFINE found == {k \in DOMAIN joblist : Names(joblist[k], p)}
             first == {k \in found : \A i \in found : k <= i}
             unset == {k \in DOMAIN joblist : Unset(joblist[k]) /\ \A i \in first : k < i}
  <1>1. Used = {joblist[k] : k \in DOMAIN joblist}
    BY DEF IInv, ListSound
  <1>2. unset = {}
    BY <1>1 DEF Unset, Agrees, AgreesOf
  <1>3. ASSUME Named(p) PROVE found # {}
    <2>1. PICK k \in Used : \E i \in DOMAIN jobtab[k].ps : jobtab[k].ps[i].pid = p
      BY <1>3 DEF Named, Used
    <2>2. jobtab[k].state # "done"
      BY <2>1 DEF Agrees, AgreesOf
    <2>3. PICK a \in DOMAIN joblist : joblist[a] = k
      BY <1>1
    <2> QED
      BY <2>1, <2>2, <2>3 DEF Names
  <1>4. j \in {joblist[k] : k \in first \cup unset} \cup (IF found = {} THEN {NoJob} ELSE {})
    BY DEF ThisJob
  <1>5. CASE j = NoJob /\ found = {}
    BY <1>3, <1>5
  <1>6. CASE \E k \in first : j = joblist[k]
    <2>1. PICK k \in DOMAIN joblist : j = joblist[k] /\ Names(joblist[k], p)
      BY <1>6
    <2> QED
      BY <1>1, <2>1 DEF Names
  <1> HIDE DEF found, first, unset
  <1> QED
    BY <1>2, <1>4, <1>5, <1>6

LEMMA ReapAgrees ==
  ASSUME IInv, Agrees, NEW p \in Pids, Reap(p)
  PROVE  Agrees'
  <1>1. JobsType /\ KernType /\ Lists
    BY Parts DEF Lists
  <1>2. PICK st \in {"exit", "stop"}, to \in {"none", "stopped"} :
          /\ st = "exit" <=> to = "none"
          /\ proc' = [proc EXCEPT ![p] = to]
          /\ \E j \in ThisJob(p) : IF j = NoJob THEN UNCHANGED jobVars ELSE Update(j, p, st)
    BY DEF Reap
  <1>3. PICK j \in ThisJob(p) : IF j = NoJob THEN UNCHANGED jobVars ELSE Update(j, p, st)
    BY <1>2
  <1>4. proc[p] # "none"
    BY DEF Reap, Reportable
  <1>5. ASSUME NEW k \in Used, jobtab'[k] = jobtab[k], \A i \in DOMAIN jobtab[k].ps : jobtab[k].ps[i].pid # p
        PROVE  AgreesOf(k)'
    <2>1. \A i \in DOMAIN jobtab[k].ps : proc'[jobtab[k].ps[i].pid] = proc[jobtab[k].ps[i].pid]
      BY <1>1, <1>2, <1>5 DEF KernType
    <2> QED
      BY <1>5, <2>1 DEF Agrees, AgreesOf
  <1>6. CASE j = NoJob
    <2>1. jobtab' = jobtab /\ Used' = Used
      BY <1>3, <1>6 DEF jobVars, Used
    <2>2. \A k \in Used : \A i \in DOMAIN jobtab[k].ps : jobtab[k].ps[i].pid # p
      BY <1>4, <1>6, RightJob, SlotNumbers DEF Named, Used
    <2> QED
      BY <1>5, <2>1, <2>2 DEF Agrees, Apart
  <1>7. CASE j # NoJob
    <2> DEFINE old == jobtab[j].ps
               ps == Noted(old, p, st)
    <2>1. /\ j \in Used /\ j \in Slots /\ Update(j, p, st)
          /\ \E i \in DOMAIN old : old[i].pid = p
      BY <1>3, <1>4, <1>7, RightJob DEF Used
    <2>2. Used' = Used
      BY <1>1, <2>1, UpdateType
    <2>3. /\ jobtab'[j].ps = ps
          /\ jobtab'[j].state = IF StateNoted(ps, st) # "running" THEN StateNoted(ps, st) ELSE jobtab[j].state
          /\ \A k \in Slots \ {j} : jobtab'[k] = jobtab[k]
      BY <1>1, <2>1, Updated
    <2>4. /\ DOMAIN ps = DOMAIN old
          /\ \A i \in DOMAIN old : ps[i] = IF old[i].pid = p THEN [pid |-> p, status |-> st] ELSE old[i]
      BY DEF Noted
    <2>5. \A i \in DOMAIN old : old[i].pid \in Pids /\ old[i].status \in {"run", "stop", "exit"}
                                   /\ (old[i].status = "exit" <=> proc[old[i].pid] = "none")
      BY <1>1, <2>1, Process DEF Agrees, AgreesOf
    <2>6. jobtab[j].state # "done"
      BY <1>4, <2>1 DEF Agrees, AgreesOf
    <2>7. ASSUME NEW k \in Used, k # j, NEW i \in DOMAIN jobtab[k].ps PROVE jobtab[k].ps[i].pid # p
      BY <2>1, <2>7 DEF Agrees, Apart
    <2>8. \A k \in Used : k # j => AgreesOf(k)'
      BY <1>5, <2>3, <2>7 DEF Used
    <2> HIDE DEF ps, old
    <2>9. \A i \in DOMAIN ps : /\ ps[i].pid = old[i].pid
                               /\ ps[i].status \in {"run", "stop", "exit"}
                               /\ ps[i].status = "exit" <=> proc'[ps[i].pid] = "none"
      BY <1>1, <1>2, <2>4, <2>5 DEF KernType
    <2>10. ps # << >>
      BY <2>1, <2>4
    <2>11. StateNoted(ps, st) = "done" <=> \A i \in DOMAIN ps : ps[i].status = "exit"
      BY <2>9, <2>10 DEF StateNoted, StateOf
    <2>12. AgreesOf(j)'
      BY <2>3, <2>6, <2>9, <2>10, <2>11 DEF AgreesOf
    <2>13. Apart'
      <3>1. \A k \in Used : /\ DOMAIN jobtab'[k].ps = DOMAIN jobtab[k].ps
                            /\ \A i \in DOMAIN jobtab[k].ps : jobtab'[k].ps[i].pid = jobtab[k].ps[i].pid
        BY <2>3, <2>4, <2>9 DEF Used, old
      <3> QED
        BY <2>2, <3>1 DEF Agrees, Apart
    <2> QED
      BY <2>2, <2>8, <2>12, <2>13 DEF Agrees
  <1> QED
    BY <1>6, <1>7

LEMMA AgreesStep ==
  ASSUME IInv, Agrees, ~Failures, ~PidReuse, Next
  PROVE  Agrees'
  <1>1. JobsType /\ Lists
    BY Parts DEF Lists
  <1>2. \A k \in Used : \A i \in DOMAIN jobtab[k].ps : jobtab[k].ps[i].pid \in Pids /\ Named(jobtab[k].ps[i].pid)
    BY <1>1, NamedIn, Process
  <1>3. ASSUME SameProcesses, NEW k \in Used, jobtab'[k].state = jobtab[k].state, jobtab'[k].ps = jobtab[k].ps
        PROVE  AgreesOf(k)'
    BY <1>2, <1>3 DEF Agrees, AgreesOf, SameProcesses
  <1>4. CASE SameProcesses /\ SameJobs
    BY <1>3, <1>4 DEF SameJobs, Agrees, Apart
  <1>5. CASE SameProcesses /\ JobMade
    <2> PICK j \in Slots, n \in Nat : \E s \in PidSeqs(n) :
          n # 0 /\ jobtab' = [jobtab EXCEPT ![j] = NewJob(s)] /\ \A i \in 1..n : proc'[s[i]] = "run"
      BY <1>5 DEF JobMade
    <2>1. PICK s \in PidSeqs(n) : jobtab' = [jobtab EXCEPT ![j] = NewJob(s)] /\ \A i \in 1..n : proc'[s[i]] = "run"
      OBVIOUS
    <2>2. /\ jobtab'[j].state = "running" /\ DOMAIN jobtab'[j].ps = 1..n
          /\ \A i \in 1..n : jobtab'[j].ps[i].pid = s[i] /\ jobtab'[j].ps[i].status = "run"
          /\ \A k \in Used' : k # j => k \in Used /\ jobtab'[k] = jobtab[k]
      BY <2>1, Made
    <2>3. 1 \in 1..n
      OBVIOUS
    <2>4. AgreesOf(j)'
      BY <2>1, <2>2, <2>3 DEF AgreesOf
    <2>5. \A k \in Used' : k # j => AgreesOf(k)'
      BY <1>3, <1>5, <2>2
    <2>6. \A i \in 1..n : ~Named(s[i])
      BY NewPids DEF Fresh
    <2>7. \A k \in Used' : k # j => \A a \in DOMAIN jobtab'[k].ps, i \in 1..n : jobtab'[k].ps[a].pid # s[i]
      BY <1>2, <2>2, <2>6
    <2>8. Apart'
      BY <2>2, <2>7 DEF Agrees, Apart
    <2> QED
      BY <2>4, <2>5, <2>8 DEF Agrees
  <1>6. CASE SameProcesses /\ JobRestarted
    <2>1. PICK j \in Used : jobtab[j].ps # << >> /\ jobtab' = Restarted(j)
      BY <1>6 DEF JobRestarted
    <2>2. CASE jobtab[j].state = "done"
      <3>1. SameJobs
        BY <2>1, <2>2, Unchanged DEF Restarted
      <3> QED
        BY <1>4, <1>6, <3>1
    <2>3. CASE jobtab[j].state # "done"
      <3> DEFINE old == jobtab[j].ps
                 ps == [i \in DOMAIN old |->
                           IF old[i].status = "stop" THEN [old[i] EXCEPT !.status = "run"] ELSE old[i]]
      <3>1. j \in Slots /\ jobtab \in [Slots -> Job] /\ jobtab[j] \in Job
        BY <1>1 DEF JobsType, Used
      <3>2. jobtab' = [jobtab EXCEPT ![j].state = "running", ![j].ps = ps]
        BY <2>1, <2>3, <3>1 DEF Restarted
      <3>3. DOMAIN ps = DOMAIN old /\ \A i \in DOMAIN old : ps[i] =
              IF old[i].status = "stop" THEN [old[i] EXCEPT !.status = "run"] ELSE old[i]
        OBVIOUS
      <3>4. PICK m \in 0..MaxProc : old \in [1..m -> [pid : Pids, status : {"run", "stop", "exit"}]]
        BY <3>1 DEF Job
      <3> HIDE DEF ps
      <3>5. jobtab'[j].state = "running" /\ jobtab'[j].ps = ps /\ jobtab'[j].used = jobtab[j].used
              /\ \A k \in Slots \ {j} : jobtab'[k] = jobtab[k]
        BY <3>1, <3>2 DEF Job
      <3>6. Used' = Used
        BY <3>1, <3>5 DEF Used
      <3>7. \A i \in DOMAIN old : ps[i].pid = old[i].pid /\ (ps[i].status = "exit" <=> old[i].status = "exit")
        <4> HIDE DEF old
        <4> QED
          BY <3>3, <3>4
      <3>8. ps # << >>
        BY <2>1, <3>3, <3>4
      <3>9. \A i \in DOMAIN old : proc'[old[i].pid] = "none" <=> proc[old[i].pid] = "none"
        BY <1>2, <1>6 DEF SameProcesses
      <3>10. AgreesOf(j)'
        BY <2>3, <3>3, <3>5, <3>7, <3>8, <3>9 DEF Agrees, AgreesOf
      <3>11. \A k \in Used : k # j => AgreesOf(k)'
        BY <1>3, <1>6, <3>5 DEF Used
      <3>12. Apart'
        <4>1. \A k \in Used : /\ DOMAIN jobtab'[k].ps = DOMAIN jobtab[k].ps
                              /\ \A i \in DOMAIN jobtab[k].ps : jobtab'[k].ps[i].pid = jobtab[k].ps[i].pid
          BY <3>3, <3>5, <3>7 DEF Used
        <4> QED
          BY <3>6, <4>1 DEF Agrees, Apart
      <3> QED
        BY <3>6, <3>10, <3>11, <3>12 DEF Agrees
    <2> QED
      BY <2>2, <2>3
  <1> QED
    BY <1>4, <1>5, <1>6, ReapAgrees, Steps

(* waitone() puts every status down to the job that forked the process,    *)
(* whatever other jobs stop, continue or end meanwhile: a job is done in   *)
(* the table when and only when all its processes are gone.                *)
THEOREM DoneCorrect ==
  ASSUME ~Failures, ~PidReuse
  PROVE  Spec => []DoneIsDone
  <1>1. Init => Agrees
    BY DEF Init, Agrees, Apart, Used, FreeJob
  <1>2. IInv /\ Agrees /\ [Next]_vars => Agrees'
    BY AgreesStep DEF vars, jobVars, kernVars, Agrees, AgreesOf, Apart, Used
  <1>3. Agrees => DoneIsDone
    BY DEF Agrees, AgreesOf, DoneIsDone
  <1> QED
    BY <1>1, <1>2, <1>3, Invariant, PTL DEF Spec

=============================================================================
