----------------------------- MODULE SamuBuild -----------------------------
(***************************************************************************)
(* One run of samu: buildadd() decides which edges are out of date, and    *)
(* build() runs their commands in dependency order, at most maxjobs at a   *)
(* time and at most a pool's depth at a time, releasing the edges that     *)
(* wait for a finished one or pruning them when a restat command left its  *)
(* outputs alone (build.c); samu_main() does this first for the manifest   *)
(* itself and then for the targets (samu.c).                               *)
(*                                                                         *)
(* The two recursive functions are machines here: "adding" is the C call   *)
(* stack of buildadd() and "todo" that of nodedone().  Commands run        *)
(* concurrently with the scheduler: a command closes its end of the output *)
(* pipe and exits at any time, in either order.                            *)
(***************************************************************************)
EXTENDS SamuGraph

CONSTANTS
    Targets,      \* the nodes samu_main passes to buildadd
    Manifest,     \* the manifest's node, or NoNode
    NoNode,
    MaxJobs,      \* buildopts.maxjobs
    MaxFail,      \* buildopts.maxfail
    DryRun,       \* buildopts.dryrun
    SlotChunk,    \* first size of the jobs array (8 in the code)
    MaxTries,     \* manifest rebuilds before giving up (100 in the code)
    SpawnFails,   \* whether jobstart() may fail (mkdir, pipe, posix_spawn...)
    InitFiles     \* what the run may find: a set of records of file times,
                  \* log times, logged hashes and dependency records

ASSUME BuildAssumption ==
    /\ NoNode \notin Nodes
    /\ Targets \in Seq(Nodes)
    /\ Manifest \in Nodes \cup {NoNode}
    /\ MaxJobs \in Nat \ {0}
    /\ MaxFail \in Nat \ {0}
    /\ SlotChunk \in Nat \ {0}
    /\ MaxTries \in Nat
    /\ DryRun \in BOOLEAN
    /\ SpawnFails \in BOOLEAN
    /\ \A f \in InitFiles :
          /\ f.disk \in [Nodes -> Nat \cup {MTIME_MISSING}]
          /\ f.logmtime \in [Nodes -> Nat \cup {MTIME_MISSING}]
          /\ f.samehash \in [Nodes -> BOOLEAN]
          /\ f.nodeps \in SUBSET Edges
          /\ f.clock \in Nat

VARIABLES
    disk,       \* the file system: the time of each file, or MTIME_MISSING
    clock,      \* the file system's time, advanced by every command that writes
    nodeps,     \* edges whose dependency record or depfile is missing or outdated
    mtime,      \* n->mtime
    logmtime,   \* n->logmtime; what .ninja_log says, too
    samehash,   \* n->hash = n->gen->hash; what .ninja_log says, too
    dirty,      \* n->dirty
    flags,      \* e->flags
    nblock,     \* e->nblock
    nprune,     \* e->nprune
    work,       \* the stack of ready edges
    poolwork,   \* pool->work
    poolnum,    \* pool->numjobs
    nstarted, nfinished, ntotal,
    pc,         \* where samu_main is: "add", "start", "poll", "scan", "return" or "exit"
    pass,       \* building the "manifest" or the "targets"
    tries,      \* rebuilds of the manifest
    adds,       \* targets not yet passed to buildadd
    adding,     \* call stack of buildadd: the edge and its next input
    jobs,       \* the jobs array of build(), with the state of each command
    next,       \* first free slot of jobs
    numjobs, numfail,
    revents,    \* slots poll() reported and not yet looked at
    todo,       \* call stack of nodedone
    status,     \* how samu ended: "run" while it has not, "ok" or "fatal"
    result,     \* history: what became of each edge in this build
    nruns       \* history: how often each edge's command was started

fileVars  == <<disk, clock, nodeps>>
nodeVars  == <<mtime, logmtime, samehash, dirty>>
edgeVars  == <<flags, nblock, nprune>>
queueVars == <<work, poolwork, poolnum>>
countVars == <<nstarted, nfinished, ntotal>>
addVars   == <<adds, adding>>
jobVars   == <<jobs, next, numjobs, numfail, revents>>
mainVars  == <<pc, pass, tries, status>>
histVars  == <<result, nruns>>
vars == <<fileVars, nodeVars, edgeVars, queueVars, countVars, addVars, jobVars,
          mainVars, todo, histVars>>

Flags == {"WORK", "DIRTY_IN", "DIRTY_OUT", "CYCLE", "DEPS"}
Dirty(f) == f \cap {"DIRTY_IN", "DIRTY_OUT"} # {}

Stat(n) == disk[n]      \* nodestat()

(* A slot of the jobs array.  A free one has edge NoEdge. *)
FreeSlot(link) == [edge |-> NoEdge, next |-> link, pipe |-> "eof", proc |-> "none"]
BusySlots(js) == {i \in DOMAIN js : js[i].edge # NoEdge}
FreeSlots(js) == {i \in DOMAIN js : js[i].edge = NoEdge}
Busy == BusySlots(jobs)

-----------------------------------------------------------------------------
(* graphinit(), parse(), loginit(), depsinit(): a fresh graph.  The console *)
(* pool is the old one, with no job left in it.                            *)
FreshGraph ==
    /\ mtime' = [n \in Nodes |-> MTIME_UNKNOWN]
    /\ dirty' = [n \in Nodes |-> FALSE]
    /\ flags' = [e \in Edges |-> {}]
    /\ nblock' = [e \in Edges |-> 0]
    /\ nprune' = [e \in Edges |-> 0]
    /\ poolwork' = [p \in Pools |-> << >>]
    /\ poolnum' = [p \in Pools |-> 0]
    /\ result' = [e \in Edges |-> "none"]

HasManifestRule == Manifest # NoNode /\ Gen[Manifest] # NoEdge
FirstPass == IF HasManifestRule THEN "manifest" ELSE "targets"
TargetsOf(p) == IF p = "manifest" THEN <<Manifest>> ELSE Targets

Init ==
    /\ \E f \in InitFiles :
          /\ disk = f.disk
          /\ clock = f.clock
          /\ nodeps = f.nodeps
          /\ logmtime = f.logmtime
          /\ samehash = f.samehash
    /\ mtime = [n \in Nodes |-> MTIME_UNKNOWN]
    /\ dirty = [n \in Nodes |-> FALSE]
    /\ flags = [e \in Edges |-> {}]
    /\ nblock = [e \in Edges |-> 0]
    /\ nprune = [e \in Edges |-> 0]
    /\ work = << >>
    /\ poolwork = [p \in Pools |-> << >>]
    /\ poolnum = [p \in Pools |-> 0]
    /\ nstarted = 0 /\ nfinished = 0 /\ ntotal = 0
    /\ pc = "add" /\ pass = FirstPass /\ tries = 0 /\ status = "run"
    /\ adds = TargetsOf(FirstPass) /\ adding = << >>
    /\ jobs = << >> /\ next = 1 /\ numjobs = 0 /\ numfail = 0 /\ revents = {}
    /\ todo = << >>
    /\ result = [e \in Edges |-> "none"]
    /\ nruns = [e \in Edges |-> 0]

-----------------------------------------------------------------------------
(* queue(): a ready edge goes on the work stack, unless its pool is full.  *)
FullLate(p) == poolnum[p] > Depth[p]      \* mutant: one job too many
Full(p) == poolnum[p] = Depth[p]
Pooled(e) == Pool[e] # NoPool /\ e \notin Phony

queue(e) ==
    \/ /\ Pooled(e) /\ Full(Pool[e])
       /\ poolwork' = [poolwork EXCEPT ![Pool[e]] = <<e>> \o @]
       /\ UNCHANGED <<work, poolnum>>
    \/ /\ Pooled(e) /\ ~Full(Pool[e])
       /\ poolnum' = [poolnum EXCEPT ![Pool[e]] = @ + 1]
       /\ work' = <<e>> \o work
       /\ UNCHANGED poolwork
    \/ /\ ~Pooled(e)
       /\ work' = <<e>> \o work
       /\ UNCHANGED <<poolwork, poolnum>>

(* fatal() ends samu. *)
Fatal ==
    /\ pc' = "exit" /\ status' = "fatal"
    /\ UNCHANGED <<pass, tries>>

-----------------------------------------------------------------------------
(* buildadd() *)

(* buildadd(n) has been here before, and is still here (FLAG_CYCLE), or    *)
(* has been through (FLAG_WORK).                                           *)
NeverOnStack(e) == FALSE                  \* mutant: the cycle check is left out
OnStack(e) == "CYCLE" \in flags[e]
Seen(e) == "WORK" \in flags[e]

(* The call buildadd(n) up to its loop over the inputs.  rest is the call  *)
(* stack of the caller.                                                    *)
Enter(n, rest) ==
    LET e == Gen[n] IN
    \/ /\ e = NoEdge
       /\ mtime' = [mtime EXCEPT ![n] = IF @ = MTIME_UNKNOWN THEN Stat(n) ELSE @]
       /\ adding' = rest
       /\ \/ mtime'[n] = MTIME_MISSING /\ Fatal /\ UNCHANGED dirty
          \/ /\ mtime'[n] # MTIME_MISSING
             /\ dirty' = [dirty EXCEPT ![n] = FALSE]
             /\ UNCHANGED mainVars
       /\ UNCHANGED <<flags, nblock>>
    \/ /\ e # NoEdge /\ OnStack(e)
       /\ adding' = rest
       /\ Fatal
       /\ UNCHANGED <<mtime, dirty, flags, nblock>>
    \/ /\ e # NoEdge /\ ~OnStack(e) /\ Seen(e)
       /\ adding' = rest
       /\ UNCHANGED <<mtime, dirty, flags, nblock, mainVars>>
    \/ /\ e # NoEdge /\ ~OnStack(e) /\ ~Seen(e)
       /\ mtime' = [m \in Nodes |-> IF m \in Members(Out[e]) /\ mtime[m] = MTIME_UNKNOWN
                                    THEN Stat(m) ELSE mtime[m]]
       /\ dirty' = [m \in Nodes |-> dirty[m] /\ m \notin Members(Out[e])]
       \* depsload(): an edge without its dependency record is dirty
       /\ flags' = [flags EXCEPT ![e] = @ \cup {"CYCLE", "WORK", "DEPS"} \cup
                       IF "DEPS" \notin @ /\ e \in nodeps THEN {"DIRTY_OUT"} ELSE {}]
       /\ nblock' = [nblock EXCEPT ![e] = 0]
       /\ adding' = <<[edge |-> e, input |-> 1]>> \o rest
       /\ UNCHANGED mainVars

AddTarget ==
    /\ pc = "add" /\ adding = << >> /\ adds # << >>
    /\ Enter(Head(adds), << >>)
    /\ adds' = Tail(adds)
    /\ UNCHANGED <<fileVars, logmtime, samehash, nprune, queueVars, countVars, jobVars,
                   todo, histVars>>

AddInput ==
    /\ pc = "add" /\ adding # << >>
    /\ LET top == Head(adding) IN
          /\ top.input <= Len(In[top.edge])
          /\ Enter(In[top.edge][top.input],
                   <<[top EXCEPT !.input = @ + 1]>> \o Tail(adding))
    /\ UNCHANGED <<fileVars, logmtime, samehash, nprune, queueVars, countVars, jobVars,
                   todo, adds, histVars>>

(* An input blocks its user if it is to be rebuilt, or has itself to wait. *)
BlocksIfDirty(n) == dirty[n]              \* mutant: a clean edge never has to wait
Blocks(n) == dirty[n] \/ (Gen[n] # NoEdge /\ nblock[Gen[n]] > 0)

(* The rest of buildadd(), after the loop over the inputs. *)
AddFinish ==
    /\ pc = "add" /\ adding # << >>
    /\ Head(adding).input > Len(In[Head(adding).edge])
    /\ LET e == Head(adding).edge
           blocked == Cardinality({i \in DOMAIN In[e] : Blocks(In[e][i])})
           dirtyin == \E n \in Essential(e) : dirty[n]
           dirtyout == \/ "DIRTY_OUT" \in flags[e]
                       \/ \E n \in Members(Out[e]) :
                             isdirty(e, mtime[n], logmtime[n], samehash[n], mtime)
           fl == (flags[e] \ {"CYCLE"}) \cup (IF dirtyin THEN {"DIRTY_IN"} ELSE {})
                                        \cup (IF dirtyout THEN {"DIRTY_OUT"} ELSE {})
       IN /\ flags' = [flags EXCEPT ![e] = fl]
          /\ nblock' = [nblock EXCEPT ![e] = blocked]
          /\ nprune' = IF dirtyout THEN nprune ELSE [nprune EXCEPT ![e] = blocked]
          /\ dirty' = [n \in Nodes |-> dirty[n] \/ (Dirty(fl) /\ n \in Members(Out[e]))]
          /\ IF Dirty(fl) /\ blocked = 0 THEN queue(e) ELSE UNCHANGED queueVars
          /\ ntotal' = IF Dirty(fl) /\ e \notin Phony THEN ntotal + 1 ELSE ntotal
    /\ adding' = Tail(adding)
    /\ UNCHANGED <<fileVars, mtime, logmtime, samehash, nstarted, nfinished, jobVars,
                   mainVars, todo, adds, histVars>>

-----------------------------------------------------------------------------
(* samu_main() between the calls *)

(* The manifest is up to date: continue with the targets. *)
ManifestClean ==
    /\ pc = "add" /\ adding = << >> /\ adds = << >>
    /\ pass = "manifest" /\ ~dirty[Manifest]
    /\ pass' = "targets" /\ adds' = Targets
    /\ UNCHANGED <<fileVars, nodeVars, edgeVars, queueVars, countVars, adding, jobVars,
                   pc, tries, status, todo, histVars>>

(* build() is called.  With no job to run it says "nothing to do". *)
BuildBegin ==
    /\ pc = "add" /\ adding = << >> /\ adds = << >>
    /\ pass = "manifest" => dirty[Manifest]
    /\ pc' = IF ntotal = 0 THEN "return" ELSE "start"
    /\ nstarted' = IF ntotal = 0 THEN nstarted ELSE 0
    /\ jobs' = << >> /\ next' = 1 /\ numjobs' = 0 /\ numfail' = 0 /\ revents' = {}
    /\ UNCHANGED <<fileVars, nodeVars, edgeVars, queueVars, nfinished, ntotal, addVars,
                   pass, tries, status, todo, histVars>>

(* build() returns for the targets: samu is done. *)
Finished ==
    /\ pc = "return" /\ pass = "targets"
    /\ pc' = "exit" /\ status' = "ok"
    /\ UNCHANGED <<fileVars, nodeVars, edgeVars, queueVars, countVars, addVars, jobVars,
                   pass, tries, todo, histVars>>

ManifestRebuilt == "DIRTY_OUT" \in flags[Gen[Manifest]] \/ nprune[Gen[Manifest]] > 0

(* build() returns for the manifest: if it was rebuilt, start over with    *)
(* it, unless that was tried too often.                                    *)
ManifestRetry ==
    /\ pc = "return" /\ pass = "manifest" /\ ManifestRebuilt
    /\ tries' = tries + 1
    /\ \/ /\ tries' > MaxTries
          /\ pc' = "exit" /\ status' = "fatal"
          /\ UNCHANGED <<mtime, dirty, edgeVars, poolwork, poolnum, adds, result>>
       \/ /\ tries' <= MaxTries /\ ~DryRun
          /\ pc' = "add" /\ adds' = <<Manifest>>
          /\ FreshGraph
          /\ UNCHANGED status
    /\ UNCHANGED <<fileVars, logmtime, samehash, work, countVars, adding, jobVars, pass,
                   todo, nruns>>

(* buildreset() *)
NoWork == [e \in Edges |-> flags[e] \ {"WORK"}]

(* If it was pruned (or only pretended to be rebuilt), reset and go on.    *)
ManifestPruned ==
    /\ pc = "return" /\ pass = "manifest"
    /\ ManifestRebuilt => DryRun /\ tries + 1 <= MaxTries
    /\ tries' = IF ManifestRebuilt THEN tries + 1 ELSE tries
    /\ flags' = NoWork
    /\ pc' = "add" /\ pass' = "targets" /\ adds' = Targets
    /\ UNCHANGED <<fileVars, nodeVars, nblock, nprune, queueVars, countVars, adding,
                   jobVars, status, todo, histVars>>

-----------------------------------------------------------------------------
(* build() *)

(* Frames of nodedone() for the outputs of e. *)
NotifyFromZero(e, prune) ==               \* mutant: starts before the first use
    [i \in DOMAIN Out[e] |-> [node |-> Out[e][i], use |-> 0, prune |-> prune[i]]]
NotifyFirst(e, prune) ==                  \* mutant: forgets all but the first output
    <<[node |-> Out[e][1], use |-> 1, prune |-> prune[1]]>>
Notify(e, prune) == [i \in DOMAIN Out[e] |->
                        [node |-> Out[e][i], use |-> 1, prune |-> prune[i]]]
Always(e, prune) == [i \in DOMAIN Out[e] |-> prune]

MayStart ==
    /\ pc = "start" /\ todo = << >>
    /\ work # << >> /\ numjobs < MaxJobs /\ numfail < MaxFail

(* A phony edge, or any edge of a dry run, is done without a command.      *)
StartNothing ==
    /\ MayStart
    /\ LET e == Head(work)
           printed == IF e \in Phony THEN 0 ELSE 1
       IN /\ e \in Phony \/ DryRun
          /\ nstarted' = nstarted + printed
          /\ nfinished' = nfinished + printed
          /\ todo' = Notify(e, Always(e, FALSE))
          /\ result' = [result EXCEPT ![e] = "ok"]
    /\ work' = Tail(work)
    /\ UNCHANGED <<fileVars, nodeVars, edgeVars, poolwork, poolnum, ntotal, addVars,
                   jobVars, mainVars, nruns>>

(* The jobs array as jobstart() finds it, enlarged if no slot is free.     *)
Smaller(a, b) == IF a < b THEN a ELSE b
SlotsWanted == IF jobs = << >> THEN SlotChunk ELSE 2 * Len(jobs)
SlotsUnlinked ==                          \* mutant: new slots are linked to themselves
    IF next <= Len(jobs) THEN jobs
    ELSE [i \in 1..Smaller(SlotsWanted, MaxJobs) |->
             IF i < next THEN jobs[i] ELSE FreeSlot(i)]
Slots ==
    IF next <= Len(jobs) THEN jobs
    ELSE [i \in 1..Smaller(SlotsWanted, MaxJobs) |->
             IF i < next THEN jobs[i] ELSE FreeSlot(i + 1)]

(* jobstart() succeeds: the command runs. *)
StartJob ==
    /\ MayStart /\ ~DryRun
    /\ LET e == Head(work) IN
          /\ e \notin Phony
          /\ jobs' = [Slots EXCEPT ![next] = [@ EXCEPT !.edge = e, !.pipe = "open",
                                                       !.proc = "live"]]
          /\ next' = Slots[next].next
          /\ result' = [result EXCEPT ![e] = "running"]
          /\ nruns' = [nruns EXCEPT ![e] = @ + 1]
    /\ work' = Tail(work)
    /\ nstarted' = nstarted + 1
    /\ numjobs' = numjobs + 1
    /\ UNCHANGED <<fileVars, nodeVars, edgeVars, poolwork, poolnum, nfinished, ntotal,
                   addVars, numfail, revents, mainVars, todo>>

(* jobstart() fails: the directory or the response file cannot be made,    *)
(* there is no pipe, or the shell cannot be spawned.                       *)
StartFails ==
    /\ MayStart /\ ~DryRun /\ SpawnFails
    /\ Head(work) \notin Phony
    /\ jobs' = Slots
    /\ result' = [result EXCEPT ![Head(work)] = "failed"]
    /\ work' = Tail(work)
    /\ nstarted' = nstarted + 1
    /\ numfail' = numfail + 1
    /\ UNCHANGED <<fileVars, nodeVars, edgeVars, poolwork, poolnum, nfinished, ntotal,
                   addVars, next, numjobs, revents, mainVars, todo, nruns>>

StalledEarly ==                           \* mutant: stops at the first failure in spite of -k
    /\ pc = "start" /\ todo = << >>
    /\ work = << >> \/ numjobs >= MaxJobs \/ numfail > 0
Stalled ==
    /\ pc = "start" /\ todo = << >>
    /\ work = << >> \/ numjobs >= MaxJobs \/ numfail >= MaxFail

(* No job runs and none may be started: build() is over. *)
BuildEnd ==
    /\ Stalled /\ numjobs = 0
    /\ \/ numfail > 0 /\ Fatal /\ UNCHANGED ntotal
       \/ /\ numfail = 0
          /\ pc' = "return" /\ ntotal' = 0
          /\ UNCHANGED <<pass, tries, status>>
    /\ UNCHANGED <<fileVars, nodeVars, edgeVars, queueVars, nstarted, nfinished, addVars,
                   jobVars, todo, histVars>>

WaitForJobs ==
    /\ Stalled /\ numjobs > 0
    /\ pc' = "poll"
    /\ UNCHANGED <<fileVars, nodeVars, edgeVars, queueVars, countVars, addVars, jobVars,
                   pass, tries, status, todo, histVars>>

(* poll() returns the jobs whose pipe has been closed.  (Output that is    *)
(* only collected by jobwork() changes nothing here.)                      *)
PollSkipsLast ==                          \* mutant: the last slot is never looked at
    /\ pc = "poll"
    /\ revents' = {i \in Busy : i < Len(jobs) /\ jobs[i].pipe = "eof"}
    /\ pc' = "scan"
    /\ UNCHANGED <<fileVars, nodeVars, edgeVars, queueVars, countVars, addVars, jobs, next,
                   numjobs, numfail, pass, tries, status, todo, histVars>>
Poll ==
    /\ pc = "poll"
    /\ revents' = {i \in Busy : jobs[i].pipe = "eof"}
    /\ revents' # {}
    /\ pc' = "scan"
    /\ UNCHANGED <<fileVars, nodeVars, edgeVars, queueVars, countVars, addVars, jobs, next,
                   numjobs, numfail, pass, tries, status, todo, histVars>>

(* shouldprune() of output n of e: a restat command that left n alone.     *)
shouldprune(e, n) == e \in Restat /\ mtime[n] = Stat(n)

(* The time edgedone() logs for output n of e. *)
LogTimeOfOutput(e, n) ==                  \* mutant: ignores the inputs of a pruned output
    IF Stat(n) = MTIME_MISSING THEN 0 ELSE Stat(n)
LogTime(e, n) ==
    LET times == {Stat(i) : i \in Essential(e)} \ {MTIME_MISSING}
        Newest(t) == \A u \in times : u <= t
    IN
    IF shouldprune(e, n) /\ \E t \in times : Newest(t)
    THEN CHOOSE t \in times : Newest(t)
    ELSE IF Stat(n) = MTIME_MISSING THEN 0 ELSE Stat(n)

(* edgedone(): the outputs are stat'ed and logged, and their users told.   *)
edgedone(e) ==
    LET outs == Members(Out[e])
        stats == outs \cup IF \E n \in outs : shouldprune(e, n) THEN Essential(e) ELSE {}
    IN /\ mtime' = [n \in Nodes |-> IF n \in stats THEN Stat(n) ELSE mtime[n]]
       /\ logmtime' = [n \in Nodes |-> IF n \in outs THEN LogTime(e, n) ELSE logmtime[n]]
       /\ samehash' = [n \in Nodes |-> samehash[n] \/ n \in outs]
       /\ nodeps' = nodeps \ {e}                \* depsrecord()
       /\ todo' = Notify(e, [i \in DOMAIN Out[e] |-> shouldprune(e, Out[e][i])])
       /\ result' = [result EXCEPT ![e] = "ok"]

(* The pool slot of a finished job goes to a waiting edge of the pool.     *)
ReleasePoolOnly(p) ==                     \* mutant: no waiting edge gets the slot
    /\ poolnum' = IF p = NoPool THEN poolnum ELSE [poolnum EXCEPT ![p] = @ - 1]
    /\ UNCHANGED <<work, poolwork>>
ReleasePool(p) ==
    \/ /\ p # NoPool /\ poolwork[p] # << >>
       /\ work' = <<Head(poolwork[p])>> \o work
       /\ poolwork' = [poolwork EXCEPT ![p] = Tail(@)]
       /\ UNCHANGED poolnum
    \/ /\ p # NoPool /\ poolwork[p] = << >>
       /\ poolnum' = [poolnum EXCEPT ![p] = @ - 1]
       /\ UNCHANGED <<work, poolwork>>
    \/ /\ p = NoPool
       /\ UNCHANGED <<work, poolwork, poolnum>>

(* The scan reaches a reported slot: jobwork() reads end of file and       *)
(* jobdone() waits for the command to exit.  The slot is put back on the   *)
(* free list.                                                              *)
JobDone ==
    /\ pc = "scan" /\ todo = << >>
    /\ \E i \in revents :
          /\ \A k \in revents : i <= k
          /\ jobs[i].proc \in {"ok", "fail"}
          /\ ReleasePool(Pool[jobs[i].edge])
          /\ \/ /\ jobs[i].proc = "ok"
                /\ edgedone(jobs[i].edge)
                /\ UNCHANGED <<dirty, numfail>>
             \/ /\ jobs[i].proc = "fail"
                /\ numfail' = numfail + 1
                /\ result' = [result EXCEPT ![jobs[i].edge] = "failed"]
                /\ UNCHANGED <<nodeps, nodeVars, todo>>
          /\ jobs' = [jobs EXCEPT ![i] = FreeSlot(next)]
          /\ next' = i
          /\ revents' = revents \ {i}
    /\ nfinished' = nfinished + 1
    /\ numjobs' = numjobs - 1
    /\ UNCHANGED <<disk, clock, edgeVars, nstarted, ntotal, addVars, mainVars, nruns>>

ScanEnd ==
    /\ pc = "scan" /\ todo = << >> /\ revents = {}
    /\ pc' = "start"
    /\ UNCHANGED <<fileVars, nodeVars, edgeVars, queueVars, countVars, addVars, jobVars,
                   pass, tries, status, todo, histVars>>

-----------------------------------------------------------------------------
(* nodedone(), one use of one node at a time *)

top == Head(todo)
User == Use[top.node][top.use]
AfterNext == <<[top EXCEPT !.use = @ + 2]>> \o Tail(todo)   \* mutant: skips a user
After == <<[top EXCEPT !.use = @ + 1]>> \o Tail(todo)

(* The loop over the uses of a node is at an edge of this build. *)
AtUser ==
    /\ todo # << >> /\ top.use <= Len(Use[top.node])
    /\ "WORK" \in flags[User]

(* The condition on the flags under which nprune is decremented. *)
PrunableAlways == "DIRTY_OUT" \notin flags[User]   \* mutant: a rebuilt input counts as pruned
Prunable == IF top.prune THEN "DIRTY_OUT" \notin flags[User] ELSE ~Dirty(flags[User])

(* Every input the edge waited for was pruned (or the edge is clean): its  *)
(* outputs are done as well.                                               *)
Prune ==
    /\ AtUser /\ Prunable /\ nprune[User] = 1
    /\ nprune' = [nprune EXCEPT ![User] = 0]
    /\ todo' = Notify(User, Always(User, TRUE)) \o After
    /\ ntotal' = IF Dirty(flags[User]) /\ User \notin Phony THEN ntotal - 1 ELSE ntotal
    /\ UNCHANGED <<fileVars, nodeVars, flags, nblock, queueVars, nstarted, nfinished,
                   addVars, jobVars, mainVars, histVars>>

(* One input less to wait for; after the last one the edge is ready.       *)
Unblock ==
    /\ AtUser
    /\ \/ Prunable /\ nprune[User] # 1 /\ nprune' = [nprune EXCEPT ![User] = @ - 1]
       \/ ~Prunable /\ UNCHANGED nprune
    /\ nblock' = [nblock EXCEPT ![User] = @ - 1]
    /\ IF nblock[User] = 1 THEN queue(User) ELSE UNCHANGED queueVars
    /\ todo' = After
    /\ UNCHANGED <<fileVars, nodeVars, flags, countVars, addVars, jobVars, mainVars,
                   histVars>>

SkipUser ==
    /\ todo # << >> /\ top.use <= Len(Use[top.node])
    /\ "WORK" \notin flags[User]
    /\ todo' = After
    /\ UNCHANGED <<fileVars, nodeVars, edgeVars, queueVars, countVars, addVars, jobVars,
                   mainVars, histVars>>

NodeDone ==
    /\ todo # << >> /\ top.use > Len(Use[top.node])
    /\ todo' = Tail(todo)
    /\ UNCHANGED <<fileVars, nodeVars, edgeVars, queueVars, countVars, addVars, jobVars,
                   mainVars, histVars>>

-----------------------------------------------------------------------------
(* The commands, run by the shell (external to samu) *)

(* The outputs a command of e may have written when it exits.  A command   *)
(* that succeeds has made its outputs; only a restat one may leave some of *)
(* them alone.  One that fails has written all or none.                    *)
Written(e, exit) ==
    LET outs == Members(Out[e]) IN
    CASE exit = "fail" -> {{}, outs}
      [] exit = "ok" /\ e \notin Restat -> {outs}
      [] OTHER -> {s \in SUBSET outs : \A n \in outs \ s : disk[n] # MTIME_MISSING}

CommandExits(i, exit) ==
    /\ jobs[i].proc = "live"
    /\ \E s \in Written(jobs[i].edge, exit) :
          /\ clock' = IF s = {} THEN clock ELSE clock + 1
          /\ disk' = [n \in Nodes |-> IF n \in s THEN clock + 1 ELSE disk[n]]
    /\ jobs' = [jobs EXCEPT ![i].proc = exit]
    /\ UNCHANGED <<nodeps, nodeVars, edgeVars, queueVars, countVars, addVars, next,
                   numjobs, numfail, revents, mainVars, todo, histVars>>

(* The last process holding the pipe closes it: usually the command as it  *)
(* exits, but also one that closed its output early, or one it left        *)
(* behind.                                                                 *)
PipeCloses(i) ==
    /\ jobs[i].pipe = "open"
    /\ jobs' = [jobs EXCEPT ![i].pipe = "eof"]
    /\ UNCHANGED <<fileVars, nodeVars, edgeVars, queueVars, countVars, addVars, next,
                   numjobs, numfail, revents, mainVars, todo, histVars>>

-----------------------------------------------------------------------------
(* samu has exited. *)
Exited == pc = "exit" /\ UNCHANGED vars

Samu ==
    \/ AddTarget \/ AddInput \/ AddFinish
    \/ ManifestClean \/ ManifestRetry \/ ManifestPruned
    \/ BuildBegin \/ Finished
    \/ StartNothing \/ StartJob \/ StartFails
    \/ BuildEnd \/ WaitForJobs \/ Poll \/ JobDone \/ ScanEnd
    \/ Prune \/ Unblock \/ SkipUser \/ NodeDone

Commands == \E i \in Busy : PipeCloses(i) \/ \E x \in {"ok", "fail"} : CommandExits(i, x)

Next == Samu \/ Commands \/ Exited

Spec == Init /\ [][Next]_vars

(* The scheduler runs, and every command ends some time and lets go of its *)
(* pipe.  Nothing else is assumed of the commands' order.                  *)
Fairness ==
    /\ WF_vars(Samu)
    /\ \A i \in 1..MaxJobs :
          /\ WF_vars(i \in Busy /\ PipeCloses(i))
          /\ WF_vars(i \in Busy /\ \E x \in {"ok", "fail"} : CommandExits(i, x))

FairSpec == Spec /\ Fairness
-----------------------------------------------------------------------------
(* Properties *)

AddFrame == [edge : Edges, input : Nat \ {0}]
FrameType == [node : Nodes, use : Nat \ {0}, prune : BOOLEAN]
SlotType == [edge : Edges \cup {NoEdge}, next : Nat,
             pipe : {"open", "eof"}, proc : {"none", "live", "ok", "fail"}]

FileType ==
    /\ disk \in [Nodes -> Nat \cup {MTIME_MISSING}]
    /\ clock \in Nat
    /\ nodeps \in SUBSET Edges
NodeType ==
    /\ mtime \in [Nodes -> Mtimes]
    /\ logmtime \in [Nodes -> Nat \cup {MTIME_MISSING}]
    /\ samehash \in [Nodes -> BOOLEAN]
    /\ dirty \in [Nodes -> BOOLEAN]
EdgeType ==
    /\ flags \in [Edges -> SUBSET Flags]
    /\ nblock \in [Edges -> Int]
    /\ nprune \in [Edges -> Int]
QueueType ==
    /\ work \in Seq(Edges)
    /\ poolwork \in [Pools -> Seq(Edges)]
    /\ poolnum \in [Pools -> Int]
CountType == nstarted \in Nat /\ nfinished \in Nat /\ ntotal \in Int
AddType ==
    /\ adds \in Seq(Nodes)
    /\ adding \in Seq(AddFrame)
JobType ==
    /\ jobs \in Seq(SlotType)
    /\ next \in Nat /\ numjobs \in Int /\ numfail \in Nat
    /\ revents \in SUBSET Nat
MainType ==
    /\ pc \in {"add", "start", "poll", "scan", "return", "exit"}
    /\ pass \in {"manifest", "targets"}
    /\ tries \in Nat
    /\ status \in {"run", "ok", "fatal"}
TodoType == todo \in Seq(FrameType)
HistType ==
    /\ result \in [Edges -> {"none", "running", "ok", "failed"}]
    /\ nruns \in [Edges -> Nat]

(* The type of every variable; nblock, nprune, ntotal and the pools'       *)
(* counters are C counters that nothing here keeps from going below zero.  *)
TypeOK ==
    /\ FileType /\ NodeType /\ EdgeType /\ QueueType /\ CountType
    /\ AddType /\ JobType /\ MainType /\ TodoType /\ HistType

Holders(p) == {e \in Edges : Pooled(e) /\ Pool[e] = p /\ e \in Members(work)}
              \cup {jobs[i].edge : i \in {i \in Busy : Pool[jobs[i].edge] = p}}

(* fl is the free list of the slots js that starts at nx: it lists every   *)
(* free slot once, and ends past the last slot of the array.               *)
FreeList(fl, js, nx) ==
    LET last == Len(js) + 1 IN
    /\ \A i \in FreeSlots(js) : \E k \in DOMAIN fl : fl[k] = i
    /\ \A i, k \in DOMAIN fl : fl[i] = fl[k] => i = k
    /\ \A i \in DOMAIN fl : js[fl[i]].next = IF i + 1 \in DOMAIN fl THEN fl[i + 1] ELSE last
    /\ nx = IF 1 \in DOMAIN fl THEN fl[1] ELSE last

Sound(js, nx, count) ==
    /\ count = Cardinality(BusySlots(js))
    /\ count <= Len(js) /\ Len(js) <= MaxJobs
    /\ \E fl \in [1..(Len(js) - count) -> FreeSlots(js)] : FreeList(fl, js, nx)

(* The jobs array of build() stays consistent while it grows and jobs      *)
(* finish in any order: numjobs counts the running jobs and respects -j,   *)
(* the array never outgrows -j, and the free list threads through every    *)
(* free slot and no busy one, so that jobstart() never overwrites a        *)
(* running job.                                                            *)
SlotsSound == Sound(jobs, next, numjobs)

(* At most Depth[p] commands of a pool run at once, and the pool's counter *)
(* never loses a slot in use: it is at least the number of edges that hold *)
(* one (queue(), jobdone()).  The console pool is the case of depth 1.     *)
PoolDepth ==
    \A p \in Pools : /\ Cardinality(Holders(p)) <= poolnum[p]
                     /\ poolnum[p] <= Depth[p]

(* pool->work holds "ready edges blocked by the pool's capacity" (env.h):  *)
(* while one waits there, every slot of the pool is in use.                *)
BlockedByCapacity ==
    \A p \in Pools : poolwork[p] # << >> => Cardinality(Holders(p)) = Depth[p]

(* An edge buildadd() is through with counts as settled when its command   *)
(* has succeeded, or when it is clean or pruned and waits for nothing any  *)
(* more.                                                                   *)
Settled(e) ==
    /\ Seen(e) /\ ~OnStack(e)
    /\ \/ result[e] = "ok"
       \/ result[e] = "none" /\ "DIRTY_OUT" \notin flags[e] /\ nprune[e] = 0

(* No edge is forgotten: when build() succeeds, every edge it took on was  *)
(* run or is up to date; nothing is left on a queue, and the progress      *)
(* counter ends at its total (every pruned job having been subtracted).    *)
NothingForgotten ==
    pc = "start" /\ Stalled /\ numjobs = 0 /\ numfail = 0 =>
        /\ \A e \in Edges : "WORK" \in flags[e] => Settled(e)
        /\ \A p \in Pools : poolwork[p] = << >>
        /\ nstarted = ntotal

(* With -k, build() gives up only when it "cannot make progress due to     *)
(* previous errors": every edge that did not run then depends, directly or *)
(* through other edges that did not run, on one that failed.               *)
KeepsGoing ==
    status = "fatal" /\ pc = "exit" /\ 0 < numfail /\ numfail < MaxFail =>
        \A e \in Edges : "WORK" \in flags[e] /\ ~Settled(e) /\ result[e] # "failed" =>
            \E f \in Producers(e) : ~Settled(f)

(* When samu has succeeded, running it again would find nothing to do: no  *)
(* output of an edge it considered is out of date by the times now on disk *)
(* and in the log, and none lacks a dependency record.                     *)
UpToDate ==
    status = "ok" /\ ~DryRun =>
        \A e \in Edges \ Phony : "WORK" \in flags[e] =>
            /\ e \notin nodeps
            /\ \A n \in Members(Out[e]) :
                  ~isdirty(e, disk[n], logmtime[n], samehash[n], disk)

(* No command is run unless the edges in question are free of cycles: of   *)
(* any set of them, one needs none of the others (FLAG_CYCLE).             *)
CycleRefused ==
    \A S \in SUBSET {e \in Edges : "WORK" \in flags[e]} :
        pc \in {"start", "return"} /\ S # {} => \E e \in S : Producers(e) \cap S = {}

(* The refinement: what a build does to the edges is what SamuOrder        *)
(* allows.  While buildadd() runs nothing is decided yet.                  *)
EdgeState(e) ==
    IF pc = "add" THEN "waiting"
    ELSE IF result[e] \in {"running", "failed"} THEN result[e]
    ELSE IF Settled(e) THEN "settled" ELSE "waiting"

Order == INSTANCE SamuOrder WITH
            Needs <- [e \in Edges |-> Producers(e)],
            state <- [e \in Edges |-> EdgeState(e)]

(* Commands are started in dependency order, once, and never below a       *)
(* failure (nodedone(), queue(), jobdone()).                               *)
DependencyOrder == Order!Spec

(* No command runs twice in one run of samu: after the manifest's build,   *)
(* the state is "reset, so a new build can be executed" (build.h).         *)
RunsOnce == \A e \in Edges : nruns[e] <= 1

(* samu ends, whatever the commands do, as long as each of them ends.      *)
Terminates == <>(pc = "exit")
=============================================================================
