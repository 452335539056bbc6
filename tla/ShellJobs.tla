----------------------------- MODULE ShellJobs -----------------------------
(***************************************************************************)
(* Job control (jobs.c): the job table, the list of jobs from the current  *)
(* one on, and the shell's dealings with the kernel: fork, wait3, SIGCHLD, *)
(* sigsuspend, process groups and the terminal.  The commands a user can   *)
(* give (a pipeline in the foreground or background, wait, fg, bg, jobs)   *)
(* start when the shell is idle; dowait() is a machine of its own, so that *)
(* children change state and signals arrive at every point of it.          *)
(*                                                                         *)
(* A child's part of the fork (joining its process group, taking the       *)
(* terminal) is done as it is forked.                                      *)
(***************************************************************************)
EXTENDS Naturals, Sequences, FiniteSets

CONSTANTS
    Pids,       \* process ids the kernel hands out
    rootpid,    \* the shell's own process group
    MaxJob,     \* bound on the job table (which grows without limit)
    MaxProc,    \* bound on the length of a pipeline
    JobCtl,     \* jobctl: whether the shell does job control
    Failures,   \* whether fork() and pipe() may fail
    PidReuse,   \* whether the kernel may hand out a pid the job table still names
    Signals     \* whether a signal with a trap may arrive

ASSUME JobsAssumption ==
    /\ rootpid \notin Pids
    /\ MaxJob \in Nat \ {0} /\ MaxProc \in Nat \ {0}
    /\ JobCtl \in BOOLEAN /\ Failures \in BOOLEAN
    /\ PidReuse \in BOOLEAN /\ Signals \in BOOLEAN

VARIABLES
    jobtab,       \* the job table
    joblist,      \* curjob, curjob->prev_job, ...
    proc,         \* the kernel: state of each process
    pgrp,         \* the kernel: process group of each process
    tty,          \* the kernel: foreground process group of the terminal
    gotsigchld, pending_sig,
    pc,           \* "idle", or where in dowait() or waitcmd() the shell is
    wait          \* arguments and locals of dowait(), and what its caller does next

jobVars  == <<jobtab, joblist>>
kernVars == <<proc, pgrp, tty>>
sigVars  == <<gotsigchld, pending_sig>>
vars == <<jobVars, kernVars, sigVars, pc, wait>>

Slots == 1..MaxJob
NoJob == 0
Used == {j \in Slots : jobtab[j].used}
FreeJob == [used |-> FALSE, state |-> "running", ps |-> << >>, waited |-> FALSE,
            changed |-> FALSE]

Init ==
    /\ jobtab = [j \in Slots |-> FreeJob] /\ joblist = << >>
    /\ proc = [p \in Pids |-> "none"]
    /\ pgrp = [p \in Pids |-> rootpid]
    /\ tty = rootpid
    /\ gotsigchld = FALSE /\ pending_sig = FALSE
    /\ pc = "idle" /\ wait = [block |-> "none", job |-> NoJob, rpid |-> TRUE, then |-> "builtin"]

-----------------------------------------------------------------------------
(* set_curjob() on the list of jobs l, in a table tab: jobs are taken out, *)
(* put after the stopped ones at the head, or put first.                   *)
Listed(l) == {l[k] : k \in DOMAIN l}
Without(l, j) ==
    IF j \in Listed(l)
    THEN LET k == CHOOSE k \in DOMAIN l : l[k] = j
         IN [i \in 1..(Len(l) - 1) |-> IF i < k THEN l[i] ELSE l[i + 1]]
    ELSE l
Stopped(tab, i) == tab[i].state = "stopped"
InsertRunning(l, j, tab) ==
    LET n == Cardinality({k \in DOMAIN l : \A i \in 1..k : Stopped(tab, l[i])})
    IN SubSeq(l, 1, n) \o <<j>> \o SubSeq(l, n + 1, Len(l))
CurRunning(l, j, tab) == InsertRunning(Without(l, j), j, tab)
(* Mutant: the job is put first but not taken out of its old place. *)
CurStoppedTwice(l, j) == <<j>> \o l
CurStopped(l, j) == <<j>> \o Without(l, j)

(* makejob(): the first slot that is free, or whose job is done and waited *)
(* for (without job control; with it, jobs stay until they are shown).     *)
Reusable(tab, j) ==
    \/ ~tab[j].used
    \/ tab[j].state = "done" /\ tab[j].waited /\ ~JobCtl
NewSlot(j) == Reusable(jobtab, j) /\ \A i \in 1..(j - 1) : ~Reusable(jobtab, i)

(* Mutant: the slot is taken without freejob(), which unlinks its old job. *)
NewListKeepOld(j) == <<j>> \o joblist
NewList(j) == <<j>> \o Without(joblist, j)

(* Mutant: the processes are counted from zero. *)
NewJobFromZero(pids) == [FreeJob EXCEPT !.used = TRUE,
                            !.ps = [i \in 0..(Len(pids) - 1) |-> [pid |-> pids[i + 1], status |-> "run"]]]
NewJob(pids) == [FreeJob EXCEPT !.used = TRUE,
                                !.ps = [i \in DOMAIN pids |-> [pid |-> pids[i], status |-> "run"]]]

Named(p) == \E j \in Slots : \E i \in DOMAIN jobtab[j].ps :
               jobtab[j].used /\ jobtab[j].ps[i].pid = p

(* A pid the kernel may give to a new process: no process has it, nor is   *)
(* it the id of a process group.                                           *)
Fresh(p) ==
    /\ proc[p] = "none"
    /\ \A q \in Pids : proc[q] # "none" => pgrp[q] # p
    /\ PidReuse \/ ~Named(p)

PidSeqs(n) == {s \in [1..n -> {p \in Pids : Fresh(p)}] :
                  \A i, k \in 1..n : s[i] = s[k] => i = k}

(* What forking the processes s of a job leaves in the kernel.  The child  *)
(* calls setpgid() (its parent does too) and tcsetpgrp() before anything   *)
(* else; here they are part of the fork, and no signal comes before them.  *)
Forked(s, mode) ==
    LET new == {s[i] : i \in DOMAIN s} IN
    /\ proc' = [p \in Pids |-> IF p \in new THEN "run" ELSE proc[p]]
    /\ pgrp' = [p \in Pids |-> IF p \in new THEN IF JobCtl THEN s[1] ELSE rootpid
                               ELSE pgrp[p]]
    /\ tty' = IF JobCtl /\ mode = "fg" /\ new # {} THEN s[1] ELSE tty

-----------------------------------------------------------------------------
(* dowait() is entered with job j; then tells what its caller does next.   *)
EnterWait(block, j, then, tab) ==
    LET b == IF j # NoJob /\ tab[j].state # "running" THEN "none" ELSE block IN
    /\ wait' = [block |-> b, job |-> j, rpid |-> TRUE, then |-> then]
    /\ pc' = IF b = "none" /\ ~gotsigchld THEN "waited" ELSE "clear"

(* A builtin returns: evalcommand() calls waitforjob(NULL). *)
BuiltinDone == EnterWait("none", NoJob, "builtin", jobtab')

(* evalpipe(), evalsubshell(), vforkexec(): a job of n processes.  The     *)
(* shell waits for one in the foreground.                                  *)
Start(mode, n) ==
    /\ pc = "idle"
    /\ \E j \in Slots, s \in PidSeqs(n) :
          /\ NewSlot(j)
          /\ jobtab' = [jobtab EXCEPT ![j] = NewJob(s)]
          /\ LET l == NewList(j) IN
                joblist' = IF mode = "bg" THEN CurRunning(l, j, jobtab') ELSE l
          /\ Forked(s, mode)
          /\ IF mode = "fg" THEN EnterWait("block", j, "fg", jobtab') ELSE UNCHANGED <<pc, wait>>
    /\ UNCHANGED sigVars

(* fork() fails after k processes of the job were forked: freejob(), error. *)
ForkFails(mode, k) ==
    /\ pc = "idle" /\ Failures
    /\ \E j \in Slots, s \in PidSeqs(k) :
          /\ NewSlot(j)
          /\ jobtab' = [jobtab EXCEPT ![j] = FreeJob]
          /\ joblist' = Without(joblist, j)
          /\ Forked(s, mode)
    /\ UNCHANGED <<sigVars, pc, wait>>

(* pipe() fails after k processes of the job were forked: an error, and    *)
(* the job stays.                                                          *)
PipeFails(mode, k) ==
    /\ pc = "idle" /\ Failures
    /\ \E j \in Slots, s \in PidSeqs(k) :
          /\ NewSlot(j)
          /\ jobtab' = [jobtab EXCEPT ![j] = NewJob(s)]
          /\ LET l == NewList(j) IN
                joblist' = IF mode = "bg" /\ k > 0 THEN CurRunning(l, j, jobtab') ELSE l
          /\ Forked(s, mode)
    /\ UNCHANGED <<sigVars, pc, wait>>

(* openhere(): a child that belongs to no job writes a here-document.      *)
HereDocument ==
    /\ pc = "idle"
    /\ \E p \in Pids : /\ Fresh(p)
                       /\ proc' = [proc EXCEPT ![p] = "run"]
                       /\ pgrp' = [pgrp EXCEPT ![p] = rootpid]
    /\ UNCHANGED <<jobVars, tty, sigVars, pc, wait>>

-----------------------------------------------------------------------------
(* waitproc() *)

ClearChld ==
    /\ pc = "clear"
    /\ gotsigchld' = FALSE /\ pc' = "wait3"
    /\ UNCHANGED <<jobVars, kernVars, pending_sig, wait>>

Reportable(p) == proc[p] = "zombie" \/ (JobCtl /\ proc[p] = "stopping")
Children == {p \in Pids : proc[p] # "none"}

(* The state waitone() gives to a job whose processes are ps.              *)
(* Mutant: the last process decides.                                       *)
StateOfLast(ps) ==
    CASE ps[Len(ps)].status = "run" -> "running"
      [] ps[Len(ps)].status = "stop" -> "stopped"
      [] ps[Len(ps)].status = "exit" -> "done"
StateOf(ps) ==
    IF \E i \in DOMAIN ps : ps[i].status = "run" THEN "running"
    ELSE IF \E i \in DOMAIN ps : ps[i].status = "stop" THEN "stopped"
    ELSE "done"

(* The job waitone() finds for pid p: the first in the list that names it. *)
(* A job without processes is tried with an uninitialized entry, which may *)
(* or may not name p.                                                      *)
Names(j, p) ==
    /\ jobtab[j].state # "done"
    /\ \E i \in DOMAIN jobtab[j].ps : jobtab[j].ps[i].pid = p
Unset(j) == jobtab[j].state # "done" /\ jobtab[j].ps = << >>
ThisJob(p) ==
    LET found == {k \in DOMAIN joblist : Names(joblist[k], p)}
        first == {k \in found : \A i \in found : k <= i}
        unset == {k \in DOMAIN joblist : Unset(joblist[k]) /\ \A i \in first : k < i}
    IN {joblist[k] : k \in first \cup unset} \cup (IF found = {} THEN {NoJob} ELSE {})

(* waitone() has got the status of child p, of job j. *)
Update(j, p, st) ==
    LET ps == [i \in DOMAIN jobtab[j].ps |->
                  IF jobtab[j].ps[i].pid = p THEN [pid |-> p, status |-> st]
                  ELSE jobtab[j].ps[i]]
        state == IF ps = << >> THEN IF st = "stop" THEN "stopped" ELSE "done" ELSE StateOf(ps)
        changes == state # "running"
    IN /\ jobtab' = [jobtab EXCEPT ![j].ps = ps,
                                   ![j].changed = @ \/ changes,
                                   ![j].state = IF changes THEN state ELSE @]
       /\ joblist' = IF changes /\ state = "stopped" /\ jobtab[j].state # "stopped"
                     THEN CurStopped(joblist, j) ELSE joblist

(* wait3() reports child p, and dowait() goes round. *)
Reap(p) ==
    /\ pc = "wait3" /\ Reportable(p)
    /\ LET st == IF proc[p] = "zombie" THEN "exit" ELSE "stop" IN
          \E j \in ThisJob(p) : IF j = NoJob THEN UNCHANGED jobVars ELSE Update(j, p, st)
    /\ proc' = [proc EXCEPT ![p] = IF @ = "zombie" THEN "none" ELSE "stopped"]
    /\ wait' = [wait EXCEPT !.block =
                   IF @ = "all" \/ (wait.job # NoJob /\ jobtab'[wait.job].state # "running")
                   THEN "none" ELSE @]
    /\ pc' = "clear"
    /\ UNCHANGED <<pgrp, tty, sigVars>>

(* wait3() has nothing to report. *)
NoneReportable == \A p \in Pids : ~Reportable(p)

WaitEnds ==
    /\ pc = "wait3" /\ NoneReportable
    /\ Children = {} \/ wait.block = "none"
    /\ pc' = "waited"
    /\ UNCHANGED <<jobVars, kernVars, sigVars, wait>>

(* wait: rather than block in wait3(), block all signals and look again    *)
(* for one, and only then sleep.                                           *)
WaitSuspends ==
    /\ pc = "wait3" /\ NoneReportable
    /\ Children # {} /\ wait.block \in {"cmd", "all"}
    /\ pc' = "suspend"
    /\ UNCHANGED <<jobVars, kernVars, sigVars, wait>>

Woken == gotsigchld \/ pending_sig

(* sigsuspend() ends for a child's sake, or else for another signal: then  *)
(* dowait() stops blocking and will return 0.                              *)
(* Mutant: the flag of SIGCHLD may be cleared after wait3().               *)
WakeUpCleared ==
    /\ pc = "suspend" /\ Woken
    /\ \/ gotsigchld /\ gotsigchld' = FALSE /\ UNCHANGED <<pc, wait>>
       \/ /\ pc' = "clear" /\ UNCHANGED gotsigchld
          /\ wait' = IF gotsigchld THEN wait ELSE [wait EXCEPT !.rpid = FALSE, !.block = "none"]
    /\ UNCHANGED <<jobVars, kernVars, pending_sig>>
WakeUp ==
    /\ pc = "suspend" /\ Woken
    /\ pc' = "clear"
    /\ wait' = IF gotsigchld THEN wait ELSE [wait EXCEPT !.rpid = FALSE, !.block = "none"]
    /\ UNCHANGED <<jobVars, kernVars, sigVars>>

-----------------------------------------------------------------------------
(* The callers of dowait() *)

FreeIfDone(j) ==
    IF jobtab[j].state = "done"
    THEN jobtab' = [jobtab EXCEPT ![j] = FreeJob] /\ joblist' = Without(joblist, j)
    ELSE UNCHANGED jobVars

(* waitforjob() of a foreground job: the shell takes the terminal back.    *)
(* Mutant: only when the job is done.                                      *)
TakeBackIfDone == IF JobCtl /\ jobtab[wait.job].state = "done" THEN rootpid ELSE tty
TakeBack == IF JobCtl THEN rootpid ELSE tty

Foreground ==
    /\ pc = "waited" /\ wait.then \in {"fg", "fgcmd"}
    /\ FreeIfDone(wait.job)
    /\ tty' = TakeBack
    /\ IF wait.then = "fg" THEN pc' = "idle" /\ UNCHANGED wait ELSE BuiltinDone
    /\ UNCHANGED <<proc, pgrp, sigVars>>

NothingToDo ==
    /\ pc = "waited" /\ wait.then = "builtin"
    /\ pc' = "idle"
    /\ UNCHANGED <<jobVars, kernVars, sigVars, wait>>

(* wait without arguments: the loop over all jobs marks those before the   *)
(* first running one.                                                      *)
WaitAll ==
    /\ pc = "idle" /\ pc' = "scan"
    /\ UNCHANGED <<jobVars, kernVars, sigVars, wait>>

(* Mutant: only the current job is looked at. *)
RunningAtFirst == {k \in DOMAIN joblist : k = 1 /\ jobtab[joblist[k]].state = "running"}
RunningAt == {k \in DOMAIN joblist : jobtab[joblist[k]].state = "running"}

ScanJobs ==
    /\ pc = "scan"
    /\ LET before == {joblist[k] : k \in {k \in DOMAIN joblist : \A i \in RunningAt : k < i}} IN
          jobtab' = [j \in Slots |-> IF j \in before THEN [jobtab[j] EXCEPT !.waited = TRUE]
                                     ELSE jobtab[j]]
    /\ IF RunningAt = {} THEN BuiltinDone ELSE EnterWait("all", NoJob, "all", jobtab)
    /\ UNCHANGED <<joblist, kernVars, sigVars>>

WaitedAll ==
    /\ pc = "waited" /\ wait.then = "all"
    /\ IF wait.rpid THEN pc' = "scan" /\ UNCHANGED wait
       ELSE EnterWait("none", NoJob, "builtin", jobtab)
    /\ UNCHANGED <<jobVars, kernVars, sigVars>>

(* wait %j *)
WaitJob(j) ==
    /\ pc = "idle" /\ jobtab[j].used
    /\ EnterWait("cmd", j, "one", jobtab)
    /\ UNCHANGED <<jobVars, kernVars, sigVars>>

WaitedJob ==
    /\ pc = "waited" /\ wait.then = "one"
    /\ jobtab' = IF wait.rpid THEN [jobtab EXCEPT ![wait.job].waited = TRUE] ELSE jobtab
    /\ BuiltinDone
    /\ UNCHANGED <<joblist, kernVars, sigVars>>

(* fg %j and bg %j: restartjob(). *)
Restarted(j) ==
    IF jobtab[j].state = "done" THEN jobtab
    ELSE [jobtab EXCEPT ![j].state = "running",
                        ![j].ps = [i \in DOMAIN @ |->
                            IF @[i].status = "stop" THEN [@[i] EXCEPT !.status = "run"]
                            ELSE @[i]]]
Continued(j) ==
    IF jobtab[j].state = "done" THEN {}
    ELSE {p \in Pids : proc[p] \in {"stopping", "stopped"} /\ pgrp[p] = jobtab[j].ps[1].pid}

Restart(j) ==
    /\ jobtab' = Restarted(j)
    /\ proc' = [p \in Pids |-> IF p \in Continued(j) THEN "run" ELSE proc[p]]
    /\ gotsigchld' = (gotsigchld \/ Continued(j) # {})
    /\ UNCHANGED <<pgrp, pending_sig>>

(* fg and bg of a job without processes (PipeFails leaves one) read a pid  *)
(* that was never set: not modelled.                                       *)
Fg(j) ==
    /\ pc = "idle" /\ JobCtl /\ jobtab[j].used /\ jobtab[j].ps # << >>
    /\ Restart(j)
    /\ tty' = IF jobtab[j].state = "done" THEN tty ELSE jobtab[j].ps[1].pid
    /\ EnterWait("block", j, "fgcmd", jobtab')
    /\ UNCHANGED joblist

Bg(j) ==
    /\ pc = "idle" /\ JobCtl /\ jobtab[j].used /\ jobtab[j].ps # << >>
    /\ joblist' = CurRunning(joblist, j, jobtab)
    /\ Restart(j)
    /\ BuiltinDone
    /\ UNCHANGED tty

(* showjobs(): for the jobs command ("pgid" is jobs -p, which shows no     *)
(* job's state), or before a prompt the changed ones.                      *)
ShowJobs(mode) ==
    /\ pc = "idle" /\ (mode = "changed" => JobCtl)
    /\ EnterWait("none", NoJob, mode, jobtab)
    /\ UNCHANGED <<jobVars, kernVars, sigVars>>

(* showjob() of the jobs shown: a job that is done is freed, and the       *)
(* others stay in the list as they were.                                   *)
Remaining(l, gone) ==
    {q \in UNION {[1..n -> Listed(l) \ gone] : n \in 0..Len(l)} :
        /\ Listed(q) = Listed(l) \ gone
        /\ \A i, k \in DOMAIN q : i < k =>
              \E a, b \in DOMAIN l : a < b /\ l[a] = q[i] /\ l[b] = q[k]}
Show(shown) ==
    LET freed == {j \in shown : jobtab[j].state = "done"} IN
    /\ jobtab' = [j \in Slots |-> IF j \in freed THEN FreeJob
                                  ELSE IF j \in shown THEN [jobtab[j] EXCEPT !.changed = FALSE]
                                  ELSE jobtab[j]]
    /\ joblist' \in Remaining(joblist, freed)

ShownJobs ==
    /\ pc = "waited" /\ wait.then \in {"jobs", "pgid", "changed"}
    /\ Show(CASE wait.then = "jobs" -> Used
              [] wait.then = "changed" -> {j \in Used : jobtab[j].changed}
              [] wait.then = "pgid" -> {})
    /\ IF wait.then = "changed" THEN pc' = "idle" /\ UNCHANGED wait ELSE BuiltinDone
    /\ UNCHANGED <<kernVars, sigVars>>

(* jobs %j *)
ShowJob(j) ==
    /\ pc = "idle" /\ j \in Used
    /\ Show({j})
    /\ BuiltinDone
    /\ UNCHANGED <<kernVars, sigVars>>

(* dotrap(), between commands *)
DoTrap ==
    /\ pc = "idle" /\ pending_sig
    /\ pending_sig' = FALSE
    /\ UNCHANGED <<jobVars, kernVars, gotsigchld, pc, wait>>

-----------------------------------------------------------------------------
(* The kernel and the children (external).  Every change of a child's      *)
(* state sends SIGCHLD, and onsig() notes it.                              *)
Changes(p, from, to) ==
    /\ proc[p] \in from
    /\ proc' = [proc EXCEPT ![p] = to]
    /\ gotsigchld' = TRUE
    /\ UNCHANGED <<jobVars, pgrp, tty, pending_sig, pc, wait>>

ChildExits(p) == Changes(p, {"run", "stopping", "stopped"}, "zombie")
ChildStops(p) == Changes(p, {"run"}, "stopping")
ChildContinues(p) == Changes(p, {"stopping", "stopped"}, "run")

SignalArrives ==
    /\ Signals /\ ~pending_sig
    /\ pending_sig' = TRUE
    /\ UNCHANGED <<jobVars, kernVars, gotsigchld, pc, wait>>

-----------------------------------------------------------------------------
Command ==
    \/ \E mode \in {"fg", "bg"}, n \in 1..MaxProc : Start(mode, n)
    \/ \E mode \in {"fg", "bg"}, k \in 0..(MaxProc - 1) : ForkFails(mode, k)
    \/ \E mode \in {"fg", "bg"}, k \in 0..(MaxProc - 2) : PipeFails(mode, k)
    \/ HereDocument
    \/ WaitAll \/ \E j \in Slots : WaitJob(j) \/ Fg(j) \/ Bg(j) \/ ShowJob(j)
    \/ \E mode \in {"jobs", "pgid", "changed"} : ShowJobs(mode)
    \/ DoTrap

Waiting ==
    \/ ClearChld \/ (\E p \in Pids : Reap(p)) \/ WaitEnds \/ WaitSuspends \/ WakeUp
    \/ Foreground \/ NothingToDo \/ ScanJobs \/ WaitedAll \/ WaitedJob \/ ShownJobs

Kernel ==
    \/ \E p \in Pids : ChildExits(p) \/ ChildStops(p) \/ ChildContinues(p)
    \/ SignalArrives

Next == Command \/ Waiting \/ Kernel

Spec == Init /\ [][Next]_vars

(* The shell runs, and every child exits some time. *)
FairSpec == Spec /\ WF_vars(Waiting) /\ \A p \in Pids : WF_vars(ChildExits(p))
-----------------------------------------------------------------------------
(* Properties *)

Job == [used : BOOLEAN, state : {"running", "stopped", "done"},
        ps : UNION {[1..n -> [pid : Pids, status : {"run", "stop", "exit"}]] : n \in 0..MaxProc},
        waited : BOOLEAN, changed : BOOLEAN]

TypeOK ==
    /\ jobtab \in [Slots -> Job] /\ joblist \in Seq(Slots)
    /\ proc \in [Pids -> {"none", "run", "stopping", "stopped", "zombie"}]
    /\ pgrp \in [Pids -> Pids \cup {rootpid}] /\ tty \in Pids \cup {rootpid}
    /\ gotsigchld \in BOOLEAN /\ pending_sig \in BOOLEAN
    /\ pc \in {"idle", "clear", "wait3", "suspend", "waited", "scan"}
    /\ wait \in [block : {"none", "block", "cmd", "all"}, job : Slots \cup {NoJob},
                 rpid : BOOLEAN, then : {"builtin", "fg", "fgcmd", "all", "one", "jobs", "pgid", "changed"}]

(* The list from curjob on holds every job in use exactly once: set_curjob *)
(* looks a job up in it without a check for the end.                       *)
ListSound ==
    /\ {joblist[k] : k \in DOMAIN joblist} = Used
    /\ \A i, k \in DOMAIN joblist : joblist[i] = joblist[k] => i = k

(* A job the table calls done has no process left, and one it calls        *)
(* running or stopped has one: no child's exit is missed or counted for    *)
(* another job.                                                            *)
DoneIsDone ==
    \A j \in Used : jobtab[j].ps # << >> =>
        (jobtab[j].state = "done" <=>
         \A i \in DOMAIN jobtab[j].ps : proc[jobtab[j].ps[i].pid] = "none")

(* dash.1: wait without arguments is to "wait for all jobs to complete":   *)
(* when its loop over the jobs ends, no process of a job is left.          *)
WaitForAll ==
    [][pc = "scan" /\ pc' # "scan" /\ wait'.then = "builtin" =>
        \A j \in Used : \A i \in DOMAIN jobtab[j].ps : proc[jobtab[j].ps[i].pid] = "none"]_vars

(* Between commands the shell has the terminal. *)
TerminalBack == pc = "idle" => tty = rootpid

(* Whatever the children do and whenever signals arrive, every command     *)
(* that waits for children ends once they have exited: no SIGCHLD is lost  *)
(* between wait3() and sigsuspend().                                       *)
WaitReturns == pc # "idle" ~> pc = "idle"
=============================================================================
