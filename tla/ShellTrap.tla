----------------------------- MODULE ShellTrap -----------------------------
(***************************************************************************)
(* Traps and signals (trap.c, with error.c's exceptions and the signal     *)
(* part of forkchild()).  One process is followed: the shell, and after a  *)
(* fork its child.  Commands run one by one, each between two calls of     *)
(* dotrap() as in evaltree(); a trap's action is itself a list of          *)
(* commands, so dotrap() nests.  Signals arrive at every point.            *)
(***************************************************************************)
EXTENDS Integers, Sequences, FiniteSets

CONSTANTS
    Sigs,       \* the signals considered, by number
    Interact,   \* the values of iflag considered
    Monitor,    \* the values of mflag considered at the start
    Entries,    \* the sets of signals that may be ignored on entry
    Script,     \* whether commands come from a file or -c
    DashC,      \* whether they come from -c
    TrapErrors, \* whether a command of a trap's action may fail with sh_error()
    MaxNest,    \* bound on nested calls of dotrap(), one fewer for each subshell
    MaxFork     \* bound on nested subshells

SIGINT == 2
SIGQUIT == 3
SIGTERM == 15
SIGCHLD == 17
SIGTSTP == 20
SIGTTIN == 21
SIGTTOU == 22
JobSigs == {SIGTSTP, SIGTTIN, SIGTTOU}   \* those setjobctl() sets
Harmless == JobSigs \cup {SIGCHLD, 18, 23, 28}   \* not fatal by default: SIGCONT, SIGURG, SIGWINCH

ASSUME TrapAssumption ==
    /\ Sigs \subseteq Nat \ {0, 9, 19} /\ IsFiniteSet(Sigs)   \* not SIGKILL, not SIGSTOP
    /\ Interact \subseteq BOOLEAN /\ Monitor \subseteq BOOLEAN /\ Entries \subseteq SUBSET Sigs
    /\ Script \in BOOLEAN /\ DashC \in BOOLEAN /\ (DashC => Script) /\ TrapErrors \in BOOLEAN
    /\ MaxNest \in Nat \ {0} /\ MaxFork \in Nat

VARIABLES
    trap,         \* action of each signal and of 0, the exit
    trapcnt,
    sigmode,      \* "unknown", "DFL", "CATCH", "IGN" or "HARD_IGN"
    disp,         \* the kernel: "dfl", "ign" or "onsig"
    entry,        \* signals ignored when this (sub)shell started
    iflag, mflag, shlvl,
    subst,        \* history: whether this is within a command substitution of a
                  \* shell with job control, the one fork that leaves its signals
    gotsig, pending_sig,
    suppressint, intpending,
    evalskip,     \* "none", "loop" (break, continue), "func" (return n), "funcdef" (return)
    exitstatus, savestatus,
    frames,       \* the calls of dotrap() under way, innermost first
    pc            \* "top", "cmd", "end": before, in, after a command; "scan"; "done"

sigVars  == <<sigmode, disp, entry>>
optVars  == <<iflag, mflag, shlvl, subst>>
gotVars  == <<gotsig, pending_sig>>
intVars  == <<suppressint, intpending>>
statVars == <<exitstatus, savestatus>>
vars == <<trap, trapcnt, sigVars, optVars, gotVars, intVars, evalskip, statVars, frames, pc>>

-----------------------------------------------------------------------------
(* setsignal(s), in a process at level lvl with traps t, modes m and       *)
(* dispositions d.                                                         *)
Wanted(s, t, lvl, i, mon) ==
    CASE s = SIGCHLD -> "CATCH"
      [] s # SIGCHLD /\ t[s] = "act" -> "CATCH"
      [] s # SIGCHLD /\ t[s] = "empty" -> "IGN"
      [] s # SIGCHLD /\ t[s] = "null" ->
            CASE lvl = 0 /\ s = SIGINT /\ (i \/ Script) -> "CATCH"
              [] lvl = 0 /\ s \in {SIGQUIT, SIGTERM} /\ i -> "IGN"
              [] lvl = 0 /\ s \in {SIGTSTP, SIGTTOU} /\ mon -> "IGN"
              [] OTHER -> "DFL"

Current(s, m, d, mon) ==
    IF m[s] # "unknown" THEN m[s]
    ELSE IF d[s] # "ign" THEN "RESET"
    ELSE IF mon /\ s \in JobSigs THEN "IGN" ELSE "HARD_IGN"

(* Mutant: a signal ignored on entry is not left alone. *)
SetAny(s, want, m, d, mon) == TRUE
Set(s, want, m, d, mon) == Current(s, m, d, mon) \notin {"HARD_IGN", want}

Handler(want) == CASE want = "CATCH" -> "onsig" [] want = "IGN" -> "ign" [] want = "DFL" -> "dfl"

(* setsignal() of each signal of S. *)
NewMode(S, t, m, d, lvl, i, mon) ==
    [s \in Sigs |-> IF s \in S /\ Set(s, Wanted(s, t, lvl, i, mon), m, d, mon)
                    THEN Wanted(s, t, lvl, i, mon) ELSE m[s]]
NewDisp(S, t, m, d, lvl, i, mon) ==
    [s \in Sigs |-> IF s \in S /\ Set(s, Wanted(s, t, lvl, i, mon), m, d, mon)
                    THEN Handler(Wanted(s, t, lvl, i, mon)) ELSE d[s]]

(* init(), then optschanged(): setinteractive() and setjobctl(). *)
Init ==
    /\ iflag \in Interact /\ mflag \in {m \in Monitor : m => iflag} /\ shlvl = 0 /\ subst = FALSE
    /\ trap = [s \in Sigs \cup {0} |-> "null"] /\ trapcnt = 0
    /\ entry \in Entries
    /\ LET m0 == [s \in Sigs |-> IF s = SIGCHLD THEN "DFL" ELSE "unknown"]
           d0 == [s \in Sigs |-> IF s \in entry THEN "ign" ELSE "dfl"]
           S  == {SIGCHLD, SIGINT, SIGQUIT, SIGTERM} \cup (IF mflag THEN JobSigs ELSE {})
       IN /\ sigmode = NewMode(S, trap, m0, d0, 0, iflag, mflag)
          /\ disp = NewDisp(S, trap, m0, d0, 0, iflag, mflag)
    /\ gotsig = {} /\ pending_sig = 0 /\ suppressint = FALSE /\ intpending = FALSE
    /\ evalskip = "none" /\ exitstatus = 0 /\ savestatus = -1
    /\ frames = << >> /\ pc = "top"

-----------------------------------------------------------------------------
Exiting == \E k \in DOMAIN frames : frames[k].exit

(* exitshell(): the action of 0 runs, once, with status st saved; then the *)
(* process ends.                                                           *)
Leave(st) ==
    /\ exitstatus' = st
    /\ IF trap[0] = "act" /\ ~Exiting
       THEN /\ trap' = [trap EXCEPT ![0] = "null"]
            /\ frames' = <<[sig |-> 0, last |-> -1, ret |-> "done", at |-> st, exit |-> TRUE]>>
            /\ savestatus' = st /\ pc' = "top"
       ELSE frames' = << >> /\ savestatus' = -1 /\ pc' = "done" /\ UNCHANGED trap

(* exraise(): to main() or, once that has called it, to exitshell().  Only *)
(* an interactive shell goes on, after FORCEINTON.                         *)
Exception(goon, st) ==
    /\ evalskip' = "none" /\ intpending' = FALSE
    /\ IF goon /\ iflag /\ shlvl = 0 /\ ~Exiting
       THEN /\ exitstatus' = st /\ savestatus' = -1 /\ frames' = << >> /\ pc' = "top"
            /\ suppressint' = FALSE /\ UNCHANGED trap
       ELSE suppressint' = TRUE /\ Leave(st)

(* The process ends, or becomes another program, without exitshell(). *)
Killed == pc' = "done" /\ UNCHANGED <<trap, evalskip, statVars, frames, intVars>>

(* onint() *)
Interrupt == IF iflag /\ shlvl = 0 THEN Exception(TRUE, 1) ELSE Killed

-----------------------------------------------------------------------------
(* onsig(): a signal arrives.  SIGCHLD is otherwise the concern of jobs.c. *)
Signal(s) ==
    /\ pc # "done" /\ disp[s] = "onsig" /\ (s = SIGCHLD => trap[s] # "null")
    /\ gotsig' = gotsig \cup {s} /\ pending_sig' = s
    /\ IF s = SIGINT /\ trap[s] = "null" /\ ~suppressint THEN Interrupt
       ELSE /\ intpending' = (intpending \/ (s = SIGINT /\ trap[s] = "null"))
            /\ UNCHANGED <<trap, evalskip, statVars, frames, pc, suppressint>>
    /\ UNCHANGED <<trapcnt, sigVars, optVars>>

(* A signal that ends the process by default (external). *)
DefaultSignal(s) ==
    /\ pc # "done" /\ disp[s] = "dfl" /\ s \notin Harmless
    /\ Killed
    /\ UNCHANGED <<trapcnt, sigVars, optVars, gotVars>>

-----------------------------------------------------------------------------
(* dotrap(), after which the evaluation goes on at ret. *)
EnterTrap(ret) ==
    /\ pending_sig # 0 /\ Len(frames) + shlvl < MaxNest
    /\ frames' = <<[sig |-> 0, last |-> savestatus, ret |-> ret, exit |-> FALSE,
                    at |-> IF frames = << >> THEN exitstatus ELSE 0]>> \o frames
    /\ savestatus' = IF savestatus < 0 THEN exitstatus ELSE savestatus
    /\ pending_sig' = 0 /\ pc' = "scan"

(* evaltree() calls dotrap() before and after each command. *)
Eval(from, to) ==
    /\ pc = from
    /\ \/ EnterTrap(to)
       \/ pending_sig = 0 /\ pc' = to /\ UNCHANGED <<pending_sig, savestatus, frames>>
    /\ UNCHANGED <<trap, trapcnt, sigVars, optVars, gotsig, intVars, evalskip, exitstatus>>

Begin == evalskip = "none" /\ Eval("top", "cmd")
End   == Eval("end", "top")

Later == {s \in gotsig : s > frames[1].sig}
Lowest(S) == CHOOSE s \in S : \A r \in S : s <= r

Return ==
    /\ frames' = Tail(frames) /\ savestatus' = frames[1].last /\ pc' = frames[1].ret
    /\ UNCHANGED <<trap, trapcnt, sigVars, optVars, gotsig, intVars, evalskip, exitstatus>>

(* The loop over gotsig ends. *)
(* Mutant: pending_sig is cleared now. *)
ScanEndsCleared == pc = "scan" /\ Later = {} /\ Return /\ pending_sig' = 0
ScanEnds == pc = "scan" /\ Later = {} /\ Return /\ UNCHANGED pending_sig

(* Commands are being skipped: the rest is left for later.                 *)
(* Mutant: off by one.                                                     *)
PostponeOffByOne ==
    /\ pc = "scan" /\ Later # {} /\ evalskip # "none"
    /\ pending_sig' = Lowest(Later) - 1
    /\ Return
Postpone ==
    /\ pc = "scan" /\ Later # {} /\ evalskip # "none"
    /\ pending_sig' = Lowest(Later)
    /\ Return

RunTrap ==
    /\ pc = "scan" /\ Later # {} /\ evalskip = "none"
    /\ LET s == Lowest(Later) IN
          /\ gotsig' = gotsig \ {s}
          /\ frames' = [frames EXCEPT ![1].sig = s]
          /\ pc' = IF trap[s] = "act" THEN "top" ELSE "scan"
          /\ exitstatus' = IF trap[s] = "empty" THEN savestatus ELSE exitstatus
    /\ UNCHANGED <<trap, trapcnt, sigVars, optVars, pending_sig, intVars, evalskip, savestatus>>

(* The action has run, or is left because of evalskip. *)
(* Mutant: the exit status stays that of the action. *)
AfterActionKept == exitstatus
AfterAction == IF evalskip = "func" THEN exitstatus ELSE savestatus

ActionEnds ==
    /\ pc = "top" /\ frames # << >>
    /\ evalskip' = IF frames[1].exit THEN "none" ELSE evalskip
    /\ IF frames[1].exit
       THEN exitstatus' = savestatus /\ savestatus' = -1 /\ frames' = << >> /\ pc' = "done"
       ELSE exitstatus' = AfterAction /\ pc' = "scan" /\ UNCHANGED <<savestatus, frames>>
    /\ UNCHANGED <<trap, trapcnt, sigVars, optVars, gotVars, intVars>>

-----------------------------------------------------------------------------
(* Commands.  evalcommand() ends with FORCEINTON. *)
Done(st) ==
    IF intpending THEN Interrupt
    ELSE /\ exitstatus' = st /\ pc' = "end" /\ suppressint' = FALSE
         /\ UNCHANGED <<savestatus, frames, intpending>>

Command(st) ==
    /\ pc = "cmd" /\ Done(st)
    /\ (~intpending => UNCHANGED <<trap, evalskip>>)
    /\ UNCHANGED <<trapcnt, sigVars, optVars, gotVars>>

IntOff ==
    /\ pc = "cmd" /\ ~suppressint /\ suppressint' = TRUE
    /\ UNCHANGED <<trap, trapcnt, sigVars, optVars, gotVars, intpending, evalskip, statVars, frames, pc>>

(* trapcmd() for one signal *)
(* Mutant: the action that is replaced is not counted down. *)
CountUp(s, a) == trapcnt + (IF a = "act" THEN 1 ELSE 0)
Count(s, a) == trapcnt + (IF a = "act" THEN 1 ELSE 0) - (IF trap[s] = "act" THEN 1 ELSE 0)

TrapCmd(s, a) ==
    /\ pc = "cmd" /\ ~intpending
    /\ trap' = [trap EXCEPT ![s] = a] /\ trapcnt' = Count(s, a)
    /\ sigmode' = NewMode({s}, trap', sigmode, disp, shlvl, iflag, mflag)
    /\ disp' = NewDisp({s}, trap', sigmode, disp, shlvl, iflag, mflag)
    /\ Done(0)
    /\ UNCHANGED <<entry, optVars, gotVars, evalskip>>

(* set -m and set +m: setjobctl() *)
SetMonitor ==
    /\ pc = "cmd" /\ ~intpending
    /\ mflag' = ~mflag
    /\ LET S == IF shlvl = 0 THEN JobSigs ELSE {} IN
          /\ sigmode' = NewMode(S, trap, sigmode, disp, shlvl, iflag, mflag')
          /\ disp' = NewDisp(S, trap, sigmode, disp, shlvl, iflag, mflag')
    /\ Done(0)
    /\ UNCHANGED <<trap, trapcnt, entry, iflag, shlvl, subst, gotVars, evalskip>>

(* break, continue, return *)
Skip(kind, st) ==
    /\ pc = "cmd" /\ ~intpending
    /\ evalskip' = kind
    /\ Done(IF kind = "funcdef" THEN exitstatus ELSE IF kind = "loop" THEN 0 ELSE st)
    /\ UNCHANGED <<trap, trapcnt, sigVars, optVars, gotVars>>

(* The loop, function or file that is being left ends. *)
SkipEnds ==
    /\ pc = "top" /\ evalskip # "none" /\ evalskip' = "none"
    /\ UNCHANGED <<trap, trapcnt, sigVars, optVars, gotVars, intVars, statVars, frames, pc>>

Error ==
    /\ pc = "cmd" /\ (frames # << >> => TrapErrors)
    /\ Exception(TRUE, 1)
    /\ UNCHANGED <<trapcnt, sigVars, optVars, gotVars>>

(* exit [n] *)
ExitCmd ==
    /\ pc = "cmd"
    /\ \E st \in {IF savestatus >= 0 THEN savestatus ELSE exitstatus, 0, 1} : Exception(FALSE, st)
    /\ UNCHANGED <<trapcnt, sigVars, optVars, gotVars>>

(* The end of the input, or of a subshell's commands. *)
EndOfInput ==
    /\ pc = "top" /\ frames = << >>
    /\ evalskip' = "none" /\ Leave(exitstatus)
    /\ UNCHANGED <<trapcnt, sigVars, optVars, gotVars, intVars>>

-----------------------------------------------------------------------------
(* forkchild(): from here on the child is followed. *)
ForkTraps == [s \in DOMAIN trap |-> IF trap[s] = "act" THEN "null" ELSE trap[s]]
Background(mode) == mode = "bg" /\ ~(mflag /\ shlvl = 0)

(* Mutant: forkreset() forgets to set the signals of the traps it drops. *)
ForkSetsNoTraps(mode) ==
    (IF mode # "nojob" /\ mflag /\ shlvl = 0 THEN {SIGTSTP, SIGTTOU} ELSE {})
        \cup (IF iflag /\ shlvl = 0 THEN {SIGINT, SIGQUIT, SIGTERM} ELSE {})
ForkSets(mode) ==
    {s \in Sigs : trap[s] = "act"}
        \cup (IF mode # "nojob" /\ mflag /\ shlvl = 0 THEN {SIGTSTP, SIGTTOU} ELSE {})
        \cup (IF iflag /\ shlvl = 0 THEN {SIGINT, SIGQUIT, SIGTERM} ELSE {})

Fork(mode) ==
    /\ pc = "cmd" /\ shlvl < MaxFork /\ ~intpending
    /\ shlvl' = shlvl + 1 /\ trap' = ForkTraps /\ trapcnt' = 0
    /\ subst' = IF shlvl = 0 THEN mode = "nojob" /\ mflag ELSE subst
    /\ LET bg == IF Background(mode) THEN {SIGINT, SIGQUIT} \cap Sigs ELSE {}
           m == NewMode(ForkSets(mode), trap', sigmode, disp, shlvl', iflag, mflag)
           d == NewDisp(ForkSets(mode), trap', sigmode, disp, shlvl', iflag, mflag)
       IN /\ sigmode' = [s \in Sigs |-> IF s \in bg THEN "HARD_IGN" ELSE m[s]]
          /\ disp' = [s \in Sigs |-> IF s \in bg THEN "ign" ELSE d[s]]
          /\ entry' = entry \cup bg
    /\ frames' = << >> /\ pc' = "top" /\ suppressint' = FALSE
    /\ UNCHANGED <<iflag, mflag, gotVars, intpending, evalskip, statVars>>

(* EV_EXIT: the command may be the last one of -c (main.c:202), unless an  *)
(* error has led back to cmdloop(), or of a subshell; never one of a       *)
(* trap's action.                                                          *)
LastCommand == pc = "cmd" /\ frames = << >> /\ (DashC \/ shlvl > 0)

(* evalsubshell() of a last command, with no traps set: no fork. *)
NoFork ==
    /\ LastCommand /\ trapcnt = 0 /\ ~intpending
    /\ trap' = ForkTraps /\ trapcnt' = 0
    /\ LET S == {s \in Sigs : trap[s] = "act"} IN
          /\ sigmode' = NewMode(S, trap', sigmode, disp, shlvl, iflag, mflag)
          /\ disp' = NewDisp(S, trap', sigmode, disp, shlvl, iflag, mflag)
    /\ pc' = "top" /\ suppressint' = FALSE
    /\ UNCHANGED <<entry, optVars, gotVars, intpending, evalskip, statVars, frames>>

(* The three ways to exec, by the setting of s they hand to the command.   *)
(* A handler does not outlive the exec: "onsig" is the default there.      *)

(* vforkexec(): the child sets some signals before it calls shellexec().   *)
(* Mutant: it leaves them as they are.                                     *)
ExecutedAsIs(s) == disp[s]
Executed(s) ==
    LET S == (IF mflag THEN {SIGTSTP, SIGTTOU} ELSE {}) \cup (IF iflag THEN {SIGINT, SIGQUIT, SIGTERM} ELSE {})
    IN NewDisp(IF shlvl = 0 THEN S ELSE {}, trap, sigmode, disp, 1, iflag, mflag)[s]

(* evalcommand() of a last command, with no traps set: the shell itself    *)
(* calls shellexec() and sets nothing.                                     *)
ExecutesItself == LastCommand /\ trapcnt = 0
ExecutedItself(s) == disp[s]

(* exec: it turns -i and -m off, and their signals are set again. *)
ExecSets ==
    (IF iflag THEN {SIGINT, SIGQUIT, SIGTERM} ELSE {})
        \cup (IF mflag /\ shlvl = 0 THEN JobSigs ELSE {})
ExecutedByExec(s) == NewDisp(ExecSets, trap, sigmode, disp, shlvl, FALSE, FALSE)[s]

(* shellexec() of the shell itself: it becomes the command, or the         *)
(* exception EXEND ends it.                                                *)
Shellexec == Killed \/ Exception(FALSE, 1)

ExecLast ==
    /\ ExecutesItself /\ Shellexec
    /\ UNCHANGED <<trapcnt, sigVars, optVars, gotVars>>

ExecCmd ==
    /\ pc = "cmd"
    /\ iflag' = FALSE /\ mflag' = FALSE
    /\ sigmode' = NewMode(ExecSets, trap, sigmode, disp, shlvl, FALSE, FALSE)
    /\ disp' = [s \in Sigs |-> ExecutedByExec(s)]
    /\ Shellexec
    /\ UNCHANGED <<trapcnt, entry, shlvl, subst, gotVars>>

-----------------------------------------------------------------------------
Commands ==
    \/ \E st \in {0, 1} : Command(st)
    \/ IntOff
    \/ \E s \in Sigs \cup {0}, a \in {"null", "empty", "act"} : TrapCmd(s, a)
    \/ SetMonitor
    \/ \E kind \in {"loop", "func", "funcdef"}, st \in {0, 1} : Skip(kind, st)
    \/ Error \/ ExitCmd \/ EndOfInput
    \/ \E mode \in {"fg", "bg", "nojob"} : Fork(mode)
    \/ NoFork \/ ExecLast \/ ExecCmd

Next ==
    \/ Begin \/ End \/ ScanEnds \/ Postpone \/ RunTrap \/ ActionEnds \/ SkipEnds
    \/ Commands
    \/ \E s \in Sigs : Signal(s) \/ DefaultSignal(s)

Spec == Init /\ [][Next]_vars
-----------------------------------------------------------------------------
(* Properties *)

Statuses == {0, 1}
Frame == [sig : Sigs \cup {0}, last : Statuses \cup {-1}, ret : {"top", "cmd", "done"},
          at : Statuses, exit : BOOLEAN]

TypeOK ==
    /\ trap \in [Sigs \cup {0} -> {"null", "empty", "act"}]
    /\ trapcnt \in 0..(Cardinality(Sigs) + 2)
    /\ sigmode \in [Sigs -> {"unknown", "DFL", "CATCH", "IGN", "HARD_IGN"}]
    /\ disp \in [Sigs -> {"dfl", "ign", "onsig"}] /\ entry \subseteq Sigs
    /\ iflag \in BOOLEAN /\ mflag \in BOOLEAN /\ shlvl \in 0..MaxFork /\ subst \in BOOLEAN
    /\ gotsig \subseteq Sigs /\ pending_sig \in Sigs \cup {0}
    /\ suppressint \in BOOLEAN /\ intpending \in BOOLEAN
    /\ evalskip \in {"none", "loop", "func", "funcdef"}
    /\ exitstatus \in Statuses /\ savestatus \in Statuses \cup {-1}
    /\ frames \in Seq(Frame) /\ Len(frames) <= MaxNest
    /\ pc \in {"top", "cmd", "end", "scan", "done"}

(* dash.1: an action is executed "when any of the specified signals are    *)
(* received".  A signal that was caught is pending, or a dotrap() under    *)
(* way has yet to come to it, however traps nest, are changed or left with *)
(* break and return.                                                       *)
NoTrapLost ==
    pc # "done" /\ ~Exiting /\ shlvl = 0 =>
        \A s \in gotsig : pending_sig # 0 \/ \E k \in DOMAIN frames : s > frames[k].sig

(* trapcnt is what have_traps() answers, on which evalsubshell() decides   *)
(* whether it may do without a fork: it is the number of actions set.      *)
TrapCount ==
    pc # "done" /\ ~Exiting => trapcnt = Cardinality({s \in DOMAIN trap : trap[s] = "act"})

(* What trap has set is in force, but for signals ignored on entry, on     *)
(* which it "has no effect" (dash.1); job control's signals are exempt.    *)
InForce ==
    \A s \in Sigs \ {SIGCHLD} :
        /\ s \notin entry => (trap[s] = "act" <=> disp[s] = "onsig" /\ sigmode[s] = "CATCH")
                             \/ (trap[s] = "null" /\ s = SIGINT)
        /\ trap[s] = "empty" => disp[s] = "ign"
        /\ s \in entry \ JobSigs => disp[s] = "ign"

(* dash.1: a subshell "resets trapped (but not ignored) signals to the     *)
(* default action".                                                        *)
SubshellResets ==
    [][shlvl' # shlvl =>
        \A s \in Sigs \ {SIGCHLD} :
            /\ trap[s] = "act" => trap'[s] = "null" /\ disp'[s] # "onsig"
            /\ trap[s] = "empty" => disp'[s] = "ign"]_vars

(* A command ignores a signal only because trap says so or because the     *)
(* shell was started that way, whichever way it comes to exec; or, within  *)
(* a command substitution of a shell with job control, whose child keeps   *)
(* its parent's settings, SIGTSTP and SIGTTOU.  Only a command that the    *)
(* first shell executes itself, the last one of sh -c, also ignores what   *)
(* the shell ignores for its own sake while -i and -m are on.              *)
Told(s) == s \in entry \/ trap[s] = "empty" \/ (s \in {SIGTSTP, SIGTTOU} /\ subst)
OwnIgnored(s) ==
    /\ shlvl = 0
    /\ (iflag /\ s \in {SIGQUIT, SIGTERM}) \/ (mflag /\ s \in {SIGTSTP, SIGTTOU})

CommandsUnharmed ==
    \A s \in Sigs :
        /\ Executed(s) = "ign" => Told(s)
        /\ ExecutedByExec(s) = "ign" => Told(s)
        /\ ExecutesItself /\ ExecutedItself(s) = "ign" => Told(s) \/ OwnIgnored(s)

(* A trap leaves $? alone: between the actions the outermost dotrap() runs *)
(* it is what it was at the start, unless an action has returned from a    *)
(* function with a status.                                                 *)
StatusKept ==
    pc = "scan" /\ Len(frames) = 1 /\ shlvl = 0 =>
        exitstatus = frames[1].at \/ evalskip = "func"
=============================================================================
