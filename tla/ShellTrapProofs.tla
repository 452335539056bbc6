-------------------------- MODULE ShellTrapProofs --------------------------
(***************************************************************************)
(* Proofs about ShellTrap, for every set of signals, every set of signals  *)
(* ignored on entry, any depth of nested traps and subshells.              *)
(***************************************************************************)
EXTENDS ShellTrap, FiniteSetTheorems, WellFoundedInduction, TLAPS

(* The types of all variables but those of the calls of dotrap(). *)
Scalars ==
    /\ trap \in [Sigs \cup {0} -> {"null", "empty", "act"}]
    /\ sigmode \in [Sigs -> {"unknown", "DFL", "CATCH", "IGN", "HARD_IGN"}]
    /\ disp \in [Sigs -> {"dfl", "ign", "onsig"}] /\ entry \subseteq Sigs
    /\ iflag \in BOOLEAN /\ mflag \in BOOLEAN /\ shlvl \in 0..MaxFork /\ subst \in BOOLEAN
    /\ gotsig \subseteq Sigs /\ pending_sig \in Sigs \cup {0}
    /\ suppressint \in BOOLEAN /\ intpending \in BOOLEAN
    /\ evalskip \in {"none", "loop", "func", "funcdef"}
    /\ pc \in {"top", "cmd", "end", "scan", "done"}

(* The calls of dotrap() and what they save. *)
Stack ==
    /\ exitstatus \in Statuses /\ savestatus \in Statuses \cup {-1}
    /\ frames \in Seq(Frame) /\ Len(frames) <= MaxNest
    /\ pc = "scan" => frames # << >> /\ ~frames[1].exit
    /\ frames # << >> => savestatus >= 0
    /\ \A k \in DOMAIN frames : k < Len(frames) => frames[k].last >= 0

(* The actions set, and the count of them.  exitshell() takes the action   *)
(* of 0 away and does not count it down.                                   *)
ActsOf(t) == {s \in Sigs \cup {0} : t[s] = "act"}
Counted == pc # "done" => trapcnt = Cardinality(ActsOf(trap)) + (IF Exiting THEN 1 ELSE 0)

-----------------------------------------------------------------------------
(* setsignal() wants one of three settings. *)
LEMMA WantedType ==
    ASSUME NEW s \in Sigs, NEW t \in [Sigs \cup {0} -> {"null", "empty", "act"}],
           NEW lvl, NEW i, NEW mon
    PROVE  Wanted(s, t, lvl, i, mon) \in {"CATCH", "IGN", "DFL"}
<1>1. t[s] \in {"null", "empty", "act"}
  OBVIOUS
<1>2. CASE s = SIGCHLD
  BY <1>2 DEF Wanted
<1>3. CASE s # SIGCHLD /\ t[s] = "null"
  <2> DEFINE W == CASE lvl = 0 /\ s = SIGINT /\ (i \/ Script) -> "CATCH"
              [] lvl = 0 /\ s \in {SIGQUIT, SIGTERM} /\ i -> "IGN"
              [] lvl = 0 /\ s \in {SIGTSTP, SIGTTOU} /\ mon -> "IGN"
              [] OTHER -> "DFL"
  <2>1. W \in {"CATCH", "IGN", "DFL"}
    BY DEF SIGINT, SIGQUIT, SIGTERM, SIGTSTP, SIGTTOU
  <2>2. Wanted(s, t, lvl, i, mon) = W
    BY <1>3 DEF Wanted
  <2> QED BY <2>1, <2>2
<1>4. CASE s # SIGCHLD /\ t[s] \in {"empty", "act"}
  BY <1>4 DEF Wanted
<1> QED BY <1>1, <1>2, <1>3, <1>4

(* setsignal() of several signals gives modes and dispositions. *)
LEMMA SetsignalType ==
    ASSUME NEW S, NEW t \in [Sigs \cup {0} -> {"null", "empty", "act"}],
           NEW m \in [Sigs -> {"unknown", "DFL", "CATCH", "IGN", "HARD_IGN"}],
           NEW d \in [Sigs -> {"dfl", "ign", "onsig"}], NEW lvl, NEW i, NEW mon
    PROVE  /\ NewMode(S, t, m, d, lvl, i, mon) \in [Sigs -> {"unknown", "DFL", "CATCH", "IGN", "HARD_IGN"}]
           /\ NewDisp(S, t, m, d, lvl, i, mon) \in [Sigs -> {"dfl", "ign", "onsig"}]
<1>1. \A s \in Sigs : Wanted(s, t, lvl, i, mon) \in {"CATCH", "IGN", "DFL"}
  BY WantedType
<1>2. \A w \in {"CATCH", "IGN", "DFL"} : Handler(w) \in {"dfl", "ign", "onsig"}
  BY DEF Handler
<1> QED BY <1>1, <1>2 DEF NewMode, NewDisp

(* A set of natural numbers has a smallest one, so the loop over gotsig    *)
(* comes to the lowest signal first.                                       *)
LEMMA LowestIn ==
    ASSUME NEW S \in SUBSET Nat, S # {}
    PROVE  Lowest(S) \in S /\ \A r \in S : Lowest(S) <= r
<1> DEFINE R == OpToRel(<, Nat)
<1>1. IsWellFoundedOn(R, Nat)
  BY NatLessThanWellFounded
<1>2. PICK x \in S : \A y \in S : ~(<<y, x>> \in R)
  <2> HIDE DEF R
  <2> QED BY <1>1, WFMin
<1>3. \A y \in S : x <= y
  <2> SUFFICES ASSUME NEW y \in S PROVE x <= y
    OBVIOUS
  <2>1. ~(y < x)
    BY <1>2 DEF OpToRel
  <2> QED BY <2>1
<1> QED BY <1>3 DEF Lowest

(* Calling dotrap() puts a frame in front of the others. *)
LEMMA Pushed ==
    ASSUME NEW f \in Frame, NEW q \in Seq(Frame)
    PROVE  LET p == <<f>> \o q IN
           /\ p \in Seq(Frame) /\ Len(p) = Len(q) + 1 /\ p[1] = f /\ p # << >>
           /\ \A k \in DOMAIN q : p[k + 1] = q[k]
           /\ \A k \in DOMAIN p : k # 1 => k - 1 \in DOMAIN q /\ p[k] = q[k - 1]
OBVIOUS

(* Returning from it takes the first one away. *)
LEMMA Popped ==
    ASSUME NEW q \in Seq(Frame), q # << >>
    PROVE  /\ Tail(q) \in Seq(Frame) /\ Len(Tail(q)) = Len(q) - 1
           /\ q[1] \in Frame /\ 1 \in DOMAIN q
           /\ \A k \in DOMAIN Tail(q) : k + 1 \in DOMAIN q /\ Tail(q)[k] = q[k + 1]
           /\ \A k \in DOMAIN q : k # 1 => k - 1 \in DOMAIN Tail(q) /\ Tail(q)[k - 1] = q[k]
OBVIOUS

-----------------------------------------------------------------------------
(* How an exception, an exit or a fatal signal may leave the calls under   *)
(* way: at the prompt, in the action of 0, or with the process ended.      *)
Resumed ==
    /\ iflag /\ shlvl = 0 /\ ~Exiting
    /\ frames' = << >> /\ savestatus' = -1 /\ pc' = "top" /\ trap' = trap
    /\ suppressint' = FALSE /\ intpending' = FALSE
ExitTrap(st) ==
    /\ trap[0] = "act" /\ ~Exiting
    /\ frames' = <<[sig |-> 0, last |-> -1, ret |-> "done", at |-> st, exit |-> TRUE]>>
    /\ savestatus' = st /\ pc' = "top" /\ trap' = [trap EXCEPT ![0] = "null"]
Ended == frames' = << >> /\ savestatus' = -1 /\ pc' = "done" /\ trap' = trap

(* exitshell() runs the action of 0 or ends the process. *)
LEMMA LeaveCases ==
    ASSUME NEW st, Leave(st)
    PROVE  exitstatus' = st /\ (ExitTrap(st) \/ Ended)
BY DEF Leave, ExitTrap, Ended

(* An exception ends at the prompt or in exitshell(). *)
LEMMA ExceptionCases ==
    ASSUME NEW st, NEW goon, Exception(goon, st)
    PROVE  /\ exitstatus' = st /\ evalskip' = "none"
           /\ intpending' = FALSE /\ suppressint' \in BOOLEAN
           /\ (goon /\ Resumed) \/ ExitTrap(st) \/ Ended
<1>1. CASE goon /\ iflag /\ shlvl = 0 /\ ~Exiting
  BY <1>1 DEF Exception, Resumed
<1>2. CASE ~(goon /\ iflag /\ shlvl = 0 /\ ~Exiting)
  <2>1. Leave(st) /\ evalskip' = "none" /\ intpending' = FALSE /\ suppressint' = TRUE
    BY <1>2 DEF Exception
  <2> QED BY <2>1, LeaveCases
<1> QED BY <1>1, <1>2

(* An interrupt ends at the prompt or kills the process. *)
LEMMA InterruptCases ==
    ASSUME Interrupt
    PROVE  \/ /\ exitstatus' = 1 /\ evalskip' = "none"
              /\ intpending' = FALSE /\ suppressint' \in BOOLEAN
              /\ Resumed \/ ExitTrap(1) \/ Ended
           \/ Killed
<1>1. CASE iflag /\ shlvl = 0
  <2>1. Exception(TRUE, 1)
    BY <1>1 DEF Interrupt
  <2> QED BY <2>1, ExceptionCases
<1>2. CASE ~(iflag /\ shlvl = 0)
  BY <1>2 DEF Interrupt
<1> QED BY <1>1, <1>2

(* shellexec() ends the shell as it is, or through exitshell(). *)
LEMMA ExecCases ==
    ASSUME Shellexec
    PROVE  \/ Killed
           \/ /\ exitstatus' = 1 /\ evalskip' = "none"
              /\ intpending' = FALSE /\ suppressint' \in BOOLEAN
              /\ ExitTrap(1) \/ Ended
BY ExceptionCases DEF Shellexec

-----------------------------------------------------------------------------
(* Init gives every variable a value of its type. *)
LEMMA ScalarsInit == Init => Scalars
<1> SUFFICES ASSUME Init PROVE Scalars
  OBVIOUS
<1> USE TrapAssumption
<1> DEFINE m0 == [s \in Sigs |-> IF s = SIGCHLD THEN "DFL" ELSE "unknown"]
           d0 == [s \in Sigs |-> IF s \in entry THEN "ign" ELSE "dfl"]
           S  == {SIGCHLD, SIGINT, SIGQUIT, SIGTERM} \cup (IF mflag THEN JobSigs ELSE {})
<1>1. trap \in [Sigs \cup {0} -> {"null", "empty", "act"}]
  BY DEF Init
<1>2. /\ m0 \in [Sigs -> {"unknown", "DFL", "CATCH", "IGN", "HARD_IGN"}]
      /\ d0 \in [Sigs -> {"dfl", "ign", "onsig"}]
  OBVIOUS
<1>3. /\ sigmode = NewMode(S, trap, m0, d0, 0, iflag, mflag)
      /\ disp = NewDisp(S, trap, m0, d0, 0, iflag, mflag)
  BY DEF Init
<1> HIDE DEF m0, d0, S
<1>4. /\ sigmode \in [Sigs -> {"unknown", "DFL", "CATCH", "IGN", "HARD_IGN"}]
      /\ disp \in [Sigs -> {"dfl", "ign", "onsig"}]
  BY <1>1, <1>2, <1>3, SetsignalType
<1>5. iflag \in BOOLEAN /\ mflag \in BOOLEAN /\ entry \subseteq Sigs
  BY DEF Init
<1>6. subst \in BOOLEAN /\ suppressint \in BOOLEAN /\ intpending \in BOOLEAN /\ evalskip = "none" /\ pc = "top"
  BY DEF Init
<1>7. shlvl \in 0..MaxFork /\ gotsig \subseteq Sigs /\ pending_sig \in Sigs \cup {0}
  BY DEF Init
<1> QED BY <1>1, <1>4, <1>5, <1>6, <1>7, Zenon DEF Scalars

(* However it ends, an exit or exception leaves trap of its type. *)
LEMMA UnwindType ==
    ASSUME Scalars, NEW st, Resumed \/ ExitTrap(st) \/ Ended
    PROVE  /\ trap' \in [Sigs \cup {0} -> {"null", "empty", "act"}]
           /\ pc' \in {"top", "done"}
BY DEF Scalars, Resumed, ExitTrap, Ended

(* Interrupted or killed, every variable keeps its type. *)
LEMMA InterruptType ==
    ASSUME Scalars, Interrupt
    PROVE  /\ trap' \in [Sigs \cup {0} -> {"null", "empty", "act"}]
           /\ pc' \in {"top", "done"}
           /\ suppressint' \in BOOLEAN /\ intpending' \in BOOLEAN
           /\ evalskip' \in {"none", "loop", "func", "funcdef"}
<1>1. CASE Killed
  BY <1>1 DEF Killed, Scalars, intVars
<1>2. CASE ~Killed
  BY <1>2, InterruptCases, UnwindType
<1> QED BY <1>1, <1>2

(* So does each when the shell executes a command itself. *)
LEMMA ExecType ==
    ASSUME Scalars, Shellexec
    PROVE  /\ trap' \in [Sigs \cup {0} -> {"null", "empty", "act"}]
           /\ pc' \in {"top", "done"}
           /\ suppressint' \in BOOLEAN /\ intpending' \in BOOLEAN
           /\ evalskip' \in {"none", "loop", "func", "funcdef"}
<1>1. CASE Killed
  BY <1>1 DEF Killed, Scalars, intVars
<1>2. CASE ~Killed
  BY <1>2, ExecCases, UnwindType
<1> QED BY <1>1, <1>2

(* Each step keeps the types of these variables. *)
LEMMA ScalarsStep ==
    ASSUME Scalars, Stack, [Next]_vars
    PROVE  Scalars'
<1> USE TrapAssumption
<1>1. ASSUME Begin \/ End PROVE Scalars'
  BY <1>1 DEF Begin, End, Eval, EnterTrap, Scalars, sigVars, optVars, intVars
<1>2. ASSUME ScanEnds PROVE Scalars'
  BY <1>2, Popped DEF ScanEnds, Return, Scalars, Stack, Frame, sigVars, optVars, intVars
<1>3. ASSUME Postpone PROVE Scalars'
  <2>1. Later \in SUBSET Nat /\ Later # {} /\ Later \subseteq Sigs
    BY <1>3 DEF Postpone, Later, Scalars
  <2>2. Lowest(Later) \in Sigs
    BY <2>1, LowestIn
  <2> QED BY <1>3, <2>2, Popped DEF Postpone, Return, Scalars, Stack, Frame, sigVars, optVars, intVars
<1>4. ASSUME RunTrap PROVE Scalars'
  BY <1>4 DEF RunTrap, Scalars, sigVars, optVars, intVars
<1>5. ASSUME ActionEnds PROVE Scalars'
  BY <1>5 DEF ActionEnds, Scalars, sigVars, optVars, gotVars, intVars
<1>6. ASSUME SkipEnds PROVE Scalars'
  BY <1>6 DEF SkipEnds, Scalars, sigVars, optVars, gotVars, intVars
<1>7. ASSUME NEW st \in {0, 1}, Command(st) PROVE Scalars'
  <2>1. CASE intpending
    BY <1>7, <2>1, InterruptType DEF Command, Done, Scalars, sigVars, optVars, gotVars
  <2>2. CASE ~intpending
    BY <1>7, <2>2 DEF Command, Done, Scalars, sigVars, optVars, gotVars
  <2> QED BY <2>1, <2>2
<1>8. ASSUME IntOff PROVE Scalars'
  BY <1>8 DEF IntOff, Scalars, sigVars, optVars, gotVars
<1>9. ASSUME NEW s \in Sigs \cup {0}, NEW a \in {"null", "empty", "act"}, TrapCmd(s, a) PROVE Scalars'
  <2>1. trap' \in [Sigs \cup {0} -> {"null", "empty", "act"}]
    BY <1>9 DEF TrapCmd, Scalars
  <2>2. /\ sigmode' \in [Sigs -> {"unknown", "DFL", "CATCH", "IGN", "HARD_IGN"}]
        /\ disp' \in [Sigs -> {"dfl", "ign", "onsig"}]
    BY <1>9, <2>1, SetsignalType DEF TrapCmd, Scalars
  <2> QED BY <1>9, <2>1, <2>2 DEF TrapCmd, Done, Scalars, optVars, gotVars
<1>10. ASSUME SetMonitor PROVE Scalars'
  <2>1. /\ sigmode' \in [Sigs -> {"unknown", "DFL", "CATCH", "IGN", "HARD_IGN"}]
        /\ disp' \in [Sigs -> {"dfl", "ign", "onsig"}]
    BY <1>10, SetsignalType DEF SetMonitor, Scalars
  <2> QED BY <1>10, <2>1 DEF SetMonitor, Done, Scalars, gotVars
<1>11. ASSUME NEW kind \in {"loop", "func", "funcdef"}, NEW st \in {0, 1}, Skip(kind, st) PROVE Scalars'
  BY <1>11 DEF Skip, Done, Scalars, sigVars, optVars, gotVars
<1>12. ASSUME Error PROVE Scalars'
  <2>1. Exception(TRUE, 1)
    BY <1>12 DEF Error
  <2> QED BY <1>12, <2>1, ExceptionCases, UnwindType DEF Error, Scalars, sigVars, optVars, gotVars
<1>13. ASSUME ExitCmd PROVE Scalars'
  <2>1. PICK st : Exception(FALSE, st)
    BY <1>13 DEF ExitCmd
  <2> QED BY <1>13, <2>1, ExceptionCases, UnwindType DEF ExitCmd, Scalars, sigVars, optVars, gotVars
<1>14. ASSUME EndOfInput PROVE Scalars'
  BY <1>14, LeaveCases, UnwindType DEF EndOfInput, Scalars, sigVars, optVars, gotVars, intVars
<1>15. ASSUME NEW mode, Fork(mode) PROVE Scalars'
  <2> DEFINE bg == IF Background(mode) THEN {SIGINT, SIGQUIT} \cap Sigs ELSE {}
             m == NewMode(ForkSets(mode), trap', sigmode, disp, shlvl', iflag, mflag)
             d == NewDisp(ForkSets(mode), trap', sigmode, disp, shlvl', iflag, mflag)
  <2>1. trap' \in [Sigs \cup {0} -> {"null", "empty", "act"}]
    BY <1>15 DEF Fork, ForkTraps, Scalars
  <2>2. /\ m \in [Sigs -> {"unknown", "DFL", "CATCH", "IGN", "HARD_IGN"}]
        /\ d \in [Sigs -> {"dfl", "ign", "onsig"}]
    BY <2>1, SetsignalType DEF Scalars
  <2>3. /\ sigmode' = [s \in Sigs |-> IF s \in bg THEN "HARD_IGN" ELSE m[s]]
        /\ disp' = [s \in Sigs |-> IF s \in bg THEN "ign" ELSE d[s]]
        /\ entry' = entry \cup bg
    BY <1>15 DEF Fork
  <2>4. bg \subseteq Sigs
    OBVIOUS
  <2> HIDE DEF bg, m, d
  <2>5. /\ sigmode' \in [Sigs -> {"unknown", "DFL", "CATCH", "IGN", "HARD_IGN"}]
        /\ disp' \in [Sigs -> {"dfl", "ign", "onsig"}] /\ entry' \subseteq Sigs
    BY <2>2, <2>3, <2>4 DEF Scalars
  <2>6. /\ shlvl' = shlvl + 1 /\ shlvl < MaxFork /\ pc' = "top" /\ suppressint' \in BOOLEAN
        /\ UNCHANGED <<iflag, mflag, gotsig, pending_sig, intpending, evalskip>>
    BY <1>15 DEF Fork, gotVars
  <2>8. subst' \in BOOLEAN
    BY <1>15 DEF Fork, Scalars
  <2>7. shlvl' \in 0..MaxFork
    BY <2>6 DEF Scalars
  <2> QED BY <2>1, <2>5, <2>6, <2>7, <2>8, Zenon DEF Scalars
<1>16. ASSUME NEW s \in Sigs, Signal(s) PROVE Scalars'
  <2>1. CASE Interrupt
    BY <1>16, <2>1, InterruptType DEF Signal, Scalars, sigVars, optVars
  <2>2. CASE ~Interrupt
    BY <1>16, <2>2 DEF Signal, Scalars, sigVars, optVars
  <2> QED BY <2>1, <2>2
<1>17. ASSUME NEW s \in Sigs, DefaultSignal(s) PROVE Scalars'
  BY <1>17 DEF DefaultSignal, Killed, Scalars, sigVars, optVars, gotVars, intVars
<1>18. CASE UNCHANGED vars
  BY <1>18 DEF vars, Scalars, sigVars, optVars, gotVars, intVars
<1>19. ASSUME NoFork PROVE Scalars'
  <2>1. trap' \in [Sigs \cup {0} -> {"null", "empty", "act"}]
    BY <1>19 DEF NoFork, ForkTraps, Scalars
  <2>2. /\ sigmode' \in [Sigs -> {"unknown", "DFL", "CATCH", "IGN", "HARD_IGN"}]
        /\ disp' \in [Sigs -> {"dfl", "ign", "onsig"}]
    BY <1>19, <2>1, SetsignalType DEF NoFork, Scalars
  <2> QED BY <1>19, <2>1, <2>2 DEF NoFork, Scalars, optVars, gotVars
<1>20. ASSUME ExecLast PROVE Scalars'
  BY <1>20, ExecType DEF ExecLast, Scalars, sigVars, optVars, gotVars
<1>21. ASSUME ExecCmd PROVE Scalars'
  <2> DEFINE n == NewMode(ExecSets, trap, sigmode, disp, shlvl, FALSE, FALSE)
             e == NewDisp(ExecSets, trap, sigmode, disp, shlvl, FALSE, FALSE)
  <2>1. sigmode' = n /\ disp' = e
    BY <1>21 DEF ExecCmd, ExecutedByExec, NewDisp
  <2>5. /\ n \in [Sigs -> {"unknown", "DFL", "CATCH", "IGN", "HARD_IGN"}]
        /\ e \in [Sigs -> {"dfl", "ign", "onsig"}]
    BY SetsignalType DEF Scalars
  <2> HIDE DEF n, e
  <2>2. /\ sigmode' \in [Sigs -> {"unknown", "DFL", "CATCH", "IGN", "HARD_IGN"}]
        /\ disp' \in [Sigs -> {"dfl", "ign", "onsig"}]
    BY <2>1, <2>5
  <2>3. /\ trap' \in [Sigs \cup {0} -> {"null", "empty", "act"}]
        /\ pc' \in {"top", "done"}
        /\ suppressint' \in BOOLEAN /\ intpending' \in BOOLEAN
        /\ evalskip' \in {"none", "loop", "func", "funcdef"}
    BY <1>21, ExecType DEF ExecCmd
  <2>4. /\ iflag' = FALSE /\ mflag' = FALSE
        /\ UNCHANGED <<entry, shlvl, subst, gotsig, pending_sig>>
    BY <1>21 DEF ExecCmd, gotVars
  <2> QED BY <2>2, <2>3, <2>4 DEF Scalars
<1> QED BY <1>1, <1>2, <1>3, <1>4, <1>5, <1>6, <1>7, <1>8, <1>9, <1>10, <1>11, <1>12, <1>13,
           <1>14, <1>15, <1>16, <1>17, <1>18, <1>19,
           <1>20, <1>21 DEF Next, Commands

-----------------------------------------------------------------------------
(* Frames that no step has touched stay sound. *)
LEMMA StackSame ==
    ASSUME Stack, exitstatus' \in Statuses, savestatus' = savestatus, frames' = frames,
           pc' = "scan" => pc = "scan"
    PROVE  Stack'
BY DEF Stack

(* An exit or exception leaves no frame, or that of the action of 0. *)
LEMMA StackUnwound ==
    ASSUME NEW st \in Statuses, exitstatus' = st, Resumed \/ ExitTrap(st) \/ Ended
    PROVE  Stack'
<1> USE TrapAssumption
<1>1. CASE Resumed \/ Ended
  <2>1. frames' = << >> /\ savestatus' = -1 /\ pc' # "scan"
    BY <1>1 DEF Resumed, Ended
  <2> QED BY <2>1 DEF Stack
<1>2. CASE ExitTrap(st)
  <2> DEFINE f == [sig |-> 0, last |-> -1, ret |-> "done", at |-> st, exit |-> TRUE]
  <2>1. f \in Frame
    BY DEF Frame, Statuses
  <2>2. frames' = <<f>> /\ savestatus' = st /\ pc' # "scan"
    BY <1>2 DEF ExitTrap
  <2> HIDE DEF f
  <2>3. frames' \in Seq(Frame) /\ Len(frames') = 1 /\ DOMAIN frames' = {1}
    BY <2>1, <2>2
  <2> QED BY <2>2, <2>3 DEF Stack, Statuses
<1> QED BY <1>1, <1>2

(* So does an interrupt. *)
LEMMA StackInterrupt ==
    ASSUME Stack, Interrupt
    PROVE  Stack'
<1>1. CASE Killed
  BY <1>1, StackSame DEF Killed, Stack, statVars
<1>2. CASE ~Killed
  <2>1. 1 \in Statuses
    BY DEF Statuses
  <2> QED BY <1>2, <2>1, InterruptCases, StackUnwound
<1> QED BY <1>1, <1>2

(* dotrap() is called, or not. *)
LEMMA StackEval ==
    ASSUME Stack, shlvl \in Nat, NEW from, NEW to \in {"cmd", "top"}, Eval(from, to)
    PROVE  Stack'
<1> USE TrapAssumption
<1>1. exitstatus' = exitstatus /\ exitstatus \in Statuses
  BY DEF Eval, Stack
<1>2. CASE EnterTrap(to)
  <2> DEFINE f == [sig |-> 0, last |-> savestatus, ret |-> to, exit |-> FALSE,
                   at |-> IF frames = << >> THEN exitstatus ELSE 0]
  <2>1. f \in Frame
    BY DEF Stack, Frame, Statuses
  <2>2. f.exit = FALSE /\ f.last = savestatus
    OBVIOUS
  <2>3. frames' = <<f>> \o frames /\ pc' = "scan" /\ Len(frames) < MaxNest
        /\ savestatus' = IF savestatus < 0 THEN exitstatus ELSE savestatus
    <3>1. Len(frames) \in Nat /\ Len(frames) + shlvl < MaxNest
      BY <1>2 DEF EnterTrap, Stack
    <3>2. Len(frames) < MaxNest
      BY <3>1
    <3> QED BY <1>2, <3>2 DEF EnterTrap
  <2> HIDE DEF f
  <2>4. /\ frames' \in Seq(Frame) /\ Len(frames') = Len(frames) + 1 /\ frames'[1] = f
        /\ frames' # << >>
        /\ \A k \in DOMAIN frames' : k # 1 => k - 1 \in DOMAIN frames /\ frames'[k] = frames[k - 1]
    BY <2>1, <2>3, Pushed DEF Stack
  <2>5. savestatus' \in Statuses /\ savestatus' >= 0
    BY <1>1, <2>3 DEF Stack, Statuses
  <2>6. ASSUME NEW k \in DOMAIN frames', k < Len(frames') PROVE frames'[k].last >= 0
    <3>0. frames \in Seq(Frame) /\ Len(frames) \in Nat /\ DOMAIN frames = 1..Len(frames)
          /\ DOMAIN frames' = 1..Len(frames')
      BY <2>4 DEF Stack
    <3>1. CASE k = 1
      <4>1. frames # << >>
        BY <3>0, <3>1, <2>4, <2>6
      <4> QED BY <3>1, <4>1, <2>2, <2>4 DEF Stack
    <3>2. CASE k # 1
      <4>1. k - 1 \in DOMAIN frames /\ k - 1 < Len(frames) /\ frames'[k] = frames[k - 1]
        BY <3>0, <3>2, <2>4, <2>6
      <4> QED BY <4>1 DEF Stack
    <3> QED BY <3>1, <3>2
  <2>7. Len(frames') <= MaxNest
    BY <2>3, <2>4 DEF Stack
  <2> QED BY <1>1, <2>2, <2>4, <2>5, <2>6, <2>7 DEF Stack
<1>3. CASE ~EnterTrap(to)
  <2>1. savestatus' = savestatus /\ frames' = frames /\ pc' = to
    BY <1>3 DEF Eval
  <2> QED BY <1>1, <2>1, StackSame
<1> QED BY <1>2, <1>3

(* dotrap() returns. *)
LEMMA StackReturn ==
    ASSUME Stack, pc = "scan", Return
    PROVE  Stack'
<1>1. frames # << >> /\ frames \in Seq(Frame) /\ Len(frames) \in Nat /\ DOMAIN frames = 1..Len(frames)
  BY DEF Stack
<1>2. /\ frames' = Tail(frames) /\ savestatus' = frames[1].last /\ pc' = frames[1].ret
      /\ exitstatus' = exitstatus
  BY DEF Return
<1>3. /\ frames' \in Seq(Frame) /\ Len(frames') = Len(frames) - 1
      /\ frames[1] \in Frame /\ 1 \in DOMAIN frames
      /\ \A k \in DOMAIN frames' : k + 1 \in DOMAIN frames /\ frames'[k] = frames[k + 1]
  BY <1>1, <1>2, Popped
<1>4. frames[1].last \in Statuses \cup {-1} /\ frames[1].ret \in {"top", "cmd", "done"}
  BY <1>3 DEF Frame
<1>5. frames' # << >> => savestatus' >= 0
  <2> SUFFICES ASSUME frames' # << >> PROVE frames[1].last >= 0
    BY <1>2
  <2>1. 1 < Len(frames)
    BY <1>1, <1>3
  <2> QED BY <1>3, <2>1 DEF Stack
<1>6. ASSUME NEW k \in DOMAIN frames', k < Len(frames') PROVE frames'[k].last >= 0
  <2>1. k + 1 \in DOMAIN frames /\ k + 1 < Len(frames) /\ frames'[k] = frames[k + 1]
    BY <1>1, <1>3, <1>6
  <2> QED BY <2>1 DEF Stack
<1>7. Len(frames') <= MaxNest /\ exitstatus \in Statuses
  BY <1>1, <1>3, TrapAssumption DEF Stack
<1>8. pc' # "scan"
  BY <1>2, <1>4
<1> QED BY <1>2, <1>3, <1>4, <1>5, <1>6, <1>7, <1>8 DEF Stack

(* The loop over gotsig goes on to signal s. *)
LEMMA StackRun ==
    ASSUME Stack, pc = "scan", NEW s \in Sigs \cup {0},
           frames' = [frames EXCEPT ![1].sig = s], savestatus' = savestatus,
           exitstatus' \in {exitstatus, savestatus}
    PROVE  /\ Stack'
           /\ Len(frames') = Len(frames) /\ DOMAIN frames' = DOMAIN frames /\ 1 \in DOMAIN frames
           /\ frames'[1].sig = s
           /\ \A k \in DOMAIN frames : /\ frames'[k].exit = frames[k].exit
                                       /\ frames'[k].last = frames[k].last
                                       /\ frames'[k].at = frames[k].at
                                       /\ k # 1 => frames'[k] = frames[k]
<1>1. frames # << >> /\ frames \in Seq(Frame) /\ Len(frames) \in Nat /\ DOMAIN frames = 1..Len(frames)
  BY DEF Stack
<1>2. 1 \in DOMAIN frames /\ frames[1] \in Frame
  BY <1>1
<1> DEFINE g == [frames[1] EXCEPT !.sig = s]
<1>3. g \in Frame /\ g.sig = s /\ g.exit = frames[1].exit /\ g.last = frames[1].last
      /\ g.at = frames[1].at
  BY <1>2 DEF Frame
<1>4. frames' = [frames EXCEPT ![1] = g]
  OBVIOUS
<1> HIDE DEF g
<1>5. frames' \in Seq(Frame) /\ Len(frames') = Len(frames) /\ DOMAIN frames' = DOMAIN frames
      /\ frames'[1] = g /\ frames' # << >>
  BY <1>1, <1>2, <1>3, <1>4
<1>6. \A k \in DOMAIN frames : k # 1 => frames'[k] = frames[k]
  BY <1>4, <1>1
<1>7. \A k \in DOMAIN frames : /\ frames'[k].exit = frames[k].exit
                               /\ frames'[k].last = frames[k].last
                               /\ frames'[k].at = frames[k].at
  BY <1>3, <1>5, <1>6
<1>8. exitstatus' \in Statuses
  BY <1>1 DEF Stack, Statuses
<1>9. Stack'
  BY <1>1, <1>5, <1>7, <1>8, <1>2 DEF Stack
<1> QED BY <1>2, <1>3, <1>5, <1>6, <1>7, <1>9

(* So does a shell that executes a command itself. *)
LEMMA StackExec ==
    ASSUME Stack, Shellexec
    PROVE  Stack'
<1>1. CASE Killed
  BY <1>1, StackSame DEF Killed, Stack, statVars
<1>2. CASE ~Killed
  <2>1. 1 \in Statuses
    BY DEF Statuses
  <2> QED BY <1>2, <2>1, ExecCases, StackUnwound
<1> QED BY <1>1, <1>2

(* Each step keeps the stack of calls sound. *)
LEMMA StackStep ==
    ASSUME Scalars, Stack, [Next]_vars
    PROVE  Stack'
<1> USE TrapAssumption
<1>0. exitstatus \in Statuses /\ 0 \in Statuses /\ 1 \in Statuses /\ Statuses = {0, 1}
  BY DEF Stack, Statuses
<1>1. ASSUME Begin \/ End PROVE Stack'
  <2>1. shlvl \in Nat
    BY TrapAssumption DEF Scalars
  <2> QED BY <1>1, <2>1, StackEval DEF Begin, End
<1>2. ASSUME ScanEnds \/ Postpone PROVE Stack'
  BY <1>2, StackReturn DEF ScanEnds, Postpone
<1>4. ASSUME RunTrap PROVE Stack'
  <2>1. Later \in SUBSET Nat /\ Later # {} /\ Later \subseteq Sigs
    BY <1>4 DEF RunTrap, Later, Scalars
  <2>2. Lowest(Later) \in Sigs
    BY <2>1, LowestIn
  <2>3. /\ pc = "scan" /\ frames' = [frames EXCEPT ![1].sig = Lowest(Later)]
        /\ savestatus' = savestatus /\ exitstatus' \in {exitstatus, savestatus}
    BY <1>4 DEF RunTrap
  <2> QED BY <2>2, <2>3, StackRun
<1>5. ASSUME ActionEnds PROVE Stack'
  <2>1. frames # << >> /\ savestatus \in Statuses
    BY <1>5 DEF ActionEnds, Stack, Statuses
  <2>2. CASE frames[1].exit
    <3>1. exitstatus' = savestatus /\ savestatus' = -1 /\ frames' = << >> /\ pc' = "done"
      BY <1>5, <2>2 DEF ActionEnds
    <3> QED BY <2>1, <3>1 DEF Stack
  <2>3. CASE ~frames[1].exit
    <3>1. /\ exitstatus' \in Statuses /\ savestatus' = savestatus /\ frames' = frames
      BY <1>0, <1>5, <2>1, <2>3 DEF ActionEnds, AfterAction
    <3> QED BY <2>1, <2>3, <3>1 DEF Stack
  <2> QED BY <2>2, <2>3
<1>6. ASSUME SkipEnds PROVE Stack'
  BY <1>0, <1>6, StackSame DEF SkipEnds, statVars
<1>7. ASSUME NEW st \in {0, 1}, Command(st) PROVE Stack'
  <2>1. CASE intpending
    BY <1>7, <2>1, StackInterrupt DEF Command, Done
  <2>2. CASE ~intpending
    BY <1>0, <1>7, <2>2, StackSame DEF Command, Done
  <2> QED BY <2>1, <2>2
<1>8. ASSUME IntOff PROVE Stack'
  BY <1>0, <1>8, StackSame DEF IntOff, statVars
<1>9. ASSUME NEW s \in Sigs \cup {0}, NEW a \in {"null", "empty", "act"}, TrapCmd(s, a) PROVE Stack'
  BY <1>0, <1>9, StackSame DEF TrapCmd, Done
<1>10. ASSUME SetMonitor PROVE Stack'
  BY <1>0, <1>10, StackSame DEF SetMonitor, Done
<1>11. ASSUME NEW kind \in {"loop", "func", "funcdef"}, NEW st \in {0, 1}, Skip(kind, st) PROVE Stack'
  BY <1>0, <1>11, StackSame DEF Skip, Done
<1>12. ASSUME Error PROVE Stack'
  <2>1. Exception(TRUE, 1)
    BY <1>12 DEF Error
  <2> QED BY <1>0, <2>1, ExceptionCases, StackUnwound
<1>13. ASSUME ExitCmd PROVE Stack'
  <2>1. PICK st \in {IF savestatus >= 0 THEN savestatus ELSE exitstatus, 0, 1} : Exception(FALSE, st)
    BY <1>13 DEF ExitCmd
  <2>2. st \in Statuses
    BY <1>0 DEF Stack
  <2> QED BY <2>1, <2>2, ExceptionCases, StackUnwound
<1>14. ASSUME EndOfInput PROVE Stack'
  BY <1>0, <1>14, LeaveCases, StackUnwound DEF EndOfInput
<1>15. ASSUME NEW mode, Fork(mode) PROVE Stack'
  <2>1. frames' = << >> /\ pc' = "top" /\ exitstatus' = exitstatus /\ savestatus' = savestatus
    BY <1>15 DEF Fork, statVars
  <2> QED BY <2>1 DEF Stack
<1>16. ASSUME NEW s \in Sigs, Signal(s) PROVE Stack'
  <2>1. CASE Interrupt
    BY <2>1, StackInterrupt
  <2>2. CASE ~Interrupt
    BY <1>0, <1>16, <2>2, StackSame DEF Signal, statVars
  <2> QED BY <2>1, <2>2
<1>17. ASSUME NEW s \in Sigs, DefaultSignal(s) PROVE Stack'
  BY <1>0, <1>17, StackSame DEF DefaultSignal, Killed, statVars
<1>18. CASE UNCHANGED vars
  BY <1>0, <1>18, StackSame DEF vars, statVars
<1>19. ASSUME NoFork PROVE Stack'
  BY <1>0, <1>19, StackSame DEF NoFork, statVars
<1>20. ASSUME ExecLast \/ ExecCmd PROVE Stack'
  BY <1>20, StackExec DEF ExecLast, ExecCmd
<1> QED BY <1>1, <1>2, <1>4, <1>5, <1>6, <1>7, <1>8, <1>9, <1>10, <1>11, <1>12, <1>13,
           <1>14, <1>15, <1>16, <1>17, <1>18, <1>19, <1>20 DEF Next, Commands

-----------------------------------------------------------------------------
(* Whether the action of 0 is running: calls of dotrap() and returns from  *)
(* them do not change it.                                                  *)
LEMMA ExitingEval ==
    ASSUME Stack, NEW from, NEW to \in {"cmd", "top"}, Eval(from, to)
    PROVE  Exiting' = Exiting
<1>1. CASE EnterTrap(to)
  <2> DEFINE f == [sig |-> 0, last |-> savestatus, ret |-> to, exit |-> FALSE,
                   at |-> IF frames = << >> THEN exitstatus ELSE 0]
  <2>1. f \in Frame /\ ~f.exit
    BY TrapAssumption DEF Stack, Frame, Statuses
  <2>2. frames' = <<f>> \o frames
    BY <1>1 DEF EnterTrap
  <2> HIDE DEF f
  <2>3. frames \in Seq(Frame)
    BY DEF Stack
  <2>4. /\ frames' \in Seq(Frame) /\ Len(frames') = Len(frames) + 1 /\ frames'[1] = f
        /\ \A k \in DOMAIN frames : frames'[k + 1] = frames[k]
        /\ \A k \in DOMAIN frames' : k # 1 => k - 1 \in DOMAIN frames /\ frames'[k] = frames[k - 1]
    BY <2>1, <2>2, <2>3, Pushed
  <2>5. \A k \in DOMAIN frames : k + 1 \in DOMAIN frames'
    BY <2>3, <2>4
  <2>6. ASSUME Exiting' PROVE Exiting
    <3>1. PICK k \in DOMAIN frames' : frames'[k].exit
      BY <2>6 DEF Exiting
    <3>2. k # 1
      BY <3>1, <2>1, <2>4
    <3> QED BY <3>1, <3>2, <2>4 DEF Exiting
  <2>7. ASSUME Exiting PROVE Exiting'
    <3>1. PICK k \in DOMAIN frames : frames[k].exit
      BY <2>7 DEF Exiting
    <3>2. k + 1 \in DOMAIN frames' /\ frames'[k + 1] = frames[k]
      BY <2>4, <2>5
    <3> QED BY <3>1, <3>2 DEF Exiting
  <2> QED BY <2>6, <2>7 DEF Exiting
<1>2. CASE ~EnterTrap(to)
  BY <1>2 DEF Eval, Exiting
<1> QED BY <1>1, <1>2

(* The frame that is left is not that of the action of 0. *)
LEMMA ExitingReturn ==
    ASSUME Stack, pc = "scan", Return
    PROVE  Exiting' = Exiting
<1>1. frames # << >> /\ frames \in Seq(Frame) /\ ~frames[1].exit
  BY DEF Stack
<1>2. frames' = Tail(frames)
  BY DEF Return
<1>3. /\ \A k \in DOMAIN frames' : k + 1 \in DOMAIN frames /\ frames'[k] = frames[k + 1]
      /\ \A k \in DOMAIN frames : k # 1 => k - 1 \in DOMAIN frames' /\ frames'[k - 1] = frames[k]
  BY <1>1, <1>2, Popped
<1>4. ASSUME Exiting' PROVE Exiting
  BY <1>3, <1>4 DEF Exiting
<1>5. ASSUME Exiting PROVE Exiting'
  <2>1. PICK k \in DOMAIN frames : frames[k].exit
    BY <1>5 DEF Exiting
  <2>2. k # 1
    BY <1>1, <2>1
  <2> QED BY <1>3, <2>1, <2>2 DEF Exiting
<1> QED BY <1>4, <1>5 DEF Exiting

(* A signal's turn in the loop leaves the frames' kinds alone. *)
LEMMA ExitingRun ==
    ASSUME Scalars, Stack, RunTrap
    PROVE  Exiting' = Exiting
<1>1. Later \in SUBSET Nat /\ Later # {} /\ Later \subseteq Sigs
  BY TrapAssumption DEF RunTrap, Later, Scalars
<1>2. Lowest(Later) \in Sigs
  BY <1>1, LowestIn
<1>3. /\ pc = "scan" /\ frames' = [frames EXCEPT ![1].sig = Lowest(Later)]
      /\ savestatus' = savestatus /\ exitstatus' \in {exitstatus, savestatus}
  BY DEF RunTrap
<1>4. /\ DOMAIN frames' = DOMAIN frames
      /\ \A k \in DOMAIN frames : frames'[k].exit = frames[k].exit
  BY <1>2, <1>3, StackRun
<1> QED BY <1>4 DEF Exiting

-----------------------------------------------------------------------------
(* There are finitely many actions. *)
LEMMA ActsFinite ==
    ASSUME NEW t
    PROVE  /\ IsFiniteSet(ActsOf(t)) /\ Cardinality(ActsOf(t)) \in Nat
           /\ Cardinality(Sigs) \in Nat
           /\ Cardinality(ActsOf(t)) <= Cardinality(Sigs) + 1
<1>1. IsFiniteSet(Sigs) /\ 0 \notin Sigs
  BY TrapAssumption
<1>2. /\ IsFiniteSet(Sigs \cup {0}) /\ Cardinality(Sigs \cup {0}) = Cardinality(Sigs) + 1
      /\ Cardinality(Sigs) \in Nat
  BY <1>1, FS_AddElement, FS_CardinalityType
<1>3. ActsOf(t) \subseteq Sigs \cup {0}
  BY DEF ActsOf
<1>4. IsFiniteSet(ActsOf(t)) /\ Cardinality(ActsOf(t)) <= Cardinality(Sigs \cup {0})
  BY <1>2, <1>3, FS_Subset
<1> QED BY <1>2, <1>4, FS_CardinalityType

(* Setting one trap changes the number of actions by at most one. *)
LEMMA CountOne ==
    ASSUME NEW t \in [Sigs \cup {0} -> {"null", "empty", "act"}],
           NEW s \in Sigs \cup {0}, NEW a \in {"null", "empty", "act"}
    PROVE  Cardinality(ActsOf([t EXCEPT ![s] = a]))
               = Cardinality(ActsOf(t)) + (IF a = "act" THEN 1 ELSE 0)
                                        - (IF t[s] = "act" THEN 1 ELSE 0)
<1> DEFINE u == [t EXCEPT ![s] = a]
<1>0. IsFiniteSet(ActsOf(t)) /\ Cardinality(ActsOf(t)) \in Nat
  BY ActsFinite
<1>1. CASE a = "act" /\ t[s] = "act"
  <2>1. ActsOf(u) = ActsOf(t)
    BY <1>1 DEF ActsOf
  <2> QED BY <1>0, <1>1, <2>1
<1>2. CASE a # "act" /\ t[s] # "act"
  <2>1. ActsOf(u) = ActsOf(t)
    BY <1>2 DEF ActsOf
  <2> QED BY <1>0, <1>2, <2>1
<1>3. CASE a = "act" /\ t[s] # "act"
  <2>1. ActsOf(u) = ActsOf(t) \cup {s} /\ s \notin ActsOf(t)
    BY <1>3 DEF ActsOf
  <2>2. Cardinality(ActsOf(t) \cup {s}) = Cardinality(ActsOf(t)) + 1
    BY <1>0, <2>1, FS_AddElement
  <2>3. Cardinality(ActsOf([t EXCEPT ![s] = a])) = Cardinality(ActsOf(t)) + 1
    BY <2>1, <2>2, Zenon
  <2> QED BY <1>0, <1>3, <2>3
<1>4. CASE a # "act" /\ t[s] = "act"
  <2>1. ActsOf(u) = ActsOf(t) \ {s} /\ s \in ActsOf(t)
    BY <1>4 DEF ActsOf
  <2>2. Cardinality(ActsOf(t) \ {s}) = Cardinality(ActsOf(t)) - 1
    BY <1>0, <2>1, FS_RemoveElement
  <2>3. Cardinality(ActsOf([t EXCEPT ![s] = a])) = Cardinality(ActsOf(t)) - 1
    BY <2>1, <2>2, Zenon
  <2> QED BY <1>0, <1>4, <2>3
<1> QED BY <1>1, <1>2, <1>3, <1>4

(* The counter is kept where neither it, nor the traps, nor being in the   *)
(* action of 0 changes.                                                    *)
LEMMA CountSame ==
    ASSUME Counted, trap' = trap, trapcnt' = trapcnt, Exiting' = Exiting, pc # "done"
    PROVE  Counted'
BY DEF Counted, ActsOf

(* Running the action of 0 takes it away without counting it down. *)
LEMMA CountUnwound ==
    ASSUME Scalars, Counted, trapcnt' = trapcnt, pc # "done", NEW st,
           \/ Resumed
           \/ ExitTrap(st) \/ Ended
    PROVE  Counted'
<1>1. CASE Resumed
  <2>1. ~Exiting /\ frames' = << >> /\ trap' = trap
    BY <1>1 DEF Resumed
  <2>2. ~Exiting'
    BY <2>1 DEF Exiting
  <2> QED BY <2>1, <2>2 DEF Counted, ActsOf
<1>2. CASE ExitTrap(st)
  <2> DEFINE f == [sig |-> 0, last |-> -1, ret |-> "done", at |-> st, exit |-> TRUE]
  <2>1. ~Exiting /\ trap[0] = "act" /\ trap' = [trap EXCEPT ![0] = "null"] /\ frames' = <<f>>
    BY <1>2 DEF ExitTrap
  <2>2. 1 \in DOMAIN frames' /\ frames'[1].exit
    BY <2>1
  <2>3. Exiting'
    BY <2>2 DEF Exiting
  <2>4. Cardinality(ActsOf(trap')) = Cardinality(ActsOf(trap)) + 0 - 1
    BY <2>1, CountOne DEF Scalars
  <2>5. Cardinality(ActsOf(trap)) \in Nat /\ trapcnt = Cardinality(ActsOf(trap)) + 0
    BY <2>1, ActsFinite DEF Counted
  <2>6. trapcnt' = Cardinality(ActsOf(trap')) + 1
    BY <2>4, <2>5
  <2>7. ActsOf(trap)' = ActsOf(trap')
    BY DEF ActsOf
  <2> QED BY <2>3, <2>6, <2>7 DEF Counted
<1>3. CASE Ended
  BY <1>3 DEF Ended, Counted
<1> QED BY <1>1, <1>2, <1>3

(* An interrupt does not touch the counter. *)
LEMMA CountInterrupt ==
    ASSUME Scalars, Counted, trapcnt' = trapcnt, pc # "done", Interrupt
    PROVE  Counted'
<1>1. CASE Killed
  BY <1>1 DEF Killed, Counted
<1>2. CASE ~Killed
  BY <1>2, InterruptCases, CountUnwound
<1> QED BY <1>1, <1>2

(* So does a shell that executes a command itself. *)
LEMMA CountExec ==
    ASSUME Scalars, Stack, Counted, pc # "done", Shellexec, trapcnt' = trapcnt
    PROVE  Counted'
<1>1. CASE Killed
  BY <1>1 DEF Killed, Counted
<1>2. CASE ~Killed
  BY <1>2, ExecCases, CountUnwound
<1> QED BY <1>1, <1>2

(* Each step keeps the count right. *)
LEMMA CountStep ==
    ASSUME Scalars, Stack, Counted, [Next]_vars
    PROVE  Counted'
<1> USE TrapAssumption
<1>1. ASSUME Begin \/ End PROVE Counted'
  <2>1. Exiting' = Exiting
    BY <1>1, ExitingEval DEF Begin, End
  <2> QED BY <1>1, <2>1, CountSame DEF Begin, End, Eval
<1>2. ASSUME ScanEnds \/ Postpone PROVE Counted'
  <2>1. pc = "scan" /\ Return
    BY <1>2 DEF ScanEnds, Postpone
  <2> QED BY <2>1, ExitingReturn, CountSame DEF Return
<1>4. ASSUME RunTrap PROVE Counted'
  BY <1>4, ExitingRun, CountSame DEF RunTrap
<1>5. ASSUME ActionEnds PROVE Counted'
  <2>1. CASE frames[1].exit
    BY <1>5, <2>1 DEF ActionEnds, Counted
  <2>2. CASE ~frames[1].exit
    <3>1. frames' = frames /\ trap' = trap /\ trapcnt' = trapcnt /\ pc # "done"
      BY <1>5, <2>2 DEF ActionEnds
    <3> QED BY <3>1, CountSame DEF Exiting
  <2> QED BY <2>1, <2>2
<1>6. ASSUME SkipEnds PROVE Counted'
  <2>1. frames' = frames /\ trap' = trap /\ trapcnt' = trapcnt /\ pc # "done"
    BY <1>6 DEF SkipEnds
  <2> QED BY <2>1, CountSame DEF Exiting
<1>7. ASSUME NEW st \in {0, 1}, Command(st) PROVE Counted'
  <2>1. CASE intpending
    BY <1>7, <2>1, CountInterrupt DEF Command, Done
  <2>2. CASE ~intpending
    <3>1. frames' = frames /\ trap' = trap /\ trapcnt' = trapcnt /\ pc # "done"
      BY <1>7, <2>2 DEF Command, Done
    <3> QED BY <3>1, CountSame DEF Exiting
  <2> QED BY <2>1, <2>2
<1>8. ASSUME IntOff PROVE Counted'
  <2>1. frames' = frames /\ trap' = trap /\ trapcnt' = trapcnt /\ pc # "done"
    BY <1>8 DEF IntOff
  <2> QED BY <2>1, CountSame DEF Exiting
<1>9. ASSUME NEW s \in Sigs \cup {0}, NEW a \in {"null", "empty", "act"}, TrapCmd(s, a) PROVE Counted'
  <2>1. /\ frames' = frames /\ trap' = [trap EXCEPT ![s] = a] /\ pc = "cmd"
        /\ trapcnt' = trapcnt + (IF a = "act" THEN 1 ELSE 0) - (IF trap[s] = "act" THEN 1 ELSE 0)
    BY <1>9 DEF TrapCmd, Done, Count
  <2>2. Exiting' = Exiting /\ ActsOf(trap)' = ActsOf(trap')
    BY <2>1 DEF Exiting, ActsOf
  <2>3. Cardinality(ActsOf(trap')) = Cardinality(ActsOf(trap)) + (IF a = "act" THEN 1 ELSE 0)
                                        - (IF trap[s] = "act" THEN 1 ELSE 0)
    BY <2>1, CountOne DEF Scalars
  <2>4. Cardinality(ActsOf(trap)) \in Nat /\ trapcnt = Cardinality(ActsOf(trap)) + (IF Exiting THEN 1 ELSE 0)
    BY <2>1, ActsFinite DEF Counted
  <2>5. trapcnt' = Cardinality(ActsOf(trap')) + (IF Exiting THEN 1 ELSE 0)
    BY <2>1, <2>3, <2>4
  <2> QED BY <2>2, <2>5 DEF Counted
<1>10. ASSUME SetMonitor PROVE Counted'
  <2>1. frames' = frames /\ trap' = trap /\ trapcnt' = trapcnt /\ pc # "done"
    BY <1>10 DEF SetMonitor, Done
  <2> QED BY <2>1, CountSame DEF Exiting
<1>11. ASSUME NEW kind, NEW st, Skip(kind, st) PROVE Counted'
  <2>1. frames' = frames /\ trap' = trap /\ trapcnt' = trapcnt /\ pc # "done"
    BY <1>11 DEF Skip, Done
  <2> QED BY <2>1, CountSame DEF Exiting
<1>12. ASSUME Error PROVE Counted'
  <2>1. Exception(TRUE, 1) /\ trapcnt' = trapcnt /\ pc # "done"
    BY <1>12 DEF Error
  <2> QED BY <2>1, ExceptionCases, CountUnwound
<1>13. ASSUME ExitCmd PROVE Counted'
  <2>1. PICK st : Exception(FALSE, st)
    BY <1>13 DEF ExitCmd
  <2>2. trapcnt' = trapcnt /\ pc # "done"
    BY <1>13 DEF ExitCmd
  <2> QED BY <2>1, <2>2, ExceptionCases, CountUnwound
<1>14. ASSUME EndOfInput PROVE Counted'
  BY <1>14, LeaveCases, CountUnwound DEF EndOfInput
<1>15. ASSUME NEW mode, Fork(mode) PROVE Counted'
  <2>1. frames' = << >> /\ trap' = ForkTraps /\ trapcnt' = 0
    BY <1>15 DEF Fork
  <2>2. ~Exiting'
    BY <2>1 DEF Exiting
  <2>3. ActsOf(trap)' = {}
    BY <2>1 DEF ActsOf, ForkTraps, Scalars
  <2>4. Cardinality({}) = 0
    BY FS_EmptySet
  <2> QED BY <2>1, <2>2, <2>3, <2>4 DEF Counted
<1>16. ASSUME NEW s \in Sigs, Signal(s) PROVE Counted'
  <2>1. trapcnt' = trapcnt /\ pc # "done"
    BY <1>16 DEF Signal
  <2>2. CASE Interrupt
    BY <2>1, <2>2, CountInterrupt
  <2>3. CASE ~Interrupt
    <3>1. frames' = frames /\ trap' = trap
      BY <1>16, <2>3 DEF Signal
    <3> QED BY <2>1, <3>1, CountSame DEF Exiting
  <2> QED BY <2>2, <2>3
<1>17. ASSUME NEW s \in Sigs, DefaultSignal(s) PROVE Counted'
  BY <1>17 DEF DefaultSignal, Killed, Counted
<1>18. CASE UNCHANGED vars
  BY <1>18 DEF vars, Counted, Exiting, ActsOf
<1>19. ASSUME NoFork PROVE Counted'
  <2>1. frames = << >> /\ frames' = frames /\ trap' = ForkTraps /\ trapcnt' = 0
    BY <1>19 DEF NoFork, LastCommand
  <2>2. ~Exiting'
    BY <2>1 DEF Exiting
  <2>3. ActsOf(trap)' = {}
    BY <2>1 DEF ActsOf, ForkTraps, Scalars
  <2>4. Cardinality({}) = 0
    BY FS_EmptySet
  <2> QED BY <2>1, <2>2, <2>3, <2>4 DEF Counted
<1>20. ASSUME ExecLast \/ ExecCmd PROVE Counted'
  <2>1. Shellexec /\ trapcnt' = trapcnt /\ pc # "done"
    BY <1>20 DEF ExecLast, ExecutesItself, LastCommand, ExecCmd
  <2> QED BY <2>1, CountExec
<1> QED BY <1>1, <1>2, <1>4, <1>5, <1>6, <1>7, <1>8, <1>9, <1>10, <1>11, <1>12, <1>13,
           <1>14, <1>15, <1>16, <1>17, <1>18, <1>19, <1>20 DEF Next, Commands

(* The number of actions bounds the counter; a process that has ended does *)
(* not count any more.                                                     *)
CountRange == trapcnt \in 0..(Cardinality(Sigs) + 2)

(* The counter stays in its range. *)
LEMMA RangeStep ==
    ASSUME Counted', CountRange, [Next]_vars, pc' = "done" => trapcnt' = trapcnt
    PROVE  CountRange'
<1>1. CASE pc' = "done"
  BY <1>1 DEF CountRange
<1>2. CASE pc' # "done"
  <2>1. trapcnt' = Cardinality(ActsOf(trap')) + (IF Exiting' THEN 1 ELSE 0)
    BY <1>2 DEF Counted, ActsOf
  <2>2. /\ Cardinality(ActsOf(trap')) \in Nat /\ Cardinality(Sigs) \in Nat
        /\ Cardinality(ActsOf(trap')) <= Cardinality(Sigs) + 1
    BY ActsFinite
  <2> QED BY <2>1, <2>2 DEF CountRange
<1> QED BY <1>1, <1>2

(* The last step of a process leaves the counter alone. *)
LEMMA CountAtEnd ==
    ASSUME [Next]_vars, pc' = "done"
    PROVE  trapcnt' = trapcnt
<1>1. CASE \E s \in Sigs \cup {0}, a \in {"null", "empty", "act"} : TrapCmd(s, a)
  BY <1>1 DEF TrapCmd, Done
<1>2. CASE \E mode \in {"fg", "bg", "nojob"} : Fork(mode)
  BY <1>2 DEF Fork
<1>3. CASE Begin \/ End \/ ScanEnds \/ Postpone \/ RunTrap \/ ActionEnds \/ SkipEnds
  BY <1>3 DEF Begin, End, Eval, ScanEnds, Postpone, Return, RunTrap, ActionEnds, SkipEnds
<1>4. CASE \/ \E st \in {0, 1} : Command(st)
           \/ IntOff \/ SetMonitor \/ Error \/ ExitCmd \/ EndOfInput
           \/ \E kind \in {"loop", "func", "funcdef"}, st \in {0, 1} : Skip(kind, st)
  BY <1>4 DEF Command, IntOff, SetMonitor, Error, ExitCmd, EndOfInput, Skip
<1>5. CASE \E s \in Sigs : Signal(s) \/ DefaultSignal(s)
  BY <1>5 DEF Signal, DefaultSignal
<1>6. CASE UNCHANGED vars
  BY <1>6 DEF vars
<1>7. CASE NoFork \/ ExecLast \/ ExecCmd
  BY <1>7 DEF NoFork, ExecLast, ExecCmd
<1> QED BY <1>1, <1>2, <1>3, <1>4, <1>5, <1>6, <1>7 DEF Next, Commands

(* The inductive invariant behind the types and the count. *)
TypeInv == Scalars /\ Stack /\ Counted /\ CountRange

(* It holds at the start: no frame and no action. *)
LEMMA TypeInit == Init => TypeInv
<1> SUFFICES ASSUME Init PROVE TypeInv
  OBVIOUS
<1>1. Scalars
  BY ScalarsInit
<1>2. /\ frames = << >> /\ exitstatus = 0 /\ savestatus = -1 /\ pc = "top" /\ trapcnt = 0
      /\ trap = [s \in Sigs \cup {0} |-> "null"]
  BY DEF Init
<1>3. Stack
  BY <1>2, TrapAssumption DEF Stack, Statuses
<1>4. ~Exiting
  BY <1>2 DEF Exiting
<1>5. ActsOf(trap) = {}
  BY <1>2 DEF ActsOf
<1>6. Cardinality(ActsOf(trap)) = 0
  BY <1>5, FS_EmptySet, Zenon
<1>7. Counted
  BY <1>2, <1>4, <1>6 DEF Counted
<1>8. CountRange
  BY <1>2, ActsFinite DEF CountRange
<1> QED BY <1>1, <1>3, <1>7, <1>8 DEF TypeInv

(* Each step keeps it. *)
LEMMA TypeStep == TypeInv /\ [Next]_vars => TypeInv'
<1> SUFFICES ASSUME TypeInv, [Next]_vars PROVE TypeInv'
  OBVIOUS
<1>1. Scalars /\ Stack /\ Counted /\ CountRange
  BY DEF TypeInv
<1>2. Scalars' /\ Stack' /\ Counted'
  BY <1>1, ScalarsStep, StackStep, CountStep
<1>3. CountRange'
  BY <1>1, <1>2, CountAtEnd, RangeStep
<1> QED BY <1>2, <1>3 DEF TypeInv

(* In every state each variable of the traps and signals has a value of    *)
(* its type: modes and dispositions stay those setsignal() knows, $? stays *)
(* a status and the counter never goes below zero.                         *)
THEOREM TypeCorrect == Spec => []TypeOK
<1>1. TypeInv => TypeOK
  BY DEF TypeInv, Scalars, Stack, CountRange, TypeOK
<1> QED BY <1>1, TypeInit, TypeStep, PTL DEF Spec

(* trapcnt is the number of actions set (trap.c:151 and trap.c:157 count   *)
(* it, forkreset() clears it), whenever have_traps() may be asked.         *)
THEOREM CountCorrect == Spec => []TrapCount
<1>1. TypeInv => TrapCount
  <2> SUFFICES ASSUME TypeInv, pc # "done", ~Exiting
               PROVE  trapcnt = Cardinality({s \in DOMAIN trap : trap[s] = "act"})
    BY DEF TrapCount
  <2>1. trapcnt = Cardinality(ActsOf(trap)) + 0 /\ Cardinality(ActsOf(trap)) \in Nat
    BY ActsFinite DEF TypeInv, Counted
  <2>2. ActsOf(trap) = {s \in DOMAIN trap : trap[s] = "act"}
    BY DEF ActsOf, TypeInv, Scalars
  <2> QED BY <2>1, <2>2
<1> QED BY <1>1, TypeInit, TypeStep, PTL DEF Spec

-----------------------------------------------------------------------------
(* What sigmode says of signal s is what the kernel does, or is not known  *)
(* yet; a signal ignored on entry has not been touched, unless it is one   *)
(* of job control's.  Modes m, dispositions d, ignored on entry E.         *)
Coherent(s, m, d, E) ==
    /\ m[s] = "unknown" => d[s] = IF s \in E THEN "ign" ELSE "dfl"
    /\ m[s] = "HARD_IGN" => d[s] = "ign" /\ s \in E \ JobSigs
    /\ m[s] = "DFL" => d[s] = "dfl"
    /\ m[s] = "IGN" => d[s] = "ign"
    /\ m[s] = "CATCH" => d[s] = "onsig"
    /\ s \in E \ JobSigs => m[s] \in {"unknown", "HARD_IGN"}

(* The setting of s is one that its trap and the options account for.      *)
Obeys(s, t, m, d, E, lvl, i, mon, sub) ==
    /\ t[s] = "act" => s \in E \/ m[s] = "CATCH"
    /\ t[s] = "empty" => d[s] = "ign"
    /\ t[s] = "null" /\ s \notin E /\ m[s] = "CATCH" => s = SIGINT
    /\ t[s] = "null" /\ s \notin E /\ m[s] = "IGN" =>
         \/ s \in {SIGTSTP, SIGTTOU} /\ IF lvl = 0 THEN mon ELSE sub
         \/ s \in {SIGQUIT, SIGTERM} /\ lvl = 0 /\ i

SigInv ==
    /\ \A s \in Sigs \ {SIGCHLD} : /\ Coherent(s, sigmode, disp, entry)
                                   /\ Obeys(s, trap, sigmode, disp, entry, shlvl, iflag, mflag, subst)
    /\ SIGCHLD \in Sigs => sigmode[SIGCHLD] = "CATCH" /\ disp[SIGCHLD] = "onsig"

Traps == [Sigs \cup {0} -> {"null", "empty", "act"}]
Modes == [Sigs -> {"unknown", "DFL", "CATCH", "IGN", "HARD_IGN"}]
Disps == [Sigs -> {"dfl", "ign", "onsig"}]

(* What setsignal() wants, by the trap of the signal. *)
LEMMA WantedCases ==
    ASSUME NEW s \in Sigs \ {SIGCHLD}, NEW t \in Traps, NEW lvl, NEW i, NEW mon
    PROVE  LET w == Wanted(s, t, lvl, i, mon) IN
           /\ w \in {"CATCH", "IGN", "DFL"}
           /\ t[s] = "act" => w = "CATCH"
           /\ t[s] = "empty" => w = "IGN"
           /\ t[s] = "null" /\ w = "CATCH" => lvl = 0 /\ s = SIGINT
           /\ t[s] = "null" /\ w = "IGN" =>
                /\ lvl = 0
                /\ (s \in {SIGTSTP, SIGTTOU} /\ mon) \/ (s \in {SIGQUIT, SIGTERM} /\ i)
<1>1. t[s] \in {"null", "empty", "act"}
  BY DEF Traps
<1>2. CASE t[s] = "null"
  <2> DEFINE W == CASE lvl = 0 /\ s = SIGINT /\ (i \/ Script) -> "CATCH"
              [] lvl = 0 /\ s \in {SIGQUIT, SIGTERM} /\ i -> "IGN"
              [] lvl = 0 /\ s \in {SIGTSTP, SIGTTOU} /\ mon -> "IGN"
              [] OTHER -> "DFL"
  <2>1. /\ W \in {"CATCH", "IGN", "DFL"}
        /\ W = "CATCH" => lvl = 0 /\ s = SIGINT
        /\ W = "IGN" => lvl = 0 /\ ((s \in {SIGTSTP, SIGTTOU} /\ mon) \/ (s \in {SIGQUIT, SIGTERM} /\ i))
    BY DEF SIGINT, SIGQUIT, SIGTERM, SIGTSTP, SIGTTOU
  <2>2. Wanted(s, t, lvl, i, mon) = W
    BY <1>2 DEF Wanted
  <2> HIDE DEF W
  <2> QED BY <1>2, <2>1, <2>2
<1>3. CASE t[s] = "empty"
  <2>1. Wanted(s, t, lvl, i, mon) = "IGN"
    BY <1>3 DEF Wanted
  <2> QED BY <1>3, <2>1
<1>4. CASE t[s] = "act"
  <2>1. Wanted(s, t, lvl, i, mon) = "CATCH"
    BY <1>4 DEF Wanted
  <2> QED BY <1>4, <2>1
<1> QED BY <1>1, <1>2, <1>3, <1>4

(* The result of setsignal() for a signal that is set. *)
LEMMA SetOne ==
    ASSUME NEW S, NEW s \in Sigs \ {SIGCHLD}, s \in S, NEW t \in Traps, NEW m \in Modes,
           NEW d \in Disps, NEW E, NEW lvl \in Nat, NEW i, NEW mon, NEW sub, Coherent(s, m, d, E)
    PROVE  LET n == NewMode(S, t, m, d, lvl, i, mon)
               e == NewDisp(S, t, m, d, lvl, i, mon)
           IN  /\ Coherent(s, n, e, E)
               /\ Obeys(s, t, n, e, E, lvl, i, mon, sub)
               /\ \/ n[s] = Wanted(s, t, lvl, i, mon)
                  \/ s \in E /\ n[s] \in {"unknown", "HARD_IGN"}
<1> DEFINE n == NewMode(S, t, m, d, lvl, i, mon)
           e == NewDisp(S, t, m, d, lvl, i, mon)
           w == Wanted(s, t, lvl, i, mon)
           c == Current(s, m, d, mon)
<1>1. /\ n[s] = IF c \notin {"HARD_IGN", w} THEN w ELSE m[s]
      /\ e[s] = IF c \notin {"HARD_IGN", w} THEN Handler(w) ELSE d[s]
  BY DEF NewMode, NewDisp, Set
<1>2. /\ w \in {"CATCH", "IGN", "DFL"}
      /\ t[s] = "act" => w = "CATCH"
      /\ t[s] = "empty" => w = "IGN"
      /\ t[s] = "null" /\ w = "CATCH" => lvl = 0 /\ s = SIGINT
      /\ t[s] = "null" /\ w = "IGN" =>
           /\ lvl = 0
           /\ (s \in {SIGTSTP, SIGTTOU} /\ mon) \/ (s \in {SIGQUIT, SIGTERM} /\ i)
  BY WantedCases
<1>3. Handler("CATCH") = "onsig" /\ Handler("IGN") = "ign" /\ Handler("DFL") = "dfl"
  BY DEF Handler
<1>4. m[s] \in {"unknown", "DFL", "CATCH", "IGN", "HARD_IGN"} /\ d[s] \in {"dfl", "ign", "onsig"}
  BY DEF Modes, Disps
<1>5. /\ m[s] # "unknown" => c = m[s]
      /\ m[s] = "unknown" /\ d[s] # "ign" => c = "RESET"
      /\ m[s] = "unknown" /\ d[s] = "ign" /\ s \in JobSigs => c \in {"IGN", "HARD_IGN"}
      /\ m[s] = "unknown" /\ d[s] = "ign" /\ s \notin JobSigs => c = "HARD_IGN"
  BY DEF Current
<1> HIDE DEF n, e, w, c
<1>6. \/ n[s] = w /\ e[s] = Handler(w) /\ (s \in E => s \in JobSigs)
      \/ /\ s \in E /\ n[s] = m[s] /\ e[s] = d[s] /\ d[s] = "ign"
         /\ m[s] \in {"unknown", "HARD_IGN"}
  BY <1>1, <1>2, <1>3, <1>4, <1>5 DEF Coherent
<1>7. Coherent(s, n, e, E)
  BY <1>2, <1>3, <1>4, <1>6 DEF Coherent
<1>8. Obeys(s, t, n, e, E, lvl, i, mon, sub)
  BY <1>2, <1>3, <1>6 DEF Obeys
<1> QED BY <1>6, <1>7, <1>8 DEF n, e, w

(* The others are left as they are. *)
LEMMA SetOthers ==
    ASSUME NEW S, NEW s \in Sigs, s \notin S, NEW t, NEW m \in Modes, NEW d \in Disps,
           NEW lvl, NEW i, NEW mon
    PROVE  /\ NewMode(S, t, m, d, lvl, i, mon)[s] = m[s]
           /\ NewDisp(S, t, m, d, lvl, i, mon)[s] = d[s]
BY DEF NewMode, NewDisp

(* SIGCHLD is always caught. *)
LEMMA SetChild ==
    ASSUME NEW S, SIGCHLD \in Sigs, NEW t \in Traps, NEW m \in Modes, NEW d \in Disps,
           NEW lvl, NEW i, NEW mon,
           \/ m[SIGCHLD] = "CATCH" /\ d[SIGCHLD] = "onsig"
           \/ m[SIGCHLD] = "DFL" /\ SIGCHLD \in S
    PROVE  /\ NewMode(S, t, m, d, lvl, i, mon)[SIGCHLD] = "CATCH"
           /\ NewDisp(S, t, m, d, lvl, i, mon)[SIGCHLD] = "onsig"
<1>1. Wanted(SIGCHLD, t, lvl, i, mon) = "CATCH"
  BY DEF Wanted
<1>2. Handler("CATCH") = "onsig"
  BY DEF Handler
<1>3. Current(SIGCHLD, m, d, mon) = m[SIGCHLD]
  BY DEF Current
<1> QED BY <1>1, <1>2, <1>3 DEF NewMode, NewDisp, Set

(* The initial settings are sound. *)
LEMMA SigInit == Init => SigInv
<1> SUFFICES ASSUME Init PROVE SigInv
  OBVIOUS
<1> DEFINE m0 == [s \in Sigs |-> IF s = SIGCHLD THEN "DFL" ELSE "unknown"]
           d0 == [s \in Sigs |-> IF s \in entry THEN "ign" ELSE "dfl"]
           S  == {SIGCHLD, SIGINT, SIGQUIT, SIGTERM} \cup (IF mflag THEN JobSigs ELSE {})
<1>1. trap \in Traps /\ shlvl = 0 /\ \A s \in Sigs : trap[s] = "null"
  BY DEF Init, Traps
<1>2. m0 \in Modes /\ d0 \in Disps /\ SIGCHLD \in S
  BY DEF Modes, Disps
<1>3. /\ sigmode = NewMode(S, trap, m0, d0, 0, iflag, mflag)
      /\ disp = NewDisp(S, trap, m0, d0, 0, iflag, mflag)
  BY DEF Init
<1>4. \A s \in Sigs \ {SIGCHLD} : m0[s] = "unknown" /\ d0[s] = IF s \in entry THEN "ign" ELSE "dfl"
  OBVIOUS
<1>5. SIGCHLD \in Sigs => m0[SIGCHLD] = "DFL"
  OBVIOUS
<1> HIDE DEF m0, d0, S
<1>6. SIGCHLD \in Sigs => sigmode[SIGCHLD] = "CATCH" /\ disp[SIGCHLD] = "onsig"
  BY <1>1, <1>2, <1>3, <1>5, SetChild
<1>7. ASSUME NEW s \in Sigs \ {SIGCHLD}
      PROVE  /\ Coherent(s, sigmode, disp, entry)
             /\ Obeys(s, trap, sigmode, disp, entry, shlvl, iflag, mflag, subst)
  <2>1. Coherent(s, m0, d0, entry)
    BY <1>4 DEF Coherent
  <2>2. CASE s \in S
    BY <1>1, <1>2, <1>3, <2>1, <2>2, SetOne
  <2>3. CASE s \notin S
    <3>1. sigmode[s] = m0[s] /\ disp[s] = d0[s]
      BY <1>2, <1>3, <2>3, SetOthers
    <3> QED BY <1>1, <1>4, <2>1, <3>1 DEF Coherent, Obeys
  <2> QED BY <2>2, <2>3
<1> QED BY <1>6, <1>7 DEF SigInv

(* Steps that neither set a signal nor a trap of one keep them sound. *)
LEMMA SigSame ==
    ASSUME SigInv, \A s \in Sigs : trap'[s] = trap[s],
           UNCHANGED <<sigmode, disp, entry, iflag, mflag, shlvl, subst>>
    PROVE  SigInv'
<1>1. ASSUME NEW s \in Sigs \ {SIGCHLD}
      PROVE  /\ Coherent(s, sigmode, disp, entry)'
             /\ Obeys(s, trap, sigmode, disp, entry, shlvl, iflag, mflag, subst)'
  <2>1. /\ Coherent(s, sigmode, disp, entry)
        /\ Obeys(s, trap, sigmode, disp, entry, shlvl, iflag, mflag, subst)
    BY DEF SigInv
  <2> QED BY <2>1 DEF Coherent, Obeys
<1>2. SIGCHLD \in Sigs => sigmode'[SIGCHLD] = "CATCH" /\ disp'[SIGCHLD] = "onsig"
  BY DEF SigInv
<1> QED BY <1>1, <1>2 DEF SigInv

(* trap sets one signal. *)
LEMMA SigTrapCmd ==
    ASSUME Scalars, SigInv, NEW r \in Sigs \cup {0}, NEW a \in {"null", "empty", "act"}, TrapCmd(r, a)
    PROVE  SigInv'
<1>1. /\ trap \in Traps /\ trap' \in Traps /\ sigmode \in Modes /\ disp \in Disps /\ shlvl \in Nat
      /\ trap' = [trap EXCEPT ![r] = a]
  BY TrapAssumption DEF Scalars, Traps, Modes, Disps, TrapCmd
<1>2. /\ sigmode' = NewMode({r}, trap', sigmode, disp, shlvl, iflag, mflag)
      /\ disp' = NewDisp({r}, trap', sigmode, disp, shlvl, iflag, mflag)
      /\ UNCHANGED <<entry, iflag, mflag, shlvl, subst>>
  BY DEF TrapCmd, optVars
<1>3. SIGCHLD \in Sigs => sigmode'[SIGCHLD] = "CATCH" /\ disp'[SIGCHLD] = "onsig"
  <2> SUFFICES ASSUME SIGCHLD \in Sigs
               PROVE  sigmode'[SIGCHLD] = "CATCH" /\ disp'[SIGCHLD] = "onsig"
    OBVIOUS
  <2> DEFINE R == {r}
             t == trap'
  <2>1. /\ sigmode' = NewMode(R, t, sigmode, disp, shlvl, iflag, mflag)
        /\ disp' = NewDisp(R, t, sigmode, disp, shlvl, iflag, mflag)
    BY <1>2
  <2>2. sigmode[SIGCHLD] = "CATCH" /\ disp[SIGCHLD] = "onsig"
    BY DEF SigInv
  <2>3. t \in Traps /\ sigmode \in Modes /\ disp \in Disps
    BY <1>1
  <2> HIDE DEF R, t
  <2>4. /\ NewMode(R, t, sigmode, disp, shlvl, iflag, mflag)[SIGCHLD] = "CATCH"
        /\ NewDisp(R, t, sigmode, disp, shlvl, iflag, mflag)[SIGCHLD] = "onsig"
    BY <2>2, <2>3, SetChild
  <2> QED BY <2>1, <2>4
<1>4. ASSUME NEW s \in Sigs \ {SIGCHLD}
      PROVE  /\ Coherent(s, sigmode, disp, entry)'
             /\ Obeys(s, trap, sigmode, disp, entry, shlvl, iflag, mflag, subst)'
  <2>1. /\ Coherent(s, sigmode, disp, entry)
        /\ Obeys(s, trap, sigmode, disp, entry, shlvl, iflag, mflag, subst)
    BY DEF SigInv
  <2>2. CASE s = r
    <3>1. /\ Coherent(s, sigmode', disp', entry)
          /\ Obeys(s, trap', sigmode', disp', entry, shlvl, iflag, mflag, subst)
      BY <1>1, <1>2, <2>1, <2>2, SetOne
    <3> QED BY <3>1, <1>2 DEF Coherent, Obeys
  <2>3. CASE s # r
    <3> DEFINE R == {r}
    <3>0. /\ s \notin R
          /\ sigmode' = NewMode(R, trap', sigmode, disp, shlvl, iflag, mflag)
          /\ disp' = NewDisp(R, trap', sigmode, disp, shlvl, iflag, mflag)
      BY <1>2, <2>3
    <3> HIDE DEF R
    <3>1. sigmode'[s] = sigmode[s] /\ disp'[s] = disp[s]
      BY <1>1, <3>0, SetOthers
    <3>2. trap'[s] = trap[s]
      BY <1>1, <2>3 DEF Traps
    <3> QED BY <1>2, <2>1, <3>1, <3>2 DEF Coherent, Obeys
  <2> QED BY <2>2, <2>3
<1> QED BY <1>3, <1>4 DEF SigInv

(* set -m and set +m set the signals of job control. *)
LEMMA SigSetMonitor ==
    ASSUME Scalars, SigInv, SetMonitor
    PROVE  SigInv'
<1> DEFINE S == IF shlvl = 0 THEN JobSigs ELSE {}
<1>1. trap \in Traps /\ sigmode \in Modes /\ disp \in Disps /\ shlvl \in Nat
  BY TrapAssumption DEF Scalars, Traps, Modes, Disps
<1>2. /\ sigmode' = NewMode(S, trap, sigmode, disp, shlvl, iflag, mflag')
      /\ disp' = NewDisp(S, trap, sigmode, disp, shlvl, iflag, mflag')
      /\ UNCHANGED <<trap, entry, iflag, shlvl, subst>>
  BY DEF SetMonitor
<1>3. SIGTSTP \in JobSigs /\ SIGTTOU \in JobSigs
  BY DEF JobSigs
<1>5. \A s : s \in {SIGTSTP, SIGTTOU} /\ s \notin S => shlvl # 0
  BY <1>3
<1> HIDE DEF S
<1>6. SIGCHLD \in Sigs => sigmode'[SIGCHLD] = "CATCH" /\ disp'[SIGCHLD] = "onsig"
  <2> SUFFICES ASSUME SIGCHLD \in Sigs
               PROVE  sigmode'[SIGCHLD] = "CATCH" /\ disp'[SIGCHLD] = "onsig"
    OBVIOUS
  <2>1. sigmode[SIGCHLD] = "CATCH" /\ disp[SIGCHLD] = "onsig"
    BY DEF SigInv
  <2>2. /\ NewMode(S, trap, sigmode, disp, shlvl, iflag, mflag')[SIGCHLD] = "CATCH"
        /\ NewDisp(S, trap, sigmode, disp, shlvl, iflag, mflag')[SIGCHLD] = "onsig"
    BY <1>1, <2>1, SetChild
  <2> QED BY <1>2, <2>2
<1>7. ASSUME NEW s \in Sigs \ {SIGCHLD}
      PROVE  /\ Coherent(s, sigmode, disp, entry)'
             /\ Obeys(s, trap, sigmode, disp, entry, shlvl, iflag, mflag, subst)'
  <2>1. /\ Coherent(s, sigmode, disp, entry)
        /\ Obeys(s, trap, sigmode, disp, entry, shlvl, iflag, mflag, subst)
    BY DEF SigInv
  <2>2. CASE s \in S
    <3>1. /\ Coherent(s, sigmode', disp', entry)
          /\ Obeys(s, trap, sigmode', disp', entry, shlvl, iflag, mflag', subst)
      BY <1>1, <1>2, <2>1, <2>2, SetOne
    <3> QED BY <3>1, <1>2 DEF Coherent, Obeys
  <2>3. CASE s \notin S
    <3>1. sigmode'[s] = sigmode[s] /\ disp'[s] = disp[s]
      BY <1>1, <1>2, <2>3, SetOthers
    <3> QED BY <1>2, <1>5, <2>1, <2>3, <3>1 DEF Coherent, Obeys
  <2> QED BY <2>2, <2>3
<1> QED BY <1>6, <1>7 DEF SigInv

(* forkchild(): what the child's setting of a signal is made of. *)
LEMMA SigForked ==
    ASSUME Scalars, SigInv, NEW mode, Fork(mode), NEW s \in Sigs \ {SIGCHLD}
    PROVE  /\ Coherent(s, sigmode, disp, entry)'
           /\ Obeys(s, trap, sigmode, disp, entry, shlvl, iflag, mflag, subst)'
           /\ trap'[s] = IF trap[s] = "act" THEN "null" ELSE trap[s]
           /\ trap[s] = "act" => disp'[s] # "onsig"
<1> DEFINE bg == IF Background(mode) THEN {SIGINT, SIGQUIT} \cap Sigs ELSE {}
           S == ForkSets(mode)
           m == NewMode(S, trap', sigmode, disp, shlvl', iflag, mflag)
           d == NewDisp(S, trap', sigmode, disp, shlvl', iflag, mflag)
<1>1. trap \in Traps /\ sigmode \in Modes /\ disp \in Disps /\ shlvl \in Nat
      /\ iflag \in BOOLEAN
  BY TrapAssumption DEF Scalars, Traps, Modes, Disps
<1>2. /\ trap' = ForkTraps /\ shlvl' = shlvl + 1 /\ UNCHANGED <<iflag, mflag>>
      /\ subst' = IF shlvl = 0 THEN mode = "nojob" /\ mflag ELSE subst
  BY DEF Fork
<1>3. /\ trap' \in Traps
      /\ trap'[s] = IF trap[s] = "act" THEN "null" ELSE trap[s]
  BY <1>1, <1>2 DEF ForkTraps, Traps
<1>4. shlvl' \in Nat /\ shlvl' > 0 /\ shlvl' # 0
  BY <1>1, <1>2
<1>5. /\ sigmode' = [r \in Sigs |-> IF r \in bg THEN "HARD_IGN" ELSE m[r]]
      /\ disp' = [r \in Sigs |-> IF r \in bg THEN "ign" ELSE d[r]]
      /\ entry' = entry \cup bg
  BY DEF Fork
<1>6. s \in bg => s \notin JobSigs
  BY DEF JobSigs, SIGINT, SIGQUIT, SIGTSTP, SIGTTIN, SIGTTOU
<1>7. /\ s \notin S => trap[s] # "act"
      /\ s \in {SIGQUIT, SIGTERM} /\ shlvl = 0 /\ iflag => s \in S
      /\ s \in {SIGTSTP, SIGTTOU} /\ shlvl = 0 /\ mflag /\ s \notin S => subst'
  BY <1>2 DEF ForkSets
<1>8. /\ Coherent(s, sigmode, disp, entry)
      /\ Obeys(s, trap, sigmode, disp, entry, shlvl, iflag, mflag, subst)
  BY DEF SigInv
<1>9. trap[s] \in {"null", "empty", "act"} /\ sigmode[s] \in {"unknown", "DFL", "CATCH", "IGN", "HARD_IGN"}
  BY <1>1 DEF Traps, Modes
<1> HIDE DEF bg, S
<1>10. CASE s \in bg
  <2>1. sigmode'[s] = "HARD_IGN" /\ disp'[s] = "ign" /\ s \in entry'
    BY <1>5, <1>10
  <2> QED BY <1>3, <1>6, <1>10, <2>1 DEF Coherent, Obeys
<1>11. CASE s \notin bg
  <2>1. sigmode'[s] = m[s] /\ disp'[s] = d[s] /\ (s \in entry' <=> s \in entry)
    BY <1>5, <1>11
  <2>2. CASE s \in S
    <3>1. /\ Coherent(s, m, d, entry)
          /\ Obeys(s, trap', m, d, entry, shlvl', iflag, mflag, subst')
          /\ \/ m[s] = Wanted(s, trap', shlvl', iflag, mflag)
             \/ s \in entry /\ m[s] \in {"unknown", "HARD_IGN"}
      BY <1>1, <1>3, <1>4, <1>8, <2>2, SetOne
    <3> HIDE DEF m, d
    <3>2. /\ Coherent(s, sigmode, disp, entry)'
          /\ Obeys(s, trap, sigmode, disp, entry, shlvl, iflag, mflag, subst)'
      BY <3>1, <2>1, <1>2 DEF Coherent, Obeys
    <3>3. ASSUME trap[s] = "act" PROVE disp'[s] # "onsig"
      <4>1. trap'[s] = "null"
        BY <1>3, <3>3
      <4>2. Wanted(s, trap', shlvl', iflag, mflag) \in {"IGN", "DFL"}
        BY <1>3, <1>4, <4>1, WantedCases
      <4>3. m[s] \in {"IGN", "DFL"} \/ (s \in entry /\ m[s] \in {"unknown", "HARD_IGN"})
        BY <3>1, <4>2
      <4> QED BY <4>3, <3>1, <2>1 DEF Coherent
    <3> QED BY <1>3, <3>2, <3>3
  <2>3. CASE s \notin S
    <3>1. m[s] = sigmode[s] /\ d[s] = disp[s]
      BY <1>1, <2>3, SetOthers
    <3> HIDE DEF m, d
    <3> QED BY <1>2, <1>3, <1>4, <1>7, <1>8, <1>9, <2>1, <2>3, <3>1 DEF Coherent, Obeys
  <2> QED BY <2>2, <2>3
<1> QED BY <1>10, <1>11

(* exec sets the signals of -i and -m. *)
LEMMA SigExec ==
    ASSUME Scalars, SigInv, NEW off, off = FALSE
    PROVE  LET n == NewMode(ExecSets, trap, sigmode, disp, shlvl, off, off)
               e == NewDisp(ExecSets, trap, sigmode, disp, shlvl, off, off)
           IN  /\ \A s \in Sigs \ {SIGCHLD} :
                     /\ Coherent(s, n, e, entry)
                     /\ Obeys(s, trap, n, e, entry, shlvl, off, off, subst)
               /\ SIGCHLD \in Sigs => n[SIGCHLD] = "CATCH" /\ e[SIGCHLD] = "onsig"
<1> DEFINE S == ExecSets
           n == NewMode(S, trap, sigmode, disp, shlvl, off, off)
           e == NewDisp(S, trap, sigmode, disp, shlvl, off, off)
<1>1. trap \in Traps /\ sigmode \in Modes /\ disp \in Disps /\ shlvl \in Nat
  BY TrapAssumption DEF Scalars, Traps, Modes, Disps
<1>2. \A s : /\ s \in {SIGTSTP, SIGTTOU} /\ shlvl = 0 /\ mflag => s \in S
             /\ s \in {SIGQUIT, SIGTERM} /\ iflag => s \in S
  BY DEF ExecSets, JobSigs
<1> HIDE DEF S
<1>3. SIGCHLD \in Sigs => n[SIGCHLD] = "CATCH" /\ e[SIGCHLD] = "onsig"
  <2> SUFFICES ASSUME SIGCHLD \in Sigs
               PROVE  n[SIGCHLD] = "CATCH" /\ e[SIGCHLD] = "onsig"
    OBVIOUS
  <2>1. sigmode[SIGCHLD] = "CATCH" /\ disp[SIGCHLD] = "onsig"
    BY DEF SigInv
  <2> QED BY ONLY <1>1, <2>1, SIGCHLD \in Sigs, SetChild
<1>4. ASSUME NEW s \in Sigs \ {SIGCHLD}
      PROVE  /\ Coherent(s, n, e, entry)
             /\ Obeys(s, trap, n, e, entry, shlvl, off, off, subst)
  <2>1. /\ Coherent(s, sigmode, disp, entry)
        /\ Obeys(s, trap, sigmode, disp, entry, shlvl, iflag, mflag, subst)
    BY DEF SigInv
  <2>2. CASE s \in S
    BY <1>1, <2>1, <2>2, SetOne
  <2>3. CASE s \notin S
    <3>1. n[s] = sigmode[s] /\ e[s] = disp[s]
      BY <1>1, <2>3, SetOthers
    <3> HIDE DEF n, e
    <3>2. Coherent(s, n, e, entry)
      BY <2>1, <3>1 DEF Coherent
    <3>3. Obeys(s, trap, n, e, entry, shlvl, off, off, subst)
      BY <1>2, <2>1, <2>3, <3>1 DEF Obeys
    <3> QED BY <3>2, <3>3
  <2> QED BY <2>2, <2>3
<1> QED BY <1>3, <1>4 DEF S

(* A shell that does without a fork has no trap to drop.                   *)
LEMMA NoForkSame ==
    ASSUME TypeInv, NoFork
    PROVE  /\ trap' = trap /\ sigmode' = sigmode /\ disp' = disp
           /\ UNCHANGED <<entry, iflag, mflag, shlvl, subst>>
<1>1. Scalars /\ trapcnt = 0 /\ ~Exiting /\ pc # "done"
  BY DEF TypeInv, NoFork, LastCommand, Exiting
<1>2. Cardinality(ActsOf(trap)) = 0 /\ IsFiniteSet(ActsOf(trap))
  <2>1. Cardinality(ActsOf(trap)) \in Nat /\ IsFiniteSet(ActsOf(trap))
    BY ActsFinite
  <2>2. 0 = Cardinality(ActsOf(trap)) + 0
    BY <1>1 DEF TypeInv, Counted
  <2> QED BY <2>1, <2>2
<1>3. ActsOf(trap) = {}
  BY <1>2, FS_EmptySet
<1>4. \A s \in Sigs \cup {0} : trap[s] # "act"
  BY <1>3 DEF ActsOf
<1>5. trap' = trap
  BY <1>1, <1>4 DEF NoFork, ForkTraps, Scalars
<1> DEFINE S == {s \in Sigs : trap[s] = "act"}
<1>6. \A s \in Sigs : s \notin S
  BY <1>4
<1>7. /\ sigmode' = NewMode(S, trap', sigmode, disp, shlvl, iflag, mflag)
      /\ disp' = NewDisp(S, trap', sigmode, disp, shlvl, iflag, mflag)
  BY DEF NoFork
<1> HIDE DEF S
<1>8. sigmode' = [s \in Sigs |-> sigmode[s]] /\ disp' = [s \in Sigs |-> disp[s]]
  BY <1>6, <1>7 DEF NewMode, NewDisp
<1>9. sigmode' = sigmode /\ disp' = disp
  BY <1>1, <1>8 DEF Scalars
<1> QED BY <1>5, <1>9 DEF NoFork, optVars

(* Only trap, set -m, exec and a fork touch the settings of signals. *)
LEMMA SigQuiet ==
    ASSUME Scalars, [Next]_vars,
           ~\E s \in Sigs \cup {0}, a \in {"null", "empty", "act"} : TrapCmd(s, a),
           ~SetMonitor, ~NoFork, ~ExecCmd, ~\E mode \in {"fg", "bg", "nojob"} : Fork(mode)
    PROVE  /\ \A s \in Sigs : trap'[s] = trap[s]
           /\ UNCHANGED <<sigmode, disp, entry, iflag, mflag, shlvl, subst>>
<1> DEFINE Same == \A s \in Sigs : trap'[s] = trap[s]
<1>0. 0 \notin Sigs /\ trap \in [Sigs \cup {0} -> {"null", "empty", "act"}]
  BY TrapAssumption DEF Scalars
<1>a. ASSUME NEW st, Resumed \/ ExitTrap(st) \/ Ended PROVE Same
  BY <1>0, <1>a DEF Resumed, ExitTrap, Ended
<1>b. ASSUME Interrupt PROVE Same
  <2>1. CASE Killed
    BY <2>1 DEF Killed
  <2>2. CASE ~Killed
    BY <1>a, <1>b, <2>2, InterruptCases
  <2> QED BY <2>1, <2>2
<1> HIDE DEF Same
<1>1. CASE Begin \/ End \/ ScanEnds \/ Postpone \/ RunTrap \/ ActionEnds \/ SkipEnds \/ IntOff
  BY <1>1 DEF Begin, End, Eval, ScanEnds, Postpone, Return, RunTrap, ActionEnds, SkipEnds, IntOff,
              sigVars, optVars, Same
<1>2. ASSUME NEW st \in {0, 1}, Command(st)
      PROVE  Same /\ UNCHANGED <<sigmode, disp, entry, iflag, mflag, shlvl, subst>>
  <2>1. CASE intpending
    BY <1>2, <2>1, <1>b DEF Command, Done, sigVars, optVars
  <2>2. CASE ~intpending
    BY <1>2, <2>2 DEF Command, Same, sigVars, optVars
  <2> QED BY <2>1, <2>2
<1>3. ASSUME NEW kind, NEW st, Skip(kind, st)
      PROVE  Same /\ UNCHANGED <<sigmode, disp, entry, iflag, mflag, shlvl, subst>>
  BY <1>3 DEF Skip, Same, sigVars, optVars
<1>4. CASE Error
  <2>1. Exception(TRUE, 1) /\ UNCHANGED <<sigVars, optVars>>
    BY <1>4 DEF Error
  <2> QED BY <2>1, <1>a, ExceptionCases DEF sigVars, optVars, Same
<1>5. CASE ExitCmd
  <2>1. PICK st : Exception(FALSE, st)
    BY <1>5 DEF ExitCmd
  <2>2. UNCHANGED <<sigVars, optVars>>
    BY <1>5 DEF ExitCmd
  <2> QED BY <2>1, <2>2, <1>a, ExceptionCases DEF sigVars, optVars, Same
<1>6. CASE EndOfInput
  <2>1. Leave(exitstatus) /\ UNCHANGED <<sigVars, optVars>>
    BY <1>6 DEF EndOfInput
  <2> QED BY <2>1, <1>a, LeaveCases DEF sigVars, optVars, Same
<1>7. ASSUME NEW s \in Sigs, Signal(s)
      PROVE  Same /\ UNCHANGED <<sigmode, disp, entry, iflag, mflag, shlvl, subst>>
  <2>1. UNCHANGED <<sigVars, optVars>>
    BY <1>7 DEF Signal
  <2>2. CASE Interrupt
    BY <2>1, <2>2, <1>b DEF sigVars, optVars
  <2>3. CASE ~Interrupt
    BY <1>7, <2>1, <2>3 DEF Signal, Same, sigVars, optVars
  <2> QED BY <2>2, <2>3
<1>8. ASSUME NEW s \in Sigs, DefaultSignal(s)
      PROVE  Same /\ UNCHANGED <<sigmode, disp, entry, iflag, mflag, shlvl, subst>>
  BY <1>8 DEF DefaultSignal, Killed, Same, sigVars, optVars
<1>9. CASE UNCHANGED vars
  BY <1>9 DEF vars, Same, sigVars, optVars
<1>10. CASE ExecLast
  <2>1. Shellexec /\ UNCHANGED <<sigVars, optVars>>
    BY <1>10 DEF ExecLast
  <2>2. CASE Killed
    BY <2>1, <2>2 DEF Killed, Same, sigVars, optVars
  <2>3. CASE ~Killed
    BY <2>1, <2>3, <1>a, ExecCases DEF sigVars, optVars, Same
  <2> QED BY <2>2, <2>3
<1> QED BY <1>1, <1>2, <1>3, <1>4, <1>5, <1>6, <1>7, <1>8, <1>9, <1>10 DEF Next, Commands, Same

(* Each step keeps the settings sound. *)
LEMMA SigStep == TypeInv /\ SigInv /\ [Next]_vars => SigInv'
<1> SUFFICES ASSUME TypeInv, SigInv, [Next]_vars PROVE SigInv'
  OBVIOUS
<1>1. Scalars
  BY DEF TypeInv
<1>2. CASE \E s \in Sigs \cup {0}, a \in {"null", "empty", "act"} : TrapCmd(s, a)
  BY <1>1, <1>2, SigTrapCmd
<1>3. CASE SetMonitor
  BY <1>1, <1>3, SigSetMonitor
<1>4. CASE \E mode \in {"fg", "bg", "nojob"} : Fork(mode)
  <2>1. PICK mode \in {"fg", "bg", "nojob"} : Fork(mode)
    BY <1>4
  <2>2. \A s \in Sigs \ {SIGCHLD} :
           /\ Coherent(s, sigmode, disp, entry)'
           /\ Obeys(s, trap, sigmode, disp, entry, shlvl, iflag, mflag, subst)'
    BY <1>1, <2>1, SigForked
  <2>3. ASSUME SIGCHLD \in Sigs PROVE sigmode'[SIGCHLD] = "CATCH" /\ disp'[SIGCHLD] = "onsig"
    <3> DEFINE bg == IF Background(mode) THEN {SIGINT, SIGQUIT} \cap Sigs ELSE {}
               m == NewMode(ForkSets(mode), trap', sigmode, disp, shlvl', iflag, mflag)
               d == NewDisp(ForkSets(mode), trap', sigmode, disp, shlvl', iflag, mflag)
    <3>1. trap' \in Traps /\ sigmode \in Modes /\ disp \in Disps
      BY <1>1, <2>1 DEF Scalars, Fork, ForkTraps, Traps, Modes, Disps
    <3>2. m[SIGCHLD] = "CATCH" /\ d[SIGCHLD] = "onsig"
      BY <3>1, <2>3, SetChild DEF SigInv
    <3>3. SIGCHLD \notin bg
      BY DEF SIGCHLD, SIGINT, SIGQUIT
    <3>4. /\ sigmode' = [r \in Sigs |-> IF r \in bg THEN "HARD_IGN" ELSE m[r]]
          /\ disp' = [r \in Sigs |-> IF r \in bg THEN "ign" ELSE d[r]]
      BY <2>1 DEF Fork
    <3> HIDE DEF bg, m, d
    <3> QED BY <2>3, <3>2, <3>3, <3>4
  <2> QED BY <2>2, <2>3 DEF SigInv
<1>5. CASE NoFork
  BY <1>5, NoForkSame, SigSame
<1>6. CASE ExecCmd
  <2>1. /\ sigmode' = NewMode(ExecSets, trap, sigmode, disp, shlvl, FALSE, FALSE)
        /\ disp' = NewDisp(ExecSets, trap, sigmode, disp, shlvl, FALSE, FALSE)
        /\ iflag' = FALSE /\ mflag' = FALSE /\ UNCHANGED <<entry, shlvl, subst>> /\ Shellexec
    BY <1>6 DEF ExecCmd, ExecutedByExec, NewDisp
  <2>2. \A s \in Sigs : trap'[s] = trap[s]
    <3>1. 0 \notin Sigs /\ trap \in [Sigs \cup {0} -> {"null", "empty", "act"}]
      BY <1>1, TrapAssumption DEF Scalars
    <3> QED BY <2>1, <3>1, ExecCases DEF Killed, ExitTrap, Ended
  <2>3. /\ \A s \in Sigs \ {SIGCHLD} :
              /\ Coherent(s, sigmode', disp', entry)
              /\ Obeys(s, trap, sigmode', disp', entry, shlvl, FALSE, FALSE, subst)
        /\ SIGCHLD \in Sigs => sigmode'[SIGCHLD] = "CATCH" /\ disp'[SIGCHLD] = "onsig"
    BY <1>1, <2>1, SigExec
  <2>4. ASSUME NEW s \in Sigs \ {SIGCHLD}
        PROVE  /\ Coherent(s, sigmode, disp, entry)'
               /\ Obeys(s, trap, sigmode, disp, entry, shlvl, iflag, mflag, subst)'
    <3>1. /\ Coherent(s, sigmode', disp', entry)
          /\ Obeys(s, trap, sigmode', disp', entry, shlvl, FALSE, FALSE, subst)
      BY <2>3
    <3>2. trap'[s] = trap[s]
      BY <2>2
    <3>3. /\ entry' = entry /\ shlvl' = shlvl /\ subst' = subst
          /\ iflag' = FALSE /\ mflag' = FALSE
      BY <2>1
    <3>4. Coherent(s, sigmode, disp, entry)'
      BY <3>1, <3>3 DEF Coherent
    <3>5. Obeys(s, trap, sigmode, disp, entry, shlvl, iflag, mflag, subst)'
      BY <3>1, <3>2, <3>3 DEF Obeys
    <3> QED BY <3>4, <3>5
  <2> QED BY <2>3, <2>4 DEF SigInv
<1> QED BY <1>1, <1>2, <1>3, <1>4, <1>5, <1>6, SigQuiet, SigSame

(* What trap has set is in force (trapcmd() calls setsignal(), forkreset() *)
(* and setjobctl() call it again): an action is caught, an empty trap is   *)
(* ignored, and a signal ignored on entry is left alone.                   *)
THEOREM TrapsInForce == Spec => []InForce
<1>1. TypeInv /\ SigInv => InForce
  <2> SUFFICES ASSUME TypeInv, SigInv, NEW s \in Sigs \ {SIGCHLD}
               PROVE  /\ s \notin entry => \/ (trap[s] = "act" <=> disp[s] = "onsig" /\ sigmode[s] = "CATCH")
                                           \/ (trap[s] = "null" /\ s = SIGINT)
                      /\ trap[s] = "empty" => disp[s] = "ign"
                      /\ s \in entry \ JobSigs => disp[s] = "ign"
    BY DEF InForce
  <2>1. /\ trap[s] \in {"null", "empty", "act"}
        /\ sigmode[s] \in {"unknown", "DFL", "CATCH", "IGN", "HARD_IGN"}
    BY DEF TypeInv, Scalars
  <2>2. /\ Coherent(s, sigmode, disp, entry)
        /\ Obeys(s, trap, sigmode, disp, entry, shlvl, iflag, mflag, subst)
    BY DEF SigInv
  <2> QED BY <2>1, <2>2 DEF Coherent, Obeys
<1> QED BY <1>1, TypeInit, TypeStep, SigInit, SigStep, PTL DEF Spec

(* A subshell resets the traps that have an action and leaves those that   *)
(* are empty alone (forkreset(), trap.c:94).                               *)
THEOREM SubshellsReset == Spec => SubshellResets
<1> DEFINE P == shlvl' # shlvl =>
        \A s \in Sigs \ {SIGCHLD} :
            /\ trap[s] = "act" => trap'[s] = "null" /\ disp'[s] # "onsig"
            /\ trap[s] = "empty" => disp'[s] = "ign"
<1>1. TypeInv /\ SigInv /\ [Next]_vars => [P]_vars
  <2> SUFFICES ASSUME TypeInv, SigInv, [Next]_vars, shlvl' # shlvl, NEW s \in Sigs \ {SIGCHLD}
               PROVE  /\ trap[s] = "act" => trap'[s] = "null" /\ disp'[s] # "onsig"
                      /\ trap[s] = "empty" => disp'[s] = "ign"
    OBVIOUS
  <2>1. Scalars
    BY DEF TypeInv
  <2>2. CASE \E r \in Sigs \cup {0}, a \in {"null", "empty", "act"} : TrapCmd(r, a)
    BY <2>2 DEF TrapCmd, optVars
  <2>3. CASE SetMonitor
    BY <2>3 DEF SetMonitor
  <2>4. CASE \E mode \in {"fg", "bg", "nojob"} : Fork(mode)
    <3>1. /\ Obeys(s, trap, sigmode, disp, entry, shlvl, iflag, mflag, subst)'
          /\ trap'[s] = IF trap[s] = "act" THEN "null" ELSE trap[s]
          /\ trap[s] = "act" => disp'[s] # "onsig"
      BY <2>1, <2>4, SigForked
    <3> QED BY <3>1 DEF Obeys
  <2>5. CASE NoFork \/ ExecCmd
    BY <2>5 DEF NoFork, ExecCmd, optVars
  <2> QED BY <2>1, <2>2, <2>3, <2>4, <2>5, SigQuiet
<1> QED BY <1>1, TypeInit, TypeStep, SigInit, SigStep, PTL DEF Spec, SubshellResets

(* vforkexec(): a command ignores only what trap or the shell's own parent *)
(* has told it to ignore, never what the shell ignores for itself.         *)
LEMMA ForkedUnharmed ==
    ASSUME TypeInv, SigInv, NEW s \in Sigs, Executed(s) = "ign"
    PROVE  Told(s)
<1> SUFFICES ASSUME s \notin entry, trap[s] # "empty"
             PROVE  s \in {SIGTSTP, SIGTTOU} /\ subst
  BY DEF Told
<1> DEFINE S == (IF mflag THEN {SIGTSTP, SIGTTOU} ELSE {})
                  \cup (IF iflag THEN {SIGINT, SIGQUIT, SIGTERM} ELSE {})
           T == IF shlvl = 0 THEN S ELSE {}
           e == NewDisp(T, trap, sigmode, disp, 1, iflag, mflag)
           n == NewMode(T, trap, sigmode, disp, 1, iflag, mflag)
<1>1. trap \in Traps /\ sigmode \in Modes /\ disp \in Disps /\ shlvl \in Nat
  BY TrapAssumption DEF TypeInv, Scalars, Traps, Modes, Disps
<1>2. Executed(s) = e[s]
  BY DEF Executed
<1>3. s \in {SIGTSTP, SIGTTOU} /\ mflag /\ shlvl = 0 => s \in T
  OBVIOUS
<1>4. s \in {SIGQUIT, SIGTERM} /\ iflag /\ shlvl = 0 => s \in T
  OBVIOUS
<1>5. trap[s] \in {"null", "act"}
  BY <1>1 DEF Traps
<1> HIDE DEF T
<1>6. s # SIGCHLD
  <2> SUFFICES ASSUME s = SIGCHLD PROVE FALSE
    OBVIOUS
  <2>0. SIGCHLD \in Sigs /\ sigmode[SIGCHLD] = "CATCH" /\ disp[SIGCHLD] = "onsig"
    BY DEF SigInv
  <2>1. e[SIGCHLD] = "onsig"
    BY <1>1, <2>0, SetChild
  <2> QED BY <1>2, <2>1
<1>7. /\ Coherent(s, sigmode, disp, entry)
      /\ Obeys(s, trap, sigmode, disp, entry, shlvl, iflag, mflag, subst)
  BY <1>6 DEF SigInv
<1>8. CASE s \in T
  <2>1. 1 \in Nat /\ 1 # 0
    OBVIOUS
  <2>2. Coherent(s, n, e, entry) /\ n[s] = Wanted(s, trap, 1, iflag, mflag)
    BY <1>1, <1>6, <1>7, <1>8, <2>1, SetOne
  <2>3. Wanted(s, trap, 1, iflag, mflag) \in {"CATCH", "DFL"}
    BY <1>1, <1>5, <1>6, <2>1, WantedCases
  <2> HIDE DEF n, e
  <2> QED BY <1>2, <2>2, <2>3 DEF Coherent
<1>9. CASE s \notin T
  <2>1. e[s] = disp[s]
    BY <1>1, <1>9, SetOthers
  <2>2. sigmode[s] \in {"unknown", "DFL", "CATCH", "IGN", "HARD_IGN"}
    BY <1>1 DEF Modes
  <2>3. sigmode[s] = "IGN" /\ trap[s] = "null"
    BY <1>2, <1>5, <1>7, <2>1, <2>2 DEF Coherent, Obeys
  <2> QED BY <1>3, <1>4, <1>7, <1>9, <2>3 DEF Obeys
<1> QED BY <1>8, <1>9

(* A setting that trap and the options account for ignores a signal only   *)
(* for a reason known: modes m and dispositions d that SigInv describes.   *)
LEMMA IgnoredBy ==
    ASSUME TypeInv, NEW m \in Modes, NEW d \in Disps, NEW s \in Sigs, NEW i, NEW mon, d[s] = "ign",
           s # SIGCHLD => Coherent(s, m, d, entry)
                          /\ Obeys(s, trap, m, d, entry, shlvl, i, mon, subst),
           s = SIGCHLD => d[s] = "onsig"
    PROVE  \/ Told(s)
           \/ /\ shlvl = 0
              /\ (i /\ s \in {SIGQUIT, SIGTERM}) \/ (mon /\ s \in {SIGTSTP, SIGTTOU})
<1> SUFFICES ASSUME s \notin entry, trap[s] # "empty"
             PROVE  \/ s \in {SIGTSTP, SIGTTOU} /\ subst
                    \/ /\ shlvl = 0
                       /\ (i /\ s \in {SIGQUIT, SIGTERM}) \/ (mon /\ s \in {SIGTSTP, SIGTTOU})
  BY DEF Told
<1>1. trap[s] \in {"null", "act"} /\ s # SIGCHLD
  BY DEF TypeInv, Scalars
<1>2. m[s] \in {"unknown", "DFL", "CATCH", "IGN", "HARD_IGN"}
  BY DEF Modes
<1>3. m[s] = "IGN" /\ trap[s] = "null"
  BY <1>1, <1>2 DEF Coherent, Obeys
<1> QED BY <1>1, <1>3 DEF Obeys

(* On each of the three ways to exec, vforkexec(), the shell's own         *)
(* shellexec() of a last command (eval.c:905) and exec (eval.c:1128), a    *)
(* command ignores only what trap or the shell's own parent has told it    *)
(* to; but for the stop signals in a command substitution of a shell with  *)
(* job control, and, when the first shell executes the last command of -c  *)
(* itself, what -i and -m make it ignore.                                  *)
THEOREM CommandsCorrect == Spec => []CommandsUnharmed
<1>1. TypeInv /\ SigInv => CommandsUnharmed
  <2> SUFFICES ASSUME TypeInv, SigInv, NEW s \in Sigs
               PROVE  /\ Executed(s) = "ign" => Told(s)
                      /\ ExecutedByExec(s) = "ign" => Told(s)
                      /\ ExecutedItself(s) = "ign" => Told(s) \/ OwnIgnored(s)
    BY DEF CommandsUnharmed
  <2>1. trap \in Traps /\ sigmode \in Modes /\ disp \in Disps /\ Scalars
    BY DEF TypeInv, Scalars, Traps, Modes, Disps
  <2>2. ASSUME ExecutedByExec(s) = "ign" PROVE Told(s)
    <3> DEFINE n == NewMode(ExecSets, trap, sigmode, disp, shlvl, FALSE, FALSE)
               e == NewDisp(ExecSets, trap, sigmode, disp, shlvl, FALSE, FALSE)
    <3>1. n \in Modes /\ e \in Disps
      BY <2>1, SetsignalType DEF Traps, Modes, Disps
    <3>2. /\ s # SIGCHLD => Coherent(s, n, e, entry)
                            /\ Obeys(s, trap, n, e, entry, shlvl, FALSE, FALSE, subst)
          /\ s = SIGCHLD => e[s] = "onsig"
      BY <2>1, SigExec
    <3>3. e[s] = "ign"
      BY <2>2 DEF ExecutedByExec
    <3> HIDE DEF n, e
    <3> QED BY <3>1, <3>2, <3>3, IgnoredBy
  <2>3. ASSUME ExecutedItself(s) = "ign" PROVE Told(s) \/ OwnIgnored(s)
    <3>1. /\ s # SIGCHLD => Coherent(s, sigmode, disp, entry)
                            /\ Obeys(s, trap, sigmode, disp, entry, shlvl, iflag, mflag, subst)
          /\ s = SIGCHLD => disp[s] = "onsig"
      BY DEF SigInv
    <3>2. disp[s] = "ign"
      BY <2>3 DEF ExecutedItself
    <3> QED BY <2>1, <3>1, <3>2, IgnoredBy DEF OwnIgnored
  <2> QED BY <2>2, <2>3, ForkedUnharmed
<1> QED BY <1>1, TypeInit, TypeStep, SigInit, SigStep, PTL DEF Spec

-----------------------------------------------------------------------------
(* The shell proper, before it leaves: not a subshell, not ending. *)
Running == pc # "done" /\ ~Exiting /\ shlvl = 0

(* An interrupt waits only within a command, and its signal is pending.    *)
IntInv == Running => /\ suppressint => pc = "cmd"
                     /\ intpending => suppressint /\ pending_sig # 0

Kept == IntInv /\ NoTrapLost

(* After an exit or exception nothing is lost, provided what was caught is *)
(* pending when the shell goes on.                                         *)
LEMMA KeptUnwound ==
    ASSUME NEW st, Resumed \/ ExitTrap(st) \/ Ended,
           Resumed => \A s \in gotsig' : pending_sig' # 0
    PROVE  Kept'
<1>1. CASE Resumed
  <2>1. frames' = << >> /\ suppressint' = FALSE /\ intpending' = FALSE
    BY <1>1 DEF Resumed
  <2> QED BY <1>1, <2>1 DEF Kept, IntInv, NoTrapLost
<1>2. CASE ExitTrap(st)
  <2> DEFINE f == [sig |-> 0, last |-> -1, ret |-> "done", at |-> st, exit |-> TRUE]
  <2>1. frames' = <<f>>
    BY <1>2 DEF ExitTrap
  <2>2. 1 \in DOMAIN frames' /\ frames'[1].exit
    BY <2>1
  <2>3. Exiting'
    BY <2>2 DEF Exiting
  <2> QED BY <2>3 DEF Kept, IntInv, NoTrapLost, Running
<1>3. CASE Ended
  BY <1>3 DEF Ended, Kept, IntInv, NoTrapLost, Running
<1> QED BY <1>1, <1>2, <1>3

(* The same for an interrupt. *)
LEMMA KeptInterrupt ==
    ASSUME Interrupt, Resumed => \A s \in gotsig' : pending_sig' # 0
    PROVE  Kept'
<1>1. CASE Killed
  BY <1>1 DEF Killed, Kept, IntInv, NoTrapLost, Running
<1>2. CASE ~Killed
  BY <1>2, InterruptCases, KeptUnwound
<1> QED BY <1>1, <1>2

(* Where the calls under way and the signals stay, nothing is lost. *)
LEMMA KeptSame ==
    ASSUME Kept, pc # "done", frames' = frames, gotsig' = gotsig, pending_sig' = pending_sig,
           shlvl' = shlvl, suppressint' => suppressint \/ pc' = "cmd",
           suppressint => suppressint' \/ ~intpending',
           intpending' => intpending, pc # "cmd" \/ pc' = "cmd" \/ ~suppressint'
    PROVE  Kept'
<1>1. Exiting' = Exiting
  BY DEF Exiting
<1>2. Running' => Running
  BY <1>1 DEF Running
<1>3. NoTrapLost'
  BY <1>1 DEF Kept, NoTrapLost
<1>4. IntInv'
  BY <1>2 DEF Kept, IntInv
<1> QED BY <1>3, <1>4 DEF Kept

(* dotrap() is called: every caught signal is ahead of the new loop. *)
LEMMA KeptEval ==
    ASSUME TypeInv, Kept, NEW from \in {"top", "end"}, NEW to \in {"cmd", "top"}, Eval(from, to)
    PROVE  Kept'
<1>0. Stack /\ Scalars /\ pc = from /\ pc # "done" /\ pc # "cmd"
  BY DEF TypeInv, Eval
<1>1. Exiting' = Exiting
  BY <1>0, ExitingEval
<1>2. shlvl' = shlvl /\ gotsig' = gotsig /\ suppressint' = suppressint /\ intpending' = intpending
  BY DEF Eval, optVars, intVars
<1>3. Running' => Running
  BY <1>0, <1>1, <1>2 DEF Running
<1>4. Running => ~suppressint /\ ~intpending
  BY <1>0 DEF Kept, IntInv
<1>5. IntInv'
  BY <1>2, <1>3, <1>4 DEF IntInv
<1>6. CASE EnterTrap(to)
  <2> DEFINE f == [sig |-> 0, last |-> savestatus, ret |-> to, exit |-> FALSE,
                   at |-> IF frames = << >> THEN exitstatus ELSE 0]
  <2>1. f \in Frame /\ f.sig = 0
    BY <1>0 DEF Stack, Frame, Statuses
  <2>2. frames' = <<f>> \o frames
    BY <1>6 DEF EnterTrap
  <2> HIDE DEF f
  <2>3. frames' \in Seq(Frame) /\ frames' # << >> /\ frames'[1] = f
    BY <1>0, <2>1, <2>2, Pushed DEF Stack
  <2>4. 1 \in DOMAIN frames' /\ frames'[1].sig = 0
    BY <2>1, <2>3
  <2>5. \A s \in gotsig' : s > 0
    BY <1>0, <1>2, TrapAssumption DEF Scalars
  <2> QED BY <1>5, <2>4, <2>5 DEF Kept, NoTrapLost
<1>7. CASE ~EnterTrap(to)
  <2>1. frames' = frames /\ pending_sig' = pending_sig
    BY <1>7 DEF Eval
  <2> QED BY <1>0, <1>1, <1>2, <1>5, <2>1 DEF Kept, NoTrapLost
<1> QED BY <1>6, <1>7

(* The loop ends, or is left with pending_sig set again. *)
LEMMA KeptReturn ==
    ASSUME TypeInv, Kept, ScanEnds \/ Postpone
    PROVE  Kept'
<1>0. Stack /\ Scalars /\ pc = "scan" /\ Return
  BY DEF TypeInv, ScanEnds, Postpone
<1>1. Exiting' = Exiting
  BY <1>0, ExitingReturn
<1>2. shlvl' = shlvl /\ gotsig' = gotsig /\ suppressint' = suppressint /\ intpending' = intpending
  BY <1>0 DEF Return, optVars, intVars
<1>3. Running' => Running
  BY <1>0, <1>1, <1>2 DEF Running
<1>4. Running => ~suppressint /\ ~intpending
  BY <1>0 DEF Kept, IntInv
<1>5. IntInv'
  BY <1>2, <1>3, <1>4 DEF IntInv
<1>6. CASE ScanEnds
  <2>1. Later = {} /\ pending_sig' = pending_sig
    BY <1>6 DEF ScanEnds
  <2>2. frames # << >> /\ frames \in Seq(Frame) /\ frames' = Tail(frames)
    BY <1>0 DEF Stack, Return
  <2>3. \A k \in DOMAIN frames : k # 1 => k - 1 \in DOMAIN frames' /\ frames'[k - 1] = frames[k]
    BY <2>2, Popped
  <2>4. ASSUME Running, NEW s \in gotsig, pending_sig = 0
        PROVE  \E k \in DOMAIN frames' : s > frames'[k].sig
    <3>1. PICK k \in DOMAIN frames : s > frames[k].sig
      BY <2>4 DEF Kept, NoTrapLost, Running
    <3>2. k # 1
      BY <2>1, <3>1 DEF Later
    <3> QED BY <2>3, <3>1, <3>2
  <2>5. NoTrapLost'
    BY <1>2, <1>3, <2>1, <2>4 DEF NoTrapLost, Running
  <2> QED BY <1>5, <2>5 DEF Kept
<1>7. CASE Postpone
  <2>1. Later \in SUBSET Nat /\ Later # {} /\ Later \subseteq Sigs
    BY <1>0, <1>7, TrapAssumption DEF Postpone, Later, Scalars
  <2>2. Lowest(Later) \in Sigs
    BY <2>1, LowestIn
  <2>3. pending_sig' # 0
    BY <1>7, <2>2, TrapAssumption DEF Postpone
  <2> QED BY <1>5, <2>3 DEF Kept, NoTrapLost
<1> QED BY <1>0, <1>6, <1>7 DEF ScanEnds, Postpone

(* The loop takes the lowest signal that is left: the others are higher.   *)
LEMMA KeptRun ==
    ASSUME TypeInv, Kept, RunTrap
    PROVE  Kept'
<1>0. Stack /\ Scalars /\ pc = "scan" /\ pc' # "cmd"
  BY DEF TypeInv, RunTrap
<1> DEFINE low == Lowest(Later)
<1>1. Later \in SUBSET Nat /\ Later # {} /\ Later \subseteq Sigs
  BY <1>0, TrapAssumption DEF RunTrap, Later, Scalars
<1>2. low \in Sigs /\ \A r \in Later : low <= r
  BY <1>1, LowestIn
<1>3. /\ frames' = [frames EXCEPT ![1].sig = low] /\ gotsig' = gotsig \ {low}
      /\ savestatus' = savestatus /\ exitstatus' \in {exitstatus, savestatus}
      /\ pending_sig' = pending_sig /\ shlvl' = shlvl
      /\ suppressint' = suppressint /\ intpending' = intpending
  BY DEF RunTrap, optVars, intVars
<1> HIDE DEF low
<1>4. /\ DOMAIN frames' = DOMAIN frames /\ 1 \in DOMAIN frames /\ frames'[1].sig = low
      /\ \A k \in DOMAIN frames : k # 1 => frames'[k] = frames[k]
  BY <1>0, <1>2, <1>3, StackRun
<1>5. Exiting' = Exiting
  BY <1>0, ExitingRun
<1>6. Running' => Running
  BY <1>0, <1>3, <1>5 DEF Running
<1>7. Running => ~suppressint /\ ~intpending
  BY <1>0 DEF Kept, IntInv
<1>8. IntInv'
  BY <1>3, <1>6, <1>7 DEF IntInv
<1>9. ASSUME Running, NEW s \in gotsig', pending_sig = 0
      PROVE  \E k \in DOMAIN frames' : s > frames'[k].sig
  <2>1. s \in gotsig /\ s # low /\ s \in Nat /\ low \in Nat
    BY <1>0, <1>2, <1>3, TrapAssumption DEF Scalars
  <2>2. PICK k \in DOMAIN frames : s > frames[k].sig
    BY <1>9, <2>1 DEF Kept, NoTrapLost, Running
  <2>3. CASE k = 1
    <3>1. s \in Later
      BY <2>1, <2>2, <2>3 DEF Later
    <3>2. s > low
      BY <1>2, <2>1, <3>1
    <3> QED BY <1>4, <3>2
  <2>4. CASE k # 1
    BY <1>4, <2>2, <2>4
  <2> QED BY <2>3, <2>4
<1>10. NoTrapLost'
  BY <1>3, <1>6, <1>9 DEF NoTrapLost, Running
<1> QED BY <1>8, <1>10 DEF Kept

(* Each step keeps every caught signal, if actions of traps do not fail.   *)
LEMMA KeptStep ==
    ASSUME TrapErrors = FALSE, TypeInv, Kept, [Next]_vars
    PROVE  Kept'
<1> USE TrapAssumption
<1>0. Scalars /\ Stack
  BY DEF TypeInv
<1>1. ASSUME Begin \/ End PROVE Kept'
  BY <1>1, KeptEval DEF Begin, End
<1>2. ASSUME ScanEnds \/ Postpone PROVE Kept'
  BY <1>2, KeptReturn
<1>4. ASSUME RunTrap PROVE Kept'
  BY <1>4, KeptRun
<1>5. ASSUME ActionEnds PROVE Kept'
  <2>1. CASE frames[1].exit
    BY <1>5, <2>1 DEF ActionEnds, Kept, IntInv, NoTrapLost, Running
  <2>2. CASE ~frames[1].exit
    <3>1. /\ pc = "top" /\ pc' = "scan" /\ frames' = frames /\ gotsig' = gotsig
          /\ pending_sig' = pending_sig /\ shlvl' = shlvl
          /\ suppressint' = suppressint /\ intpending' = intpending
      BY <1>5, <2>2 DEF ActionEnds, gotVars, intVars, optVars
    <3> QED BY <3>1, KeptSame
  <2> QED BY <2>1, <2>2
<1>6. ASSUME SkipEnds PROVE Kept'
  <2>1. /\ pc = "top" /\ pc' = "top" /\ frames' = frames /\ gotsig' = gotsig
        /\ pending_sig' = pending_sig /\ shlvl' = shlvl
        /\ suppressint' = suppressint /\ intpending' = intpending
    BY <1>6 DEF SkipEnds, gotVars, intVars, optVars
  <2> QED BY <2>1, KeptSame
<1>7. ASSUME NEW st \in {0, 1}, Command(st) PROVE Kept'
  <2>0. pc = "cmd" /\ gotsig' = gotsig /\ pending_sig' = pending_sig /\ shlvl' = shlvl
    BY <1>7 DEF Command, gotVars, optVars
  <2>1. CASE intpending
    <3>1. Interrupt
      BY <1>7, <2>1 DEF Command, Done
    <3>2. Resumed => pending_sig # 0
      BY <2>0, <2>1 DEF Resumed, Kept, IntInv, Running
    <3> QED BY <2>0, <3>1, <3>2, KeptInterrupt
  <2>2. CASE ~intpending
    <3>1. pc' = "end" /\ ~suppressint' /\ ~intpending' /\ frames' = frames
      BY <1>7, <2>2 DEF Command, Done
    <3> QED BY <2>0, <3>1, KeptSame
  <2> QED BY <2>1, <2>2
<1>8. ASSUME IntOff PROVE Kept'
  <2>1. /\ pc = "cmd" /\ pc' = "cmd" /\ frames' = frames /\ gotsig' = gotsig
        /\ pending_sig' = pending_sig /\ shlvl' = shlvl
        /\ suppressint' = TRUE /\ intpending' = intpending
    BY <1>8 DEF IntOff, gotVars, optVars
  <2> QED BY <2>1, KeptSame
<1>9. ASSUME NEW s, NEW a, TrapCmd(s, a) PROVE Kept'
  <2>1. /\ pc = "cmd" /\ pc' = "end" /\ frames' = frames /\ gotsig' = gotsig
        /\ pending_sig' = pending_sig /\ shlvl' = shlvl /\ ~suppressint' /\ ~intpending'
    BY <1>9 DEF TrapCmd, Done, gotVars, optVars
  <2> QED BY <2>1, KeptSame
<1>10. ASSUME SetMonitor PROVE Kept'
  <2>1. /\ pc = "cmd" /\ pc' = "end" /\ frames' = frames /\ gotsig' = gotsig
        /\ pending_sig' = pending_sig /\ shlvl' = shlvl /\ ~suppressint' /\ ~intpending'
    BY <1>10 DEF SetMonitor, Done, gotVars
  <2> QED BY <2>1, KeptSame
<1>11. ASSUME NEW kind, NEW st, Skip(kind, st) PROVE Kept'
  <2>1. /\ pc = "cmd" /\ pc' = "end" /\ frames' = frames /\ gotsig' = gotsig
        /\ pending_sig' = pending_sig /\ shlvl' = shlvl /\ ~suppressint' /\ ~intpending'
    BY <1>11 DEF Skip, Done, gotVars, optVars
  <2> QED BY <2>1, KeptSame
<1>12. ASSUME Error PROVE Kept'
  <2>1. Exception(TRUE, 1) /\ frames = << >> /\ pc = "cmd" /\ gotsig' = gotsig
        /\ pending_sig' = pending_sig
    BY <1>12 DEF Error, gotVars
  <2>2. Resumed => \A s \in gotsig' : pending_sig' # 0
    BY <2>1 DEF Resumed, Kept, NoTrapLost
  <2> QED BY <2>1, <2>2, ExceptionCases, KeptUnwound
<1>13. ASSUME ExitCmd PROVE Kept'
  <2>1. PICK st : Exception(FALSE, st)
    BY <1>13 DEF ExitCmd
  <2>2. ExitTrap(st) \/ Ended
    BY <2>1, ExceptionCases
  <2>3. ~Resumed
    <3>1. CASE Ended
      BY <3>1 DEF Ended, Resumed
    <3>2. CASE ExitTrap(st)
      <4>1. frames' = <<[sig |-> 0, last |-> -1, ret |-> "done", at |-> st, exit |-> TRUE]>>
        BY <3>2 DEF ExitTrap
      <4>2. frames' # << >>
        BY <4>1
      <4> QED BY <4>2 DEF Resumed
    <3> QED BY <2>2, <3>1, <3>2
  <2> QED BY <2>2, <2>3, KeptUnwound
<1>14. ASSUME EndOfInput PROVE Kept'
  <2>1. ExitTrap(exitstatus) \/ Ended
    BY <1>14, LeaveCases DEF EndOfInput
  <2>2. ~Resumed
    <3>1. CASE Ended
      BY <3>1 DEF Ended, Resumed
    <3>2. CASE ExitTrap(exitstatus)
      <4>1. frames' = <<[sig |-> 0, last |-> -1, ret |-> "done", at |-> exitstatus, exit |-> TRUE]>>
        BY <3>2 DEF ExitTrap
      <4>2. frames' # << >>
        BY <4>1
      <4> QED BY <4>2 DEF Resumed
    <3> QED BY <2>1, <3>1, <3>2
  <2> QED BY <2>1, <2>2, KeptUnwound
<1>15. ASSUME NEW mode, Fork(mode) PROVE Kept'
  <2>1. shlvl' # 0
    BY <1>15, <1>0 DEF Fork, Scalars
  <2> QED BY <2>1 DEF Kept, IntInv, NoTrapLost, Running
<1>16. ASSUME NEW s \in Sigs, Signal(s) PROVE Kept'
  <2>1. pending_sig' # 0 /\ pc # "done" /\ shlvl' = shlvl
    BY <1>16 DEF Signal, optVars
  <2>2. CASE Interrupt
    BY <2>1, <2>2, KeptInterrupt
  <2>3. CASE ~Interrupt
    <3>1. /\ frames' = frames /\ pc' = pc /\ suppressint' = suppressint
          /\ intpending' => intpending \/ (s = SIGINT /\ trap[s] = "null")
          /\ ~(s = SIGINT /\ trap[s] = "null" /\ ~suppressint)
      BY <1>16, <2>3 DEF Signal
    <3>2. Exiting' = Exiting
      BY <3>1 DEF Exiting
    <3>3. Running' => Running
      BY <2>1, <3>1, <3>2 DEF Running
    <3>4. intpending' => intpending \/ suppressint
      BY <3>1
    <3>5. IntInv'
      BY <2>1, <3>1, <3>3, <3>4 DEF Kept, IntInv
    <3>6. NoTrapLost'
      BY <2>1 DEF NoTrapLost
    <3> QED BY <3>5, <3>6 DEF Kept
  <2> QED BY <2>2, <2>3
<1>17. ASSUME NEW s \in Sigs, DefaultSignal(s) PROVE Kept'
  BY <1>17 DEF DefaultSignal, Killed, Kept, IntInv, NoTrapLost, Running
<1>18. CASE UNCHANGED vars
  BY <1>18 DEF vars, Kept, IntInv, NoTrapLost, Running, Exiting, optVars, gotVars, intVars
<1>19. ASSUME NoFork PROVE Kept'
  <2>1. /\ pc = "cmd" /\ pc' = "top" /\ frames' = frames /\ gotsig' = gotsig
        /\ pending_sig' = pending_sig /\ shlvl' = shlvl /\ ~suppressint' /\ ~intpending'
    BY <1>19 DEF NoFork, LastCommand, optVars, gotVars
  <2> QED BY <2>1, KeptSame
<1>20. ASSUME ExecLast \/ ExecCmd PROVE Kept'
  <2>1. Shellexec
    BY <1>20 DEF ExecLast, ExecCmd
  <2>2. CASE Killed
    BY <2>2 DEF Killed, Kept, IntInv, NoTrapLost, Running
  <2>3. CASE ~Killed
    <3>1. ExitTrap(1) \/ Ended
      BY <2>1, <2>3, ExecCases
    <3>2. ~Resumed
      <4>1. CASE Ended
        BY <4>1 DEF Ended, Resumed
      <4>2. CASE ExitTrap(1)
        <5>1. frames' = <<[sig |-> 0, last |-> -1, ret |-> "done", at |-> 1, exit |-> TRUE]>>
          BY <4>2 DEF ExitTrap
        <5>2. frames' # << >>
          BY <5>1
        <5> QED BY <5>2 DEF Resumed
      <4> QED BY <3>1, <4>1, <4>2
    <3> QED BY <3>1, <3>2, KeptUnwound
  <2> QED BY <2>2, <2>3
<1> QED BY <1>1, <1>2, <1>4, <1>5, <1>6, <1>7, <1>8, <1>9, <1>10, <1>11, <1>12, <1>13,
           <1>14, <1>15, <1>16, <1>17, <1>18, <1>19, <1>20 DEF Next, Commands

(* No signal that onsig() caught is forgotten, however dotrap() nests and  *)
(* whatever evalskip leaves undone, as long as no command of an action     *)
(* ends in sh_error(): then exraise() drops the loop over gotsig half way. *)
THEOREM NothingLost ==
    ASSUME TrapErrors = FALSE
    PROVE  Spec => []NoTrapLost
<1>1. Init => Kept
  <2> SUFFICES ASSUME Init PROVE Kept
    OBVIOUS
  <2>1. gotsig = {} /\ suppressint = FALSE /\ intpending = FALSE
    BY DEF Init
  <2> QED BY <2>1 DEF Kept, IntInv, NoTrapLost
<1>2. TypeInv /\ Kept /\ [Next]_vars => Kept'
  BY KeptStep
<1>3. Kept => NoTrapLost
  BY DEF Kept
<1> QED BY <1>1, <1>2, <1>3, TypeInit, TypeStep, PTL DEF Spec

-----------------------------------------------------------------------------
(* The status the outermost dotrap() started with is in savestatus and in  *)
(* every frame but the outermost, whose own saved value says there was     *)
(* none; the loop goes on with it unless an action returned a status.      *)
Saved ==
    /\ frames = << >> => savestatus = -1
    /\ frames # << >> =>
         /\ savestatus = frames[Len(frames)].at /\ frames[Len(frames)].last = -1
         /\ \A k \in DOMAIN frames : k < Len(frames) => frames[k].last = savestatus
    /\ pc = "scan" => exitstatus = savestatus \/ evalskip = "func" \/ Len(frames) # 1
StatInv == shlvl = 0 /\ pc # "done" => Saved

(* Nothing saved changes. *)
LEMMA StatSame ==
    ASSUME StatInv, pc # "done", frames' = frames, savestatus' = savestatus, shlvl' = shlvl,
           pc' = "scan" => pc = "scan" /\ exitstatus' = exitstatus /\ evalskip' = evalskip
    PROVE  StatInv'
BY DEF StatInv, Saved

(* An exit or exception forgets what was saved, or saves the exit status.  *)
LEMMA StatUnwound ==
    ASSUME NEW st, Resumed \/ ExitTrap(st) \/ Ended
    PROVE  StatInv'
<1>1. CASE Resumed
  BY <1>1 DEF Resumed, StatInv, Saved
<1>2. CASE ExitTrap(st)
  <2> DEFINE f == [sig |-> 0, last |-> -1, ret |-> "done", at |-> st, exit |-> TRUE]
  <2>1. frames' = <<f>> /\ savestatus' = st /\ pc' = "top"
    BY <1>2 DEF ExitTrap
  <2>2. f.at = st /\ f.last = -1
    OBVIOUS
  <2> HIDE DEF f
  <2>3. frames' # << >> /\ Len(frames') = 1 /\ frames'[1] = f /\ DOMAIN frames' = {1}
    BY <2>1
  <2> QED BY <2>1, <2>2, <2>3 DEF StatInv, Saved
<1>3. CASE Ended
  BY <1>3 DEF Ended, StatInv
<1> QED BY <1>1, <1>2, <1>3

(* So does an interrupt. *)
LEMMA StatInterrupt ==
    ASSUME Interrupt
    PROVE  StatInv'
<1>1. CASE Killed
  BY <1>1 DEF Killed, StatInv
<1>2. CASE ~Killed
  BY <1>2, InterruptCases, StatUnwound
<1> QED BY <1>1, <1>2

(* dotrap() is called: the outermost call saves the status. *)
LEMMA StatEval ==
    ASSUME TypeInv, StatInv, NEW from \in {"top", "end"}, NEW to \in {"cmd", "top"}, Eval(from, to)
    PROVE  StatInv'
<1>0. Stack /\ pc = from /\ pc # "done" /\ shlvl' = shlvl /\ exitstatus' = exitstatus /\ evalskip' = evalskip
  BY DEF TypeInv, Eval, optVars
<1>1. CASE EnterTrap(to)
  <2> SUFFICES ASSUME shlvl = 0 PROVE Saved'
    BY <1>0 DEF StatInv
  <2>0. Saved
    BY <1>0 DEF StatInv
  <2> DEFINE f == [sig |-> 0, last |-> savestatus, ret |-> to, exit |-> FALSE,
                   at |-> IF frames = << >> THEN exitstatus ELSE 0]
  <2>1. f \in Frame
    BY <1>0, TrapAssumption DEF Stack, Frame, Statuses
  <2>2. f.last = savestatus /\ (frames = << >> => f.at = exitstatus)
    OBVIOUS
  <2>3. frames' = <<f>> \o frames
        /\ savestatus' = IF savestatus < 0 THEN exitstatus ELSE savestatus
    BY <1>1 DEF EnterTrap
  <2> HIDE DEF f
  <2>4. /\ frames \in Seq(Frame) /\ Len(frames) \in Nat /\ DOMAIN frames = 1..Len(frames)
        /\ exitstatus \in {0, 1} /\ savestatus \in {-1, 0, 1}
        /\ frames # << >> => savestatus >= 0
    BY <1>0 DEF Stack, Statuses
  <2>5. /\ frames' \in Seq(Frame) /\ Len(frames') = Len(frames) + 1 /\ frames'[1] = f
        /\ frames' # << >> /\ DOMAIN frames' = 1..(Len(frames) + 1)
        /\ \A k \in DOMAIN frames : frames'[k + 1] = frames[k]
        /\ \A k \in DOMAIN frames' : k # 1 => k - 1 \in DOMAIN frames /\ frames'[k] = frames[k - 1]
    BY <2>1, <2>3, <2>4, Pushed
  <2>6. CASE frames = << >>
    <3>1. Len(frames') = 1 /\ savestatus = -1 /\ savestatus' = exitstatus
      BY <2>0, <2>3, <2>4, <2>5, <2>6 DEF Saved
    <3>2. \A k \in DOMAIN frames' : ~(k < Len(frames'))
      BY <2>4, <2>5, <3>1
    <3> QED BY <1>0, <2>2, <2>5, <2>6, <3>1, <3>2 DEF Saved
  <2>7. CASE frames # << >>
    <3>1. savestatus' = savestatus /\ Len(frames) \in DOMAIN frames /\ Len(frames') # 1
      BY <2>3, <2>4, <2>5, <2>7
    <3>2. frames'[Len(frames')] = frames[Len(frames)]
      BY <2>5, <3>1
    <3>3. ASSUME NEW k \in DOMAIN frames', k < Len(frames') PROVE frames'[k].last = savestatus
      <4>1. CASE k = 1
        BY <2>2, <2>5, <4>1
      <4>2. CASE k # 1
        <5>1. k - 1 \in DOMAIN frames /\ k - 1 < Len(frames) /\ frames'[k] = frames[k - 1]
          BY <2>4, <2>5, <3>3, <4>2
        <5> QED BY <2>0, <2>7, <5>1 DEF Saved
      <4> QED BY <4>1, <4>2
    <3> QED BY <2>0, <2>5, <2>7, <3>1, <3>2, <3>3 DEF Saved
  <2> QED BY <2>6, <2>7
<1>2. CASE ~EnterTrap(to)
  <2>1. frames' = frames /\ savestatus' = savestatus /\ pc' = to
    BY <1>2 DEF Eval
  <2> QED BY <1>0, <2>1, StatSame
<1> QED BY <1>1, <1>2

(* dotrap() returns: the call it interrupted finds its status again.       *)
LEMMA StatReturn ==
    ASSUME TypeInv, StatInv, pc = "scan", Return
    PROVE  StatInv'
<1>0. Stack /\ shlvl' = shlvl
  BY DEF TypeInv, Return, optVars
<1> SUFFICES ASSUME shlvl = 0 PROVE Saved'
  BY <1>0 DEF StatInv
<1>1. Saved
  BY DEF StatInv
<1>2. frames # << >> /\ frames \in Seq(Frame) /\ Len(frames) \in Nat /\ DOMAIN frames = 1..Len(frames)
      /\ frames[1] \in Frame
  BY <1>0 DEF Stack
<1>3. frames' = Tail(frames) /\ savestatus' = frames[1].last /\ pc' = frames[1].ret
  BY DEF Return
<1>4. /\ frames' \in Seq(Frame) /\ Len(frames') = Len(frames) - 1
      /\ \A k \in DOMAIN frames' : k + 1 \in DOMAIN frames /\ frames'[k] = frames[k + 1]
  BY <1>2, <1>3, Popped
<1>5. pc' # "scan"
  BY <1>2, <1>3 DEF Frame
<1>6. CASE Len(frames) = 1
  <2>1. frames' = << >> /\ savestatus' = -1
    BY <1>1, <1>2, <1>3, <1>4, <1>6 DEF Saved
  <2> QED BY <1>5, <2>1 DEF Saved
<1>7. CASE Len(frames) # 1
  <2>1. 1 < Len(frames) /\ 1 \in DOMAIN frames /\ Len(frames') \in DOMAIN frames' /\ frames' # << >>
    BY <1>2, <1>4, <1>7
  <2>2. savestatus' = savestatus
    BY <1>1, <1>2, <1>3, <2>1 DEF Saved
  <2>3. frames'[Len(frames')] = frames[Len(frames)]
    BY <1>2, <1>4, <2>1
  <2>4. ASSUME NEW k \in DOMAIN frames', k < Len(frames') PROVE frames'[k].last = savestatus
    <3>1. k + 1 \in DOMAIN frames /\ k + 1 < Len(frames) /\ frames'[k] = frames[k + 1]
      BY <1>2, <1>4, <2>4
    <3> QED BY <1>1, <1>2, <3>1 DEF Saved
  <2> QED BY <1>1, <1>2, <1>5, <2>1, <2>2, <2>3, <2>4 DEF Saved
<1> QED BY <1>6, <1>7

(* The loop takes a signal: the status stays, or is set from savestatus.   *)
LEMMA StatRun ==
    ASSUME TypeInv, StatInv, RunTrap
    PROVE  StatInv'
<1>0. Stack /\ Scalars /\ pc = "scan" /\ shlvl' = shlvl /\ evalskip' = evalskip
  BY DEF TypeInv, RunTrap, optVars
<1> SUFFICES ASSUME shlvl = 0 PROVE Saved'
  BY <1>0 DEF StatInv
<1>1. Saved
  BY <1>0 DEF StatInv
<1>2. Later \in SUBSET Nat /\ Later # {} /\ Later \subseteq Sigs
  BY <1>0, TrapAssumption DEF RunTrap, Later, Scalars
<1>3. Lowest(Later) \in Sigs
  BY <1>2, LowestIn
<1>4. /\ frames' = [frames EXCEPT ![1].sig = Lowest(Later)]
      /\ savestatus' = savestatus /\ exitstatus' \in {exitstatus, savestatus}
  BY DEF RunTrap
<1>5. /\ Len(frames') = Len(frames) /\ DOMAIN frames' = DOMAIN frames /\ 1 \in DOMAIN frames
      /\ \A k \in DOMAIN frames : frames'[k].last = frames[k].last /\ frames'[k].at = frames[k].at
  BY <1>0, <1>3, <1>4, StackRun
<1>6. frames # << >> /\ frames \in Seq(Frame) /\ Len(frames) \in DOMAIN frames
  BY <1>0 DEF Stack
<1>7. frames' # << >>
  BY <1>5
<1> QED BY <1>0, <1>1, <1>4, <1>5, <1>6, <1>7 DEF Saved

(* Each step keeps the saved status. *)
LEMMA StatStep == TypeInv /\ StatInv /\ [Next]_vars => StatInv'
<1> SUFFICES ASSUME TypeInv, StatInv, [Next]_vars PROVE StatInv'
  OBVIOUS
<1> USE TrapAssumption
<1>1. ASSUME Begin \/ End PROVE StatInv'
  BY <1>1, StatEval DEF Begin, End
<1>2. ASSUME ScanEnds \/ Postpone PROVE StatInv'
  BY <1>2, StatReturn DEF ScanEnds, Postpone
<1>3. ASSUME RunTrap PROVE StatInv'
  BY <1>3, StatRun
<1>4. ASSUME ActionEnds PROVE StatInv'
  <2>1. CASE frames[1].exit
    BY <1>4, <2>1 DEF ActionEnds, StatInv
  <2>2. CASE ~frames[1].exit
    <3>1. /\ frames' = frames /\ savestatus' = savestatus /\ pc # "done" /\ shlvl' = shlvl
          /\ evalskip' = evalskip /\ (evalskip = "func" \/ exitstatus' = savestatus)
      BY <1>4, <2>2 DEF ActionEnds, AfterAction, optVars
    <3> QED BY <3>1 DEF StatInv, Saved
  <2> QED BY <2>1, <2>2
<1>5. ASSUME SkipEnds PROVE StatInv'
  BY <1>5, StatSame DEF SkipEnds, statVars, optVars
<1>6. ASSUME NEW st, Command(st) PROVE StatInv'
  <2>1. CASE intpending
    BY <1>6, <2>1, StatInterrupt DEF Command, Done
  <2>2. CASE ~intpending
    BY <1>6, <2>2, StatSame DEF Command, Done, optVars
  <2> QED BY <2>1, <2>2
<1>7. ASSUME IntOff PROVE StatInv'
  BY <1>7, StatSame DEF IntOff, statVars, optVars
<1>8. ASSUME NEW s, NEW a, TrapCmd(s, a) PROVE StatInv'
  BY <1>8, StatSame DEF TrapCmd, Done, optVars
<1>9. ASSUME SetMonitor PROVE StatInv'
  BY <1>9, StatSame DEF SetMonitor, Done
<1>10. ASSUME NEW kind, NEW st, Skip(kind, st) PROVE StatInv'
  BY <1>10, StatSame DEF Skip, Done, optVars
<1>11. ASSUME Error \/ ExitCmd PROVE StatInv'
  <2>1. PICK st, goon : Exception(goon, st)
    BY <1>11 DEF Error, ExitCmd
  <2> QED BY <2>1, ExceptionCases, StatUnwound
<1>12. ASSUME EndOfInput PROVE StatInv'
  BY <1>12, LeaveCases, StatUnwound DEF EndOfInput
<1>13. ASSUME NEW mode, Fork(mode) PROVE StatInv'
  <2>1. shlvl' # 0
    BY <1>13 DEF Fork, TypeInv, Scalars
  <2> QED BY <2>1 DEF StatInv
<1>14. ASSUME NEW s \in Sigs, Signal(s) PROVE StatInv'
  <2>1. CASE Interrupt
    BY <2>1, StatInterrupt
  <2>2. CASE ~Interrupt
    BY <1>14, <2>2, StatSame DEF Signal, statVars, optVars
  <2> QED BY <2>1, <2>2
<1>15. ASSUME NEW s, DefaultSignal(s) PROVE StatInv'
  BY <1>15 DEF DefaultSignal, Killed, StatInv
<1>16. CASE UNCHANGED vars
  BY <1>16 DEF vars, StatInv, Saved, statVars, optVars
<1>17. ASSUME NoFork PROVE StatInv'
  BY <1>17, StatSame DEF NoFork, LastCommand, statVars, optVars
<1>18. ASSUME ExecLast \/ ExecCmd PROVE StatInv'
  <2>1. Shellexec
    BY <1>18 DEF ExecLast, ExecCmd
  <2>2. CASE Killed
    BY <2>2 DEF Killed, StatInv
  <2>3. CASE ~Killed
    BY <2>1, <2>3, ExecCases, StatUnwound
  <2> QED BY <2>2, <2>3
<1> QED BY <1>1, <1>2, <1>3, <1>4, <1>5, <1>6, <1>7, <1>8, <1>9, <1>10, <1>11, <1>12, <1>13,
           <1>14, <1>15, <1>16, <1>17, <1>18 DEF Next, Commands

(* A trap leaves $? alone: dotrap() (trap.c:314-353) goes from one action  *)
(* to the next, and back to the command it interrupted, with the status it *)
(* found, unless an action ended in return with a status.                  *)
THEOREM StatusCorrect == Spec => []StatusKept
<1>1. Init => StatInv
  <2> SUFFICES ASSUME Init PROVE StatInv
    OBVIOUS
  <2>1. frames = << >> /\ savestatus = -1 /\ pc = "top"
    BY DEF Init
  <2> QED BY <2>1 DEF StatInv, Saved
<1>2. TypeInv /\ StatInv => StatusKept
  <2> SUFFICES ASSUME TypeInv, StatInv, pc = "scan", Len(frames) = 1, shlvl = 0
               PROVE  exitstatus = frames[1].at \/ evalskip = "func"
    BY DEF StatusKept
  <2>1. Saved /\ frames # << >>
    BY DEF StatInv, TypeInv, Stack
  <2> QED BY <2>1 DEF Saved
<1> QED BY <1>1, <1>2, TypeInit, TypeStep, StatStep, PTL DEF Spec

=============================================================================
