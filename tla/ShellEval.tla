----------------------------- MODULE ShellEval -----------------------------
(***************************************************************************)
(* The evaluator (eval.c) with what it takes back when a command ends:     *)
(* redirections, local variables, input files (input.c, main.c), and the   *)
(* ways a command ends other than by its last line: break, continue,       *)
(* return, and the exceptions of error.c.                                  *)
(*                                                                         *)
(* The script is not given: at each moment the innermost construct may run *)
(* any command next, or end.  frames is the C call stack: one frame for    *)
(* each evalloop(), evalfor(), redirected compound command (NREDIR) and    *)
(* evalcommand() of a function, of eval and of a dot script, with the      *)
(* local variables the code keeps for the time after.  Only evalskip tells *)
(* the callers that commands are to be skipped.                            *)
(***************************************************************************)
EXTENDS ShellRedir, ShellVar

CONSTANTS
    Redirs,     \* the lists of redirections commands may have
    Scripts,    \* what a dot script is, as an open file
    KeepFd,     \* Keep of ShellScopes, for descriptors
    Statuses,   \* exit statuses of commands, and those given to return
    Marks,      \* what scripts mark variables as: export, readonly
    MaxDepth,   \* nesting
    MaxLocals,  \* local commands in one scope
    LoopErrors, \* whether an error may leave a loop inside "command eval"
    TestReturns \* whether a plain return may be in the condition of a loop

ASSUME EvalAssumption ==
    /\ Redirs \subseteq Seq(Redirection)
    /\ Marks \subseteq {"export", "readonly"}
    /\ Scripts # NoFile /\ KeepFd \notin Files \cup {Scripts, NoFile}
    /\ Statuses \subseteq 0..255
    /\ MaxDepth \in Nat /\ MaxLocals \in Nat
    /\ LoopErrors \in BOOLEAN /\ TestReturns \in BOOLEAN

VARIABLES
    pc,         \* "run", or "exit" once exitshell() is called
    iflag,      \* whether the shell is interactive
    frames,
    evalskip, skipcount, loopnest,
    exitstatus,
    rd,         \* redirlist, closed_redirs and the open descriptors: see ShellRedir
    lv,         \* the variables and localvar_stack: see ShellVar
    files,      \* the input files above the first: a descriptor, or -1 for a string
    goal        \* history: where the break, continue or return under way should lead
vars == <<pc, iflag, frames, evalskip, skipcount, loopnest, exitstatus, rd, lv, files, goal>>

Skips == {"SKIPBREAK", "SKIPCONT", "SKIPFUNC", "SKIPFUNCDEF"}
None == "0"                                \* evalskip == 0
NoGoal == [to |-> 0, how |-> "none", status |-> 0]

Init ==
    /\ pc = "run" /\ iflag \in BOOLEAN
    /\ frames = << >> /\ evalskip = None /\ skipcount = 0 /\ loopnest = 0
    /\ exitstatus = 0
    /\ rd = NoRedirs /\ lv = NoVars /\ files = << >>
    /\ goal = NoGoal

-----------------------------------------------------------------------------
(* Frames.  stop keeps redir_stop, file_stop and localvar_stop.            *)
Stops == [redir |-> Len(rd.list), file |-> Len(files), local |-> Len(lv.stack)]
Frame(kind, spclbltin, rs) ==
    [kind |-> kind, spclbltin |-> spclbltin, redir |-> rs # << >>, stop |-> Stops,
     saveloopnest |-> loopnest, test |-> FALSE, status |-> 0]
IsLoop(f) == f.kind \in {"while", "for"}
IsCall(f) == f.kind \in {"function", "eval", "dotcmd", "dot"}

Depth == Len(frames)
Top == frames[Depth]
Outer == SubSeq(frames, 1, Depth - 1)

(* A command may be run: nothing is being skipped.  That lists, conditions *)
(* and input are left while something is, is checked all over evaltree(),  *)
(* evalstring() and cmdloop().                                             *)
Running == pc = "run" /\ evalskip = None /\ (Depth > 0 => Top.kind # "dotcmd")

-----------------------------------------------------------------------------
(* unwindfiles(), on input files fs and descriptors r *)
unwindfiles(r, fs, stop) ==
    LET fds == {fs[i] : i \in (stop + 1)..Len(fs)} \ {-1}
    IN [r EXCEPT !.ofile = [d \in Desc |-> IF d \in fds THEN NoFile ELSE @[d]]]

(* "out:" of evalcommand() for frame f *)
Out(f, r, v) ==
    LET p == IF f.redir THEN popredir(r, FALSE) ELSE r
    IN /\ rd' = unwindfiles(unwindredir(p, f.stop.redir), files, f.stop.file)
       /\ files' = SubSeq(files, 1, f.stop.file)
       /\ lv' = [unwindlocalvars(v, f.stop.local) EXCEPT !.ok = TRUE]

(* An exception e, in frames fs, with descriptors r and variables v.  An   *)
(* error is caught by the evalbltin() of a built-in that is not special,   *)
(* that is by "command"; evalfun() only puts back what it has saved.       *)
Catches(e, f) == e = "EXERROR" /\ f.kind \in {"eval", "dotcmd", "dot"} /\ ~f.spclbltin
NestAfter(fs, i) ==
    LET funs == {j \in i..Len(fs) : fs[j].kind = "function"}
    IN IF funs = {} THEN loopnest ELSE fs[Min(funs)].saveloopnest

(* A loop that is left with no evalfun() around it on the way to frame i.  *)
LeavesLoop(fs, i) ==
    \E j \in i..Len(fs) : IsLoop(fs[j]) /\ \A k \in i..j : fs[k].kind # "function"

exitreset(r) == evalskip' = None /\ loopnest' = 0 /\ rd' = unwindredir(r, 0)

Exraise(e, fs, r, v) ==
    LET handlers == {i \in DOMAIN fs : Catches(e, fs[i])}
        i == Max(handlers)
    IN IF handlers # {}
       THEN /\ LoopErrors \/ ~LeavesLoop(fs, i)
            /\ frames' = SubSeq(fs, 1, i - 1)
            /\ Out(fs[i], r, v)
            /\ loopnest' = NestAfter(fs, i)
            /\ UNCHANGED <<pc, evalskip, goal>>
       ELSE /\ frames' = << >> /\ goal' = NoGoal
            /\ IF iflag /\ e \in {"EXERROR", "EXINT"}
               THEN \* reset()
                    /\ pc' = "run" /\ files' = << >>
                    /\ evalskip' = None /\ loopnest' = 0
                    /\ rd' = unwindfiles(unwindredir(r, 0), files, 0)
                    /\ lv' = [unwindlocalvars(v, 0) EXCEPT !.ok = TRUE]
               ELSE /\ pc' = "exit" /\ exitreset(r)
                    /\ lv' = [v EXCEPT !.ok = TRUE] /\ UNCHANGED files

Error(fs, r, v) == exitstatus' = 2 /\ Exraise("EXERROR", fs, r, v)

-----------------------------------------------------------------------------
(* Commands that begin something.  The variable of a for loop is not one   *)
(* of Vars; until is while with the test the other way round.              *)

While ==
    /\ Running /\ Depth < MaxDepth
    /\ frames' = Append(frames, [Frame("while", FALSE, << >>) EXCEPT !.test = TRUE])
    /\ loopnest' = loopnest + 1
    /\ UNCHANGED <<pc, iflag, evalskip, skipcount, exitstatus, rd, lv, files, goal>>

(* NFOR; one over an empty list of words, which is over at once, is left out *)
For ==
    /\ Running /\ Depth < MaxDepth
    /\ frames' = Append(frames, Frame("for", FALSE, << >>))
    /\ loopnest' = loopnest + 1
    /\ UNCHANGED <<pc, iflag, evalskip, skipcount, exitstatus, rd, lv, files, goal>>

(* NREDIR *)
Block(rs) ==
    LET r == redirect(pushredir(rd, rs), rs) IN
    /\ Running /\ Depth < MaxDepth
    /\ IF r.ok
       THEN /\ frames' = Append(frames, Frame("block", FALSE, rs))
            /\ rd' = r /\ UNCHANGED exitstatus
       ELSE /\ rd' = popredir(r, FALSE) /\ exitstatus' = 2 /\ UNCHANGED frames
    /\ UNCHANGED <<pc, iflag, evalskip, skipcount, loopnest, lv, files, goal>>

(* evalcommand() of a function, of eval or of a dot script, perhaps by way *)
(* of "command", with redirections and an assignment as (<<>> for none).   *)
Enter(f, r, v) ==
    /\ frames' = Append(frames, f) /\ lv' = v
    /\ \/ f.kind = "function" /\ loopnest' = 0 /\ rd' = r /\ UNCHANGED files
       \/ f.kind = "eval" /\ rd' = r /\ files' = Append(files, -1) /\ UNCHANGED loopnest
       \/ f.kind = "dotcmd" /\ rd' = r /\ UNCHANGED <<loopnest, files>>
    /\ UNCHANGED <<pc, evalskip, exitstatus, goal>>

Assigned(v, vlocal, as) ==
    IF as = << >> THEN v
    ELSE IF vlocal THEN mklocal(v, as[1], as[2], {"export"})
    ELSE setvareq(v, as[1], as[2], {})

Call(kind, command, rs, as) ==
    LET spclbltin == kind # "function" /\ ~command
        f  == Frame(kind, spclbltin, rs)
        r  == redirect(pushredir(rd, rs), rs)
        v1 == pushlocalvars(lv, ~spclbltin)
        v2 == Assigned(v1, ~spclbltin, as)
    IN /\ Running /\ Depth < MaxDepth
       /\ IF r.ok /\ v2.ok
          THEN Enter(f, r, v2)
          ELSE IF ~r.ok /\ ~spclbltin
          THEN exitstatus' = 2 /\ Out(f, r, v1) /\ UNCHANGED <<pc, frames, evalskip, loopnest, goal>>
          ELSE Error(frames, r, IF r.ok THEN v2 ELSE v1)
       /\ UNCHANGED <<iflag, skipcount>>

(* dotcmd(): the script is opened, at a descriptor out of the way, or not  *)
(* found.                                                                  *)
OpenScript ==
    /\ pc = "run" /\ Depth > 0 /\ Top.kind = "dotcmd"
    /\ \/ /\ frames' = [frames EXCEPT ![Depth].kind = "dot"]
          /\ rd' = [rd EXCEPT !.ofile[Lowest(rd, 10)] = Scripts]
          /\ files' = Append(files, Lowest(rd, 10))
          /\ UNCHANGED <<pc, evalskip, loopnest, exitstatus, lv, goal>>
       \/ Error(frames, rd, lv)
    /\ UNCHANGED <<iflag, skipcount>>

-----------------------------------------------------------------------------
(* Commands that are done at once *)

Simple ==
    /\ Running /\ exitstatus' \in Statuses
    /\ UNCHANGED <<pc, iflag, frames, evalskip, skipcount, loopnest, rd, lv, files, goal>>

(* A special built-in fails. *)
Fails ==
    /\ Running /\ Error(frames, rd, lv)
    /\ UNCHANGED <<iflag, skipcount>>

(* exec without a program *)
Exec(command, rs) ==
    LET r == redirect(pushredir(rd, rs), rs) IN
    /\ Running
    /\ IF r.ok \/ command
       THEN /\ rd' = popredir(r, TRUE) /\ exitstatus' = IF r.ok THEN 0 ELSE 2
            /\ UNCHANGED <<pc, frames, evalskip, loopnest, lv, files, goal>>
       ELSE Error(frames, r, lv)
    /\ UNCHANGED <<iflag, skipcount>>

(* x=value, unset, export, readonly, local: v is what becomes of the       *)
(* variables.                                                              *)
SetVars(v) ==
    /\ Running
    /\ IF v.ok
       THEN /\ lv' = v /\ exitstatus' = 0
            /\ UNCHANGED <<pc, frames, evalskip, loopnest, rd, files, goal>>
       ELSE Error(frames, rd, v)
    /\ UNCHANGED <<iflag, skipcount>>

VarCommand(x) ==
    \/ \E value \in Values \cup {Unset} : SetVars(setvareq(lv, x, value, {}))
    \/ \E flag \in Marks : SetVars(exportcmd(lv, x, flag))
    \/ \E value \in Values \cup {NoValue} :
          \/ lv.stack = << >> /\ SetVars(Failed(lv))
          \/ /\ lv.stack # << >> /\ Len(lv.stack[Len(lv.stack)]) < MaxLocals
             /\ SetVars(mklocal(lv, x, value, {}))

(* Where break n, continue n and return should lead: the nth loop around   *)
(* them in the same function, the function or dot script, or the top.      *)
Loops == {i \in DOMAIN frames :
             IsLoop(frames[i]) /\ \A j \in i..Depth : frames[j].kind # "function"}
Nth(n) == CHOOSE i \in Loops :
    LET inner == Cardinality({j \in Loops : j >= i}) IN inner = n \/ (inner < n /\ i = Min(Loops))
Returns == {i \in DOMAIN frames : frames[i].kind \in {"function", "dot"}}
To == IF Returns = {} THEN 0 ELSE Max(Returns)

CountRaw(n) == n                           \* mutant: not limited
Count(n) == Min({n, loopnest})
breakcmd(skip, n) ==
    LET m == Count(n) IN
    /\ Running
    /\ exitstatus' = 0
    /\ IF m > 0 THEN evalskip' = skip /\ skipcount' = m ELSE UNCHANGED <<evalskip, skipcount>>
    /\ goal' = IF Loops = {} THEN NoGoal
               ELSE [to |-> Nth(n), how |-> IF skip = "SKIPBREAK" THEN "end" ELSE "next", status |-> 0]
    /\ UNCHANGED <<pc, iflag, frames, loopnest, rd, lv, files>>

returncmd(skip, status) ==
    /\ Running
    /\ TestReturns \/ skip = "SKIPFUNC" \/ \A i \in (To + 1)..Depth : ~frames[i].test
    /\ evalskip' = skip /\ exitstatus' = status
    /\ goal' = [to |-> To, how |-> "return", status |-> status]
    /\ UNCHANGED <<pc, iflag, frames, skipcount, loopnest, rd, lv, files>>

exitcmd ==
    /\ Running /\ Exraise("EXEXIT", frames, rd, lv)
    /\ UNCHANGED <<iflag, skipcount, exitstatus>>

(* onint() in an interactive shell, at any moment *)
Interrupt ==
    /\ pc = "run" /\ iflag
    /\ exitstatus' = 130 /\ Exraise("EXINT", frames, rd, lv)
    /\ UNCHANGED <<iflag, skipcount>>

-----------------------------------------------------------------------------
(* Constructs end *)

(* skiploop(): what it returns, and what it leaves in evalskip, skipcount  *)
LevelsAll == evalskip # None               \* mutant: return counts loops too
Levels == evalskip \in {"SKIPBREAK", "SKIPCONT"}
LastLevel == Levels /\ skipcount - 1 <= 0
Skip == IF Levels /\ ~LastLevel THEN "SKIPBREAK" ELSE evalskip
SkipLoop ==
    /\ evalskip' = IF LastLevel THEN None ELSE evalskip
    /\ skipcount' = IF Levels THEN skipcount - 1 ELSE skipcount
    /\ goal' = IF LastLevel THEN NoGoal ELSE goal
Leaves == Skip \notin {None, "SKIPCONT"}

LeaveLoop(status) == frames' = Outer /\ loopnest' = loopnest - 1 /\ exitstatus' = status
Goto(test, status) ==
    /\ frames' = [frames EXCEPT ![Depth].test = test, ![Depth].status = status]
    /\ UNCHANGED <<loopnest, exitstatus>>

EndTest ==
    /\ pc = "run" /\ Depth > 0 /\ Top.test
    /\ SkipLoop
    /\ IF Leaves THEN LeaveLoop(IF Skip = "SKIPFUNC" THEN exitstatus ELSE Top.status)
       ELSE IF Skip = "SKIPCONT" THEN Goto(TRUE, Top.status)
       ELSE IF exitstatus # 0 THEN LeaveLoop(Top.status)
       ELSE Goto(FALSE, Top.status)
    /\ UNCHANGED <<pc, iflag, rd, lv, files>>

EndBody ==
    /\ pc = "run" /\ Depth > 0 /\ IsLoop(Top) /\ ~Top.test
    /\ SkipLoop
    /\ IF Leaves THEN LeaveLoop(exitstatus)
       ELSE \/ Goto(Top.kind = "while", IF Top.kind = "while" THEN exitstatus ELSE 0)
            \/ Top.kind = "for" /\ LeaveLoop(exitstatus)
    /\ UNCHANGED <<pc, iflag, rd, lv, files>>

EndBlock ==
    /\ pc = "run" /\ Depth > 0 /\ Top.kind = "block"
    /\ frames' = Outer /\ rd' = popredir(rd, FALSE)
    /\ UNCHANGED <<pc, iflag, evalskip, skipcount, loopnest, exitstatus, lv, files, goal>>

(* evalfun(), evalstring() in evalcmd(), cmdloop(0) in dotcmd(); that an eval or a
   file of no command at all gives 0 is left out *)
Returning == evalskip \in {"SKIPFUNC", "SKIPFUNCDEF"}
SkipEndsAll == Returning                   \* mutant: eval ends a return
SkipEnds == Returning /\ Top.kind # "eval"
NestKept == loopnest                       \* mutant: not put back
NestThen == IF Top.kind = "function" THEN Top.saveloopnest ELSE loopnest
EndCall ==
    /\ pc = "run" /\ Depth > 0 /\ Top.kind \in {"function", "eval", "dot"}
    /\ frames' = Outer /\ loopnest' = NestThen
    /\ IF SkipEnds THEN evalskip' = None /\ goal' = NoGoal ELSE UNCHANGED <<evalskip, goal>>
    /\ Out(Top, rd, lv)
    /\ UNCHANGED <<pc, iflag, skipcount, exitstatus>>

(* cmdloop(1) ends, and with it the shell. *)
EndTop ==
    /\ pc = "run" /\ frames = << >> /\ evalskip # None
    /\ pc' = "exit" /\ evalskip' = IF Returning THEN None ELSE evalskip
    /\ UNCHANGED <<iflag, frames, skipcount, loopnest, exitstatus, rd, lv, files, goal>>

Begin ==
    \/ While \/ For \/ OpenScript \/ \E rs \in Redirs \ {<< >>} : Block(rs)
    \/ \E rs \in Redirs, as \in {<< >>} \cup (Vars \X Values) :
          \/ Call("function", FALSE, rs, as)
          \/ \E kind \in {"eval", "dotcmd"}, command \in BOOLEAN : Call(kind, command, rs, as)
Do ==
    \/ Simple \/ Fails \/ exitcmd \/ Interrupt
    \/ \E command \in BOOLEAN, rs \in Redirs \ {<< >>} : Exec(command, rs)
    \/ \E x \in Vars : VarCommand(x)
    \/ \E skip \in {"SKIPBREAK", "SKIPCONT"}, n \in 1..2 : breakcmd(skip, n)
    \/ \E status \in Statuses : returncmd("SKIPFUNC", status)
    \/ returncmd("SKIPFUNCDEF", exitstatus)
End == EndTest \/ EndBody \/ EndBlock \/ EndCall \/ EndTop

Next == Begin \/ Do \/ End
Spec == Init /\ [][Next]_vars

-----------------------------------------------------------------------------
Kinds == {"while", "for", "block", "function", "eval", "dotcmd", "dot"}
TypeOK ==
    /\ pc \in {"run", "exit"} /\ iflag \in BOOLEAN
    /\ \A i \in DOMAIN frames : frames[i].kind \in Kinds
    /\ evalskip \in Skips \cup {None} /\ skipcount \in Nat /\ loopnest \in Nat
    /\ exitstatus \in 0..255 /\ goal.to \in 0..MaxDepth
    /\ rd.ok /\ rd.closed \subseteq Fds /\ rd.ofile \in [Desc -> Files \cup {Scripts, NoFile}]
    /\ \A i \in DOMAIN rd.list : rd.list[i] \in [Fds -> {EMPTY, CLOSED} \cup Desc]
    /\ lv.ok /\ lv.vars \in [Vars -> [here : BOOLEAN, value : Values \cup {Unset},
                                       flags : SUBSET Flags]]
    /\ \A i \in DOMAIN files : files[i] \in {-1} \cup Desc

(* Whatever the way the commands inside have ended, by their last line, by *)
(* break, by return or by an error that "command" stopped, the stacks are  *)
(* as high as the constructs under way have made them and loopnest is the  *)
(* number of loops around the next command, in its function.               *)
Balanced ==
    pc = "run" =>
    /\ Len(rd.list) = Cardinality({i \in DOMAIN frames : frames[i].redir})
    /\ Len(lv.stack) = Cardinality({i \in DOMAIN frames :
                                      IsCall(frames[i]) /\ ~frames[i].spclbltin})
    /\ Len(files) = Cardinality({i \in DOMAIN frames : frames[i].kind \in {"eval", "dot"}})
    /\ loopnest = Cardinality(Loops)

(* The descriptors from 10 on are the saved ones and those of the scripts  *)
(* being read, each in one place only; the shell keeps no other open; and  *)
(* closed_redirs, which popredir() trusts, names closed descriptors only.  *)
SavedIn(i) == {rd.list[i][d] : d \in Fds} \ {EMPTY, CLOSED}
DescriptorsKept ==
    pc = "run" =>
    /\ {d \in Desc \ Fds : IsOpen(rd, d)} =
          (UNION {SavedIn(i) : i \in DOMAIN rd.list}) \cup ({files[i] : i \in DOMAIN files} \ {-1})
    /\ \A i, j \in DOMAIN rd.list : i # j => SavedIn(i) \cap SavedIn(j) = {}
    /\ \A d \in rd.closed : ~IsOpen(rd, d)

(* Variables that are local somewhere have their entry, and it is fixed:   *)
(* localvar_stack holds pointers to it.                                    *)
LocalsPresent ==
    \A i \in DOMAIN lv.stack : \A k \in DOMAIN lv.stack[i] :
        LET e == lv.vars[lv.stack[i][k].name] IN e.here /\ "fixed" \in e.flags

(* Commands are skipped only on behalf of a break, continue or return that *)
(* has somewhere to lead, and not beyond it.                               *)
SkipTarget ==
    pc = "run" /\ evalskip # None => goal.how # "none" /\ Depth >= goal.to

(* When skipping ends it ends where it should: after the loop, at the next *)
(* turn of the loop, or after the function or dot script, which has the    *)
(* status given to return.                                                 *)
Landed ==
    /\ Depth = goal.to
    /\ CASE goal.how = "end"    -> frames' = Outer
         [] goal.how = "next"   -> \/ Len(frames') = Depth /\ SubSeq(frames', 1, Depth - 1) = Outer
                                   \/ Top.kind = "for" /\ frames' = Outer
         [] goal.how = "return" -> frames' = Outer /\ exitstatus' = goal.status
Lands ==
    [][evalskip # None /\ evalskip' = None =>
          Landed \/ (iflag /\ exitstatus' = 130)]_vars

(* Redirections other than exec's, and local variables and assignments     *)
(* before commands, last as long as their command: ShellScopes.            *)
SavedFile(t, d) == CASE t[d] = EMPTY -> KeepFd [] t[d] = CLOSED -> NoFile [] OTHER -> rd.ofile[t[d]]
Redirections == INSTANCE ShellScopes WITH
    Names <- Fds, Keep <- KeepFd,
    cur <- [d \in Fds |-> rd.ofile[d]],
    scopes <- [i \in DOMAIN rd.list |-> [d \in Fds |-> SavedFile(rd.list[i], d)]]

(* Every step that begins or ends redirections for a while: all that can   *)
(* but those of exec, which are to stay unless exec raises an error.       *)
Temporary ==
    \/ Begin \/ End \/ Fails \/ exitcmd \/ Interrupt
    \/ \E x \in Vars : VarCommand(x)
    \/ \E rs \in Redirs \ {<< >>} : ~redirect(pushredir(rd, rs), rs).ok /\ Exec(FALSE, rs)
FilesNow == [d \in Fds |-> rd.ofile[d]]
Leaks == Len(rd'.list) = Len(rd.list) /\ FilesNow' # FilesNow

(* ShellScopes lets the descriptors change while no scope does.  Only exec *)
(* may do that: what a failing command has redirected and given back in    *)
(* the same step is as it was.                                             *)
RedirectionsUndone == Redirections!Spec /\ [][Leaks => ~Temporary]_vars

Meaning(e) == <<e.value, e.flags \ {"fixed"}>>
SavedMeaning(lvs, x) ==
    LET S == {k \in DOMAIN lvs : lvs[k].name = x}
    IN IF S = {} THEN <<"keep">> ELSE Meaning(lvs[Max(S)].was)
Locals == INSTANCE ShellScopes WITH
    Names <- Vars, Keep <- <<"keep">>,
    cur <- [x \in Vars |-> Meaning(lv.vars[x])],
    scopes <- [i \in DOMAIN lv.stack |-> [x \in Vars |-> SavedMeaning(lv.stack[i], x)]]
LocalsUndone == Locals!Spec
=============================================================================
