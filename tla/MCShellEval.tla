---------------------------- MODULE MCShellEval ----------------------------
(***************************************************************************)
(* ShellEval for TLC.  The redirections are 3>&-, 4>file 3>&4 4>&-, and    *)
(* 3>file 3>&4, which fails half way.                                      *)
(***************************************************************************)
EXTENDS ShellEval, TLC

CONSTANTS file1

Open(d) == [type |-> "open", fd |-> d, file |-> file1]
Close(d) == [type |-> "close", fd |-> d]
Dup(d, e) == [type |-> "dup", fd |-> d, dupfd |-> e]
McRedirs ==
    {<< >>, <<Close(3)>>, <<Open(4), Dup(3, 4), Close(4)>>, <<Open(3), Dup(3, 4)>>}
McNoRedirs == {<< >>}

(* Bound: after a command that has a variable as well as a descriptor      *)
(* changed, the script is not followed further.                            *)
OneTopic ==
    \/ lv.vars = NoVars.vars
    \/ rd.list = << >> /\ \A d \in Fds : ~IsOpen(rd, d)
=============================================================================
