---------------------------- MODULE MCShellExec ----------------------------
(***************************************************************************)
(* An instance of ShellExec for TLC: a command that is only found in PATH, *)
(* a toy, a regular built-in and another one; three directories, two of    *)
(* which may have the first, while a program has the toy's name and        *)
(* another the last one's; PATH with the current directory before, after   *)
(* and without an absolute entry.  The third directory is needed: in two,  *)
(* shellexec() ends up at the right program from a wrong place as well.    *)
(***************************************************************************)
EXTENDS ShellExec

SomePaths == {<<"/a">>, <<Here, "/b", "/a">>, <<"/b", Here>>}
StandardPath == <<"/b">>
SomePrograms ==
    {P \cup {<<"/b", "ls">>, <<"/a", "echo">>} :
        P \in SUBSET {<<"/a", "prog">>, <<"/b", "prog">>}}
=============================================================================
