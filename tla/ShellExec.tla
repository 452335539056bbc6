----------------------------- MODULE ShellExec -----------------------------
(***************************************************************************)
(* Command lookup (exec.c): the hash table of commands, which also is the  *)
(* only place where functions are kept, and what shellexec() makes of a    *)
(* command that was found.  PATH changes by assignment, and for the time   *)
(* of a function by an assignment before it.  The programs built into the  *)
(* shell (toys, and with them cc, ar, samu...) run in the child itself,    *)
(* which after vfork() has the memory of the shell.                        *)
(*                                                                         *)
(* Programs neither come nor go (a table that remembers places cannot see  *)
(* that), and PATH has no %builtin or %func entries.  Of the built-ins the *)
(* special ones are left out: an assignment before one is SetPath.         *)
(***************************************************************************)
EXTENDS Integers, Sequences, FiniteSetsExt

CONSTANTS
    Names,      \* names of commands, without a slash
    Regular,    \* those of regular built-ins (BUILTIN_REGULAR)
    Irregular,  \* those of the other built-ins (echo, printf, test)
    Toys,
    Dirs,       \* directories, by absolute name
    Here,       \* as an entry of PATH: the current directory, by a relative name
    Paths,      \* values of PATH
    DefPath,    \* defpath, of "command -p"
    Programs,   \* what programs there may be: sets of <<directory, name>>
    EnvVars, Values,
    Unset,
    MaxScopes

Builtins == Regular \cup Irregular

ASSUME ExecAssumption ==
    /\ Builtins \subseteq Names /\ Toys \subseteq Names \ Builtins
    /\ Regular \cap Irregular = {}
    /\ Here \notin Dirs
    /\ Paths \subseteq Seq(Dirs \cup {Here}) /\ DefPath \in Seq(Dirs)
    /\ Programs \subseteq SUBSET (Dirs \X Names)
    /\ Unset \notin Values
    /\ MaxScopes \in Nat

VARIABLES
    exe,        \* the programs there are: <<directory, name>>
    cwd,
    path,       \* pathval()
    saved,      \* for each function called, the PATH to restore: none or one
    cmdtable,
    exported,   \* the exported variables of the shell: a value or Unset
    environ,    \* the environment of the shell's process
    funs        \* history: the functions defined
lookupVars == <<cwd, path, saved, cmdtable, funs>>
vars == <<exe, cwd, path, saved, cmdtable, exported, environ, funs>>

(* Where a command is found: the kind, and for a program its place in PATH *)
CMDUNKNOWN == [cmdtype |-> "unknown", index |-> -1]
CMDFUNCTION == [cmdtype |-> "function", index |-> -1]
CMDBUILTIN == [cmdtype |-> "builtin", index |-> -1]
CMDNORMAL(i) == [cmdtype |-> "normal", index |-> i]

Entry(cmd, rehash) == [cmd |-> cmd, rehash |-> rehash]
NoEntry == Entry(CMDUNKNOWN, FALSE)
IsNormal(e) == e.cmd.cmdtype = "normal"

(* A program in entry d of PATH, when the current directory is w *)
Dir(d, w) == IF d = Here THEN w ELSE d
There(d, w, n) == <<Dir(d, w), n>> \in exe

(* The first entry of PATH with the program, counted from 0 as in the      *)
(* code, or -1.                                                            *)
Search(p, w, n) ==
    LET S == {i \in 0..(Len(p) - 1) : There(p[i + 1], w, n)}
    IN IF S = {} THEN -1 ELSE Min(S)

Nothing == [ran |-> "nothing", dir |-> Here]

Init ==
    /\ exe \in Programs /\ cwd \in Dirs /\ path \in Paths
    /\ saved = << >> /\ cmdtable = [n \in Names |-> NoEntry] /\ funs = {}
    /\ environ \in [EnvVars -> Values \cup {Unset}] /\ exported = environ

-----------------------------------------------------------------------------
(* find_command() with the given flags, on PATH p, which is another one    *)
(* than pathval() if alt: what it finds, and the table it leaves.  Bit has *)
(* the flags under which an entry is no answer.                            *)
BitNoAlt(e, n) ==                          \* mutant: a place in one PATH used in another
    CASE e.cmd.cmdtype = "function" -> {"DO_NOFUNC"}
      [] e.cmd.cmdtype = "builtin" /\ n \in Regular -> {}
      [] e = NoEntry -> {}
      [] OTHER -> {"DO_REGBLTIN"}
Bit(e, n) ==
    CASE e.cmd.cmdtype = "normal"   -> {"DO_ALTPATH", "DO_REGBLTIN"}
      [] e.cmd.cmdtype = "function" -> {"DO_NOFUNC"}
      [] e.cmd.cmdtype = "builtin"  -> IF n \in Regular THEN {} ELSE {"DO_REGBLTIN"}
      [] OTHER                      -> {}

(* The search of PATH.  After a cd, what was found in an absolute entry is *)
(* still there, and not in the absolute ones before it.                    *)
Hit(p, n, prev, i) ==
    IF p[i + 1] # Here /\ i <= prev THEN i = prev ELSE There(p[i + 1], cwd, n)
SearchPath(p, n, prev) ==
    LET S == {i \in 0..(Len(p) - 1) : Hit(p, n, prev, i)}
    IN IF S = {} THEN -1 ELSE Min(S)

Found(cmd, table) == [cmd |-> cmd, table |-> table]
find_command(table, n, flags, p, alt) ==
    LET act    == IF alt THEN flags \cup {"DO_ALTPATH"} ELSE flags
        e      == table[n]
        refuse == act \cap Bit(e, n)
        known  == e # NoEntry /\ refuse = {}
        update == ~alt /\ refuse = {}
        enter(cmd) == Found(cmd, IF update THEN [table EXCEPT ![n] = Entry(cmd, FALSE)] ELSE table)
        i == SearchPath(p, n, IF known /\ e.rehash THEN e.cmd.index ELSE -1)
    IN IF "DO_REGBLTIN" \in refuse THEN Found(CMDUNKNOWN, table)
       ELSE IF known /\ ~e.rehash THEN Found(e.cmd, table)
       ELSE IF n \in Builtins THEN enter(CMDBUILTIN)
       ELSE IF "DO_REGBLTIN" \in act THEN Found(CMDUNKNOWN, table)
       ELSE IF i >= 0 THEN enter(CMDNORMAL(i))
       ELSE IF n \in Toys THEN Found(CMDNORMAL(-1), table)
       ELSE Found(CMDUNKNOWN,
                  IF known /\ update THEN [table EXCEPT ![n] = NoEntry] ELSE table)

(* Commands found in PATH are forgotten (hash -r, and when PATH changes),  *)
(* or marked for another look (cd).                                        *)
clearcmdentry(table) == [n \in Names |-> IF IsNormal(table[n]) THEN NoEntry ELSE table[n]]
changepath(table) == clearcmdentry(table)
hashcd(table) ==
    [n \in Names |-> IF IsNormal(table[n]) THEN [table[n] EXCEPT !.rehash = TRUE] ELSE table[n]]

-----------------------------------------------------------------------------
(* What comes of a command that was found.  shellexec() tries the toys     *)
(* before PATH, which it searches from the given place on.                 *)
shellexec(n, cmd, p) ==
    LET S == {i \in 0..(Len(p) - 1) : i >= cmd.index /\ There(p[i + 1], cwd, n)}
    IN IF n \in Toys THEN [ran |-> "toy", dir |-> Here]
       ELSE IF S = {} THEN Nothing
       ELSE [ran |-> "program", dir |-> Dir(p[Min(S) + 1], cwd)]
Runs(n, cmd, p) ==
    CASE cmd.cmdtype = "normal"  -> shellexec(n, cmd, p)
      [] cmd.cmdtype = "unknown" -> Nothing
      [] OTHER                   -> [ran |-> cmd.cmdtype, dir |-> Here]

(* What should, by the functions, PATH and directory of this moment *)
Should(n, nofunc, p) ==
    IF n \in funs /\ ~nofunc THEN [ran |-> "function", dir |-> Here]
    ELSE IF n \in Builtins THEN [ran |-> "builtin", dir |-> Here]
    ELSE IF n \in Toys THEN [ran |-> "toy", dir |-> Here]
    ELSE IF Search(p, cwd, n) < 0 THEN Nothing
    ELSE [ran |-> "program", dir |-> Dir(p[Search(p, cwd, n) + 1], cwd)]

(* evalcommand() of n: the first lookup is for built-ins and functions     *)
(* only; the assignment before the command takes effect; then the second.  *)
(* assign is the set of what PATH is assigned, if anything; nofunc is      *)
(* "command", and alt "command -p".                                        *)
During(assign) == IF assign = {} THEN path ELSE CHOOSE p \in assign : TRUE
Assigned(table, assign) == IF assign = {} THEN table ELSE changepath(table)
SearchedPath(alt, assign) == IF alt THEN DefPath ELSE During(assign)

Lookup(table, n, nofunc, alt, assign) ==
    LET act   == IF nofunc THEN {"DO_NOFUNC"} ELSE {}
        first == find_command(table, n, act \cup {"DO_REGBLTIN"}, path, FALSE)
        after == Assigned(first.table, assign)
    IN IF first.cmd = CMDBUILTIN /\ n \in Regular THEN Found(first.cmd, after)
       ELSE find_command(after, n, act \cup {"DO_ERR"}, SearchedPath(alt, assign), alt)

(* The environment is made of the exported variables, those assigned       *)
(* before the command among them.  shellexec() puts them into the          *)
(* environment of the process as well, which is what a toy looks at.       *)
Given(env) == [v \in EnvVars |-> IF env[v] # Unset THEN env[v] ELSE environ[v]]

(* A command that is no function.  Programs and toys are run by            *)
(* vforkexec(), so what shellexec() did to the environment stays.  PATH    *)
(* then is what it was.                                                    *)
Run(n, nofunc, alt, assign, env) ==
    LET found == Lookup(cmdtable, n, nofunc, alt, assign)
    IN /\ found.cmd # CMDFUNCTION
       /\ cmdtable' = Assigned(found.table, assign)
       /\ environ' = IF found.cmd.cmdtype = "normal" THEN Given(env) ELSE environ
       /\ UNCHANGED <<exe, cwd, path, saved, exported, funs>>

(* A function: it is left by Return.  The assignment holds for the call. *)
CallFunction(n, assign) ==
    LET found == Lookup(cmdtable, n, FALSE, FALSE, assign)
    IN /\ Len(saved) < MaxScopes /\ found.cmd = CMDFUNCTION
       /\ saved' = Append(saved, IF assign = {} THEN {} ELSE {path})
       /\ path' = During(assign) /\ cmdtable' = found.table
       /\ UNCHANGED <<exe, cwd, exported, environ, funs>>

(* poplocalvars() calls changepath() when it restores PATH *)
KeepsTable(table, restore) == table        \* mutant: PATH restored behind its back
Restored(table, restore) == Assigned(table, restore)
Return ==
    /\ saved # << >>
    /\ saved' = SubSeq(saved, 1, Len(saved) - 1)
    /\ path' = During(saved[Len(saved)])
    /\ cmdtable' = Restored(cmdtable, saved[Len(saved)])
    /\ UNCHANGED <<exe, cwd, exported, environ, funs>>

(* Before a fork, for a command of a pipeline or in the background *)
prehash(n) ==
    /\ cmdtable' = find_command(cmdtable, n, {}, path, FALSE).table
    /\ UNCHANGED <<exe, cwd, path, saved, exported, environ, funs>>

-----------------------------------------------------------------------------
SetPath(p) ==
    /\ path' = p /\ cmdtable' = changepath(cmdtable)
    /\ UNCHANGED <<exe, cwd, saved, exported, environ, funs>>

docd(d) ==
    /\ cwd' = d /\ cmdtable' = hashcd(cmdtable)
    /\ UNCHANGED <<exe, path, saved, exported, environ, funs>>

defun(n) ==
    /\ cmdtable' = [cmdtable EXCEPT ![n] = Entry(CMDFUNCTION, FALSE)] /\ funs' = funs \cup {n}
    /\ UNCHANGED <<exe, cwd, path, saved, exported, environ>>

unsetfunc(n) ==
    /\ cmdtable' = [cmdtable EXCEPT ![n] = IF @.cmd = CMDFUNCTION THEN NoEntry ELSE @]
    /\ funs' = funs \ {n}
    /\ UNCHANGED <<exe, cwd, path, saved, exported, environ>>

hashcmd(n) ==
    LET t == [cmdtable EXCEPT ![n] = IF IsNormal(@) THEN NoEntry ELSE @]
    IN /\ cmdtable' = find_command(t, n, {"DO_ERR"}, path, FALSE).table
       /\ UNCHANGED <<exe, cwd, path, saved, exported, environ, funs>>

hash_r ==
    /\ cmdtable' = clearcmdentry(cmdtable)
    /\ UNCHANGED <<exe, cwd, path, saved, exported, environ, funs>>

(* type and "command -v": the table as it is, else a search *)
describe_command(n) ==
    /\ cmdtable' = IF cmdtable[n] # NoEntry THEN cmdtable
                   ELSE find_command(cmdtable, n, {"DO_ABS"}, path, FALSE).table
    /\ UNCHANGED <<exe, cwd, path, saved, exported, environ, funs>>

(* export v=x, and unset *)
SetExported(v, x) ==
    /\ exported' = [exported EXCEPT ![v] = x]
    /\ UNCHANGED <<exe, lookupVars, environ>>

Assignments == {{}} \cup {{p} : p \in Paths}
Next ==
    \/ \E n \in Names :
          \/ \E nofunc, alt \in BOOLEAN, assign \in Assignments :
                (alt => nofunc) /\ Run(n, nofunc, alt, assign, exported)
          \/ \E assign \in Assignments : CallFunction(n, assign)
          \/ \E v \in EnvVars, x \in Values :
                Run(n, FALSE, FALSE, {}, [exported EXCEPT ![v] = x])
          \/ prehash(n) \/ defun(n) \/ unsetfunc(n) \/ hashcmd(n) \/ describe_command(n)
    \/ Return \/ hash_r
    \/ \E p \in Paths : SetPath(p)
    \/ \E d \in Dirs : docd(d)
    \/ \E v \in EnvVars, x \in Values \cup {Unset} : SetExported(v, x)
Spec == Init /\ [][Next]_vars

-----------------------------------------------------------------------------
(* Whatever is run next is what the functions, PATH and directory of this  *)
(* moment say, and what the table remembers of earlier ones never shows:   *)
(* find_command() uses an entry only if it would find the same again,      *)
(* after cd, "hash", "command -p" and assignments to PATH for good, for    *)
(* one command or for a function; and shellexec() searches from there.     *)
RunsFresh ==
    \A n \in Names, nofunc, alt \in BOOLEAN, assign \in Assignments :
        LET p == SearchedPath(alt, assign) IN
        (alt => nofunc) =>
            Runs(n, Lookup(cmdtable, n, nofunc, alt, assign).cmd, p) = Should(n, nofunc, p)

(* The table tells the truth: it has exactly the functions that are        *)
(* defined (it is the only place they are kept), built-ins only under      *)
(* their names, and a program not marked by hashcd() is the first one on   *)
(* the PATH of now (changepath(), clearcmdentry(), delete_cmd_entry()).    *)
TableSound ==
    /\ {n \in Names : cmdtable[n].cmd = CMDFUNCTION} = funs
    /\ \A n \in Names :
          /\ cmdtable[n].cmd = CMDBUILTIN => n \in Builtins
          /\ cmdtable[n].rehash => IsNormal(cmdtable[n])
          /\ IsNormal(cmdtable[n]) =>
                 /\ n \notin Builtins /\ cmdtable[n].cmd.index \in 0..(Len(path) - 1)
                 /\ ~cmdtable[n].rehash => cmdtable[n].cmd.index = Search(path, cwd, n)

(* A toy run now sees the variables that are exported and no others, as a *)
(* program does, which gets environment() (shellexec()).                   *)
EnvironmentRight == Given(exported) = exported
=============================================================================
