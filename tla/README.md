# Formal models of bootsh

bootsh is one static binary that holds a POSIX shell (a fork of dash), the
toybox utilities, the tcc compiler and the samu build tool. This directory
holds TLA+ models of its own logic, TLC configurations that check them on small
instances, and TLAPS proofs of what holds for every instance. `PROJECT.json`
lists components, runs, mutants, the map from definitions to source lines,
findings, hazards and theorems.

    tlc -config SamuBuild_prog.cfg MCSamuBuild      # any run of PROJECT.json
    tlapm SamuBuildProofs.tla                       # the proofs, module by module:
                                                    #   Samu{Build,Order,Progress}Proofs,
                                                    #   Shell{Exec,Trap,Jobs,Eval,Redir}Proofs

## 1. The system

| component | state it keeps | operations | talks to |
|---|---|---|---|
| samu scheduler (`samu/build.c`, `samu.c`) | flags and counters of each edge, work stack, pool queues, jobs array | `buildadd`, `build`, `nodedone`, `jobdone`, `buildreset` | the graph, both logs, the commands it spawns (pipe, exit status, files) |
| samu graph and parser (`graph.c`, `parse.c`, `scan.c`, `env.c`) | nodes, edges, pools, rules, variables | parse a manifest, stat a node, hash a command | read by the scheduler |
| build log (`log.c`) | `.ninja_log`, per node: logged time and command hash | `loginit` (load, compact), `logrecord` | scheduler, disk |
| dependency log (`deps.c`) | `.ninja_deps`, id table and dependency lists | `depsinit`, `depsload`, `depsrecord` | scheduler, disk, depfiles |
| job control (`jobs.c`) | job table, current-job list, terminal ownership, status of each process | `makejob`, `forkshell`, `vforkexec`, `waitforjob`, `dowait`, `fg`, `bg`, `wait` | kernel (SIGCHLD, wait, process groups), traps, evaluator |
| traps (`trap.c`, `error.c`) | trap actions, signal modes, pending signals, interrupt suppression | `trap`, `setsignal`, `onsig`, `dotrap`, `exitshell`, INTOFF/INTON | every other part of the shell |
| evaluator (`eval.c`) | `evalskip`, `skipcount`, `loopnest`, `funcline`, exit status | loops, functions, pipelines, subshells, command substitution, `break`, `return` | all of the shell |
| command lookup (`exec.c`) | hash table of commands, functions | `find_command`, `hashcd`, `changepath`, `shellexec`, toys run in place | variables (PATH), evaluator |
| redirection (`redir.c`) | stack of saved descriptors | `redirect`, `popredir`, `unwindredir` | descriptors of the process |
| variables (`var.c`, `options.c`) | variable table, local-variable stack, positional parameters | `setvar`, `mklocal`, `poplocalvars`, `getopts` | evaluator, lookup |
| input and aliases (`input.c`, `alias.c`) | stack of input files, pushed strings, aliases | `pgetc`, `pushstring`, `popstring`, `setalias` | parser |
| memory (`memalloc.c`) | stack of blocks | `stalloc`, `setstackmark`, `popstackmark` | all of the shell |
| parser, expansion, arithmetic, output | text | pure or character-level | evaluator |
| toybox, tcc (`toybox.c`, `tcc.c`, `ar.c`) | none that outlives a call | run a tool | `exec.c` |

Where the hard behaviour is: the scheduler runs concurrently with its commands
and counts down inputs in whatever order they finish; the two logs are appended
to by one run and read by the next, possibly after a crash; the shell shares
its job table and its trap state with signal handlers and its environment with
the toys it runs in place; loops, functions, traps and errors unwind nested
state (redirections, local variables, input files) along several paths.

What makes each correct: the scheduler runs every out-of-date edge exactly once
and after what it needs, within `-j` and the pools' depths, and leaves nothing
out of date; a log read back after a crash gives a state some prefix of the
recorded edges explains; `wait` returns every child's status once and never
waits for a child that is gone; a signal that arrives is handled once; unwinding
restores exactly what was saved.

The hazards this code is exposed to, line by line, are in `PROJECT.json`.

## 2. Plan

1. **samu's scheduler** (done): `SamuGraph`, `SamuBuild`, abstract
   specification `SamuOrder`, proofs `SamuBuildProofs`, `SamuOrderProofs`,
   `SamuProgressProofs`.
2. **samu's logs** (done): `SamuLog`, `SamuDeps`, composed by `SamuRuns` into
   runs of samu one after the other, with edits, crashes and compaction.
3. **Job control** (done): `ShellJobs` (job table, SIGCHLD, `wait`, stopped jobs) with the kernel's
   processes as environment; liveness of `wait`; proofs `ShellJobsProofs`.
4. **Traps** (done): `ShellTrap` (onsig, pending, dotrap, exit trap); a `wait`
   that a trapped signal interrupts is in `ShellJobs`. Proofs `ShellTrapProofs`.
5. **Evaluator and unwinding** (done): `ShellEval` (loops, functions, `eval`, dot
   scripts, `break`, `return`, errors) on top of `ShellRedir` (redirections) and
   `ShellVar` (variables), both shown to implement the stack of scopes of
   `ShellScopes`; proofs `ShellEvalProofs`, `ShellRedirProofs`.
6. **Command lookup** (done): `ShellExec`, the hash table's coherence with PATH,
   the directory, functions and built-ins; the environment of toys run in place;
   proofs `ShellExecProofs`.
7. **Pushed-back input and aliases, memory marks, getopts** (open): sequential,
   with a stack discipline like that of 5.

Proofs, in the order written: slots and types of the scheduler, command lookup,
traps, then the scheduler's order, pools, cycles and progress, job control, that
a build leaves nothing out of date, the evaluator's stacks and skipping, and its
local variables and descriptors, both as refinements of `ShellScopes` (section 9).
Open: the invariants of `SamuRuns`.

## 3. samu's scheduler

`SamuGraph` declares the graph (a constant: the manifest has been parsed) and
translates `isdirty()`. `SamuBuild` is one run of samu. Its variables keep the
names of the C fields; `adding` is the call stack of the recursive `buildadd()`
(one frame per edge: which input is next) and `todo` the call stack of the
recursive `nodedone()`. `jobs` is the array of `build()` with its free list, and
also holds what the kernel knows of each command: whether its pipe is at end of
file and whether and how it has exited.

| action | code |
|---|---|
| `AddTarget`, `AddInput`, `AddFinish` | one call of `buildadd()`: entry, recursion into an input, the rest |
| `ManifestClean`, `ManifestRetry`, `ManifestPruned`, `Finished` | `samu_main()` around the manifest's and the targets' build |
| `BuildBegin`, `BuildEnd`, `WaitForJobs`, `Poll`, `ScanEnd` | `build()`'s loop |
| `StartNothing`, `StartJob`, `StartFails` | the start loop: phony and dry run, `jobstart()` and its failure |
| `JobDone` | `jobwork()` at end of file, `jobdone()`, `edgedone()` and the slot's release |
| `Prune`, `Unblock`, `SkipUser`, `NodeDone` | one use of one node in `nodedone()` |
| `CommandExits`, `PipeCloses` | the commands (external): exit and end of output, in any order |

Times are integers, `clock` advances with every command that writes. A command
that succeeds has made its outputs, except that a `restat` one may leave them
alone; one that fails has written all of them or none. A read error in
`jobwork()` marks the job failed and kills the command, which is the case of a
command that fails. What each edge's command does to files that are not its
outputs, the response file and the text of the status line are left out, and so
is `-l` (the build has no `getloadavg`).

### Runs

| run | instance | shows |
|---|---|---|
| `samu_prog` | 5 edges, pool of depth 1, order-only input, phony target, 648 initial file states, `-j2 -k2` | types, edges wait only for a full pool, nothing forgotten, `-k`, up-to-date result |
| `samu_wide` | 6 edges, two outputs, pool of depth 2 and console, clean edges waiting for order-only inputs, `-j3`, any `jobstart()` may fail | slots, pools and order survive, samu ends |
| `samu_manifest` | the manifest is built, with a tool shared with the target | retry and reset, ends |
| `samu_cycle` | a cycle, missing sources | cycles are refused before anything runs |

Four observations have no run of their own. With `SpawnFails = TRUE` and
`MaxFail = 3` `KeepsGoing` fails on the graph of `samu_prog`: when `jobstart()`
fails, `build()` only counts the failure, the pool slot `queue()` took is never
given back, and `-k` gives up on edges of the pool that depend on no failure.
After a manifest that turned out unchanged, `buildreset()` makes commands that
the first build has run already run again (`RunsOnce` of `SamuBuild` fails with
the constants of `samu_manifest`). With `DryRun = TRUE` `BlockedByCapacity`
fails: a dry run finishes edges without `jobdone()` and leaks every pool slot.
And `build()` resets `nstarted` but not `nfinished`, so
after a build of the manifest `%r` of the status line (their difference) is not
the number of running jobs.

Bounds: `SlotChunk` is 1 where the code starts with 8, so that two and three
jobs make the array grow while jobs run in it; `MaxTries` is 2 instead of 100.
Everything else is finite by itself: a build runs each edge a bounded number of
times. `-j2`/`-j3` let commands finish in every order relative to each other and
to the scan. The graphs were chosen so that each of the counters' cases happens:
an edge blocked by two inputs of one command, by a clean edge, by an order-only
input that is pruned, and a pool with an edge waiting.

Fairness (`FairSpec`): the scheduler's process runs, each command exits and its
pipe is closed some time. The code relies on just that: `poll()` and `waitpid()`
without a limit. Nothing is assumed of the order.

`DependencyOrder` is the refinement: `SamuOrder` says what a build promises
whatever its counters (an edge is settled or started only once all it needs is
settled, runs at most once, nothing below a failure runs), and `EdgeState` of
`SamuBuild` maps each edge to waiting, running, settled or failed.

## 4. samu's logs

`SamuLog` is `.ninja_log` (a sequence of lines) and `SamuDeps` is `.ninja_deps`
(a sequence of records) with the id table and `entries[]`. `SamuRuns` is a
directory over several runs of samu: what `buildadd()`, `isdirty()`, `edgedone()`
and `samu_main()` do with the two logs. The order within one run is
`SamuBuild`'s subject; here an edge may run once those it needs are done.

| action | code |
|---|---|
| `Start`, `Add` | `samu_main()`: `loginit()` and `depsinit()` with their rewriting, then `buildadd()` with `depsload()` and `isdirty()` |
| `StartJob`, `EdgeDone`, `Fails` | a command starts; it has succeeded: `depsrecord()`, `logrecord()` of each output; it has failed |
| `Finished` | `samu_main()` ends, both files are closed |
| `Crash` | samu is killed (external): any prefix of what it was writing is in the files |
| `Change` | between runs: a source, a command line, what a source includes is edited, an output or a header is removed (external) |

A crash tears the last line or record. A line without its end is glued to the
next one appended. A record of `.ninja_deps` torn in its size is taken for the
end of the file, and the next run appends behind it; one torn in its body makes
`depsinit()` write the file anew. Commands that were running when samu is killed
end, with or without success, before the next run; edits happen between runs.

| run | instance | shows |
|---|---|---|
| `samu_logs` | a generated header and an object that may include it, 3 runs, 2 edits, 1 crash | `UpToDate`, `NothingTwice`, `IdsGiven`, `OwnRecord` |
| `samu_deps_stale` (violation) | the same with commands that may read nothing | after a rewrite of `.ninja_deps` an output is given another one's dependencies |

Bounds: `LogKeep` is 1 where the code has 100, `DepsKeep` 6 for 1000 and `Ratio` 0
for 3, so that both compactions happen within three runs. Three runs are the least
for one that crashes, one that reads what is left and one that finds nothing to do.

A run after a crash loses what it appends behind a tear: its first line becomes
one with the line that has no end, and dependency records behind a piece of a
size are not read. `lost` holds the edges this befalls (`Behind`), and
`NothingTwice` says that the next run, with nothing edited in between, runs those
again, what uses their outputs, and nothing else; after a run that met no tear it
runs nothing. Each of the three parts of `Behind` is needed: without any one of them
TLC finds a run that repeats more.

Observations without a run. With `Reverts = TRUE` `UpToDate` fails: a command
line is changed, samu is killed after the command and before `logrecord()`, and
the line is changed back; `isdirty()` never compares the logged time with the
output's own, so the old log line is taken for this output. An output that had
been removed and is half written when its command is killed is taken for
complete. A dependency record with a number that was never given makes
`depsinit()` write the file anew, from a list that is filled only up to that
number (`ReadDeps` has `NoNode` for the rest); by `IdsGiven` samu writes no such
record.

## 5. Job control

`ShellJobs` is the shell's job table (`jobtab`, and `joblist` for the list that
starts at `curjob`), the kernel's view of its children (`proc`, `pgrp`, `tty`)
and the two flags signal handlers set. A command starts when `pc = "idle"`;
`dowait()` is a machine (`clear`, `wait3`, `suspend`, `waited`), entered by
`EnterWait` with what its caller does next, so that children exit, stop and
continue and signals arrive between any two of its steps.

| action | code |
|---|---|
| `Start`, `ForkFails`, `PipeFails` | `makejob()` and the forks of `evalpipe()`, `evalsubshell()`, `vforkexec()`; the error paths |
| `HereDocument` | the child of `openhere()`, which belongs to no job |
| `ClearChld`, `Reap`, `WaitEnds`, `WaitSuspends`, `WakeUp` | `waitproc()`, `waitone()`, `dowait()` |
| `Foreground`, `NothingToDo` | `waitforjob()` |
| `WaitAll`, `ScanJobs`, `WaitedAll`, `WaitJob`, `WaitedJob` | `waitcmd()` |
| `Fg`, `Bg` | `fgcmd()`, `restartjob()` |
| `ShowJobs`, `ShownJobs`, `ShowJob` | `jobscmd()`, `showjobs()`, `showjob()`, also before each prompt |
| `ChildExits`, `ChildStops`, `ChildContinues`, `SignalArrives` | the kernel (external) and `onsig()` |

`set_curjob()` is three operators on the list: `Without` takes a job out,
`CurStopped` puts it first, `InsertRunning` after the stopped jobs at the head.
`Remaining` is what freeing the jobs shown leaves: the others, in their order.

A job without processes, which a failed `pipe()` leaves behind, is tried by
`waitone()` with an uninitialized entry: the model lets it name the pid or not.
`Fg` and `Bg` leave such a job out (`restartjob()` would take the group from that
entry). `setpgid()` and `tcsetpgrp()` of a child are part of its fork, although
the child calls them itself: a signal that stops or kills it before is left out.

| run | instance | shows |
|---|---|---|
| `jobs_script` | 3 pids, 2 jobs of up to 2 processes, no job control, failing `fork()` and `pipe()`, signals | types, the list, `wait` waits for all |
| `jobs_jobctl` | 2 pids, 2 jobs, job control, signals, no failures | the list, done means done, the terminal comes back, every wait ends: no lost SIGCHLD |

Three pids and two jobs are enough for a job with two processes next to another
job, for a pid that returns, and for two jobs that change state while a third
process finishes; pids are interchangeable (`Symmetry`, only in `jobs_script`,
where no liveness is checked). With job control two pids make a pipeline of two
or two jobs of one process. Fairness: the shell runs, and every child exits some time;
`wait` promises nothing otherwise.

Not covered by a run, but seen with these models: with `Failures = TRUE`
`WaitReturns` fails, because `wait` loops for ever on the job without processes
that a failed `pipe()` leaves behind; with `PidReuse = TRUE`
`DoneIsDone` fails, because `waitone()` gives a status to the first job of the
list that names the pid, reaped processes included; with job control
`WaitForAll` fails, because `wait` does not wait for stopped jobs; with
`Failures = TRUE` and job control `TerminalBack` fails after a pipeline whose
second `fork()` failed; and `stoppedjobs()` looks at the current job only, which
need not be the stopped one.

## 6. Traps

`ShellTrap` follows one process through commands, traps and forks (after
`Fork` it is the child that is followed). Each command runs between two calls of
`dotrap()` as in `evaltree()`; `frames` is the stack of `dotrap()` calls under
way, with the exit action at its bottom when `exitshell()` runs one. What a trap's
action does is again a list of commands. `Exception` is `exraise()` to `main()`
or to `exitshell()`. `sigmode` is the shell's cache, `disp` what the kernel does
with the signal, `entry` the signals that were ignored when the (sub)shell
started. `subst` records whether the process is in a command substitution that
was forked with job control on.

A command comes to exec in three ways, which leave it different signals:
`Executed` is the child of `vforkexec()`, `ExecutedByExec` is `exec`, which turns
`-i` and `-m` off first (`ExecCmd`), and `ExecutedItself` is a last command that the
shell executes in its own place (`ExecLast`: `EV_EXIT` and no traps, that is the end
of `-c` or of a subshell). `NoFork` is the subshell that needs no fork, on the
same condition. `CommandsUnharmed` says what a command may find ignored on each of
them: what was ignored on entry or by `trap ''`; SIGTSTP and SIGTTOU within a
command substitution of a shell with job control, whose child keeps them as they
are; and on the third way, in the first shell, what the shell ignores for its own
sake. `sh -ic 'cmd'` runs `cmd` with SIGTERM and SIGQUIT ignored. TLC finds
`CommandsUnharmed` false without either exception.

After an error an interactive shell goes on with `cmdloop()`, where no command is
a last one; the model still takes it for one. `iflag` changes by `exec` only:
`set -i` is left out.

| run | instance | shows |
|---|---|---|
| `traps` | `sh -c`, SIGINT and SIGTSTP, interactive or not, job control on or off, two nested `dotrap()`, one subshell | `NoTrapLost`, `TrapCount`, `InForce`, `SubshellResets`, `CommandsUnharmed`, `StatusKept` |

`MaxNest` counts a subshell as one call of `dotrap()`: nested calls are followed
to two in the shell and to one in its child, where `NoTrapLost` and `StatusKept` say
nothing and the other properties do not depend on the calls under way. With two
in the child as well the run passes with 4.8 million states.
Two signals are the least for one that arrives behind and one that arrives
ahead of the scan; these two also have the special cases of `setsignal()`.
The model knows the others too: SIGQUIT and SIGTERM, which an interactive shell
ignores, the stop signals `setjobctl()` sets (`JobSigs`), the signals that do
nothing by default (`Harmless`) and SIGCHLD, which is caught whether it has a trap or not;
SIGKILL and SIGSTOP, which cannot be caught, are excluded by `TrapAssumption`.
`StatusKept` and `NoTrapLost` are about the shell itself (`shlvl = 0`): a
subshell forked inside an action inherits `savestatus` and `gotsig`, which
`FORKRESET` does not clear. Inside an action `$?` after a nested trap is the
status from before the outer one; nothing in the repository says otherwise.
With `TrapErrors = TRUE` `NoTrapLost` fails: an error in an action leaves the
signals that were caught together with the failing trap's unhandled until the
next signal arrives.

## 7. Evaluator and unwinding

`ShellEval` runs scripts that are not given beforehand: at each moment the
innermost construct may run any command next, or end. `frames` is the C call
stack, one frame per `evalloop()`, `evalfor()`, redirected compound command and
`evalcommand()` of a function, of `eval` and of a dot script, with what these
functions keep in local variables (`redir_stop`, `file_stop`, `localvar_stop`,
`saveloopnest`, `status`). The redirections (`rd`) and the variables (`lv`) are
records that the operators of `ShellRedir` and `ShellVar`, one per C function,
take and return; `ok = FALSE` stands for an error raised half way.

| action | code |
|---|---|
| `While`, `For`, `EndTest`, `EndBody` | `evalloop()`, `evalfor()`, `skiploop()` |
| `Block`, `EndBlock` | `NREDIR` of `evaltree()` |
| `Call`, `OpenScript`, `EndCall` | `evalcommand()` with `evalfun()`, `evalbltin()` of `eval` and `.` (also by way of `command`), `dotcmd()`, and everything after `out:` |
| `Exec` | `exec` without a program: redirections that stay |
| `VarCommand` | assignments, `unset`, `export`, `readonly`, `local` |
| `breakcmd`, `returncmd`, `exitcmd` | the built-ins of these names |
| `Simple`, `Fails` | any other command, a special built-in that raises an error |
| `Interrupt` | `onint()`: between any two steps |
| `EndTop` | `cmdloop(1)` ends |

`Exraise` is the longjmp: past functions, special built-ins and blocks to the
innermost `command`, or to `main()`, which ends the shell or, when it is
interactive, resets it. `goal` is a history variable: where the `break`,
`continue` or `return` under way should lead, computed from the frames and not
from `loopnest` and `skipcount`.

| run | instance | shows |
|---|---|---|
| `shell_unwind` | nesting of two, scripts that use descriptors 3 and 4, ten more from 10 to 19 for the shell's own, one variable, three lists of redirections, one of them failing half way | `Balanced`, `DescriptorsKept`, `LocalsPresent`, `SkipTarget`, `Lands`, and the refinements `RedirectionsUndone`, `LocalsUndone` |

`ShellScopes` is what a reader of the manual expects: a stack of scopes, each
with what the names it has taken over meant outside. A redirection table maps to
a scope with the file behind each saved descriptor, a list of `localvar`s to one
with the values and flags it saved. The two refinements say that however scopes
end, their names mean again what they meant. A table that is pushed and popped in
one step, of a block, a call or an exec that fails, is no scope of either state:
for these `RedirectionsUndone` also says that no step but exec's own
(`Temporary` lists the others) changes a descriptor while the number of tables stays.

Bounds: `MaxDepth` 2, which is enough for each pair of constructs, one inside
the other, and for `break 2`; one `local` in a scope; statuses 0 and 2; ten
descriptors for saved ones and scripts, where nine can be in use at a time
(`EnoughDescriptors`, section 9);
`OneTopic` (a constraint) does not follow a script further once it has changed
both a descriptor and a variable, because the two only meet in the order of
`evalcommand()`'s steps, which is still checked up to that point. A construct may end without a
command, with the status of the command before it; `eval` and `.` of no command at
all, which give 0, and `for` over an empty list, which runs nothing and gives 0,
are left out: what is checked does not depend on the status. The properties are about
safety only: a script may go on for ever.

Two cases are switched off in `shell_unwind` by constants, because the code goes
wrong there. `LoopErrors`: an error that leaves a loop and is stopped by `command
eval` leaves `loopnest` raised, because only `evalfun()` puts it back; a later
`break` outside any loop then sets `evalskip` and `cmdloop()` ends the shell, and
`SkipTarget` fails. `TestReturns`: `evalloop()` keeps the status of a `return` in the condition only for `SKIPFUNC`,
so that after `f() { while return; do :; done; }; false; f` the status is 0 and
not that of `false`; `Lands` fails with it. Other things seen: a failing
`command exec 3>&9` leaves 3 closed, because `popredir(execcmd)` gives the saved
copy up; `dupredirect()` tests `err < 0`, so a failing `dup2()` of a file
redirection goes unnoticed; `local x=1` on a readonly `x` fails and leaves the
entry fixed.

## 8. Command lookup

`ShellExec` is the table of commands with what changes it or makes it stale. An
entry is a function (nowhere else kept), a built-in, or a program by its place
in PATH, possibly marked by `cd` for another look. `find_command` returns what
is found and the table it leaves; `Lookup` is the two calls `evalcommand()` makes
around the assignments before the command.

| action | code |
|---|---|
| `Run` | `evalcommand()` of a program, toy or built-in, also by `command` and `command -p`, with PATH or a variable assigned before it; `vforkexec()`, `shellexec()` |
| `CallFunction`, `Return` | a function, with PATH assigned for the call; `poplocalvars()` |
| `prehash` | before a fork |
| `SetPath`, `docd` | `changepath()`, `hashcd()` |
| `defun`, `unsetfunc` | functions |
| `hashcmd`, `hash_r`, `describe_command` | `hash`, `hash -r`, `type` and `command -v` |
| `SetExported` | `export`, `unset` |

| run | instance | shows |
|---|---|---|
| `exec_lookup` | a program, a toy, `cd` and `echo`; three directories, three values of PATH with the current directory before, after and without absolute entries | `RunsFresh`, `TableSound` |
| `exec_env` (violation) | the same | a variable set for one command stays in the environment of later toys |

`RunsFresh` compares, in every state and for every way to run every name, what
the code comes to through the table with a search that has no table. Three
directories are needed: `shellexec()` goes on searching from the place it is
given, and with two it mends every wrong place. One level of functions
(`MaxScopes`) is enough, since the table does not know of levels. One variable
and one value are enough for a variable that is set and not set.

A toy sees the environment of its process. `shellexec()` adds the exported
variables to it and removes none, and the child of `vfork()` writes to the
shell's memory; `PWD` is skipped and stays what it was when the shell started
(not in the model). Programs proper get `environment()` and are right.

Not asked of the model: `type` and `command -v` print the entry of the table
even when it is marked by `cd`, and name a program in PATH although `shellexec()`
runs the toy of that name first. A program that is removed or comes up earlier in
PATH is not noticed before `hash -r`, as in every shell with such a table.
%builtin and %func in PATH are left out (this `find_command()` tries built-ins
first in any case), and so are names with a slash.

## 9. What is proved

Every theorem holds for all values of the constants that satisfy the named
assumptions of the modules, which TLC evaluates on every run; hypotheses beyond
those are stated with each theorem. Each proof is the same shape: a
strengthening that TLC has checked, one lemma per action, and a temporal step.

| module | theorem | states | beyond the assumptions |
|---|---|---|---|
| `SamuBuildProofs` | `TypeCorrect`, `SlotsCorrect` | `TypeOK`, `SlotsSound` | |
| | `PoolsRespected` | `PoolDepth` | |
| `SamuOrderProofs` | `NoCycles` | `CycleRefused` | |
| | `BuildsInOrder` | `DependencyOrder` (refinement of `SamuOrder`) | the manifest is not built |
| `SamuProgressProofs` | `CapacityUsed`, `GivesUpLate` | `BlockedByCapacity`, `KeepsGoing` | also no dry run, `jobstart()` does not fail |
| | `AllBuilt` | `NothingForgotten` | the manifest is not built, no dry run |
| | `NothingToRedo` | `UpToDate` | the manifest is not built, no dry run, no file found is from the future (`PastFiles`) |
| `ShellExecProofs` | `TableCorrect`, `LookupCorrect` | `TableSound`, `RunsFresh` | |
| `ShellTrapProofs` | `TypeCorrect`, `CountCorrect`, `TrapsInForce`, `SubshellsReset`, `CommandsCorrect`, `StatusCorrect` | `TypeOK`, `TrapCount`, `InForce`, `SubshellResets`, `CommandsUnharmed`, `StatusKept` | |
| | `NothingLost` | `NoTrapLost` | no command of an action fails with `sh_error()` |
| `ShellJobsProofs` | `TypeCorrect`, `ListCorrect` | `TypeOK`, `ListSound` | |
| | `TerminalCorrect` | `TerminalBack` | `fork()` and `pipe()` do not fail under job control |
| | `WaitCorrect` | `WaitForAll` | no job control, no pid of the table is reused |
| | `DoneCorrect` | `DoneIsDone` | `fork()` and `pipe()` do not fail, no pid of the table is reused |
| `ShellEvalProofs` | `PointersGood` | `LocalsPresent` | |
| | `VariablesRestored` | `LocalsUndone` (refinement of `ShellScopes`) | |
| | `BalancedAlways`, `SkippingLeadsSomewhere` | `Balanced`, `SkipTarget` | no error leaves a loop inside `command eval` (`~LoopErrors`) |
| | `SkippingLands` | `Lands` | also no `return` without a number in a loop's condition (`~TestReturns`) |
| `ShellRedirProofs` | `RedirectionsRestored` | `RedirectionsUndone` (refinement of `ShellScopes`) | the descriptors suffice (`EnoughDescriptors`) |
| | `DescriptorsCorrect` | `DescriptorsKept` | the descriptors suffice |
| | `TypeCorrect` | `TypeOK` of `ShellEval` | the descriptors suffice, `~LoopErrors` |

The hypotheses in the last column are not there for the prover. TLC finds the
property false without those about failures, dry runs, traps' errors, pids,
errors in loops and returns in conditions, as the sections above say. `PastFiles`
is of the kind every make has: an output made now is older than an input whose
time is in the future. `EnoughDescriptors` says that there are more descriptors
from 10 on than tables and scripts nested `MaxDepth` deep can take, one for each
descriptor a script redirects and one for each script: the model has no action for
the error the code raises when `fcntl(F_DUPFD)` or `open()` finds none left. That the manifest is not built is one of substance
too: its build starts the whole graph over (`buildreset()`), an edge may then run
twice, and what a run promises would have to be said of each of the two builds.

**Slots and types of the scheduler.** The inductive invariant `IInv` is `TypeOK`,
`SlotsSound`, `ScanInv` (a slot that `poll()` reported is busy until it is looked
at) and `PassInv` (the manifest is built only if it is a node). `TypeOK` alone is
not inductive: `StartJob` stores into slot `next`, and that the slot exists is
`SlotsSound`; `JobDone` uses the slot's edge, which exists by `ScanInv`.
`SlotsSound` contains the free list as a sequence that enumerates the free slots
without repetition, linked by `next`; three lemmas do the work: `TakeSlot`
(removing its first element), `GiveSlot` (putting a finished job's slot in front)
and `GrowSlots` (enlarging a full array).

**Cycles.** `CycleInv`: the edges `buildadd()` is through with (`Through`) are
closed under "needs the output of" and every nonempty set of them has one that
needs none of the set; `FLAG_CYCLE` marks exactly the edges of the call stack,
each there once; and the inputs a frame has passed are sources or of edges that
are through, except the one the frame above is at. `Join`: an edge may be added
to such a set once all its producers are in it, which is what the end of the
loop over its inputs has established.

**Pools.** A pool's counter is compared with positions of the work stack and
slots of the jobs array (`Held`), not with edges, so that it need not be known
that an edge is queued only once. `Covered` says the counter covers what is
held, `Between` that nothing is held where `samu_main()` forgets the counters.

**Order.** `OrderInv` is about `nblock`: for each edge `buildadd()` is through
with it is the number of inputs of which the edge has not been told (`Pending`).
An input has been told when its producer is settled and no frame of `nodedone()`
has yet to come to the use that belongs to it; `UseOf` pairs inputs with uses, by
`UseAssumption`. Around it: an edge is on the queues at most once and then ready
(`Queues`), jobs are of different running edges (`Jobs`), a node is being finished
once (`Telling`). With `nblock` zero all producers are settled, and every step is
one of `SamuOrder` or none.

**Progress.** `Working` adds the other direction: an edge that is ready is on a
queue, a running one has a job, edges wait for a pool only while it is full
(`Waits`), pool counters are exact as long as nothing leaked (`SlotsKept`), only
dirty edges run (`Pruning`), and `ntotal` and `nstarted` count the commands to run
and those started (`Progress`). When `build()` stops with no failure, no edge is
ready or running, so an unsettled one would wait for an unsettled producer, and
that for another; by `CycleInv` the set of unsettled edges must be empty.

**Up to date.** `TimesInv` follows what the code knows of an edge's outputs and
inputs. They are compared once, in `buildadd()`. When an input is rebuilt later,
either `nodedone()` tells the edge, which leaves `nprune` above `nblock` so that it
cannot be pruned, or the input's command has left the file alone and the
comparison stands; the time that is logged (`LoggedTime`) is no earlier than that
of any input. An edge that has finished is thus not dirty if it were looked at
again, and `AllBuilt` says that every edge has.

**Command lookup.** `TableSound` is not inductive: after `cd`, `find_command()`
does not look again at absolute entries of PATH up to the remembered place.
`IInv` there adds `PlaceKept`, which says of a marked entry that its place, if
absolute, still has the program and that no absolute one before it has.
`SearchAgain` then shows that the shortened search finds the same place as a full
one, `FindKeeps` that each return of `find_command()` leaves such a table, and
`ClearKeeps` and `CdInv` do the same for changes of PATH and `cd`. For
`RunsFresh`, `FindRight` and `FindRightElsewhere` show that an entry that is used
says what a search would, and `ExecRight` that `shellexec()`, searching on from
the place, ends at that program. That a search has a smallest place is
`Smallest`, from the well-foundedness of <.

**Traps.** `TypeInv` is the types with the stack of `dotrap()` calls and the
counter (`Counted`: while the exit action runs, `trapcnt` still counts it). `SigInv`
says of each signal that what the shell believes of it (`sigmode`) is what the
kernel does (`disp`, `Coherent`) and is what `setsignal()` would ask for now
(`Obeys`), or was ignored on entry; `InForce` and `SubshellResets` follow from it,
and `CommandsUnharmed` for each way to exec: what it sets is set as for a child,
and what it leaves alone obeys the shell that executes it. `Kept` adds to `NoTrapLost` what suppressed
interrupts hold back. `StatInv`: the status `savestatus` keeps is the one each
frame but the outermost found.

**Job control.** `IInv` is `TypeOK`, `ListSound` and that the callers of
`dowait()` that use a job have one. What the operators on the list do is stated
once: `WithoutList`, `InsertList`, `RunningList`, `AgainFirst`, `RemainingList`;
each command then changes the jobs in use and the list alike. `TermInv`: the shell is
without the terminal only while it waits for a foreground job. For the other two,
`Steps` says what any step does to the jobs: a child is reaped, or no process a job
names comes or goes and the jobs stay, one is made, or one is restarted. `Exits`
(without job control nothing is stopped, and an entry that says exit is of a
process that is gone) gives `WaitForAll`; `Agrees` (exactly those entries do, a
job is done exactly when all do, and no two jobs name one process) gives
`DoneIsDone`, by `RightJob`: the job `waitone()` finds is the one that names the
process.

**Evaluator.** Each frame remembers how high `redirlist`, the stack of local
variables and the stack of input files were when it was entered. `Stacked` says
what those heights are: numbers of frames of the kinds that push, between the
bottom and the frame; hence `Balanced`, whichever of normal end, skipping and
error takes the frame away. `Nested` does the same for `loopnest`: what a function
saved is the number of loops below it. `LvGood` is about the entries of the
variable table that saved variables point to: an item, unless it is the first
saved of its name, was pinned by the item before it, so an entry stays as long as
something points at it, and undoing scopes from the top never meets a freed one.
That local variables implement `ShellScopes` is said of meanings, value and marks
without the mark that pins: `UnwindMeans` computes what each variable means once the
scopes above a height are undone, from the outermost item that saves it. Every step
then is one of four kinds (`Moved`): variables change with the scopes as they are, a
scope begins, the innermost scope takes over a variable, or scopes end. A command
that fails half way has changed no meaning (`Near`), so an error in the middle of an
assignment followed by the unwinding is one `Drop` of `ShellScopes`.
`SkipInv`: while commands are skipped, `skipcount` is the number of loops from the
goal inwards, or the goal is the innermost function or dot script; no dot script
is opened meanwhile. `redirect()`, `unwindredir()`, `poplocalvars()` and
`unwindlocalvars()` are recursive functions over numbers of items; the library's
induction rules cannot be used on them, so the lemmas `RedirectSteps`,
`UnwindRedirSteps`, `PopLocalSteps` and `UnwindLocalSteps` show by hand, with a
set of numbers closed under successor, that these functions exist and what one
step of each is.

**Descriptors.** `DescriptorsKept` is not inductive: it does not say that a table
names a descriptor once, nor that no table names one that a script is read from.
`RdGood` does (`OneOwner`): a descriptor from 10 on is open exactly when a table or
the stack of input files names it, and then one of them does, in one place.
`RedirectOne` says what one redirection does, by cases of `redirect()`: it leaves the
table alone, notes that the descriptor was closed, or saves it at a descriptor that
was free; `RedirectGood` carries that over a list of them, up to the one that fails,
by the recursion of `redirect()`. That a free one is found is counted (`RoomLeft`):
the open descriptors from 10 on map one to one to entries of tables and input files,
at most `MaxDepth` + 1 tables and `MaxDepth` files, which `EnoughDescriptors` makes
fewer than the descriptors there are. `popredir()` closes what its table saved and nothing
else, so what the tables below have saved stays open (`PoppedGood`). For the
refinement, `MeantAt` computes what each descriptor refers to once the tables above a
height are undone, from the lowest of them that saved it, and `EndedAt` compares it
with what an unwinding leaves: several tables popped by one error are one `Drop`, and
the input files closed on the way are in no table. `Counts` gives `TypeCorrect`:
`break` takes no more levels than there are loops, by `Nested`.

**Left to TLC.** `Terminates` and `WaitReturns`: liveness under fairness is outside
the prover. `SamuRuns`, whose logs are read back by operators that are recursive or
fold over the file: `UpToDate` there, `NothingTwice`, `IdsGiven`, `OwnRecord`.

## 10. Not modelled

The shell's parser, expansion and arithmetic and samu's manifest parser work on
text, character by character; their result is a function of their input and they
have no state that outlives a call. Pushed-back input and aliases, memory marks and `getopts` are sequential and left for later. samu's
tools and containers, the glue around toybox and tcc, and the generators of
tables that run at build time hold no logic worth a model. toybox, tcc and the
programs under `scripts/` are vendored: most of the repository's lines.
