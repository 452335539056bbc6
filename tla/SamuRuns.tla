----------------------------- MODULE SamuRuns ------------------------------
(***************************************************************************)
(* Runs of samu one after the other in one directory, with edits between   *)
(* them and crashes inside them: what buildadd(), edgedone() and           *)
(* samu_main() do with the two logs.  SamuLog and SamuDeps are the logs;   *)
(* the order of commands within one run is the subject of SamuBuild, here  *)
(* an edge may run when the edges it needs are done.                       *)
(*                                                                         *)
(* A command writes its outputs when it succeeds.  When samu is killed,    *)
(* each command it has started still ends with or without success before   *)
(* the next run.                                                           *)
(***************************************************************************)
EXTENDS SamuDeps, Relation

CONSTANTS
    Edges,
    In,         \* e->in of the manifest: a set, order-only inputs excepted
    OrderOnly,  \* its order-only inputs
    Out,        \* e->out: a sequence
    Headers,    \* what the command of an edge with "deps" may turn out to read
    Empty,      \* whether it may turn out to read nothing
    Reverts,    \* whether a command line may become an earlier one again
    MaxRuns, MaxEdits, MaxCrashes

ASSUME RunsAssumption ==
    /\ In \in [Edges -> SUBSET Nodes] /\ OrderOnly \in [Edges -> SUBSET Nodes]
    /\ Out \in [Edges -> Seq(Nodes)] /\ \A e \in Edges : Out[e] # << >>
    /\ Headers \in [Edges -> SUBSET Nodes]
    /\ Empty \in BOOLEAN /\ Reverts \in BOOLEAN
    /\ MaxRuns \in Nat /\ MaxEdits \in Nat /\ MaxCrashes \in Nat

VARIABLES
    files,      \* the time of each file, or MTIME_MISSING
    clock,
    command,    \* the command line of each edge: its hash
    reads,      \* what the command of each edge with "deps" reads besides In
    pc,         \* "down" between runs, else "build"
    stat,       \* the times nodestat() found
    inputs,     \* e->in with the dependencies depsload() added: a set, order-only ones excepted
    todo,       \* edges of this run that are still to be run
    running,    \* edges whose command runs
    nruns, nedits, ncrashes,
    made,       \* history: what each edge's outputs were made from
    same,       \* history: whether nothing was edited since the last run ended
    lost,       \* history: edges whose records the last build wrote behind a tear
    records     \* history: every dependency record written
fileVars == <<files, clock, command, reads>>
runVars  == <<pc, stat, inputs, todo, running>>
countVars == <<nruns, nedits, ncrashes>>
histVars == <<made, same, lost, records>>
vars == <<logVars, depsVars, fileVars, runVars, countVars, histVars>>

OutSet(e) == {Out[e][i] : i \in DOMAIN Out[e]}
Generated == UNION {OutSet(e) : e \in Edges}
Sources == Nodes \ Generated
HasDeps(e) == Out[e][1] \in DepOut

(* What a command reads: a fact about the text of the files, found out     *)
(* through the depfile only.                                               *)
Needs(e) == In[e] \cup reads[e]
Recipe(e) == [command |-> command[e], from |-> [n \in Needs(e) |-> files[n]]]
MayRead(r, e) == r \subseteq Headers[e] /\ (HasDeps(e) /\ ~Empty => r # {})
NotMade == [command |-> 0, from |-> << >>]

Init ==
    /\ files = [n \in Nodes |-> IF n \in Generated THEN MTIME_MISSING ELSE 1]
    /\ clock = 1
    /\ command = [e \in Edges |-> 1]
    /\ reads \in [Edges -> SUBSET UNION {Headers[e] : e \in Edges}]
    /\ \A e \in Edges : MayRead(reads[e], e)
    /\ log = << >> /\ deps = << >>
    /\ logmtime = [n \in Nodes |-> MTIME_MISSING] /\ hash = [n \in Nodes |-> NOHASH]
    /\ id = Unread.id /\ entries = << >> /\ entrieslen = 0
    /\ pc = "down"
    /\ stat = [n \in Nodes |-> MTIME_MISSING] /\ inputs = In /\ todo = {} /\ running = {}
    /\ nruns = 0 /\ nedits = 0 /\ ncrashes = 0
    /\ made = [e \in Edges |-> NotMade]
    /\ same = FALSE /\ lost = {} /\ records = {}

(* A run ends: what was in memory is gone. *)
Gone ==
    /\ pc' = "down" /\ todo' = {} /\ running' = {}
    /\ stat' = [n \in Nodes |-> MTIME_MISSING] /\ inputs' = In
    /\ logmtime' = [n \in Nodes |-> MTIME_MISSING]
    /\ hash' = [n \in Nodes |-> NOHASH]
    /\ id' = Unread.id /\ entries' = << >> /\ entrieslen' = 0

-----------------------------------------------------------------------------
(* Between runs: a source is changed, and with it what the edges that read *)
(* it read; a header nobody reads any more is removed; a command line in   *)
(* the manifest is changed; an output is removed.                          *)
Edit(n) ==
    /\ pc = "down" /\ nedits < MaxEdits
    /\ n \in Sources /\ files[n] # MTIME_MISSING
    /\ files' = [files EXCEPT ![n] = clock + 1] /\ clock' = clock + 1
    /\ \E r \in [Edges -> SUBSET UNION {Headers[e] : e \in Edges}] :
          /\ \A e \in Edges : IF n \in Needs(e) THEN MayRead(r[e], e) ELSE r[e] = reads[e]
          /\ \A e \in Edges : \A h \in r[e] \ Generated : files[h] # MTIME_MISSING
          /\ reads' = r
    /\ UNCHANGED command

Remove(n) ==
    /\ pc = "down" /\ nedits < MaxEdits
    /\ files[n] # MTIME_MISSING
    /\ n \in Sources => \A e \in Edges : n \notin Needs(e)
    /\ files' = [files EXCEPT ![n] = MTIME_MISSING]
    /\ UNCHANGED <<clock, command, reads>>

NewCommand(e) ==
    /\ pc = "down" /\ nedits < MaxEdits
    /\ \E c \in 1..(nedits + 2) :
          /\ c # command[e]
          /\ Reverts \/ c = nedits + 2
          /\ command' = [command EXCEPT ![e] = c]
    /\ UNCHANGED <<files, clock, reads>>

Change ==
    /\ \/ \E n \in Nodes : Edit(n) \/ Remove(n)
       \/ \E e \in Edges : NewCommand(e)
    /\ nedits' = nedits + 1
    /\ same' = FALSE
    /\ UNCHANGED <<logVars, depsVars, runVars, nruns, ncrashes, made, lost, records>>

-----------------------------------------------------------------------------
(* buildadd() of everything: depsload(), isdirty() with the newest input,  *)
(* and dirtiness handed down to the edges that use an output.              *)
MissingDeps(e) == HasDeps(e) /\ ~Known(Out[e][1], stat[Out[e][1]])
DepsOrderOnly(e) == {}                     \* mutant: dependencies are order-only
DepsOf(e) == IF HasDeps(e) /\ ~MissingDeps(e)
             THEN {Loaded(Out[e][1])[i] : i \in DOMAIN Loaded(Out[e][1])} ELSE {}
Inputs(e) == In[e] \cup DepsOf(e)
Newer(e, t) == \E n \in Inputs(e) : stat[n] # MTIME_MISSING /\ stat[n] > t
isdirty(e, n) == \/ stat[n] = MTIME_MISSING \/ Newer(e, stat[n])
                 \/ logmtime[n] = MTIME_MISSING \/ Newer(e, logmtime[n])
                 \/ hash[n] # command[e]
\* a dependency that is no output and is gone is a phony edge without inputs
Vanished(e) == \E n \in DepsOf(e) \ Generated : stat[n] = MTIME_MISSING
DirtyOut(e) == MissingDeps(e) \/ Vanished(e) \/ \E n \in OutSet(e) : isdirty(e, n)

(* FLAG_CYCLE and FLAG_DIRTY_IN, for what the recursion of buildadd()      *)
(* reaches from e.                                                         *)
Closure(uses) == TransitiveClosure(
    [p \in Edges \X Edges |-> OutSet(p[2]) \cap uses[p[1]] # {}], Edges)
Cyclic ==
    LET reach == Closure([e \in Edges |-> Inputs(e) \cup OrderOnly[e]])
    IN \E e \in Edges : reach[e, e]
Dirty ==
    LET reach == Closure([e \in Edges |-> Inputs(e)])
        now == {e \in Edges : DirtyOut(e)}
    IN {e \in Edges : e \in now \/ \E f \in now : reach[e, f]}

(* samu_main(): loginit(), depsinit() *)
Start ==
    /\ pc = "down" /\ nruns < MaxRuns
    /\ nruns' = nruns + 1
    /\ loginit /\ depsinit
    /\ stat' = files
    /\ pc' = "add"
    /\ UNCHANGED <<fileVars, inputs, todo, running, nedits, ncrashes, histVars>>

(* buildadd() of everything; a cycle is fatal. *)
Add ==
    /\ pc = "add"
    /\ IF Cyclic
       THEN Gone /\ same' = FALSE
       ELSE /\ todo' = Dirty
            /\ inputs' = [e \in Edges |-> Inputs(e)]
            /\ pc' = "build"
            /\ UNCHANGED <<logmtime, hash, id, entries, entrieslen, stat, running, same>>
    /\ lost' = {}
    /\ UNCHANGED <<log, deps, fileVars, countVars, made, records>>

Blocked(e) == {f \in todo \cup running : OutSet(f) \cap (inputs[e] \cup OrderOnly[e]) # {}}
StartJob(e) ==
    /\ pc = "build" /\ e \in todo /\ Blocked(e) = {}
    /\ todo' = todo \ {e} /\ running' = running \cup {e}
    /\ UNCHANGED <<logVars, depsVars, fileVars, pc, stat, inputs, countVars, histVars>>

-----------------------------------------------------------------------------
(* The commands in S have succeeded, and written their outputs. *)
Written(S) ==
    /\ files' = [n \in Nodes |-> IF n \in UNION {OutSet(e) : e \in S} THEN clock + 1 ELSE files[n]]
    /\ clock' = IF S = {} THEN clock ELSE clock + 1
    /\ made' = [e \in Edges |-> IF e \in S THEN Recipe(e) ELSE made[e]]
    /\ UNCHANGED <<command, reads>>

(* The depfile lists what was read, the sources first; a command that read *)
(* nothing else need not write one.                                        *)
DepList(S) == CHOOSE s \in [1..Cardinality(S) -> S] : \A n \in S : \E i \in DOMAIN s : s[i] = n
Depfile(e) == IF reads[e] = {} THEN << >> ELSE DepList(In[e]) \o DepList(reads[e] \ In[e])

(* edgedone() of an edge whose command has just succeeded: depsrecord(),   *)
(* then logrecord() of each output.                                        *)
NewTimes(e) == [n \in Nodes |-> IF n \in OutSet(e) THEN clock + 1 ELSE logmtime[n]]
RecordDeps(e) == IF HasDeps(e) THEN depsrecord(Out[e][1], Depfile(e), clock + 1) ELSE Writer
Records(S) == {[node |-> Out[e][1], mtime |-> clock + 1, deps |-> Depfile(e)] :
                  e \in {f \in S : HasDeps(f)}}

(* The edges whose records are not found again: those glued to a line      *)
(* without an end, with the edge that line is of, and dependency records   *)
(* behind a piece of a size.                                               *)
Behind(e) ==
    (IF log # << >> /\ ~log[Len(log)].nl
     THEN {e} \cup {f \in Edges : log[Len(log)].node \in OutSet(f)} ELSE {})
        \cup {f \in {e} : RecordDeps(e).out # << >> /\ \E i \in DOMAIN deps : deps[i].kind = "frag"}

EdgeDone(e) ==
    /\ pc = "build" /\ e \in running
    /\ running' = running \ {e}
    /\ Written({e})
    /\ stat' = files'
    /\ LET w == RecordDeps(e) IN
          /\ deps' = deps \o w.out /\ id' = w.id /\ entrieslen' = w.len
          /\ UNCHANGED entries
    /\ log' \in Recorded(log, Out[e], NewTimes(e), command[e])
    /\ logmtime' = NewTimes(e)
    /\ hash' = [n \in Nodes |-> IF n \in OutSet(e) THEN command[e] ELSE hash[n]]
    /\ records' = records \cup Records({e})
    /\ lost' = lost \cup Behind(e)
    /\ UNCHANGED <<pc, inputs, todo, countVars, same>>

Fails(e) ==
    /\ pc = "build" /\ running = {e}       \* build() waits for the jobs that run
    /\ Gone
    /\ same' = FALSE
    /\ UNCHANGED <<log, deps, fileVars, countVars, made, lost, records>>

Finished ==
    /\ pc = "build" /\ todo = {} /\ running = {}
    /\ Gone
    /\ same' = TRUE
    /\ UNCHANGED <<log, deps, fileVars, countVars, made, lost, records>>

(* samu is killed.  The commands in S have succeeded or will yet; one of   *)
(* them, e, may be one samu was recording: some or all of its dependency   *)
(* records and some of its lines are in the files.                         *)
Crash ==
    /\ pc # "down" /\ ncrashes < MaxCrashes
    /\ ncrashes' = ncrashes + 1
    /\ \E S \in SUBSET running :
          /\ Written(S) /\ records' = records \cup Records(S)
          /\ \/ UNCHANGED <<deps, log>>
             \/ \E e \in S :
                  \/ deps' \in {deps \o rs : rs \in TornRecords(RecordDeps(e).out)} /\ UNCHANGED log
                  \/ deps' = deps \o RecordDeps(e).out
                     /\ log' \in CutOff(log, Out[e], NewTimes(e), command[e])
    /\ Gone
    /\ same' = FALSE
    /\ UNCHANGED <<nruns, nedits, lost>>

Next ==
    \/ Change \/ Start \/ Add \/ Finished \/ Crash
    \/ \E e \in Edges : StartJob(e) \/ EdgeDone(e) \/ Fails(e)

Spec == Init /\ [][Next]_vars

-----------------------------------------------------------------------------
(* When samu has run every edge it found out of date, every output was     *)
(* made by the present command line from the present text of everything    *)
(* the command reads, whatever was edited, killed or torn before.          *)
Current(e) == /\ \A n \in OutSet(e) : files[n] # MTIME_MISSING
              /\ made[e] = Recipe(e)
UpToDate == pc = "build" /\ todo = {} /\ running = {} => \A e \in Edges : Current(e)

(* A run that follows a successful one with nothing edited in between      *)
(* finds all the first one recorded, but what a crash before it made it    *)
(* append behind a tear: it runs those edges again, and what uses their    *)
(* outputs, and nothing else.                                              *)
NothingTwice ==
    same /\ pc = "add" =>
        LET reach == Closure([e \in Edges |-> Inputs(e)])
        IN Dirty \subseteq lost \cup {e \in Edges : \E f \in lost : reach[e, f]}

(* .ninja_deps as its format says: "Node records are given in incrementing *)
(* ID order, and must be given before any dependency record that refers to *)
(* it", and no node has two numbers.                                       *)
NodesIn(f) == {i \in DOMAIN f : f[i].kind = "node"}
IdsGiven ==
    /\ \A i, j \in NodesIn(deps) : deps[i].node = deps[j].node => i = j
    /\ \A i \in DOMAIN deps : deps[i].kind = "deps" =>
          LET known == 0..(Cardinality(NodesIn(SubSeq(deps, 1, i))) - 1)
          IN deps[i].id \in known /\ \A k \in DOMAIN deps[i].deps : deps[i].deps[k] \in known

(* The dependencies depsload() uses for an output were recorded for that   *)
(* output, with the time it was made.                                      *)
OwnRecord ==
    pc = "add" => \A e \in Edges : 
        HasDeps(e) /\ ~MissingDeps(e) /\ stat[Out[e][1]] # MTIME_MISSING =>
        [node |-> Out[e][1], mtime |-> entries[id[Out[e][1]] + 1].mtime,
         deps |-> Loaded(Out[e][1])] \in records
=============================================================================
