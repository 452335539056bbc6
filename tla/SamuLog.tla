------------------------------ MODULE SamuLog ------------------------------
(***************************************************************************)
(* samu's build log, .ninja_log (log.c): one line per output and run of    *)
(* its command, with the output's time and the hash of the command.  A run *)
(* reads the lines of the runs before it, appends its own, and compacts    *)
(* the file when most of it is outdated.                                   *)
(*                                                                         *)
(* A crash may leave the last line without its end.  The next run appends  *)
(* right behind it, so that the two become one line of the file.           *)
(***************************************************************************)
EXTENDS Integers, Sequences, FiniteSets

CONSTANTS
    Nodes,        \* struct node: every file
    NoNode,
    Outputs,      \* the nodes with a generating edge (n->gen), in the order
                  \* of alledges: a sequence
    PathPrefixes, \* a set of pairs <<p, n>>: the path of p begins that of n
    LogKeep,      \* lines that are never compacted (100 in the code)
    Ratio         \* lines or records per entry that are not yet too many (3 in the code)

ASSUME LogAssumption ==
    /\ NoNode \notin Nodes
    /\ Outputs \in Seq(Nodes)
    /\ PathPrefixes \subseteq Nodes \X Nodes
    /\ LogKeep \in Nat /\ Ratio \in Nat

VARIABLES
    log,        \* the lines of .ninja_log; a missing file has none
    logmtime,   \* n->logmtime
    hash        \* n->hash
logVars == <<log, logmtime, hash>>

MTIME_MISSING == -2

NOHASH  == 0      \* n->hash of mknode(), and a line that ends before its hash
BADHASH == -1     \* some number that is the hash of no command
ZEROHASH == -2    \* a line whose hash is 0, which n->hash of mknode() is too

(* A line.  node is NoNode when the line has no path of a known node where *)
(* the reader looks for one; nl tells whether the line has its end.        *)
Line(n, m, h) == [node |-> n, mtime |-> m, hash |-> h, nl |-> TRUE]
Junk(end) == [node |-> NoNode, mtime |-> 0, hash |-> NOHASH, nl |-> end]

(* What a crash can leave of line l: nothing useful, a shorter path, no    *)
(* hash, part of the hash, or all but the end of the line.                 *)
Torn(l) ==
    {Junk(FALSE), [l EXCEPT !.nl = FALSE]}
        \cup {[l EXCEPT !.nl = FALSE, !.hash = h] : h \in {NOHASH, BADHASH}}
        \cup {[l EXCEPT !.nl = FALSE, !.hash = NOHASH, !.node = p[1]] :
                 p \in {q \in PathPrefixes : q[2] = l.node}}

(* The line that t, torn, and l, written behind it, make together.  The    *)
(* first field of l, a 0, completes the field t was torn in: only a start  *)
(* time may be completed to itself, every other field becomes a different  *)
(* one, and a hash of which nothing is there becomes 0.                    *)
Glued(t, l) ==
    IF t.node = NoNode
    THEN {l, Junk(l.nl)}
    ELSE IF t.hash = NOHASH
         THEN {Junk(l.nl), [t EXCEPT !.nl = l.nl, !.hash = ZEROHASH]}
         ELSE {[t EXCEPT !.nl = l.nl, !.hash = BADHASH]}

(* The files that appending line l to file f may result in. *)
Appended(f, l) ==
    IF f # << >> /\ ~f[Len(f)].nl
    THEN {[f EXCEPT ![Len(f)] = g] : g \in Glued(f[Len(f)], l)}
    ELSE {Append(f, l)}

-----------------------------------------------------------------------------
(* loginit() *)

(* The lines that tell about n, and the hash a node is left with: the last *)
(* line that has one.                                                      *)
About(f, n) == {i \in DOMAIN f : f[i].node = n}
Latest(S) == CHOOSE i \in S : \A j \in S : j <= i
IsOutput(n) == \E i \in DOMAIN Outputs : Outputs[i] = n

LoggedTime(f, n) ==
    LET S == About(f, n) IN
    IF IsOutput(n) /\ S # {} THEN f[Latest(S)].mtime ELSE MTIME_MISSING
LoggedHash(f, n) ==
    LET S == {i \in About(f, n) : f[i].hash # NOHASH} IN
    IF IsOutput(n) /\ S # {} /\ f[Latest(S)].hash # ZEROHASH THEN f[Latest(S)].hash ELSE NOHASH

Nentry(f) == Cardinality({n \in Nodes : LoggedTime(f, n) # MTIME_MISSING})
TooLong(f) == Len(f) > LogKeep /\ Len(f) > Ratio * Nentry(f)

(* rewrite: the file with one line per output that has a hash. *)
RewriteLatest(f) == SubSeq(f, Len(f), Len(f))   \* mutant: only the last record is kept
Rewrite(f) ==
    LET has(n) == LoggedHash(f, n) # NOHASH
        kept == SelectSeq(Outputs, has)
    IN [i \in DOMAIN kept |->
           Line(kept[i], LoggedTime(f, kept[i]), LoggedHash(f, kept[i]))]

loginit ==
    /\ logmtime' = [n \in Nodes |-> LoggedTime(log, n)]
    /\ hash' = [n \in Nodes |-> LoggedHash(log, n)]
    /\ log' = IF TooLong(log) THEN Rewrite(log) ELSE log

(* logrecord() of each of the nodes ns in turn, by the times m and the     *)
(* hash h: the files that result.                                          *)
Recorded(f, ns, m, h) ==
    LET rec[k \in 0..Len(ns)] ==
            IF k = 0 THEN {f}
            ELSE UNION {Appended(g, Line(ns[k], m[ns[k]], h)) : g \in rec[k - 1]}
    IN rec[Len(ns)]

(* The same, cut off by a crash: after some of the nodes, or inside one.   *)
CutOff(f, ns, m, h) ==
    UNION {LET before == Recorded(f, SubSeq(ns, 1, k - 1), m, h) IN
           before \cup UNION {Appended(g, t) : g \in before, t \in Torn(Line(ns[k], m[ns[k]], h))} :
           k \in 1..Len(ns)}
=============================================================================
