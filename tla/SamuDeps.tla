----------------------------- MODULE SamuDeps ------------------------------
(***************************************************************************)
(* samu's dependency log, .ninja_deps (deps.c): node records that number   *)
(* the nodes in the order they are written, and dependency records that    *)
(* give, by number, what the command of an output was found to read.  A    *)
(* run reads the records of the runs before it, appends its own, and       *)
(* writes the file anew when it is too long or has a bad record.           *)
(*                                                                         *)
(* entries is the C array: entries[i + 1] is about the node with number i. *)
(* recordid() gives a node a number without making an entry for it.        *)
(***************************************************************************)
EXTENDS SamuLog

CONSTANTS
    DepOut,     \* outputs whose edge has "deps" set
    DepsKeep    \* records that are never compacted (1000 in the code)

ASSUME DepsAssumption == DepOut \subseteq Nodes /\ DepsKeep \in Nat

VARIABLES
    deps,       \* the records of .ninja_deps; a missing file has none
    id,         \* n->id, -1 for none
    entries,    \* the entries array
    entrieslen  \* the next number
depsVars == <<deps, id, entries, entrieslen>>

Entry(n, ds, m) == [node |-> n, deps |-> ds, mtime |-> m]

(* Records: a node's, an output's dependencies, the start of a record that *)
(* a crash tore in its body, and fewer than the 4 bytes of its size.       *)
NodeRec(n) == [kind |-> "node", node |-> n]
DepsRec(i, m, is) == [kind |-> "deps", id |-> i, mtime |-> m, deps |-> is]
PartRec == [kind |-> "part"]
FragRec == [kind |-> "frag"]

-----------------------------------------------------------------------------
(* depsinit() *)

(* What has been read: numbers, entries, and whether a record was bad.     *)
Unread == [id |-> [n \in Nodes |-> -1], entries |-> << >>, bad |-> FALSE]

ReadNode(s, r) ==
    [s EXCEPT !.id[r.node] = Len(s.entries),
              !.entries = Append(@, Entry(r.node, << >>, 0))]

(* At a number that was never given the new list has its length already,   *)
(* but is filled only up to there: NoNode stands for the pointers that are *)
(* not set, which the rewrite follows.  Given IdsGiven of SamuRuns there   *)
(* is no such record.                                                      *)
KnownIds(s, is, k) == \A i \in 1..k : is[i] < Len(s.entries)
ReadDeps(s, r) ==
    IF r.id >= Len(s.entries) THEN [s EXCEPT !.bad = TRUE]
    ELSE LET t == [s EXCEPT !.entries[r.id + 1].mtime = r.mtime] IN
         IF t.entries[r.id + 1].node \notin DepOut THEN t
         ELSE [t EXCEPT !.entries[r.id + 1].deps =
                            [i \in DOMAIN r.deps |->
                                IF KnownIds(s, r.deps, i) THEN s.entries[r.deps[i] + 1].node ELSE NoNode],
                        !.bad = ~KnownIds(s, r.deps, Len(r.deps))]

(* Fewer bytes than a size are taken for the end of the file.  With        *)
(* records behind them, what is read from there on makes no sense.         *)
ReadRec(s, r, last) ==
    CASE r.kind = "node" -> ReadNode(s, r)
      [] r.kind = "deps" -> ReadDeps(s, r)
      [] r.kind = "part" -> [s EXCEPT !.bad = TRUE]
      [] r.kind = "frag" -> [s EXCEPT !.bad = ~last]

ReadUpTo(f) ==
    LET read[k \in 0..Len(f)] ==
            IF k = 0 THEN Unread
            ELSE IF read[k - 1].bad THEN read[k - 1]
            ELSE ReadRec(read[k - 1], f[k], k = Len(f))
    IN read[Len(f)]

Complete(f) == Cardinality({i \in DOMAIN f : f[i].kind # "frag"})
Compact(f, s) == Complete(f) > DepsKeep /\ Complete(f) >= Ratio * Len(s.entries)

-----------------------------------------------------------------------------
(* recordid() and recorddeps(), on w: numbers given so far, the next       *)
(* number, and the records written.                                        *)
recordid(w, n) ==
    IF w.id[n] # -1 THEN w
    ELSE [w EXCEPT !.id[n] = w.len, !.len = @ + 1, !.out = Append(@, NodeRec(n))]

recordids(w, ns) ==
    LET rec[k \in 0..Len(ns)] == IF k = 0 THEN w ELSE recordid(rec[k - 1], ns[k])
    IN rec[Len(ns)]

recorddeps(w, n, ns, m) ==
    [w EXCEPT !.out = Append(@, DepsRec(w.id[n], m, [i \in DOMAIN ns |-> w.id[ns[i]]]))]

(* rewrite: only the entries with dependencies are written, and moved to   *)
(* their new number; what else the array holds stays where it was.         *)
RewriteEntry(w, e) ==
    IF e.deps = << >> THEN w
    ELSE LET v == recordid(w, e.node) IN
         recorddeps(recordids([v EXCEPT !.entries[v.id[e.node] + 1] = e], e.deps),
                    e.node, e.deps, e.mtime)

RewriteDeps(s) ==
    LET old == s.entries
        rew[k \in 0..Len(old)] ==
            IF k = 0
            THEN [id |-> Unread.id, len |-> 0, out |-> << >>, entries |-> old]
            ELSE RewriteEntry(rew[k - 1], old[k])
    IN rew[Len(old)]

depsinit ==
    LET s == ReadUpTo(deps)
        w == RewriteDeps(s)
    IN IF s.bad \/ Compact(deps, s)
       THEN /\ deps' = w.out /\ id' = w.id /\ entries' = w.entries
            /\ entrieslen' = w.len
       ELSE /\ id' = s.id /\ entries' = s.entries /\ entrieslen' = Len(s.entries)
            /\ UNCHANGED deps

-----------------------------------------------------------------------------
(* depsload(): the dependencies known of output n, whose time is m.        *)
HasEntry(n) == id[n] # -1 /\ id[n] < Len(entries)
KnownAny(n, m) == HasEntry(n)              \* mutant: an outdated record will do
Known(n, m) == HasEntry(n) /\ m <= entries[id[n] + 1].mtime
Loaded(n) == entries[id[n] + 1].deps

(* depsrecord(), for output n with time m and the dependencies ns of its   *)
(* depfile: the numbers and records it adds.  Nothing is written when the  *)
(* entry says the same already.                                            *)
Writer == [id |-> id, len |-> entrieslen, out |-> << >>]
SameEntry(n, ns, m) ==
    id[n] # -1 /\ LET e == entries[id[n] + 1] IN e.mtime = m /\ e.deps = ns
depsrecordEarly(n, ns, m) ==               \* mutant: dependencies before their numbers
    LET w == recordid(Writer, n) IN recordids(recorddeps(w, n, ns, m), ns)
depsrecord(n, ns, m) ==
    LET w == recordids(recordid(Writer, n), ns) IN
    IF w.out = << >> /\ SameEntry(n, ns, m) THEN w ELSE recorddeps(w, n, ns, m)

(* What a crash can leave of the records rs: the first few, perhaps with   *)
(* the beginning of the next.                                              *)
TornRecords(rs) ==
    UNION {{SubSeq(rs, 1, k - 1), Append(SubSeq(rs, 1, k - 1), PartRec),
            Append(SubSeq(rs, 1, k - 1), FragRec)} : k \in 1..Len(rs)}
=============================================================================
