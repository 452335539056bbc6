----------------------------- MODULE SamuGraph -----------------------------
(***************************************************************************)
(* The dependency graph samu builds from: nodes (files) and edges (build   *)
(* actions), as parse.c and graph.c leave them before a build, and the     *)
(* test of build.c that decides whether an output is out of date.          *)
(*                                                                         *)
(* File times are integers.  Only their order matters to the code.         *)
(***************************************************************************)
EXTENDS Integers, Sequences, FiniteSets

CONSTANTS
    Nodes,      \* struct node: every file named by the manifest
    Edges,      \* struct edge: every build statement
    Pools,      \* struct pool, the console pool included
    NoEdge,     \* n->gen of a source file
    NoPool,     \* e->pool of an edge without a pool
    In,         \* e->in, explicit and implicit inputs before order-only ones
    Inorder,    \* e->inorderidx: the number of inputs that are not order-only
    Out,        \* e->out
    Use,        \* n->use: the edges that have n as an input, in parse order
    Phony,      \* edges whose rule is phony
    Generator,  \* edges with "generator" set
    Restat,     \* edges with "restat" set
    Pool,       \* e->pool
    Depth       \* pool->maxjobs

Members(s) == {s[i] : i \in DOMAIN s}

(* What parseedge and parsepool guarantee of a manifest they accept: every *)
(* output has one generating edge, which lists it once ("multiple rules    *)
(* generate"), every use of a node is listed in n->use, and no pool has    *)
(* depth 0 ("pool has no depth" is fatal).                                 *)
ASSUME GraphAssumption ==
    /\ NoEdge \notin Edges
    /\ NoPool \notin Pools
    /\ In \in [Edges -> Seq(Nodes)]
    /\ Out \in [Edges -> Seq(Nodes)]
    /\ Use \in [Nodes -> Seq(Edges)]
    /\ Inorder \in [Edges -> Nat]
    /\ Phony \subseteq Edges
    /\ Generator \subseteq Edges
    /\ Restat \subseteq Edges
    /\ Pool \in [Edges -> Pools \cup {NoPool}]
    /\ Depth \in [Pools -> Nat \ {0}]

ASSUME UseAssumption ==
    /\ \A e \in Edges : /\ Inorder[e] <= Len(In[e])
                        /\ \A i, k \in DOMAIN Out[e] : Out[e][i] = Out[e][k] => i = k
    /\ \A e, f \in Edges : e # f => Members(Out[e]) \cap Members(Out[f]) = {}
    /\ \A e \in Edges, n \in Nodes :
          Cardinality({i \in DOMAIN In[e] : In[e][i] = n}) =
          Cardinality({i \in DOMAIN Use[n] : Use[n][i] = e})

(* n->gen *)
Gen == [n \in Nodes |->
          IF \E e \in Edges : n \in Members(Out[e])
          THEN CHOOSE e \in Edges : n \in Members(Out[e])
          ELSE NoEdge]

(* The edges that produce the inputs of e. *)
Producers(e) == {Gen[n] : n \in Members(In[e])} \ {NoEdge}

-----------------------------------------------------------------------------
(* File times: MTIME_UNKNOWN has not been stat'ed yet. *)
MTIME_UNKNOWN == -1
MTIME_MISSING == -2
Mtimes == Nat \cup {MTIME_UNKNOWN, MTIME_MISSING}

(* The inputs that count for dirtiness: the ones before inorderidx. *)
Essential(e) == {In[e][i] : i \in 1..Inorder[e]}

(* Whether some present essential input of e is later than time t, by the  *)
(* times in m: isnewer(newest, n) and "newest && t < newest->mtime".       *)
NewerInput(e, m, t) == \E n \in Essential(e) : m[n] # MTIME_MISSING /\ m[n] > t

(* isdirty(): mt, lt are the times of the output on disk and in the build  *)
(* log, samehash tells whether the logged command hash is the edge's.      *)
isdirty(e, mt, lt, samehash, m) ==
    IF e \in Phony
    THEN In[e] = << >> /\ mt = MTIME_MISSING
    ELSE \/ mt = MTIME_MISSING
         \/ /\ NewerInput(e, m, mt)
            /\ e \notin Restat \/ lt = MTIME_MISSING
         \/ lt = MTIME_MISSING /\ e \notin Generator
         \/ lt # MTIME_MISSING /\ NewerInput(e, m, lt)
         \/ e \notin Generator /\ ~samehash
=============================================================================
