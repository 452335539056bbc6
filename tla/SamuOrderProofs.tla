-------------------------- MODULE SamuOrderProofs --------------------------
(***************************************************************************)
(* buildadd() refuses cycles, for every graph; and SamuBuild implements    *)
(* SamuOrder, for every graph, every -j and -k, and every outcome of the   *)
(* commands, when the manifest is not itself built.                        *)
(*                                                                         *)
(* The edges buildadd() is through with (FLAG_WORK without FLAG_CYCLE) are *)
(* closed under "needs the output of" and free of cycles; an edge joins    *)
(* them when all of its producers have, which is what the loop over the    *)
(* inputs has established when it ends.  FLAG_CYCLE marks exactly the      *)
(* edges on the call stack, whose producers are not all known yet.         *)
(*                                                                         *)
(* The order is a matter of nblock: for every edge buildadd() is through   *)
(* with, it is the number of inputs whose completion nodedone() has not    *)
(* yet told the edge, so that it is 0 only when the producers of all the   *)
(* inputs are settled.                                                     *)
(***************************************************************************)
EXTENDS SamuBuildProofs

Through == {e \in Edges : "WORK" \in flags[e] /\ "CYCLE" \notin flags[e]}

(* FLAG_CYCLE marks the edges on the call stack of buildadd(), each of     *)
(* which is there once.                                                    *)
Marked ==
    /\ \A e \in Edges : "CYCLE" \in flags[e] <=> \E k \in DOMAIN adding : adding[k].edge = e
    /\ \A e \in Edges : "CYCLE" \in flags[e] => "WORK" \in flags[e]
    /\ \A j, k \in DOMAIN adding : adding[j].edge = adding[k].edge => j = k

(* The inputs a frame has passed are those of edges that are through, but  *)
(* for the last one, whose edge may be that of the frame above.            *)
Passed(k, i) ==
    LET e == adding[k].edge
        g == Gen[In[e][i]]
    IN \/ g = NoEdge \/ g \in Through
       \/ k > 1 /\ i = adding[k].input - 1 /\ g = adding[k - 1].edge
Frames ==
    \A k \in DOMAIN adding :
        \A i \in DOMAIN In[adding[k].edge] : i < adding[k].input => Passed(k, i)

Closed(F) == \A e \in F : Producers(e) \subseteq F
Acyclic(F) == \A S \in SUBSET F : S # {} => \E e \in S : Producers(e) \cap S = {}

(* The inductive invariant; once samu has given up nothing follows.        *)
CycleInv ==
    pc # "exit" =>
        /\ pc # "add" => adding = << >>
        /\ Marked /\ Frames
        /\ Closed(Through) /\ Acyclic(Through)

-----------------------------------------------------------------------------
(* An edge whose producers are all in an acyclic, closed set can join it.  *)
LEMMA Join ==
  ASSUME NEW F, NEW e, e \notin F, Closed(F), Acyclic(F), Producers(e) \subseteq F
  PROVE  Closed(F \cup {e}) /\ Acyclic(F \cup {e})
  <1>1. Closed(F \cup {e})
    BY DEF Closed
  <1>2. ASSUME NEW S \in SUBSET (F \cup {e}), S # {}
        PROVE  \E x \in S : Producers(x) \cap S = {}
    <2> DEFINE T == S \ {e}
    <2>1. T \in SUBSET F
      OBVIOUS
    <2>2. CASE T = {}
      <3>1. S = {e}
        BY <1>2, <2>2
      <3> QED
        BY <3>1
    <2>3. CASE T # {}
      <3>1. PICK x \in T : Producers(x) \cap T = {}
        BY <2>1, <2>3 DEF Acyclic
      <3>2. x \in S /\ Producers(x) \subseteq F
        BY <2>1 DEF Closed
      <3>3. Producers(x) \cap S = {}
        BY <3>1, <3>2
      <3> QED
        BY <3>2, <3>3
    <2> QED
      BY <2>2, <2>3
  <1>3. Acyclic(F \cup {e})
    BY <1>2 DEF Acyclic
  <1> QED
    BY <1>1, <1>3

LEMMA EmptyAcyclic == Closed({}) /\ Acyclic({})
  BY DEF Closed, Acyclic

-----------------------------------------------------------------------------
(* The call buildadd(n) ends samu, finds the node's edge done (or finds    *)
(* none), or begins with an edge it has not seen.                          *)
LEMMA EnterCases ==
  ASSUME TypeOK, NEW n \in Nodes, NEW rest, Enter(n, rest)
  PROVE  \/ pc' = "exit"
         \/ /\ pc' = pc /\ adding' = rest /\ flags' = flags
            /\ Gen[n] = NoEdge \/ Gen[n] \in Through
         \/ /\ pc' = pc /\ adding' = <<[edge |-> Gen[n], input |-> 1]>> \o rest
            /\ Gen[n] \in Edges /\ "CYCLE" \notin flags[Gen[n]] /\ "WORK" \notin flags[Gen[n]]
            /\ \E f : flags' = [flags EXCEPT ![Gen[n]] = f] /\ "CYCLE" \in f /\ "WORK" \in f
  <1> DEFINE e == Gen[n]
  <1>1. e \in Edges \cup {NoEdge}
    BY GenType
  <1>2. CASE e = NoEdge
    BY <1>2 DEF Enter, Fatal, mainVars
  <1>3. CASE e # NoEdge /\ OnStack(e)
    BY <1>3 DEF Enter, Fatal
  <1>4. CASE e # NoEdge /\ ~OnStack(e) /\ Seen(e)
    BY <1>1, <1>4 DEF Enter, mainVars, Through, OnStack, Seen
  <1>5. CASE e # NoEdge /\ ~OnStack(e) /\ ~Seen(e)
    <2> DEFINE f == flags[e] \cup {"CYCLE", "WORK", "DEPS"} \cup
                       IF "DEPS" \notin flags[e] /\ e \in nodeps THEN {"DIRTY_OUT"} ELSE {}
    <2>1. flags' = [flags EXCEPT ![e] = f] /\ adding' = <<[edge |-> e, input |-> 1]>> \o rest /\ pc' = pc
      BY <1>5 DEF Enter, mainVars
    <2>2. "CYCLE" \in f /\ "WORK" \in f
      OBVIOUS
    <2> HIDE DEF f
    <2> QED
      BY <1>1, <1>5, <2>1, <2>2 DEF OnStack, Seen
  <1> QED
    BY <1>2, <1>3, <1>4, <1>5

(* Nothing changes for the invariant when neither the flags nor the call   *)
(* stack do.                                                               *)
LEMMA CycleSame ==
  ASSUME CycleInv, pc # "exit", UNCHANGED <<flags, adding>>, pc' = "add" \/ adding = << >>
  PROVE  CycleInv'
  <1>1. Through' = Through
    BY DEF Through
  <1>2. Marked'
    BY DEF CycleInv, Marked
  <1>3. Frames'
    BY <1>1 DEF CycleInv, Frames, Passed
  <1>4. Closed(Through') /\ Acyclic(Through')
    BY <1>1 DEF CycleInv
  <1> QED
    BY <1>2, <1>3, <1>4 DEF CycleInv, Closed, Acyclic

(* With no edge in question everything holds. *)
LEMMA CycleFresh ==
  ASSUME adding' = << >>, \A e \in Edges : "CYCLE" \notin flags'[e] /\ "WORK" \notin flags'[e]
  PROVE  CycleInv'
  <1>1. Through' = {}
    BY DEF Through
  <1>2. DOMAIN adding' = {}
    OBVIOUS
  <1>3. Marked' /\ Frames'
    BY <1>2 DEF Marked, Frames
  <1>4. Closed(Through') /\ Acyclic(Through')
    BY <1>1, EmptyAcyclic
  <1> QED
    BY <1>3, <1>4 DEF CycleInv, Closed, Acyclic

(* buildadd() goes down to an edge it has not seen. rest is the call stack *)
(* below: it has passed the inputs it had, and perhaps the one leading     *)
(* here.                                                                   *)
LEMMA GoDown ==
  ASSUME TypeOK, CycleInv, pc = "add", pc' = "add",
         NEW rest \in Seq(AddFrame), NEW e \in Edges, NEW f,
         "CYCLE" \notin flags[e], "WORK" \notin flags[e],
         flags' = [flags EXCEPT ![e] = f], "CYCLE" \in f, "WORK" \in f,
         adding' = <<[edge |-> e, input |-> 1]>> \o rest,
         DOMAIN rest = DOMAIN adding,
         \A k \in DOMAIN rest : rest[k].edge = adding[k].edge,
         \A k \in DOMAIN rest : k > 1 => rest[k] = adding[k],
         \A i \in DOMAIN In[rest[1].edge] : 1 \in DOMAIN rest /\ i < rest[1].input =>
            \/ Passed(1, i) /\ i < adding[1].input
            \/ i = rest[1].input - 1 /\ Gen[In[rest[1].edge][i]] = e
  PROVE  CycleInv'
  <1> DEFINE x == [edge |-> e, input |-> 1]
  <1>0. Marked /\ Frames /\ Closed(Through) /\ Acyclic(Through)
    BY DEF CycleInv
  <1>1. flags \in [Edges -> SUBSET Flags]
    BY DEF TypeOK, EdgeType
  <1>2. Through' = Through
    BY <1>1 DEF Through
  <1>3. x \in AddFrame /\ x.edge = e /\ x.input = 1
    BY DEF AddFrame
  <1> HIDE DEF x
  <1>4. /\ DOMAIN adding' = 1..(Len(rest) + 1) /\ DOMAIN rest = 1..Len(rest) /\ Len(rest) \in Nat
        /\ adding'[1] = x
        /\ \A k \in DOMAIN rest : adding'[k + 1] = rest[k]
        /\ \A k \in 1..(Len(rest) + 1) : k # 1 => k - 1 \in DOMAIN rest /\ adding'[k] = rest[k - 1]
    BY <1>3, Pushed DEF x
  <1>5. \A k \in DOMAIN adding : adding[k].edge # e
    BY <1>0 DEF Marked
  <1>6. Marked'
    <2>1. \A d \in Edges : "CYCLE" \in flags'[d] <=> \E k \in DOMAIN adding' : adding'[k].edge = d
      <3> SUFFICES ASSUME NEW d \in Edges
                   PROVE  "CYCLE" \in flags'[d] <=> \E k \in DOMAIN adding' : adding'[k].edge = d
        OBVIOUS
      <3>1. CASE d = e
        BY <1>1, <1>3, <1>4, <3>1
      <3>2. CASE d # e
        <4>1. flags'[d] = flags[d]
          BY <1>1, <3>2
        <4>2. (\E k \in DOMAIN adding' : adding'[k].edge = d) <=> \E k \in DOMAIN adding : adding[k].edge = d
          <5>1. ASSUME NEW k \in DOMAIN adding', adding'[k].edge = d
                PROVE  \E j \in DOMAIN adding : adding[j].edge = d
            <6>1. k # 1
              BY <1>3, <1>4, <3>2, <5>1
            <6>2. k - 1 \in DOMAIN rest /\ adding'[k] = rest[k - 1]
              BY <1>4, <6>1
            <6> QED
              BY <5>1, <6>2
          <5>2. ASSUME NEW k \in DOMAIN adding, adding[k].edge = d
                PROVE  \E j \in DOMAIN adding' : adding'[j].edge = d
            <6>1. k + 1 \in DOMAIN adding' /\ adding'[k + 1] = rest[k]
              BY <1>4
            <6> QED
              BY <5>2, <6>1
          <5> QED
            BY <5>1, <5>2
        <4> QED
          BY <1>0, <4>1, <4>2 DEF Marked
      <3> QED
        BY <3>1, <3>2
    <2>2. \A d \in Edges : "CYCLE" \in flags'[d] => "WORK" \in flags'[d]
      BY <1>0, <1>1 DEF Marked
    <2>3. \A j, k \in DOMAIN adding' : adding'[j].edge = adding'[k].edge => j = k
      <3> SUFFICES ASSUME NEW j \in DOMAIN adding', NEW k \in DOMAIN adding', adding'[j].edge = adding'[k].edge
                   PROVE  j = k
        OBVIOUS
      <3>1. \A i \in DOMAIN adding' : i # 1 =>
              i - 1 \in DOMAIN adding /\ adding'[i].edge = adding[i - 1].edge /\ adding'[i].edge # e
        BY <1>4, <1>5
      <3>2. CASE j = 1 \/ k = 1
        BY <1>3, <1>4, <3>1, <3>2
      <3>3. CASE j # 1 /\ k # 1
        <4>1. j - 1 = k - 1
          BY <1>0, <3>1, <3>3 DEF Marked
        <4> QED
          BY <1>4, <4>1
      <3> QED
        BY <3>2, <3>3
    <2> QED
      BY <2>1, <2>2, <2>3 DEF Marked
  <1>7. Frames'
    <2> SUFFICES ASSUME NEW k \in DOMAIN adding', NEW i \in DOMAIN In[adding'[k].edge], i < adding'[k].input
                 PROVE  Passed(k, i)'
      BY DEF Frames
    <2>0. \A a \in AddFrame : a.edge \in Edges /\ a.input \in Nat
      BY DEF AddFrame
    <2>1. k # 1
      <3>1. DOMAIN In[e] = 1..Len(In[e])
        BY GraphTypes
      <3>2. CASE k = 1
        BY <1>3, <1>4, <3>1, <3>2
      <3> QED
        BY <3>2
    <2>2. k \in Nat /\ k - 1 \in DOMAIN rest /\ adding'[k] = rest[k - 1] /\ k > 1
      BY <1>4, <2>1
    <2>3. adding'[k].edge = adding[k - 1].edge
      BY <2>2
    <2>4. CASE k - 1 > 1
      <3>1. rest[k - 1] = adding[k - 1] /\ k - 1 \in DOMAIN adding
        BY <2>2, <2>4
      <3>2. Passed(k - 1, i)
        BY <1>0, <2>2, <3>1 DEF Frames
      <3>3. k - 1 # 1 /\ k - 2 \in DOMAIN rest /\ k - 1 \in 1..(Len(rest) + 1) /\ adding'[k - 1] = rest[(k - 1) - 1]
        BY <1>4, <2>2, <2>4
      <3>4. adding'[k - 1].edge = adding[(k - 1) - 1].edge
        BY <3>3
      <3> QED
        BY <1>2, <2>2, <3>1, <3>2, <3>4 DEF Passed
    <2>5. CASE k - 1 = 1
      <3>1. k = 2 /\ 1 \in DOMAIN rest /\ adding'[k] = rest[1] /\ rest[1].edge = adding[1].edge
        BY <2>2, <2>5
      <3>2. CASE Passed(1, i)
        <4>1. Gen[In[adding[1].edge][i]] = NoEdge \/ Gen[In[adding[1].edge][i]] \in Through
          BY <3>2 DEF Passed
        <4> QED
          BY <1>2, <2>3, <3>1, <4>1 DEF Passed
      <3>3. CASE i = rest[1].input - 1 /\ Gen[In[rest[1].edge][i]] = e
        BY <1>3, <1>4, <2>2, <3>1, <3>3 DEF Passed
      <3> QED
        BY <3>1, <3>2, <3>3
    <2>6. k - 1 > 1 \/ k - 1 = 1
      BY <2>2
    <2> QED
      BY <2>4, <2>5, <2>6
  <1>8. Closed(Through') /\ Acyclic(Through')
    BY <1>0, <1>2
  <1> QED
    BY <1>6, <1>7, <1>8 DEF CycleInv, Closed, Acyclic


(* AddTarget: the call stack is empty below. *)
LEMMA TargetCycle ==
  ASSUME TypeOK, CycleInv, AddTarget
  PROVE  CycleInv'
  <1>1. pc = "add" /\ adding = << >> /\ adds # << >> /\ Enter(Head(adds), << >>)
    BY DEF AddTarget
  <1>2. Head(adds) \in Nodes
    BY <1>1, Pop DEF TypeOK, AddType
  <1> DEFINE n == Head(adds)
  <1> HIDE DEF n
  <1>3. \/ pc' = "exit"
        \/ /\ pc' = pc /\ adding' = << >> /\ flags' = flags
        \/ /\ pc' = pc /\ adding' = <<[edge |-> Gen[n], input |-> 1]>> \o << >>
           /\ Gen[n] \in Edges /\ "CYCLE" \notin flags[Gen[n]] /\ "WORK" \notin flags[Gen[n]]
           /\ \E f : flags' = [flags EXCEPT ![Gen[n]] = f] /\ "CYCLE" \in f /\ "WORK" \in f
    BY <1>1, <1>2, EnterCases DEF n
  <1>4. CASE pc' = "exit"
    BY <1>4 DEF CycleInv
  <1>5. CASE pc' = pc /\ adding' = << >> /\ flags' = flags
    <2>1. UNCHANGED <<flags, adding>> /\ pc # "exit" /\ pc' = "add"
      BY <1>1, <1>5
    <2> QED
      BY <2>1, CycleSame
  <1>6. CASE /\ pc' = pc /\ adding' = <<[edge |-> Gen[n], input |-> 1]>> \o << >>
             /\ Gen[n] \in Edges /\ "CYCLE" \notin flags[Gen[n]] /\ "WORK" \notin flags[Gen[n]]
             /\ \E f : flags' = [flags EXCEPT ![Gen[n]] = f] /\ "CYCLE" \in f /\ "WORK" \in f
    <2>1. PICK f : flags' = [flags EXCEPT ![Gen[n]] = f] /\ "CYCLE" \in f /\ "WORK" \in f
      BY <1>6
    <2> DEFINE rest == << >>
    <2>2. rest \in Seq(AddFrame) /\ DOMAIN rest = {} /\ DOMAIN adding = {}
      BY <1>1
    <2>3. adding' = <<[edge |-> Gen[n], input |-> 1]>> \o rest
      BY <1>6
    <2> HIDE DEF rest
    <2> QED
      BY <1>1, <1>6, <2>1, <2>2, <2>3, GoDown
  <1> QED
    BY <1>3, <1>4, <1>5, <1>6

(* AddInput: the frame has passed one input more. *)
LEMMA InputCycle ==
  ASSUME TypeOK, CycleInv, AddInput
  PROVE  CycleInv'
  <1> DEFINE t == Head(adding)
             moved == [t EXCEPT !.input = t.input + 1]
             rest == <<moved>> \o Tail(adding)
             n == In[t.edge][t.input]
  <1>0. Marked /\ Frames /\ Closed(Through) /\ Acyclic(Through)
    BY DEF CycleInv, AddInput
  <1>1. pc = "add" /\ adding # << >> /\ t.input <= Len(In[t.edge]) /\ Enter(n, rest)
    BY DEF AddInput
  <1>2. adding \in Seq(AddFrame)
    BY DEF TypeOK, AddType
  <1>3. /\ 1 \in DOMAIN adding /\ t = adding[1] /\ t \in AddFrame /\ Tail(adding) \in Seq(AddFrame)
        /\ Len(adding) \in Nat /\ DOMAIN adding = 1..Len(adding) /\ DOMAIN Tail(adding) = 1..(Len(adding) - 1)
        /\ \A k \in DOMAIN Tail(adding) : k + 1 \in DOMAIN adding /\ Tail(adding)[k] = adding[k + 1]
    BY <1>1, <1>2, Popped
  <1>4. t.edge \in Edges /\ t.input \in Nat \ {0}
    BY <1>3 DEF AddFrame
  <1>5. moved \in AddFrame /\ moved.edge = t.edge /\ moved.input = t.input + 1
    BY <1>3, <1>4 DEF AddFrame
  <1>6. n \in Nodes /\ DOMAIN In[t.edge] = 1..Len(In[t.edge])
    BY <1>1, <1>4, GraphTypes
  <1> HIDE DEF t, moved
  <1>7. /\ rest \in Seq(AddFrame) /\ DOMAIN rest = 1..(Len(Tail(adding)) + 1)
        /\ DOMAIN Tail(adding) = 1..Len(Tail(adding)) /\ Len(Tail(adding)) \in Nat
        /\ rest[1] = moved
        /\ \A k \in 1..(Len(Tail(adding)) + 1) : k # 1 =>
              k - 1 \in DOMAIN Tail(adding) /\ rest[k] = Tail(adding)[k - 1]
    BY <1>3, <1>5, Pushed, Push
  <1>8. DOMAIN rest = DOMAIN adding /\ Len(Tail(adding)) + 1 = Len(adding)
    <2>1. Len(adding) >= 1
      BY <1>3
    <2>2. Len(Tail(adding)) = Len(adding) - 1
      BY <1>1, <1>2
    <2> QED
      BY <1>3, <1>7, <2>1, <2>2
  <1>9. \A k \in DOMAIN rest : k > 1 => rest[k] = adding[k]
    <2> SUFFICES ASSUME NEW k \in DOMAIN rest, k > 1 PROVE rest[k] = adding[k]
      OBVIOUS
    <2>1. k - 1 \in DOMAIN Tail(adding) /\ rest[k] = Tail(adding)[k - 1] /\ k \in Nat
      BY <1>7
    <2>2. Tail(adding)[k - 1] = adding[(k - 1) + 1]
      BY <1>3, <2>1
    <2>3. (k - 1) + 1 = k
      BY <2>1
    <2> QED
      BY <2>1, <2>2, <2>3
  <1>10. \A k \in DOMAIN rest : rest[k].edge = adding[k].edge
    <2> SUFFICES ASSUME NEW k \in DOMAIN rest PROVE rest[k].edge = adding[k].edge
      OBVIOUS
    <2>1. CASE k = 1
      BY <1>3, <1>5, <1>7, <2>1
    <2>2. CASE k # 1
      BY <1>7, <1>9, <2>2
    <2> QED
      BY <2>1, <2>2
  <1>11. \A i \in DOMAIN In[t.edge] : i < t.input + 1 => (i < t.input /\ Passed(1, i)) \/ i = t.input
    BY <1>0, <1>3, <1>4, <1>6 DEF Frames
  <1> HIDE DEF rest, n
  <1>12. \/ pc' = "exit"
         \/ /\ pc' = pc /\ adding' = rest /\ flags' = flags
            /\ Gen[n] = NoEdge \/ Gen[n] \in Through
         \/ /\ pc' = pc /\ adding' = <<[edge |-> Gen[n], input |-> 1]>> \o rest
            /\ Gen[n] \in Edges /\ "CYCLE" \notin flags[Gen[n]] /\ "WORK" \notin flags[Gen[n]]
            /\ \E f : flags' = [flags EXCEPT ![Gen[n]] = f] /\ "CYCLE" \in f /\ "WORK" \in f
    BY <1>1, <1>6, EnterCases
  <1>13. CASE pc' = "exit"
    BY <1>13 DEF CycleInv
  <1>14. CASE /\ pc' = pc /\ adding' = rest /\ flags' = flags
              /\ Gen[n] = NoEdge \/ Gen[n] \in Through
    <2>1. Through' = Through
      BY <1>14 DEF Through
    <2>2. Marked'
      BY <1>0, <1>8, <1>10, <1>14 DEF Marked
    <2>3. Frames'
      <3> SUFFICES ASSUME NEW k \in DOMAIN rest, NEW i \in DOMAIN In[rest[k].edge], i < rest[k].input
                   PROVE  Passed(k, i)'
        BY <1>14 DEF Frames
      <3>1. CASE k = 1
        <4>1. rest[1] = moved /\ rest[1].edge = t.edge /\ i < t.input + 1
          BY <1>5, <1>7, <3>1
        <4>2. Gen[In[t.edge][i]] = NoEdge \/ Gen[In[t.edge][i]] \in Through
          <5>1. CASE i < t.input /\ Passed(1, i)
            BY <1>3, <5>1 DEF Passed
          <5>2. CASE i = t.input
            BY <1>14, <5>2 DEF n
          <5> QED
            BY <1>11, <3>1, <4>1, <5>1, <5>2
        <4> QED
          BY <1>14, <2>1, <3>1, <4>1, <4>2 DEF Passed
      <3>2. CASE k # 1
        <4>1. k > 1 /\ k \in DOMAIN adding /\ rest[k] = adding[k] /\ k - 1 \in DOMAIN rest
          BY <1>7, <1>8, <1>9, <3>2
        <4>2. Passed(k, i)
          BY <1>0, <4>1 DEF Frames
        <4>3. rest[k - 1].edge = adding[k - 1].edge
          BY <1>10, <4>1
        <4> QED
          BY <1>14, <2>1, <4>1, <4>2, <4>3 DEF Passed
      <3> QED
        BY <3>1, <3>2
    <2>4. Closed(Through') /\ Acyclic(Through')
      BY <1>0, <2>1
    <2> QED
      BY <1>1, <1>14, <2>2, <2>3, <2>4 DEF CycleInv, Closed, Acyclic
  <1>15. CASE /\ pc' = pc /\ adding' = <<[edge |-> Gen[n], input |-> 1]>> \o rest
              /\ Gen[n] \in Edges /\ "CYCLE" \notin flags[Gen[n]] /\ "WORK" \notin flags[Gen[n]]
              /\ \E f : flags' = [flags EXCEPT ![Gen[n]] = f] /\ "CYCLE" \in f /\ "WORK" \in f
    <2>1. PICK f : flags' = [flags EXCEPT ![Gen[n]] = f] /\ "CYCLE" \in f /\ "WORK" \in f
      BY <1>15
    <2>2. \A i \in DOMAIN In[rest[1].edge] : 1 \in DOMAIN rest /\ i < rest[1].input =>
            \/ Passed(1, i) /\ i < adding[1].input
            \/ i = rest[1].input - 1 /\ Gen[In[rest[1].edge][i]] = Gen[n]
      <3>1. rest[1].edge = t.edge /\ rest[1].input = t.input + 1 /\ adding[1].input = t.input
        BY <1>3, <1>5, <1>7
      <3>2. (t.input + 1) - 1 = t.input
        BY <1>4
      <3>3. \A i \in DOMAIN In[t.edge] : i < t.input + 1 =>
              (Passed(1, i) /\ i < t.input) \/ (i = (t.input + 1) - 1 /\ Gen[In[t.edge][i]] = Gen[n])
        <4> SUFFICES ASSUME NEW i \in DOMAIN In[t.edge], i < t.input + 1
                     PROVE  (Passed(1, i) /\ i < t.input) \/ (i = (t.input + 1) - 1 /\ Gen[In[t.edge][i]] = Gen[n])
          OBVIOUS
        <4>1. CASE i = t.input
          <5>1. n = In[t.edge][i]
            BY <4>1 DEF n
          <5> QED
            BY <3>2, <4>1, <5>1
        <4>2. CASE i < t.input /\ Passed(1, i)
          BY <4>2
        <4> QED
          BY <1>11, <4>1, <4>2
      <3> QED
        BY <3>1, <3>3
    <2>3. pc = "add" /\ pc' = "add"
      BY <1>1, <1>15
    <2> HIDE DEF Passed
    <2> QED
      BY <1>7, <1>8, <1>9, <1>10, <1>15, <2>1, <2>2, <2>3, GoDown
  <1> QED
    BY <1>12, <1>13, <1>14, <1>15

(* AddFinish: all inputs of the edge are passed, and none of them waits    *)
(* for a frame above, so the edge joins those that are through.            *)
LEMMA FinishCycle ==
  ASSUME TypeOK, CycleInv, AddFinish
  PROVE  CycleInv'
  <1> DEFINE e == Head(adding).edge
  <1>0. Marked /\ Frames /\ Closed(Through) /\ Acyclic(Through)
    BY DEF CycleInv, AddFinish
  <1>1. pc = "add" /\ pc' = "add" /\ adding # << >> /\ Head(adding).input > Len(In[e]) /\ adding' = Tail(adding)
    BY DEF AddFinish, mainVars
  <1>2. adding \in Seq(AddFrame) /\ flags \in [Edges -> SUBSET Flags]
    BY DEF TypeOK, AddType, EdgeType
  <1>3. /\ 1 \in DOMAIN adding /\ Head(adding) = adding[1] /\ Head(adding) \in AddFrame
        /\ Len(adding) \in Nat /\ DOMAIN adding = 1..Len(adding) /\ DOMAIN Tail(adding) = 1..(Len(adding) - 1)
        /\ \A k \in DOMAIN Tail(adding) : k + 1 \in DOMAIN adding /\ Tail(adding)[k] = adding[k + 1]
    BY <1>1, <1>2, Popped
  <1>4. e \in Edges /\ adding[1].input \in Nat /\ e = adding[1].edge
    BY <1>3 DEF AddFrame
  <1>5. PICK f : flags' = [flags EXCEPT ![e] = f] /\ "CYCLE" \notin f /\ ("WORK" \in flags[e] => "WORK" \in f)
    <2> DEFINE dirtyin == \E n \in Essential(e) : dirty[n]
               dirtyout == \/ "DIRTY_OUT" \in flags[e]
                           \/ \E n \in Members(Out[e]) :
                                 isdirty(e, mtime[n], logmtime[n], samehash[n], mtime)
               fl == (flags[e] \ {"CYCLE"}) \cup (IF dirtyin THEN {"DIRTY_IN"} ELSE {})
                                            \cup (IF dirtyout THEN {"DIRTY_OUT"} ELSE {})
    <2>1. flags' = [flags EXCEPT ![e] = fl]
      BY DEF AddFinish
    <2> HIDE DEF dirtyin, dirtyout
    <2>2. "CYCLE" \notin fl /\ ("WORK" \in flags[e] => "WORK" \in fl)
      OBVIOUS
    <2> HIDE DEF fl
    <2> QED
      BY <2>1, <2>2
  <1> HIDE DEF e
  <1>6. "CYCLE" \in flags[e] /\ "WORK" \in flags[e]
    BY <1>0, <1>3, <1>4 DEF Marked
  <1>7. Through' = Through \cup {e} /\ e \notin Through
    BY <1>2, <1>4, <1>5, <1>6 DEF Through
  <1>8. Producers(e) \subseteq Through
    <2>1. DOMAIN In[e] = 1..Len(In[e]) /\ Len(In[e]) \in Nat
      BY <1>4, GraphTypes
    <2>2. \A i \in DOMAIN In[e] : Gen[In[e][i]] = NoEdge \/ Gen[In[e][i]] \in Through
      <3> SUFFICES ASSUME NEW i \in DOMAIN In[e]
                   PROVE  Gen[In[e][i]] = NoEdge \/ Gen[In[e][i]] \in Through
        OBVIOUS
      <3>1. i < adding[1].input
        BY <1>1, <1>3, <1>4, <2>1
      <3>2. Passed(1, i)
        BY <1>0, <1>3, <1>4, <3>1 DEF Frames
      <3> QED
        BY <1>4, <3>2 DEF Passed
    <2> QED
      BY <2>2 DEF Producers, Members
  <1>9. Closed(Through') /\ Acyclic(Through')
    BY <1>0, <1>7, <1>8, Join
  <1>10. Marked'
    <2>1. \A d \in Edges : "CYCLE" \in flags'[d] <=> \E k \in DOMAIN adding' : adding'[k].edge = d
      <3> SUFFICES ASSUME NEW d \in Edges
                   PROVE  "CYCLE" \in flags'[d] <=> \E k \in DOMAIN adding' : adding'[k].edge = d
        OBVIOUS
      <3>1. \A k \in DOMAIN adding' : adding'[k].edge # e
        BY <1>0, <1>1, <1>3, <1>4 DEF Marked
      <3>2. CASE d = e
        BY <1>2, <1>4, <1>5, <3>1, <3>2
      <3>3. CASE d # e
        <4>1. flags'[d] = flags[d]
          BY <1>2, <1>5, <3>3
        <4>2. ASSUME NEW k \in DOMAIN adding, adding[k].edge = d
              PROVE  k - 1 \in DOMAIN adding' /\ adding'[k - 1].edge = d
          <5>1. k # 1
            BY <1>4, <3>3, <4>2
          <5>2. k - 1 \in DOMAIN adding' /\ (k - 1) + 1 = k
            BY <1>1, <1>3, <5>1
          <5> QED
            BY <1>1, <1>3, <4>2, <5>2
        <4>3. ASSUME NEW k \in DOMAIN adding', adding'[k].edge = d
              PROVE  k + 1 \in DOMAIN adding /\ adding[k + 1].edge = d
          BY <1>1, <1>3, <4>3
        <4> QED
          BY <1>0, <4>1, <4>2, <4>3 DEF Marked
      <3> QED
        BY <3>2, <3>3
    <2>2. \A d \in Edges : "CYCLE" \in flags'[d] => "WORK" \in flags'[d]
      BY <1>0, <1>2, <1>4, <1>5 DEF Marked
    <2>3. \A j, k \in DOMAIN adding' : adding'[j].edge = adding'[k].edge => j = k
      BY <1>0, <1>1, <1>3 DEF Marked
    <2> QED
      BY <2>1, <2>2, <2>3 DEF Marked
  <1>11. Frames'
    <2> SUFFICES ASSUME NEW k \in DOMAIN adding', NEW i \in DOMAIN In[adding'[k].edge], i < adding'[k].input
                 PROVE  Passed(k, i)'
      BY DEF Frames
    <2>1. k \in Nat /\ k >= 1 /\ k + 1 \in DOMAIN adding /\ adding'[k] = adding[k + 1] /\ (k + 1) - 1 = k
      BY <1>1, <1>3
    <2>2. Passed(k + 1, i)
      BY <1>0, <2>1 DEF Frames
    <2>3. CASE k = 1
      <3>1. Gen[In[adding[2].edge][i]] = NoEdge \/ Gen[In[adding[2].edge][i]] \in Through \cup {e}
        BY <1>4, <2>1, <2>2, <2>3 DEF Passed
      <3> QED
        BY <1>7, <2>1, <2>3, <3>1 DEF Passed
    <2>4. CASE k # 1
      <3>1. k > 1 /\ k - 1 \in DOMAIN adding' /\ (k - 1) + 1 = k
        BY <1>1, <1>3, <2>1, <2>4
      <3>2. adding'[k - 1] = adding[k]
        BY <1>1, <1>3, <3>1
      <3> QED
        BY <1>7, <2>1, <2>2, <3>1, <3>2 DEF Passed
    <2> QED
      BY <2>3, <2>4
  <1> QED
    BY <1>1, <1>9, <1>10, <1>11 DEF CycleInv, Closed, Acyclic

-----------------------------------------------------------------------------
(* The flags of a graph in which nothing is being added. *)
LEMMA NotMarked ==
  ASSUME CycleInv, pc # "exit", adding = << >>
  PROVE  \A e \in Edges : "CYCLE" \notin flags[e]
  BY DEF CycleInv, Marked

LEMMA CycleStep ==
  ASSUME IInv, CycleInv, [Next]_vars
  PROVE  CycleInv'
  <1>0. TypeOK
    BY DEF IInv
  <1>e. pc' = "exit" => CycleInv'
    BY DEF CycleInv
  <1>s. UNCHANGED <<flags, adding, pc>> => CycleInv'
    <2>1. CASE UNCHANGED <<flags, adding, pc>> /\ pc # "exit"
      BY <2>1, CycleSame DEF CycleInv
    <2>2. CASE UNCHANGED <<flags, adding, pc>> /\ pc = "exit"
      BY <2>2 DEF CycleInv
    <2> QED
      BY <2>1, <2>2
  <1>n. UNCHANGED <<flags, adding>> /\ pc # "exit" /\ adding = << >> => CycleInv'
    BY CycleSame
  <1>1. CASE AddTarget
    BY <1>0, <1>1, TargetCycle
  <1>2. CASE AddInput
    BY <1>0, <1>2, InputCycle
  <1>3. CASE AddFinish
    BY <1>0, <1>3, FinishCycle
  <1>4. CASE ManifestClean
    BY <1>4, <1>s DEF ManifestClean, edgeVars
  <1>5. CASE BuildBegin
    BY <1>5, <1>n DEF BuildBegin, edgeVars, addVars
  <1>6. CASE Finished
    BY <1>6, <1>e DEF Finished
  <1>7. CASE ManifestRetry
    <2>1. pc = "return" /\ adding' = adding /\ (pc' = "exit" \/ FreshGraph)
      BY <1>7 DEF ManifestRetry
    <2>2. adding = << >>
      BY <2>1 DEF CycleInv
    <2>3. CASE FreshGraph
      <3>1. \A e \in Edges : flags'[e] = {}
        BY <2>3 DEF FreshGraph
      <3> QED
        BY <2>1, <2>2, <3>1, CycleFresh
    <2> QED
      BY <1>e, <2>1, <2>3
  <1>8. CASE ManifestPruned
    <2>1. pc = "return" /\ adding' = adding /\ flags' = NoWork
      BY <1>8 DEF ManifestPruned
    <2>2. adding = << >>
      BY <2>1 DEF CycleInv
    <2>3. \A e \in Edges : "CYCLE" \notin flags'[e] /\ "WORK" \notin flags'[e]
      BY <2>1, <2>2, NotMarked DEF NoWork
    <2> QED
      BY <2>1, <2>2, <2>3, CycleFresh
  <1>9. CASE StartNothing \/ StartJob \/ StartFails
    <2>1. UNCHANGED <<flags, adding, pc>>
      BY <1>9 DEF StartNothing, StartJob, StartFails, edgeVars, addVars, mainVars
    <2> QED
      BY <1>s, <2>1
  <1>10. CASE BuildEnd \/ WaitForJobs
    <2>1. UNCHANGED <<flags, adding>> /\ pc = "start"
      BY <1>10 DEF BuildEnd, WaitForJobs, Stalled, edgeVars, addVars
    <2>2. adding = << >>
      BY <2>1 DEF CycleInv
    <2> QED
      BY <1>n, <2>1, <2>2
  <1>11. CASE Poll \/ ScanEnd
    <2>1. UNCHANGED <<flags, adding>> /\ pc \in {"poll", "scan"}
      BY <1>11 DEF Poll, ScanEnd, edgeVars, addVars
    <2>2. adding = << >>
      BY <2>1 DEF CycleInv
    <2> QED
      BY <1>n, <2>1, <2>2
  <1>12. CASE JobDone \/ Prune \/ Unblock \/ SkipUser \/ NodeDone
    <2>1. UNCHANGED <<flags, adding, pc>>
      BY <1>12 DEF JobDone, Prune, Unblock, SkipUser, NodeDone, edgeVars, addVars, mainVars
    <2> QED
      BY <1>s, <2>1
  <1>13. CASE Commands
    <2>1. UNCHANGED <<flags, adding, pc>>
      BY <1>13 DEF Commands, PipeCloses, CommandExits, edgeVars, addVars, mainVars
    <2> QED
      BY <1>s, <2>1
  <1>14. CASE UNCHANGED vars
    <2>1. UNCHANGED <<flags, adding, pc>>
      BY <1>14 DEF vars, edgeVars, addVars, mainVars
    <2> QED
      BY <1>s, <2>1
  <1> QED
    BY <1>1, <1>2, <1>3, <1>4, <1>5, <1>6, <1>7, <1>8, <1>9, <1>10, <1>11, <1>12, <1>13, <1>14
    DEF Next, Samu, Exited

LEMMA CycleInit == Init => CycleInv
  <1> SUFFICES ASSUME Init PROVE CycleInv
    OBVIOUS
  <1>1. adding = << >> /\ \A e \in Edges : flags[e] = {}
    BY DEF Init
  <1>2. Through = {} /\ DOMAIN adding = {}
    BY <1>1 DEF Through
  <1>3. Marked /\ Frames
    BY <1>1, <1>2 DEF Marked, Frames
  <1> QED
    BY <1>1, <1>2, <1>3, EmptyAcyclic DEF CycleInv

(* Whatever the graph and its targets, no command is run, and the build is *)
(* not said to be done, unless the edges buildadd() took on are free of    *)
(* cycles: FLAG_CYCLE catches every one of them.                           *)
THEOREM NoCycles == Spec => []CycleRefused
  <1>1. IInv /\ CycleInv /\ [Next]_vars => CycleInv'
    BY CycleStep
  <1>2. CycleInv => CycleRefused
    <2> SUFFICES ASSUME CycleInv, pc \in {"start", "return"},
                        NEW S \in SUBSET {e \in Edges : "WORK" \in flags[e]}, S # {}
                 PROVE  \E e \in S : Producers(e) \cap S = {}
      BY DEF CycleRefused
    <2>1. adding = << >> /\ pc # "exit" /\ Acyclic(Through)
      BY DEF CycleInv
    <2>2. S \in SUBSET Through
      BY <2>1, NotMarked DEF Through
    <2> QED
      BY <2>1, <2>2 DEF Acyclic
  <1> QED
    BY CycleInit, Invariant, <1>1, <1>2, PTL DEF Spec

-----------------------------------------------------------------------------
(* The order of the build *)

(* n->use and e->in list the same uses (parseedge(), edgeadddeps()): a     *)
(* bijection between the inputs of e that are n and the uses of n by e,    *)
(* and the use that belongs to input i of e.                               *)
InputsOf(e, n) == {i \in DOMAIN In[e] : In[e][i] = n}
UsesBy(n, e) == {j \in DOMAIN Use[n] : Use[n][j] = e}
Pairing(e, n) == CHOOSE h \in Bijection(InputsOf(e, n), UsesBy(n, e)) : TRUE
UseOf(e, i) == Pairing(e, In[e][i])[i]

(* Use j of node n has been told that n is done, or need not be: n is a    *)
(* source, or its edge is one of the settled ones, S, and none of the      *)
(* frames fr of nodedone() has yet to come to that use.                    *)
Told(S, fr, n, j) ==
    \/ Gen[n] = NoEdge
    \/ Gen[n] \in S /\ \A k \in DOMAIN fr : fr[k].node = n => j < fr[k].use

(* The inputs e still waits for. *)
Untold(S, fr, e) == {i \in DOMAIN In[e] : ~Told(S, fr, In[e][i], UseOf(e, i))}
SettledEdges == {e \in Edges : Settled(e)}
Pending(e) == Untold(SettledEdges, todo, e)

(* nodedone() runs for nodes of settled edges, and once for each.          *)
TellsOnce(S, fr) ==
    /\ \A k \in DOMAIN fr : Gen[fr[k].node] \in S
    /\ \A j, k \in DOMAIN fr : fr[j].node = fr[k].node => j = k

Counted(e) ==
    /\ Settled(e) \/ result[e] # "none" => Pending(e) = {}
    /\ ~Settled(e) => nblock[e] = Cardinality(Pending(e))
    /\ ~Settled(e) /\ result[e] = "none" /\ "DIRTY_OUT" \notin flags[e] => nprune[e] >= nblock[e]

(* Edges buildadd() is not through with have no history. *)
Fresh == \A e \in Edges \ Through : result[e] = "none" /\ "DIRTY_IN" \notin flags[e]

(* While edges are added, an input blocks exactly if its edge is not       *)
(* settled.                                                                *)
Adding ==
    pc = "add" =>
        /\ \A e \in Edges : result[e] = "none"
        /\ \A n \in Nodes : dirty[n] => Gen[n] \in Through
        /\ \A n \in Nodes : Gen[n] \in Through => (Blocks(n) <=> ~Settled(Gen[n]))

Telling == TellsOnce(SettledEdges, todo)

Idle(e) == e \in Through /\ result[e] = "none" /\ ~Settled(e) /\ nblock[e] = 0

(* An edge is on the queues w and pw at most once, and then one of I. *)
Once(s) == \A i, k \in DOMAIN s : s[i] = s[k] => i = k
QueuesIn(I, w, pw) ==
    /\ Once(w) /\ Members(w) \subseteq I
    /\ \A p \in Pools : Once(pw[p]) /\ Members(pw[p]) \subseteq I \ Members(w)

IdleEdges == {e \in Edges : Idle(e)}
Queues == QueuesIn(IdleEdges, work, poolwork)

(* The jobs are of different edges, which are running. *)
Jobs ==
    /\ \A i \in Busy : result[jobs[i].edge] = "running"
    /\ \A i, k \in Busy : jobs[i].edge = jobs[k].edge => i = k

OrderInv ==
    /\ pass = "targets"
    /\ pc = "exit" => todo = << >>
    /\ pc # "exit" =>
          /\ Fresh /\ Adding /\ Telling /\ Queues /\ Jobs
          /\ \A e \in Through : Counted(e)


-----------------------------------------------------------------------------
(* The graph *)

(* UseOf pairs the inputs of an edge with the uses its nodes list. *)
LEMMA Paired ==
  ASSUME NEW e \in Edges, NEW n \in Nodes
  PROVE  Pairing(e, n) \in Bijection(InputsOf(e, n), UsesBy(n, e))
  <1>1. Cardinality(InputsOf(e, n)) = Cardinality(UsesBy(n, e))
    BY UseAssumption DEF UseAssumption, InputsOf, UsesBy
  <1>2. IsFiniteSet(InputsOf(e, n))
    BY InputCount DEF InputsOf
  <1>3. IsFiniteSet(UsesBy(n, e))
    <2>1. DOMAIN Use[n] = 1..Len(Use[n]) /\ Len(Use[n]) \in Nat
      BY GraphTypes
    <2>2. IsFiniteSet(DOMAIN Use[n])
      BY <2>1, FS_Interval
    <2> QED
      BY <2>2, FS_Subset DEF UsesBy
  <1>4. ExistsBijection(InputsOf(e, n), UsesBy(n, e))
    BY <1>1, <1>2, <1>3, FS_SameCardinalityBij
  <1>5. Bijection(InputsOf(e, n), UsesBy(n, e)) # {}
    BY <1>4, Fun_ExistsBij
  <1> QED
    BY <1>5 DEF Pairing

LEMMA Uses ==
  ASSUME NEW e \in Edges
  PROVE  /\ \A i \in DOMAIN In[e] : /\ In[e][i] \in Nodes
                                    /\ UseOf(e, i) \in DOMAIN Use[In[e][i]]
                                    /\ Use[In[e][i]][UseOf(e, i)] = e
         /\ \A i, k \in DOMAIN In[e] : In[e][i] = In[e][k] /\ UseOf(e, i) = UseOf(e, k) => i = k
         /\ \A n \in Nodes : \A j \in DOMAIN Use[n] : Use[n][j] = e =>
               \E i \in DOMAIN In[e] : In[e][i] = n /\ UseOf(e, i) = j
  <1>1. \A i \in DOMAIN In[e] : In[e][i] \in Nodes
    BY GraphTypes
  <1>2. ASSUME NEW n \in Nodes
        PROVE  /\ \A i \in InputsOf(e, n) : Pairing(e, n)[i] \in UsesBy(n, e)
               /\ \A i, k \in InputsOf(e, n) : Pairing(e, n)[i] = Pairing(e, n)[k] => i = k
               /\ \A j \in UsesBy(n, e) : \E i \in InputsOf(e, n) : Pairing(e, n)[i] = j
    <2>1. Pairing(e, n) \in Bijection(InputsOf(e, n), UsesBy(n, e))
      BY Paired
    <2> QED
      BY <2>1 DEF Bijection, Injection, Surjection, IsInjective
  <1>3. ASSUME NEW i \in DOMAIN In[e]
        PROVE  UseOf(e, i) \in DOMAIN Use[In[e][i]] /\ Use[In[e][i]][UseOf(e, i)] = e
    <2>1. i \in InputsOf(e, In[e][i])
      BY DEF InputsOf
    <2>2. UseOf(e, i) \in UsesBy(In[e][i], e)
      BY <1>1, <1>2, <2>1 DEF UseOf
    <2> QED
      BY <2>2 DEF UsesBy
  <1>4. ASSUME NEW i \in DOMAIN In[e], NEW k \in DOMAIN In[e], In[e][i] = In[e][k], UseOf(e, i) = UseOf(e, k)
        PROVE  i = k
    <2> DEFINE n == In[e][i]
    <2>1. i \in InputsOf(e, n) /\ k \in InputsOf(e, n) /\ n \in Nodes
      BY <1>1, <1>4 DEF InputsOf
    <2>2. Pairing(e, n)[i] = Pairing(e, n)[k]
      BY <1>4 DEF UseOf
    <2> HIDE DEF n
    <2> QED
      BY <1>2, <2>1, <2>2
  <1>5. ASSUME NEW n \in Nodes, NEW j \in DOMAIN Use[n], Use[n][j] = e
        PROVE  \E i \in DOMAIN In[e] : In[e][i] = n /\ UseOf(e, i) = j
    <2>1. j \in UsesBy(n, e)
      BY <1>5 DEF UsesBy
    <2>2. PICK i \in InputsOf(e, n) : Pairing(e, n)[i] = j
      BY <1>2, <2>1
    <2> QED
      BY <2>2 DEF InputsOf, UseOf
  <1> QED
    BY <1>1, <1>3, <1>4, <1>5

(* n->gen is the edge that has n as an output. *)
LEMMA Generates ==
  /\ \A e \in Edges : \A n \in Members(Out[e]) : n \in Nodes /\ Gen[n] = e
  /\ \A n \in Nodes : Gen[n] \in Edges => n \in Members(Out[Gen[n]])
  /\ NoEdge \notin Edges
  <1>1. NoEdge \notin Edges
    BY GraphAssumption DEF GraphAssumption
  <1>2. ASSUME NEW n \in Nodes, NEW e \in Edges, n \in Members(Out[e])
        PROVE  Gen[n] = e
    <2>1. Gen[n] = CHOOSE x \in Edges : n \in Members(Out[x])
      BY <1>2 DEF Gen
    <2>2. Gen[n] \in Edges /\ n \in Members(Out[Gen[n]])
      BY <1>2, <2>1
    <2> QED
      BY <1>2, <2>2, UseAssumption DEF UseAssumption
  <1>3. ASSUME NEW n \in Nodes, Gen[n] \in Edges
        PROVE  n \in Members(Out[Gen[n]])
    <2>1. \E e \in Edges : n \in Members(Out[e])
      BY <1>1, <1>3 DEF Gen
    <2>2. Gen[n] = CHOOSE x \in Edges : n \in Members(Out[x])
      BY <2>1 DEF Gen
    <2> QED
      BY <2>1, <2>2
  <1>4. ASSUME NEW e \in Edges, NEW n \in Members(Out[e])
        PROVE  n \in Nodes /\ Gen[n] = e
    <2>1. n \in Nodes
      BY OutMembers
    <2> QED
      BY <1>2, <2>1
  <1> QED
    BY <1>1, <1>3, <1>4

LEMMA UntoldFinite ==
  ASSUME NEW S, NEW fr, NEW e \in Edges
  PROVE  IsFiniteSet(Untold(S, fr, e)) /\ Cardinality(Untold(S, fr, e)) \in Nat
  BY InputCount DEF Untold

(* An edge that waits for nothing has settled producers. *)
LEMMA ProducersSettled ==
  ASSUME NEW S, NEW fr, NEW e \in Edges
  PROVE  /\ Untold(S, fr, e) = {} => Producers(e) \subseteq S
         /\ \A i : Untold(S, fr, e) = {i} => Producers(e) \subseteq S \cup {Gen[In[e][i]]}
  <1>1. \A i \in DOMAIN In[e] : i \in Untold(S, fr, e) \/ Gen[In[e][i]] = NoEdge \/ Gen[In[e][i]] \in S
    BY DEF Untold, Told
  <1>2. \A x \in Producers(e) : x # NoEdge /\ \E i \in DOMAIN In[e] : x = Gen[In[e][i]]
    BY DEF Producers, Members
  <1> QED
    BY <1>1, <1>2

-----------------------------------------------------------------------------
(* What the calls of nodedone() tell *)

(* The frames of the outputs of e come before the others. *)
LEMMA NotifyFrames ==
  ASSUME NEW e \in Edges, NEW pr \in [DOMAIN Out[e] -> BOOLEAN], NEW fr \in Seq(FrameType)
  PROVE  LET N == Notify(e, pr)
             new == N \o fr
         IN /\ N \in Seq(FrameType) /\ Len(N) \in Nat /\ Len(fr) \in Nat
            /\ DOMAIN N = 1..Len(N) /\ DOMAIN fr = 1..Len(fr) /\ DOMAIN Out[e] = 1..Len(N)
            /\ DOMAIN new = 1..(Len(N) + Len(fr))
            /\ \A k \in 1..Len(N) : new[k].node = Out[e][k] /\ new[k].use = 1
            /\ \A k \in 1..(Len(N) + Len(fr)) : k \notin 1..Len(N) => k - Len(N) \in DOMAIN fr /\ new[k] = fr[k - Len(N)]
            /\ \A k \in DOMAIN fr : k + Len(N) \in DOMAIN new /\ new[k + Len(N)] = fr[k]
  <1> DEFINE N == Notify(e, pr)
             new == N \o fr
  <1>1. Out[e] \in Seq(Nodes)
    BY GraphTypes
  <1>2. DOMAIN Out[e] = 1..Len(Out[e]) /\ Len(Out[e]) \in Nat
    BY <1>1
  <1>3. \A i \in DOMAIN Out[e] : [node |-> Out[e][i], use |-> 1, prune |-> pr[i]] \in FrameType
    BY <1>1 DEF FrameType
  <1>4. N = [i \in 1..Len(Out[e]) |-> [node |-> Out[e][i], use |-> 1, prune |-> pr[i]]]
    BY <1>2 DEF Notify
  <1>5. N \in Seq(FrameType) /\ Len(N) = Len(Out[e]) /\ DOMAIN N = 1..Len(N)
    <2> DEFINE F == FrameType
    <2>1. N \in [1..Len(Out[e]) -> F]
      BY <1>2, <1>3, <1>4
    <2> HIDE DEF N, F
    <2>2. N \in Seq(F) /\ DOMAIN N = 1..Len(Out[e])
      BY <1>2, <2>1
    <2>3. Len(N) = Len(Out[e])
      BY <1>2, <2>2
    <2> QED
      BY <2>2, <2>3 DEF F
  <1>6. \A k \in 1..Len(N) : N[k].node = Out[e][k] /\ N[k].use = 1
    BY <1>2, <1>4, <1>5
  <1> HIDE DEF N
  <1>7. Len(N) \in Nat /\ Len(fr) \in Nat /\ DOMAIN fr = 1..Len(fr)
    BY <1>5
  <1>8. Len(new) = Len(N) + Len(fr) /\ DOMAIN new = 1..(Len(N) + Len(fr))
    BY <1>5, <1>7, SMTT(20)
  <1>9. \A k \in 1..(Len(N) + Len(fr)) : new[k] = IF k <= Len(N) THEN N[k] ELSE fr[k - Len(N)]
    BY <1>5, <1>7
  <1> HIDE DEF new
  <1>10. \A k \in 1..Len(N) : new[k].node = Out[e][k] /\ new[k].use = 1
    BY <1>6, <1>7, <1>9
  <1>11. \A k \in 1..(Len(N) + Len(fr)) : k \notin 1..Len(N) => k - Len(N) \in DOMAIN fr /\ new[k] = fr[k - Len(N)]
    BY <1>7, <1>9
  <1>12. \A k \in DOMAIN fr : k + Len(N) \in DOMAIN new /\ new[k + Len(N)] = fr[k]
    <2> SUFFICES ASSUME NEW k \in DOMAIN fr PROVE k + Len(N) \in DOMAIN new /\ new[k + Len(N)] = fr[k]
      OBVIOUS
    <2>1. k + Len(N) \in 1..(Len(N) + Len(fr)) /\ ~(k + Len(N) <= Len(N)) /\ (k + Len(N)) - Len(N) = k
      BY <1>7
    <2> QED
      BY <1>8, <1>9, <2>1
  <1>13. DOMAIN Out[e] = 1..Len(N)
    BY <1>2, <1>5
  <1> QED
    BY <1>5, <1>7, <1>8, <1>10, <1>11, <1>12, <1>13 DEF N, new

(* An edge is settled and its outputs' users are to be told: nobody has    *)
(* been told yet.                                                          *)
LEMMA NotifyTold ==
  ASSUME NEW S \in SUBSET Edges, NEW fr \in Seq(FrameType), TellsOnce(S, fr),
         NEW e \in Edges, e \notin S, NEW pr \in [DOMAIN Out[e] -> BOOLEAN]
  PROVE  /\ Notify(e, pr) \o fr \in Seq(FrameType)
         /\ TellsOnce(S \cup {e}, Notify(e, pr) \o fr)
         /\ \A d \in Edges : Untold(S \cup {e}, Notify(e, pr) \o fr, d) = Untold(S, fr, d)
  <1> DEFINE N == Notify(e, pr)
             new == N \o fr
  <1>1. /\ N \in Seq(FrameType) /\ Len(N) \in Nat /\ Len(fr) \in Nat
        /\ DOMAIN N = 1..Len(N) /\ DOMAIN fr = 1..Len(fr) /\ DOMAIN Out[e] = 1..Len(N)
        /\ DOMAIN new = 1..(Len(N) + Len(fr))
        /\ \A k \in 1..Len(N) : new[k].node = Out[e][k] /\ new[k].use = 1
        /\ \A k \in 1..(Len(N) + Len(fr)) : k \notin 1..Len(N) => k - Len(N) \in DOMAIN fr /\ new[k] = fr[k - Len(N)]
        /\ \A k \in DOMAIN fr : k + Len(N) \in DOMAIN new /\ new[k + Len(N)] = fr[k]
    BY NotifyFrames
  <1>2. new \in Seq(FrameType)
    BY <1>1, Joined
  <1> HIDE DEF N, new
  <1>3. \A k \in 1..Len(N) : k \in DOMAIN new /\ Gen[new[k].node] = e /\ new[k].node \in Members(Out[e])
    <2>1. \A k \in DOMAIN Out[e] : Out[e][k] \in Members(Out[e])
      BY DEF Members
    <2>2. 1..Len(N) \subseteq DOMAIN new
      BY <1>1
    <2> QED
      BY <1>1, <2>1, <2>2, Generates
  <1>4. ASSUME NEW k \in DOMAIN new, k \notin 1..Len(N)
        PROVE  Gen[new[k].node] \in S /\ Gen[new[k].node] # e
    <2>1. k - Len(N) \in DOMAIN fr /\ new[k] = fr[k - Len(N)]
      BY <1>1, <1>4
    <2>2. Gen[fr[k - Len(N)].node] \in S
      BY <2>1 DEF TellsOnce
    <2> QED
      BY <2>1, <2>2
  <1>5. TellsOnce(S \cup {e}, new)
    <2>1. \A k \in DOMAIN new : Gen[new[k].node] \in S \cup {e}
      BY <1>3, <1>4
    <2>2. ASSUME NEW j \in DOMAIN new, NEW k \in DOMAIN new, new[j].node = new[k].node
          PROVE  j = k
      <3>1. j \in 1..Len(N) <=> k \in 1..Len(N)
        BY <1>3, <1>4, <2>2
      <3>2. CASE j \in 1..Len(N)
        <4>1. k \in 1..Len(N) /\ Out[e][j] = Out[e][k]
          BY <1>1, <2>2, <3>1, <3>2
        <4> QED
          BY <1>1, <3>2, <4>1, UseAssumption DEF UseAssumption
      <3>3. CASE j \notin 1..Len(N)
        <4>1. j - Len(N) \in DOMAIN fr /\ k - Len(N) \in DOMAIN fr /\ fr[j - Len(N)].node = fr[k - Len(N)].node
          BY <1>1, <2>2, <3>1, <3>3
        <4>2. j - Len(N) = k - Len(N)
          BY <4>1 DEF TellsOnce
        <4> QED
          BY <1>1, <4>2
      <3> QED
        BY <3>2, <3>3
    <2> QED
      BY <2>1, <2>2 DEF TellsOnce
  <1>6. ASSUME NEW d \in Edges, NEW i \in DOMAIN In[d]
        PROVE  Told(S \cup {e}, new, In[d][i], UseOf(d, i)) <=> Told(S, fr, In[d][i], UseOf(d, i))
    <2> DEFINE n == In[d][i]
               j == UseOf(d, i)
    <2>1. n \in Nodes /\ j \in Nat /\ j >= 1
      <3>1. n \in Nodes /\ j \in DOMAIN Use[n]
        BY Uses
      <3>2. DOMAIN Use[n] = 1..Len(Use[n])
        BY <3>1, GraphTypes
      <3> QED
        BY <3>1, <3>2
    <2> SUFFICES Told(S \cup {e}, new, n, j) <=> Told(S, fr, n, j)
      OBVIOUS
    <2> HIDE DEF n, j
    <2>2. CASE Gen[n] = e
      <3>1. ~Told(S, fr, n, j)
        BY <2>2, Generates DEF Told
      <3>2. PICK k \in DOMAIN Out[e] : Out[e][k] = n
        BY <2>1, <2>2, Generates DEF Members
      <3>3. k \in DOMAIN new /\ new[k].node = n /\ new[k].use = 1
        BY <1>1, <1>3, <3>2
      <3>4. ~Told(S \cup {e}, new, n, j)
        BY <2>1, <2>2, <3>3, Generates DEF Told
      <3> QED
        BY <3>1, <3>4
    <2>3. CASE Gen[n] # e
      <3>1. (\A k \in DOMAIN new : new[k].node = n => j < new[k].use) <=>
            (\A k \in DOMAIN fr : fr[k].node = n => j < fr[k].use)
        <4>1. ASSUME \A k \in DOMAIN new : new[k].node = n => j < new[k].use, NEW k \in DOMAIN fr, fr[k].node = n
              PROVE  j < fr[k].use
          BY <1>1, <4>1
        <4>2. ASSUME \A k \in DOMAIN fr : fr[k].node = n => j < fr[k].use, NEW k \in DOMAIN new, new[k].node = n
              PROVE  j < new[k].use
          <5>1. k \notin 1..Len(N)
            BY <1>3, <2>3, <4>2
          <5> QED
            BY <1>1, <4>2, <5>1
        <4> QED
          BY <4>1, <4>2
      <3> QED
        BY <2>3, <3>1 DEF Told
    <2> QED
      BY <2>2, <2>3
  <1>7. \A d \in Edges : Untold(S \cup {e}, new, d) = Untold(S, fr, d)
    BY <1>6 DEF Untold
  <1> QED
    BY <1>2, <1>5, <1>7 DEF N, new

LEMMA FrameFields ==
  ASSUME NEW f \in FrameType
  PROVE  /\ f.node \in Nodes /\ f.use \in Nat \ {0}
         /\ \A u \in Nat \ {0} : /\ [f EXCEPT !.use = u] \in FrameType
                                /\ [f EXCEPT !.use = u].node = f.node
                                /\ [f EXCEPT !.use = u].use = u
  BY DEF FrameType

(* nodedone() tells one use: the first call goes on to the next. *)
UseAt(fr) == Use[Head(fr).node][Head(fr).use]
Advanced(fr) == <<[Head(fr) EXCEPT !.use = @ + 1]>> \o Tail(fr)

LEMMA AdvanceTold ==
  ASSUME NEW S \in SUBSET Edges, NEW fr \in Seq(FrameType), TellsOnce(S, fr), fr # << >>,
         Head(fr).use <= Len(Use[Head(fr).node])
  PROVE  /\ Advanced(fr) \in Seq(FrameType) /\ TellsOnce(S, Advanced(fr)) /\ UseAt(fr) \in Edges
         /\ \A d \in Edges : d # UseAt(fr) => Untold(S, Advanced(fr), d) = Untold(S, fr, d)
         /\ \E i \in Untold(S, fr, UseAt(fr)) :
               /\ i \in DOMAIN In[UseAt(fr)] /\ In[UseAt(fr)][i] = Head(fr).node
               /\ Gen[In[UseAt(fr)][i]] \in S
               /\ Untold(S, Advanced(fr), UseAt(fr)) = Untold(S, fr, UseAt(fr)) \ {i}
  <1>a. PICK u : u = Head(fr).use
    OBVIOUS
  <1>b. PICK n : n = Head(fr).node
    OBVIOUS
  <1>c. PICK new : new = <<[Head(fr) EXCEPT !.use = u + 1]>> \o Tail(fr)
    OBVIOUS
  <1>d. u <= Len(Use[n])
    BY <1>a, <1>b
  <1> DEFINE h == [Head(fr) EXCEPT !.use = u + 1]
             x == Use[n][u]
  <1>1. /\ 1 \in DOMAIN fr /\ Head(fr) = fr[1] /\ Head(fr) \in FrameType /\ Tail(fr) \in Seq(FrameType)
        /\ Len(fr) \in Nat /\ DOMAIN fr = 1..Len(fr) /\ DOMAIN Tail(fr) = 1..(Len(fr) - 1)
        /\ \A k \in DOMAIN Tail(fr) : k + 1 \in DOMAIN fr /\ Tail(fr)[k] = fr[k + 1]
    BY Popped
  <1>2. n \in Nodes /\ u \in Nat \ {0} /\ fr[1].node = n /\ fr[1].use = u
    BY <1>1, <1>a, <1>b, FrameFields
  <1>3. h \in FrameType /\ h.node = n /\ h.use = u + 1
    <2> DEFINE f == Head(fr)
               v == u + 1
    <2>1. f \in FrameType /\ v \in Nat \ {0}
      BY <1>1, <1>2
    <2> HIDE DEF f, v
    <2>2. /\ [f EXCEPT !.use = v] \in FrameType
          /\ [f EXCEPT !.use = v].node = f.node
          /\ [f EXCEPT !.use = v].use = v
      BY <2>1, FrameFields
    <2> QED
      BY <1>b, <2>2 DEF f, v
  <1>4. Use[n] \in Seq(Edges) /\ u \in DOMAIN Use[n] /\ x \in Edges
    BY <1>2, <1>d, GraphTypes
  <1>5. new \in Seq(FrameType)
    BY <1>1, <1>3, <1>c, Push
  <1> HIDE DEF h, x
  <1>6. DOMAIN new = DOMAIN fr /\ new[1] = h /\ \A k \in DOMAIN fr : k # 1 => new[k] = fr[k]
    <2> DEFINE t == Tail(fr)
    <2>1. /\ DOMAIN (<<h>> \o t) = 1..(Len(t) + 1) /\ DOMAIN t = 1..Len(t) /\ Len(t) \in Nat
          /\ (<<h>> \o t)[1] = h
          /\ \A k \in 1..(Len(t) + 1) : k # 1 => k - 1 \in DOMAIN t /\ (<<h>> \o t)[k] = t[k - 1]
      BY <1>1, <1>3, Pushed
    <2>2. new = <<h>> \o t
      BY <1>c DEF h
    <2>3. Len(t) + 1 = Len(fr)
      BY <1>1
    <2> HIDE DEF t
    <2>4. DOMAIN new = DOMAIN fr
      BY <1>1, <2>1, <2>2, <2>3
    <2>5. ASSUME NEW k \in DOMAIN fr, k # 1 PROVE new[k] = fr[k]
      <3>1. k \in 1..(Len(t) + 1) /\ (k - 1) + 1 = k
        BY <1>1, <2>3, <2>5
      <3>2. k - 1 \in DOMAIN t /\ new[k] = t[k - 1]
        BY <2>1, <2>2, <2>5, <3>1
      <3> QED
        BY <1>1, <3>1, <3>2 DEF t
    <2> QED
      BY <2>1, <2>2, <2>4, <2>5
  <1>7. \A k \in DOMAIN fr : new[k].node = fr[k].node
    BY <1>2, <1>3, <1>6
  <1>8. TellsOnce(S, new)
    <2>1. \A k \in DOMAIN new : Gen[new[k].node] \in S
      BY <1>6, <1>7 DEF TellsOnce
    <2>2. ASSUME NEW j \in DOMAIN new, NEW k \in DOMAIN new, new[j].node = new[k].node PROVE j = k
      <3>1. j \in DOMAIN fr /\ k \in DOMAIN fr
        BY <1>6
      <3>2. fr[j].node = fr[k].node
        BY <1>7, <2>2, <3>1
      <3> QED
        BY <3>1, <3>2 DEF TellsOnce
    <2> QED
      BY <2>1, <2>2 DEF TellsOnce
  <1>9. Gen[n] \in S
    BY <1>1, <1>2 DEF TellsOnce
  <1>10. \A k \in DOMAIN fr : fr[k].node = n => k = 1
    BY <1>1, <1>2 DEF TellsOnce
  <1>13. /\ 1 \in DOMAIN new /\ new[1].node = n /\ new[1].use = u + 1
         /\ \A k \in DOMAIN new : new[k].node = n => k = 1
    <2>1. 1 \in DOMAIN new /\ new[1].node = n /\ new[1].use = u + 1
      BY <1>1, <1>3, <1>6
    <2>2. \A k \in DOMAIN new : new[k].node = n => k = 1
      BY <1>6, <1>7, <1>10
    <2> QED
      BY <2>1, <2>2
  <1>11. ASSUME NEW m, NEW j \in Nat, ~(m = n /\ j = u)
         PROVE  Told(S, new, m, j) <=> Told(S, fr, m, j)
    <2>1. CASE m # n
      <3>1. \A k \in DOMAIN fr : fr[k].node = m => k # 1
        BY <1>2, <2>1
      <3>2. (\A k \in DOMAIN new : new[k].node = m => j < new[k].use) <=>
            (\A k \in DOMAIN fr : fr[k].node = m => j < fr[k].use)
        BY <1>6, <1>7, <3>1
      <3> QED
        BY <3>2 DEF Told
    <2>2. CASE m = n
      <3>1. (\A k \in DOMAIN new : new[k].node = m => j < new[k].use) <=> j < u + 1
        BY <1>13, <2>2
      <3>2. (\A k \in DOMAIN fr : fr[k].node = m => j < fr[k].use) <=> j < u
        BY <1>1, <1>2, <1>10, <2>2
      <3>3. j < u + 1 <=> j < u
        BY <1>2, <1>11, <2>2
      <3> QED
        BY <3>1, <3>2, <3>3 DEF Told
    <2> QED
      BY <2>1, <2>2
  <1>12. ~Told(S, fr, n, u) /\ Told(S, new, n, u)
    <2>1. Gen[n] # NoEdge
      BY <1>9, Generates
    <2>2. ~Told(S, fr, n, u)
      <3>1. 1 \in DOMAIN fr /\ fr[1].node = n /\ ~(u < fr[1].use)
        BY <1>1, <1>2
      <3> QED
        BY <2>1, <3>1 DEF Told
    <2>3. \A k \in DOMAIN new : new[k].node = n => u < new[k].use
      <3>1. u < u + 1
        BY <1>2
      <3> QED
        BY <1>13, <3>1
    <2> QED
      BY <1>9, <2>2, <2>3 DEF Told
  <1>18. \A d \in Edges : \A i \in DOMAIN In[d] : UseOf(d, i) \in Nat
    <2> SUFFICES ASSUME NEW d \in Edges, NEW i \in DOMAIN In[d] PROVE UseOf(d, i) \in Nat
      OBVIOUS
    <2>1. In[d][i] \in Nodes /\ UseOf(d, i) \in DOMAIN Use[In[d][i]]
      BY Uses
    <2>2. DOMAIN Use[In[d][i]] = 1..Len(Use[In[d][i]])
      BY <2>1, GraphTypes
    <2> QED
      BY <2>1, <2>2
  <1>14. ASSUME NEW d \in Edges, d # x
         PROVE  Untold(S, new, d) = Untold(S, fr, d)
    <2>1. ASSUME NEW i \in DOMAIN In[d] PROVE ~(In[d][i] = n /\ UseOf(d, i) = u)
      BY <1>14, Uses DEF x
    <2> QED
      BY <1>11, <1>18, <2>1 DEF Untold
  <1>15. PICK i \in DOMAIN In[x] : In[x][i] = n /\ UseOf(x, i) = u
    <2>1. Use[n][u] = x
      BY DEF x
    <2> QED
      BY <1>2, <1>4, <2>1, Uses
  <1>16. i \in Untold(S, fr, x)
    BY <1>12, <1>15 DEF Untold
  <1>17. Untold(S, new, x) = Untold(S, fr, x) \ {i}
    <2>1. \A k \in DOMAIN In[x] : k # i => ~(In[x][k] = n /\ UseOf(x, k) = u)
      BY <1>4, <1>15, Uses
    <2>2. \A k \in DOMAIN In[x] : k # i => (k \in Untold(S, new, x) <=> k \in Untold(S, fr, x))
      BY <1>4, <1>11, <1>18, <2>1 DEF Untold
    <2>3. i \notin Untold(S, new, x)
      BY <1>12, <1>15 DEF Untold
    <2> QED
      BY <2>2, <2>3 DEF Untold
  <1>19. UseAt(fr) = x /\ Advanced(fr) = new
    <2>1. UseAt(fr) = x
      BY <1>a, <1>b DEF UseAt, x
    <2>2. Advanced(fr) = new
      BY <1>a, <1>c DEF Advanced
    <2> QED
      BY <2>1, <2>2
  <1>20. \E k \in Untold(S, fr, x) :
            /\ k \in DOMAIN In[x] /\ In[x][k] = Head(fr).node /\ Gen[In[x][k]] \in S
            /\ Untold(S, new, x) = Untold(S, fr, x) \ {k}
    BY <1>b, <1>9, <1>15, <1>16, <1>17
  <1> QED
    BY <1>4, <1>5, <1>8, <1>14, <1>19, <1>20

(* nodedone() returns when all uses have been told. *)
LEMMA PopTold ==
  ASSUME NEW S \in SUBSET Edges, NEW fr \in Seq(FrameType), TellsOnce(S, fr), fr # << >>,
         Head(fr).use > Len(Use[Head(fr).node])
  PROVE  /\ TellsOnce(S, Tail(fr))
         /\ \A d \in Edges : Untold(S, Tail(fr), d) = Untold(S, fr, d)
  <1> DEFINE t == Tail(fr)
             u == Head(fr).use
             n == Head(fr).node
  <1>1. /\ 1 \in DOMAIN fr /\ Head(fr) = fr[1] /\ Head(fr) \in FrameType
        /\ Len(fr) \in Nat /\ DOMAIN fr = 1..Len(fr) /\ DOMAIN t = 1..(Len(fr) - 1)
        /\ \A k \in DOMAIN t : k + 1 \in DOMAIN fr /\ t[k] = fr[k + 1]
    BY Popped
  <1>2. n \in Nodes /\ u \in Nat /\ fr[1].node = n /\ fr[1].use = u /\ u > Len(Use[n])
    BY <1>1 DEF FrameType
  <1> HIDE DEF t, u, n
  <1>3. TellsOnce(S, t)
    <2>1. \A k \in DOMAIN t : Gen[t[k].node] \in S
      BY <1>1 DEF TellsOnce
    <2>2. ASSUME NEW j \in DOMAIN t, NEW k \in DOMAIN t, t[j].node = t[k].node PROVE j = k
      <3>1. j + 1 = k + 1
        BY <1>1, <2>2 DEF TellsOnce
      <3> QED
        BY <1>1, <3>1
    <2> QED
      BY <2>1, <2>2 DEF TellsOnce
  <1>4. ASSUME NEW d \in Edges, NEW i \in DOMAIN In[d]
        PROVE  Told(S, t, In[d][i], UseOf(d, i)) <=> Told(S, fr, In[d][i], UseOf(d, i))
    <2> DEFINE m == In[d][i]
               j == UseOf(d, i)
    <2>1. m \in Nodes /\ j \in DOMAIN Use[m]
      BY Uses
    <2>2. DOMAIN Use[m] = 1..Len(Use[m])
      BY <2>1, GraphTypes
    <2> HIDE DEF m, j
    <2>3. m = n => j < u
      <3>1. ASSUME m = n PROVE j < u
        <4>1. j <= Len(Use[n]) /\ j \in Nat /\ Len(Use[n]) \in Nat
          BY <1>2, <2>1, <2>2, <3>1, GraphTypes, SMTT(20)
        <4> QED
          BY <1>2, <4>1
      <3> QED
        BY <3>1
    <2>4. (\A k \in DOMAIN t : t[k].node = m => j < t[k].use) <=>
          (\A k \in DOMAIN fr : fr[k].node = m => j < fr[k].use)
      <3>1. ASSUME \A k \in DOMAIN t : t[k].node = m => j < t[k].use, NEW k \in DOMAIN fr, fr[k].node = m
            PROVE  j < fr[k].use
        <4>1. CASE k = 1
          BY <1>2, <2>3, <3>1, <4>1
        <4>2. CASE k # 1
          <5>1. k - 1 \in DOMAIN t /\ (k - 1) + 1 = k
            BY <1>1, <4>2
          <5>2. t[k - 1] = fr[k]
            BY <1>1, <5>1
          <5> QED
            BY <3>1, <5>1, <5>2
        <4> QED
          BY <4>1, <4>2
      <3>2. ASSUME \A k \in DOMAIN fr : fr[k].node = m => j < fr[k].use, NEW k \in DOMAIN t, t[k].node = m
            PROVE  j < t[k].use
        BY <1>1, <3>2
      <3> QED
        BY <3>1, <3>2
    <2> QED
      BY <2>4 DEF Told, m, j
  <1>5. \A d \in Edges : Untold(S, t, d) = Untold(S, fr, d)
    BY <1>4 DEF Untold
  <1> QED
    BY <1>3, <1>5 DEF t


-----------------------------------------------------------------------------
(* The queues *)

LEMMA OncePush ==
  ASSUME NEW s \in Seq(Edges), NEW x \in Edges, Once(s), x \notin Members(s)
  PROVE  Once(<<x>> \o s) /\ Members(<<x>> \o s) = Members(s) \cup {x}
  <1> DEFINE t == <<x>> \o s
  <1>1. /\ DOMAIN t = 1..(Len(s) + 1) /\ DOMAIN s = 1..Len(s) /\ Len(s) \in Nat
        /\ t[1] = x
        /\ \A k \in DOMAIN s : t[k + 1] = s[k]
        /\ \A k \in 1..(Len(s) + 1) : k # 1 => k - 1 \in DOMAIN s /\ t[k] = s[k - 1]
    BY Pushed
  <1> HIDE DEF t
  <1>2. \A k \in DOMAIN s : k + 1 \in DOMAIN t /\ s[k] \in Members(s)
    BY <1>1 DEF Members
  <1>3. \A k \in DOMAIN t : k = 1 \/ (k - 1 \in DOMAIN s /\ t[k] = s[k - 1] /\ t[k] \in Members(s))
    BY <1>1 DEF Members
  <1>4. Once(t)
    <2> SUFFICES ASSUME NEW i \in DOMAIN t, NEW k \in DOMAIN t, t[i] = t[k] PROVE i = k
      BY DEF Once
    <2>1. i = 1 <=> k = 1
      BY <1>1, <1>3
    <2>2. CASE i # 1
      <3>1. i - 1 = k - 1
        BY <1>3, <2>1, <2>2 DEF Once
      <3> QED
        BY <1>1, <3>1
    <2> QED
      BY <2>1, <2>2
  <1>5. Members(t) \subseteq Members(s) \cup {x}
    BY <1>1, <1>3 DEF Members
  <1>6. x \in Members(t)
    <2>1. 1 \in DOMAIN t
      BY <1>1
    <2> QED
      BY <1>1, <2>1 DEF Members
  <1>7. Members(s) \subseteq Members(t)
    BY <1>1, <1>2 DEF Members
  <1> QED
    BY <1>4, <1>5, <1>6, <1>7 DEF t

LEMMA OncePop ==
  ASSUME NEW s \in Seq(Edges), s # << >>, Once(s)
  PROVE  /\ Once(Tail(s)) /\ Members(Tail(s)) = Members(s) \ {Head(s)}
         /\ Head(s) \in Members(s) /\ Head(s) \in Edges /\ Tail(s) \in Seq(Edges)
  <1> DEFINE t == Tail(s)
  <1>1. /\ 1 \in DOMAIN s /\ Head(s) = s[1] /\ Head(s) \in Edges /\ t \in Seq(Edges)
        /\ Len(s) \in Nat /\ DOMAIN s = 1..Len(s) /\ DOMAIN t = 1..(Len(s) - 1)
        /\ \A k \in DOMAIN t : k + 1 \in DOMAIN s /\ t[k] = s[k + 1]
    BY Popped
  <1> HIDE DEF t
  <1>2. Once(t)
    <2> SUFFICES ASSUME NEW i \in DOMAIN t, NEW k \in DOMAIN t, t[i] = t[k] PROVE i = k
      BY DEF Once
    <2>1. i + 1 = k + 1
      BY <1>1 DEF Once
    <2> QED
      BY <1>1, <2>1
  <1>3. Members(t) \subseteq Members(s) \ {Head(s)}
    <2> SUFFICES ASSUME NEW k \in DOMAIN t PROVE t[k] \in Members(s) /\ t[k] # Head(s)
      BY DEF Members
    <2>1. k + 1 \in DOMAIN s /\ t[k] = s[k + 1] /\ k + 1 # 1
      BY <1>1
    <2> QED
      BY <1>1, <2>1 DEF Members, Once
  <1>4. Members(s) \ {Head(s)} \subseteq Members(t)
    <2> SUFFICES ASSUME NEW k \in DOMAIN s, s[k] # Head(s) PROVE s[k] \in Members(t)
      BY DEF Members
    <2>1. k # 1
      BY <1>1
    <2>2. k - 1 \in DOMAIN t /\ (k - 1) + 1 = k
      BY <1>1, <2>1
    <2>3. t[k - 1] = s[k]
      BY <1>1, <2>2
    <2> QED
      BY <2>2, <2>3 DEF Members
  <1>5. Head(s) \in Members(s)
    BY <1>1 DEF Members
  <1> QED
    BY <1>1, <1>2, <1>3, <1>4, <1>5 DEF t

(* queue() of an edge that is not queued. *)
LEMMA QueueOnce ==
  ASSUME work \in Seq(Edges), poolwork \in [Pools -> Seq(Edges)],
         NEW I, QueuesIn(I, work, poolwork), NEW e \in Edges, e \notin I, queue(e)
  PROVE  QueuesIn(I \cup {e}, work', poolwork')
  <1>0. /\ Once(work) /\ Members(work) \subseteq I
        /\ \A p \in Pools : Once(poolwork[p]) /\ Members(poolwork[p]) \subseteq I \ Members(work)
    BY DEF QueuesIn
  <1>1. CASE work' = <<e>> \o work /\ UNCHANGED poolwork
    <2>1. Once(work') /\ Members(work') = Members(work) \cup {e}
      BY <1>0, <1>1, OncePush
    <2> QED
      BY <1>0, <1>1, <2>1 DEF QueuesIn
  <1>2. CASE Pooled(e) /\ UNCHANGED work /\ poolwork' = [poolwork EXCEPT ![Pool[e]] = <<e>> \o poolwork[Pool[e]]]
    <2> DEFINE q == Pool[e]
    <2>1. q \in Pools
      BY <1>2, PoolTypes DEF Pooled
    <2>2. Once(<<e>> \o poolwork[q]) /\ Members(<<e>> \o poolwork[q]) = Members(poolwork[q]) \cup {e}
      BY <1>0, <2>1, OncePush
    <2>3. \A p \in Pools : poolwork'[p] = IF p = q THEN <<e>> \o poolwork[q] ELSE poolwork[p]
      BY <1>2, <2>1
    <2> HIDE DEF q
    <2>4. \A p \in Pools : Once(poolwork'[p]) /\ Members(poolwork'[p]) \subseteq Members(poolwork[p]) \cup {e}
      BY <1>0, <2>2, <2>3
    <2> QED
      BY <1>0, <1>2, <2>4 DEF QueuesIn
  <1> QED
    BY <1>1, <1>2 DEF queue

(* build() takes the first edge off the stack. *)
LEMMA TakeWork ==
  ASSUME NEW w \in Seq(Edges), NEW pw, NEW I, QueuesIn(I, w, pw), w # << >>
  PROVE  Head(w) \in I /\ QueuesIn(I \ {Head(w)}, Tail(w), pw)
  <1>1. /\ Once(Tail(w)) /\ Members(Tail(w)) = Members(w) \ {Head(w)}
        /\ Head(w) \in Members(w)
    BY OncePop DEF QueuesIn
  <1> QED
    BY <1>1 DEF QueuesIn

(* An edge that waited for a slot of its pool gets it. *)
LEMMA ReleaseOnce ==
  ASSUME work \in Seq(Edges), poolwork \in [Pools -> Seq(Edges)], Waiting,
         NEW I, QueuesIn(I, work, poolwork), NEW q \in Pools \cup {NoPool}, ReleasePool(q)
  PROVE  QueuesIn(I, work', poolwork')
  <1>0. /\ Once(work) /\ Members(work) \subseteq I
        /\ \A p \in Pools : Once(poolwork[p]) /\ Members(poolwork[p]) \subseteq I \ Members(work)
    BY DEF QueuesIn
  <1>1. CASE UNCHANGED <<work, poolwork>>
    BY <1>1
  <1>2. CASE /\ q # NoPool /\ poolwork[q] # << >> /\ work' = <<Head(poolwork[q])>> \o work
             /\ poolwork' = [poolwork EXCEPT ![q] = Tail(poolwork[q])]
    <2> DEFINE e == Head(poolwork[q])
    <2>1. q \in Pools /\ poolwork[q] \in Seq(Edges)
      BY <1>2
    <2>2. /\ Once(Tail(poolwork[q])) /\ Members(Tail(poolwork[q])) = Members(poolwork[q]) \ {e}
          /\ e \in Members(poolwork[q]) /\ e \in Edges
      BY <1>0, <1>2, <2>1, OncePop
    <2>3. \A p \in Pools : poolwork'[p] = IF p = q THEN Tail(poolwork[q]) ELSE poolwork[p]
      BY <1>2, <2>1
    <2> HIDE DEF e
    <2>4. e \in I /\ e \notin Members(work)
      BY <1>0, <2>1, <2>2
    <2>5. Once(work') /\ Members(work') = Members(work) \cup {e}
      BY <1>0, <1>2, <2>2, <2>4, OncePush DEF e
    <2>6. \A p \in Pools : p # q => e \notin Members(poolwork[p])
      BY <2>1, <2>2 DEF Waiting, PoolEdges, Members
    <2>7. \A p \in Pools : Once(poolwork'[p]) /\ Members(poolwork'[p]) \subseteq Members(poolwork[p]) \ {e}
      BY <1>0, <2>2, <2>3, <2>6
    <2> QED
      BY <1>0, <2>4, <2>5, <2>7 DEF QueuesIn
  <1> QED
    BY <1>1, <1>2 DEF ReleasePool


-----------------------------------------------------------------------------
(* What is left alone *)

(* Only edge x changes. *)
LEMMA OneEdge ==
  ASSUME flags' = flags, NEW x \in Through,
         \A d \in Edges : d # x => result'[d] = result[d] /\ nprune'[d] = nprune[d]
  PROVE  /\ Through' = Through /\ x \in Edges
         /\ \A d \in Edges : d # x => (Settled(d)' <=> Settled(d))
         /\ Settled(x)' => SettledEdges' = SettledEdges \cup {x}
         /\ (Settled(x)' <=> Settled(x)) => SettledEdges' = SettledEdges
  <1>1. Through' = Through /\ x \in Edges
    BY DEF Through
  <1>2. \A d \in Edges : d # x => (Settled(d)' <=> Settled(d))
    BY DEF Settled, Seen, OnStack
  <1> QED
    BY <1>1, <1>2 DEF SettledEdges

LEMMA OrderKept ==
  ASSUME OrderInv, pc \notin {"add", "exit"}, pc' \notin {"add", "exit"},
         pass' = pass, flags' = flags, NEW x \in Through,
         \A d \in Edges : d # x =>
            result'[d] = result[d] /\ nprune'[d] = nprune[d] /\ nblock'[d] = nblock[d],
         \A d \in Through : d # x => Untold(SettledEdges', todo', d) = Untold(SettledEdges, todo, d),
         Counted(x)', TellsOnce(SettledEdges', todo'), QueuesIn(IdleEdges', work', poolwork'), Jobs'
  PROVE  OrderInv'
  <1>0. pass = "targets" /\ Fresh /\ \A d \in Through : Counted(d)
    BY DEF OrderInv
  <1>1. /\ Through' = Through /\ x \in Edges
        /\ \A d \in Edges : d # x => (Settled(d)' <=> Settled(d))
    BY OneEdge
  <1>2. Fresh'
    BY <1>0, <1>1 DEF Fresh
  <1>3. Adding'
    BY DEF Adding
  <1>4. \A d \in Through : Counted(d)'
    <2> SUFFICES ASSUME NEW d \in Through, d # x PROVE Counted(d)'
      OBVIOUS
    <2>1. d \in Edges
      BY DEF Through
    <2>2. Pending(d)' = Pending(d)
      BY DEF Pending
    <2>3. Counted(d) /\ result'[d] = result[d] /\ nprune'[d] = nprune[d] /\ nblock'[d] = nblock[d]
      BY <1>0, <2>1
    <2> QED
      BY <1>1, <2>1, <2>2, <2>3 DEF Counted
  <1>5. Telling' /\ Queues'
    BY DEF Telling, Queues
  <1> QED
    BY <1>0, <1>1, <1>2, <1>3, <1>4, <1>5 DEF OrderInv

(* Nothing of what the invariant is about changes. *)
LEMMA OrderSame ==
  ASSUME OrderInv, pc # "exit", pc' \notin {"add", "exit"},
         UNCHANGED <<flags, nblock, nprune, result, todo, work, poolwork, pass>>, Jobs'
  PROVE  OrderInv'
  <1>0. pass = "targets" /\ Fresh /\ Telling /\ Queues /\ \A d \in Through : Counted(d)
    BY DEF OrderInv
  <1>1. Through' = Through /\ \A d \in Edges : (Settled(d)' <=> Settled(d))
    BY DEF Through, Settled, Seen, OnStack
  <1>2. SettledEdges' = SettledEdges
    BY <1>1 DEF SettledEdges
  <1>3. \A d : Pending(d)' = Pending(d)
    BY <1>2 DEF Pending
  <1>4. \A d \in Through : Counted(d)'
    BY <1>0, <1>1, <1>3 DEF Counted, Through
  <1>5. IdleEdges' = IdleEdges
    BY <1>1 DEF IdleEdges, Idle
  <1>6. Fresh' /\ Adding'
    BY <1>0, <1>1 DEF Fresh, Adding
  <1>7. Telling'
    BY <1>0, <1>2 DEF Telling
  <1>8. Queues'
    BY <1>0, <1>5 DEF Queues
  <1> QED
    BY <1>0, <1>1, <1>4, <1>6, <1>7, <1>8 DEF OrderInv

LEMMA SameJobs ==
  ASSUME Jobs, UNCHANGED <<jobs, result>>
  PROVE  Jobs'
  BY DEF Jobs, Busy

LEMMA OtherEdges ==
  ASSUME flags' = flags, NEW x \in Through, pc # "add", pc' # "add",
         \A d \in Edges : d # x =>
            result'[d] = result[d] /\ nprune'[d] = nprune[d] /\ nblock'[d] = nblock[d]
  PROVE  /\ IdleEdges \ {x} \subseteq IdleEdges'
         /\ \A d \in Edges : d # x => EdgeState(d)' = EdgeState(d)
  <1>1. Through' = Through /\ \A d \in Edges : d # x => (Settled(d)' <=> Settled(d))
    BY OneEdge
  <1>2. IdleEdges \ {x} \subseteq IdleEdges'
    BY <1>1 DEF IdleEdges, Idle
  <1>3. \A d \in Edges : d # x => EdgeState(d)' = EdgeState(d)
    BY <1>1 DEF EdgeState
  <1> QED
    BY <1>2, <1>3

LEMMA MoreIdle ==
  ASSUME NEW I, NEW J, I \subseteq J, NEW w, NEW pw, QueuesIn(I, w, pw)
  PROVE  QueuesIn(J, w, pw)
  BY DEF QueuesIn

(* Edge x goes from one state to another; the others stay. *)
Moves(x, from, to) ==
    /\ EdgeState(x) = from /\ EdgeState(x)' = to
    /\ \A d \in Edges : d # x => EdgeState(d)' = EdgeState(d)

LEMMA BusyEdges ==
  ASSUME TypeOK
  PROVE  \A i \in Busy : i \in DOMAIN jobs /\ jobs[i] \in SlotType /\ jobs[i].edge \in Edges
  <1>1. jobs \in Seq(SlotType)
    BY DEF TypeOK, JobType
  <1>2. \A i \in Busy : i \in DOMAIN jobs /\ jobs[i].edge # NoEdge
    BY DEF Busy, BusySlots
  <1>3. \A i \in DOMAIN jobs : jobs[i] \in SlotType
    BY <1>1
  <1>4. \A s \in SlotType : s.edge \in Edges \cup {NoEdge}
    BY DEF SlotType
  <1> QED
    BY <1>2, <1>3, <1>4

LEMMA JoinNothing ==
  ASSUME NEW S, NEW s \in Seq(S)
  PROVE  s \o << >> = s
  OBVIOUS

(* Edge x is settled: the users of its outputs are to be told, before the  *)
(* calls fr of nodedone() go on.                                           *)
LEMMA EdgeSettles ==
  ASSUME OrderInv, flags' = flags, NEW x \in Through, ~Settled(x), Settled(x)',
         \A d \in Edges : d # x => result'[d] = result[d] /\ nprune'[d] = nprune[d],
         NEW fr \in Seq(FrameType), TellsOnce(SettledEdges, fr), Untold(SettledEdges, fr, x) = {},
         NEW pr \in [DOMAIN Out[x] -> BOOLEAN], todo' = Notify(x, pr) \o fr
  PROVE  /\ SettledEdges' = SettledEdges \cup {x} /\ TellsOnce(SettledEdges', todo') /\ Counted(x)'
         /\ \A d \in Edges : Untold(SettledEdges', todo', d) = Untold(SettledEdges, fr, d)
  <1>1. SettledEdges' = SettledEdges \cup {x} /\ x \in Edges
    BY OneEdge
  <1> DEFINE S == SettledEdges
  <1>2. /\ S \in SUBSET Edges /\ x \notin S /\ x \in Edges /\ TellsOnce(S, fr)
        /\ fr \in Seq(FrameType) /\ pr \in [DOMAIN Out[x] -> BOOLEAN]
    BY <1>1 DEF SettledEdges
  <1> HIDE DEF S
  <1>3. /\ TellsOnce(S \cup {x}, Notify(x, pr) \o fr)
        /\ \A d \in Edges : Untold(S \cup {x}, Notify(x, pr) \o fr, d) = Untold(S, fr, d)
    BY ONLY <1>2, NotifyTold
  <1>4. /\ TellsOnce(SettledEdges', todo')
        /\ \A d \in Edges : Untold(SettledEdges', todo', d) = Untold(SettledEdges, fr, d)
    BY <1>1, <1>3 DEF S
  <1>5. Pending(x)' = {}
    BY <1>1, <1>4 DEF Pending
  <1> QED
    BY <1>1, <1>4, <1>5 DEF Counted

-----------------------------------------------------------------------------
(* build() *)

(* The first edge of the stack is ready, and no command of it was started. *)
LEMMA HeadReady ==
  ASSUME TypeOK, OrderInv, MayStart
  PROVE  \E x \in Through :
            /\ x = Head(work) /\ x \in Edges /\ result[x] = "none" /\ ~Settled(x) /\ nblock[x] = 0
            /\ Pending(x) = {} /\ Producers(x) \subseteq SettledEdges
            /\ QueuesIn(IdleEdges \ {x}, Tail(work), poolwork)
  <1>0. pc = "start" /\ todo = << >> /\ work # << >> /\ work \in Seq(Edges)
    BY DEF MayStart, TypeOK, QueueType
  <1>1. QueuesIn(IdleEdges, work, poolwork) /\ \A e \in Through : Counted(e)
    BY <1>0 DEF OrderInv, Queues
  <1>2. Head(work) \in IdleEdges /\ QueuesIn(IdleEdges \ {Head(work)}, Tail(work), poolwork)
    BY <1>0, <1>1, TakeWork
  <1>3. PICK x : x = Head(work)
    OBVIOUS
  <1>4. x \in Edges /\ x \in Through /\ result[x] = "none" /\ ~Settled(x) /\ nblock[x] = 0
    BY <1>2, <1>3 DEF IdleEdges, Idle
  <1>5. Pending(x) = {}
    <2>1. Cardinality(Pending(x)) = 0
      BY <1>1, <1>4 DEF Counted
    <2>2. IsFiniteSet(Pending(x))
      BY <1>4, UntoldFinite DEF Pending
    <2> QED
      BY <2>1, <2>2, FS_EmptySet
  <1>6. Producers(x) \subseteq SettledEdges
    BY <1>4, <1>5, ProducersSettled DEF Pending
  <1> QED
    BY <1>2, <1>3, <1>4, <1>5, <1>6

LEMMA NothingStarted ==
  ASSUME IInv, OrderInv, StartNothing
  PROVE  OrderInv' /\ \E x \in Edges : Moves(x, "waiting", "settled") /\ Producers(x) \subseteq SettledEdges
  <1>0. TypeOK /\ MayStart /\ pc = "start" /\ todo = << >>
    BY DEF IInv, StartNothing, MayStart
  <1>1. PICK x \in Through :
            /\ x = Head(work) /\ x \in Edges /\ result[x] = "none" /\ ~Settled(x) /\ nblock[x] = 0
            /\ Pending(x) = {} /\ Producers(x) \subseteq SettledEdges
            /\ QueuesIn(IdleEdges \ {x}, Tail(work), poolwork)
    BY <1>0, HeadReady
  <1>2. /\ todo' = Notify(x, Always(x, FALSE)) /\ result' = [result EXCEPT ![x] = "ok"]
        /\ work' = Tail(work)
        /\ UNCHANGED <<flags, nblock, nprune, poolwork, jobs, pc, pass>>
    BY <1>1 DEF StartNothing, edgeVars, jobVars, mainVars
  <1>3. result \in [Edges -> {"none", "running", "ok", "failed"}]
    BY <1>0 DEF TypeOK, HistType
  <1>4. \A d \in Edges : d # x =>
            result'[d] = result[d] /\ nprune'[d] = nprune[d] /\ nblock'[d] = nblock[d]
    BY <1>1, <1>2, <1>3
  <1>5. result'[x] = "ok"
    BY <1>1, <1>2, <1>3
  <1>6. Settled(x)'
    BY <1>1, <1>2, <1>5 DEF Settled, Seen, OnStack, Through
  <1>7. IdleEdges \ {x} \subseteq IdleEdges' /\ \A d \in Edges : d # x => EdgeState(d)' = EdgeState(d)
    BY <1>0, <1>1, <1>2, <1>4, OtherEdges
  <1>8. /\ todo' = Notify(x, Always(x, FALSE)) \o todo
        /\ Always(x, FALSE) \in [DOMAIN Out[x] -> BOOLEAN]
    <2>1. Always(x, FALSE) \in [DOMAIN Out[x] -> BOOLEAN]
      BY DEF Always
    <2>2. Notify(x, Always(x, FALSE)) \in Seq(FrameType)
      BY <1>1, <2>1, NotifyType
    <2>3. todo' = Notify(x, Always(x, FALSE)) \o << >>
      BY <1>2, <2>2, JoinNothing
    <2> QED
      BY <1>0, <2>1, <2>3
  <1>9. /\ TellsOnce(SettledEdges', todo') /\ Counted(x)'
        /\ \A d \in Edges : Untold(SettledEdges', todo', d) = Untold(SettledEdges, todo, d)
    <2> DEFINE pr == Always(x, FALSE)
    <2>1. /\ todo \in Seq(FrameType) /\ TellsOnce(SettledEdges, todo) /\ Untold(SettledEdges, todo, x) = {}
          /\ flags' = flags /\ x \in Through /\ ~Settled(x) /\ Settled(x)'
          /\ \A d \in Edges : d # x => result'[d] = result[d] /\ nprune'[d] = nprune[d]
          /\ pr \in [DOMAIN Out[x] -> BOOLEAN] /\ todo' = Notify(x, pr) \o todo
      BY <1>0, <1>1, <1>2, <1>4, <1>6, <1>8 DEF Pending, TypeOK, TodoType, OrderInv, Telling
    <2> HIDE DEF pr
    <2> QED
      BY <2>1, EdgeSettles
  <1>11. QueuesIn(IdleEdges', work', poolwork')
    BY <1>1, <1>2, <1>7, MoreIdle
  <1>12. Jobs'
    <2>1. Jobs
      BY <1>0 DEF OrderInv
    <2>2. \A i \in Busy : jobs[i].edge # x /\ jobs[i].edge \in Edges
      BY <1>0, <1>1, <2>1, BusyEdges DEF Jobs
    <2> QED
      BY <1>2, <1>4, <2>1, <2>2 DEF Jobs, Busy
  <1>13. OrderInv'
    <2>1. \A d \in Through : d # x => Untold(SettledEdges', todo', d) = Untold(SettledEdges, todo, d)
      BY <1>9 DEF Through
    <2> QED
      BY <1>0, <1>1, <1>2, <1>4, <1>9, <1>11, <1>12, <2>1, OrderKept
  <1>14. Moves(x, "waiting", "settled")
    BY <1>0, <1>1, <1>2, <1>5, <1>6, <1>7 DEF Moves, EdgeState
  <1> QED
    BY <1>1, <1>13, <1>14

(* The first edge of the stack gets a job, or fails to get one. *)
LEMMA HeadTaken ==
  ASSUME TypeOK, OrderInv, MayStart, NEW to \in {"running", "failed"},
         result' = [result EXCEPT ![Head(work)] = to], work' = Tail(work),
         UNCHANGED <<flags, nblock, nprune, poolwork, todo, pc, pass>>,
         \A i \in Busy' : IF i \in Busy THEN jobs'[i].edge = jobs[i].edge
                          ELSE jobs'[i].edge = Head(work) /\ to = "running",
         \A i, k \in Busy' : i \notin Busy /\ k \notin Busy => i = k
  PROVE  OrderInv' /\ \E x \in Edges : Moves(x, "waiting", to) /\ Producers(x) \subseteq SettledEdges
  <1>0. pc = "start"
    BY DEF MayStart
  <1>1. PICK x \in Through :
            /\ x = Head(work) /\ x \in Edges /\ result[x] = "none" /\ ~Settled(x) /\ nblock[x] = 0
            /\ Pending(x) = {} /\ Producers(x) \subseteq SettledEdges
            /\ QueuesIn(IdleEdges \ {x}, Tail(work), poolwork)
    BY HeadReady
  <1>2. result'[x] = to /\ \A d \in Edges : d # x => result'[d] = result[d]
    BY <1>1 DEF TypeOK, HistType
  <1>3. \A d \in Edges : d # x =>
            result'[d] = result[d] /\ nprune'[d] = nprune[d] /\ nblock'[d] = nblock[d]
    BY <1>2
  <1>4. Through' = Through /\ ~Settled(x)' /\ SettledEdges' = SettledEdges
    <2>1. ~Settled(x)'
      BY <1>2 DEF Settled
    <2> QED
      BY <1>1, <1>3, <2>1, OneEdge
  <1>5. IdleEdges \ {x} \subseteq IdleEdges' /\ \A d \in Edges : d # x => EdgeState(d)' = EdgeState(d)
    BY <1>0, <1>1, <1>3, OtherEdges
  <1>6. Counted(x)'
    <2>1. Pending(x)' = {} /\ Cardinality(Pending(x)') = 0
      BY <1>1, <1>4, FS_EmptySet DEF Pending
    <2> QED
      BY <1>1, <1>2, <2>1 DEF Counted
  <1>7. QueuesIn(IdleEdges', work', poolwork')
    BY <1>1, <1>5, MoreIdle
  <1>8. Jobs'
    <2>1. Jobs /\ TellsOnce(SettledEdges, todo)
      BY <1>0 DEF OrderInv, Telling
    <2>2. \A i \in Busy : jobs[i].edge # x /\ jobs[i].edge \in Edges
      BY <1>1, <2>1, BusyEdges DEF Jobs
    <2>3. ASSUME NEW i \in Busy' PROVE result'[jobs'[i].edge] = "running"
      BY <1>1, <1>2, <2>1, <2>2 DEF Jobs
    <2>4. ASSUME NEW i \in Busy', NEW k \in Busy', jobs'[i].edge = jobs'[k].edge PROVE i = k
      BY <1>1, <2>1, <2>2, <2>4 DEF Jobs
    <2> QED
      BY <2>3, <2>4 DEF Jobs
  <1>9. OrderInv'
    <2>1. \A d \in Through : d # x => Untold(SettledEdges', todo', d) = Untold(SettledEdges, todo, d)
      BY <1>4
    <2>2. TellsOnce(SettledEdges', todo')
      BY <1>0, <1>4 DEF OrderInv, Telling
    <2> QED
      BY <1>0, <1>1, <1>3, <1>6, <1>7, <1>8, <2>1, <2>2, OrderKept
  <1>10. Moves(x, "waiting", to)
    BY <1>0, <1>1, <1>2, <1>4, <1>5 DEF Moves, EdgeState
  <1> QED
    BY <1>1, <1>9, <1>10

LEMMA JobStarted ==
  ASSUME IInv, OrderInv, StartJob
  PROVE  OrderInv' /\ \E x \in Edges : Moves(x, "waiting", "running") /\ Producers(x) \subseteq SettledEdges
  <1> DEFINE e == Head(work)
             s == [Slots[next] EXCEPT !.edge = e, !.pipe = "open", !.proc = "live"]
  <1>0. TypeOK /\ SlotsSound /\ MayStart
    BY DEF IInv, StartJob
  <1>1. /\ work' = Tail(work) /\ jobs' = [Slots EXCEPT ![next] = s] /\ result' = [result EXCEPT ![e] = "running"]
        /\ UNCHANGED <<flags, nblock, nprune, poolwork, todo, pc, pass>>
    BY DEF StartJob, edgeVars, mainVars
  <1>2. numjobs < MaxJobs /\ e \in Edges /\ e # NoEdge
    <2>1. work \in Seq(Edges) /\ work # << >> /\ numjobs < MaxJobs
      BY <1>0 DEF TypeOK, QueueType, MayStart
    <2> QED
      BY <2>1, Pop, GraphAssumption DEF GraphAssumption
  <1>3. Slots \in Seq(SlotType) /\ next \in DOMAIN Slots /\ Slots[next].edge = NoEdge
    BY <1>0, <1>2, GrowSlots
  <1>4. BusySlots(Slots) = BusySlots(jobs) /\ \A i \in BusySlots(jobs) : Slots[i] = jobs[i]
    BY <1>0, <1>2, SlotsRuns
  <1>5. s.edge = e
    BY <1>3 DEF SlotType
  <1> HIDE DEF s, e
  <1>6. BusySlots(jobs') = BusySlots(jobs) \cup {next} /\ next \notin BusySlots(jobs)
    BY <1>1, <1>2, <1>3, <1>4, <1>5 DEF BusySlots
  <1>7. jobs'[next].edge = e /\ \A i \in BusySlots(jobs) : jobs'[i] = jobs[i]
    BY <1>1, <1>3, <1>4, <1>5, <1>6 DEF BusySlots
  <1>8. /\ \A i \in Busy' : IF i \in Busy THEN jobs'[i].edge = jobs[i].edge
                            ELSE jobs'[i].edge = e /\ "running" = "running"
        /\ \A i, k \in Busy' : i \notin Busy /\ k \notin Busy => i = k
    BY <1>6, <1>7 DEF Busy
  <1> QED
    BY <1>0, <1>1, <1>8, HeadTaken DEF e

LEMMA StartFailed ==
  ASSUME IInv, OrderInv, StartFails
  PROVE  OrderInv' /\ \E x \in Edges : Moves(x, "waiting", "failed") /\ Producers(x) \subseteq SettledEdges
  <1>0. TypeOK /\ SlotsSound /\ MayStart /\ numjobs < MaxJobs
    BY DEF IInv, StartFails, MayStart
  <1>1. /\ work' = Tail(work) /\ jobs' = Slots /\ result' = [result EXCEPT ![Head(work)] = "failed"]
        /\ UNCHANGED <<flags, nblock, nprune, poolwork, todo, pc, pass>>
    BY DEF StartFails, edgeVars, mainVars
  <1>2. Busy' = Busy /\ \A i \in Busy : jobs'[i].edge = jobs[i].edge
    BY <1>0, <1>1, SlotsRuns DEF Busy
  <1> QED
    BY <1>0, <1>1, <1>2, HeadTaken


(* A job has ended: its edge is settled, or has failed. *)
LEMMA JobEnded ==
  ASSUME IInv, PoolInv, OrderInv, JobDone
  PROVE  OrderInv' /\ \E x \in Edges : Moves(x, "running", "settled") \/ Moves(x, "running", "failed")
  <1>0. TypeOK /\ Waiting /\ pc = "scan" /\ todo = << >> /\ revents \subseteq Busy
    BY DEF IInv, ScanInv, PoolInv, JobDone
  <1>1. PICK i \in revents :
            /\ ReleasePool(Pool[jobs[i].edge]) /\ jobs' = [jobs EXCEPT ![i] = FreeSlot(next)]
            /\ \/ edgedone(jobs[i].edge)
               \/ (result' = [result EXCEPT ![jobs[i].edge] = "failed"] /\ UNCHANGED todo)
    BY DEF JobDone
  <1>2. UNCHANGED <<flags, nblock, nprune, pc, pass>>
    BY DEF JobDone, edgeVars, mainVars
  <1>3. PICK x : x = jobs[i].edge
    OBVIOUS
  <1>4. /\ i \in Busy /\ x \in Edges /\ result[x] = "running" /\ ~Settled(x) /\ x \in Through
        /\ Jobs /\ Pending(x) = {} /\ Queues /\ TellsOnce(SettledEdges, todo) /\ Counted(x)
    <2>1. i \in Busy /\ x \in Edges
      BY <1>0, <1>1, <1>3, BusyEdges
    <2>2. Jobs /\ Fresh /\ Queues /\ TellsOnce(SettledEdges, todo) /\ \A d \in Through : Counted(d)
      BY <1>0 DEF OrderInv, Telling
    <2>3. result[x] = "running"
      BY <1>3, <2>1, <2>2 DEF Jobs
    <2>4. x \in Through
      BY <2>1, <2>2, <2>3 DEF Fresh
    <2> QED
      BY <2>1, <2>2, <2>3, <2>4 DEF Settled, Counted
  <1>5. \E to \in {"ok", "failed"} : result' = [result EXCEPT ![x] = to]
    BY <1>1, <1>3 DEF edgedone
  <1>6. result'[x] \in {"ok", "failed"} /\ \A d \in Edges : d # x => result'[d] = result[d]
    BY <1>0, <1>4, <1>5 DEF TypeOK, HistType
  <1>7. \A d \in Edges : d # x =>
            result'[d] = result[d] /\ nprune'[d] = nprune[d] /\ nblock'[d] = nblock[d]
    BY <1>2, <1>6
  <1>8. IdleEdges \ {x} \subseteq IdleEdges' /\ \A d \in Edges : d # x => EdgeState(d)' = EdgeState(d)
    BY <1>0, <1>2, <1>4, <1>7, OtherEdges
  <1>9. QueuesIn(IdleEdges', work', poolwork')
    <2>1. x \notin IdleEdges
      BY <1>4 DEF IdleEdges, Idle
    <2>2. QueuesIn(IdleEdges, work', poolwork')
      <3>1. work \in Seq(Edges) /\ poolwork \in [Pools -> Seq(Edges)] /\ QueuesIn(IdleEdges, work, poolwork)
        BY <1>0, <1>4 DEF TypeOK, QueueType, Queues
      <3>2. Pool[x] \in Pools \cup {NoPool} /\ ReleasePool(Pool[x])
        BY <1>1, <1>3, <1>4, PoolTypes
      <3> QED
        BY <1>0, <3>1, <3>2, ReleaseOnce
    <2>3. IdleEdges \subseteq IdleEdges'
      BY <1>8, <2>1
    <2> QED
      BY <2>2, <2>3, MoreIdle
  <1>10. Jobs'
    <2>1. jobs \in Seq(SlotType)
      BY <1>0 DEF TypeOK, JobType
    <2>2. Busy' = Busy \ {i} /\ \A k \in Busy' : jobs'[k] = jobs[k]
      BY <1>1, <1>4, <2>1 DEF Busy, BusySlots, FreeSlot
    <2>3. \A k \in Busy' : jobs[k].edge # x /\ jobs[k].edge \in Edges
      BY <1>0, <1>3, <1>4, <2>2, BusyEdges DEF Jobs
    <2> QED
      BY <1>4, <1>6, <2>2, <2>3 DEF Jobs
  <1>11. CASE result'[x] = "failed" /\ UNCHANGED todo
    <2>1. ~Settled(x)'
      BY <1>11 DEF Settled
    <2>2. SettledEdges' = SettledEdges
      BY <1>2, <1>4, <1>7, <2>1, OneEdge
    <2>3. Counted(x)'
      <3>1. Pending(x)' = {} /\ Cardinality(Pending(x)') = nblock'[x]
        BY <1>2, <1>4, <1>11, <2>2 DEF Pending, Counted
      <3> QED
        BY <1>11, <2>1, <3>1 DEF Counted
    <2>4. OrderInv'
      <3>1. /\ \A d \in Through : d # x => Untold(SettledEdges', todo', d) = Untold(SettledEdges, todo, d)
            /\ TellsOnce(SettledEdges', todo')
        BY <1>4, <1>11, <2>2
      <3> QED
        BY <1>0, <1>2, <1>4, <1>7, <1>9, <1>10, <2>3, <3>1, OrderKept
    <2>5. Moves(x, "running", "failed")
      BY <1>0, <1>2, <1>4, <1>8, <1>11 DEF Moves, EdgeState
    <2> QED
      BY <1>4, <2>4, <2>5
  <1>12. CASE edgedone(x)
    <2> DEFINE pr == [k \in DOMAIN Out[x] |-> shouldprune(x, Out[x][k])]
    <2>1. result'[x] = "ok" /\ todo' = Notify(x, pr)
      BY <1>0, <1>4, <1>12 DEF edgedone, TypeOK, HistType
    <2>2. pr \in [DOMAIN Out[x] -> BOOLEAN]
      BY DEF shouldprune
    <2> HIDE DEF pr
    <2>3. todo' = Notify(x, pr) \o todo
      <3>1. Notify(x, pr) \in Seq(FrameType)
        BY <1>4, <2>2, NotifyType
      <3> QED
        BY <1>0, <2>1, <3>1, JoinNothing
    <2>4. Settled(x)'
      BY <1>2, <1>4, <2>1 DEF Settled, Seen, OnStack, Through
    <2>5. /\ TellsOnce(SettledEdges', todo') /\ Counted(x)'
          /\ \A d \in Edges : Untold(SettledEdges', todo', d) = Untold(SettledEdges, todo, d)
      <3>1. /\ todo \in Seq(FrameType) /\ TellsOnce(SettledEdges, todo) /\ Untold(SettledEdges, todo, x) = {}
        BY <1>0, <1>4 DEF Pending, TypeOK, TodoType
      <3> QED
        BY <1>2, <1>4, <1>7, <2>2, <2>3, <2>4, <3>1, EdgeSettles
    <2>6. OrderInv'
      <3>1. \A d \in Through : d # x => Untold(SettledEdges', todo', d) = Untold(SettledEdges, todo, d)
        BY <2>5 DEF Through
      <3> QED
        BY <1>0, <1>2, <1>4, <1>7, <1>9, <1>10, <2>5, <3>1, OrderKept
    <2>7. Moves(x, "running", "settled")
      BY <1>0, <1>2, <1>4, <1>8, <2>1, <2>4 DEF Moves, EdgeState
    <2> QED
      BY <1>4, <2>6, <2>7
  <1>13. (result'[x] = "failed" /\ UNCHANGED todo) \/ edgedone(x)
    BY <1>0, <1>1, <1>3, <1>4 DEF TypeOK, HistType
  <1> QED
    BY <1>11, <1>12, <1>13


-----------------------------------------------------------------------------
(* nodedone() *)

LEMMA NodedoneWhen ==
  ASSUME PoolInv, OrderInv, todo # << >>
  PROVE  pc \notin {"add", "exit"}
  BY DEF PoolInv, Between, OrderInv

(* nodedone() tells the edge it is at of one more input. *)
LEMMA AfterTold ==
  ASSUME TypeOK, PoolInv, OrderInv, todo # << >>, top.use <= Len(Use[top.node])
  PROVE  /\ User \in Edges /\ After \in Seq(FrameType) /\ TellsOnce(SettledEdges, After)
         /\ \A d \in Edges : d # User => Untold(SettledEdges, After, d) = Pending(d)
         /\ \E i \in Pending(User) :
               /\ i \in DOMAIN In[User] /\ In[User][i] = top.node /\ Gen[In[User][i]] \in SettledEdges
               /\ Untold(SettledEdges, After, User) = Pending(User) \ {i}
  <1> DEFINE S == SettledEdges
             fr == todo
  <1>1. /\ S \in SUBSET Edges /\ fr \in Seq(FrameType) /\ TellsOnce(S, fr) /\ fr # << >>
        /\ Head(fr).use <= Len(Use[Head(fr).node])
    <2>1. pc # "exit"
      BY NodedoneWhen
    <2> QED
      BY <2>1 DEF SettledEdges, TypeOK, TodoType, OrderInv, Telling, top
  <1>2. User = UseAt(fr) /\ top = Head(fr) /\ After = Advanced(fr) /\ \A d : Pending(d) = Untold(S, fr, d)
    BY DEF User, After, UseAt, Advanced, top, Pending
  <1> HIDE DEF S, fr
  <1>3. /\ Advanced(fr) \in Seq(FrameType) /\ TellsOnce(S, Advanced(fr)) /\ UseAt(fr) \in Edges
        /\ \A d \in Edges : d # UseAt(fr) => Untold(S, Advanced(fr), d) = Untold(S, fr, d)
        /\ \E i \in Untold(S, fr, UseAt(fr)) :
              /\ i \in DOMAIN In[UseAt(fr)] /\ In[UseAt(fr)][i] = Head(fr).node /\ Gen[In[UseAt(fr)][i]] \in S
              /\ Untold(S, Advanced(fr), UseAt(fr)) = Untold(S, fr, UseAt(fr)) \ {i}
    BY <1>1, AdvanceTold
  <1> QED
    BY <1>2, <1>3 DEF S

(* The edge it is at is part of the build and has not been run.            *)
LEMMA UserWaits ==
  ASSUME TypeOK, CycleInv, PoolInv, OrderInv, AtUser
  PROVE  /\ User \in Through /\ User \in Edges /\ ~Settled(User) /\ result[User] = "none" /\ Pending(User) # {}
         /\ nblock[User] = Cardinality(Pending(User)) /\ nblock[User] \in Nat \ {0}
         /\ "DIRTY_OUT" \notin flags[User] => nprune[User] >= nblock[User]
  <1>0. todo # << >> /\ top.use <= Len(Use[top.node]) /\ "WORK" \in flags[User]
    BY DEF AtUser
  <1>1. User \in Edges /\ Pending(User) # {}
    BY <1>0, AfterTold
  <1>2. pc \notin {"add", "exit"}
    BY <1>0, NodedoneWhen
  <1>3. "CYCLE" \notin flags[User]
    BY <1>1, <1>2, NotMarked DEF CycleInv
  <1>4. User \in Through
    BY <1>0, <1>1, <1>3 DEF Through
  <1>5. Counted(User)
    BY <1>2, <1>4 DEF OrderInv
  <1>6. ~Settled(User) /\ result[User] = "none"
    <2>1. result[User] \in {"none", "running", "ok", "failed"}
      BY <1>1 DEF TypeOK, HistType
    <2> QED
      BY <1>1, <1>5, <2>1 DEF Counted
  <1>7. Cardinality(Pending(User)) \in Nat \ {0}
    <2>1. IsFiniteSet(Pending(User)) /\ Cardinality(Pending(User)) \in Nat
      BY <1>1, UntoldFinite DEF Pending
    <2> QED
      BY <1>1, <2>1, FS_EmptySet
  <1> QED
    BY <1>1, <1>4, <1>5, <1>6, <1>7 DEF Counted

LEMMA PruneDone ==
  ASSUME IInv, CycleInv, PoolInv, OrderInv, Prune
  PROVE  OrderInv' /\ \E x \in Edges : Moves(x, "waiting", "settled") /\ Producers(x) \subseteq SettledEdges
  <1>0. TypeOK /\ AtUser /\ todo # << >> /\ top.use <= Len(Use[top.node]) /\ pc \notin {"add", "exit"}
    BY NodedoneWhen DEF IInv, Prune, AtUser
  <1>1. PICK x : x = User
    OBVIOUS
  <1>2. PICK fr : fr = After
    OBVIOUS
  <1>3. /\ x \in Through /\ x \in Edges /\ ~Settled(x) /\ result[x] = "none"
        /\ nblock[x] = Cardinality(Pending(x)) /\ nblock[x] \in Nat \ {0}
        /\ "DIRTY_OUT" \notin flags[x] => nprune[x] >= nblock[x]
    BY <1>0, <1>1, UserWaits
  <1>4. /\ fr \in Seq(FrameType) /\ TellsOnce(SettledEdges, fr)
        /\ \A d \in Edges : d # x => Untold(SettledEdges, fr, d) = Pending(d)
        /\ \E i \in Pending(x) : /\ i \in DOMAIN In[x] /\ Gen[In[x][i]] \in SettledEdges
                                 /\ Untold(SettledEdges, fr, x) = Pending(x) \ {i}
    BY <1>0, <1>1, <1>2, AfterTold
  <1>5. /\ nprune[x] = 1 /\ nprune' = [nprune EXCEPT ![x] = 0] /\ "DIRTY_OUT" \notin flags[x]
        /\ todo' = Notify(x, Always(x, TRUE)) \o fr
        /\ UNCHANGED <<flags, nblock, result, work, poolwork, jobs, pc, pass>>
    BY <1>1, <1>2 DEF Prune, Prunable, Dirty, queueVars, jobVars, mainVars, histVars
  <1>6. PICK i \in Pending(x) : Gen[In[x][i]] \in SettledEdges /\ Untold(SettledEdges, fr, x) = Pending(x) \ {i}
    BY <1>4
  <1>7. Pending(x) = {i}
    <2>1. nblock[x] = 1
      BY <1>3, <1>5
    <2>2. IsFiniteSet(Pending(x))
      BY <1>3, UntoldFinite DEF Pending
    <2>3. \E j : Pending(x) = {j}
      BY <1>3, <2>1, <2>2, FS_Singleton
    <2> QED
      BY <2>3
  <1>8. Untold(SettledEdges, fr, x) = {}
    BY <1>6, <1>7
  <1>9. Producers(x) \subseteq SettledEdges
    <2>1. Producers(x) \subseteq SettledEdges \cup {Gen[In[x][i]]}
      BY <1>3, <1>7, ProducersSettled DEF Pending
    <2> QED
      BY <1>6, <2>1
  <1>10. nprune'[x] = 0 /\ \A d \in Edges : d # x =>
            result'[d] = result[d] /\ nprune'[d] = nprune[d] /\ nblock'[d] = nblock[d]
    BY <1>0, <1>3, <1>5 DEF TypeOK, EdgeType
  <1>11. Settled(x)'
    BY <1>3, <1>5, <1>10 DEF Settled, Seen, OnStack, Through
  <1>12. /\ TellsOnce(SettledEdges', todo') /\ Counted(x)'
         /\ \A d \in Edges : Untold(SettledEdges', todo', d) = Untold(SettledEdges, fr, d)
    <2> DEFINE pr == Always(x, TRUE)
    <2>1. pr \in [DOMAIN Out[x] -> BOOLEAN] /\ todo' = Notify(x, pr) \o fr
      BY <1>5 DEF Always
    <2> HIDE DEF pr
    <2>2. flags' = flags /\ \A d \in Edges : d # x => result'[d] = result[d] /\ nprune'[d] = nprune[d]
      BY <1>5, <1>10
    <2> QED
      BY <1>3, <1>4, <1>8, <1>11, <2>1, <2>2, EdgeSettles
  <1>13. IdleEdges \ {x} \subseteq IdleEdges' /\ \A d \in Edges : d # x => EdgeState(d)' = EdgeState(d)
    BY <1>0, <1>3, <1>5, <1>10, OtherEdges
  <1>14. QueuesIn(IdleEdges', work', poolwork')
    <2>1. QueuesIn(IdleEdges, work, poolwork)
      BY <1>0 DEF OrderInv, Queues
    <2>2. x \notin IdleEdges
      BY <1>3 DEF IdleEdges, Idle
    <2> QED
      BY <1>5, <1>13, <2>1, <2>2, MoreIdle
  <1>15. Jobs'
    BY <1>0, <1>5, SameJobs DEF OrderInv
  <1>16. OrderInv'
    <2>1. \A d \in Through : d # x => Untold(SettledEdges', todo', d) = Untold(SettledEdges, todo, d)
      BY <1>4, <1>12 DEF Through, Pending
    <2> QED
      BY <1>0, <1>3, <1>5, <1>10, <1>12, <1>14, <1>15, <2>1, OrderKept
  <1>17. Moves(x, "waiting", "settled")
    BY <1>0, <1>3, <1>5, <1>11, <1>13 DEF Moves, EdgeState
  <1> QED
    BY <1>3, <1>9, <1>16, <1>17


LEMMA UnblockDone ==
  ASSUME IInv, CycleInv, PoolInv, OrderInv, Unblock
  PROVE  OrderInv' /\ \A d \in Edges : EdgeState(d)' = EdgeState(d)
  <1>0. TypeOK /\ AtUser /\ todo # << >> /\ top.use <= Len(Use[top.node]) /\ pc \notin {"add", "exit"}
    BY NodedoneWhen DEF IInv, Unblock, AtUser
  <1>1. PICK x : x = User
    OBVIOUS
  <1>2. /\ x \in Through /\ x \in Edges /\ ~Settled(x) /\ result[x] = "none"
        /\ nblock[x] = Cardinality(Pending(x)) /\ nblock[x] \in Nat \ {0}
        /\ "DIRTY_OUT" \notin flags[x] => nprune[x] >= nblock[x]
    BY <1>0, <1>1, UserWaits
  <1>3. /\ TellsOnce(SettledEdges, After)
        /\ \A d \in Edges : d # x => Untold(SettledEdges, After, d) = Pending(d)
        /\ \E i \in Pending(x) : Untold(SettledEdges, After, x) = Pending(x) \ {i}
    BY <1>0, <1>1, AfterTold
  <1>4. /\ \/ Prunable /\ nprune[x] # 1 /\ nprune' = [nprune EXCEPT ![x] = nprune[x] - 1]
           \/ ~Prunable /\ nprune' = nprune
        /\ nblock' = [nblock EXCEPT ![x] = nblock[x] - 1]
        /\ IF nblock[x] = 1 THEN queue(x) ELSE UNCHANGED queueVars
        /\ todo' = After
        /\ UNCHANGED <<flags, result, jobs, pc, pass>>
    BY <1>1 DEF Unblock, jobVars, mainVars, histVars
  <1>5. /\ nblock \in [Edges -> Int] /\ nprune \in [Edges -> Int]
        /\ work \in Seq(Edges) /\ poolwork \in [Pools -> Seq(Edges)]
    BY <1>0 DEF TypeOK, EdgeType, QueueType
  <1>6. /\ nblock'[x] = nblock[x] - 1
        /\ \/ nprune'[x] = nprune[x]
           \/ nprune[x] # 1 /\ nprune'[x] = nprune[x] - 1
        /\ \A d \in Edges : d # x =>
              result'[d] = result[d] /\ nprune'[d] = nprune[d] /\ nblock'[d] = nblock[d]
    <2>1. nblock'[x] = nblock[x] - 1 /\ \A d \in Edges : d # x => nblock'[d] = nblock[d]
      BY <1>2, <1>4, <1>5
    <2>2. CASE Prunable /\ nprune[x] # 1 /\ nprune' = [nprune EXCEPT ![x] = nprune[x] - 1]
      <3>1. nprune'[x] = nprune[x] - 1 /\ \A d \in Edges : d # x => nprune'[d] = nprune[d]
        BY <1>2, <1>5, <2>2
      <3> QED
        BY <1>4, <2>1, <2>2, <3>1
    <2>3. CASE nprune' = nprune
      <3>1. \A d \in Edges : result'[d] = result[d] /\ nprune'[d] = nprune[d]
        BY <1>4, <2>3
      <3> QED
        BY <1>2, <2>1, <3>1
    <2> QED
      BY <1>4, <2>2, <2>3
  <1>7. nprune[x] \in Int
    BY <1>2, <1>5
  <1>8. /\ "DIRTY_OUT" \notin flags[x] => nprune'[x] # 0 /\ nprune'[x] >= nblock'[x]
    <2>1. "DIRTY_OUT" \notin flags[x] => nprune[x] # 0
      BY <1>2 DEF Settled, Seen, OnStack, Through
    <2> QED
      BY <1>2, <1>6, <1>7, <2>1
  <1>9. ~Settled(x)' /\ result'[x] = "none"
    BY <1>2, <1>4, <1>8 DEF Settled
  <1>10. SettledEdges' = SettledEdges
    BY <1>2, <1>4, <1>6, <1>9, OneEdge
  <1>11. Counted(x)'
    <2>1. PICK i \in Pending(x) : Untold(SettledEdges, After, x) = Pending(x) \ {i}
      BY <1>3
    <2>2. IsFiniteSet(Pending(x))
      BY <1>2, UntoldFinite DEF Pending
    <2>3. Cardinality(Pending(x) \ {i}) = Cardinality(Pending(x)) - 1
      BY <2>1, <2>2, FS_RemoveElement
    <2>4. Pending(x)' = Pending(x) \ {i}
      BY <1>4, <1>10, <2>1 DEF Pending
    <2>5. Cardinality(Pending(x)') = Cardinality(Pending(x) \ {i})
      BY <2>4
    <2>6. nblock'[x] = Cardinality(Pending(x)')
      BY <1>2, <1>6, <2>3, <2>5
    <2> QED
      BY <1>4, <1>8, <1>9, <2>6 DEF Counted
  <1>12. IdleEdges \ {x} \subseteq IdleEdges' /\ \A d \in Edges : d # x => EdgeState(d)' = EdgeState(d)
    BY <1>0, <1>2, <1>4, <1>6, OtherEdges
  <1>13. QueuesIn(IdleEdges', work', poolwork')
    <2>1. QueuesIn(IdleEdges, work, poolwork)
      BY <1>0 DEF OrderInv, Queues
    <2>2. x \notin IdleEdges
      BY <1>2 DEF IdleEdges, Idle
    <2>3. CASE nblock[x] = 1
      <3>1. queue(x)
        BY <1>4, <2>3
      <3>2. QueuesIn(IdleEdges \cup {x}, work', poolwork')
        BY <1>2, <1>5, <2>1, <2>2, <3>1, QueueOnce
      <3>3. x \in IdleEdges'
        <4>1. Through' = Through /\ nblock'[x] = 0
          BY <1>4, <1>6, <2>3 DEF Through
        <4> QED
          BY <1>2, <1>9, <4>1 DEF IdleEdges, Idle
      <3>4. IdleEdges \cup {x} \subseteq IdleEdges'
        BY <1>12, <3>3
      <3> QED
        BY <3>2, <3>4, MoreIdle
    <2>4. CASE nblock[x] # 1
      <3>1. UNCHANGED <<work, poolwork>> /\ IdleEdges \subseteq IdleEdges'
        BY <1>4, <1>12, <2>2, <2>4 DEF queueVars
      <3> QED
        BY <2>1, <3>1, MoreIdle
    <2> QED
      BY <2>3, <2>4
  <1>14. Jobs'
    BY <1>0, <1>4, SameJobs DEF OrderInv
  <1>15. OrderInv'
    <2>1. /\ \A d \in Through : d # x => Untold(SettledEdges', todo', d) = Untold(SettledEdges, todo, d)
          /\ TellsOnce(SettledEdges', todo')
      BY <1>3, <1>4, <1>10 DEF Through, Pending
    <2> QED
      BY <1>0, <1>2, <1>4, <1>6, <1>11, <1>13, <1>14, <2>1, OrderKept
  <1>16. EdgeState(x)' = EdgeState(x)
    BY <1>0, <1>2, <1>4, <1>9 DEF EdgeState
  <1> QED
    BY <1>12, <1>15, <1>16

(* An edge that is not part of the build is passed over, or nodedone()     *)
(* returns: nothing changes for the edges of the build.                    *)
LEMMA PassedOver ==
  ASSUME IInv, CycleInv, PoolInv, OrderInv, SkipUser \/ NodeDone
  PROVE  OrderInv' /\ \A d \in Edges : EdgeState(d)' = EdgeState(d)
  <1>0. TypeOK /\ todo # << >> /\ pc \notin {"add", "exit"}
    BY NodedoneWhen DEF IInv, SkipUser, NodeDone
  <1>1. UNCHANGED <<flags, nblock, nprune, result, work, poolwork, jobs, pc, pass>>
    BY DEF SkipUser, NodeDone, edgeVars, queueVars, jobVars, mainVars, histVars
  <1>2. /\ pass = "targets" /\ Fresh /\ Jobs /\ Queues /\ TellsOnce(SettledEdges, todo)
        /\ \A d \in Through : Counted(d)
    BY <1>0 DEF OrderInv, Telling
  <1>3. TellsOnce(SettledEdges, todo') /\ \A d \in Through : Untold(SettledEdges, todo', d) = Pending(d)
    <2>1. CASE SkipUser
      <3>1. todo' = After /\ top.use <= Len(Use[top.node]) /\ User \notin Through
        BY <2>1 DEF SkipUser, Through
      <3>2. /\ TellsOnce(SettledEdges, After)
            /\ \A d \in Edges : d # User => Untold(SettledEdges, After, d) = Pending(d)
        BY <1>0, <3>1, AfterTold
      <3> QED
        BY <3>1, <3>2 DEF Through
    <2>2. CASE NodeDone
      <3> DEFINE S == SettledEdges
                 fr == todo
      <3>1. /\ S \in SUBSET Edges /\ fr \in Seq(FrameType) /\ TellsOnce(S, fr) /\ fr # << >>
            /\ Head(fr).use > Len(Use[Head(fr).node]) /\ todo' = Tail(fr)
            /\ \A d : Pending(d) = Untold(S, fr, d)
        BY <1>0, <1>2, <2>2 DEF NodeDone, top, SettledEdges, TypeOK, TodoType, Pending
      <3> HIDE DEF S, fr
      <3>2. TellsOnce(S, Tail(fr)) /\ \A d \in Edges : Untold(S, Tail(fr), d) = Untold(S, fr, d)
        BY <3>1, PopTold
      <3> QED
        BY <3>1, <3>2 DEF S, Through
    <2> QED
      BY <2>1, <2>2
  <1>4. Through' = Through /\ \A d \in Edges : (Settled(d)' <=> Settled(d))
    BY <1>1 DEF Through, Settled, Seen, OnStack
  <1>5. SettledEdges' = SettledEdges
    BY <1>4 DEF SettledEdges
  <1>6. \A d \in Through : Counted(d)'
    <2>1. \A d \in Through : Pending(d)' = Pending(d)
      BY <1>3, <1>5 DEF Pending
    <2> QED
      BY <1>1, <1>2, <1>4, <2>1 DEF Counted, Through
  <1>7. Fresh' /\ Adding' /\ Telling' /\ Jobs'
    BY <1>0, <1>1, <1>2, <1>3, <1>4, <1>5, SameJobs DEF Fresh, Adding, Telling
  <1>8. Queues'
    <2>1. IdleEdges' = IdleEdges
      BY <1>1, <1>4 DEF IdleEdges, Idle
    <2> QED
      BY <1>1, <1>2, <2>1 DEF Queues
  <1>9. OrderInv'
    BY <1>0, <1>1, <1>2, <1>4, <1>6, <1>7, <1>8 DEF OrderInv
  <1>10. \A d \in Edges : EdgeState(d)' = EdgeState(d)
    BY <1>0, <1>1, <1>4 DEF EdgeState
  <1> QED
    BY <1>9, <1>10


-----------------------------------------------------------------------------
(* buildadd() *)

(* A call of buildadd() changes nothing for the edges that are through.    *)
LEMMA AddKept ==
  ASSUME PoolInv, OrderInv, pc = "add", pc' \in {"add", "exit"},
         UNCHANGED <<nprune, result, todo, work, poolwork, jobs, pass>>, Through' = Through,
         \A d \in Through : flags'[d] = flags[d] /\ nblock'[d] = nblock[d],
         \A d \in Edges \ Through : "DIRTY_IN" \notin flags'[d],
         \A n \in Nodes : dirty'[n] => dirty[n],
         \A n \in Nodes : Gen[n] \in Through => (dirty'[n] <=> dirty[n])
  PROVE  OrderInv'
  <1>0. /\ pass = "targets" /\ todo = << >> /\ Fresh /\ Adding /\ Telling /\ Queues /\ Jobs
        /\ \A d \in Through : Counted(d)
    BY DEF OrderInv, PoolInv, Between
  <1>1. \A d \in Edges : (Settled(d)' <=> Settled(d))
    <2> SUFFICES ASSUME NEW d \in Edges PROVE Settled(d)' <=> Settled(d)
      OBVIOUS
    <2>1. CASE d \in Through
      BY <2>1 DEF Settled, Seen, OnStack
    <2>2. CASE d \notin Through
      <3>1. ~Settled(d)
        BY <2>2 DEF Settled, Seen, OnStack, Through
      <3>2. d \notin Through'
        BY <2>2
      <3>3. ~Settled(d)'
        BY <3>2 DEF Settled, Seen, OnStack, Through
      <3> QED
        BY <3>1, <3>3
    <2> QED
      BY <2>1, <2>2
  <1>2. SettledEdges' = SettledEdges
    BY <1>1 DEF SettledEdges
  <1>3. \A d \in Through : Counted(d)'
    <2> SUFFICES ASSUME NEW d \in Through PROVE Counted(d)'
      OBVIOUS
    <2>1. d \in Edges /\ Counted(d) /\ Pending(d)' = Pending(d) /\ (Settled(d)' <=> Settled(d))
      BY <1>0, <1>1, <1>2 DEF Pending, Through
    <2>2. result'[d] = result[d] /\ nprune'[d] = nprune[d] /\ nblock'[d] = nblock[d] /\ flags'[d] = flags[d]
      OBVIOUS
    <2> QED
      BY <2>1, <2>2 DEF Counted
  <1>4. Fresh' /\ Telling' /\ Jobs'
    BY <1>0, <1>2, SameJobs DEF Fresh, Telling
  <1>5. Queues'
    <2>1. IdleEdges' = IdleEdges
      BY <1>1 DEF IdleEdges, Idle
    <2> QED
      BY <1>0, <2>1 DEF Queues
  <1>6. Adding'
    <2>1. \A n \in Nodes : Gen[n] \in Through => (Blocks(n)' <=> Blocks(n))
      BY DEF Blocks
    <2>2. \A n \in Nodes : Gen[n] \in Through => (Settled(Gen[n])' <=> Settled(Gen[n]))
      BY <1>1 DEF Through
    <2> QED
      BY <1>0, <2>1, <2>2 DEF Adding
  <1> QED
    BY <1>0, <1>3, <1>4, <1>5, <1>6 DEF OrderInv

LEMMA EnterOrder ==
  ASSUME TypeOK, PoolInv, OrderInv, pc = "add", NEW n \in Nodes, NEW rest, Enter(n, rest),
         UNCHANGED <<nprune, result, todo, work, poolwork, jobs>>
  PROVE  OrderInv' /\ (result' = result /\ Through' = Through /\ \A d \in Edges : Settled(d)' <=> Settled(d))
  <1>0. /\ flags \in [Edges -> SUBSET Flags] /\ nblock \in [Edges -> Int] /\ dirty \in [Nodes -> BOOLEAN]
        /\ Fresh /\ Adding
    BY DEF TypeOK, EdgeType, NodeType, OrderInv
  <1>1. UNCHANGED pass /\ pc' \in {"add", "exit"}
    BY DEF Enter, Fatal, mainVars
  <1>2. /\ Through' = Through
        /\ \A d \in Through : flags'[d] = flags[d] /\ nblock'[d] = nblock[d]
        /\ \A d \in Edges \ Through : "DIRTY_IN" \notin flags'[d]
        /\ \A m \in Nodes : dirty'[m] => dirty[m]
        /\ \A m \in Nodes : Gen[m] \in Through => (dirty'[m] <=> dirty[m])
    <2>1. CASE Gen[n] = NoEdge
      <3>1. UNCHANGED <<flags, nblock>> /\ (dirty' = dirty \/ dirty' = [dirty EXCEPT ![n] = FALSE])
        BY <2>1 DEF Enter
      <3>2. NoEdge \notin Through
        BY GraphAssumption DEF GraphAssumption, Through
      <3>3. \A m \in Nodes : m # n => (dirty'[m] <=> dirty[m])
        BY <1>0, <3>1
      <3>4. dirty'[n] => dirty[n]
        BY <1>0, <3>1
      <3> QED
        BY <1>0, <2>1, <3>1, <3>2, <3>3, <3>4 DEF Through, Fresh
    <2>2. CASE Gen[n] # NoEdge /\ (OnStack(Gen[n]) \/ Seen(Gen[n]))
      <3>1. UNCHANGED <<flags, nblock, dirty>>
        BY <2>2 DEF Enter
      <3> QED
        BY <1>0, <3>1 DEF Through, Fresh
    <2>3. CASE Gen[n] # NoEdge /\ ~OnStack(Gen[n]) /\ ~Seen(Gen[n])
      <3> DEFINE e == Gen[n]
                 f == flags[e] \cup {"CYCLE", "WORK", "DEPS"} \cup
                        IF "DEPS" \notin flags[e] /\ e \in nodeps THEN {"DIRTY_OUT"} ELSE {}
      <3>1. e \in Edges /\ e \notin Through
        BY <2>3, GenType DEF Seen, Through
      <3>2. /\ flags' = [flags EXCEPT ![e] = f] /\ nblock' = [nblock EXCEPT ![e] = 0]
            /\ dirty' = [m \in Nodes |-> dirty[m] /\ m \notin Members(Out[e])]
        BY <2>3 DEF Enter
      <3>3. "CYCLE" \in f /\ ("DIRTY_IN" \in f => "DIRTY_IN" \in flags[e])
        OBVIOUS
      <3> HIDE DEF f, e
      <3>4. flags'[e] = f /\ \A d \in Edges : d # e => flags'[d] = flags[d] /\ nblock'[d] = nblock[d]
        BY <1>0, <3>1, <3>2
      <3>5. Through' = Through
        BY <3>1, <3>3, <3>4 DEF Through
      <3>6. \A d \in Through : flags'[d] = flags[d] /\ nblock'[d] = nblock[d]
        BY <3>1, <3>4 DEF Through
      <3>7. \A d \in Edges \ Through : "DIRTY_IN" \notin flags'[d]
        BY <1>0, <3>1, <3>3, <3>4 DEF Fresh
      <3>8. \A m \in Nodes : dirty'[m] <=> (dirty[m] /\ m \notin Members(Out[e]))
        BY <3>2
      <3>9. \A m \in Nodes : Gen[m] \in Through => m \notin Members(Out[e])
        BY <3>1, Generates
      <3> QED
        BY <3>5, <3>6, <3>7, <3>8, <3>9
    <2> QED
      BY <2>1, <2>2, <2>3
  <1>3. OrderInv'
    BY <1>1, <1>2, AddKept
  <1>4. ASSUME NEW d \in Edges PROVE Settled(d)' <=> Settled(d)
    <2>1. CASE d \in Through
      BY <1>2, <2>1 DEF Settled, Seen, OnStack
    <2>2. CASE d \notin Through
      BY <1>2, <2>2 DEF Settled, Seen, OnStack, Through
    <2> QED
      BY <2>1, <2>2
  <1> QED
    BY <1>2, <1>3, <1>4


(* The edge that joins needs only edges that are through. *)
LEMMA FinishJoins ==
  ASSUME TypeOK, CycleInv, AddFinish, NEW e, e = Head(adding).edge,
         NEW fl, flags' = [flags EXCEPT ![e] = fl], "CYCLE" \notin fl, flags[e] \ {"CYCLE"} \subseteq fl
  PROVE  /\ e \in Edges /\ e \notin Through /\ Through' = Through \cup {e}
         /\ Producers(e) \subseteq Through /\ \A d \in Through : Producers(d) \subseteq Through
         /\ flags'[e] = fl /\ \A d \in Edges : d # e => flags'[d] = flags[d]
         /\ "CYCLE" \in flags[e]
  <1>0. Marked /\ Closed(Through)
    BY DEF CycleInv, AddFinish
  <1>1. adding \in Seq(AddFrame) /\ adding # << >> /\ flags \in [Edges -> SUBSET Flags] /\ pc' = "add"
    BY DEF TypeOK, AddType, EdgeType, AddFinish, mainVars
  <1>2. 1 \in DOMAIN adding /\ Head(adding) = adding[1] /\ Head(adding) \in AddFrame
    BY <1>1, Popped
  <1>3. e \in Edges /\ e = adding[1].edge
    BY <1>2 DEF AddFrame
  <1>4. "CYCLE" \in flags[e] /\ "WORK" \in flags[e]
    BY <1>0, <1>2, <1>3 DEF Marked
  <1>5. flags'[e] = fl /\ \A d \in Edges : d # e => flags'[d] = flags[d]
    BY <1>1, <1>3
  <1>6. Through' = Through \cup {e} /\ e \notin Through
    <2>1. "WORK" \in fl
      BY <1>4
    <2> QED
      BY <1>3, <1>4, <1>5, <2>1 DEF Through
  <1>7. Closed(Through') /\ Acyclic(Through')
    <2>1. CycleInv'
      BY FinishCycle
    <2> QED
      BY <1>1, <2>1 DEF CycleInv, Closed, Acyclic
  <1>8. Producers(e) \subseteq Through
    <2>1. Producers(e) \subseteq Through \cup {e}
      BY <1>6, <1>7 DEF Closed
    <2>2. Producers(e) \cap {e} = {}
      <3>1. {e} \in SUBSET Through' /\ {e} # {}
        BY <1>6
      <3>2. \E d \in {e} : Producers(d) \cap {e} = {}
        BY <1>7, <3>1 DEF Acyclic
      <3> QED
        BY <3>2
    <2> QED
      BY <2>1, <2>2
  <1> QED
    BY <1>0, <1>3, <1>4, <1>5, <1>6, <1>8 DEF Closed

LEMMA FinishOrder ==
  ASSUME TypeOK, CycleInv, PoolInv, OrderInv, AddFinish
  PROVE  OrderInv'
  <1>0. PICK e : e = Head(adding).edge
    OBVIOUS
  <1> DEFINE K == {i \in DOMAIN In[e] : Blocks(In[e][i])}
             blocked == Cardinality(K)
             dirtyin == \E n \in Essential(e) : dirty[n]
             dirtyout == \/ "DIRTY_OUT" \in flags[e]
                         \/ \E n \in Members(Out[e]) :
                               isdirty(e, mtime[n], logmtime[n], samehash[n], mtime)
             fl == (flags[e] \ {"CYCLE"}) \cup (IF dirtyin THEN {"DIRTY_IN"} ELSE {})
                                          \cup (IF dirtyout THEN {"DIRTY_OUT"} ELSE {})
  <1>1. /\ pc = "add" /\ pc' = "add"
        /\ flags' = [flags EXCEPT ![e] = fl]
        /\ nblock' = [nblock EXCEPT ![e] = blocked]
        /\ nprune' = IF dirtyout THEN nprune ELSE [nprune EXCEPT ![e] = blocked]
        /\ dirty' = [n \in Nodes |-> dirty[n] \/ (Dirty(fl) /\ n \in Members(Out[e]))]
        /\ IF Dirty(fl) /\ blocked = 0 THEN queue(e) ELSE UNCHANGED queueVars
        /\ UNCHANGED <<jobs, pass, todo, result>>
    BY <1>0 DEF AddFinish, jobVars, mainVars, histVars
  <1>2. /\ pass = "targets" /\ todo = << >> /\ Busy = {} /\ Fresh /\ Adding /\ Queues
        /\ \A d \in Through : Counted(d)
    BY <1>1 DEF OrderInv, PoolInv, Between
  <1>3. /\ nblock \in [Edges -> Int] /\ nprune \in [Edges -> Int] /\ dirty \in [Nodes -> BOOLEAN]
        /\ work \in Seq(Edges) /\ poolwork \in [Pools -> Seq(Edges)]
    BY DEF TypeOK, EdgeType, NodeType, QueueType
  <1>4. /\ "CYCLE" \notin fl /\ flags[e] \ {"CYCLE"} \subseteq fl
        /\ "DIRTY_OUT" \in fl <=> dirtyout
        /\ "DIRTY_IN" \in fl <=> dirtyin \/ "DIRTY_IN" \in flags[e]
    <2> HIDE DEF dirtyin
    <2>1. "DIRTY_OUT" \in flags[e] => dirtyout
      OBVIOUS
    <2> HIDE DEF dirtyout
    <2> QED
      BY <2>1
  <1> HIDE DEF dirtyout, fl
  <1>5. /\ e \in Edges /\ e \notin Through /\ Through' = Through \cup {e}
        /\ Producers(e) \subseteq Through /\ \A d \in Through : Producers(d) \subseteq Through
        /\ flags'[e] = fl /\ \A d \in Edges : d # e => flags'[d] = flags[d]
        /\ "CYCLE" \in flags[e]
    BY <1>0, <1>1, <1>4, FinishJoins, ZenonT(40)
  <1>6. IsFiniteSet(K) /\ blocked \in Nat
    BY <1>5, InputCount
  <1>7. dirtyin => K # {}
    <2>1. SUFFICES ASSUME NEW i \in 1..Inorder[e], dirty[In[e][i]] PROVE i \in K
      BY DEF Essential
    <2>2. i \in DOMAIN In[e]
      <3>1. Inorder[e] <= Len(In[e]) /\ Inorder[e] \in Nat /\ In[e] \in Seq(Nodes)
        BY <1>5, UseAssumption, GraphAssumption DEF UseAssumption, GraphAssumption
      <3> QED
        BY <3>1
    <2> QED
      BY <2>1, <2>2 DEF Blocks
  <1> HIDE DEF dirtyin
  <1>8. "DIRTY_IN" \notin flags[e] /\ result[e] = "none" /\ result'[e] = "none"
    BY <1>1, <1>2, <1>5 DEF Fresh
  <1>9. blocked = 0 <=> K = {}
    BY <1>6, FS_EmptySet
  <1>10. K = Untold(SettledEdges, << >>, e)
    <2> SUFFICES ASSUME NEW i \in DOMAIN In[e] PROVE Blocks(In[e][i]) <=> ~Told(SettledEdges, << >>, In[e][i], UseOf(e, i))
      BY DEF Untold
    <2>1. In[e][i] \in Nodes
      BY <1>5, GraphTypes
    <2>2. Told(SettledEdges, << >>, In[e][i], UseOf(e, i)) <=> Gen[In[e][i]] = NoEdge \/ Gen[In[e][i]] \in SettledEdges
      BY DEF Told
    <2>3. CASE Gen[In[e][i]] = NoEdge
      <3>1. NoEdge \notin Through
        BY Generates DEF Through
      <3> QED
        BY <1>1, <1>2, <2>1, <2>2, <2>3, <3>1 DEF Adding, Blocks
    <2>4. CASE Gen[In[e][i]] # NoEdge
      <3>1. Gen[In[e][i]] \in Producers(e)
        BY <2>4 DEF Producers, Members
      <3>2. Gen[In[e][i]] \in Through
        BY <1>5, <3>1
      <3>3. Blocks(In[e][i]) <=> ~Settled(Gen[In[e][i]])
        BY <1>1, <1>2, <2>1, <3>2 DEF Adding
      <3> QED
        BY <2>2, <2>4, <3>2, <3>3 DEF SettledEdges, Through
    <2> QED
      BY <2>3, <2>4
  <1> HIDE DEF K
  <1>11. /\ nblock'[e] = blocked /\ (~dirtyout => nprune'[e] = blocked)
         /\ \A d \in Edges : d # e => nblock'[d] = nblock[d] /\ nprune'[d] = nprune[d]
    <2>1. nblock'[e] = blocked /\ \A d \in Edges : d # e => nblock'[d] = nblock[d]
      BY <1>1, <1>3, <1>5
    <2>2. (~dirtyout => nprune'[e] = blocked) /\ \A d \in Edges : d # e => nprune'[d] = nprune[d]
      <3>1. CASE dirtyout
        BY <1>1, <3>1
      <3>2. CASE ~dirtyout
        BY <1>1, <1>3, <1>5, <3>2
      <3> QED
        BY <3>1, <3>2
    <2> QED
      BY <2>1, <2>2
  <1>12. Settled(e)' <=> ~dirtyout /\ blocked = 0
    <2>1. "WORK" \in flags'[e] /\ "CYCLE" \notin flags'[e]
      BY <1>5 DEF Through
    <2> QED
      BY <1>4, <1>5, <1>8, <1>11, <2>1 DEF Settled, Seen, OnStack
  <1>13. \A d \in Edges : d # e => (Settled(d)' <=> Settled(d))
    BY <1>1, <1>5, <1>11 DEF Settled, Seen, OnStack
  <1>14. \A d \in Through : Untold(SettledEdges', << >>, d) = Untold(SettledEdges, << >>, d)
    <2> SUFFICES ASSUME NEW d \in Through, NEW i \in DOMAIN In[d]
                 PROVE  Told(SettledEdges', << >>, In[d][i], UseOf(d, i)) <=> Told(SettledEdges, << >>, In[d][i], UseOf(d, i))
      BY DEF Untold
    <2>1. Gen[In[d][i]] # e
      <3>1. Gen[In[d][i]] = NoEdge \/ Gen[In[d][i]] \in Producers(d)
        BY DEF Producers, Members
      <3> QED
        BY <1>5, <3>1, Generates
    <2>2. Gen[In[d][i]] \in SettledEdges' <=> Gen[In[d][i]] \in SettledEdges
      BY <1>13, <2>1 DEF SettledEdges
    <2> QED
      BY <2>2 DEF Told
  <1>15. Untold(SettledEdges', << >>, e) = Untold(SettledEdges, << >>, e)
    <2> SUFFICES ASSUME NEW i \in DOMAIN In[e]
                 PROVE  Told(SettledEdges', << >>, In[e][i], UseOf(e, i)) <=> Told(SettledEdges, << >>, In[e][i], UseOf(e, i))
      BY DEF Untold
    <2>1. Gen[In[e][i]] # e
      <3>1. Gen[In[e][i]] = NoEdge \/ Gen[In[e][i]] \in Producers(e)
        BY DEF Producers, Members
      <3> QED
        BY <1>5, <3>1, Generates
    <2>2. Gen[In[e][i]] \in SettledEdges' <=> Gen[In[e][i]] \in SettledEdges
      BY <1>13, <2>1 DEF SettledEdges
    <2> QED
      BY <2>2 DEF Told
  <1>16. Counted(e)'
    <2>1. Pending(e)' = K
      BY <1>1, <1>2, <1>10, <1>15 DEF Pending
    <2>2. Cardinality(Pending(e)') = blocked
      BY <2>1
    <2>3. nprune'[e] >= nblock'[e] \/ "DIRTY_OUT" \in flags'[e]
      BY <1>4, <1>5, <1>6, <1>11
    <2> HIDE DEF blocked
    <2> QED
      BY <1>8, <1>9, <1>11, <1>12, <2>1, <2>2, <2>3 DEF Counted
  <1>17. \A d \in Through : Counted(d)'
    <2> SUFFICES ASSUME NEW d \in Through PROVE Counted(d)'
      OBVIOUS
    <2>1. d \in Edges /\ d # e /\ Counted(d)
      BY <1>2, <1>5 DEF Through
    <2>2. Pending(d)' = Pending(d)
      BY <1>1, <1>2, <1>14 DEF Pending
    <2>3. result'[d] = result[d] /\ nprune'[d] = nprune[d] /\ nblock'[d] = nblock[d] /\ flags'[d] = flags[d]
      BY <1>1, <1>5, <1>11, <2>1
    <2> QED
      BY <1>13, <2>1, <2>2, <2>3 DEF Counted
  <1>18. Dirty(fl) <=> dirtyin \/ dirtyout
    BY <1>4, <1>8 DEF Dirty
  <1>19. Adding'
    <2>1. \A n \in Nodes : dirty'[n] <=> dirty[n] \/ (Dirty(fl) /\ n \in Members(Out[e]))
      BY <1>1
    <2>2. \A n \in Nodes : n \in Members(Out[e]) <=> Gen[n] = e
      BY <1>5, Generates
    <2>3. \A n \in Nodes : dirty'[n] => Gen[n] \in Through'
      BY <1>1, <1>2, <1>5, <2>1, <2>2 DEF Adding
    <2>4. ASSUME NEW n \in Nodes, Gen[n] \in Through' PROVE Blocks(n)' <=> ~Settled(Gen[n])'
      <3>1. CASE Gen[n] = e
        <4>1. ~dirty[n]
          BY <1>1, <1>2, <1>5, <3>1 DEF Adding
        <4>2. Blocks(n)' <=> Dirty(fl) \/ blocked > 0
          BY <1>5, <1>11, <2>1, <2>2, <3>1, <4>1, Generates DEF Blocks
        <4> HIDE DEF blocked
        <4>3. dirtyin => blocked > 0
          BY <1>6, <1>7, <1>9
        <4>4. blocked > 0 <=> blocked # 0
          BY <1>6
        <4> QED
          BY <1>12, <1>18, <3>1, <4>2, <4>3, <4>4
      <3>2. CASE Gen[n] # e
        <4>1. Gen[n] \in Through /\ Gen[n] \in Edges
          BY <1>5, <2>4, <3>2 DEF Through
        <4>2. Blocks(n)' <=> Blocks(n)
          BY <1>11, <2>1, <2>2, <3>2, <4>1 DEF Blocks
        <4> QED
          BY <1>1, <1>2, <1>13, <3>2, <4>1, <4>2 DEF Adding
      <3> QED
        BY <3>1, <3>2
    <2> QED
      BY <1>1, <1>2, <2>3, <2>4 DEF Adding
  <1>20. IdleEdges \subseteq IdleEdges' /\ e \notin IdleEdges
    BY <1>1, <1>5, <1>11, <1>13 DEF IdleEdges, Idle
  <1>21. Queues'
    <2>1. CASE Dirty(fl) /\ blocked = 0
      <3>1. queue(e) /\ e \in Edges
        BY <1>1, <1>5, <2>1
      <3>2. QueuesIn(IdleEdges \cup {e}, work', poolwork')
        BY <1>2, <1>3, <1>20, <3>1, QueueOnce DEF Queues
      <3>3. dirtyout
        BY <1>7, <1>9, <1>18, <2>1
      <3>4. e \in IdleEdges'
        BY <1>5, <1>8, <1>11, <1>12, <2>1, <3>3 DEF IdleEdges, Idle
      <3>5. IdleEdges \cup {e} \subseteq IdleEdges'
        BY <1>20, <3>4
      <3> QED
        BY <3>2, <3>5, MoreIdle DEF Queues
    <2>2. CASE ~(Dirty(fl) /\ blocked = 0)
      <3>1. UNCHANGED <<work, poolwork>>
        BY <1>1, <2>2 DEF queueVars
      <3> QED
        BY <1>2, <1>20, <3>1, MoreIdle DEF Queues
    <2> QED
      BY <2>1, <2>2
  <1>22. Fresh' /\ Telling' /\ Jobs'
    <2>1. Fresh'
      BY <1>1, <1>2, <1>5 DEF Fresh
    <2>2. Telling'
      BY <1>1, <1>2 DEF Telling, TellsOnce
    <2>3. Jobs'
      BY <1>1, <1>2 DEF Jobs, Busy
    <2> QED
      BY <2>1, <2>2, <2>3
  <1> QED
    BY <1>1, <1>2, <1>5, <1>16, <1>17, <1>19, <1>21, <1>22 DEF OrderInv


-----------------------------------------------------------------------------
(* The steps of SamuOrder *)

States == [e \in Edges |-> EdgeState(e)]

LEMMA SettledState ==
  ASSUME pc # "add"
  PROVE  \A d \in SettledEdges : d \in Edges /\ EdgeState(d) = "settled"
  BY DEF SettledEdges, Settled, EdgeState

LEMMA Stutters ==
  ASSUME \A d \in Edges : EdgeState(d)' = EdgeState(d)
  PROVE  UNCHANGED States
  BY DEF States

LEMMA SkipStep ==
  ASSUME NEW S \in SUBSET Edges, S # {},
         \A d \in S : EdgeState(d) = "waiting" /\ EdgeState(d)' = "settled",
         \A d \in Edges \ S : EdgeState(d)' = EdgeState(d),
         \A d \in S : \A f \in Producers(d) : f \in S \/ (f \in Edges /\ EdgeState(f) = "settled")
  PROVE  Order!Next
  <1>1. \A d \in Edges : States[d] = EdgeState(d) /\ States'[d] = EdgeState(d)'
    BY DEF States
  <1>2. \A d \in S : \A f \in [x \in Edges |-> Producers(x)][d] : States[f] = "settled" \/ f \in S
    BY <1>1
  <1>3. States' = [d \in Edges |-> IF d \in S THEN "settled" ELSE States[d]]
    BY <1>1 DEF States
  <1>4. Order!Skip(S)
    BY <1>1, <1>2, <1>3 DEF Order!Skip, Order!Ready, States
  <1> QED
    BY <1>4 DEF Order!Next

(* An edge whose producers are settled leaves the waiting ones.            *)
LEMMA LeaveStep ==
  ASSUME pc # "add", NEW x \in Edges, Producers(x) \subseteq SettledEdges,
         NEW to \in {"settled", "running", "failed"}, Moves(x, "waiting", to)
  PROVE  Order!Next
  <1>1. \A f \in Producers(x) : f \in Edges /\ EdgeState(f) = "settled"
    BY SettledState
  <1>2. CASE to = "settled"
    <2> DEFINE S == {x}
    <2>1. /\ S \in SUBSET Edges /\ S # {}
          /\ \A d \in S : EdgeState(d) = "waiting" /\ EdgeState(d)' = "settled"
          /\ \A d \in Edges \ S : EdgeState(d)' = EdgeState(d)
          /\ \A d \in S : \A f \in Producers(d) : f \in S \/ (f \in Edges /\ EdgeState(f) = "settled")
      BY <1>1, <1>2 DEF Moves
    <2> QED
      BY <2>1, SkipStep
  <1>3. CASE to # "settled"
    <2>1. \A d \in Edges : States[d] = EdgeState(d)
      BY DEF States
    <2>2. States' = [States EXCEPT ![x] = to]
      BY DEF States, Moves
    <2>3. States[x] = "waiting" /\ \A f \in [d \in Edges |-> Producers(d)][x] : States[f] = "settled"
      BY <1>1, <2>1 DEF Moves
    <2>4. Order!Start(x) \/ Order!Fail(x)
      BY <1>3, <2>2, <2>3 DEF Order!Start, Order!Fail, Order!Ready, States
    <2> QED
      BY <2>4 DEF Order!Next
  <1> QED
    BY <1>2, <1>3

(* A running edge is done. *)
LEMMA EndStep ==
  ASSUME NEW x \in Edges, Moves(x, "running", "settled") \/ Moves(x, "running", "failed")
  PROVE  Order!Next
  <1>1. States[x] = "running"
    BY DEF States, Moves
  <1>2. States' = [States EXCEPT ![x] = "settled"] \/ States' = [States EXCEPT ![x] = "failed"]
    BY DEF States, Moves
  <1>3. Order!Succeed(x) \/ Order!Fail(x)
    BY <1>1, <1>2 DEF Order!Succeed, Order!Fail, States
  <1> QED
    BY <1>3 DEF Order!Next

(* The edges found clean count from the moment buildadd() is over.         *)
LEMMA AddStep ==
  ASSUME OrderInv, pc = "add", result' = result,
         pc' = "add" \/ \A d \in Edges : (Settled(d)' <=> Settled(d))
  PROVE  Order!Next \/ UNCHANGED States
  <1>0. (\A d \in Through : Counted(d)) /\ Adding
    BY DEF OrderInv
  <1>1. \A d \in Edges : EdgeState(d) = "waiting"
    BY DEF EdgeState
  <1>2. CASE pc' = "add"
    <2>1. \A d \in Edges : EdgeState(d)' = "waiting"
      BY <1>2 DEF EdgeState
    <2> QED
      BY <1>1, <2>1, Stutters
  <1>3. CASE pc' # "add" /\ \A d \in Edges : (Settled(d)' <=> Settled(d))
    <2> DEFINE S == SettledEdges
    <2>1. \A d \in Edges : EdgeState(d)' = IF Settled(d) THEN "settled" ELSE "waiting"
      BY <1>0, <1>3 DEF EdgeState, Adding
    <2>2. S \in SUBSET Edges /\ \A d \in Edges : Settled(d) <=> d \in S
      BY DEF SettledEdges
    <2>3. ASSUME NEW d \in S PROVE Producers(d) \subseteq S
      <3>1. d \in Edges /\ Settled(d) /\ d \in Through
        BY <2>3 DEF SettledEdges, Settled, Seen, OnStack, Through
      <3>2. Untold(SettledEdges, todo, d) = {}
        BY <1>0, <3>1 DEF Counted, Pending
      <3> QED
        BY <3>1, <3>2, ProducersSettled
    <2> HIDE DEF S
    <2>4. CASE S = {}
      <3>1. \A d \in Edges : EdgeState(d)' = EdgeState(d)
        BY <1>1, <2>1, <2>2, <2>4
      <3> QED
        BY <3>1, Stutters
    <2>5. CASE S # {}
      <3>1. /\ \A d \in S : EdgeState(d) = "waiting" /\ EdgeState(d)' = "settled"
            /\ \A d \in Edges \ S : EdgeState(d)' = EdgeState(d)
        BY <1>1, <2>1, <2>2
      <3>2. \A d \in S : \A f \in Producers(d) : f \in S
        BY <2>3
      <3> QED
        BY <2>2, <2>5, <3>1, <3>2, SkipStep
    <2> QED
      BY <2>4, <2>5
  <1> QED
    BY <1>2, <1>3


-----------------------------------------------------------------------------
(* The theorem *)

Exact == OrderInv' /\ (Order!Next \/ UNCHANGED States)

LEMMA AddExact ==
  ASSUME TypeOK, CycleInv, PoolInv, OrderInv, AddTarget \/ AddInput \/ AddFinish
  PROVE  Exact
  <1>0. pc = "add" /\ UNCHANGED <<todo, jobs>>
    BY DEF AddTarget, AddInput, AddFinish, jobVars
  <1>1. CASE AddTarget \/ AddInput
    <2>1. \E n \in Nodes : \E rest : Enter(n, rest)
      <3>1. CASE AddTarget
        <4>1. adds \in Seq(Nodes) /\ adds # << >> /\ Enter(Head(adds), << >>)
          BY <3>1 DEF AddTarget, TypeOK, AddType
        <4>2. Head(adds) \in Nodes
          BY <4>1, Pop
        <4> QED
          BY <4>1, <4>2
      <3>2. CASE AddInput
        <4> DEFINE t == Head(adding)
                   rest == <<[t EXCEPT !.input = t.input + 1]>> \o Tail(adding)
        <4>1. /\ adding \in Seq(AddFrame) /\ adding # << >> /\ t.input <= Len(In[t.edge])
              /\ Enter(In[t.edge][t.input], rest)
          BY <3>2 DEF AddInput, TypeOK, AddType
        <4>2. t \in AddFrame
          BY <4>1, Pop
        <4> HIDE DEF t, rest
        <4>3. t.edge \in Edges /\ t.input \in Nat \ {0}
          BY <4>2 DEF AddFrame
        <4>4. In[t.edge][t.input] \in Nodes
          <5>1. In[t.edge] \in Seq(Nodes)
            BY <4>3, GraphTypes
          <5> QED
            BY <4>1, <4>3, <5>1
        <4> QED
          BY <4>1, <4>4
      <3> QED
        BY <1>1, <3>1, <3>2
    <2>2. UNCHANGED <<nprune, result, todo, work, poolwork, jobs>>
      BY <1>1 DEF AddTarget, AddInput, queueVars, jobVars, histVars
    <2>3. OrderInv' /\ result' = result /\ \A d \in Edges : (Settled(d)' <=> Settled(d))
      BY <1>0, <2>1, <2>2, EnterOrder
    <2> QED
      BY <1>0, <2>3, AddStep DEF Exact
  <1>2. CASE AddFinish
    <2>1. pc' = "add" /\ result' = result
      BY <1>0, <1>2 DEF AddFinish, mainVars, histVars
    <2> QED
      BY <1>0, <1>2, <2>1, FinishOrder, AddStep DEF Exact
  <1> QED
    BY <1>1, <1>2

LEMMA MainExact ==
  ASSUME TypeOK, PoolInv, OrderInv,
         BuildBegin \/ Finished \/ BuildEnd \/ WaitForJobs \/ Poll \/ ScanEnd
  PROVE  Exact
  <1>0. /\ UNCHANGED <<flags, nblock, nprune, result, todo, work, poolwork, pass>> /\ pc # "exit"
        /\ pc' # "add"
    BY DEF BuildBegin, Finished, BuildEnd, WaitForJobs, Poll, ScanEnd, Fatal, Stalled,
           edgeVars, queueVars, histVars
  <1>1. \A d \in Edges : (Settled(d)' <=> Settled(d))
    BY <1>0 DEF Settled, Seen, OnStack
  <1>2. Order!Next \/ UNCHANGED States
    <2>1. CASE pc = "add"
      BY <1>0, <1>1, <2>1, AddStep
    <2>2. CASE pc # "add"
      BY <1>0, <1>1, <2>2, Stutters DEF EdgeState
    <2> QED
      BY <2>1, <2>2
  <1>3. OrderInv'
    <2>1. CASE pc' = "exit"
      <3>1. todo = << >>
        BY <2>1 DEF BuildBegin, Finished, BuildEnd, WaitForJobs, Poll, ScanEnd, Stalled, PoolInv, Between
      <3> QED
        BY <1>0, <2>1, <3>1 DEF OrderInv
    <2>2. CASE pc' # "exit"
      <3>1. jobs' = jobs \/ jobs' = << >>
        BY DEF BuildBegin, Finished, BuildEnd, WaitForJobs, Poll, ScanEnd, jobVars
      <3>2. Jobs'
        <4>1. CASE jobs' = jobs
          BY <1>0, <4>1, SameJobs DEF OrderInv
        <4>2. CASE jobs' = << >>
          <5>1. Busy' = {}
            BY <4>2 DEF Busy, BusySlots
          <5> QED
            BY <5>1 DEF Jobs
        <4> QED
          BY <3>1, <4>1, <4>2
      <3> QED
        BY <1>0, <2>2, <3>2, OrderSame
    <2> QED
      BY <2>1, <2>2
  <1> QED
    BY <1>2, <1>3 DEF Exact

(* The end of a command is its own affair until poll() reports it. *)
LEMMA CommandExact ==
  ASSUME TypeOK, PoolInv, OrderInv, Commands
  PROVE  Exact
  <1>1. /\ UNCHANGED <<flags, nblock, nprune, dirty, result, todo, work, poolwork, pass, pc>>
        /\ DOMAIN jobs' = DOMAIN jobs /\ \A k \in DOMAIN jobs : jobs'[k].edge = jobs[k].edge
        /\ Busy' = Busy
    BY CommandEdges DEF nodeVars, edgeVars, queueVars, mainVars, histVars, Busy
  <1>2. \A d \in Edges : EdgeState(d)' = EdgeState(d)
    BY <1>1 DEF EdgeState, Settled, Seen, OnStack
  <1>3. pc # "add"
    BY DEF Commands, PoolInv, Between
  <1>4. OrderInv'
    <2>1. CASE pc = "exit"
      BY <1>1, <2>1 DEF OrderInv
    <2>2. CASE pc # "exit"
      <3>1. \A i \in Busy : i \in DOMAIN jobs
        BY DEF Busy, BusySlots
      <3>2. Jobs'
        BY <1>1, <2>2, <3>1 DEF OrderInv, Jobs
      <3> QED
        BY <1>1, <1>3, <2>2, <3>2, OrderSame
    <2> QED
      BY <2>1, <2>2
  <1> QED
    BY <1>2, <1>4, Stutters DEF Exact

LEMMA OrderStep == IInv /\ CycleInv /\ PoolInv /\ OrderInv /\ [Next]_vars => Exact
  <1> SUFFICES ASSUME IInv, CycleInv, PoolInv, OrderInv, [Next]_vars PROVE Exact
    OBVIOUS
  <1>0. TypeOK
    BY DEF IInv
  <1>1. CASE AddTarget \/ AddInput \/ AddFinish
    BY <1>0, <1>1, AddExact
  <1>2. CASE BuildBegin \/ Finished \/ BuildEnd \/ WaitForJobs \/ Poll \/ ScanEnd
    BY <1>0, <1>2, MainExact
  <1>3. CASE ManifestClean \/ ManifestRetry \/ ManifestPruned
    BY <1>3 DEF OrderInv, ManifestClean, ManifestRetry, ManifestPruned
  <1>4. CASE StartNothing \/ StartJob \/ StartFails
    <2>1. pc = "start"
      BY <1>4 DEF StartNothing, StartJob, StartFails, MayStart
    <2>2. OrderInv' /\ \E x \in Edges, to \in {"settled", "running", "failed"} :
                          Moves(x, "waiting", to) /\ Producers(x) \subseteq SettledEdges
      BY <1>4, NothingStarted, JobStarted, StartFailed
    <2> QED
      BY <2>1, <2>2, LeaveStep DEF Exact
  <1>5. CASE JobDone
    BY <1>5, JobEnded, EndStep DEF Exact
  <1>6. CASE Prune
    <2>1. pc # "add"
      BY <1>6, NodedoneWhen DEF Prune, AtUser
    <2> QED
      BY <1>6, <2>1, PruneDone, LeaveStep DEF Exact
  <1>7. CASE Unblock \/ SkipUser \/ NodeDone
    BY <1>7, UnblockDone, PassedOver, Stutters DEF Exact
  <1>8. CASE Commands
    BY <1>0, <1>8, CommandExact
  <1>9. CASE UNCHANGED vars
    <2>1. UNCHANGED <<flags, nblock, nprune, dirty, result, todo, work, poolwork, pass, pc, jobs>>
      BY <1>9 DEF vars, edgeVars, nodeVars, queueVars, mainVars, histVars, jobVars
    <2>2. \A d \in Edges : EdgeState(d)' = EdgeState(d)
      BY <2>1 DEF EdgeState, Settled, Seen, OnStack
    <2>3. OrderInv'
      <3>1. CASE pc = "exit"
        BY <2>1, <3>1 DEF OrderInv
      <3>2. CASE pc = "add"
        <4>1. Through' = Through /\ \A d \in Edges \ Through : "DIRTY_IN" \notin flags'[d]
          BY <2>1, <3>2 DEF Through, OrderInv, Fresh
        <4> QED
          BY <2>1, <3>2, <4>1, AddKept
      <3>3. CASE pc \notin {"add", "exit"}
        <4>1. Jobs'
          BY <2>1, <3>3, SameJobs DEF OrderInv
        <4> QED
          BY <2>1, <3>3, <4>1, OrderSame
      <3> QED
        BY <3>1, <3>2, <3>3
    <2> QED
      BY <2>2, <2>3, Stutters DEF Exact
  <1> QED
    BY <1>1, <1>2, <1>3, <1>4, <1>5, <1>6, <1>7, <1>8, <1>9 DEF Next, Samu, Exited

LEMMA OrderInit == Init /\ ~HasManifestRule => OrderInv /\ Order!Init
  <1> SUFFICES ASSUME Init, ~HasManifestRule PROVE OrderInv /\ Order!Init
    OBVIOUS
  <1>1. /\ pc = "add" /\ pass = "targets" /\ todo = << >> /\ work = << >> /\ jobs = << >>
        /\ poolwork = [p \in Pools |-> << >>] /\ flags = [e \in Edges |-> {}]
        /\ result = [e \in Edges |-> "none"] /\ dirty = [n \in Nodes |-> FALSE]
    BY DEF Init, FirstPass
  <1>2. Through = {} /\ Busy = {}
    BY <1>1 DEF Through, Busy, BusySlots
  <1>3. Fresh
    BY <1>1 DEF Fresh
  <1>4. Adding
    BY <1>1, <1>2 DEF Adding
  <1>5. Telling
    BY <1>1 DEF Telling, TellsOnce
  <1>6. Queues
    BY <1>1 DEF Queues, QueuesIn, Once, Members
  <1>7. Jobs
    BY <1>2 DEF Jobs
  <1>8. \A e \in Edges : EdgeState(e) = "waiting"
    BY <1>1 DEF EdgeState
  <1>9. Order!Init
    BY <1>8 DEF Order!Init
  <1> QED
    BY <1>1, <1>2, <1>3, <1>4, <1>5, <1>6, <1>7, <1>9 DEF OrderInv

(* Whatever the graph, -j, -k, the pools, the files and the commands do: a *)
(* build does to its edges only what SamuOrder allows.  An edge is settled *)
(* after the edges that produce its inputs, its command is started then    *)
(* and once, and nothing below a failure is started (buildadd(),           *)
(* nodedone(), queue(), jobdone()).  The manifest must not be built in the *)
(* same run: its build starts the whole graph over.                        *)
THEOREM BuildsInOrder ==
  ASSUME ~HasManifestRule
  PROVE  Spec => DependencyOrder
  <1>1. Init => OrderInv /\ Order!Init
    BY OrderInit
  <1>2. IInv /\ CycleInv /\ PoolInv /\ [Next]_vars => CycleInv' /\ PoolInv'
    BY CycleStep, PoolStep
  <1>3. IInv /\ CycleInv /\ PoolInv /\ OrderInv /\ [Next]_vars => OrderInv' /\ [Order!Next]_States
    BY OrderStep DEF Exact
  <1>4. Init => CycleInv /\ PoolInv
    BY CycleInit, PoolInit
  <1>5. Spec => []IInv
    BY Invariant
  <1> QED
    BY <1>1, <1>2, <1>3, <1>4, <1>5, PTL DEF Spec, DependencyOrder, Order!Spec, States
=============================================================================
