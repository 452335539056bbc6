-------------------------- MODULE ShellEvalProofs --------------------------
(***************************************************************************)
(* Theorems about ShellEval, for every nesting of constructs and whatever  *)
(* ends them: the stacks are as high as the constructs under way have made *)
(* them, skipping ends where it should, and local variables are put back.  *)
(***************************************************************************)
EXTENDS ShellEval, FiniteSetTheorems, WellFoundedInduction, TLAPS

Entry == [here : BOOLEAN, value : Values \cup {Unset}, flags : SUBSET Flags]
Item == [name : Vars, made : BOOLEAN, was : Entry]
LvType == [vars : [Vars -> Entry], stack : Seq(Seq(Item)), ok : BOOLEAN]

(* A variable that a saved item points to: its entry is there and fixed.   *)
Pinned(e) == e.here /\ "fixed" \in e.flags

(* The items of a scope know whether there was a variable; of the items of *)
(* the same name, all but the first saved one that was pinned already.     *)
ScopeGood(items) ==
    \A k \in DOMAIN items :
        /\ items[k].made <=> ~items[k].was.here
        /\ ~items[k].was.here => items[k].was = Absent
        /\ \A m \in DOMAIN items :
              k < m /\ items[k].name = items[m].name => Pinned(items[k].was)
LvGood(v) ==
    /\ v \in LvType
    /\ \A x \in Vars : ~v.vars[x].here => v.vars[x] = Absent
    /\ \A i \in DOMAIN v.stack : ScopeGood(v.stack[i])
    /\ \A i \in DOMAIN v.stack : \A k \in DOMAIN v.stack[i] : Pinned(v.vars[v.stack[i][k].name])
    /\ \A i, j \in DOMAIN v.stack : i < j =>
          \A k \in DOMAIN v.stack[i], m \in DOMAIN v.stack[j] :
              v.stack[i][k].name = v.stack[j][m].name => Pinned(v.stack[j][m].was)

(* A table keeps a descriptor, or what Min() makes of the empty set where  *)
(* the model has no descriptor left.                                       *)
Place == {EMPTY, CLOSED} \cup Desc \cup {Min({})}
Table == [Fds -> Place]
IsRd(r) ==
    /\ r = [list |-> r.list, closed |-> r.closed, ofile |-> r.ofile, ok |-> r.ok]
    /\ r.list \in Seq(Table)

(* A loop has no redirections of its own: those are of a block around it.  *)
FrameType ==
    {f \in [kind : Kinds, spclbltin : BOOLEAN, redir : BOOLEAN,
            stop : [redir : Nat, file : Nat, local : Nat],
            saveloopnest : Int, test : BOOLEAN, status : 0..255] :
        /\ IsLoop(f) => ~f.redir
        /\ f.kind = "block" => f.redir
        /\ f.test => f.kind = "while"}
GoalType == [to : 0..MaxDepth, how : {"none", "end", "next", "return"}, status : 0..255]

ControlType ==
    /\ pc \in {"run", "exit"} /\ iflag \in BOOLEAN
    /\ evalskip \in Skips \cup {None} /\ skipcount \in Int /\ loopnest \in Int
    /\ exitstatus \in 0..255 /\ goal \in GoalType
FramesType == frames \in Seq(FrameType) /\ Depth <= MaxDepth
DataType == IsRd(rd) /\ rd.ok /\ LvGood(lv) /\ lv.ok /\ files \in Seq(Place)
Types == ControlType /\ FramesType /\ DataType

(* How many of the first n frames have an entry of their own on one of the *)
(* stacks: P is the set of frames that do.                                 *)
WithRedir == {f \in FrameType : f.redir}
WithLocal == {f \in FrameType : IsCall(f) /\ ~f.spclbltin}
WithFile == {f \in FrameType : f.kind \in {"eval", "dot"}}
Below(fs, n, P) == {j \in 1..n : fs[j] \in P}
Height(fs, n, P) == Cardinality(Below(fs, n, P))

(* The stacks are as high as the frames fs make them, and each frame has   *)
(* kept how high they were when it began.                                  *)
Stacked(fs, redir, local, file) ==
    /\ redir = Height(fs, Len(fs), WithRedir)
    /\ local = Height(fs, Len(fs), WithLocal)
    /\ file = Height(fs, Len(fs), WithFile)
    /\ \A i \in DOMAIN fs :
          /\ fs[i].stop.redir = Height(fs, i - 1, WithRedir)
          /\ fs[i].stop.local = Height(fs, i - 1, WithLocal)
          /\ fs[i].stop.file = Height(fs, i - 1, WithFile)
Stacks == pc = "run" => Stacked(frames, Len(rd.list), Len(lv.stack), Len(files))

(* Loops as they were when only the first n frames were there.             *)
LoopsTo(fs, n) ==
    {i \in 1..n : IsLoop(fs[i]) /\ \A j \in i..n : fs[j].kind # "function"}
Nested(fs, nest) ==
    /\ nest = Cardinality(LoopsTo(fs, Len(fs)))
    /\ \A i \in DOMAIN fs : fs[i].kind = "function" =>
          fs[i].saveloopnest = Cardinality(LoopsTo(fs, i - 1))
Nests == pc = "run" => Nested(frames, loopnest)

(* What the skipping under way relies on.  A dot script is not opened      *)
(* while commands are skipped.                                             *)
ReturnTo(fs) ==
    LET S == {i \in DOMAIN fs : fs[i].kind \in {"function", "dot"}}
    IN IF S = {} THEN 0 ELSE Max(S)
LevelGoal ==
    /\ goal.how = IF evalskip = "SKIPBREAK" THEN "end" ELSE "next"
    /\ goal.to \in Loops
    /\ skipcount = Cardinality({j \in Loops : j >= goal.to})
ReturnGoal ==
    /\ goal.how = "return" /\ goal.to = ReturnTo(frames)
    /\ ~TestReturns => /\ exitstatus = goal.status
                       /\ evalskip = "SKIPFUNCDEF" => \A i \in (goal.to + 1)..Depth : ~frames[i].test
SkipInv ==
    pc = "run" =>
    /\ evalskip \in {"SKIPBREAK", "SKIPCONT"} => LevelGoal
    /\ Returning => ReturnGoal
    /\ \A i \in DOMAIN frames : frames[i].kind = "dotcmd" => i = Depth /\ evalskip = None

-----------------------------------------------------------------------------
(* Numbers and sequences *)

LEMMA MinOf ==
  ASSUME NEW S, S \subseteq Int, NEW b \in Int, \A x \in S : b <= x, S # {}
  PROVE  Min(S) \in S /\ \A y \in S : Min(S) <= y
  <1> DEFINE T == {n \in Nat : b + n \in S}
             R == OpToRel(<, Nat)
  <1>1. T # {}
    <2>1. PICK x \in S : TRUE
      OBVIOUS
    <2>2. x - b \in Nat /\ b + (x - b) = x
      BY <2>1
    <2> QED
      BY <2>1, <2>2
  <1>2. PICK n \in T : \A k \in T : ~(<<k, n>> \in R)
    <2>1. T \subseteq Nat
      OBVIOUS
    <2> HIDE DEF T, R
    <2>2. IsWellFoundedOn(R, Nat)
      BY NatLessThanWellFounded DEF R
    <2> QED
      BY <1>1, <2>1, <2>2, WFMin
  <1>3. \A k \in T : n <= k
    <2> SUFFICES ASSUME NEW k \in T, k < n PROVE FALSE
      OBVIOUS
    <2>1. <<k, n>> \in R
      BY DEF OpToRel
    <2> QED
      BY <1>2, <2>1
  <1>4. \A y \in S : b + n <= y
    <2> SUFFICES ASSUME NEW y \in S PROVE b + n <= y
      OBVIOUS
    <2>1. y - b \in Nat /\ b + (y - b) = y
      OBVIOUS
    <2> QED
      BY <1>3, <2>1
  <1>5. b + n \in S /\ \A y \in S : b + n <= y
    BY <1>4
  <1> QED
    BY <1>5 DEF Min

LEMMA MaxOf ==
  ASSUME NEW S, S \subseteq Int, NEW b \in Int, \A x \in S : x <= b, S # {}
  PROVE  Max(S) \in S /\ \A y \in S : y <= Max(S)
  <1> DEFINE T == {0 - x : x \in S}
  <1>1. T \subseteq Int /\ T # {} /\ 0 - b \in Int /\ \A x \in T : 0 - b <= x
    <2>1. \A x \in S : 0 - x \in Int /\ 0 - b <= 0 - x
      OBVIOUS
    <2>2. T # {}
      <3>1. PICK x \in S : TRUE
        OBVIOUS
      <3> QED
        BY <3>1
    <2> QED
      BY <2>1, <2>2
  <1>2. Min(T) \in T /\ \A y \in T : Min(T) <= y
    <2> HIDE DEF T
    <2> QED
      BY <1>1, MinOf
  <1>3. PICK x \in S : Min(T) = 0 - x
    BY <1>2
  <1>4. \A y \in S : x >= y
    <2> SUFFICES ASSUME NEW y \in S PROVE x >= y
      OBVIOUS
    <2>1. Min(T) <= 0 - y
      BY <1>2
    <2>2. 0 - x <= 0 - y /\ x \in Int /\ y \in Int
      BY <1>3, <2>1
    <2> HIDE DEF T
    <2> QED
      BY <2>2
  <1>5. \E z \in S : \A y \in S : z >= y
    BY <1>4
  <1>6. Max(S) \in S /\ \A y \in S : Max(S) >= y
    <2> DEFINE P(z) == \A y \in S : z >= y
    <2> HIDE DEF P
    <2>1. \E z \in S : P(z)
      BY <1>5 DEF P
    <2>2. Max(S) = CHOOSE z \in S : P(z)
      BY DEF Max, P
    <2>3. Max(S) \in S /\ P(Max(S))
      BY <2>1, <2>2
    <2> QED
      BY <2>3 DEF P
  <1>7. Max(S) \in Int
    BY <1>6
  <1> QED
    BY <1>6, <1>7

(* Induction over the naturals, on sets. *)
LEMMA NatSetInduction ==
  ASSUME NEW S, 0 \in S, \A k \in Nat : k \in S => k + 1 \in S
  PROVE  Nat \subseteq S
  <1> SUFFICES ASSUME Nat \ S # {} PROVE FALSE
    OBVIOUS
  <1> DEFINE n == Min(Nat \ S)
  <1>1. n \in Nat \ S /\ \A y \in Nat \ S : n <= y
    BY MinOf
  <1>2. n # 0 /\ n - 1 \in Nat /\ (n - 1) + 1 = n
    BY <1>1
  <1>3. n - 1 \in S
    BY <1>1, <1>2
  <1> QED
    BY <1>1, <1>2, <1>3

(* Numbers 1..n of which some are in S *)
LEMMA CountUp ==
  ASSUME NEW S, NEW n \in Nat
  PROVE  /\ IsFiniteSet((1..n) \cap S) /\ Cardinality((1..n) \cap S) \in Nat
         /\ Cardinality((1..0) \cap S) = 0
         /\ Cardinality((1..(n + 1)) \cap S) =
               Cardinality((1..n) \cap S) + (IF n + 1 \in S THEN 1 ELSE 0)
  <1>1. IsFiniteSet((1..n) \cap S)
    <2>1. IsFiniteSet(1..n) /\ (1..n) \cap S \in SUBSET (1..n)
      BY FS_Interval
    <2> QED
      BY <2>1, FS_Subset
  <1>2. Cardinality((1..n) \cap S) \in Nat
    BY <1>1, FS_CardinalityType
  <1>3. (1..0) \cap S = {}
    OBVIOUS
  <1>4. CASE n + 1 \in S
    <2>1. (1..(n + 1)) \cap S = ((1..n) \cap S) \cup {n + 1} /\ n + 1 \notin (1..n) \cap S
      BY <1>4
    <2> QED
      BY <1>1, <1>2, <1>3, <1>4, <2>1, FS_AddElement, FS_EmptySet
  <1>5. CASE n + 1 \notin S
    <2>1. (1..(n + 1)) \cap S = (1..n) \cap S
      BY <1>5
    <2> QED
      BY <1>1, <1>2, <1>3, <1>5, <2>1, FS_EmptySet
  <1> QED
    BY <1>4, <1>5

LEMMA Heights ==
  ASSUME NEW fs, NEW P, NEW n \in Nat
  PROVE  /\ IsFiniteSet(Below(fs, n, P)) /\ Height(fs, n, P) \in Nat
         /\ Height(fs, 0, P) = 0
         /\ Height(fs, n + 1, P) = Height(fs, n, P) + (IF fs[n + 1] \in P THEN 1 ELSE 0)
  <1> DEFINE S == {j \in 1..(n + 1) : fs[j] \in P}
  <1>1. /\ Below(fs, n, P) = (1..n) \cap S
        /\ Below(fs, 0, P) = (1..0) \cap S
        /\ Below(fs, n + 1, P) = (1..(n + 1)) \cap S
        /\ n + 1 \in S <=> fs[n + 1] \in P
    BY DEF Below
  <1>2. /\ IsFiniteSet((1..n) \cap S) /\ Cardinality((1..n) \cap S) \in Nat
        /\ Cardinality((1..0) \cap S) = 0
        /\ Cardinality((1..(n + 1)) \cap S) =
              Cardinality((1..n) \cap S) + (IF n + 1 \in S THEN 1 ELSE 0)
    <2> HIDE DEF S
    <2> QED
      BY CountUp
  <1> HIDE DEF S
  <1> QED
    BY <1>1, <1>2 DEF Height

LEMMA SameHeights ==
  ASSUME NEW fs, NEW gs, NEW P, NEW n \in Nat, \A j \in 1..n : fs[j] \in P <=> gs[j] \in P
  PROVE  Height(fs, n, P) = Height(gs, n, P)
  <1>1. Below(fs, n, P) = Below(gs, n, P)
    BY DEF Below
  <1> QED
    BY <1>1 DEF Height

LEMMA HeightsGrow ==
  ASSUME NEW fs, NEW P, NEW m \in Nat, NEW n \in Nat, m <= n
  PROVE  Height(fs, m, P) <= Height(fs, n, P)
  <1>1. Below(fs, m, P) \in SUBSET Below(fs, n, P)
    BY DEF Below
  <1>2. IsFiniteSet(Below(fs, n, P))
    BY Heights
  <1> QED
    BY <1>1, <1>2, FS_Subset DEF Height

(* What appending, cutting and updating do to a sequence. *)
LEMMA Appended ==
  ASSUME NEW S, NEW s \in Seq(S), NEW x \in S
  PROVE  /\ Append(s, x) \in Seq(S) /\ Len(Append(s, x)) = Len(s) + 1
         /\ DOMAIN s = 1..Len(s) /\ Len(s) \in Nat
         /\ DOMAIN Append(s, x) = 1..(Len(s) + 1)
         /\ \A i \in 1..Len(s) : Append(s, x)[i] = s[i]
         /\ Append(s, x)[Len(s) + 1] = x
  OBVIOUS

LEMMA Cut ==
  ASSUME NEW S, NEW s \in Seq(S), NEW n \in 0..Len(s)
  PROVE  /\ SubSeq(s, 1, n) \in Seq(S) /\ Len(SubSeq(s, 1, n)) = n
         /\ DOMAIN s = 1..Len(s) /\ Len(s) \in Nat
         /\ DOMAIN SubSeq(s, 1, n) = 1..n
         /\ \A i \in 1..n : SubSeq(s, 1, n)[i] = s[i] /\ s[i] \in S
  OBVIOUS

LEMMA Updated ==
  ASSUME NEW S, NEW s \in Seq(S), NEW n \in 1..Len(s), NEW x \in S
  PROVE  /\ [s EXCEPT ![n] = x] \in Seq(S) /\ Len([s EXCEPT ![n] = x]) = Len(s)
         /\ DOMAIN s = 1..Len(s) /\ Len(s) \in Nat
         /\ DOMAIN [s EXCEPT ![n] = x] = 1..Len(s)
         /\ \A i \in 1..Len(s) : [s EXCEPT ![n] = x][i] = IF i = n THEN x ELSE s[i]
  OBVIOUS

-----------------------------------------------------------------------------
(* A construct begins, and constructs end. *)

LEMMA HeightsPushed ==
  ASSUME NEW fs, NEW gs, NEW P, NEW n \in Nat, \A i \in 1..n : gs[i] = fs[i]
  PROVE  /\ \A k \in 0..n : Height(gs, k, P) = Height(fs, k, P)
         /\ Height(gs, n + 1, P) = Height(fs, n, P) + (IF gs[n + 1] \in P THEN 1 ELSE 0)
  <1>1. \A k \in 0..n : Height(gs, k, P) = Height(fs, k, P)
    <2> SUFFICES ASSUME NEW k \in 0..n PROVE Height(gs, k, P) = Height(fs, k, P)
      OBVIOUS
    <2>1. k \in Nat /\ \A j \in 1..k : gs[j] \in P <=> fs[j] \in P
      OBVIOUS
    <2> QED
      BY <2>1, SameHeights
  <1>2. n \in 0..n
    OBVIOUS
  <1> QED
    BY <1>1, <1>2, Heights

LEMMA PushFrame ==
  ASSUME NEW fs \in Seq(FrameType), NEW f \in FrameType,
         NEW redir, NEW local, NEW file, Stacked(fs, redir, local, file),
         f.stop.redir = redir /\ f.stop.local = local /\ f.stop.file = file
  PROVE  Stacked(Append(fs, f), redir + (IF f \in WithRedir THEN 1 ELSE 0),
                 local + (IF f \in WithLocal THEN 1 ELSE 0),
                 file + (IF f \in WithFile THEN 1 ELSE 0))
  <1> DEFINE gs == Append(fs, f)
             n == Len(fs)
  <1>1. /\ n \in Nat /\ DOMAIN fs = 1..n /\ DOMAIN gs = 1..(n + 1) /\ Len(gs) = n + 1
        /\ \A i \in 1..n : gs[i] = fs[i]
        /\ gs[n + 1] = f
    BY Appended
  <1> HIDE DEF gs, n
  <1>2. ASSUME NEW P
        PROVE  /\ \A k \in 0..n : Height(gs, k, P) = Height(fs, k, P)
               /\ Height(gs, n + 1, P) = Height(fs, n, P) + (IF f \in P THEN 1 ELSE 0)
    <2>1. n \in Nat /\ \A i \in 1..n : gs[i] = fs[i]
      BY <1>1
    <2>2. gs[n + 1] = f
      BY <1>1
    <2>3. /\ \A k \in 0..n : Height(gs, k, P) = Height(fs, k, P)
          /\ Height(gs, n + 1, P) = Height(fs, n, P) + (IF gs[n + 1] \in P THEN 1 ELSE 0)
      BY <2>1, HeightsPushed
    <2> QED
      BY <2>2, <2>3
  <1>3. \A i \in 1..n : i - 1 \in 0..n
    BY <1>1
  <1>4. /\ redir = Height(fs, n, WithRedir) /\ local = Height(fs, n, WithLocal)
        /\ file = Height(fs, n, WithFile)
        /\ \A i \in 1..n :
              /\ fs[i].stop.redir = Height(fs, i - 1, WithRedir)
              /\ fs[i].stop.local = Height(fs, i - 1, WithLocal)
              /\ fs[i].stop.file = Height(fs, i - 1, WithFile)
    BY <1>1 DEF Stacked, n
  <1>5. \A i \in 1..(n + 1) :
              /\ gs[i].stop.redir = Height(gs, i - 1, WithRedir)
              /\ gs[i].stop.local = Height(gs, i - 1, WithLocal)
              /\ gs[i].stop.file = Height(gs, i - 1, WithFile)
    <2> SUFFICES ASSUME NEW i \in 1..(n + 1)
                 PROVE  /\ gs[i].stop.redir = Height(gs, i - 1, WithRedir)
                        /\ gs[i].stop.local = Height(gs, i - 1, WithLocal)
                        /\ gs[i].stop.file = Height(gs, i - 1, WithFile)
      OBVIOUS
    <2>1. CASE i \in 1..n
      BY <1>1, <1>2, <1>3, <1>4, <2>1
    <2>2. CASE i = n + 1
      <3>1. i - 1 = n /\ n \in 0..n
        BY <1>1, <2>2
      <3> QED
        BY <1>1, <1>2, <1>4, <2>2, <3>1
    <2> QED
      BY <1>1, <2>1, <2>2
  <1>6. /\ Height(gs, n + 1, WithRedir) = redir + (IF f \in WithRedir THEN 1 ELSE 0)
        /\ Height(gs, n + 1, WithLocal) = local + (IF f \in WithLocal THEN 1 ELSE 0)
        /\ Height(gs, n + 1, WithFile) = file + (IF f \in WithFile THEN 1 ELSE 0)
    BY <1>2, <1>4
  <1> QED
    BY <1>1, <1>5, <1>6 DEF Stacked, gs

(* All frames from the ith on end. *)
LEMMA CutFrames ==
  ASSUME NEW fs \in Seq(FrameType), NEW i \in 1..Len(fs),
         NEW redir, NEW local, NEW file, Stacked(fs, redir, local, file)
  PROVE  /\ Stacked(SubSeq(fs, 1, i - 1), fs[i].stop.redir, fs[i].stop.local, fs[i].stop.file)
         /\ fs[i].stop.redir + (IF fs[i] \in WithRedir THEN 1 ELSE 0) <= redir
         /\ fs[i].stop.local + (IF fs[i] \in WithLocal THEN 1 ELSE 0) <= local
         /\ fs[i].stop.file + (IF fs[i] \in WithFile THEN 1 ELSE 0) <= file
  <1> DEFINE gs == SubSeq(fs, 1, i - 1)
             n == Len(fs)
             k == i - 1
  <1>1. /\ n \in Nat /\ i \in Nat /\ k \in 0..n /\ k + 1 = i /\ i <= n /\ k \in Nat
        /\ DOMAIN fs = 1..n /\ DOMAIN gs = 1..k /\ Len(gs) = k
        /\ \A j \in 1..k : gs[j] = fs[j]
    BY Cut
  <1>2. /\ redir = Height(fs, n, WithRedir) /\ local = Height(fs, n, WithLocal)
        /\ file = Height(fs, n, WithFile)
        /\ \A j \in 1..n :
              /\ fs[j].stop.redir = Height(fs, j - 1, WithRedir)
              /\ fs[j].stop.local = Height(fs, j - 1, WithLocal)
              /\ fs[j].stop.file = Height(fs, j - 1, WithFile)
    BY <1>1 DEF Stacked
  <1> HIDE DEF gs, n, k
  <1>3. ASSUME NEW P
        PROVE  /\ \A m \in 0..k : Height(gs, m, P) = Height(fs, m, P)
               /\ Height(fs, k, P) + (IF fs[i] \in P THEN 1 ELSE 0) <= Height(fs, n, P)
    <2>1. \A m \in 0..k : Height(gs, m, P) = Height(fs, m, P)
      <3> SUFFICES ASSUME NEW m \in 0..k PROVE Height(gs, m, P) = Height(fs, m, P)
        OBVIOUS
      <3>1. m \in Nat /\ \A j \in 1..m : gs[j] \in P <=> fs[j] \in P
        BY <1>1
      <3> QED
        BY <3>1, SameHeights
    <2>2. Height(fs, i, P) = Height(fs, k, P) + (IF fs[i] \in P THEN 1 ELSE 0)
      BY <1>1, Heights
    <2>3. Height(fs, i, P) <= Height(fs, n, P)
      BY <1>1, HeightsGrow
    <2> QED
      BY <2>1, <2>2, <2>3
  <1>4. \A j \in 1..k : j \in 1..n /\ j - 1 \in 0..k
    BY <1>1
  <1>5. k \in 0..k /\ i \in 1..n /\ i - 1 = k
    BY <1>1 DEF k
  <1>6. \A j \in 1..k :
              /\ gs[j].stop.redir = Height(gs, j - 1, WithRedir)
              /\ gs[j].stop.local = Height(gs, j - 1, WithLocal)
              /\ gs[j].stop.file = Height(gs, j - 1, WithFile)
    BY <1>1, <1>2, <1>3, <1>4
  <1>7. /\ fs[i].stop.redir = Height(gs, k, WithRedir)
        /\ fs[i].stop.local = Height(gs, k, WithLocal)
        /\ fs[i].stop.file = Height(gs, k, WithFile)
    BY <1>2, <1>3, <1>5
  <1>8. /\ fs[i].stop.redir = Height(fs, k, WithRedir)
        /\ fs[i].stop.local = Height(fs, k, WithLocal)
        /\ fs[i].stop.file = Height(fs, k, WithFile)
    BY <1>2, <1>5
  <1>9. Stacked(gs, fs[i].stop.redir, fs[i].stop.local, fs[i].stop.file)
    BY <1>1, <1>6, <1>7 DEF Stacked
  <1> QED
    BY <1>2, <1>3, <1>8, <1>9 DEF gs

(* The last frame changes, in nothing that the stacks tell. *)
LEMMA SameStacks ==
  ASSUME NEW fs \in Seq(FrameType), NEW gs \in Seq(FrameType), Len(gs) = Len(fs),
         NEW redir, NEW local, NEW file, NEW file2, Stacked(fs, redir, local, file),
         \A i \in 1..Len(fs) : /\ gs[i].stop = fs[i].stop
                               /\ gs[i] \in WithRedir <=> fs[i] \in WithRedir
                               /\ gs[i] \in WithLocal <=> fs[i] \in WithLocal,
         \A i \in 1..(Len(fs) - 1) : gs[i] \in WithFile <=> fs[i] \in WithFile,
         file2 = Height(gs, Len(gs), WithFile)
  PROVE  Stacked(gs, redir, local, file2)
  <1>1. Len(fs) \in Nat /\ DOMAIN gs = 1..Len(fs) /\ DOMAIN fs = 1..Len(fs)
    OBVIOUS
  <1>2. \A k \in 0..Len(fs) : /\ Height(gs, k, WithRedir) = Height(fs, k, WithRedir)
                              /\ Height(gs, k, WithLocal) = Height(fs, k, WithLocal)
    <2> SUFFICES ASSUME NEW k \in 0..Len(fs)
                 PROVE  /\ Height(gs, k, WithRedir) = Height(fs, k, WithRedir)
                        /\ Height(gs, k, WithLocal) = Height(fs, k, WithLocal)
      OBVIOUS
    <2>1. /\ \A j \in 1..k : gs[j] \in WithRedir <=> fs[j] \in WithRedir
          /\ \A j \in 1..k : gs[j] \in WithLocal <=> fs[j] \in WithLocal
      BY <1>1
    <2> QED
      BY <1>1, <2>1, SameHeights
  <1>3. \A i \in 1..Len(fs) : Height(gs, i - 1, WithFile) = Height(fs, i - 1, WithFile)
    <2> SUFFICES ASSUME NEW i \in 1..Len(fs)
                 PROVE  Height(gs, i - 1, WithFile) = Height(fs, i - 1, WithFile)
      OBVIOUS
    <2>1. i - 1 \in Nat /\ \A j \in 1..(i - 1) : gs[j] \in WithFile <=> fs[j] \in WithFile
      BY <1>1
    <2> QED
      BY <2>1, SameHeights
  <1>4. Len(fs) \in 0..Len(fs) /\ \A i \in 1..Len(fs) : i - 1 \in 0..Len(fs)
    BY <1>1
  <1> QED
    BY <1>1, <1>2, <1>3, <1>4 DEF Stacked

-----------------------------------------------------------------------------
(* Loops *)

LEMMA LoopsFinite ==
  ASSUME NEW fs, NEW n \in Nat
  PROVE  /\ LoopsTo(fs, n) \subseteq 1..n /\ IsFiniteSet(LoopsTo(fs, n))
         /\ Cardinality(LoopsTo(fs, n)) \in Nat /\ LoopsTo(fs, 0) = {}
  <1>1. LoopsTo(fs, n) \in SUBSET (1..n) /\ LoopsTo(fs, 0) = {}
    BY DEF LoopsTo
  <1>2. IsFiniteSet(LoopsTo(fs, n))
    BY <1>1, FS_Interval, FS_Subset
  <1> QED
    BY <1>1, <1>2, FS_CardinalityType

LEMMA LoopsStep ==
  ASSUME NEW fs, NEW n \in Nat
  PROVE  /\ fs[n + 1].kind = "function" => LoopsTo(fs, n + 1) = {}
         /\ IsLoop(fs[n + 1]) =>
               /\ LoopsTo(fs, n + 1) = LoopsTo(fs, n) \cup {n + 1}
               /\ Cardinality(LoopsTo(fs, n + 1)) = Cardinality(LoopsTo(fs, n)) + 1
         /\ ~IsLoop(fs[n + 1]) /\ fs[n + 1].kind # "function" => LoopsTo(fs, n + 1) = LoopsTo(fs, n)
  <1>1. n + 1 \notin LoopsTo(fs, n) /\ IsFiniteSet(LoopsTo(fs, n)) /\ Cardinality(LoopsTo(fs, n)) \in Nat
    BY LoopsFinite
  <1>2. fs[n + 1].kind = "function" => LoopsTo(fs, n + 1) = {}
    BY DEF LoopsTo, IsLoop
  <1>3. fs[n + 1].kind # "function" =>
          \A i \in 1..n : i \in LoopsTo(fs, n) <=> i \in LoopsTo(fs, n + 1)
    <2> SUFFICES ASSUME fs[n + 1].kind # "function", NEW i \in 1..n
                 PROVE  i \in LoopsTo(fs, n) <=> i \in LoopsTo(fs, n + 1)
      OBVIOUS
    <2>1. \A j : j \in i..(n + 1) <=> j \in i..n \/ j = n + 1
      OBVIOUS
    <2> QED
      BY <2>1 DEF LoopsTo
  <1>4. /\ LoopsTo(fs, n + 1) \subseteq 1..(n + 1)
        /\ \A i \in 1..(n + 1) : i \in 1..n \/ i = n + 1
        /\ LoopsTo(fs, n) \subseteq 1..n
    BY DEF LoopsTo
  <1>5. fs[n + 1].kind # "function" => (n + 1 \in LoopsTo(fs, n + 1) <=> IsLoop(fs[n + 1]))
    BY DEF LoopsTo
  <1>6. IsLoop(fs[n + 1]) => LoopsTo(fs, n + 1) = LoopsTo(fs, n) \cup {n + 1}
    <2>1. IsLoop(fs[n + 1]) => fs[n + 1].kind # "function"
      BY DEF IsLoop
    <2> QED
      BY <1>3, <1>4, <1>5, <2>1
  <1>7. IsLoop(fs[n + 1]) => Cardinality(LoopsTo(fs, n + 1)) = Cardinality(LoopsTo(fs, n)) + 1
    BY <1>1, <1>6, FS_AddElement
  <1>8. ~IsLoop(fs[n + 1]) /\ fs[n + 1].kind # "function" => LoopsTo(fs, n + 1) = LoopsTo(fs, n)
    BY <1>3, <1>4, <1>5
  <1> QED
    BY <1>2, <1>6, <1>7, <1>8

LEMMA SameLoops ==
  ASSUME NEW fs, NEW gs, NEW n \in Nat, \A j \in 1..n : gs[j].kind = fs[j].kind
  PROVE  \A k \in 0..n : LoopsTo(gs, k) = LoopsTo(fs, k)
  BY DEF LoopsTo, IsLoop

(* A construct begins. *)
LEMMA PushLoops ==
  ASSUME NEW fs \in Seq(FrameType), NEW f \in FrameType, NEW nest, Nested(fs, nest),
         f.kind = "function" => f.saveloopnest = nest
  PROVE  Nested(Append(fs, f), IF f.kind = "function" THEN 0
                               ELSE IF IsLoop(f) THEN nest + 1 ELSE nest)
  <1> DEFINE gs == Append(fs, f)
             n == Len(fs)
  <1>1. /\ n \in Nat /\ DOMAIN fs = 1..n /\ DOMAIN gs = 1..(n + 1) /\ Len(gs) = n + 1
        /\ \A i \in 1..n : gs[i] = fs[i]
        /\ gs[n + 1] = f
    BY Appended
  <1>2. /\ nest = Cardinality(LoopsTo(fs, n))
        /\ \A i \in 1..n : fs[i].kind = "function" =>
              fs[i].saveloopnest = Cardinality(LoopsTo(fs, i - 1))
    BY <1>1 DEF Nested
  <1> HIDE DEF gs, n
  <1>3. \A k \in 0..n : LoopsTo(gs, k) = LoopsTo(fs, k)
    <2>1. \A j \in 1..n : gs[j].kind = fs[j].kind
      BY <1>1
    <2> QED
      BY <1>1, <2>1, SameLoops
  <1>4. n \in 0..n /\ \A i \in 1..n : i - 1 \in 0..n
    BY <1>1
  <1>5. \A i \in 1..(n + 1) : gs[i].kind = "function" =>
              gs[i].saveloopnest = Cardinality(LoopsTo(gs, i - 1))
    <2> SUFFICES ASSUME NEW i \in 1..(n + 1), gs[i].kind = "function"
                 PROVE  gs[i].saveloopnest = Cardinality(LoopsTo(gs, i - 1))
      OBVIOUS
    <2>1. CASE i \in 1..n
      BY <1>1, <1>2, <1>3, <1>4, <2>1
    <2>2. CASE i = n + 1
      <3>1. i - 1 = n
        BY <1>1, <2>2
      <3> QED
        BY <1>1, <1>2, <1>3, <1>4, <2>2, <3>1
    <2> QED
      BY <1>1, <2>1, <2>2
  <1>6. Cardinality(LoopsTo(gs, n + 1)) =
          IF f.kind = "function" THEN 0 ELSE IF IsLoop(f) THEN nest + 1 ELSE nest
    <2>1. LoopsTo(gs, n) = LoopsTo(fs, n)
      BY <1>3, <1>4
    <2>2. /\ gs[n + 1].kind = "function" => LoopsTo(gs, n + 1) = {}
          /\ IsLoop(gs[n + 1]) =>
                Cardinality(LoopsTo(gs, n + 1)) = Cardinality(LoopsTo(gs, n)) + 1
          /\ ~IsLoop(gs[n + 1]) /\ gs[n + 1].kind # "function" => LoopsTo(gs, n + 1) = LoopsTo(gs, n)
      BY <1>1, LoopsStep
    <2>3. gs[n + 1] = f
      BY <1>1
    <2> QED
      BY <1>2, <2>1, <2>2, <2>3, FS_EmptySet
  <1> QED
    BY <1>1, <1>5, <1>6 DEF Nested, gs

(* The frames from the ith on end. *)
LEMMA CutLoops ==
  ASSUME NEW fs \in Seq(FrameType), NEW i \in 1..Len(fs), NEW nest, Nested(fs, nest)
  PROVE  Nested(SubSeq(fs, 1, i - 1), Cardinality(LoopsTo(fs, i - 1)))
  <1> DEFINE gs == SubSeq(fs, 1, i - 1)
             k == i - 1
  <1>1. /\ k \in Nat /\ k < Len(fs) /\ Len(fs) \in Nat /\ DOMAIN fs = 1..Len(fs)
        /\ DOMAIN gs = 1..k /\ Len(gs) = k /\ \A j \in 1..k : gs[j] = fs[j]
    BY Cut
  <1> HIDE DEF gs, k
  <1>2. \A m \in 0..k : LoopsTo(gs, m) = LoopsTo(fs, m)
    <2>1. \A j \in 1..k : gs[j].kind = fs[j].kind
      BY <1>1
    <2> QED
      BY <1>1, <2>1, SameLoops
  <1>3. k \in 0..k /\ \A j \in 1..k : j - 1 \in 0..k /\ j \in 1..Len(fs)
    BY <1>1
  <1>4. \A j \in 1..k : gs[j].kind = "function" =>
          gs[j].saveloopnest = Cardinality(LoopsTo(gs, j - 1))
    BY <1>1, <1>2, <1>3 DEF Nested
  <1>5. Cardinality(LoopsTo(gs, Len(gs))) = Cardinality(LoopsTo(fs, k))
    BY <1>1, <1>2, <1>3
  <1>6. Nested(gs, Cardinality(LoopsTo(fs, k)))
    BY <1>1, <1>4, <1>5 DEF Nested
  <1> QED
    BY <1>6 DEF gs, k

LEMMA SameNests ==
  ASSUME NEW fs \in Seq(FrameType), NEW gs \in Seq(FrameType), Len(gs) = Len(fs),
         NEW nest, Nested(fs, nest),
         \A i \in 1..Len(fs) : /\ gs[i].saveloopnest = fs[i].saveloopnest
                               /\ gs[i].kind = "function" <=> fs[i].kind = "function"
                               /\ IsLoop(gs[i]) <=> IsLoop(fs[i])
  PROVE  Nested(gs, nest)
  <1>1. Len(fs) \in Nat /\ DOMAIN gs = 1..Len(fs) /\ DOMAIN fs = 1..Len(fs)
    OBVIOUS
  <1>2. \A k \in 0..Len(fs) : LoopsTo(gs, k) = LoopsTo(fs, k)
    BY <1>1 DEF LoopsTo
  <1>3. Len(fs) \in 0..Len(fs) /\ \A i \in 1..Len(fs) : i - 1 \in 0..Len(fs)
    BY <1>1
  <1> QED
    BY <1>1, <1>2, <1>3 DEF Nested

(* Frames that are no loops, other than in functions that end as well, do  *)
(* not change what loops there are outside.                                *)
LEMMA LoopsBetween ==
  ASSUME NEW fs, NEW m \in Nat, NEW n \in Nat, m <= n,
         \A j \in (m + 1)..n : ~IsLoop(fs[j]) /\ fs[j].kind # "function"
  PROVE  LoopsTo(fs, n) = LoopsTo(fs, m)
  <1> DEFINE S == {d \in Nat : m + d <= n => LoopsTo(fs, m + d) = LoopsTo(fs, m)}
  <1>1. 0 \in S
    OBVIOUS
  <1>2. \A d \in Nat : d \in S => d + 1 \in S
    <2> SUFFICES ASSUME NEW d \in Nat, d \in S, m + (d + 1) <= n
                 PROVE  LoopsTo(fs, m + (d + 1)) = LoopsTo(fs, m)
      OBVIOUS
    <2>1. /\ LoopsTo(fs, m + d) = LoopsTo(fs, m) /\ m + d \in Nat
          /\ m + (d + 1) = (m + d) + 1 /\ (m + d) + 1 \in (m + 1)..n
      OBVIOUS
    <2>2. ~IsLoop(fs[(m + d) + 1]) /\ fs[(m + d) + 1].kind # "function"
      BY <2>1
    <2>3. LoopsTo(fs, (m + d) + 1) = LoopsTo(fs, m + d)
      BY <2>1, <2>2, LoopsStep
    <2> QED
      BY <2>1, <2>3
  <1>3. Nat \subseteq S
    <2> HIDE DEF S
    <2> QED
      BY <1>1, <1>2, NatSetInduction
  <1>4. n - m \in S /\ m + (n - m) = n
    <2> HIDE DEF S
    <2> QED
      BY <1>3
  <1> QED
    BY <1>4

(* What loopnest is after an error that frame i catches.                   *)
LEMMA NestAfterError ==
  ASSUME frames \in Seq(FrameType), Nested(frames, loopnest), NEW i \in 1..Len(frames),
         ~IsLoop(frames[i]), ~LeavesLoop(frames, i), frames[i].kind # "function"
  PROVE  NestAfter(frames, i) = Cardinality(LoopsTo(frames, i - 1))
  <1> DEFINE funs == {j \in i..Len(frames) : frames[j].kind = "function"}
  <1>1. /\ Len(frames) \in Nat /\ DOMAIN frames = 1..Len(frames) /\ i \in Nat /\ i - 1 \in Nat
        /\ (i - 1) + 1 = i /\ i <= Len(frames) /\ i >= 1
    OBVIOUS
  <1>2. loopnest = Cardinality(LoopsTo(frames, Len(frames)))
    BY DEF Nested
  <1>3. CASE funs = {}
    <2>1. NestAfter(frames, i) = loopnest
      BY <1>3 DEF NestAfter
    <2>2. \A j \in i..Len(frames) : ~IsLoop(frames[j]) /\ frames[j].kind # "function"
      <3> SUFFICES ASSUME NEW j \in i..Len(frames) PROVE ~IsLoop(frames[j]) /\ frames[j].kind # "function"
        OBVIOUS
      <3>1. \A k \in i..j : frames[k].kind # "function"
        BY <1>1, <1>3
      <3> QED
        BY <1>1, <3>1 DEF LeavesLoop
    <2>3. LoopsTo(frames, Len(frames)) = LoopsTo(frames, i - 1)
      <3>1. \A j \in ((i - 1) + 1)..Len(frames) : ~IsLoop(frames[j]) /\ frames[j].kind # "function"
        BY <1>1, <2>2
      <3>2. i - 1 <= Len(frames)
        BY <1>1
      <3> QED
        BY <1>1, <3>1, <3>2, LoopsBetween
    <2> QED
      BY <1>2, <2>1, <2>3
  <1>4. CASE funs # {}
    <2>1. NestAfter(frames, i) = frames[Min(funs)].saveloopnest
      BY <1>4 DEF NestAfter
    <2>2. Min(funs) \in funs /\ \A y \in funs : Min(funs) <= y
      <3>1. funs \subseteq Int /\ \A x \in funs : i <= x
        BY <1>1
      <3>2. i \in Int
        BY <1>1
      <3> HIDE DEF funs
      <3> QED
        BY <1>4, <3>1, <3>2, MinOf
    <2>3. PICK m \in funs : m = Min(funs)
      BY <2>2
    <2>4. /\ m \in i..Len(frames) /\ frames[m].kind = "function" /\ m \in Nat /\ m - 1 \in Nat
          /\ m \in DOMAIN frames /\ i - 1 <= m - 1 /\ (i - 1) + 1 = i
      BY <1>1
    <2>5. \A j \in i..(m - 1) : frames[j].kind # "function"
      <3> SUFFICES ASSUME NEW j \in i..(m - 1), frames[j].kind = "function" PROVE FALSE
        OBVIOUS
      <3>1. j \in funs /\ j < m
        BY <1>1, <2>4
      <3> HIDE DEF funs
      <3> QED
        BY <2>2, <2>3, <2>4, <3>1
    <2>6. \A j \in i..(m - 1) : ~IsLoop(frames[j])
      <3> SUFFICES ASSUME NEW j \in i..(m - 1) PROVE ~IsLoop(frames[j])
        OBVIOUS
      <3>1. j \in i..Len(frames) /\ \A k \in i..j : frames[k].kind # "function"
        BY <1>1, <2>4, <2>5
      <3> QED
        BY <3>1 DEF LeavesLoop
    <2>7. LoopsTo(frames, m - 1) = LoopsTo(frames, i - 1)
      <3>1. \A j \in ((i - 1) + 1)..(m - 1) : ~IsLoop(frames[j]) /\ frames[j].kind # "function"
        BY <2>4, <2>5, <2>6
      <3> HIDE DEF funs
      <3> QED
        BY <1>1, <2>4, <3>1, LoopsBetween
    <2>8. frames[m].saveloopnest = Cardinality(LoopsTo(frames, m - 1))
      BY <2>4 DEF Nested
    <2> QED
      BY <2>1, <2>3, <2>7, <2>8
  <1> QED
    BY <1>3, <1>4

-----------------------------------------------------------------------------
(* Redirections: what happens to redirlist.  First, that the recursive     *)
(* functions of the model have values.                                     *)

LEMMA RedirectSteps ==
  ASSUME NEW r, NEW rs, Len(rs) \in Nat
  PROVE  \E h : /\ h[0] = r /\ redirect(r, rs) = h[Len(rs)]
                /\ \A k \in 1..Len(rs) : h[k] = IF ~h[k - 1].ok THEN h[k - 1]
                                                ELSE Redirect1(h[k - 1], rs[k])
  <1> DEFINE step(x, k) == IF ~x.ok THEN x ELSE Redirect1(x, rs[k])
             P(n, g) == g = [k \in 0..n |-> IF k = 0 THEN r ELSE step(g[k - 1], k)]
             S == {n \in Nat : \E g : P(n, g)}
  <1>1. 0 \in S
    <2>1. P(0, [k \in 0..0 |-> r])
      OBVIOUS
    <2> QED
      BY <2>1
  <1>2. \A n \in Nat : n \in S => n + 1 \in S
    <2> SUFFICES ASSUME NEW n \in Nat, n \in S PROVE n + 1 \in S
      OBVIOUS
    <2>0. PICK g : P(n, g)
      <3> HIDE DEF P
      <3> QED
        OBVIOUS
    <2> HIDE DEF step
    <2> DEFINE f == [k \in 0..(n + 1) |-> IF k = n + 1 THEN step(g[n], n + 1) ELSE g[k]]
    <2>1. \A k \in 0..n : g[k] = IF k = 0 THEN r ELSE step(g[k - 1], k)
      <3> DEFINE b(k) == IF k = 0 THEN r ELSE step(g[k - 1], k)
      <3>1. g = [k \in 0..n |-> b(k)]
        BY <2>0
      <3> HIDE DEF b, P
      <3>2. \A k \in 0..n : g[k] = b(k)
        BY <3>1
      <3> QED
        BY <3>2 DEF b
    <2>2. \A k \in 0..(n + 1) : f[k] = IF k = 0 THEN r ELSE step(f[k - 1], k)
      <3> SUFFICES ASSUME NEW k \in 0..(n + 1) PROVE f[k] = IF k = 0 THEN r ELSE step(f[k - 1], k)
        OBVIOUS
      <3>1. CASE k = n + 1
        <4>1. f[k] = step(g[n], n + 1) /\ f[k - 1] = g[n] /\ k - 1 = n /\ k # 0
          BY <3>1
        <4> QED
          BY <3>1, <4>1
      <3>2. CASE k # n + 1
        <4>1. k \in 0..n /\ f[k] = g[k] /\ (k # 0 => k - 1 \in 0..n /\ f[k - 1] = g[k - 1])
          BY <3>2
        <4> QED
          BY <2>1, <4>1
      <3> QED
        BY <3>1, <3>2
    <2>3. P(n + 1, f)
      <3>1. f = [k \in 0..(n + 1) |-> f[k]]
        OBVIOUS
      <3>2. [k \in 0..(n + 1) |-> f[k]] = [k \in 0..(n + 1) |-> IF k = 0 THEN r ELSE step(f[k - 1], k)]
        <4> HIDE DEF f, P
        <4> QED
          BY <2>2
      <3> QED
        BY <3>1, <3>2
    <2> HIDE DEF P
    <2> QED
      BY <2>3
  <1>3. PICK g : P(Len(rs), g)
    <2> HIDE DEF P
    <2>1. Nat \subseteq S
      <3> HIDE DEF S
      <3> QED
        BY <1>1, <1>2, NatSetInduction
    <2> QED
      BY <2>1
  <1> DEFINE h == CHOOSE f : P(Len(rs), f)
  <1>4. P(Len(rs), h)
    <2> HIDE DEF P
    <2> QED
      BY <1>3
  <1>5. redirect(r, rs) = h[Len(rs)]
    BY DEF redirect
  <1> HIDE DEF h
  <1>6. \A k \in 0..Len(rs) : h[k] = IF k = 0 THEN r ELSE step(h[k - 1], k)
    <2> DEFINE b(k) == IF k = 0 THEN r ELSE step(h[k - 1], k)
    <2>1. h = [k \in 0..Len(rs) |-> b(k)]
      BY <1>4
    <2> HIDE DEF b, P
    <2>2. \A k \in 0..Len(rs) : h[k] = b(k)
      BY <2>1
    <2> QED
      BY <2>2 DEF b
  <1>7. h[0] = r /\ \A k \in 1..Len(rs) : h[k] = step(h[k - 1], k)
    <2> HIDE DEF step, P
    <2>1. 0 \in 0..Len(rs) /\ \A k \in 1..Len(rs) : k \in 0..Len(rs) /\ k # 0
      OBVIOUS
    <2> QED
      BY <1>6, <2>1
  <1> QED
    BY <1>5, <1>7

LEMMA UnwindRedirSteps ==
  ASSUME NEW r, NEW stop \in Nat, Len(r.list) \in Nat, stop <= Len(r.list)
  PROVE  \E h : /\ h[Len(r.list)] = r /\ unwindredir(r, stop) = h[stop]
                /\ \A k \in stop..(Len(r.list) - 1) : h[k] = popredir(h[k + 1], FALSE)
  <1> DEFINE len == Len(r.list)
             step(x) == popredir(x, FALSE)
             P(n, g) == g = [k \in n..len |-> IF k = len THEN r ELSE step(g[k + 1])]
             S == {n \in Nat : n <= len => \E g : P(len - n, g)}
  <1>0. len \in Nat /\ stop <= len
    OBVIOUS
  <1> HIDE DEF len
  <1>1. 0 \in S
    <2>1. P(len, [k \in len..len |-> r])
      BY <1>0
    <2>2. len - 0 = len
      BY <1>0
    <2> HIDE DEF P
    <2> QED
      BY <2>1, <2>2
  <1>2. \A n \in Nat : n \in S => n + 1 \in S
    <2> SUFFICES ASSUME NEW n \in Nat, n \in S, n + 1 <= len PROVE \E f : P(len - (n + 1), f)
      <3> HIDE DEF P
      <3> QED
        OBVIOUS
    <2> DEFINE m == len - (n + 1)
    <2>1. m \in Nat /\ m + 1 = len - n /\ m < len /\ n <= len
      BY <1>0
    <2>2. PICK g : P(m + 1, g)
      <3> HIDE DEF P, m
      <3> QED
        BY <2>1
    <2> HIDE DEF step, m
    <2> DEFINE f == [k \in m..len |-> IF k = m THEN step(g[m + 1]) ELSE g[k]]
    <2>3. \A k \in (m + 1)..len : g[k] = IF k = len THEN r ELSE step(g[k + 1])
      <3> DEFINE b(k) == IF k = len THEN r ELSE step(g[k + 1])
      <3>1. g = [k \in (m + 1)..len |-> b(k)]
        BY <2>2
      <3> HIDE DEF b, P
      <3>2. \A k \in (m + 1)..len : g[k] = b(k)
        BY <3>1
      <3> QED
        BY <3>2 DEF b
    <2>4. \A k \in m..len : f[k] = IF k = len THEN r ELSE step(f[k + 1])
      <3> SUFFICES ASSUME NEW k \in m..len PROVE f[k] = IF k = len THEN r ELSE step(f[k + 1])
        OBVIOUS
      <3>1. CASE k = m
        <4>1. f[k] = step(g[m + 1]) /\ k + 1 = m + 1 /\ k # len
          BY <1>0, <2>1, <3>1
        <4>2. m + 1 \in m..len /\ m + 1 # m
          BY <1>0, <2>1
        <4>3. f[m + 1] = g[m + 1]
          BY <4>2
        <4> QED
          BY <3>1, <4>1, <4>3
      <3>2. CASE k # m
        <4>1. k \in (m + 1)..len /\ f[k] = g[k]
          BY <1>0, <2>1, <3>2
        <4>2. k # len => k + 1 \in m..len /\ k + 1 # m
          BY <1>0, <2>1, <4>1
        <4>3. k # len => f[k + 1] = g[k + 1]
          BY <4>2
        <4> QED
          BY <2>3, <4>1, <4>3
      <3> QED
        BY <3>1, <3>2
    <2>5. P(m, f)
      <3>1. f = [k \in m..len |-> f[k]]
        OBVIOUS
      <3>2. [k \in m..len |-> f[k]] = [k \in m..len |-> IF k = len THEN r ELSE step(f[k + 1])]
        <4> HIDE DEF f, P
        <4> QED
          BY <2>4
      <3> QED
        BY <3>1, <3>2
    <2> HIDE DEF P
    <2> QED
      BY <2>5 DEF m
  <1>3. PICK g : P(stop, g)
    <2> HIDE DEF P
    <2>1. Nat \subseteq S
      <3> HIDE DEF S
      <3> QED
        BY <1>1, <1>2, NatSetInduction
    <2>2. len - stop \in Nat /\ len - stop <= len /\ len - (len - stop) = stop
      BY <1>0
    <2>3. len - stop \in S
      <3> HIDE DEF S
      <3> QED
        BY <2>1, <2>2
    <2> QED
      BY <2>2, <2>3
  <1> DEFINE h == CHOOSE f : P(stop, f)
  <1>4. P(stop, h)
    <2> HIDE DEF P
    <2> QED
      BY <1>3
  <1>5. unwindredir(r, stop) = h[stop]
    BY DEF unwindredir, len
  <1> HIDE DEF h
  <1>6. \A k \in stop..len : h[k] = IF k = len THEN r ELSE step(h[k + 1])
    <2> DEFINE b(k) == IF k = len THEN r ELSE step(h[k + 1])
    <2>1. h = [k \in stop..len |-> b(k)]
      BY <1>4
    <2> HIDE DEF b, P
    <2>2. \A k \in stop..len : h[k] = b(k)
      BY <2>1
    <2> QED
      BY <2>2 DEF b
  <1>7. h[len] = r /\ \A k \in stop..(len - 1) : h[k] = step(h[k + 1])
    <2> HIDE DEF step, P
    <2>1. len \in stop..len /\ \A k \in stop..(len - 1) : k \in stop..len /\ k # len
      BY <1>0
    <2> QED
      BY <1>6, <2>1
  <1> QED
    BY <1>5, <1>7 DEF len

PopSteps(v, items, h) ==
    /\ h[0] = v
    /\ poplocalvars(v) = [h[Len(items)] EXCEPT !.stack = SubSeq(@, 1, Len(@) - 1)]
    /\ \A k \in 1..Len(items) : h[k] = Restore(h[k - 1], items[k])
LEMMA PopLocalSteps ==
  ASSUME NEW v, NEW items, items = v.stack[Len(v.stack)], Len(items) \in Nat
  PROVE  \E h : PopSteps(v, items, h)
  <1> DEFINE step(x, k) == Restore(x, items[k])
             P(n, g) == g = [k \in 0..n |-> IF k = 0 THEN v ELSE step(g[k - 1], k)]
             S == {n \in Nat : \E g : P(n, g)}
  <1>1. 0 \in S
    <2>1. P(0, [k \in 0..0 |-> v])
      OBVIOUS
    <2> QED
      BY <2>1
  <1>2. \A n \in Nat : n \in S => n + 1 \in S
    <2> SUFFICES ASSUME NEW n \in Nat, n \in S PROVE n + 1 \in S
      OBVIOUS
    <2>0. PICK g : P(n, g)
      <3> HIDE DEF P
      <3> QED
        OBVIOUS
    <2> HIDE DEF step
    <2> DEFINE f == [k \in 0..(n + 1) |-> IF k = n + 1 THEN step(g[n], n + 1) ELSE g[k]]
    <2>1. \A k \in 0..n : g[k] = IF k = 0 THEN v ELSE step(g[k - 1], k)
      <3> DEFINE b(k) == IF k = 0 THEN v ELSE step(g[k - 1], k)
      <3>1. g = [k \in 0..n |-> b(k)]
        BY <2>0
      <3> HIDE DEF b, P
      <3>2. \A k \in 0..n : g[k] = b(k)
        BY <3>1
      <3> QED
        BY <3>2 DEF b
    <2>2. \A k \in 0..(n + 1) : f[k] = IF k = 0 THEN v ELSE step(f[k - 1], k)
      <3> SUFFICES ASSUME NEW k \in 0..(n + 1) PROVE f[k] = IF k = 0 THEN v ELSE step(f[k - 1], k)
        OBVIOUS
      <3>1. CASE k = n + 1
        <4>1. f[k] = step(g[n], n + 1) /\ f[k - 1] = g[n] /\ k - 1 = n /\ k # 0
          BY <3>1
        <4> QED
          BY <3>1, <4>1
      <3>2. CASE k # n + 1
        <4>1. k \in 0..n /\ f[k] = g[k] /\ (k # 0 => k - 1 \in 0..n /\ f[k - 1] = g[k - 1])
          BY <3>2
        <4> QED
          BY <2>1, <4>1
      <3> QED
        BY <3>1, <3>2
    <2>3. P(n + 1, f)
      <3>1. f = [k \in 0..(n + 1) |-> f[k]]
        OBVIOUS
      <3>2. [k \in 0..(n + 1) |-> f[k]] = [k \in 0..(n + 1) |-> IF k = 0 THEN v ELSE step(f[k - 1], k)]
        <4> HIDE DEF f, P
        <4> QED
          BY <2>2
      <3> QED
        BY <3>1, <3>2
    <2> HIDE DEF P
    <2> QED
      BY <2>3
  <1>3. PICK g : P(Len(items), g)
    <2> HIDE DEF P
    <2>1. Nat \subseteq S
      <3> HIDE DEF S
      <3> QED
        BY <1>1, <1>2, NatSetInduction
    <2> QED
      BY <2>1
  <1> DEFINE h == CHOOSE f : P(Len(items), f)
  <1>4. P(Len(items), h)
    <2> HIDE DEF P
    <2> QED
      BY <1>3
  <1>5. poplocalvars(v) = [h[Len(items)] EXCEPT !.stack = SubSeq(@, 1, Len(@) - 1)]
    BY DEF poplocalvars
  <1> HIDE DEF h
  <1>6. \A k \in 0..Len(items) : h[k] = IF k = 0 THEN v ELSE step(h[k - 1], k)
    <2> DEFINE b(k) == IF k = 0 THEN v ELSE step(h[k - 1], k)
    <2>1. h = [k \in 0..Len(items) |-> b(k)]
      BY <1>4
    <2> HIDE DEF b, P
    <2>2. \A k \in 0..Len(items) : h[k] = b(k)
      BY <2>1
    <2> QED
      BY <2>2 DEF b
  <1>7. h[0] = v /\ \A k \in 1..Len(items) : h[k] = step(h[k - 1], k)
    <2> HIDE DEF step, P
    <2>1. 0 \in 0..Len(items) /\ \A k \in 1..Len(items) : k \in 0..Len(items) /\ k # 0
      OBVIOUS
    <2> QED
      BY <1>6, <2>1
  <1> QED
    BY <1>5, <1>7 DEF PopSteps

LEMMA UnwindLocalSteps ==
  ASSUME NEW v, NEW stop \in Nat, Len(v.stack) \in Nat, stop <= Len(v.stack)
  PROVE  \E h : /\ h[Len(v.stack)] = v /\ unwindlocalvars(v, stop) = h[stop]
                /\ \A k \in stop..(Len(v.stack) - 1) : h[k] = poplocalvars(h[k + 1])
  <1> DEFINE len == Len(v.stack)
             step(x) == poplocalvars(x)
             P(n, g) == g = [k \in n..len |-> IF k = len THEN v ELSE step(g[k + 1])]
             S == {n \in Nat : n <= len => \E g : P(len - n, g)}
  <1>0. len \in Nat /\ stop <= len
    OBVIOUS
  <1> HIDE DEF len
  <1>1. 0 \in S
    <2>1. P(len, [k \in len..len |-> v])
      BY <1>0
    <2>2. len - 0 = len
      BY <1>0
    <2> HIDE DEF P
    <2> QED
      BY <2>1, <2>2
  <1>2. \A n \in Nat : n \in S => n + 1 \in S
    <2> SUFFICES ASSUME NEW n \in Nat, n \in S, n + 1 <= len PROVE \E f : P(len - (n + 1), f)
      <3> HIDE DEF P
      <3> QED
        OBVIOUS
    <2> DEFINE m == len - (n + 1)
    <2>1. m \in Nat /\ m + 1 = len - n /\ m < len /\ n <= len
      BY <1>0
    <2>2. PICK g : P(m + 1, g)
      <3> HIDE DEF P, m
      <3> QED
        BY <2>1
    <2> HIDE DEF step, m
    <2> DEFINE f == [k \in m..len |-> IF k = m THEN step(g[m + 1]) ELSE g[k]]
    <2>3. \A k \in (m + 1)..len : g[k] = IF k = len THEN v ELSE step(g[k + 1])
      <3> DEFINE b(k) == IF k = len THEN v ELSE step(g[k + 1])
      <3>1. g = [k \in (m + 1)..len |-> b(k)]
        BY <2>2
      <3> HIDE DEF b, P
      <3>2. \A k \in (m + 1)..len : g[k] = b(k)
        BY <3>1
      <3> QED
        BY <3>2 DEF b
    <2>4. \A k \in m..len : f[k] = IF k = len THEN v ELSE step(f[k + 1])
      <3> SUFFICES ASSUME NEW k \in m..len PROVE f[k] = IF k = len THEN v ELSE step(f[k + 1])
        OBVIOUS
      <3>1. CASE k = m
        <4>1. f[k] = step(g[m + 1]) /\ k + 1 = m + 1 /\ k # len
          BY <1>0, <2>1, <3>1
        <4>2. m + 1 \in m..len /\ m + 1 # m
          BY <1>0, <2>1
        <4>3. f[m + 1] = g[m + 1]
          BY <4>2
        <4> QED
          BY <3>1, <4>1, <4>3
      <3>2. CASE k # m
        <4>1. k \in (m + 1)..len /\ f[k] = g[k]
          BY <1>0, <2>1, <3>2
        <4>2. k # len => k + 1 \in m..len /\ k + 1 # m
          BY <1>0, <2>1, <4>1
        <4>3. k # len => f[k + 1] = g[k + 1]
          BY <4>2
        <4> QED
          BY <2>3, <4>1, <4>3
      <3> QED
        BY <3>1, <3>2
    <2>5. P(m, f)
      <3>1. f = [k \in m..len |-> f[k]]
        OBVIOUS
      <3>2. [k \in m..len |-> f[k]] = [k \in m..len |-> IF k = len THEN v ELSE step(f[k + 1])]
        <4> HIDE DEF f, P
        <4> QED
          BY <2>4
      <3> QED
        BY <3>1, <3>2
    <2> HIDE DEF P
    <2> QED
      BY <2>5 DEF m
  <1>3. PICK g : P(stop, g)
    <2> HIDE DEF P
    <2>1. Nat \subseteq S
      <3> HIDE DEF S
      <3> QED
        BY <1>1, <1>2, NatSetInduction
    <2>2. len - stop \in Nat /\ len - stop <= len /\ len - (len - stop) = stop
      BY <1>0
    <2>3. len - stop \in S
      <3> HIDE DEF S
      <3> QED
        BY <2>1, <2>2
    <2> QED
      BY <2>2, <2>3
  <1> DEFINE h == CHOOSE f : P(stop, f)
  <1>4. P(stop, h)
    <2> HIDE DEF P
    <2> QED
      BY <1>3
  <1>5. unwindlocalvars(v, stop) = h[stop]
    BY DEF unwindlocalvars, len
  <1> HIDE DEF h
  <1>6. \A k \in stop..len : h[k] = IF k = len THEN v ELSE step(h[k + 1])
    <2> DEFINE b(k) == IF k = len THEN v ELSE step(h[k + 1])
    <2>1. h = [k \in stop..len |-> b(k)]
      BY <1>4
    <2> HIDE DEF b, P
    <2>2. \A k \in stop..len : h[k] = b(k)
      BY <2>1
    <2> QED
      BY <2>2 DEF b
  <1>7. h[len] = v /\ \A k \in stop..(len - 1) : h[k] = step(h[k + 1])
    <2> HIDE DEF step, P
    <2>1. len \in stop..len /\ \A k \in stop..(len - 1) : k \in stop..len /\ k # len
      BY <1>0
    <2> QED
      BY <1>6, <2>1
  <1> QED
    BY <1>5, <1>7 DEF len

LEMMA DescFacts ==
  /\ Fds \subseteq Desc /\ IsFiniteSet(Desc) /\ \A d \in Desc : d \in Nat /\ d >= 3
  /\ \A d \in Fds : d < 10
  /\ NoFile \notin Files
  BY RedirAssumption DEF RedirAssumption

LEMMA LowestPlace ==
  ASSUME NEW r, NEW k
  PROVE  Lowest(r, k) \in Place
  <1> DEFINE S == {d \in Desc : d >= k /\ ~IsOpen(r, d)}
  <1>1. CASE S = {}
    BY <1>1 DEF Lowest, Place
  <1>2. CASE S # {}
    <2>0. S \subseteq Desc
      OBVIOUS
    <2>1. S \subseteq Int /\ (\A x \in S : 3 <= x) /\ S \subseteq Desc
      <3> HIDE DEF S
      <3>1. \A d \in Desc : d \in Nat /\ d >= 3
        BY DescFacts
      <3> QED
        BY <2>0, <3>1
    <2>2. Min(S) \in S
      <3> HIDE DEF S
      <3>1. 3 \in Int
        OBVIOUS
      <3> QED
        BY <1>2, <2>1, <3>1, MinOf
    <2>3. Lowest(r, k) = Min(S)
      BY DEF Lowest
    <2> HIDE DEF S
    <2> QED
      BY <2>1, <2>2, <2>3 DEF Place
  <1> QED
    BY <1>1, <1>2

(* r changes in its descriptors only *)
SameList(r, s) == IsRd(s) /\ s.list = r.list

LEMMA RdOk ==
  ASSUME NEW r, IsRd(r), NEW b
  PROVE  SameList(r, [r EXCEPT !.ok = b])
  BY DEF IsRd, SameList

LEMMA RdOfile ==
  ASSUME NEW r, IsRd(r), NEW d, NEW f
  PROVE  SameList(r, [r EXCEPT !.ofile[d] = f])
  BY DEF IsRd, SameList

LEMMA RdFiles ==
  ASSUME NEW r, IsRd(r), NEW o
  PROVE  SameList(r, [r EXCEPT !.ofile = o])
  BY DEF IsRd, SameList

LEMMA RdMoved ==
  ASSUME NEW r, IsRd(r), NEW d, NEW f, NEW e, NEW g
  PROVE  SameList(r, [r EXCEPT !.ofile[d] = f, !.ofile[e] = g])
  <1> DEFINE s == [r EXCEPT !.ofile[d] = f]
  <1>1. SameList(r, s)
    BY RdOfile
  <1>2. [r EXCEPT !.ofile[d] = f, !.ofile[e] = g] = [s EXCEPT !.ofile[e] = g]
    OBVIOUS
  <1>3. SameList(s, [s EXCEPT !.ofile[e] = g])
    <2> HIDE DEF s
    <2> QED
      BY <1>1, RdOfile DEF SameList
  <1> HIDE DEF s
  <1> QED
    BY <1>1, <1>2, <1>3 DEF SameList

LEMMA RdClosed ==
  ASSUME NEW r, IsRd(r), NEW fd, NEW newfd
  PROVE  SameList(r, [r EXCEPT !.closed = NoteClosed(@, fd, newfd)])
  BY DEF IsRd, SameList

LEMMA RdPut ==
  ASSUME NEW r, IsRd(r), r.list # << >>, NEW fd, NEW p \in Place
  PROVE  /\ IsRd([r EXCEPT !.list[Len(r.list)][fd] = p])
         /\ Len([r EXCEPT !.list[Len(r.list)][fd] = p].list) = Len(r.list)
  <1> DEFINE l == r.list
             t == [l[Len(l)] EXCEPT ![fd] = p]
             m == [l EXCEPT ![Len(l)] = t]
  <1>1. l \in Seq(Table) /\ l # << >>
    BY DEF IsRd
  <1>2. Len(l) \in 1..Len(l) /\ l[Len(l)] \in Table
    <2> HIDE DEF l
    <2> QED
      BY <1>1
  <1>3. t \in Table
    BY <1>2 DEF Table
  <1>4. m \in Seq(Table) /\ Len(m) = Len(l)
    <2> HIDE DEF l, t
    <2> QED
      BY <1>1, <1>2, <1>3, Updated
  <1>5. [r EXCEPT !.list[Len(r.list)][fd] = p] = [r EXCEPT !.list = m]
    OBVIOUS
  <1> HIDE DEF m
  <1>6. IsRd([r EXCEPT !.list = m]) /\ [r EXCEPT !.list = m].list = m
    BY <1>4 DEF IsRd
  <1> QED
    BY <1>4, <1>5, <1>6

LEMMA PushRd ==
  ASSUME NEW r, IsRd(r), NEW rs
  PROVE  /\ IsRd(pushredir(r, rs))
         /\ pushredir(r, rs).list =
               IF rs = << >> THEN r.list ELSE Append(r.list, [d \in Fds |-> EMPTY])
         /\ Len(pushredir(r, rs).list) = Len(r.list) + (IF rs = << >> THEN 0 ELSE 1)
  <1> DEFINE e == [d \in Fds |-> EMPTY]
             m == Append(r.list, e)
  <1>1. CASE rs = << >>
    BY <1>1 DEF pushredir, IsRd
  <1>2. CASE rs # << >>
    <2>1. e \in Table
      BY DEF Table, Place
    <2>2. m \in Seq(Table) /\ Len(m) = Len(r.list) + 1
      <3> HIDE DEF e
      <3> QED
        BY <2>1 DEF IsRd
    <2>3. pushredir(r, rs) = [r EXCEPT !.list = m]
      BY <1>2 DEF pushredir
    <2> HIDE DEF m
    <2>4. IsRd([r EXCEPT !.list = m]) /\ [r EXCEPT !.list = m].list = m
      BY <2>2 DEF IsRd
    <2> QED
      BY <1>2, <2>2, <2>3, <2>4 DEF m
  <1> QED
    BY <1>1, <1>2

LEMMA DupRd ==
  ASSUME NEW r, IsRd(r), NEW n, n.type \in {"open", "close", "dup"}, NEW newfd
  PROVE  SameList(r, dupredirect(r, n, newfd))
  <1>1. CASE n.type = "open"
    BY <1>1, RdMoved DEF dupredirect
  <1>2. CASE n.type = "close"
    BY <1>2, RdOfile DEF dupredirect
  <1>3. CASE n.type = "dup"
    BY <1>3, RdOfile, RdOk DEF dupredirect
  <1> QED
    BY <1>1, <1>2, <1>3

(* One redirection. *)
LEMMA Redirect1Rd ==
  ASSUME NEW r, IsRd(r), r.list # << >>, NEW n, n.type \in {"open", "bad", "close", "dup"}
  PROVE  IsRd(Redirect1(r, n)) /\ Len(Redirect1(r, n).list) = Len(r.list)
  <1> DEFINE newfd == Newfd(r, n)
             top == Len(r.list)
             o == [Opened(r, n) EXCEPT !.closed = NoteClosed(@, n.fd, newfd)]
             save == Saves(r, n, newfd) /\ IsOpen(o, n.fd)
             s == IF save THEN [savefd(o, n.fd) EXCEPT !.list[top][n.fd] = Lowest(o, 10)]
                  ELSE IF r.list[top][n.fd] = EMPTY THEN [o EXCEPT !.list[top][n.fd] = CLOSED]
                  ELSE o
  <1>1. Redirect1(r, n) = IF n.type = "bad" THEN [r EXCEPT !.ok = FALSE]
                          ELSE IF newfd = -2 THEN r
                          ELSE IF n.fd = newfd THEN s
                          ELSE dupredirect(s, n, newfd)
    BY DEF Redirect1
  <1>2. SameList(r, Opened(r, n))
    <2>1. SameList(r, r)
      BY DEF SameList
    <2> QED
      BY <2>1, RdOfile DEF Opened
  <1>3. SameList(r, o)
    BY <1>2, RdClosed DEF SameList
  <1> HIDE DEF o, newfd
  <1>4. SameList(r, savefd(o, n.fd))
    <2>0. IsRd(o)
      BY <1>3 DEF SameList
    <2>1. SameList(o, [o EXCEPT !.ofile[Lowest(o, 10)] = o.ofile[n.fd], !.ofile[n.fd] = NoFile])
      BY <2>0, RdMoved
    <2>2. SameList(o, savefd(o, n.fd))
      BY <2>1 DEF savefd
    <2> QED
      BY <1>3, <2>2 DEF SameList
  <1>5. Lowest(o, 10) \in Place /\ CLOSED \in Place
    BY LowestPlace DEF Place
  <1>6. /\ IsRd([savefd(o, n.fd) EXCEPT !.list[top][n.fd] = Lowest(o, 10)])
        /\ Len([savefd(o, n.fd) EXCEPT !.list[top][n.fd] = Lowest(o, 10)].list) = top
    <2>1. /\ IsRd(savefd(o, n.fd)) /\ savefd(o, n.fd).list # << >> /\ Len(savefd(o, n.fd).list) = top
      BY <1>4 DEF SameList
    <2> DEFINE w == savefd(o, n.fd)
    <2> HIDE DEF w
    <2>2. /\ IsRd([w EXCEPT !.list[Len(w.list)][n.fd] = Lowest(o, 10)])
          /\ Len([w EXCEPT !.list[Len(w.list)][n.fd] = Lowest(o, 10)].list) = Len(w.list)
      BY <1>5, <2>1, RdPut DEF w
    <2> QED
      BY <2>1, <2>2 DEF w
  <1>7. /\ IsRd([o EXCEPT !.list[top][n.fd] = CLOSED])
        /\ Len([o EXCEPT !.list[top][n.fd] = CLOSED].list) = top
    <2>1. /\ IsRd(o) /\ o.list # << >> /\ Len(o.list) = top
      BY <1>3 DEF SameList
    <2>2. /\ IsRd([o EXCEPT !.list[Len(o.list)][n.fd] = CLOSED])
          /\ Len([o EXCEPT !.list[Len(o.list)][n.fd] = CLOSED].list) = Len(o.list)
      BY <1>5, <2>1, RdPut
    <2> QED
      BY <2>1, <2>2
  <1>8. IsRd(s) /\ Len(s.list) = top
    BY <1>3, <1>6, <1>7 DEF SameList
  <1> HIDE DEF s
  <1>9. CASE n.type = "bad"
    BY <1>1, <1>9, RdOk DEF SameList
  <1>10. CASE n.type # "bad"
    BY <1>1, <1>8, <1>10, DupRd DEF SameList
  <1> QED
    BY <1>9, <1>10

(* The redirections of a command. *)
LEMMA RedirectRd ==
  ASSUME NEW r, IsRd(r), NEW rs \in Seq(Redirection), rs # << >> => r.list # << >>
  PROVE  IsRd(redirect(r, rs)) /\ Len(redirect(r, rs).list) = Len(r.list)
  <1>1. Len(rs) \in Nat /\ \A k \in 1..Len(rs) : rs[k].type \in {"open", "bad", "close", "dup"}
    <2>1. Len(rs) \in Nat /\ \A k \in 1..Len(rs) : rs[k] \in Redirection
      OBVIOUS
    <2>2. \A n \in Redirection : n.type \in {"open", "bad", "close", "dup"}
      BY DEF Redirection
    <2> QED
      BY <2>1, <2>2
  <1>2. PICK h : /\ h[0] = r /\ redirect(r, rs) = h[Len(rs)]
                 /\ \A k \in 1..Len(rs) : h[k] = IF ~h[k - 1].ok THEN h[k - 1]
                                                 ELSE Redirect1(h[k - 1], rs[k])
    BY <1>1, RedirectSteps
  <1>3. CASE rs = << >>
    <2>1. Len(rs) = 0
      BY <1>3
    <2> QED
      BY <1>2, <2>1
  <1>4. CASE rs # << >>
    <2> DEFINE S == {k \in Nat : k <= Len(rs) => IsRd(h[k]) /\ Len(h[k].list) = Len(r.list)}
    <2>1. 0 \in S
      BY <1>2
    <2>2. \A k \in Nat : k \in S => k + 1 \in S
      <3> SUFFICES ASSUME NEW k \in Nat, k \in S, k + 1 <= Len(rs)
                   PROVE  IsRd(h[k + 1]) /\ Len(h[k + 1].list) = Len(r.list)
        OBVIOUS
      <3>1. IsRd(h[k]) /\ Len(h[k].list) = Len(r.list)
        BY <1>1
      <3>2. k + 1 \in 1..Len(rs) /\ (k + 1) - 1 = k
        BY <1>1
      <3>3. h[k + 1] = IF ~h[k].ok THEN h[k] ELSE Redirect1(h[k], rs[k + 1])
        BY <1>2, <3>2
      <3>4. h[k].list # << >>
        <4>1. Len(r.list) # 0
          BY <1>4 DEF IsRd
        <4> QED
          BY <3>1, <4>1
      <3>5. rs[k + 1].type \in {"open", "bad", "close", "dup"}
        BY <1>1, <3>2
      <3>6. IsRd(Redirect1(h[k], rs[k + 1])) /\ Len(Redirect1(h[k], rs[k + 1]).list) = Len(h[k].list)
        BY <3>1, <3>4, <3>5, Redirect1Rd
      <3> QED
        BY <3>1, <3>3, <3>6
    <2>3. Len(rs) \in S
      <3> HIDE DEF S
      <3> QED
        BY <1>1, <2>1, <2>2, NatSetInduction
    <2> QED
      BY <1>1, <1>2, <2>3
  <1> QED
    BY <1>3, <1>4

LEMMA PopRd ==
  ASSUME NEW r, IsRd(r), r.list # << >>, NEW drop
  PROVE  /\ IsRd(popredir(r, drop))
         /\ popredir(r, drop).list = SubSeq(r.list, 1, Len(r.list) - 1)
         /\ Len(popredir(r, drop).list) = Len(r.list) - 1
         /\ popredir(r, drop).ok
  <1> DEFINE l == SubSeq(r.list, 1, Len(r.list) - 1)
  <1>1. l \in Seq(Table) /\ Len(l) = Len(r.list) - 1
    <2>1. r.list \in Seq(Table) /\ Len(r.list) - 1 \in 0..Len(r.list)
      BY DEF IsRd
    <2> QED
      BY <2>1, Cut
  <1>2. \E o, c : popredir(r, drop) = [r EXCEPT !.list = l, !.ofile = o, !.closed = c, !.ok = TRUE]
    BY DEF popredir
  <1> HIDE DEF l
  <1>3. PICK o, c : popredir(r, drop) = [r EXCEPT !.list = l, !.ofile = o, !.closed = c, !.ok = TRUE]
    BY <1>2
  <1>4. /\ popredir(r, drop) = [list |-> l, closed |-> c, ofile |-> o, ok |-> TRUE]
    BY <1>3 DEF IsRd
  <1> QED
    BY <1>1, <1>4 DEF IsRd, l

LEMMA UnwindRd ==
  ASSUME NEW r, IsRd(r), NEW stop \in Nat, stop <= Len(r.list)
  PROVE  /\ IsRd(unwindredir(r, stop)) /\ Len(unwindredir(r, stop).list) = stop
         /\ unwindredir(r, stop) = r \/ unwindredir(r, stop).ok
  <1>1. Len(r.list) \in Nat
    BY DEF IsRd
  <1>2. PICK h : /\ h[Len(r.list)] = r /\ unwindredir(r, stop) = h[stop]
                 /\ \A k \in stop..(Len(r.list) - 1) : h[k] = popredir(h[k + 1], FALSE)
    BY <1>1, UnwindRedirSteps
  <1> DEFINE len == Len(r.list)
             Good(k) == IsRd(h[k]) /\ Len(h[k].list) = k /\ (h[k] = r \/ h[k].ok)
             S == {d \in Nat : d <= len - stop => Good(len - d)}
  <1> HIDE DEF Good, len
  <1>3. 0 \in S
    <2>1. len - 0 = len
      BY <1>1 DEF len
    <2>2. Good(len)
      BY <1>2 DEF Good, len
    <2> QED
      BY <2>1, <2>2
  <1>4. \A d \in Nat : d \in S => d + 1 \in S
    <2> SUFFICES ASSUME NEW d \in Nat, d \in S, d + 1 <= len - stop PROVE Good(len - (d + 1))
      OBVIOUS
    <2> DEFINE k == len - (d + 1)
    <2>1. k \in stop..(len - 1) /\ k + 1 = len - d /\ k + 1 > 0 /\ d <= len - stop /\ k \in Nat
      BY <1>1 DEF len
    <2>2. Good(k + 1)
      BY <2>1
    <2> HIDE DEF k
    <2>3. h[k] = popredir(h[k + 1], FALSE)
      BY <1>2, <2>1 DEF len
    <2>4. h[k + 1].list # << >>
      BY <2>1, <2>2 DEF Good
    <2>5. PICK x : x = h[k + 1]
      OBVIOUS
    <2>6. IsRd(x) /\ Len(x.list) = k + 1 /\ x.list # << >> /\ h[k] = popredir(x, FALSE)
      BY <2>2, <2>3, <2>4, <2>5 DEF Good
    <2>7. /\ IsRd(popredir(x, FALSE)) /\ popredir(x, FALSE).ok
          /\ Len(popredir(x, FALSE).list) = Len(x.list) - 1
      BY <2>6, PopRd
    <2>8. PICK y : y = popredir(x, FALSE)
      OBVIOUS
    <2>9. IsRd(y) /\ y.ok /\ Len(y.list) = Len(x.list) - 1
      BY <2>7, <2>8
    <2>10. Len(y.list) = k
      BY <2>1, <2>6, <2>9
    <2>11. Good(k)
      BY <2>6, <2>8, <2>9, <2>10 DEF Good
    <2> QED
      BY <2>11 DEF k
  <1>5. Good(stop)
    <2>1. len - stop \in Nat /\ len - (len - stop) = stop /\ len - stop <= len - stop
      BY <1>1 DEF len
    <2>2. len - stop \in S
      <3> HIDE DEF S
      <3> QED
        BY <1>3, <1>4, <2>1, NatSetInduction
    <2> QED
      BY <2>1, <2>2
  <1> QED
    BY <1>2, <1>5 DEF Good

-----------------------------------------------------------------------------
(* Variables: types, and the height of localvar_stack. *)

LEMMA VarFacts == Unset \notin Values /\ NoValue \notin Values \cup {Unset}
  BY VarAssumption DEF VarAssumption

LEMMA LvFields ==
  ASSUME NEW v \in LvType
  PROVE  /\ v = [vars |-> v.vars, stack |-> v.stack, ok |-> v.ok]
         /\ v.vars \in [Vars -> Entry] /\ v.stack \in Seq(Seq(Item)) /\ v.ok \in BOOLEAN
  BY DEF LvType

LEMMA NewEntryType ==
  ASSUME NEW e \in Entry, NEW value \in Values \cup {Unset}, NEW flags \in SUBSET Flags
  PROVE  NewEntry(e, value, flags) \in Entry
  <1>1. "fixed" \in Flags
    BY DEF Flags
  <1>2. e.flags \in SUBSET Flags
    BY DEF Entry
  <1>3. flags \cup e.flags \in SUBSET Flags
    BY <1>2
  <1>4. {"fixed"} \in SUBSET Flags /\ {} \in SUBSET Flags
    BY <1>1
  <1> HIDE DEF Flags
  <1> QED
    BY <1>3, <1>4 DEF NewEntry, Entry, Absent

(* One entry changes. *)
LEMMA PutEntry ==
  ASSUME NEW v \in LvType, NEW x \in Vars, NEW e \in Entry
  PROVE  /\ [v EXCEPT !.vars[x] = e] \in LvType
         /\ [v EXCEPT !.vars[x] = e].stack = v.stack
         /\ ([v EXCEPT !.vars[x] = e].ok <=> v.ok)
         /\ [v EXCEPT !.vars[x] = e].vars[x] = e
         /\ \A y \in Vars : y # x => [v EXCEPT !.vars[x] = e].vars[y] = v.vars[y]
  <1> DEFINE w == [v.vars EXCEPT ![x] = e]
  <1>1. w \in [Vars -> Entry] /\ w[x] = e /\ \A y \in Vars : y # x => w[y] = v.vars[y]
    BY LvFields
  <1>2. [v EXCEPT !.vars[x] = e] = [v EXCEPT !.vars = w]
    OBVIOUS
  <1> HIDE DEF w
  <1>3. [v EXCEPT !.vars = w] = [vars |-> w, stack |-> v.stack, ok |-> v.ok]
    BY LvFields
  <1>4. [vars |-> w, stack |-> v.stack, ok |-> v.ok] \in LvType
    BY <1>1, LvFields DEF LvType
  <1> QED
    BY <1>1, <1>2, <1>3, <1>4 DEF w

LEMMA FailedType ==
  ASSUME NEW v \in LvType
  PROVE  /\ Failed(v) \in LvType /\ Failed(v).stack = v.stack /\ Failed(v).vars = v.vars
         /\ ~Failed(v).ok
         /\ [v EXCEPT !.ok = TRUE] \in LvType /\ [v EXCEPT !.ok = TRUE].stack = v.stack
         /\ [v EXCEPT !.ok = TRUE].vars = v.vars /\ [v EXCEPT !.ok = TRUE].ok
  BY DEF LvType, Failed

LEMMA SetVarType ==
  ASSUME NEW v \in LvType, NEW x \in Vars, NEW value \in Values \cup {Unset},
         NEW flags \in SUBSET Flags
  PROVE  /\ setvareq(v, x, value, flags) \in LvType
         /\ setvareq(v, x, value, flags).stack = v.stack
         /\ ReadOnly(v, x) => /\ ~setvareq(v, x, value, flags).ok
                              /\ setvareq(v, x, value, flags).vars = v.vars
         /\ ~ReadOnly(v, x) =>
               /\ (setvareq(v, x, value, flags).ok <=> v.ok)
               /\ setvareq(v, x, value, flags).vars[x] = NewEntry(v.vars[x], value, flags)
               /\ \A y \in Vars : y # x => setvareq(v, x, value, flags).vars[y] = v.vars[y]
  <1>1. NewEntry(v.vars[x], value, flags) \in Entry
    BY LvFields, NewEntryType
  <1> DEFINE e == NewEntry(v.vars[x], value, flags)
  <1>2. ~ReadOnly(v, x) => setvareq(v, x, value, flags) = [v EXCEPT !.vars[x] = e]
    BY DEF setvareq
  <1>3. ReadOnly(v, x) => setvareq(v, x, value, flags) = Failed(v)
    BY DEF setvareq
  <1> HIDE DEF e
  <1>4. /\ [v EXCEPT !.vars[x] = e] \in LvType
        /\ [v EXCEPT !.vars[x] = e].stack = v.stack
        /\ ([v EXCEPT !.vars[x] = e].ok <=> v.ok)
        /\ [v EXCEPT !.vars[x] = e].vars[x] = e
        /\ \A y \in Vars : y # x => [v EXCEPT !.vars[x] = e].vars[y] = v.vars[y]
    BY <1>1, PutEntry DEF e
  <1>5. Failed(v) \in LvType /\ Failed(v).stack = v.stack /\ Failed(v).vars = v.vars /\ ~Failed(v).ok
    BY FailedType
  <1> QED
    BY <1>2, <1>3, <1>4, <1>5 DEF e

LEMMA ExportType ==
  ASSUME NEW v \in LvType, NEW x \in Vars, NEW flag \in Marks
  PROVE  /\ exportcmd(v, x, flag) \in LvType
         /\ exportcmd(v, x, flag).stack = v.stack
         /\ v.vars[x].here => /\ (exportcmd(v, x, flag).ok <=> v.ok)
                              /\ exportcmd(v, x, flag).vars[x] =
                                    [here |-> v.vars[x].here, value |-> v.vars[x].value,
                                     flags |-> v.vars[x].flags \cup {flag}]
                              /\ \A y \in Vars : y # x => exportcmd(v, x, flag).vars[y] = v.vars[y]
         /\ ~v.vars[x].here => exportcmd(v, x, flag) = setvareq(v, x, Unset, {flag})
  <1>1. flag \in Flags /\ {flag} \in SUBSET Flags
    BY EvalAssumption DEF EvalAssumption, Flags
  <1>2. v.vars[x] \in Entry
    BY LvFields
  <1>3. CASE v.vars[x].here
    <2> DEFINE e == [here |-> v.vars[x].here, value |-> v.vars[x].value, flags |-> v.vars[x].flags \cup {flag}]
    <2>1. e \in Entry
      BY <1>1, <1>2 DEF Entry
    <2>2. exportcmd(v, x, flag) = [v EXCEPT !.vars[x] = e]
      <3>1. [v.vars[x] EXCEPT !.flags = @ \cup {flag}] = e
        BY <1>2 DEF Entry
      <3>2. exportcmd(v, x, flag) = [v EXCEPT !.vars[x] = [v.vars[x] EXCEPT !.flags = @ \cup {flag}]]
        BY <1>3 DEF exportcmd
      <3> QED
        BY <3>1, <3>2
    <2> HIDE DEF e
    <2>3. /\ [v EXCEPT !.vars[x] = e] \in LvType
          /\ [v EXCEPT !.vars[x] = e].stack = v.stack
          /\ ([v EXCEPT !.vars[x] = e].ok <=> v.ok)
          /\ [v EXCEPT !.vars[x] = e].vars[x] = e
          /\ \A y \in Vars : y # x => [v EXCEPT !.vars[x] = e].vars[y] = v.vars[y]
      BY <2>1, PutEntry
    <2> QED
      BY <1>3, <2>2, <2>3 DEF e
  <1>4. CASE ~v.vars[x].here
    <2>1. exportcmd(v, x, flag) = setvareq(v, x, Unset, {flag})
      BY <1>4 DEF exportcmd
    <2>2. /\ setvareq(v, x, Unset, {flag}) \in LvType
          /\ setvareq(v, x, Unset, {flag}).stack = v.stack
      <3>1. PICK none \in Values \cup {Unset} : none = Unset
        OBVIOUS
      <3>2. PICK flags \in SUBSET Flags : flags = {flag}
        BY <1>1
      <3>3. setvareq(v, x, none, flags) \in LvType /\ setvareq(v, x, none, flags).stack = v.stack
        BY SetVarType
      <3> QED
        BY <3>1, <3>2, <3>3
    <2> QED
      BY <1>4, <2>1, <2>2
  <1> QED
    BY <1>3, <1>4

LEMMA PushLocalType ==
  ASSUME NEW v \in LvType, NEW push \in BOOLEAN
  PROVE  /\ pushlocalvars(v, push) \in LvType
         /\ pushlocalvars(v, push).vars = v.vars /\ (pushlocalvars(v, push).ok <=> v.ok)
         /\ pushlocalvars(v, push).stack = IF push THEN Append(v.stack, << >>) ELSE v.stack
         /\ Len(pushlocalvars(v, push).stack) = Len(v.stack) + (IF push THEN 1 ELSE 0)
  <1> DEFINE m == Append(v.stack, << >>)
  <1>1. v.stack \in Seq(Seq(Item)) /\ << >> \in Seq(Item)
    BY LvFields
  <1>2. m \in Seq(Seq(Item)) /\ Len(m) = Len(v.stack) + 1 /\ Len(v.stack) \in Nat
    BY <1>1, Appended
  <1>3. CASE push
    <2>1. pushlocalvars(v, push) = [v EXCEPT !.stack = m]
      BY <1>3 DEF pushlocalvars
    <2> HIDE DEF m
    <2>2. [v EXCEPT !.stack = m] = [vars |-> v.vars, stack |-> m, ok |-> v.ok]
      BY LvFields
    <2> QED
      BY <1>2, <1>3, <2>1, <2>2, LvFields DEF m, LvType
  <1>4. CASE ~push
    BY <1>2, <1>4 DEF pushlocalvars
  <1> QED
    BY <1>3, <1>4

LEMMA AddFlags ==
  ASSUME NEW e \in Entry, NEW S
  PROVE  [e EXCEPT !.flags = @ \cup S] = [here |-> e.here, value |-> e.value, flags |-> e.flags \cup S]
  BY SMTT(20) DEF Entry

LEMMA FixType ==
  ASSUME NEW v \in LvType, NEW x \in Vars
  PROVE  /\ Fix(v, x) \in LvType /\ Fix(v, x).stack = v.stack /\ (Fix(v, x).ok <=> v.ok)
         /\ (Fix(v, x).vars[x].here <=> v.vars[x].here)
         /\ Fix(v, x).vars[x].value = v.vars[x].value
         /\ Fix(v, x).vars[x].flags = v.vars[x].flags \cup {"fixed"}
         /\ \A y \in Vars : y # x => Fix(v, x).vars[y] = v.vars[y]
  <1> DEFINE e == [here |-> v.vars[x].here, value |-> v.vars[x].value,
                   flags |-> v.vars[x].flags \cup {"fixed"}]
  <1>1. v.vars[x] \in Entry
    BY LvFields
  <1>2. e \in Entry
    BY <1>1 DEF Entry, Flags
  <1>3. [v.vars[x] EXCEPT !.flags = @ \cup {"fixed"}] = e
    BY <1>1, AddFlags
  <1>4. Fix(v, x) = [v EXCEPT !.vars[x] = [v.vars[x] EXCEPT !.flags = @ \cup {"fixed"}]]
    BY DEF Fix
  <1>5. Fix(v, x) = [v EXCEPT !.vars[x] = e]
    BY <1>3, <1>4
  <1>6. /\ e.here <=> v.vars[x].here
        /\ e.value = v.vars[x].value /\ e.flags = v.vars[x].flags \cup {"fixed"}
    OBVIOUS
  <1> HIDE DEF e
  <1>7. /\ [v EXCEPT !.vars[x] = e] \in LvType
        /\ [v EXCEPT !.vars[x] = e].stack = v.stack
        /\ ([v EXCEPT !.vars[x] = e].ok <=> v.ok)
        /\ [v EXCEPT !.vars[x] = e].vars[x] = e
        /\ \A y \in Vars : y # x => [v EXCEPT !.vars[x] = e].vars[y] = v.vars[y]
    BY <1>2, PutEntry
  <1> QED
    BY <1>5, <1>6, <1>7

LEMMA SavedType ==
  ASSUME NEW v \in LvType, NEW x \in Vars
  PROVE  /\ Saved(v, x) \in Item /\ Saved(v, x).name = x /\ Saved(v, x).was = v.vars[x]
         /\ (Saved(v, x).made <=> ~v.vars[x].here)
  <1>1. v.vars[x] \in Entry
    BY LvFields
  <1> QED
    BY <1>1 DEF Saved, Item, Entry

(* An entry that NewEntry() leaves. *)
LEMMA NewEntryFacts ==
  ASSUME NEW e \in Entry, NEW value \in Values \cup {Unset}, NEW flags \in SUBSET Flags
  PROVE  /\ value # Unset \/ flags # {} =>
               /\ NewEntry(e, value, flags).here
               /\ NewEntry(e, value, flags).value = value
               /\ NewEntry(e, value, flags).flags = flags \cup e.flags
         /\ value = Unset /\ flags = {} /\ "fixed" \in e.flags =>
               /\ NewEntry(e, value, flags).here
               /\ NewEntry(e, value, flags).value = Unset
               /\ NewEntry(e, value, flags).flags = {"fixed"}
         /\ value = Unset /\ flags = {} /\ "fixed" \notin e.flags =>
               NewEntry(e, value, flags) = Absent
  <1>1. flags \cap Flags = flags
    OBVIOUS
  <1> HIDE DEF Flags
  <1> QED
    BY <1>1 DEF NewEntry

(* What mklocal() does: it saves the variable as it was, or fails.         *)
MadeLocal(v, w, x) ==
    /\ w \in LvType /\ Len(w.stack) = Len(v.stack)
    /\ \A y \in Vars : y # x => w.vars[y] = v.vars[y]
    /\ \A i \in 1..(Len(v.stack) - 1) : w.stack[i] = v.stack[i]
    /\ w.ok => /\ w.vars[x].here /\ "fixed" \in w.vars[x].flags
               /\ w.stack[Len(v.stack)] = <<Saved(v, x)>> \o v.stack[Len(v.stack)]
    /\ ~w.ok => /\ w.stack = v.stack
                /\ (w.vars[x].here <=> v.vars[x].here)
                /\ w.vars[x].value = v.vars[x].value
                /\ \/ w.vars[x].flags = v.vars[x].flags
                   \/ w.vars[x].flags = v.vars[x].flags \cup {"fixed"}
                /\ ~v.vars[x].here => w.vars[x] = v.vars[x]
LEMMA MklocalType ==
  ASSUME NEW v \in LvType, v.stack # << >>, v.ok, NEW x \in Vars,
         NEW value \in Values \cup {Unset, NoValue}, NEW flags \in SUBSET Flags
  PROVE  MadeLocal(v, mklocal(v, x, value, flags), x)
  <1> DEFINE new == IF value = NoValue THEN Unset ELSE value
             some == {"fixed"} \cup flags
             u == IF ~v.vars[x].here THEN setvareq(v, x, new, some)
                  ELSE IF value = NoValue THEN Fix(v, x)
                  ELSE setvareq(Fix(v, x), x, value, flags)
  <1>0. PICK w : w = mklocal(v, x, value, flags)
    OBVIOUS
  <1>1. mklocal(v, x, value, flags) =
           IF ~u.ok THEN u ELSE [u EXCEPT !.stack[Len(u.stack)] = <<Saved(v, x)>> \o @]
    BY DEF mklocal
  <1>2. new \in Values \cup {Unset} /\ some \in SUBSET Flags /\ some # {} /\ "fixed" \in some
    BY DEF Flags
  <1>3. v.vars[x] \in Entry /\ Fix(v, x).vars[x] \in Entry
    BY LvFields, FixType
  <1>4. /\ u \in LvType /\ u.stack = v.stack
        /\ \A y \in Vars : y # x => u.vars[y] = v.vars[y]
        /\ u.ok => u.vars[x].here /\ "fixed" \in u.vars[x].flags
        /\ ~u.ok => /\ (u.vars[x].here <=> v.vars[x].here)
                    /\ u.vars[x].value = v.vars[x].value
                    /\ \/ u.vars[x].flags = v.vars[x].flags
                       \/ u.vars[x].flags = v.vars[x].flags \cup {"fixed"}
                    /\ ~v.vars[x].here => u.vars[x] = v.vars[x]
    <2>1. CASE ~v.vars[x].here
      <3> HIDE DEF new, some
      <3>1. u = setvareq(v, x, new, some)
        BY <2>1
      <3>2. /\ NewEntry(v.vars[x], new, some).here
            /\ NewEntry(v.vars[x], new, some).flags = some \cup v.vars[x].flags
        <4>1. PICK e \in Entry : e = v.vars[x]
          BY <1>3
        <4>2. new # Unset \/ some # {}
          BY <1>2
        <4>3. NewEntry(e, new, some).here /\ NewEntry(e, new, some).flags = some \cup e.flags
          <5>1. PICK s \in SUBSET Flags : s = some
            BY <1>2
          <5>2. PICK n \in Values \cup {Unset} : n = new
            BY <1>2
          <5>3. n # Unset \/ s # {}
            BY <4>2, <5>1, <5>2
          <5>4. NewEntry(e, n, s).here /\ NewEntry(e, n, s).flags = s \cup e.flags
            BY <5>3, NewEntryFacts
          <5> QED
            BY <5>1, <5>2, <5>4
        <4> QED
          BY <4>1, <4>3
      <3>3. /\ setvareq(v, x, new, some) \in LvType
            /\ setvareq(v, x, new, some).stack = v.stack
            /\ ReadOnly(v, x) => /\ ~setvareq(v, x, new, some).ok
                                 /\ setvareq(v, x, new, some).vars = v.vars
            /\ ~ReadOnly(v, x) =>
                  /\ (setvareq(v, x, new, some).ok <=> v.ok)
                  /\ setvareq(v, x, new, some).vars[x] = NewEntry(v.vars[x], new, some)
                  /\ \A y \in Vars : y # x => setvareq(v, x, new, some).vars[y] = v.vars[y]
        BY <1>2, SetVarType
      <3>4. CASE ReadOnly(v, x)
        BY <3>1, <3>3, <3>4
      <3>5. CASE ~ReadOnly(v, x)
        <4>1. u.ok /\ u.vars[x] = NewEntry(v.vars[x], new, some)
          BY <3>1, <3>3, <3>5
        <4>2. u.vars[x].here /\ "fixed" \in u.vars[x].flags
          BY <1>2, <3>2, <4>1
        <4> QED
          BY <3>1, <3>3, <3>5, <4>1, <4>2
      <3> QED
        BY <3>4, <3>5
    <2>2. CASE v.vars[x].here /\ value = NoValue
      <3>1. u = Fix(v, x)
        BY <2>2
      <3> QED
        BY <2>2, <3>1, FixType
    <2>3. CASE v.vars[x].here /\ value # NoValue
      <3> DEFINE f == Fix(v, x)
      <3>1. u = setvareq(f, x, value, flags)
        BY <2>3
      <3>2. value \in Values \cup {Unset}
        BY <2>3
      <3>3. /\ f \in LvType /\ f.stack = v.stack /\ f.ok
            /\ f.vars[x].here
            /\ f.vars[x].value = v.vars[x].value
            /\ f.vars[x].flags = v.vars[x].flags \cup {"fixed"}
            /\ \A y \in Vars : y # x => f.vars[y] = v.vars[y]
        BY <2>3, FixType
      <3> HIDE DEF f, u
      <3>4. f.vars[x] \in Entry
        BY <3>3, LvFields
      <3>5. /\ setvareq(f, x, value, flags) \in LvType
            /\ setvareq(f, x, value, flags).stack = f.stack
            /\ ReadOnly(f, x) => /\ ~setvareq(f, x, value, flags).ok
                                 /\ setvareq(f, x, value, flags).vars = f.vars
            /\ ~ReadOnly(f, x) =>
                  /\ (setvareq(f, x, value, flags).ok <=> f.ok)
                  /\ setvareq(f, x, value, flags).vars[x] = NewEntry(f.vars[x], value, flags)
                  /\ \A y \in Vars : y # x => setvareq(f, x, value, flags).vars[y] = f.vars[y]
        BY <3>2, <3>3, SetVarType
      <3>6. CASE ReadOnly(f, x)
        BY <2>3, <3>1, <3>3, <3>5, <3>6
      <3>7. CASE ~ReadOnly(f, x)
        <4>1. u.ok /\ u.vars[x] = NewEntry(f.vars[x], value, flags)
          BY <3>1, <3>3, <3>5, <3>7
        <4>2. u.vars[x].here /\ "fixed" \in u.vars[x].flags
          <5>1. PICK e \in Entry : e = f.vars[x]
            BY <3>4
          <5>2. "fixed" \in e.flags
            BY <3>3, <5>1
          <5>3. CASE value # Unset \/ flags # {}
            <6>1. NewEntry(e, value, flags).here /\ NewEntry(e, value, flags).flags = flags \cup e.flags
              BY <3>2, <5>3, NewEntryFacts
            <6> QED
              BY <4>1, <5>1, <5>2, <6>1
          <5>4. CASE value = Unset /\ flags = {}
            <6>1. NewEntry(e, value, flags).here /\ NewEntry(e, value, flags).flags = {"fixed"}
              BY <3>2, <5>2, <5>4, NewEntryFacts
            <6> QED
              BY <4>1, <5>1, <6>1
          <5> QED
            BY <5>3, <5>4
        <4> QED
          BY <3>1, <3>3, <3>5, <3>7, <4>1, <4>2
      <3> QED
        BY <3>6, <3>7
    <2> QED
      BY <2>1, <2>2, <2>3
  <1>5. CASE ~u.ok
    <2>1. w = u
      BY <1>0, <1>1, <1>5
    <2> HIDE DEF u
    <2> QED
      BY <1>0, <1>4, <1>5, <2>1 DEF MadeLocal
  <1>6. CASE u.ok
    <2> DEFINE top == Len(v.stack)
               l == <<Saved(v, x)>> \o v.stack[top]
               m == [v.stack EXCEPT ![top] = l]
    <2> HIDE DEF u
    <2>1. v.stack \in Seq(Seq(Item)) /\ top \in 1..top
      BY LvFields
    <2>2. v.stack[top] \in Seq(Item)
      BY <2>1
    <2>3. l \in Seq(Item)
      <3>1. PICK s \in Item : s = Saved(v, x)
        BY SavedType
      <3>2. <<s>> \in Seq(Item)
        OBVIOUS
      <3>3. <<s>> \o v.stack[top] \in Seq(Item)
        BY <2>2, <3>2
      <3> QED
        BY <3>1, <3>3
    <2>4. w = [u EXCEPT !.stack = m]
      BY <1>0, <1>1, <1>4, <1>6
    <2> HIDE DEF l
    <2>5. /\ m \in Seq(Seq(Item)) /\ Len(m) = top /\ m[top] = l
          /\ \A i \in 1..(top - 1) : m[i] = v.stack[i]
      BY <2>1, <2>3, Updated
    <2> HIDE DEF m
    <2>6. [u EXCEPT !.stack = m] = [vars |-> u.vars, stack |-> m, ok |-> u.ok]
      BY <1>4, LvFields
    <2>7. [vars |-> u.vars, stack |-> m, ok |-> u.ok] \in LvType
      BY <1>4, <2>5, LvFields DEF LvType
    <2>8. w \in LvType /\ w.vars = u.vars /\ w.stack = m /\ w.ok
      BY <1>6, <2>4, <2>6, <2>7
    <2> QED
      BY <1>0, <1>4, <1>6, <2>5, <2>8 DEF l, MadeLocal
  <1> QED
    BY <1>5, <1>6

-----------------------------------------------------------------------------
(* Variables: what localvar_stack points to stays. *)

LEMMA NoItems ==
  ASSUME NEW v \in LvType, NEW i \in DOMAIN v.stack
  PROVE  /\ v.stack[i] \in Seq(Item) /\ DOMAIN v.stack = 1..Len(v.stack) /\ Len(v.stack) \in Nat
         /\ i \in 1..Len(v.stack)
         /\ \A k \in DOMAIN v.stack[i] : v.stack[i][k] \in Item /\ v.stack[i][k].name \in Vars
                                         /\ v.stack[i][k].was \in Entry
  <1>1. v.stack \in Seq(Seq(Item))
    BY LvFields
  <1>2. v.stack[i] \in Seq(Item) /\ DOMAIN v.stack = 1..Len(v.stack) /\ Len(v.stack) \in Nat
    BY <1>1
  <1>3. \A t \in Item : t.name \in Vars /\ t.was \in Entry
    BY DEF Item
  <1>4. \A k \in DOMAIN v.stack[i] : v.stack[i][k] \in Item
    BY <1>2
  <1> QED
    BY <1>2, <1>3, <1>4

(* One entry changes, and is not unpinned. *)
LEMMA EntryGood ==
  ASSUME NEW v, LvGood(v), NEW w \in LvType, w.stack = v.stack, NEW x \in Vars,
         \A y \in Vars : y # x => w.vars[y] = v.vars[y],
         Pinned(v.vars[x]) => Pinned(w.vars[x]),
         ~w.vars[x].here => w.vars[x] = Absent
  PROVE  LvGood(w)
  <1>1. \A y \in Vars : /\ Pinned(v.vars[y]) => Pinned(w.vars[y])
                        /\ ~w.vars[y].here => w.vars[y] = Absent
    BY DEF LvGood
  <1>2. \A i \in DOMAIN w.stack : \A k \in DOMAIN w.stack[i] : Pinned(w.vars[w.stack[i][k].name])
    <2> SUFFICES ASSUME NEW i \in DOMAIN w.stack, NEW k \in DOMAIN w.stack[i]
                 PROVE  Pinned(w.vars[w.stack[i][k].name])
      OBVIOUS
    <2>1. w.stack[i][k].name \in Vars
      BY NoItems
    <2>2. Pinned(v.vars[w.stack[i][k].name])
      BY DEF LvGood
    <2> QED
      BY <1>1, <2>1, <2>2
  <1> QED
    BY <1>1, <1>2 DEF LvGood

LEMMA SameVars ==
  ASSUME NEW v, LvGood(v), NEW w \in LvType, w.stack = v.stack, w.vars = v.vars
  PROVE  LvGood(w)
  BY DEF LvGood

LEMMA OkGood ==
  ASSUME NEW v, LvGood(v)
  PROVE  /\ LvGood([v EXCEPT !.ok = TRUE]) /\ [v EXCEPT !.ok = TRUE].stack = v.stack
         /\ [v EXCEPT !.ok = TRUE].vars = v.vars /\ [v EXCEPT !.ok = TRUE].ok
         /\ LvGood(Failed(v)) /\ Failed(v).stack = v.stack /\ ~Failed(v).ok
         /\ Failed(v).vars = v.vars
  <1>1. v \in LvType
    BY DEF LvGood
  <1>2. /\ Failed(v) \in LvType /\ Failed(v).stack = v.stack /\ Failed(v).vars = v.vars
        /\ ~Failed(v).ok
        /\ [v EXCEPT !.ok = TRUE] \in LvType /\ [v EXCEPT !.ok = TRUE].stack = v.stack
        /\ [v EXCEPT !.ok = TRUE].vars = v.vars /\ [v EXCEPT !.ok = TRUE].ok
    BY <1>1, FailedType
  <1> QED
    BY <1>2, SameVars

LEMMA SetVarGood ==
  ASSUME NEW v, LvGood(v), NEW x \in Vars, NEW value \in Values \cup {Unset},
         NEW flags \in SUBSET Flags
  PROVE  /\ LvGood(setvareq(v, x, value, flags))
         /\ setvareq(v, x, value, flags).stack = v.stack
  <1> DEFINE w == setvareq(v, x, value, flags)
  <1>1. v \in LvType
    BY DEF LvGood
  <1>2. /\ w \in LvType /\ w.stack = v.stack
        /\ ReadOnly(v, x) => w.vars = v.vars
        /\ ~ReadOnly(v, x) =>
              /\ w.vars[x] = NewEntry(v.vars[x], value, flags)
              /\ \A y \in Vars : y # x => w.vars[y] = v.vars[y]
    BY <1>1, SetVarType
  <1>3. PICK e \in Entry : e = v.vars[x]
    BY <1>1, LvFields
  <1>4. /\ Pinned(e) => Pinned(NewEntry(e, value, flags))
        /\ ~NewEntry(e, value, flags).here => NewEntry(e, value, flags) = Absent
    <2>1. CASE value # Unset \/ flags # {}
      <3>1. NewEntry(e, value, flags).here /\ NewEntry(e, value, flags).flags = flags \cup e.flags
        BY <2>1, NewEntryFacts
      <3> QED
        BY <3>1 DEF Pinned
    <2>2. CASE value = Unset /\ flags = {} /\ "fixed" \in e.flags
      <3>1. NewEntry(e, value, flags).here /\ NewEntry(e, value, flags).flags = {"fixed"}
        BY <2>2, NewEntryFacts
      <3> QED
        BY <3>1 DEF Pinned
    <2>3. CASE value = Unset /\ flags = {} /\ "fixed" \notin e.flags
      <3>1. NewEntry(e, value, flags) = Absent
        BY <2>3, NewEntryFacts
      <3> QED
        BY <2>3, <3>1 DEF Pinned
    <2> QED
      BY <2>1, <2>2, <2>3
  <1> HIDE DEF w
  <1>5. CASE ReadOnly(v, x)
    BY <1>2, <1>5, SameVars DEF w
  <1>6. CASE ~ReadOnly(v, x)
    <2>1. /\ Pinned(v.vars[x]) => Pinned(w.vars[x])
          /\ ~w.vars[x].here => w.vars[x] = Absent
      BY <1>2, <1>3, <1>4, <1>6
    <2>2. LvGood(w)
      BY <1>2, <1>6, <2>1, EntryGood
    <2> QED
      BY <1>2, <2>2 DEF w
  <1> QED
    BY <1>5, <1>6

LEMMA ExportGood ==
  ASSUME NEW v, LvGood(v), NEW x \in Vars, NEW flag \in Marks
  PROVE  LvGood(exportcmd(v, x, flag)) /\ exportcmd(v, x, flag).stack = v.stack
  <1> DEFINE w == exportcmd(v, x, flag)
  <1>1. v \in LvType
    BY DEF LvGood
  <1>2. /\ w \in LvType /\ w.stack = v.stack
        /\ v.vars[x].here => /\ w.vars[x] = [here |-> v.vars[x].here, value |-> v.vars[x].value,
                                             flags |-> v.vars[x].flags \cup {flag}]
                             /\ \A y \in Vars : y # x => w.vars[y] = v.vars[y]
        /\ ~v.vars[x].here => w = setvareq(v, x, Unset, {flag})
    BY <1>1, ExportType
  <1>3. CASE v.vars[x].here
    <2>1. w.vars[x].here /\ w.vars[x].flags = v.vars[x].flags \cup {flag}
      BY <1>2, <1>3
    <2>2. Pinned(v.vars[x]) => Pinned(w.vars[x])
      BY <2>1 DEF Pinned
    <2> HIDE DEF w
    <2>3. LvGood(w)
      BY <1>2, <1>3, <2>1, <2>2, EntryGood
    <2> QED
      BY <1>2, <2>3 DEF w
  <1>4. CASE ~v.vars[x].here
    <2>1. PICK flags \in SUBSET Flags : flags = {flag}
      BY EvalAssumption DEF EvalAssumption, Flags
    <2>2. PICK none \in Values \cup {Unset} : none = Unset
      OBVIOUS
    <2>3. w = setvareq(v, x, none, flags)
      BY <1>2, <1>4, <2>1, <2>2
    <2> HIDE DEF w
    <2>4. LvGood(w)
      BY <2>3, SetVarGood
    <2> QED
      BY <1>2, <2>4 DEF w
  <1> QED
    BY <1>3, <1>4

LEMMA PushLocalGood ==
  ASSUME NEW v, LvGood(v), NEW push \in BOOLEAN
  PROVE  LvGood(pushlocalvars(v, push))
  <1> DEFINE w == pushlocalvars(v, push)
             n == Len(v.stack)
  <1>1. v \in LvType
    BY DEF LvGood
  <1>2. /\ w \in LvType /\ w.vars = v.vars
        /\ w.stack = IF push THEN Append(v.stack, << >>) ELSE v.stack
    BY <1>1, PushLocalType
  <1>3. v.stack \in Seq(Seq(Item)) /\ << >> \in Seq(Item)
    BY <1>1, LvFields
  <1> HIDE DEF w
  <1>4. CASE ~push
    BY <1>2, <1>4, SameVars DEF w
  <1>5. CASE push
    <2>1. /\ DOMAIN w.stack = 1..(n + 1) /\ DOMAIN v.stack = 1..n /\ n \in Nat
          /\ \A i \in 1..n : w.stack[i] = v.stack[i]
          /\ w.stack[n + 1] = << >>
      BY <1>2, <1>3, <1>5, Appended
    <2>2. DOMAIN << >> = {}
      OBVIOUS
    <2> HIDE DEF n
    <2>3. \A i \in DOMAIN w.stack : \A k \in DOMAIN w.stack[i] :
             i \in DOMAIN v.stack /\ w.stack[i] = v.stack[i]
      BY <2>1, <2>2
    <2>4. /\ \A x \in Vars : ~v.vars[x].here => v.vars[x] = Absent
          /\ \A i \in DOMAIN v.stack : ScopeGood(v.stack[i])
          /\ \A i \in DOMAIN v.stack : \A k \in DOMAIN v.stack[i] : Pinned(v.vars[v.stack[i][k].name])
          /\ \A i, j \in DOMAIN v.stack : i < j =>
                \A k \in DOMAIN v.stack[i], m \in DOMAIN v.stack[j] :
                    v.stack[i][k].name = v.stack[j][m].name => Pinned(v.stack[j][m].was)
      BY DEF LvGood
    <2>5. \A i \in DOMAIN w.stack : ScopeGood(w.stack[i])
      <3> SUFFICES ASSUME NEW i \in DOMAIN w.stack PROVE ScopeGood(w.stack[i])
        OBVIOUS
      <3>1. CASE DOMAIN w.stack[i] = {}
        BY <3>1 DEF ScopeGood
      <3>2. CASE DOMAIN w.stack[i] # {}
        <4>1. PICK k \in DOMAIN w.stack[i] : TRUE
          BY <3>2
        <4>2. i \in DOMAIN v.stack /\ w.stack[i] = v.stack[i]
          BY <2>3, <4>1
        <4> QED
          BY <2>4, <4>2
      <3> QED
        BY <3>1, <3>2
    <2>6. \A i \in DOMAIN w.stack : \A k \in DOMAIN w.stack[i] : Pinned(w.vars[w.stack[i][k].name])
      BY <1>2, <2>3, <2>4
    <2>7. \A i, j \in DOMAIN w.stack : i < j =>
                \A k \in DOMAIN w.stack[i], m \in DOMAIN w.stack[j] :
                    w.stack[i][k].name = w.stack[j][m].name => Pinned(w.stack[j][m].was)
      BY <2>3, <2>4
    <2>8. LvGood(w)
      BY <1>2, <2>4, <2>5, <2>6, <2>7 DEF LvGood
    <2> QED
      BY <2>8 DEF w
  <1> QED
    BY <1>4, <1>5

LEMMA MklocalGood ==
  ASSUME NEW v, LvGood(v), v.stack # << >>, v.ok, NEW x \in Vars,
         NEW value \in Values \cup {Unset, NoValue}, NEW flags \in SUBSET Flags
  PROVE  /\ LvGood(mklocal(v, x, value, flags))
         /\ Len(mklocal(v, x, value, flags).stack) = Len(v.stack)
  <1> DEFINE n == Len(v.stack)
  <1>1. v \in LvType
    BY DEF LvGood
  <1>2. PICK w : w = mklocal(v, x, value, flags)
    OBVIOUS
  <1>3. /\ w \in LvType /\ Len(w.stack) = n
        /\ \A y \in Vars : y # x => w.vars[y] = v.vars[y]
        /\ \A i \in 1..(n - 1) : w.stack[i] = v.stack[i]
        /\ w.ok => /\ w.vars[x].here /\ "fixed" \in w.vars[x].flags
                   /\ w.stack[n] = <<Saved(v, x)>> \o v.stack[n]
        /\ ~w.ok => /\ w.stack = v.stack
                    /\ (w.vars[x].here <=> v.vars[x].here)
                    /\ \/ w.vars[x].flags = v.vars[x].flags
                       \/ w.vars[x].flags = v.vars[x].flags \cup {"fixed"}
                    /\ ~v.vars[x].here => w.vars[x] = v.vars[x]
    <2>1. MadeLocal(v, mklocal(v, x, value, flags), x)
      BY <1>1, MklocalType
    <2>2. MadeLocal(v, w, x)
      BY <1>2, <2>1
    <2> QED
      BY <2>2 DEF MadeLocal
  <1>4. CASE ~w.ok
    <2>1. Pinned(v.vars[x]) => Pinned(w.vars[x])
      BY <1>3, <1>4 DEF Pinned
    <2>2. ~w.vars[x].here => w.vars[x] = Absent
      BY <1>3, <1>4 DEF LvGood
    <2>3. LvGood(w)
      BY <1>3, <1>4, <2>1, <2>2, EntryGood
    <2> QED
      BY <1>2, <1>3, <2>3
  <1>5. CASE w.ok
    <2>1. v.stack \in Seq(Seq(Item)) /\ w.stack \in Seq(Seq(Item)) /\ n \in 1..n
      BY <1>1, <1>3, LvFields
    <2>2. DOMAIN w.stack = 1..n /\ DOMAIN v.stack = 1..n /\ n \in Nat /\ n >= 1
      BY <1>3, <2>1
    <2>3. PICK s \in Item : /\ s = Saved(v, x) /\ s.name = x /\ s.was = v.vars[x]
                            /\ (s.made <=> ~v.vars[x].here)
      BY <1>1, SavedType
    <2>4. PICK t : t = v.stack[n]
      OBVIOUS
    <2>5. t \in Seq(Item)
      BY <2>1, <2>4
    <2> DEFINE u == <<s>> \o t
    <2>6. w.stack[n] = u
      BY <1>3, <1>5, <2>3, <2>4
    <2>7. /\ DOMAIN t = 1..Len(t) /\ Len(t) \in Nat /\ DOMAIN u = 1..(Len(t) + 1)
          /\ u[1] = s /\ \A k \in 2..(Len(t) + 1) : u[k] = t[k - 1] /\ k - 1 \in DOMAIN t
      <3>1. <<s>> \in Seq(Item) /\ Len(<<s>>) = 1 /\ <<s>>[1] = s
        OBVIOUS
      <3>2. Len(u) = Len(t) + 1 /\ DOMAIN u = 1..(Len(t) + 1) /\ Len(t) \in Nat
        BY <2>5, <3>1
      <3>3. \A k \in 1..(Len(t) + 1) : u[k] = IF k <= 1 THEN <<s>>[k] ELSE t[k - 1]
        BY <2>5, <3>1
      <3> QED
        BY <2>5, <3>1, <3>2, <3>3
    <2> HIDE DEF u, n
    <2>8. \A k \in DOMAIN u : (k = 1 /\ u[k] = s) \/ (k - 1 \in DOMAIN t /\ u[k] = t[k - 1] /\ k > 1)
      BY <2>7
    <2>9. Pinned(w.vars[x])
      BY <1>3, <1>5 DEF Pinned
    <2>10. /\ \A y \in Vars : ~v.vars[y].here => v.vars[y] = Absent
           /\ \A i \in DOMAIN v.stack : ScopeGood(v.stack[i])
           /\ \A i \in DOMAIN v.stack : \A k \in DOMAIN v.stack[i] : Pinned(v.vars[v.stack[i][k].name])
           /\ \A i, j \in DOMAIN v.stack : i < j =>
                 \A k \in DOMAIN v.stack[i], m \in DOMAIN v.stack[j] :
                     v.stack[i][k].name = v.stack[j][m].name => Pinned(v.stack[j][m].was)
      BY DEF LvGood
    <2>11. \A k \in DOMAIN t : /\ t[k].name \in Vars /\ Pinned(v.vars[t[k].name])
      BY <1>1, <2>2, <2>4, <2>10, NoItems
    <2>12. ScopeGood(u)
      <3>1. ScopeGood(t)
        BY <2>2, <2>4, <2>10
      <3> SUFFICES ASSUME NEW k \in DOMAIN u
                   PROVE  /\ u[k].made <=> ~u[k].was.here
                          /\ ~u[k].was.here => u[k].was = Absent
                          /\ \A m \in DOMAIN u :
                                k < m /\ u[k].name = u[m].name => Pinned(u[k].was)
        BY DEF ScopeGood
      <3>2. CASE k = 1
        <4>1. u[k] = s /\ (s.made <=> ~s.was.here) /\ (~s.was.here => s.was = Absent)
          BY <2>3, <2>7, <2>10, <3>2
        <4>2. \A m \in DOMAIN u : k < m /\ u[k].name = u[m].name => Pinned(u[k].was)
          <5> SUFFICES ASSUME NEW m \in DOMAIN u, k < m, u[k].name = u[m].name PROVE Pinned(u[k].was)
            OBVIOUS
          <5>1. m - 1 \in DOMAIN t /\ u[m] = t[m - 1]
            BY <2>8, <3>2
          <5> QED
            BY <2>3, <2>11, <4>1, <5>1
        <4> QED
          BY <4>1, <4>2
      <3>3. CASE k # 1
        <4>1. k - 1 \in DOMAIN t /\ u[k] = t[k - 1] /\ k > 1
          BY <2>8, <3>3
        <4>2. \A m \in DOMAIN u : k < m /\ u[k].name = u[m].name => Pinned(u[k].was)
          <5> SUFFICES ASSUME NEW m \in DOMAIN u, k < m, u[k].name = u[m].name PROVE Pinned(u[k].was)
            OBVIOUS
          <5>1. m - 1 \in DOMAIN t /\ u[m] = t[m - 1] /\ k - 1 < m - 1
            BY <2>7, <2>8, <4>1
          <5> QED
            BY <3>1, <4>1, <5>1 DEF ScopeGood
        <4>3. (u[k].made <=> ~u[k].was.here) /\ (~u[k].was.here => u[k].was = Absent)
          BY <3>1, <4>1 DEF ScopeGood
        <4> QED
          BY <4>2, <4>3
      <3> QED
        BY <3>2, <3>3
    <2>13. \A i \in DOMAIN w.stack : i # n => w.stack[i] = v.stack[i] /\ i \in DOMAIN v.stack
      BY <1>3, <2>2
    <2>14. \A i \in DOMAIN w.stack : ScopeGood(w.stack[i])
      BY <2>6, <2>10, <2>12, <2>13
    <2>15. \A y \in Vars : Pinned(v.vars[y]) => Pinned(w.vars[y])
      BY <1>3, <2>9
    <2>16. \A i \in DOMAIN w.stack : \A k \in DOMAIN w.stack[i] : Pinned(w.vars[w.stack[i][k].name])
      <3> SUFFICES ASSUME NEW i \in DOMAIN w.stack, NEW k \in DOMAIN w.stack[i]
                   PROVE  Pinned(w.vars[w.stack[i][k].name])
        OBVIOUS
      <3>1. CASE i = n
        BY <2>3, <2>6, <2>8, <2>9, <2>11, <2>15, <3>1
      <3>2. CASE i # n
        <4>1. w.stack[i] = v.stack[i] /\ i \in DOMAIN v.stack
          BY <2>13, <3>2
        <4>2. v.stack[i][k].name \in Vars
          BY <1>1, <4>1, NoItems
        <4> QED
          BY <2>10, <2>15, <4>1, <4>2
      <3> QED
        BY <3>1, <3>2
    <2>17. \A i, j \in DOMAIN w.stack : i < j =>
                 \A k \in DOMAIN w.stack[i], m \in DOMAIN w.stack[j] :
                     w.stack[i][k].name = w.stack[j][m].name => Pinned(w.stack[j][m].was)
      <3> SUFFICES ASSUME NEW i \in DOMAIN w.stack, NEW j \in DOMAIN w.stack, i < j,
                          NEW k \in DOMAIN w.stack[i], NEW m \in DOMAIN w.stack[j],
                          w.stack[i][k].name = w.stack[j][m].name
                   PROVE  Pinned(w.stack[j][m].was)
        OBVIOUS
      <3>1. i # n /\ w.stack[i] = v.stack[i] /\ i \in DOMAIN v.stack
        BY <2>2, <2>13
      <3>2. CASE j # n
        BY <2>10, <2>13, <3>1, <3>2
      <3>3. CASE j = n
        <4>1. CASE m = 1
          <5>1. w.stack[j][m] = s
            BY <2>6, <2>7, <3>3, <4>1
          <5>2. v.stack[i][k].name = x
            BY <2>3, <3>1, <5>1
          <5> QED
            BY <2>3, <2>10, <3>1, <5>1, <5>2
        <4>2. CASE m # 1
          <5>1. w.stack[j][m] = t[m - 1] /\ m - 1 \in DOMAIN t
            BY <2>6, <2>8, <3>3, <4>2
          <5>2. t = v.stack[j] /\ j \in DOMAIN v.stack
            BY <2>2, <2>4, <3>3
          <5> QED
            BY <2>10, <3>1, <5>1, <5>2
        <4> QED
          BY <4>1, <4>2
      <3> QED
        BY <3>2, <3>3
    <2>18. \A y \in Vars : ~w.vars[y].here => w.vars[y] = Absent
      BY <1>3, <2>9, <2>10 DEF Pinned
    <2>19. LvGood(w)
      BY <1>3, <2>14, <2>16, <2>17, <2>18 DEF LvGood
    <2> QED
      BY <1>2, <1>3, <2>19 DEF n
  <1> QED
    BY <1>4, <1>5

LEMMA DropFlags ==
  ASSUME NEW e \in Entry, NEW S
  PROVE  /\ [e EXCEPT !.flags = @ \ S] \in Entry
         /\ [e EXCEPT !.flags = @ \ S].flags = e.flags \ S
  BY DEF Entry

(* One saved variable is as it was again. *)
RestoredOne(v, w, s) ==
    /\ w \in LvType /\ w.stack = v.stack /\ (w.ok <=> v.ok)
    /\ w.vars[s.name] = s.was
    /\ \A y \in Vars : y # s.name => w.vars[y] = v.vars[y]
LEMMA RestoreOne ==
  ASSUME NEW v \in LvType, NEW s \in Item, s.made <=> ~s.was.here, ~s.was.here => s.was = Absent
  PROVE  RestoredOne(v, Restore(v, s), s)
  <1>1. PICK x \in Vars : x = s.name
    BY DEF Item
  <1>2. PICK e \in Entry : e = s.was
    BY DEF Item
  <1>3. CASE ~s.made
    <2>1. Restore(v, s) = [v EXCEPT !.vars[x] = e]
      BY <1>1, <1>2, <1>3 DEF Restore
    <2>2. /\ [v EXCEPT !.vars[x] = e] \in LvType
          /\ [v EXCEPT !.vars[x] = e].stack = v.stack
          /\ ([v EXCEPT !.vars[x] = e].ok <=> v.ok)
          /\ [v EXCEPT !.vars[x] = e].vars[x] = e
          /\ \A y \in Vars : y # x => [v EXCEPT !.vars[x] = e].vars[y] = v.vars[y]
      BY PutEntry
    <2> QED
      BY <1>1, <1>2, <2>1, <2>2 DEF RestoredOne
  <1>4. CASE s.made
    <2>1. PICK d \in Entry : d = v.vars[x]
      BY LvFields
    <2>2. PICK b \in Entry : /\ b = [d EXCEPT !.flags = @ \ {"fixed", "readonly"}]
                             /\ b.flags = d.flags \ {"fixed", "readonly"}
      BY DropFlags
    <2>3. PICK u : u = [v EXCEPT !.vars[x] = b]
      OBVIOUS
    <2>4. Restore(v, s) = setvareq(u, x, Unset, {})
      <3>1. Restore(v, s) =
              setvareq([v EXCEPT !.vars[x] = [v.vars[x] EXCEPT !.flags = @ \ {"fixed", "readonly"}]],
                       x, Unset, {})
        BY <1>1, <1>4 DEF Restore
      <3> QED
        BY <2>1, <2>2, <2>3, <3>1
    <2>5. /\ u \in LvType /\ u.stack = v.stack /\ (u.ok <=> v.ok) /\ u.vars[x] = b
          /\ \A y \in Vars : y # x => u.vars[y] = v.vars[y]
      BY <2>3, PutEntry
    <2>6. PICK none \in SUBSET Flags : none = {}
      OBVIOUS
    <2>7. PICK null \in Values \cup {Unset} : null = Unset
      OBVIOUS
    <2>8. ~ReadOnly(u, x)
      BY <2>2, <2>5 DEF ReadOnly
    <2>9. /\ setvareq(u, x, null, none) \in LvType
          /\ setvareq(u, x, null, none).stack = u.stack
          /\ (setvareq(u, x, null, none).ok <=> u.ok)
          /\ setvareq(u, x, null, none).vars[x] = NewEntry(u.vars[x], null, none)
          /\ \A y \in Vars : y # x => setvareq(u, x, null, none).vars[y] = u.vars[y]
      BY <2>5, <2>8, SetVarType
    <2>10. NewEntry(b, null, none) = Absent
      <3>1. "fixed" \notin b.flags
        BY <2>2
      <3> QED
        BY <2>6, <2>7, <3>1, NewEntryFacts
    <2>11. s.was = Absent
      BY <1>4
    <2>12. PICK w : w = Restore(v, s)
      OBVIOUS
    <2>13. w = setvareq(u, x, null, none)
      BY <2>4, <2>6, <2>7, <2>12
    <2>14. /\ w \in LvType /\ w.stack = v.stack /\ (w.ok <=> v.ok) /\ w.vars[x] = s.was
           /\ \A y \in Vars : y # x => w.vars[y] = v.vars[y]
      BY <2>5, <2>9, <2>10, <2>11, <2>13
    <2>15. RestoredOne(v, w, s)
      BY <1>1, <2>14 DEF RestoredOne
    <2> QED
      BY <2>12, <2>15
  <1> QED
    BY <1>3, <1>4

(* After the first n of a scope's items have been restored: a variable is  *)
(* as the last of those of its name has it.                                *)
RestoredTo(v, w, items, n) ==
    /\ w \in LvType /\ w.stack = v.stack /\ (w.ok <=> v.ok)
    /\ \A x \in Vars : (\A j \in 1..n : items[j].name # x) => w.vars[x] = v.vars[x]
    /\ \A j \in 1..n : (\A m \in (j + 1)..n : items[m].name # items[j].name) =>
          w.vars[items[j].name] = items[j].was

LEMMA RestoreNext ==
  ASSUME NEW v, NEW w, NEW items \in Seq(Item), ScopeGood(items), NEW n \in Nat, n + 1 <= Len(items),
         RestoredTo(v, w, items, n)
  PROVE  RestoredTo(v, Restore(w, items[n + 1]), items, n + 1)
  <1>1. PICK s \in Item : s = items[n + 1]
    OBVIOUS
  <1>2. (s.made <=> ~s.was.here) /\ (~s.was.here => s.was = Absent)
    <2>1. n + 1 \in DOMAIN items
      OBVIOUS
    <2> QED
      BY <1>1, <2>1 DEF ScopeGood
  <1>3. PICK u : u = Restore(w, s)
    OBVIOUS
  <1>4. RestoredOne(w, u, s)
    <2>1. w \in LvType
      BY DEF RestoredTo
    <2> QED
      BY <1>2, <1>3, <2>1, RestoreOne
  <1>5. /\ u \in LvType /\ u.stack = v.stack /\ (u.ok <=> v.ok)
    BY <1>4 DEF RestoredTo, RestoredOne
  <1>6. ASSUME NEW x \in Vars, \A j \in 1..(n + 1) : items[j].name # x
        PROVE  u.vars[x] = v.vars[x]
    <2>1. s.name # x /\ \A j \in 1..n : items[j].name # x
      <3>1. n + 1 \in 1..(n + 1) /\ \A j \in 1..n : j \in 1..(n + 1)
        OBVIOUS
      <3> QED
        BY <1>1, <1>6, <3>1
    <2> QED
      BY <1>4, <2>1 DEF RestoredTo, RestoredOne
  <1>7. ASSUME NEW j \in 1..(n + 1), \A m \in (j + 1)..(n + 1) : items[m].name # items[j].name
        PROVE  u.vars[items[j].name] = items[j].was
    <2>1. CASE j = n + 1
      BY <1>1, <1>4, <2>1 DEF RestoredOne
    <2>2. CASE j # n + 1
      <3>1. j \in 1..n /\ n + 1 \in (j + 1)..(n + 1) /\ j \in DOMAIN items
            /\ \A m \in (j + 1)..n : m \in (j + 1)..(n + 1)
        BY <2>2
      <3>2. items[j].name # s.name /\ \A m \in (j + 1)..n : items[m].name # items[j].name
        BY <1>1, <1>7, <3>1
      <3>3. items[j] \in Item
        BY <3>1
      <3>4. items[j].name \in Vars
        BY <3>3 DEF Item
      <3>5. w.vars[items[j].name] = items[j].was
        BY <3>1, <3>2 DEF RestoredTo
      <3> QED
        BY <1>4, <3>2, <3>4, <3>5 DEF RestoredOne
    <2> QED
      BY <2>1, <2>2
  <1>8. RestoredTo(v, u, items, n + 1)
    BY <1>5, <1>6, <1>7 DEF RestoredTo
  <1> QED
    BY <1>1, <1>3, <1>8

(* The innermost scope ends. *)
PoppedScope(v, w) ==
    LET n == Len(v.stack) IN
    /\ LvGood(w) /\ (w.ok <=> v.ok) /\ w.stack = SubSeq(v.stack, 1, n - 1) /\ Len(w.stack) = n - 1
    /\ \A x \in Vars : (\A k \in DOMAIN v.stack[n] : v.stack[n][k].name # x) => w.vars[x] = v.vars[x]
    /\ \A k \in DOMAIN v.stack[n] :
          (\A m \in DOMAIN v.stack[n] : m > k => v.stack[n][m].name # v.stack[n][k].name) =>
             w.vars[v.stack[n][k].name] = v.stack[n][k].was
LEMMA PopLocalGood ==
  ASSUME NEW v, LvGood(v), v.stack # << >>
  PROVE  PoppedScope(v, poplocalvars(v))
  <1> DEFINE n == Len(v.stack)
  <1>1. v \in LvType /\ v.stack \in Seq(Seq(Item)) /\ n \in 1..n /\ n \in Nat /\ n - 1 \in 0..n
        /\ DOMAIN v.stack = 1..n
    <2>1. v \in LvType
      BY DEF LvGood
    <2>2. v.stack \in Seq(Seq(Item))
      BY <2>1, LvFields
    <2> QED
      BY <2>1, <2>2
  <1>2. PICK items \in Seq(Item) : items = v.stack[n]
    BY <1>1
  <1>3. ScopeGood(items) /\ DOMAIN items = 1..Len(items) /\ Len(items) \in Nat
    <2>1. \A i \in DOMAIN v.stack : ScopeGood(v.stack[i])
      BY DEF LvGood
    <2>2. n \in DOMAIN v.stack
      BY <1>1
    <2> HIDE DEF n
    <2>3. ScopeGood(items)
      BY <1>2, <2>1, <2>2
    <2> QED
      BY <1>2, <2>3
  <1>4. PICK h : PopSteps(v, items, h)
    <2>1. items = v.stack[Len(v.stack)]
      BY <1>2
    <2> QED
      BY <1>3, <2>1, PopLocalSteps
  <1> HIDE DEF n
  <1> DEFINE S == {k \in Nat : k <= Len(items) => RestoredTo(v, h[k], items, k)}
  <1>5. 0 \in S
    <2>1. \A j \in 1..0 : FALSE
      OBVIOUS
    <2> QED
      BY <1>1, <1>4, <2>1 DEF RestoredTo, PopSteps
  <1>6. \A k \in Nat : k \in S => k + 1 \in S
    <2> SUFFICES ASSUME NEW k \in Nat, k \in S, k + 1 <= Len(items)
                 PROVE  RestoredTo(v, h[k + 1], items, k + 1)
      OBVIOUS
    <2>1. RestoredTo(v, h[k], items, k)
      BY <1>3
    <2>2. k + 1 \in 1..Len(items) /\ (k + 1) - 1 = k
      BY <1>3
    <2>3. h[k + 1] = Restore(h[k], items[k + 1])
      BY <1>4, <2>2 DEF PopSteps
    <2>4. RestoredTo(v, Restore(h[k], items[k + 1]), items, k + 1)
      BY <1>3, <2>1, RestoreNext
    <2> QED
      BY <2>3, <2>4
  <1>7. RestoredTo(v, h[Len(items)], items, Len(items))
    <2>1. Len(items) \in S
      <3> HIDE DEF S
      <3> QED
        BY <1>3, <1>5, <1>6, NatSetInduction
    <2> QED
      BY <1>3, <2>1
  <1>8. PICK u : u = h[Len(items)]
    OBVIOUS
  <1>9. PICK w : w = poplocalvars(v)
    OBVIOUS
  <1>10. /\ u \in LvType /\ u.stack = v.stack /\ (u.ok <=> v.ok)
         /\ \A x \in Vars : (\A j \in DOMAIN items : items[j].name # x) => u.vars[x] = v.vars[x]
         /\ \A j \in DOMAIN items :
               (\A m \in DOMAIN items : m > j => items[m].name # items[j].name) =>
                  u.vars[items[j].name] = items[j].was
    <2>1. RestoredTo(v, u, items, Len(items))
      BY <1>7, <1>8
    <2>2. \A j \in DOMAIN items : \A m \in (j + 1)..Len(items) : m \in DOMAIN items /\ m > j
      BY <1>3
    <2> QED
      BY <1>3, <2>1, <2>2 DEF RestoredTo
  <1> DEFINE l == SubSeq(v.stack, 1, n - 1)
  <1>11. /\ l \in Seq(Seq(Item)) /\ Len(l) = n - 1 /\ DOMAIN l = 1..(n - 1)
         /\ \A i \in 1..(n - 1) : l[i] = v.stack[i]
    BY <1>1, Cut DEF n
  <1>12. w = [u EXCEPT !.stack = l]
    BY <1>4, <1>8, <1>9, <1>10 DEF n, PopSteps
  <1> HIDE DEF l
  <1>13. w = [vars |-> u.vars, stack |-> l, ok |-> u.ok]
    <2>1. u = [vars |-> u.vars, stack |-> u.stack, ok |-> u.ok]
      BY <1>10, LvFields
    <2> QED
      BY <1>12, <2>1
  <1>14. /\ w.vars = u.vars /\ w.stack = l /\ (w.ok <=> v.ok)
    BY <1>10, <1>13
  <1>15. w \in LvType
    <2>1. u.vars \in [Vars -> Entry] /\ u.ok \in BOOLEAN
      BY <1>10, LvFields
    <2> QED
      BY <1>11, <1>13, <2>1 DEF LvType
  (* Each variable: as it was, or as the first of its items in the scope has it. *)
  <1>16. \A x \in Vars : \/ w.vars[x] = v.vars[x] /\ \A j \in DOMAIN items : items[j].name # x
                         \/ \E j \in DOMAIN items : items[j].name = x /\ w.vars[x] = items[j].was
    <2> SUFFICES ASSUME NEW x \in Vars, ~(\A j \in DOMAIN items : items[j].name # x)
                 PROVE  \E j \in DOMAIN items : items[j].name = x /\ w.vars[x] = items[j].was
      BY <1>10, <1>14
    <2> DEFINE T == {j \in DOMAIN items : items[j].name = x}
    <2>1. T # {} /\ T \subseteq Int /\ (\A j \in T : j <= Len(items)) /\ Len(items) \in Int
      BY <1>3
    <2>2. Max(T) \in T /\ \A j \in T : j <= Max(T)
      <3> HIDE DEF T
      <3> QED
        BY <2>1, MaxOf
    <2>3. PICK j \in T : j = Max(T)
      BY <2>2
    <2>4. \A m \in DOMAIN items : m > j => items[m].name # items[j].name
      <3> SUFFICES ASSUME NEW m \in DOMAIN items, m > j, items[m].name = items[j].name PROVE FALSE
        OBVIOUS
      <3>1. m \in T /\ m \in Int /\ j \in Int
        BY <1>3
      <3> HIDE DEF T
      <3>2. m <= j
        BY <2>2, <2>3, <3>1
      <3> QED
        BY <3>1, <3>2
    <2> QED
      BY <1>10, <1>14, <2>4
  <1>17. /\ \A x \in Vars : ~v.vars[x].here => v.vars[x] = Absent
         /\ \A i \in 1..n : ScopeGood(v.stack[i])
         /\ \A i \in 1..n : \A k \in DOMAIN v.stack[i] : Pinned(v.vars[v.stack[i][k].name])
         /\ \A i, j \in 1..n : i < j =>
               \A k \in DOMAIN v.stack[i], m \in DOMAIN v.stack[j] :
                   v.stack[i][k].name = v.stack[j][m].name => Pinned(v.stack[j][m].was)
    BY <1>1 DEF LvGood
  <1>18. \A x \in Vars : ~w.vars[x].here => w.vars[x] = Absent
    <2>1. \A j \in DOMAIN items : ~items[j].was.here => items[j].was = Absent
      BY <1>3 DEF ScopeGood
    <2> QED
      BY <1>16, <1>17, <2>1
  <1>19. \A i \in 1..(n - 1) : i \in 1..n /\ i < n /\ l[i] = v.stack[i]
    BY <1>1, <1>11
  <1>20. \A i \in 1..(n - 1) : \A k \in DOMAIN l[i] : Pinned(w.vars[l[i][k].name])
    <2> SUFFICES ASSUME NEW i \in 1..(n - 1), NEW k \in DOMAIN l[i] PROVE Pinned(w.vars[l[i][k].name])
      OBVIOUS
    <2>1. i \in 1..n /\ i < n /\ l[i] = v.stack[i] /\ i \in DOMAIN v.stack
      BY <1>1, <1>19
    <2>2. PICK x \in Vars : x = l[i][k].name
      BY <1>1, <2>1, NoItems
    <2>3. CASE w.vars[x] = v.vars[x]
      BY <1>17, <2>1, <2>2, <2>3
    <2>4. CASE \E j \in DOMAIN items : items[j].name = x /\ w.vars[x] = items[j].was
      <3>1. PICK j \in DOMAIN items : items[j].name = x /\ w.vars[x] = items[j].was
        BY <2>4
      <3>2. Pinned(v.stack[n][j].was)
        BY <1>1, <1>2, <1>17, <2>1, <2>2, <3>1
      <3> QED
        BY <1>2, <2>2, <3>1, <3>2
    <2> QED
      BY <1>16, <2>3, <2>4
  <1>21. LvGood(w)
    <2>1. \A i \in DOMAIN w.stack : ScopeGood(w.stack[i])
      BY <1>11, <1>14, <1>17, <1>19
    <2>2. \A i \in DOMAIN w.stack : \A k \in DOMAIN w.stack[i] : Pinned(w.vars[w.stack[i][k].name])
      BY <1>11, <1>14, <1>20
    <2>3. \A i, j \in DOMAIN w.stack : i < j =>
               \A k \in DOMAIN w.stack[i], m \in DOMAIN w.stack[j] :
                   w.stack[i][k].name = w.stack[j][m].name => Pinned(w.stack[j][m].was)
      <3>1. \A i, j \in 1..(n - 1) : i < j =>
               \A k \in DOMAIN l[i], m \in DOMAIN l[j] : l[i][k].name = l[j][m].name => Pinned(l[j][m].was)
        <4> SUFFICES ASSUME NEW i \in 1..(n - 1), NEW j \in 1..(n - 1), i < j,
                            NEW k \in DOMAIN l[i], NEW m \in DOMAIN l[j], l[i][k].name = l[j][m].name
                     PROVE  Pinned(l[j][m].was)
          OBVIOUS
        <4>1. i \in 1..n /\ j \in 1..n /\ l[i] = v.stack[i] /\ l[j] = v.stack[j]
          BY <1>19
        <4> QED
          BY <1>17, <4>1
      <3>2. DOMAIN l = 1..(n - 1) /\ w.stack = l
        BY <1>11, <1>14
      <3> QED
        BY <3>1, <3>2, Zenon
    <2> QED
      BY <1>15, <1>18, <2>1, <2>2, <2>3 DEF LvGood
  <1>22. PoppedScope(v, w)
    BY <1>2, <1>10, <1>11, <1>14, <1>21 DEF PoppedScope, n, l
  <1> QED
    BY <1>9, <1>22

(* Scopes end until stop are left. *)
LEMMA UnwindLocalGood ==
  ASSUME NEW v, LvGood(v), NEW stop \in Nat, stop <= Len(v.stack)
  PROVE  LvGood(unwindlocalvars(v, stop)) /\ Len(unwindlocalvars(v, stop).stack) = stop
  <1>1. Len(v.stack) \in Nat
    <2>1. v \in LvType
      BY DEF LvGood
    <2>2. v.stack \in Seq(Seq(Item))
      BY <2>1, LvFields
    <2> QED
      BY <2>2
  <1>2. PICK h : /\ h[Len(v.stack)] = v /\ unwindlocalvars(v, stop) = h[stop]
                 /\ \A k \in stop..(Len(v.stack) - 1) : h[k] = poplocalvars(h[k + 1])
    BY <1>1, UnwindLocalSteps
  <1> DEFINE len == Len(v.stack)
             Good(k) == LvGood(h[k]) /\ Len(h[k].stack) = k
             S == {d \in Nat : d <= len - stop => Good(len - d)}
  <1> HIDE DEF Good, len
  <1>3. 0 \in S
    <2>1. len - 0 = len
      BY <1>1 DEF len
    <2>2. Good(len)
      BY <1>2 DEF Good, len
    <2> QED
      BY <2>1, <2>2
  <1>4. \A d \in Nat : d \in S => d + 1 \in S
    <2> SUFFICES ASSUME NEW d \in Nat, d \in S, d + 1 <= len - stop PROVE Good(len - (d + 1))
      OBVIOUS
    <2> DEFINE k == len - (d + 1)
    <2>1. k \in stop..(len - 1) /\ k + 1 = len - d /\ k + 1 > 0 /\ d <= len - stop /\ k \in Nat
      BY <1>1 DEF len
    <2>2. Good(k + 1)
      BY <2>1
    <2> HIDE DEF k
    <2>3. PICK x : x = h[k + 1]
      OBVIOUS
    <2>4. LvGood(x) /\ Len(x.stack) = k + 1 /\ h[k] = poplocalvars(x)
      BY <1>2, <2>1, <2>2, <2>3 DEF Good, len
    <2>5. x.stack # << >>
      BY <2>1, <2>4
    <2>6. PoppedScope(x, poplocalvars(x))
      BY <2>4, <2>5, PopLocalGood
    <2>7. PICK y : y = poplocalvars(x)
      OBVIOUS
    <2>8. LvGood(y) /\ Len(y.stack) = Len(x.stack) - 1
      BY <2>6, <2>7 DEF PoppedScope
    <2>9. Len(y.stack) = k
      BY <2>1, <2>4, <2>8
    <2>10. Good(k)
      BY <2>4, <2>7, <2>8, <2>9 DEF Good
    <2> QED
      BY <2>10 DEF k
  <1>5. Good(stop)
    <2>1. len - stop \in Nat /\ len - (len - stop) = stop /\ len - stop <= len - stop
      BY <1>1 DEF len
    <2>2. len - stop \in S
      <3> HIDE DEF S
      <3> QED
        BY <1>3, <1>4, <2>1, NatSetInduction
    <2> QED
      BY <2>1, <2>2
  <1> QED
    BY <1>2, <1>5 DEF Good

-----------------------------------------------------------------------------
(* Types, and the height of the stacks *)

LEMMA Numbers ==
  /\ MaxDepth \in Nat /\ Statuses \subseteq 0..255 /\ Redirs \subseteq Seq(Redirection)
  /\ LoopErrors \in BOOLEAN /\ TestReturns \in BOOLEAN
  BY EvalAssumption DEF EvalAssumption

LEMMA FrameFields ==
  ASSUME NEW f \in FrameType
  PROVE  /\ f.kind \in Kinds /\ f.stop.redir \in Nat /\ f.stop.local \in Nat /\ f.stop.file \in Nat
         /\ f.saveloopnest \in Int /\ f.status \in 0..255
         /\ f \in WithRedir <=> f.redir
         /\ f \in WithLocal <=> (IsCall(f) /\ ~f.spclbltin)
         /\ f \in WithFile <=> f.kind \in {"eval", "dot"}
         /\ IsLoop(f) => ~f.redir
         /\ f.kind = "block" => f.redir
         /\ f.test => f.kind = "while"
  BY DEF FrameType, WithRedir, WithLocal, WithFile

LEMMA Lengths ==
  ASSUME FramesType, DataType
  PROVE  /\ Len(frames) \in Nat /\ DOMAIN frames = 1..Len(frames) /\ Depth = Len(frames)
         /\ Len(rd.list) \in Nat /\ Len(lv.stack) \in Nat /\ Len(files) \in Nat
         /\ \A i \in 1..Len(frames) : frames[i] \in FrameType
  <1>1. lv.stack \in Seq(Seq(Item))
    <2>1. lv \in LvType
      BY DEF DataType, LvGood
    <2> QED
      BY <2>1, LvFields
  <1> QED
    BY <1>1 DEF FramesType, DataType, Depth, IsRd

(* A new frame. *)
IsNew(f, kind, spclbltin, rs) ==
    /\ f \in FrameType /\ f.kind = kind /\ (f.spclbltin <=> spclbltin)
    /\ (f.redir <=> rs # << >>)
    /\ f.stop.redir = Len(rd.list) /\ f.stop.local = Len(lv.stack) /\ f.stop.file = Len(files)
    /\ f.saveloopnest = loopnest /\ ~f.test
LEMMA NewFrame ==
  ASSUME Types, NEW kind \in Kinds, NEW spclbltin \in BOOLEAN, NEW rs,
         kind \in {"while", "for"} => rs = << >>, kind = "block" => rs # << >>,
         NEW f, f = Frame(kind, spclbltin, rs)
  PROVE  IsNew(f, kind, spclbltin, rs)
  <1>1. Stops \in [redir : Nat, file : Nat, local : Nat]
    BY Lengths DEF Types, Stops
  <1>2. loopnest \in Int
    BY DEF Types, ControlType
  <1>3. 0 \in 0..255
    OBVIOUS
  <1>4. f \in FrameType
    BY <1>1, <1>2, <1>3 DEF Frame, FrameType, IsLoop
  <1> QED
    BY <1>4 DEF Frame, Stops, IsNew

LEMMA FilesCut ==
  ASSUME files \in Seq(Place), NEW n \in Nat, n <= Len(files)
  PROVE  SubSeq(files, 1, n) \in Seq(Place) /\ Len(SubSeq(files, 1, n)) = n
  <1>1. n \in 0..Len(files)
    OBVIOUS
  <1> QED
    BY <1>1, Cut

LEMMA UnwindFilesRd ==
  ASSUME NEW r, IsRd(r), NEW fs, NEW stop
  PROVE  SameList(r, unwindfiles(r, fs, stop)) /\ (unwindfiles(r, fs, stop).ok <=> r.ok)
  <1>1. \E o : unwindfiles(r, fs, stop) = [r EXCEPT !.ofile = o]
    BY DEF unwindfiles
  <1>2. PICK o : unwindfiles(r, fs, stop) = [r EXCEPT !.ofile = o]
    BY <1>1
  <1>3. SameList(r, [r EXCEPT !.ofile = o])
    BY RdFiles
  <1>4. [r EXCEPT !.ofile = o].ok <=> r.ok
    BY DEF IsRd
  <1> QED
    BY <1>2, <1>3, <1>4

(* The end of evalcommand(): everything is as high as it was.              *)
LEMMA OutKeeps ==
  ASSUME FramesType, DataType, NEW f \in FrameType, NEW r, NEW v, IsRd(r), LvGood(v),
         f.stop.redir + (IF f.redir THEN 1 ELSE 0) <= Len(r.list),
         f.stop.local <= Len(v.stack), f.stop.file <= Len(files),
         r.ok \/ f.stop.redir < Len(r.list),
         Out(f, r, v)
  PROVE  /\ DataType' /\ Len(rd'.list) = f.stop.redir /\ Len(lv'.stack) = f.stop.local
         /\ Len(files') = f.stop.file
  <1> DEFINE p == IF f.redir THEN popredir(r, FALSE) ELSE r
  <1>0. /\ f.stop.redir \in Nat /\ f.stop.local \in Nat /\ f.stop.file \in Nat
        /\ Len(r.list) \in Nat /\ files \in Seq(Place) /\ Len(files) \in Nat
    BY FrameFields, Lengths DEF IsRd, DataType
  <1>1. IsRd(p) /\ f.stop.redir <= Len(p.list) /\ (p.ok \/ f.stop.redir < Len(p.list))
    <2>1. CASE f.redir
      <3>1. r.list # << >>
        BY <1>0, <2>1
      <3>2. /\ IsRd(popredir(r, FALSE)) /\ Len(popredir(r, FALSE).list) = Len(r.list) - 1
            /\ popredir(r, FALSE).ok
        BY <3>1, PopRd
      <3>3. PICK q : q = popredir(r, FALSE)
        OBVIOUS
      <3>4. IsRd(q) /\ Len(q.list) = Len(r.list) - 1 /\ q.ok
        BY <3>2, <3>3
      <3>5. p = q
        BY <2>1, <3>3
      <3>6. f.stop.redir <= Len(q.list)
        BY <1>0, <2>1, <3>4
      <3> QED
        BY <3>4, <3>5, <3>6
    <2>2. CASE ~f.redir
      BY <1>0, <2>2
    <2> QED
      BY <2>1, <2>2
  <1>2. PICK u : u = unwindredir(p, f.stop.redir)
    OBVIOUS
  <1> HIDE DEF p
  <1>3. IsRd(u) /\ Len(u.list) = f.stop.redir /\ (u = p \/ u.ok)
    BY <1>0, <1>1, <1>2, UnwindRd
  <1>4. u.ok
    <2>1. CASE u = p
      BY <1>0, <1>1, <1>3, <2>1
    <2> QED
      BY <1>3, <2>1
  <1>5. rd' = unwindfiles(u, files, f.stop.file)
    BY <1>2 DEF Out, p
  <1>6. IsRd(rd') /\ rd'.list = u.list /\ rd'.ok
    BY <1>3, <1>4, <1>5, UnwindFilesRd DEF SameList
  <1>7. PICK w : w = unwindlocalvars(v, f.stop.local)
    OBVIOUS
  <1>8. LvGood(w) /\ Len(w.stack) = f.stop.local
    BY <1>0, <1>7, UnwindLocalGood
  <1>9. lv' = [w EXCEPT !.ok = TRUE]
    BY <1>7 DEF Out
  <1>10. LvGood(lv') /\ lv'.stack = w.stack /\ lv'.ok
    BY <1>8, <1>9, OkGood
  <1>11. files' \in Seq(Place) /\ Len(files') = f.stop.file
    <2>1. files' = SubSeq(files, 1, f.stop.file)
      BY DEF Out
    <2> QED
      BY <1>0, <2>1, FilesCut
  <1> QED
    BY <1>3, <1>6, <1>8, <1>10, <1>11 DEF DataType

(* The handler of an exception is a frame. *)
LEMMA Handler ==
  ASSUME FramesType, NEW e, {i \in DOMAIN frames : Catches(e, frames[i])} # {}
  PROVE  LET i == Max({i \in DOMAIN frames : Catches(e, frames[i])}) IN
         i \in 1..Len(frames) /\ Catches(e, frames[i])
  <1> DEFINE H == {i \in DOMAIN frames : Catches(e, frames[i])}
  <1>1. Len(frames) \in Int /\ H \subseteq 1..Len(frames) /\ \A i \in H : Catches(e, frames[i])
    BY DEF FramesType
  <1>2. H \subseteq Int /\ (\A x \in H : x <= Len(frames)) /\ H # {}
    BY <1>1
  <1>3. Max(H) \in H
    <2> HIDE DEF H
    <2> QED
      BY <1>1, <1>2, MaxOf
  <1> QED
    BY <1>1, <1>3

LEMMA NestAfterType ==
  ASSUME FramesType, loopnest \in Int, NEW i \in 1..Len(frames)
  PROVE  NestAfter(frames, i) \in Int
  <1> DEFINE funs == {j \in i..Len(frames) : frames[j].kind = "function"}
  <1>1. CASE funs = {}
    BY <1>1 DEF NestAfter
  <1>2. CASE funs # {}
    <2>1. funs \subseteq Int /\ (\A x \in funs : i <= x) /\ i \in Int
      OBVIOUS
    <2>2. Min(funs) \in funs
      <3> HIDE DEF funs
      <3> QED
        BY <1>2, <2>1, MinOf
    <2>3. Min(funs) \in 1..Len(frames)
      BY <2>2 DEF FramesType
    <2>4. frames[Min(funs)] \in FrameType
      <3> HIDE DEF funs
      <3> QED
        BY <2>3 DEF FramesType
    <2>5. frames[Min(funs)].saveloopnest \in Int
      <3> HIDE DEF funs
      <3> QED
        BY <2>4, FrameFields
    <2> QED
      BY <1>2, <2>5 DEF NestAfter
  <1> QED
    BY <1>1, <1>2

(* What an exception leaves. *)
LEMMA RaisedKeeps ==
  ASSUME Types, Stacks, pc = "run", NEW e, NEW r, NEW v, IsRd(r), LvGood(v),
         Len(rd.list) <= Len(r.list), Len(lv.stack) <= Len(v.stack),
         r.ok \/ Len(rd.list) < Len(r.list),
         Exraise(e, frames, r, v), iflag' = iflag, skipcount' = skipcount, exitstatus' \in 0..255
  PROVE  Types' /\ Stacks'
  <1>0. ControlType /\ FramesType /\ DataType
    BY DEF Types
  <1>1. /\ Len(frames) \in Nat /\ DOMAIN frames = 1..Len(frames) /\ Depth = Len(frames)
        /\ Len(rd.list) \in Nat /\ Len(lv.stack) \in Nat /\ Len(files) \in Nat
        /\ \A i \in 1..Len(frames) : frames[i] \in FrameType
    BY <1>0, Lengths
  <1> DEFINE H == {i \in DOMAIN frames : Catches(e, frames[i])}
  <1>2. CASE H # {}
    <2>1. PICK i \in 1..Len(frames) : i = Max(H) /\ Catches(e, frames[i])
      BY <1>0, <1>2, Handler
    <2>2. /\ frames' = SubSeq(frames, 1, i - 1) /\ Out(frames[i], r, v)
          /\ loopnest' = NestAfter(frames, i) /\ pc' = pc /\ evalskip' = evalskip /\ goal' = goal
      BY <1>2, <2>1 DEF Exraise
    <2>3. PICK f \in FrameType : f = frames[i]
      BY <1>1
    <2>4. Stacked(frames, Len(rd.list), Len(lv.stack), Len(files))
      BY DEF Stacks
    <2>5. /\ Stacked(frames', f.stop.redir, f.stop.local, f.stop.file)
          /\ f.stop.redir + (IF f \in WithRedir THEN 1 ELSE 0) <= Len(rd.list)
          /\ f.stop.local + (IF f \in WithLocal THEN 1 ELSE 0) <= Len(lv.stack)
          /\ f.stop.file + (IF f \in WithFile THEN 1 ELSE 0) <= Len(files)
      <3>1. frames \in Seq(FrameType)
        BY <1>0 DEF FramesType
      <3>2. /\ Stacked(SubSeq(frames, 1, i - 1), frames[i].stop.redir, frames[i].stop.local,
                       frames[i].stop.file)
            /\ frames[i].stop.redir + (IF frames[i] \in WithRedir THEN 1 ELSE 0) <= Len(rd.list)
            /\ frames[i].stop.local + (IF frames[i] \in WithLocal THEN 1 ELSE 0) <= Len(lv.stack)
            /\ frames[i].stop.file + (IF frames[i] \in WithFile THEN 1 ELSE 0) <= Len(files)
        BY <2>4, <3>1, CutFrames
      <3> QED
        BY <2>2, <2>3, <3>2
    <2>6. Len(r.list) \in Nat /\ Len(v.stack) \in Nat
      <3>1. v.stack \in Seq(Seq(Item))
        BY LvFields DEF LvGood
      <3> QED
        BY <3>1 DEF IsRd
    <2>7. /\ f.stop.redir \in Nat /\ f.stop.local \in Nat /\ f.stop.file \in Nat
          /\ (f \in WithRedir <=> f.redir)
      BY FrameFields
    <2>8. /\ f.stop.redir + (IF f.redir THEN 1 ELSE 0) <= Len(r.list)
          /\ f.stop.local <= Len(v.stack) /\ f.stop.file <= Len(files)
          /\ (r.ok \/ f.stop.redir < Len(r.list))
      <3>1. f.stop.redir <= Len(rd.list) /\ f.stop.local <= Len(lv.stack) /\ f.stop.file <= Len(files)
        BY <1>1, <2>5, <2>7, SMTT(20)
      <3>2. f.stop.local <= Len(v.stack)
        BY <1>1, <2>6, <2>7, <3>1
      <3>3. f.stop.redir + (IF f.redir THEN 1 ELSE 0) <= Len(r.list)
        <4>1. CASE f.redir
          <5>1. f.stop.redir + 1 <= Len(rd.list)
            BY <2>5, <2>7, <4>1
          <5> QED
            BY <1>1, <2>6, <2>7, <4>1, <5>1, SMTT(20)
        <4>2. CASE ~f.redir
          BY <1>1, <2>6, <2>7, <3>1, <4>2
        <4> QED
          BY <4>1, <4>2
      <3>4. CASE r.ok
        BY <3>1, <3>2, <3>3, <3>4
      <3>5. CASE Len(rd.list) < Len(r.list)
        <4>1. f.stop.redir < Len(r.list)
          BY <1>1, <2>6, <2>7, <3>1, <3>5
        <4> QED
          BY <3>1, <3>2, <3>3, <4>1
      <3> QED
        BY <3>4, <3>5
    <2>9. /\ DataType' /\ Len(rd'.list) = f.stop.redir /\ Len(lv'.stack) = f.stop.local
          /\ Len(files') = f.stop.file
      BY <1>0, <2>2, <2>3, <2>8, OutKeeps
    <2>10. FramesType'
      <3>1. i - 1 \in 0..Len(frames) /\ frames \in Seq(FrameType)
        BY <1>0, <1>1 DEF FramesType
      <3>2. frames' \in Seq(FrameType) /\ Len(frames') = i - 1
        BY <2>2, <3>1, Cut
      <3> QED
        BY <1>0, <1>1, <3>2, Numbers DEF FramesType, Depth
    <2>11. ControlType'
      <3>1. loopnest' \in Int
        BY <1>0, <2>2, NestAfterType DEF ControlType
      <3> QED
        BY <1>0, <2>2, <3>1 DEF ControlType
    <2>12. Stacks'
      BY <2>5, <2>9 DEF Stacks
    <2> QED
      BY <2>9, <2>10, <2>11, <2>12 DEF Types
  <1>3. CASE H = {}
    <2>1. /\ frames' = << >> /\ goal' = NoGoal /\ pc' \in {"run", "exit"}
          /\ evalskip' = None /\ loopnest' = 0
      BY <1>3 DEF Exraise, exitreset
    <2>2. ControlType' /\ FramesType'
      <3>1. NoGoal \in GoalType
        BY Numbers DEF NoGoal, GoalType
      <3> QED
        BY <1>0, <2>1, <3>1, Numbers DEF ControlType, FramesType, Depth
    <2>3. PICK u : u = unwindredir(r, 0)
      OBVIOUS
    <2>4. IsRd(u) /\ Len(u.list) = 0 /\ u.ok
      <3>1. 0 \in Nat /\ 0 <= Len(r.list)
        BY DEF IsRd
      <3>2. IsRd(u) /\ Len(u.list) = 0 /\ (u = r \/ u.ok)
        BY <2>3, <3>1, UnwindRd
      <3>3. CASE u = r
        BY <1>1, <3>2, <3>3
      <3> QED
        BY <3>2, <3>3
    <2>5. CASE iflag /\ e \in {"EXERROR", "EXINT"}
      <3>1. /\ pc' = "run" /\ files' = << >> /\ rd' = unwindfiles(u, files, 0)
            /\ lv' = [unwindlocalvars(v, 0) EXCEPT !.ok = TRUE]
        BY <1>3, <2>3, <2>5 DEF Exraise
      <3>2. IsRd(rd') /\ rd'.list = u.list /\ rd'.ok
        BY <2>4, <3>1, UnwindFilesRd DEF SameList
      <3>3. PICK w : w = unwindlocalvars(v, 0)
        OBVIOUS
      <3>4. LvGood(w) /\ Len(w.stack) = 0
        <4>1. 0 \in Nat /\ 0 <= Len(v.stack)
          <5>1. v.stack \in Seq(Seq(Item))
            BY LvFields DEF LvGood
          <5> QED
            BY <5>1
        <4> QED
          BY <3>3, <4>1, UnwindLocalGood
      <3>5. LvGood(lv') /\ lv'.stack = w.stack /\ lv'.ok
        BY <3>1, <3>3, <3>4, OkGood
      <3>6. DataType'
        BY <3>1, <3>2, <3>5 DEF DataType
      <3>7. Stacks'
        <4>1. Len(frames') = 0 /\ DOMAIN frames' = {} /\ Len(files') = 0
          BY <2>1, <3>1
        <4>2. /\ Height(frames', 0, WithRedir) = 0 /\ Height(frames', 0, WithLocal) = 0
              /\ Height(frames', 0, WithFile) = 0
          BY Heights
        <4>3. Len(rd'.list) = 0 /\ Len(lv'.stack) = 0
          BY <2>4, <3>2, <3>4, <3>5
        <4> QED
          BY <4>1, <4>2, <4>3 DEF Stacks, Stacked
      <3> QED
        BY <2>2, <3>6, <3>7 DEF Types
    <2>6. CASE ~(iflag /\ e \in {"EXERROR", "EXINT"})
      <3>1. /\ pc' = "exit" /\ files' = files /\ rd' = u /\ lv' = [v EXCEPT !.ok = TRUE]
        BY <1>3, <2>3, <2>6 DEF Exraise, exitreset
      <3>2. LvGood(lv') /\ lv'.ok
        BY <3>1, OkGood
      <3>3. DataType'
        BY <1>0, <2>4, <3>1, <3>2 DEF DataType
      <3> QED
        BY <2>2, <3>1, <3>3 DEF Types, Stacks
    <2> QED
      BY <2>5, <2>6
  <1> QED
    BY <1>2, <1>3

-----------------------------------------------------------------------------
(* Steps that begin and end constructs *)

LEMMA Unpacked ==
  ASSUME Types
  PROVE  /\ ControlType /\ FramesType /\ DataType /\ frames \in Seq(FrameType)
         /\ Len(frames) \in Nat /\ DOMAIN frames = 1..Len(frames) /\ Depth = Len(frames)
         /\ Len(rd.list) \in Nat /\ Len(lv.stack) \in Nat /\ Len(files) \in Nat
         /\ IsRd(rd) /\ rd.ok /\ LvGood(lv) /\ lv.ok /\ files \in Seq(Place)
         /\ pc \in {"run", "exit"} /\ iflag \in BOOLEAN /\ evalskip \in Skips \cup {None}
         /\ skipcount \in Int /\ loopnest \in Int /\ exitstatus \in 0..255 /\ goal \in GoalType
         /\ (Depth > 0 => Top \in FrameType)
  <1>1. ControlType /\ FramesType /\ DataType
    BY DEF Types
  <1>2. /\ Len(frames) \in Nat /\ DOMAIN frames = 1..Len(frames) /\ Depth = Len(frames)
        /\ Len(rd.list) \in Nat /\ Len(lv.stack) \in Nat /\ Len(files) \in Nat
        /\ \A i \in 1..Len(frames) : frames[i] \in FrameType
    BY <1>1, Lengths
  <1>3. Depth > 0 => Top \in FrameType
    <2>1. Depth > 0 => Depth \in 1..Len(frames)
      BY <1>2
    <2> QED
      BY <1>2, <2>1 DEF Top
  <1> QED
    BY <1>1, <1>2, <1>3 DEF ControlType, FramesType, DataType

(* Frames and stacks stay as they are. *)
LEMMA SameShape ==
  ASSUME Types, Stacks, pc = "run", ControlType', DataType', frames' = frames,
         Len(rd'.list) = Len(rd.list), Len(lv'.stack) = Len(lv.stack), Len(files') = Len(files)
  PROVE  Types' /\ Stacks'
  <1>1. FramesType'
    BY Unpacked DEF FramesType, Depth
  <1>2. Stacks'
    BY DEF Stacks
  <1> QED
    BY <1>1, <1>2 DEF Types

LEMMA PushKeeps ==
  ASSUME Types, Stacks, pc = "run", Depth < MaxDepth, ControlType', DataType',
         NEW f \in FrameType, frames' = Append(frames, f),
         f.stop.redir = Len(rd.list), f.stop.local = Len(lv.stack), f.stop.file = Len(files),
         Len(rd'.list) = Len(rd.list) + (IF f.redir THEN 1 ELSE 0),
         Len(lv'.stack) = Len(lv.stack) + (IF IsCall(f) /\ ~f.spclbltin THEN 1 ELSE 0),
         Len(files') = Len(files) + (IF f.kind \in {"eval", "dot"} THEN 1 ELSE 0)
  PROVE  Types' /\ Stacks'
  <1>1. frames \in Seq(FrameType) /\ Len(frames) \in Nat /\ Depth = Len(frames) /\ MaxDepth \in Nat
    BY Unpacked, Numbers
  <1>2. FramesType'
    <2>1. frames' \in Seq(FrameType) /\ Len(frames') = Len(frames) + 1
      BY <1>1, Appended
    <2> QED
      BY <1>1, <2>1 DEF FramesType, Depth
  <1>3. /\ f \in WithRedir <=> f.redir
        /\ f \in WithLocal <=> (IsCall(f) /\ ~f.spclbltin)
        /\ f \in WithFile <=> f.kind \in {"eval", "dot"}
    BY FrameFields
  <1>4. Stacked(frames, Len(rd.list), Len(lv.stack), Len(files))
    BY DEF Stacks
  <1>5. Stacked(Append(frames, f), Len(rd.list) + (IF f \in WithRedir THEN 1 ELSE 0),
                Len(lv.stack) + (IF f \in WithLocal THEN 1 ELSE 0),
                Len(files) + (IF f \in WithFile THEN 1 ELSE 0))
    BY <1>1, <1>4, PushFrame
  <1>6. /\ Len(rd'.list) = Len(rd.list) + (IF f \in WithRedir THEN 1 ELSE 0)
        /\ Len(lv'.stack) = Len(lv.stack) + (IF f \in WithLocal THEN 1 ELSE 0)
        /\ Len(files') = Len(files) + (IF f \in WithFile THEN 1 ELSE 0)
    BY <1>3
  <1>7. Stacked(frames', Len(rd'.list), Len(lv'.stack), Len(files'))
    BY <1>5, <1>6
  <1> QED
    BY <1>2, <1>7 DEF Types, Stacks

(* What the innermost frame stands for. *)
LEMMA TopFrame ==
  ASSUME Types, Stacks, pc = "run", Depth > 0
  PROVE  /\ Top \in FrameType
         /\ Top.stop.redir \in Nat /\ Top.stop.local \in Nat /\ Top.stop.file \in Nat
         /\ Len(rd.list) = Top.stop.redir + (IF Top.redir THEN 1 ELSE 0)
         /\ Len(lv.stack) = Top.stop.local + (IF IsCall(Top) /\ ~Top.spclbltin THEN 1 ELSE 0)
         /\ Len(files) = Top.stop.file + (IF Top.kind \in {"eval", "dot"} THEN 1 ELSE 0)
  <1> DEFINE n == Depth - 1
  <1>1. /\ n \in Nat /\ n + 1 = Depth /\ Depth \in DOMAIN frames /\ Depth = Len(frames)
        /\ Top \in FrameType /\ frames[Depth] = Top
    BY Unpacked DEF Top
  <1>2. Stacked(frames, Len(rd.list), Len(lv.stack), Len(files))
    BY DEF Stacks
  <1>3. /\ Top.stop.redir = Height(frames, n, WithRedir)
        /\ Top.stop.local = Height(frames, n, WithLocal)
        /\ Top.stop.file = Height(frames, n, WithFile)
        /\ Len(rd.list) = Height(frames, Depth, WithRedir)
        /\ Len(lv.stack) = Height(frames, Depth, WithLocal)
        /\ Len(files) = Height(frames, Depth, WithFile)
    BY <1>1, <1>2 DEF Stacked
  <1>4. \A P : Height(frames, n + 1, P) = Height(frames, n, P) + (IF frames[n + 1] \in P THEN 1 ELSE 0)
    <2>1. n \in Nat
      BY <1>1
    <2> HIDE DEF n
    <2> QED
      BY <2>1, Heights
  <1>5. /\ Height(frames, Depth, WithRedir) =
             Height(frames, n, WithRedir) + (IF Top \in WithRedir THEN 1 ELSE 0)
        /\ Height(frames, Depth, WithLocal) =
             Height(frames, n, WithLocal) + (IF Top \in WithLocal THEN 1 ELSE 0)
        /\ Height(frames, Depth, WithFile) =
             Height(frames, n, WithFile) + (IF Top \in WithFile THEN 1 ELSE 0)
    <2> HIDE DEF n
    <2> QED
      BY <1>1, <1>4
  <1>6. /\ Top \in WithRedir <=> Top.redir
        /\ Top \in WithLocal <=> (IsCall(Top) /\ ~Top.spclbltin)
        /\ Top \in WithFile <=> Top.kind \in {"eval", "dot"}
        /\ Top.stop.redir \in Nat /\ Top.stop.local \in Nat /\ Top.stop.file \in Nat
    BY <1>1, FrameFields
  <1> QED
    BY <1>1, <1>3, <1>5, <1>6

LEMMA PopKeeps ==
  ASSUME Types, Stacks, pc = "run", Depth > 0, ControlType', DataType', frames' = Outer,
         Len(rd'.list) = Top.stop.redir, Len(lv'.stack) = Top.stop.local,
         Len(files') = Top.stop.file
  PROVE  Types' /\ Stacks'
  <1>1. /\ frames \in Seq(FrameType) /\ Len(frames) \in Nat /\ Depth = Len(frames)
        /\ MaxDepth \in Nat /\ Depth <= MaxDepth
        /\ Depth \in 1..Len(frames) /\ Depth - 1 \in 0..Len(frames)
    BY Unpacked, Numbers DEF FramesType
  <1>2. FramesType'
    <2>1. frames' \in Seq(FrameType) /\ Len(frames') = Depth - 1
      BY <1>1, Cut DEF Outer
    <2> QED
      BY <1>1, <2>1 DEF FramesType, Depth
  <1>3. Stacked(frames, Len(rd.list), Len(lv.stack), Len(files))
    BY DEF Stacks
  <1>4. Stacked(SubSeq(frames, 1, Depth - 1), frames[Depth].stop.redir, frames[Depth].stop.local,
                frames[Depth].stop.file)
    BY <1>1, <1>3, CutFrames
  <1>5. Stacked(frames', Len(rd'.list), Len(lv'.stack), Len(files'))
    BY <1>4 DEF Outer, Top
  <1> QED
    BY <1>2, <1>5 DEF Types, Stacks

(* The innermost frame goes on. *)
LEMMA TopChanged ==
  ASSUME Types, Stacks, pc = "run", Depth > 0, ControlType', DataType',
         NEW f \in FrameType, frames' = [frames EXCEPT ![Depth] = f],
         f.stop = Top.stop, f.redir <=> Top.redir, f.spclbltin <=> Top.spclbltin,
         IsCall(f) <=> IsCall(Top),
         Len(rd'.list) = Len(rd.list), Len(lv'.stack) = Len(lv.stack),
         Len(files') = Top.stop.file + (IF f.kind \in {"eval", "dot"} THEN 1 ELSE 0)
  PROVE  Types' /\ Stacks'
  <1> DEFINE n == Depth - 1
  <1>0. PICK gs : gs = frames'
    OBVIOUS
  <1>1. /\ frames \in Seq(FrameType) /\ Len(frames) \in Nat /\ Depth = Len(frames)
        /\ Depth \in 1..Len(frames) /\ Depth <= MaxDepth /\ Top \in FrameType
        /\ n \in Nat /\ n + 1 = Depth
    BY Unpacked DEF FramesType
  <1>2. /\ gs \in Seq(FrameType) /\ Len(gs) = Len(frames)
        /\ \A i \in 1..Len(frames) : gs[i] = IF i = Depth THEN f ELSE frames[i]
    BY <1>0, <1>1, Updated
  <1>3. FramesType'
    BY <1>0, <1>1, <1>2 DEF FramesType, Depth
  <1>4. Stacked(frames, Len(rd.list), Len(lv.stack), Len(files))
    BY DEF Stacks
  <1>5. /\ f \in WithRedir <=> Top \in WithRedir
        /\ f \in WithLocal <=> Top \in WithLocal
        /\ f \in WithFile <=> f.kind \in {"eval", "dot"}
    BY <1>1, FrameFields
  <1>6. Len(files') = Height(gs, Len(gs), WithFile)
    <2>1. n \in Nat /\ \A j \in 1..n : gs[j] = frames[j]
      BY <1>1, <1>2
    <2>2. Height(gs, n + 1, WithFile) =
            Height(frames, n, WithFile) + (IF gs[n + 1] \in WithFile THEN 1 ELSE 0)
      <3> HIDE DEF n
      <3> QED
        BY ONLY <2>1, HeightsPushed
    <2>3. Top.stop.file = Height(frames, n, WithFile)
      <3>1. Depth \in DOMAIN frames
        BY <1>1
      <3> QED
        BY <1>4, <3>1 DEF Stacked, Top
    <2>4. gs[n + 1] = f /\ Len(gs) = n + 1
      BY <1>1, <1>2
    <2> HIDE DEF n
    <2> QED
      BY <1>5, <2>1, <2>2, <2>3, <2>4
  <1>7. \A i \in 1..Len(frames) : /\ gs[i].stop = frames[i].stop
                                  /\ gs[i] \in WithRedir <=> frames[i] \in WithRedir
                                  /\ gs[i] \in WithLocal <=> frames[i] \in WithLocal
    BY <1>1, <1>2, <1>5 DEF Top
  <1>8. \A i \in 1..(Len(frames) - 1) : gs[i] \in WithFile <=> frames[i] \in WithFile
    BY <1>1, <1>2
  <1>9. Stacked(gs, Len(rd.list), Len(lv.stack), Len(files'))
    <2> QED
      BY <1>1, <1>2, <1>4, <1>6, <1>7, <1>8, SameStacks
  <1> QED
    BY <1>0, <1>3, <1>9 DEF Types, Stacks

-----------------------------------------------------------------------------
(* Every step leaves the stacks as high as the frames make them *)

LEMMA StepLoop ==
  ASSUME Types, Stacks, While \/ For
  PROVE  Types' /\ Stacks'
  <1>1. /\ pc = "run" /\ Depth < MaxDepth /\ loopnest' = loopnest + 1 /\ pc' = pc /\ iflag' = iflag
        /\ evalskip' = evalskip /\ skipcount' = skipcount /\ exitstatus' = exitstatus
        /\ rd' = rd /\ lv' = lv /\ files' = files /\ goal' = goal
    BY DEF While, For, Running
  <1>2. ControlType' /\ DataType'
    BY <1>1, Unpacked DEF ControlType, DataType
  <1>3. \E f \in FrameType :
           /\ frames' = Append(frames, f) /\ f.kind \in {"while", "for"} /\ ~f.redir
           /\ f.stop.redir = Len(rd.list) /\ f.stop.local = Len(lv.stack) /\ f.stop.file = Len(files)
    <2>1. CASE While
      <3>1. "while" \in Kinds
        BY DEF Kinds
      <3>2. PICK g : g = Frame("while", FALSE, << >>)
        OBVIOUS
      <3>3. /\ g \in FrameType /\ g.kind = "while" /\ ~g.redir
            /\ g.stop.redir = Len(rd.list) /\ g.stop.local = Len(lv.stack) /\ g.stop.file = Len(files)
        <4>1. IsNew(g, "while", FALSE, << >>)
          BY <3>1, <3>2, NewFrame
        <4> QED
          BY <4>1 DEF IsNew
      <3>4. PICK f : f = [g EXCEPT !.test = TRUE]
        OBVIOUS
      <3>5. f \in FrameType /\ f.kind = g.kind /\ f.stop = g.stop /\ (f.redir <=> g.redir)
        BY <3>3, <3>4 DEF FrameType, IsLoop
      <3>6. frames' = Append(frames, f)
        BY <2>1, <3>2, <3>4 DEF While
      <3> QED
        BY <3>3, <3>5, <3>6
    <2>2. CASE For
      <3>1. "for" \in Kinds
        BY DEF Kinds
      <3>2. PICK g : g = Frame("for", FALSE, << >>)
        OBVIOUS
      <3>3. /\ g \in FrameType /\ g.kind = "for" /\ ~g.redir
            /\ g.stop.redir = Len(rd.list) /\ g.stop.local = Len(lv.stack) /\ g.stop.file = Len(files)
        <4>1. IsNew(g, "for", FALSE, << >>)
          BY <3>1, <3>2, NewFrame
        <4> QED
          BY <4>1 DEF IsNew
      <3>4. frames' = Append(frames, g)
        BY <2>2, <3>2 DEF For
      <3> QED
        BY <3>3, <3>4
    <2> QED
      BY <2>1, <2>2
  <1>4. PICK f \in FrameType :
           /\ frames' = Append(frames, f) /\ f.kind \in {"while", "for"} /\ ~f.redir
           /\ f.stop.redir = Len(rd.list) /\ f.stop.local = Len(lv.stack) /\ f.stop.file = Len(files)
    BY <1>3
  <1>5. ~IsCall(f) /\ f.kind \notin {"eval", "dot"}
    BY <1>4 DEF IsCall
  <1>6. /\ Len(rd'.list) = Len(rd.list) + (IF f.redir THEN 1 ELSE 0)
        /\ Len(lv'.stack) = Len(lv.stack) + (IF IsCall(f) /\ ~f.spclbltin THEN 1 ELSE 0)
        /\ Len(files') = Len(files) + (IF f.kind \in {"eval", "dot"} THEN 1 ELSE 0)
    <2>1. Len(rd.list) \in Nat /\ Len(lv.stack) \in Nat /\ Len(files) \in Nat
      BY Unpacked
    <2> QED
      BY <1>1, <1>4, <1>5, <2>1
  <1> QED
    BY <1>1, <1>2, <1>4, <1>6, PushKeeps

(* redirect() of a command *)
LEMMA Redirected ==
  ASSUME Types, NEW rs \in Redirs, NEW r, r = redirect(pushredir(rd, rs), rs)
  PROVE  /\ IsRd(r) /\ Len(r.list) \in Nat
         /\ Len(r.list) = Len(rd.list) + (IF rs = << >> THEN 0 ELSE 1)
         /\ (rs = << >> => r.ok)
  <1>1. rs \in Seq(Redirection)
    BY Numbers
  <1>2. IsRd(rd) /\ rd.ok /\ Len(rd.list) \in Nat
    BY Unpacked
  <1>3. PICK p : p = pushredir(rd, rs)
    OBVIOUS
  <1>4. IsRd(p) /\ Len(p.list) = Len(rd.list) + (IF rs = << >> THEN 0 ELSE 1)
    BY <1>2, <1>3, PushRd
  <1>5. rs # << >> => p.list # << >>
    <2>1. rs # << >> => Len(p.list) = Len(rd.list) + 1
      BY <1>4
    <2> QED
      BY <1>2, <2>1
  <1>6. IsRd(r) /\ Len(r.list) = Len(p.list)
    BY <1>1, <1>3, <1>4, <1>5, RedirectRd
  <1>7. rs = << >> => r.ok
    <2> SUFFICES ASSUME rs = << >> PROVE r.ok
      OBVIOUS
    <2>1. p = rd
      BY <1>3 DEF pushredir
    <2>2. Len(rs) = 0
      OBVIOUS
    <2>3. r = redirect(rd, rs)
      BY <1>3, <2>1
    <2>4. r = rd
      <3>1. 0 \in Nat /\ Len(rs) \in Nat
        BY <2>2
      <3>2. \E h : h[0] = rd /\ redirect(rd, rs) = h[Len(rs)]
        BY <3>1, RedirectSteps
      <3> QED
        BY <2>2, <2>3, <3>2
    <2> QED
      BY <1>2, <2>4
  <1>8. Len(r.list) \in Nat
    BY <1>6 DEF IsRd
  <1> QED
    BY <1>4, <1>6, <1>7, <1>8

LEMMA StepBlock ==
  ASSUME Types, Stacks, NEW rs \in Redirs \ {<< >>}, Block(rs)
  PROVE  Types' /\ Stacks'
  <1>1. PICK r : r = redirect(pushredir(rd, rs), rs)
    OBVIOUS
  <1>2. IsRd(r) /\ Len(r.list) \in Nat /\ Len(r.list) = Len(rd.list) + 1 /\ Len(rd.list) \in Nat
    BY <1>1, Redirected, Unpacked
  <1>3. /\ pc = "run" /\ Depth < MaxDepth /\ loopnest' = loopnest /\ pc' = pc /\ iflag' = iflag
        /\ evalskip' = evalskip /\ skipcount' = skipcount
        /\ lv' = lv /\ files' = files /\ goal' = goal
    BY DEF Block, Running
  <1>4. CASE r.ok
    <2>1. frames' = Append(frames, Frame("block", FALSE, rs)) /\ rd' = r /\ exitstatus' = exitstatus
      BY <1>1, <1>4 DEF Block
    <2>2. ControlType' /\ DataType'
      BY <1>2, <1>3, <1>4, <2>1, Unpacked DEF ControlType, DataType
    <2>3. "block" \in Kinds /\ rs # << >>
      BY DEF Kinds
    <2>4. PICK f : f = Frame("block", FALSE, rs)
      OBVIOUS
    <2>5. /\ f \in FrameType /\ f.kind = "block" /\ f.redir
          /\ f.stop.redir = Len(rd.list) /\ f.stop.local = Len(lv.stack) /\ f.stop.file = Len(files)
      <3>1. IsNew(f, "block", FALSE, rs)
        <4>1. "block" \notin {"while", "for"}
          OBVIOUS
        <4> QED
          BY <2>3, <2>4, <4>1, NewFrame
      <3> QED
        BY <2>3, <3>1 DEF IsNew
    <2>6. ~IsCall(f) /\ f.kind \notin {"eval", "dot"}
      BY <2>5 DEF IsCall
    <2>7. /\ Len(rd'.list) = Len(rd.list) + (IF f.redir THEN 1 ELSE 0)
          /\ Len(lv'.stack) = Len(lv.stack) + (IF IsCall(f) /\ ~f.spclbltin THEN 1 ELSE 0)
          /\ Len(files') = Len(files) + (IF f.kind \in {"eval", "dot"} THEN 1 ELSE 0)
      <3>1. Len(rd.list) \in Nat /\ Len(lv.stack) \in Nat /\ Len(files) \in Nat
        BY Unpacked
      <3> QED
        BY <1>2, <1>3, <2>1, <2>5, <2>6, <3>1
    <2>8. frames' = Append(frames, f)
      BY <2>1, <2>4
    <2> QED
      BY <1>3, <2>2, <2>5, <2>7, <2>8, PushKeeps
  <1>5. CASE ~r.ok
    <2>1. frames' = frames /\ rd' = popredir(r, FALSE) /\ exitstatus' = 2
      BY <1>1, <1>5 DEF Block
    <2>2. r.list # << >>
      BY <1>2
    <2>3. IsRd(rd') /\ Len(rd'.list) = Len(r.list) - 1 /\ rd'.ok
      <3>1. /\ IsRd(popredir(r, FALSE)) /\ Len(popredir(r, FALSE).list) = Len(r.list) - 1
            /\ popredir(r, FALSE).ok
        BY <1>2, <2>2, PopRd
      <3> QED
        BY <2>1, <3>1
    <2>4. ControlType' /\ DataType'
      <3>1. ControlType'
        BY <1>3, <2>1, Unpacked DEF ControlType
      <3>2. DataType'
        BY <1>3, <2>3, Unpacked DEF DataType
      <3> QED
        BY <3>1, <3>2
    <2>5. Len(rd'.list) = Len(rd.list)
      BY <1>2, <2>3
    <2> QED
      BY <1>3, <2>1, <2>4, <2>5, SameShape
  <1> QED
    BY <1>4, <1>5

LEMMA ErrorKeeps ==
  ASSUME Types, Stacks, pc = "run", NEW r, NEW v, IsRd(r), LvGood(v),
         Len(rd.list) <= Len(r.list), Len(lv.stack) <= Len(v.stack),
         r.ok \/ Len(rd.list) < Len(r.list),
         Error(frames, r, v), iflag' = iflag, skipcount' = skipcount
  PROVE  Types' /\ Stacks'
  <1>1. Exraise("EXERROR", frames, r, v) /\ exitstatus' \in 0..255
    BY DEF Error
  <1> QED
    BY <1>1, RaisedKeeps

(* The variables of a call: a scope of its own, and the assignment. *)
CallScope(v1, v2, local) ==
    /\ LvGood(v1) /\ Len(v1.stack) = Len(lv.stack) + (IF local THEN 1 ELSE 0)
    /\ LvGood(v2) /\ Len(v2.stack) = Len(v1.stack)
LEMMA CallVars ==
  ASSUME Types, NEW local \in BOOLEAN, NEW as \in {<< >>} \cup (Vars \X Values),
         NEW v1, v1 = pushlocalvars(lv, local), NEW v2, v2 = Assigned(v1, local, as)
  PROVE  CallScope(v1, v2, local)
  <1>1. LvGood(lv) /\ lv.ok /\ lv \in LvType /\ Len(lv.stack) \in Nat
    BY Unpacked DEF LvGood
  <1>2. LvGood(v1)
    BY <1>1, PushLocalGood
  <1>3. /\ Len(v1.stack) = Len(lv.stack) + (IF local THEN 1 ELSE 0) /\ v1.ok
        /\ v1.stack = IF local THEN Append(lv.stack, << >>) ELSE lv.stack
    BY <1>1, PushLocalType
  <1>4. LvGood(v2) /\ Len(v2.stack) = Len(v1.stack)
    <2>1. CASE as = << >>
      BY <1>2, <2>1 DEF Assigned
    <2>2. CASE as # << >>
      <3>1. PICK x \in Vars : x = as[1]
        BY <2>2
      <3>2. PICK value \in Values : value = as[2]
        BY <2>2
      <3>3. CASE local
        <4>1. PICK S : S = {"export"}
          OBVIOUS
        <4>2. v2 = mklocal(v1, x, value, S)
          BY <2>2, <3>1, <3>2, <3>3, <4>1 DEF Assigned
        <4>3. S \in SUBSET Flags
          BY <4>1 DEF Flags
        <4>4. v1.stack # << >>
          <5>1. Len(v1.stack) = Len(lv.stack) + 1
            BY <1>3, <3>3
          <5> QED
            BY <1>1, <5>1
        <4>5. value \in Values \cup {Unset, NoValue}
          OBVIOUS
        <4>6. /\ LvGood(mklocal(v1, x, value, S))
              /\ Len(mklocal(v1, x, value, S).stack) = Len(v1.stack)
          <5>1. v1.ok
            BY <1>3
          <5> QED
            BY <1>2, <4>3, <4>4, <4>5, <5>1, MklocalGood
        <4> QED
          BY <4>2, <4>6
      <3>4. CASE ~local
        <4>1. PICK S : S = {}
          OBVIOUS
        <4>2. v2 = setvareq(v1, x, value, S)
          BY <2>2, <3>1, <3>2, <3>4, <4>1 DEF Assigned
        <4>3. S \in SUBSET Flags
          BY <4>1
        <4>4. value \in Values \cup {Unset}
          OBVIOUS
        <4>5. LvGood(v2) /\ v2.stack = v1.stack
          BY <1>2, <4>2, <4>3, <4>4, SetVarGood
        <4> QED
          BY <4>5
      <3> QED
        BY <3>3, <3>4
    <2> QED
      BY <2>1, <2>2
  <1> QED
    BY <1>2, <1>3, <1>4 DEF CallScope

LEMMA StepCall ==
  ASSUME Types, Stacks, NEW kind \in {"function", "eval", "dotcmd"}, NEW command \in BOOLEAN,
         NEW rs \in Redirs, NEW as \in {<< >>} \cup (Vars \X Values),
         Call(kind, command, rs, as)
  PROVE  Types' /\ Stacks'
  <1>1. PICK b \in BOOLEAN : b <=> (kind # "function" /\ ~command)
    OBVIOUS
  <1>2. PICK local \in BOOLEAN : local <=> ~b
    OBVIOUS
  <1>3. PICK f : f = Frame(kind, b, rs)
    OBVIOUS
  <1>4. PICK r : r = redirect(pushredir(rd, rs), rs)
    OBVIOUS
  <1>5. PICK v1 : v1 = pushlocalvars(lv, local)
    OBVIOUS
  <1>6. PICK v2 : v2 = Assigned(v1, local, as)
    OBVIOUS
  <1>7. b = (kind # "function" /\ ~command) /\ local = ~b
    BY <1>1, <1>2
  <1>8. /\ pc = "run" /\ Depth < MaxDepth /\ iflag' = iflag /\ skipcount' = skipcount
        /\ IF r.ok /\ v2.ok THEN Enter(f, r, v2)
           ELSE IF ~r.ok /\ ~b
           THEN exitstatus' = 2 /\ Out(f, r, v1) /\ UNCHANGED <<pc, frames, evalskip, loopnest, goal>>
           ELSE Error(frames, r, IF r.ok THEN v2 ELSE v1)
    BY <1>3, <1>4, <1>5, <1>6, <1>7 DEF Call, Running
  <1>9. /\ IsRd(r) /\ Len(r.list) \in Nat /\ Len(rd.list) \in Nat
        /\ Len(r.list) = Len(rd.list) + (IF rs = << >> THEN 0 ELSE 1)
        /\ (rs = << >> => r.ok)
    BY <1>4, Redirected, Unpacked
  <1>10. /\ LvGood(v1) /\ Len(v1.stack) = Len(lv.stack) + (IF local THEN 1 ELSE 0)
         /\ LvGood(v2) /\ Len(v2.stack) = Len(v1.stack)
    <2>1. CallScope(v1, v2, local)
      BY <1>5, <1>6, CallVars
    <2> QED
      BY <2>1 DEF CallScope
  <1>11. Len(lv.stack) \in Nat /\ Len(files) \in Nat /\ files \in Seq(Place) /\ FramesType /\ DataType
    BY Unpacked
  <1>12. IsNew(f, kind, b, rs)
    <2>1. kind \in Kinds /\ kind \notin {"while", "for"} /\ kind # "block"
      BY DEF Kinds
    <2> QED
      BY <1>3, <2>1, NewFrame
  <1>13. /\ f \in FrameType /\ f.kind = kind /\ (f.spclbltin <=> b) /\ (f.redir <=> rs # << >>)
         /\ f.stop.redir = Len(rd.list) /\ f.stop.local = Len(lv.stack) /\ f.stop.file = Len(files)
    BY <1>12 DEF IsNew
  <1>14. IsCall(f)
    BY <1>13 DEF IsCall
  <1>15. Len(rd.list) <= Len(r.list) /\ (r.ok \/ Len(rd.list) < Len(r.list))
    <2>1. CASE rs = << >>
      BY <1>9, <2>1
    <2>2. CASE rs # << >>
      BY <1>9, <2>2
    <2> QED
      BY <2>1, <2>2
  <1>16. Len(lv.stack) <= Len(v1.stack) /\ Len(lv.stack) <= Len(v2.stack)
    <2>1. CASE local
      BY <1>10, <1>11, <2>1
    <2>2. CASE ~local
      BY <1>10, <1>11, <2>2
    <2> QED
      BY <2>1, <2>2
  <1>17. CASE r.ok /\ v2.ok
    <2>1. /\ frames' = Append(frames, f) /\ lv' = v2 /\ rd' = r
          /\ pc' = pc /\ evalskip' = evalskip /\ exitstatus' = exitstatus /\ goal' = goal
          /\ loopnest' \in {0, loopnest}
          /\ files' = IF f.kind = "eval" THEN Append(files, -1) ELSE files
      BY <1>8, <1>13, <1>17 DEF Enter
    <2>2. files' \in Seq(Place) /\ Len(files') = Len(files) + (IF f.kind \in {"eval", "dot"} THEN 1 ELSE 0)
      <3>1. CASE f.kind = "eval"
        <4>1. -1 \in Place
          BY DEF Place, CLOSED
        <4>2. PICK c \in Place : c = -1
          BY <4>1
        <4>3. files' = Append(files, c)
          BY <2>1, <3>1, <4>2
        <4>4. files' \in Seq(Place) /\ Len(files') = Len(files) + 1
          BY <1>11, <4>3, Appended
        <4> QED
          BY <3>1, <4>4
      <3>2. CASE f.kind # "eval"
        <4>1. f.kind \notin {"eval", "dot"} /\ files' = files
          BY <1>13, <2>1, <3>2
        <4> QED
          BY <1>11, <4>1
      <3> QED
        BY <3>1, <3>2
    <2>3. ControlType'
      <3>1. loopnest' \in Int
        BY <2>1, Unpacked
      <3> QED
        BY <1>8, <2>1, <3>1, Unpacked DEF ControlType
    <2>4. DataType'
      BY <1>9, <1>10, <1>17, <2>1, <2>2 DEF DataType
    <2>5. Len(rd'.list) = Len(rd.list) + (IF f.redir THEN 1 ELSE 0)
      BY <1>9, <1>13, <2>1
    <2>6. Len(lv'.stack) = Len(lv.stack) + (IF IsCall(f) /\ ~f.spclbltin THEN 1 ELSE 0)
      BY <1>2, <1>10, <1>13, <1>14, <2>1
    <2> QED
      BY <1>8, <1>13, <2>1, <2>2, <2>3, <2>4, <2>5, <2>6, PushKeeps
  <1>18. CASE ~(r.ok /\ v2.ok) /\ ~r.ok /\ ~b
    <2>1. /\ exitstatus' = 2 /\ Out(f, r, v1) /\ pc' = pc /\ frames' = frames /\ evalskip' = evalskip
          /\ loopnest' = loopnest /\ goal' = goal
      BY <1>8, <1>18
    <2>2. f.stop.redir + (IF f.redir THEN 1 ELSE 0) <= Len(r.list)
      BY <1>9, <1>13
    <2>3. f.stop.local <= Len(v1.stack) /\ f.stop.file <= Len(files)
      BY <1>11, <1>13, <1>16
    <2>4. r.ok \/ f.stop.redir < Len(r.list)
      BY <1>13, <1>15
    <2>5. /\ DataType' /\ Len(rd'.list) = f.stop.redir /\ Len(lv'.stack) = f.stop.local
          /\ Len(files') = f.stop.file
      BY <1>9, <1>10, <1>11, <1>13, <2>1, <2>2, <2>3, <2>4, OutKeeps
    <2>6. ControlType'
      BY <1>8, <2>1, Unpacked DEF ControlType
    <2> QED
      BY <1>8, <1>13, <2>1, <2>5, <2>6, SameShape
  <1>19. CASE ~(r.ok /\ v2.ok) /\ ~(~r.ok /\ ~b)
    <2>1. PICK v : v = IF r.ok THEN v2 ELSE v1
      OBVIOUS
    <2>2. Error(frames, r, v)
      BY <1>8, <1>19, <2>1
    <2>3. LvGood(v) /\ Len(lv.stack) <= Len(v.stack)
      BY <1>10, <1>16, <2>1
    <2> QED
      BY <1>8, <1>9, <1>15, <2>2, <2>3, ErrorKeeps
  <1> QED
    BY <1>17, <1>18, <1>19

LEMMA StepOpen ==
  ASSUME Types, Stacks, OpenScript
  PROVE  Types' /\ Stacks'
  <1>1. pc = "run" /\ Depth > 0 /\ Top.kind = "dotcmd" /\ iflag' = iflag /\ skipcount' = skipcount
    BY DEF OpenScript
  <1>2. /\ IsRd(rd) /\ rd.ok /\ LvGood(lv) /\ lv.ok /\ Len(rd.list) \in Nat /\ Len(lv.stack) \in Nat
        /\ files \in Seq(Place) /\ Len(files) \in Nat
    BY Unpacked
  <1>3. CASE Error(frames, rd, lv)
    BY <1>1, <1>2, <1>3, ErrorKeeps
  <1>4. CASE /\ frames' = [frames EXCEPT ![Depth].kind = "dot"]
             /\ rd' = [rd EXCEPT !.ofile[Lowest(rd, 10)] = Scripts]
             /\ files' = Append(files, Lowest(rd, 10))
             /\ UNCHANGED <<pc, evalskip, loopnest, exitstatus, lv, goal>>
    <2>1. PICK d \in Place : d = Lowest(rd, 10)
      BY LowestPlace
    <2>2. files' \in Seq(Place) /\ Len(files') = Len(files) + 1
      <3>1. files' = Append(files, d)
        BY <1>4, <2>1
      <3> QED
        BY <1>2, <3>1, Appended
    <2>3. IsRd(rd') /\ rd'.list = rd.list /\ rd'.ok
      <3>1. rd' = [rd EXCEPT !.ofile[d] = Scripts]
        BY <1>4, <2>1
      <3>2. SameList(rd, rd')
        BY <1>2, <3>1, RdOfile
      <3>3. rd'.ok <=> rd.ok
        BY <1>2, <3>1 DEF IsRd
      <3> QED
        BY <1>2, <3>2, <3>3 DEF SameList
    <2>4. ControlType' /\ DataType'
      BY <1>1, <1>2, <1>4, <2>2, <2>3, Unpacked DEF ControlType, DataType
    <2>5. /\ Top \in FrameType /\ Top = frames[Depth] /\ Len(files) = Top.stop.file /\ Top.stop.file \in Nat
      BY <1>1, TopFrame DEF Top
    <2>6. PICK f : f = [Top EXCEPT !.kind = "dot"]
      OBVIOUS
    <2>7. /\ f \in FrameType /\ f.kind = "dot" /\ f.stop = Top.stop /\ (f.redir <=> Top.redir)
          /\ (f.spclbltin <=> Top.spclbltin)
      <3>1. /\ f.kind = "dot" /\ f.stop = Top.stop /\ (f.redir <=> Top.redir)
            /\ (f.spclbltin <=> Top.spclbltin) /\ (f.test <=> Top.test)
        BY <2>5, <2>6 DEF FrameType
      <3>2. ~f.test
        BY <1>1, <2>5, <3>1, FrameFields
      <3>3. f \in [kind : Kinds, spclbltin : BOOLEAN, redir : BOOLEAN,
                   stop : [redir : Nat, file : Nat, local : Nat],
                   saveloopnest : Int, test : BOOLEAN, status : 0..255]
        BY <2>5, <2>6, ZenonT(40) DEF FrameType, Kinds
      <3>4. f \in FrameType
        BY <3>1, <3>2, <3>3 DEF FrameType, IsLoop
      <3> QED
        BY <3>1, <3>4
    <2>8. IsCall(f) /\ IsCall(Top)
      BY <1>1, <2>7 DEF IsCall
    <2>9. frames' = [frames EXCEPT ![Depth] = f]
      BY <1>4, <2>5, <2>6
    <2>10. /\ Len(rd'.list) = Len(rd.list) /\ Len(lv'.stack) = Len(lv.stack)
           /\ Len(files') = Top.stop.file + (IF f.kind \in {"eval", "dot"} THEN 1 ELSE 0)
      BY <1>4, <2>2, <2>3, <2>5, <2>7
    <2> QED
      BY <1>1, <2>4, <2>7, <2>8, <2>9, <2>10, TopChanged
  <1> QED
    BY <1>3, <1>4 DEF OpenScript

LEMMA StepExec ==
  ASSUME Types, Stacks, NEW command \in BOOLEAN, NEW rs \in Redirs \ {<< >>}, Exec(command, rs)
  PROVE  Types' /\ Stacks'
  <1>1. PICK r : r = redirect(pushredir(rd, rs), rs)
    OBVIOUS
  <1>2. IsRd(r) /\ Len(r.list) \in Nat /\ Len(r.list) = Len(rd.list) + 1 /\ Len(rd.list) \in Nat
    BY <1>1, Redirected, Unpacked
  <1>3. /\ pc = "run" /\ iflag' = iflag /\ skipcount' = skipcount
        /\ IF r.ok \/ command
           THEN /\ rd' = popredir(r, TRUE) /\ exitstatus' = (IF r.ok THEN 0 ELSE 2)
                /\ UNCHANGED <<pc, frames, evalskip, loopnest, lv, files, goal>>
           ELSE Error(frames, r, lv)
    BY <1>1 DEF Exec, Running
  <1>4. CASE r.ok \/ command
    <2>1. /\ rd' = popredir(r, TRUE) /\ exitstatus' \in {0, 2} /\ pc' = pc /\ frames' = frames
          /\ evalskip' = evalskip /\ loopnest' = loopnest /\ lv' = lv /\ files' = files /\ goal' = goal
      BY <1>3, <1>4
    <2>2. r.list # << >>
      BY <1>2
    <2>3. IsRd(rd') /\ Len(rd'.list) = Len(r.list) - 1 /\ rd'.ok
      <3>1. /\ IsRd(popredir(r, TRUE)) /\ Len(popredir(r, TRUE).list) = Len(r.list) - 1
            /\ popredir(r, TRUE).ok
        BY <1>2, <2>2, PopRd
      <3> QED
        BY <2>1, <3>1
    <2>4. ControlType'
      BY <1>3, <2>1, Unpacked DEF ControlType
    <2>5. DataType'
      BY <2>1, <2>3, Unpacked DEF DataType
    <2>6. Len(rd'.list) = Len(rd.list)
      BY <1>2, <2>3
    <2> QED
      BY <1>3, <2>1, <2>4, <2>5, <2>6, SameShape
  <1>5. CASE ~(r.ok \/ command)
    <2>1. Error(frames, r, lv)
      BY <1>3, <1>5
    <2>2. /\ LvGood(lv) /\ Len(lv.stack) \in Nat /\ Len(lv.stack) <= Len(lv.stack)
          /\ Len(rd.list) <= Len(r.list) /\ Len(rd.list) < Len(r.list)
      BY <1>2, Unpacked
    <2> QED
      BY <1>2, <1>3, <2>1, <2>2, ErrorKeeps
  <1> QED
    BY <1>4, <1>5

(* What becomes of the variables is what a command makes of them. *)
LEMMA StepSetVars ==
  ASSUME Types, Stacks, NEW v, LvGood(v), Len(v.stack) = Len(lv.stack), SetVars(v)
  PROVE  Types' /\ Stacks'
  <1>1. pc = "run" /\ iflag' = iflag /\ skipcount' = skipcount
    BY DEF SetVars, Running
  <1>2. CASE v.ok
    <2>1. /\ lv' = v /\ exitstatus' = 0 /\ pc' = pc /\ frames' = frames /\ rd' = rd
          /\ evalskip' = evalskip /\ loopnest' = loopnest /\ files' = files /\ goal' = goal
      BY <1>2 DEF SetVars
    <2>2. ControlType'
      BY <1>1, <2>1, Unpacked DEF ControlType
    <2>3. DataType'
      BY <1>2, <2>1, Unpacked DEF DataType
    <2> QED
      BY <1>1, <2>1, <2>2, <2>3, SameShape
  <1>3. CASE ~v.ok
    <2>1. Error(frames, rd, v)
      BY <1>3 DEF SetVars
    <2>2. /\ IsRd(rd) /\ rd.ok /\ Len(rd.list) <= Len(rd.list) /\ Len(lv.stack) <= Len(v.stack)
      BY Unpacked
    <2> QED
      BY <1>1, <2>1, <2>2, ErrorKeeps
  <1> QED
    BY <1>2, <1>3

LEMMA StepVariable ==
  ASSUME Types, Stacks, NEW x \in Vars, VarCommand(x)
  PROVE  Types' /\ Stacks'
  <1>0. LvGood(lv) /\ lv.ok
    BY Unpacked
  <1>1. CASE \E value \in Values \cup {Unset} : SetVars(setvareq(lv, x, value, {}))
    <2>1. PICK value \in Values \cup {Unset} : SetVars(setvareq(lv, x, value, {}))
      BY <1>1
    <2>2. PICK S \in SUBSET Flags : S = {}
      OBVIOUS
    <2>3. PICK v : v = setvareq(lv, x, value, S)
      OBVIOUS
    <2>4. LvGood(v) /\ v.stack = lv.stack
      BY <1>0, <2>3, SetVarGood
    <2>5. SetVars(v)
      BY <2>1, <2>2, <2>3
    <2> QED
      BY <2>4, <2>5, StepSetVars
  <1>2. CASE \E flag \in Marks : SetVars(exportcmd(lv, x, flag))
    <2>1. PICK flag \in Marks : SetVars(exportcmd(lv, x, flag))
      BY <1>2
    <2>2. PICK v : v = exportcmd(lv, x, flag)
      OBVIOUS
    <2>3. LvGood(v) /\ v.stack = lv.stack
      BY <1>0, <2>2, ExportGood
    <2>4. SetVars(v)
      BY <2>1, <2>2
    <2> QED
      BY <2>3, <2>4, StepSetVars
  <1>3. CASE lv.stack = << >> /\ SetVars(Failed(lv))
    <2>1. PICK v : v = Failed(lv)
      OBVIOUS
    <2>2. LvGood(v) /\ v.stack = lv.stack
      BY <1>0, <2>1, OkGood
    <2>3. SetVars(v)
      BY <1>3, <2>1
    <2> QED
      BY <2>2, <2>3, StepSetVars
  <1>4. CASE \E value \in Values \cup {NoValue} : lv.stack # << >> /\ SetVars(mklocal(lv, x, value, {}))
    <2>1. PICK value \in Values \cup {NoValue} : lv.stack # << >> /\ SetVars(mklocal(lv, x, value, {}))
      BY <1>4
    <2>2. PICK S \in SUBSET Flags : S = {}
      OBVIOUS
    <2>3. PICK v : v = mklocal(lv, x, value, S)
      OBVIOUS
    <2>4. value \in Values \cup {Unset, NoValue}
      OBVIOUS
    <2>5. LvGood(mklocal(lv, x, value, S)) /\ Len(mklocal(lv, x, value, S).stack) = Len(lv.stack)
      BY <1>0, <2>1, <2>4, MklocalGood
    <2>6. SetVars(v) /\ LvGood(v) /\ Len(v.stack) = Len(lv.stack)
      BY <2>1, <2>2, <2>3, <2>5
    <2> QED
      BY <2>6, StepSetVars
  <1> QED
    BY <1>1, <1>2, <1>3, <1>4 DEF VarCommand

-----------------------------------------------------------------------------
(* The nth loop around a command *)

LEMMA LoopsNow ==
  ASSUME FramesType
  PROVE  /\ Loops = LoopsTo(frames, Depth) /\ Loops \subseteq 1..Depth /\ Loops \subseteq Int
         /\ IsFiniteSet(Loops) /\ Cardinality(Loops) \in Nat /\ Depth \in Nat /\ Depth <= MaxDepth
  <1>1. Depth \in Nat /\ DOMAIN frames = 1..Depth /\ Depth <= MaxDepth
    BY DEF FramesType, Depth
  <1>2. Loops = LoopsTo(frames, Depth)
    BY <1>1 DEF Loops, LoopsTo
  <1>3. /\ LoopsTo(frames, Depth) \subseteq 1..Depth /\ IsFiniteSet(LoopsTo(frames, Depth))
        /\ Cardinality(LoopsTo(frames, Depth)) \in Nat
    BY <1>1, LoopsFinite
  <1> QED
    BY <1>1, <1>2, <1>3

(* How many of a finite set are at or above one of them. *)
Upper(L, i) == {j \in L : j >= i}
UpperFacts(L) ==
    /\ \A i \in L : IsFiniteSet(Upper(L, i)) /\ Cardinality(Upper(L, i)) \in Nat
    /\ \E i \in L : Cardinality(Upper(L, i)) = 1
    /\ Min(L) \in L /\ Upper(L, Min(L)) = L
    /\ (\E i \in L : Cardinality(Upper(L, i)) = 2) \/ Cardinality(Upper(L, Min(L))) = 1
LEMMA UpperOnes ==
  ASSUME NEW L, L \subseteq Int, IsFiniteSet(L), L # {}, NEW b \in Int, \A x \in L : x <= b,
         NEW c \in Int, \A x \in L : c <= x
  PROVE  UpperFacts(L)
  <1>1. Max(L) \in L /\ \A y \in L : y <= Max(L)
    BY MaxOf
  <1>2. Min(L) \in L /\ \A y \in L : Min(L) <= y
    BY MinOf
  <1>3. \A i \in L : IsFiniteSet(Upper(L, i)) /\ Cardinality(Upper(L, i)) \in Nat
    <2>1. \A i \in L : Upper(L, i) \subseteq L
      BY DEF Upper
    <2> QED
      BY <2>1, FS_Subset, FS_CardinalityType
  <1>4. Upper(L, Min(L)) = L
    <2>1. PICK m \in L : m = Min(L)
      BY <1>2
    <2>2. \A y \in L : y >= m
      BY <1>2, <2>1
    <2> QED
      BY <2>1, <2>2 DEF Upper
  <1>5. PICK m \in L : \A y \in L : y <= m
    BY <1>1
  <1>6. Upper(L, m) = {m}
    <2>1. m \in Int /\ \A y \in L : y \in Int
      OBVIOUS
    <2>2. \A y : y \in Upper(L, m) <=> y = m
      <3> SUFFICES ASSUME NEW y PROVE y \in Upper(L, m) <=> y = m
        OBVIOUS
      <3>1. y \in L => y <= m /\ y \in Int
        BY <1>5, <2>1
      <3> QED
        BY <2>1, <3>1 DEF Upper
    <2> QED
      BY <2>2
  <1>7. Cardinality({m}) = 1
    BY FS_Singleton
  <1>8. (\E i \in L : Cardinality(Upper(L, i)) = 2) \/ Cardinality(Upper(L, Min(L))) = 1
    <2>1. CASE L = {m}
      BY <1>4, <1>7, <2>1
    <2>2. CASE L # {m}
      <3> DEFINE R == L \ {m}
      <3>1. R \subseteq Int /\ R # {} /\ R \subseteq L /\ \A x \in R : x <= b
        BY <2>2
      <3>2. Max(R) \in R /\ \A y \in R : y <= Max(R)
        <4> HIDE DEF R
        <4> QED
          BY <3>1, MaxOf
      <3>3. PICK i \in R : \A y \in R : y <= i
        BY <3>2
      <3>4. Upper(L, i) = {i, m} /\ i # m
        <4>1. m \in Int /\ i \in Int /\ i # m /\ i \in L /\ i <= m
          BY <1>5
        <4>2. \A y : y \in Upper(L, i) <=> y \in {i, m}
          <5> SUFFICES ASSUME NEW y PROVE y \in Upper(L, i) <=> y \in {i, m}
            OBVIOUS
          <5>1. y \in L => y = m \/ (y <= i /\ y \in Int)
            BY <3>3
          <5> QED
            BY <4>1, <5>1 DEF Upper
        <4> QED
          BY <4>1, <4>2
      <3>5. Cardinality({i, m}) = 2
        <4>1. {i, m} = {i} \cup {m} /\ m \notin {i}
          BY <3>4
        <4>2. IsFiniteSet({i}) /\ Cardinality({i}) = 1
          BY FS_Singleton
        <4>3. Cardinality({i} \cup {m}) = Cardinality({i}) + 1
          BY <4>1, <4>2, FS_AddElement
        <4> QED
          BY <4>1, <4>2, <4>3
      <3> QED
        BY <3>4, <3>5
    <2> QED
      BY <2>1, <2>2
  <1> QED
    BY <1>2, <1>3, <1>4, <1>5, <1>6, <1>7, <1>8 DEF UpperFacts

LEMMA NthLoop ==
  ASSUME FramesType, Loops # {}, NEW n \in 1..2
  PROVE  /\ Nth(n) \in Loops /\ Nth(n) \in 0..MaxDepth
         /\ \/ Cardinality(Upper(Loops, Nth(n))) = n
            \/ Cardinality(Upper(Loops, Nth(n))) < n /\ Upper(Loops, Nth(n)) = Loops
         /\ Cardinality(Upper(Loops, Nth(n))) <= Cardinality(Loops)
  <1>1. /\ Loops \subseteq 1..Depth /\ Loops \subseteq Int /\ IsFiniteSet(Loops) /\ Depth \in Nat
        /\ Depth <= MaxDepth /\ MaxDepth \in Nat
    BY LoopsNow, Numbers
  <1>2. \A x \in Loops : 1 <= x /\ x <= Depth
    BY <1>1
  <1>3. /\ \A i \in Loops : IsFiniteSet(Upper(Loops, i)) /\ Cardinality(Upper(Loops, i)) \in Nat
        /\ \E i \in Loops : Cardinality(Upper(Loops, i)) = 1
        /\ Min(Loops) \in Loops /\ Upper(Loops, Min(Loops)) = Loops
        /\ (\E i \in Loops : Cardinality(Upper(Loops, i)) = 2) \/ Cardinality(Upper(Loops, Min(Loops))) = 1
    <2>1. PICK L : L = Loops
      OBVIOUS
    <2>2. UpperFacts(L)
      <3>1. 1 \in Int /\ Depth \in Int /\ (\A x \in L : x <= Depth) /\ (\A x \in L : 1 <= x)
        BY <1>1, <1>2, <2>1
      <3>2. L \subseteq Int /\ IsFiniteSet(L) /\ L # {}
        BY <1>1, <2>1
      <3> QED
        BY <3>1, <3>2, UpperOnes
    <2> QED
      BY <2>1, <2>2 DEF UpperFacts
  <1>4. Nth(n) = CHOOSE i \in Loops :
                    \/ Cardinality(Upper(Loops, i)) = n
                    \/ Cardinality(Upper(Loops, i)) < n /\ i = Min(Loops)
    BY DEF Nth, Upper
  <1>5. \E i \in Loops : \/ Cardinality(Upper(Loops, i)) = n
                         \/ Cardinality(Upper(Loops, i)) < n /\ i = Min(Loops)
    <2>1. CASE n = 1
      BY <1>3, <2>1
    <2>2. CASE n = 2
      BY <1>3, <2>2
    <2> QED
      BY <2>1, <2>2
  <1>6. /\ Nth(n) \in Loops
        /\ \/ Cardinality(Upper(Loops, Nth(n))) = n
           \/ Cardinality(Upper(Loops, Nth(n))) < n /\ Nth(n) = Min(Loops)
    BY <1>4, <1>5
  <1>7. Cardinality(Upper(Loops, Nth(n))) <= Cardinality(Loops)
    <2>1. Upper(Loops, Nth(n)) \subseteq Loops
      BY DEF Upper
    <2> QED
      BY <1>1, <2>1, FS_Subset
  <1>8. Nth(n) \in 0..MaxDepth
    <2>1. PICK i \in Loops : i = Nth(n)
      BY <1>6
    <2>2. i \in 1..Depth
      BY <1>1
    <2>3. i \in 0..MaxDepth
      BY <1>1, <2>2
    <2> QED
      BY <2>1, <2>3
  <1> QED
    BY <1>3, <1>6, <1>7, <1>8

-----------------------------------------------------------------------------

LEMMA MinTwo ==
  ASSUME NEW a \in Int, NEW b \in Int
  PROVE  Min({a, b}) = IF a <= b THEN a ELSE b
  <1> DEFINE S == {a, b}
             c == IF a <= b THEN a ELSE b
  <1>1. S \subseteq Int /\ S # {} /\ c \in Int /\ \A x \in S : c <= x
    OBVIOUS
  <1>2. Min(S) \in S /\ \A y \in S : Min(S) <= y
    <2> HIDE DEF S, c
    <2> QED
      BY <1>1, MinOf
  <1>3. PICK m : m = Min(S)
    OBVIOUS
  <1>4. (m = a \/ m = b) /\ m <= a /\ m <= b
    BY <1>2, <1>3
  <1> QED
    BY <1>3, <1>4

LEMMA StepBreak ==
  ASSUME Types, Stacks, NEW skip \in {"SKIPBREAK", "SKIPCONT"}, NEW n \in 1..2, breakcmd(skip, n)
  PROVE  Types' /\ Stacks'
  <1>1. /\ pc = "run" /\ pc' = pc /\ iflag' = iflag /\ frames' = frames /\ loopnest' = loopnest
        /\ rd' = rd /\ lv' = lv /\ files' = files /\ exitstatus' = 0
    BY DEF breakcmd, Running
  <1>2. Count(n) \in Int
    <2>1. n \in Int /\ loopnest \in Int
      BY Unpacked
    <2> QED
      BY <2>1, MinTwo DEF Count
  <1>3. evalskip' \in Skips \cup {None} /\ skipcount' \in Int
    BY <1>2, Unpacked DEF breakcmd, Skips
  <1>4. goal' \in GoalType
    <2>1. CASE Loops = {}
      <3>1. goal' = NoGoal
        BY <2>1 DEF breakcmd
      <3> QED
        BY <3>1, Numbers DEF NoGoal, GoalType
    <2>2. CASE Loops # {}
      <3>1. PICK i : i = Nth(n)
        OBVIOUS
      <3>2. i \in 0..MaxDepth
        BY <2>2, <3>1, NthLoop, Unpacked
      <3>3. PICK how \in {"end", "next"} : how = IF skip = "SKIPBREAK" THEN "end" ELSE "next"
        OBVIOUS
      <3>4. goal' = [to |-> i, how |-> how, status |-> 0]
        BY <2>2, <3>1, <3>3 DEF breakcmd
      <3>5. 0 \in 0..255
        OBVIOUS
      <3> QED
        BY <3>2, <3>4, <3>5 DEF GoalType
    <2> QED
      BY <2>1, <2>2
  <1>5. ControlType' /\ DataType'
    BY <1>1, <1>3, <1>4, Unpacked DEF ControlType, DataType
  <1> QED
    BY <1>1, <1>5, SameShape

(* Where return leads. *)
LEMMA ToBound ==
  ASSUME FramesType
  PROVE  /\ To = ReturnTo(frames) /\ To \in 0..Depth /\ To \in 0..MaxDepth /\ Depth \in Nat
         /\ To # 0 => To \in Returns
         /\ \A i \in Returns : i \in 1..Depth /\ i <= To
  <1>1. Depth \in Nat /\ DOMAIN frames = 1..Depth /\ Depth <= MaxDepth /\ MaxDepth \in Nat
    BY Numbers DEF FramesType, Depth
  <1>2. Returns \subseteq 1..Depth /\ Returns \subseteq Int /\ (\A x \in Returns : x <= Depth)
    BY <1>1 DEF Returns
  <1>3. CASE Returns = {}
    <2>1. To = 0 /\ ReturnTo(frames) = 0
      BY <1>3 DEF To, ReturnTo, Returns
    <2> QED
      BY <1>1, <1>3, <2>1
  <1>4. CASE Returns # {}
    <2>1. To = Max(Returns) /\ ReturnTo(frames) = Max(Returns)
      BY <1>4 DEF To, ReturnTo, Returns
    <2>2. PICK S : S = Returns
      OBVIOUS
    <2>3. Max(S) \in S /\ \A y \in S : y <= Max(S)
      <3>1. S \subseteq Int /\ S # {} /\ Depth \in Int /\ \A x \in S : x <= Depth
        BY <1>1, <1>2, <1>4, <2>2
      <3> QED
        BY <3>1, MaxOf
    <2>4. To \in Returns /\ \A y \in Returns : y <= To
      BY <2>1, <2>2, <2>3
    <2>5. To \in 1..Depth
      BY <1>2, <2>4
    <2> QED
      BY <1>1, <1>2, <2>1, <2>4, <2>5
  <1> QED
    BY <1>3, <1>4

LEMMA StepReturn ==
  ASSUME Types, Stacks, NEW skip \in {"SKIPFUNC", "SKIPFUNCDEF"}, NEW status \in 0..255,
         returncmd(skip, status)
  PROVE  Types' /\ Stacks'
  <1>1. /\ pc = "run" /\ pc' = pc /\ iflag' = iflag /\ frames' = frames /\ skipcount' = skipcount
        /\ loopnest' = loopnest /\ rd' = rd /\ lv' = lv /\ files' = files
        /\ evalskip' = skip /\ exitstatus' = status
        /\ goal' = [to |-> To, how |-> "return", status |-> status]
    BY DEF returncmd, Running
  <1>2. evalskip' \in Skips
    BY <1>1 DEF Skips
  <1>3. goal' \in GoalType
    <2>1. PICK i \in 0..MaxDepth : i = To
      BY ToBound, Unpacked
    <2>2. goal' = [to |-> i, how |-> "return", status |-> status]
      BY <1>1, <2>1
    <2> QED
      BY <2>2 DEF GoalType
  <1>4. ControlType' /\ DataType'
    BY <1>1, <1>2, <1>3, Unpacked DEF ControlType, DataType
  <1> QED
    BY <1>1, <1>4, SameShape

LEMMA StepDo ==
  ASSUME Types, Stacks, Do
  PROVE  Types' /\ Stacks'
  <1>0. /\ IsRd(rd) /\ rd.ok /\ LvGood(lv) /\ Len(rd.list) <= Len(rd.list)
        /\ Len(lv.stack) <= Len(lv.stack) /\ exitstatus \in 0..255
    BY Unpacked
  <1>1. CASE Simple
    <2>1. /\ pc = "run" /\ pc' = pc /\ iflag' = iflag /\ frames' = frames /\ evalskip' = evalskip
          /\ skipcount' = skipcount /\ loopnest' = loopnest /\ rd' = rd /\ lv' = lv /\ files' = files
          /\ goal' = goal /\ exitstatus' \in 0..255
      BY <1>1, Numbers DEF Simple, Running
    <2>2. ControlType' /\ DataType'
      BY <2>1, Unpacked DEF ControlType, DataType
    <2> QED
      BY <2>1, <2>2, SameShape
  <1>2. CASE Fails
    <2>1. pc = "run" /\ Error(frames, rd, lv) /\ iflag' = iflag /\ skipcount' = skipcount
      BY <1>2 DEF Fails, Running
    <2> QED
      BY <1>0, <2>1, ErrorKeeps
  <1>3. CASE exitcmd
    <2>1. /\ pc = "run" /\ Exraise("EXEXIT", frames, rd, lv) /\ iflag' = iflag
          /\ skipcount' = skipcount /\ exitstatus' = exitstatus
      BY <1>3 DEF exitcmd, Running
    <2> QED
      BY <1>0, <2>1, RaisedKeeps
  <1>4. CASE Interrupt
    <2>1. /\ pc = "run" /\ Exraise("EXINT", frames, rd, lv) /\ iflag' = iflag
          /\ skipcount' = skipcount /\ exitstatus' \in 0..255
      BY <1>4 DEF Interrupt
    <2> QED
      BY <1>0, <2>1, RaisedKeeps
  <1>5. CASE \E command \in BOOLEAN, rs \in Redirs \ {<< >>} : Exec(command, rs)
    BY <1>5, StepExec
  <1>6. CASE \E x \in Vars : VarCommand(x)
    BY <1>6, StepVariable
  <1>7. CASE \E skip \in {"SKIPBREAK", "SKIPCONT"}, n \in 1..2 : breakcmd(skip, n)
    BY <1>7, StepBreak
  <1>8. CASE \E status \in Statuses : returncmd("SKIPFUNC", status)
    <2>1. PICK status \in 0..255 : returncmd("SKIPFUNC", status)
      BY <1>8, Numbers
    <2> QED
      BY <2>1, StepReturn
  <1>9. CASE returncmd("SKIPFUNCDEF", exitstatus)
    <2>1. PICK status \in 0..255 : returncmd("SKIPFUNCDEF", status)
      BY <1>0, <1>9
    <2> QED
      BY <2>1, StepReturn
  <1> QED
    BY <1>1, <1>2, <1>3, <1>4, <1>5, <1>6, <1>7, <1>8, <1>9 DEF Do

LEMMA StepBegin ==
  ASSUME Types, Stacks, Begin
  PROVE  Types' /\ Stacks'
  <1>1. CASE While \/ For
    BY <1>1, StepLoop
  <1>2. CASE OpenScript
    BY <1>2, StepOpen
  <1>3. CASE \E rs \in Redirs \ {<< >>} : Block(rs)
    BY <1>3, StepBlock
  <1>4. CASE \E rs \in Redirs, as \in {<< >>} \cup (Vars \X Values) : Call("function", FALSE, rs, as)
    <2>1. PICK rs \in Redirs, as \in {<< >>} \cup (Vars \X Values) : Call("function", FALSE, rs, as)
      BY <1>4
    <2>2. "function" \in {"function", "eval", "dotcmd"} /\ FALSE \in BOOLEAN
      OBVIOUS
    <2> QED
      BY <2>1, <2>2, StepCall
  <1>5. CASE \E rs \in Redirs, as \in {<< >>} \cup (Vars \X Values) :
               \E kind \in {"eval", "dotcmd"}, command \in BOOLEAN : Call(kind, command, rs, as)
    <2>1. PICK rs \in Redirs, as \in {<< >>} \cup (Vars \X Values),
               kind \in {"eval", "dotcmd"}, command \in BOOLEAN : Call(kind, command, rs, as)
      BY <1>5
    <2>2. kind \in {"function", "eval", "dotcmd"}
      OBVIOUS
    <2> QED
      BY <2>1, <2>2, StepCall
  <1> QED
    BY <1>1, <1>2, <1>3, <1>4, <1>5 DEF Begin

LEMMA SkipLoopTypes ==
  ASSUME Types, SkipLoop
  PROVE  evalskip' \in Skips \cup {None} /\ skipcount' \in Int /\ goal' \in GoalType
  <1>1. NoGoal \in GoalType
    BY Numbers DEF NoGoal, GoalType
  <1>2. skipcount' \in Int
    <2>1. skipcount \in Int
      BY Unpacked
    <2> QED
      BY <2>1 DEF SkipLoop
  <1> QED
    BY <1>1, <1>2, Unpacked DEF SkipLoop

LEMMA LoopLeft ==
  ASSUME Types, Stacks, pc = "run", Depth > 0, IsLoop(Top), SkipLoop,
         UNCHANGED <<pc, iflag, rd, lv, files>>, NEW status \in 0..255, LeaveLoop(status)
  PROVE  Types' /\ Stacks'
  <1>1. frames' = Outer /\ loopnest' = loopnest - 1 /\ exitstatus' = status
    BY DEF LeaveLoop
  <1>2. loopnest' \in Int
    BY <1>1, Unpacked
  <1>3. ControlType'
    BY <1>1, <1>2, SkipLoopTypes, Unpacked DEF ControlType
  <1>4. DataType'
    BY Unpacked DEF DataType
  <1>5. /\ Len(rd'.list) = Top.stop.redir /\ Len(lv'.stack) = Top.stop.local
        /\ Len(files') = Top.stop.file
    <2>1. ~Top.redir
      BY TopFrame, FrameFields
    <2>2. ~IsCall(Top) /\ Top.kind \notin {"eval", "dot"}
      BY DEF IsLoop, IsCall
    <2> QED
      BY <2>1, <2>2, TopFrame
  <1> QED
    BY <1>1, <1>3, <1>4, <1>5, PopKeeps

LEMMA LoopGoesOn ==
  ASSUME Types, Stacks, pc = "run", Depth > 0, IsLoop(Top), SkipLoop,
         UNCHANGED <<pc, iflag, rd, lv, files>>, NEW test \in BOOLEAN, test => Top.kind = "while",
         NEW status \in 0..255, Goto(test, status)
  PROVE  Types' /\ Stacks'
  <1>1. /\ frames' = [frames EXCEPT ![Depth].test = test, ![Depth].status = status]
        /\ loopnest' = loopnest /\ exitstatus' = exitstatus
    BY DEF Goto
  <1>2. ControlType'
    BY <1>1, SkipLoopTypes, Unpacked DEF ControlType
  <1>3. DataType'
    BY Unpacked DEF DataType
  <1>4. /\ Top \in FrameType /\ Top = frames[Depth]
        /\ Len(files) = Top.stop.file + (IF Top.kind \in {"eval", "dot"} THEN 1 ELSE 0)
    BY TopFrame DEF Top
  <1>5. PICK f : f = [Top EXCEPT !.test = test, !.status = status]
    OBVIOUS
  <1>6. /\ f \in FrameType /\ f.kind = Top.kind /\ f.stop = Top.stop /\ (f.redir <=> Top.redir)
        /\ (f.spclbltin <=> Top.spclbltin)
    <2>1. /\ f.kind = Top.kind /\ f.stop = Top.stop /\ (f.redir <=> Top.redir)
          /\ (f.spclbltin <=> Top.spclbltin) /\ (f.test <=> test)
      BY <1>4, <1>5 DEF FrameType
    <2>2. f \in [kind : Kinds, spclbltin : BOOLEAN, redir : BOOLEAN,
                 stop : [redir : Nat, file : Nat, local : Nat],
                 saveloopnest : Int, test : BOOLEAN, status : 0..255]
      BY <1>4, <1>5, ZenonT(40) DEF FrameType
    <2>3. ~Top.redir /\ f.kind # "block"
      BY <1>4, <2>1, FrameFields DEF IsLoop
    <2>4. f \in FrameType
      BY <2>1, <2>2, <2>3 DEF FrameType, IsLoop
    <2> QED
      BY <2>1, <2>4
  <1>7. frames' = [frames EXCEPT ![Depth] = f]
    <2>1. Depth \in DOMAIN frames
      BY Unpacked
    <2> QED
      BY <1>1, <1>4, <1>5, <2>1
  <1>8. IsCall(f) <=> IsCall(Top)
    BY <1>6 DEF IsCall
  <1>9. /\ Len(rd'.list) = Len(rd.list) /\ Len(lv'.stack) = Len(lv.stack)
        /\ Len(files') = Top.stop.file + (IF f.kind \in {"eval", "dot"} THEN 1 ELSE 0)
    BY <1>4, <1>6
  <1> QED
    BY <1>2, <1>3, <1>6, <1>7, <1>8, <1>9, TopChanged

LEMMA StepEndTest ==
  ASSUME Types, Stacks, EndTest
  PROVE  Types' /\ Stacks'
  <1>1. /\ pc = "run" /\ Depth > 0 /\ Top.test /\ SkipLoop /\ UNCHANGED <<pc, iflag, rd, lv, files>>
        /\ IF Leaves THEN LeaveLoop(IF Skip = "SKIPFUNC" THEN exitstatus ELSE Top.status)
           ELSE IF Skip = "SKIPCONT" THEN Goto(TRUE, Top.status)
           ELSE IF exitstatus # 0 THEN LeaveLoop(Top.status)
           ELSE Goto(FALSE, Top.status)
    BY DEF EndTest
  <1>2. Top \in FrameType /\ exitstatus \in 0..255
    BY <1>1, Unpacked
  <1>3. Top.kind = "while" /\ IsLoop(Top) /\ Top.status \in 0..255
    BY <1>1, <1>2, FrameFields DEF IsLoop
  <1>4. \/ \E status \in 0..255 : LeaveLoop(status)
        \/ \E test \in BOOLEAN, status \in 0..255 : Goto(test, status)
    <2>1. (IF Skip = "SKIPFUNC" THEN exitstatus ELSE Top.status) \in 0..255
      BY <1>2, <1>3
    <2>2. TRUE \in BOOLEAN /\ FALSE \in BOOLEAN
      OBVIOUS
    <2> QED
      BY <1>1, <1>3, <2>1, <2>2
  <1> QED
    BY <1>1, <1>3, <1>4, LoopLeft, LoopGoesOn

LEMMA StepEndBody ==
  ASSUME Types, Stacks, EndBody
  PROVE  Types' /\ Stacks'
  <1>1. /\ pc = "run" /\ Depth > 0 /\ IsLoop(Top) /\ SkipLoop /\ UNCHANGED <<pc, iflag, rd, lv, files>>
        /\ IF Leaves THEN LeaveLoop(exitstatus)
           ELSE \/ Goto(Top.kind = "while", IF Top.kind = "while" THEN exitstatus ELSE 0)
                \/ Top.kind = "for" /\ LeaveLoop(exitstatus)
    BY DEF EndBody
  <1>2. exitstatus \in 0..255
    BY Unpacked
  <1>3. CASE LeaveLoop(exitstatus)
    BY <1>1, <1>2, <1>3, LoopLeft
  <1>4. CASE Goto(Top.kind = "while", IF Top.kind = "while" THEN exitstatus ELSE 0)
    <2>1. PICK test \in BOOLEAN : test = (Top.kind = "while")
      OBVIOUS
    <2>2. PICK status \in 0..255 : status = IF Top.kind = "while" THEN exitstatus ELSE 0
      BY <1>2
    <2>3. Goto(test, status)
      BY <1>4, <2>1, <2>2
    <2>4. test => Top.kind = "while"
      BY <2>1
    <2> QED
      BY <1>1, <2>3, <2>4, LoopGoesOn
  <1> QED
    BY <1>1, <1>3, <1>4

LEMMA StepEndBlock ==
  ASSUME Types, Stacks, EndBlock
  PROVE  Types' /\ Stacks'
  <1>1. /\ pc = "run" /\ Depth > 0 /\ Top.kind = "block" /\ frames' = Outer
        /\ rd' = popredir(rd, FALSE)
        /\ UNCHANGED <<pc, iflag, evalskip, skipcount, loopnest, exitstatus, lv, files, goal>>
    BY DEF EndBlock
  <1>2. /\ Top.redir /\ Top.stop.redir \in Nat /\ Len(rd.list) = Top.stop.redir + 1
        /\ Len(lv.stack) = Top.stop.local /\ Len(files) = Top.stop.file
    <2>1. Top \in FrameType
      BY <1>1, Unpacked
    <2>2. Top.redir
      BY <1>1, <2>1, FrameFields
    <2>3. ~IsCall(Top) /\ Top.kind \notin {"eval", "dot"}
      BY <1>1 DEF IsCall
    <2> QED
      BY <1>1, <2>2, <2>3, TopFrame
  <1>3. IsRd(rd) /\ rd.list # << >>
    BY <1>2, Unpacked
  <1>4. IsRd(rd') /\ Len(rd'.list) = Len(rd.list) - 1 /\ rd'.ok
    <2>1. /\ IsRd(popredir(rd, FALSE)) /\ Len(popredir(rd, FALSE).list) = Len(rd.list) - 1
          /\ popredir(rd, FALSE).ok
      BY <1>3, PopRd
    <2> QED
      BY <1>1, <2>1
  <1>5. ControlType'
    BY <1>1, Unpacked DEF ControlType
  <1>6. DataType'
    BY <1>1, <1>4, Unpacked DEF DataType
  <1>7. /\ Len(rd'.list) = Top.stop.redir /\ Len(lv'.stack) = Top.stop.local
        /\ Len(files') = Top.stop.file
    <2>1. Len(rd'.list) = Top.stop.redir
      BY <1>2, <1>4
    <2> QED
      BY <1>1, <1>2, <2>1
  <1> QED
    BY <1>1, <1>5, <1>6, <1>7, PopKeeps

LEMMA StepEndCall ==
  ASSUME Types, Stacks, EndCall
  PROVE  Types' /\ Stacks'
  <1>1. /\ pc = "run" /\ Depth > 0 /\ Top.kind \in {"function", "eval", "dot"} /\ frames' = Outer
        /\ loopnest' = NestThen /\ Out(Top, rd, lv) /\ UNCHANGED <<pc, iflag, skipcount, exitstatus>>
        /\ evalskip' \in {evalskip, None} /\ goal' \in {goal, NoGoal}
    BY DEF EndCall
  <1>2. /\ Top \in FrameType /\ IsRd(rd) /\ rd.ok /\ LvGood(lv) /\ FramesType /\ DataType
        /\ Len(rd.list) \in Nat /\ Len(lv.stack) \in Nat /\ Len(files) \in Nat
    BY <1>1, Unpacked
  <1>3. /\ Top.stop.redir + (IF Top.redir THEN 1 ELSE 0) <= Len(rd.list)
        /\ Top.stop.local <= Len(lv.stack) /\ Top.stop.file <= Len(files)
    <2>1. Len(rd.list) = Top.stop.redir + (IF Top.redir THEN 1 ELSE 0)
      BY <1>1, TopFrame
    <2>2. Top.stop.local \in Nat /\ Len(lv.stack) \in {Top.stop.local, Top.stop.local + 1}
      BY <1>1, TopFrame
    <2>3. Top.stop.file \in Nat /\ Len(files) \in {Top.stop.file, Top.stop.file + 1}
      BY <1>1, TopFrame
    <2> QED
      BY <1>2, <2>1, <2>2, <2>3, SMTT(20)
  <1>4. /\ DataType' /\ Len(rd'.list) = Top.stop.redir /\ Len(lv'.stack) = Top.stop.local
        /\ Len(files') = Top.stop.file
    BY <1>1, <1>2, <1>3, OutKeeps
  <1>5. ControlType'
    <2>1. NoGoal \in GoalType
      BY Numbers DEF NoGoal, GoalType
    <2>2. loopnest' \in Int
      <3>1. Top.saveloopnest \in Int /\ loopnest \in Int
        BY <1>2, FrameFields, Unpacked
      <3> QED
        BY <1>1, <3>1 DEF NestThen
    <2> QED
      BY <1>1, <2>1, <2>2, Unpacked DEF ControlType
  <1> QED
    BY <1>1, <1>4, <1>5, PopKeeps

LEMMA StepEnd ==
  ASSUME Types, Stacks, End
  PROVE  Types' /\ Stacks'
  <1>1. CASE EndTop
    <2>1. /\ pc' = "exit" /\ evalskip' \in {None, evalskip}
          /\ UNCHANGED <<iflag, frames, skipcount, loopnest, exitstatus, rd, lv, files, goal>>
      BY <1>1 DEF EndTop
    <2>2. ControlType' /\ DataType'
      BY <2>1, Unpacked DEF ControlType, DataType
    <2>3. FramesType'
      BY <2>1, Unpacked DEF FramesType, Depth
    <2> QED
      BY <2>1, <2>2, <2>3 DEF Types, Stacks
  <1> QED
    BY <1>1, StepEndTest, StepEndBody, StepEndBlock, StepEndCall DEF End

LEMMA StepTypes ==
  ASSUME Types, Stacks, [Next]_vars
  PROVE  Types' /\ Stacks'
  <1>1. CASE UNCHANGED vars
    <2>1. /\ Types' <=> Types
          /\ Stacks' <=> Stacks
      BY <1>1 DEF vars, Types, ControlType, FramesType, DataType, Depth, Stacks
    <2> QED
      BY <2>1
  <1> QED
    BY <1>1, StepBegin, StepDo, StepEnd DEF Next

LEMMA InitTypes ==
  ASSUME Init
  PROVE  Types /\ Stacks
  <1>1. /\ pc = "run" /\ iflag \in BOOLEAN /\ frames = << >> /\ evalskip = None /\ skipcount = 0
        /\ loopnest = 0 /\ exitstatus = 0 /\ rd = NoRedirs /\ lv = NoVars /\ files = << >>
        /\ goal = NoGoal
    BY DEF Init
  <1>2. ControlType /\ FramesType
    BY <1>1, Numbers DEF ControlType, FramesType, Depth, NoGoal, GoalType
  <1>3. IsRd(rd) /\ rd.ok /\ Len(rd.list) = 0
    BY <1>1 DEF NoRedirs, IsRd
  <1>4. LvGood(lv) /\ lv.ok /\ Len(lv.stack) = 0
    <2>1. Absent \in Entry /\ ~Absent.here
      BY DEF Absent, Entry, Flags
    <2>2. /\ lv.vars = [x \in Vars |-> Absent] /\ lv.stack = << >> /\ lv.ok
          /\ lv = [vars |-> lv.vars, stack |-> lv.stack, ok |-> TRUE]
      BY <1>1 DEF NoVars
    <2>3. lv \in LvType
      <3>1. lv.vars \in [Vars -> Entry] /\ lv.stack \in Seq(Seq(Item))
        BY <2>1, <2>2
      <3> QED
        BY <2>2, <3>1 DEF LvType
    <2> QED
      BY <2>1, <2>2, <2>3 DEF LvGood
  <1>5. Stacks
    <2>1. /\ Height(frames, 0, WithRedir) = 0 /\ Height(frames, 0, WithLocal) = 0
          /\ Height(frames, 0, WithFile) = 0
      BY Heights
    <2>2. Len(frames) = 0 /\ DOMAIN frames = {} /\ Len(files) = 0
      BY <1>1
    <2> QED
      BY <1>3, <1>4, <2>1, <2>2 DEF Stacks, Stacked
  <1>6. files \in Seq(Place)
    BY <1>1
  <1> QED
    BY <1>2, <1>3, <1>4, <1>5, <1>6 DEF Types, DataType

(* localvar_stack holds pointers into the table of variables, which        *)
(* setvareq() removes entries from when a variable is unset: whatever      *)
(* scripts unset, export, make local or readonly, in whatever nesting of   *)
(* functions, and however those end, the entries pointed to are there.     *)
THEOREM PointersGood == Spec => []LocalsPresent
  <1>1. Init => Types /\ Stacks
    BY InitTypes
  <1>2. (Types /\ Stacks) /\ [Next]_vars => (Types /\ Stacks)'
    BY StepTypes
  <1>3. Types => LocalsPresent
    <2> SUFFICES ASSUME Types, NEW i \in DOMAIN lv.stack, NEW k \in DOMAIN lv.stack[i]
                 PROVE  Pinned(lv.vars[lv.stack[i][k].name])
      BY DEF LocalsPresent, Pinned
    <2> QED
      BY DEF Types, DataType, LvGood
  <1> QED
    BY <1>1, <1>2, <1>3, PTL DEF Spec

-----------------------------------------------------------------------------
(* loopnest is the number of loops around the next command, in its         *)
(* function, unless an error has left a loop inside "command eval".        *)

LEMMA NestEmpty == Nested(<< >>, 0)
  <1>1. LoopsTo(<< >>, 0) = {}
    BY LoopsFinite
  <1>2. Cardinality({}) = 0
    BY FS_EmptySet
  <1>3. Len(<< >>) = 0 /\ DOMAIN << >> = {}
    OBVIOUS
  <1> QED
    BY <1>1, <1>2, <1>3 DEF Nested

LEMMA RaisedNests ==
  ASSUME Types, Nests, pc = "run", ~LoopErrors, NEW e, NEW r, NEW v, Exraise(e, frames, r, v)
  PROVE  Nests'
  <1> DEFINE H == {i \in DOMAIN frames : Catches(e, frames[i])}
  <1>1. frames \in Seq(FrameType) /\ Nested(frames, loopnest) /\ FramesType
    BY Unpacked DEF Nests
  <1>2. CASE H # {}
    <2>1. PICK i \in 1..Len(frames) : i = Max(H) /\ Catches(e, frames[i])
      BY <1>1, <1>2, Handler
    <2>2. /\ frames' = SubSeq(frames, 1, i - 1) /\ loopnest' = NestAfter(frames, i)
          /\ ~LeavesLoop(frames, i)
      BY <1>2, <2>1 DEF Exraise
    <2>3. ~IsLoop(frames[i]) /\ frames[i].kind # "function"
      BY <2>1 DEF Catches, IsLoop
    <2>4. loopnest' = Cardinality(LoopsTo(frames, i - 1))
      BY <1>1, <2>2, <2>3, NestAfterError
    <2>5. Nested(SubSeq(frames, 1, i - 1), Cardinality(LoopsTo(frames, i - 1)))
      BY <1>1, CutLoops
    <2> QED
      BY <2>2, <2>4, <2>5 DEF Nests
  <1>3. CASE H = {}
    <2>1. frames' = << >> /\ loopnest' = 0
      BY <1>3 DEF Exraise, exitreset
    <2> QED
      BY <2>1, NestEmpty DEF Nests
  <1> QED
    BY <1>2, <1>3

(* A construct begins, or ends, and the innermost goes on. *)
LEMMA NestPush ==
  ASSUME Types, Nests, pc = "run", NEW f \in FrameType, frames' = Append(frames, f),
         f.saveloopnest = loopnest,
         loopnest' = IF f.kind = "function" THEN 0 ELSE IF IsLoop(f) THEN loopnest + 1 ELSE loopnest
  PROVE  Nests'
  <1>1. frames \in Seq(FrameType) /\ Nested(frames, loopnest)
    BY Unpacked DEF Nests
  <1>2. Nested(Append(frames, f), IF f.kind = "function" THEN 0
                                  ELSE IF IsLoop(f) THEN loopnest + 1 ELSE loopnest)
    BY <1>1, PushLoops
  <1>3. Nested(frames', loopnest')
    BY <1>2
  <1> QED
    BY <1>3 DEF Nests

LEMMA TopLoops ==
  ASSUME Types, Nests, pc = "run", Depth > 0
  PROVE  /\ Top.kind = "function" => Top.saveloopnest = Cardinality(LoopsTo(frames, Depth - 1))
         /\ IsLoop(Top) => loopnest = Cardinality(LoopsTo(frames, Depth - 1)) + 1
         /\ ~IsLoop(Top) /\ Top.kind # "function" => loopnest = Cardinality(LoopsTo(frames, Depth - 1))
         /\ Cardinality(LoopsTo(frames, Depth - 1)) \in Nat
  <1>1. PICK n \in Nat : n = Depth - 1 /\ n + 1 = Depth
    BY Unpacked
  <1>2. Depth \in DOMAIN frames /\ Depth = Len(frames)
    BY Unpacked
  <1>3. frames[n + 1] = Top
    BY <1>1 DEF Top
  <1>4. /\ loopnest = Cardinality(LoopsTo(frames, n + 1))
        /\ Top.kind = "function" => Top.saveloopnest = Cardinality(LoopsTo(frames, Depth - 1))
    BY <1>1, <1>2 DEF Nests, Nested, Top
  <1>5. /\ IsLoop(frames[n + 1]) =>
              Cardinality(LoopsTo(frames, n + 1)) = Cardinality(LoopsTo(frames, n)) + 1
        /\ ~IsLoop(frames[n + 1]) /\ frames[n + 1].kind # "function" =>
              LoopsTo(frames, n + 1) = LoopsTo(frames, n)
        /\ Cardinality(LoopsTo(frames, n)) \in Nat
    BY LoopsStep, LoopsFinite
  <1> QED
    BY <1>1, <1>3, <1>4, <1>5

LEMMA NestPop ==
  ASSUME Types, Nests, pc = "run", Depth > 0, frames' = Outer,
         loopnest' = IF Top.kind = "function" THEN Top.saveloopnest
                     ELSE IF IsLoop(Top) THEN loopnest - 1 ELSE loopnest
  PROVE  Nests'
  <1>1. PICK n : n = Cardinality(LoopsTo(frames, Depth - 1))
    OBVIOUS
  <1>2. loopnest' = n
    <2>1. n \in Nat
      BY <1>1, TopLoops
    <2>2. CASE Top.kind = "function"
      BY <1>1, <2>2, TopLoops
    <2>3. CASE Top.kind # "function" /\ IsLoop(Top)
      <3>1. loopnest = n + 1
        BY <1>1, <2>3, TopLoops
      <3> QED
        BY <2>1, <2>3, <3>1
    <2>4. CASE Top.kind # "function" /\ ~IsLoop(Top)
      BY <1>1, <2>4, TopLoops
    <2> QED
      BY <2>2, <2>3, <2>4
  <1>3. /\ frames \in Seq(FrameType) /\ Depth \in 1..Len(frames) /\ Nested(frames, loopnest)
    BY Unpacked DEF Nests
  <1>4. Nested(SubSeq(frames, 1, Depth - 1), Cardinality(LoopsTo(frames, Depth - 1)))
    BY <1>3, CutLoops
  <1>5. Nested(frames', loopnest')
    BY <1>1, <1>2, <1>4 DEF Outer
  <1> QED
    BY <1>5 DEF Nests

LEMMA NestTop ==
  ASSUME Types, Nests, pc = "run", Depth > 0, NEW f \in FrameType,
         frames' = [frames EXCEPT ![Depth] = f], loopnest' = loopnest,
         f.saveloopnest = Top.saveloopnest, Top.kind # "function", f.kind # "function",
         IsLoop(f) <=> IsLoop(Top)
  PROVE  Nests'
  <1>0. PICK gs : gs = frames'
    OBVIOUS
  <1>1. /\ frames \in Seq(FrameType) /\ Depth \in 1..Len(frames) /\ Nested(frames, loopnest)
        /\ Top = frames[Depth]
    BY Unpacked DEF Nests, Top
  <1>2. /\ gs \in Seq(FrameType) /\ Len(gs) = Len(frames)
        /\ \A i \in 1..Len(frames) : gs[i] = IF i = Depth THEN f ELSE frames[i]
    BY <1>0, <1>1, Updated
  <1>3. \A i \in 1..Len(frames) : /\ gs[i].saveloopnest = frames[i].saveloopnest
                                  /\ gs[i].kind = "function" <=> frames[i].kind = "function"
                                  /\ IsLoop(gs[i]) <=> IsLoop(frames[i])
    BY <1>1, <1>2
  <1>4. Nested(gs, loopnest)
    BY <1>1, <1>2, <1>3, SameNests
  <1> QED
    BY <1>0, <1>4 DEF Nests

LEMMA NestSame ==
  ASSUME Nests, pc = "run", frames' = frames, loopnest' = loopnest
  PROVE  Nests'
  BY DEF Nests

LEMMA NestBegin ==
  ASSUME Types, Nests, ~LoopErrors, Begin
  PROVE  Nests'
  <1>1. CASE While
    <2>1. /\ pc = "run" /\ loopnest' = loopnest + 1
          /\ frames' = Append(frames, [Frame("while", FALSE, << >>) EXCEPT !.test = TRUE])
      BY <1>1 DEF While, Running
    <2>2. PICK g : g = Frame("while", FALSE, << >>)
      OBVIOUS
    <2>3. IsNew(g, "while", FALSE, << >>)
      <3>1. "while" \in Kinds
        BY DEF Kinds
      <3> QED
        BY <2>2, <3>1, NewFrame
    <2>4. g \in FrameType /\ g.kind = "while" /\ g.saveloopnest = loopnest
      BY <2>3 DEF IsNew
    <2>5. PICK f : f = [g EXCEPT !.test = TRUE]
      OBVIOUS
    <2>6. f \in FrameType /\ f.kind = "while" /\ f.saveloopnest = loopnest
      BY <2>4, <2>5, ZenonT(40) DEF FrameType, IsLoop
    <2>7. frames' = Append(frames, f)
      BY <2>1, <2>2, <2>5
    <2>8. IsLoop(f) /\ f.kind # "function"
      BY <2>6 DEF IsLoop
    <2> QED
      BY <2>1, <2>6, <2>7, <2>8, NestPush
  <1>2. CASE For
    <2>1. /\ pc = "run" /\ loopnest' = loopnest + 1 /\ frames' = Append(frames, Frame("for", FALSE, << >>))
      BY <1>2 DEF For, Running
    <2>2. PICK f : f = Frame("for", FALSE, << >>)
      OBVIOUS
    <2>3. IsNew(f, "for", FALSE, << >>)
      <3>1. "for" \in Kinds
        BY DEF Kinds
      <3> QED
        BY <2>2, <3>1, NewFrame
    <2>4. f \in FrameType /\ f.saveloopnest = loopnest /\ IsLoop(f) /\ f.kind # "function"
      BY <2>3 DEF IsNew, IsLoop
    <2>5. frames' = Append(frames, f)
      BY <2>1, <2>2
    <2> QED
      BY <2>1, <2>4, <2>5, NestPush
  <1>3. CASE OpenScript
    <2>1. pc = "run" /\ Depth > 0 /\ Top.kind = "dotcmd"
      BY <1>3 DEF OpenScript
    <2>2. CASE Error(frames, rd, lv)
      BY <2>1, <2>2, RaisedNests DEF Error
    <2>3. CASE frames' = [frames EXCEPT ![Depth].kind = "dot"] /\ loopnest' = loopnest
      <3>1. Top \in FrameType /\ Top = frames[Depth] /\ ~Top.test
        BY <2>1, Unpacked, FrameFields DEF Top
      <3>2. PICK f : f = [Top EXCEPT !.kind = "dot"]
        OBVIOUS
      <3>3. f.kind = "dot" /\ f.saveloopnest = Top.saveloopnest /\ (f.test <=> Top.test)
        BY <3>1, <3>2 DEF FrameType
      <3>4. f \in [kind : Kinds, spclbltin : BOOLEAN, redir : BOOLEAN,
                   stop : [redir : Nat, file : Nat, local : Nat],
                   saveloopnest : Int, test : BOOLEAN, status : 0..255]
        BY <3>1, <3>2 DEF FrameType, Kinds
      <3>5. f \in FrameType
        BY <3>1, <3>3, <3>4 DEF FrameType, IsLoop
      <3>6. IsLoop(f) <=> IsLoop(Top)
        BY <2>1, <3>3 DEF IsLoop
      <3>7. frames' = [frames EXCEPT ![Depth] = f] /\ loopnest' = loopnest
        BY <2>3, <3>1, <3>2
      <3> QED
        BY <2>1, <3>3, <3>5, <3>6, <3>7, NestTop
    <2> QED
      BY <1>3, <2>2, <2>3 DEF OpenScript
  <1>4. ASSUME NEW rs \in Redirs \ {<< >>}, Block(rs)
        PROVE  Nests'
    <2>1. pc = "run" /\ loopnest' = loopnest
      BY <1>4 DEF Block, Running
    <2>2. CASE frames' = frames
      BY <2>1, <2>2, NestSame
    <2>3. CASE frames' = Append(frames, Frame("block", FALSE, rs))
      <3>1. PICK f : f = Frame("block", FALSE, rs)
        OBVIOUS
      <3>2. IsNew(f, "block", FALSE, rs)
        <4>1. "block" \in Kinds /\ "block" \notin {"while", "for"} /\ rs # << >>
          BY DEF Kinds
        <4> QED
          BY <3>1, <4>1, NewFrame
      <3>3. f \in FrameType /\ f.saveloopnest = loopnest /\ ~IsLoop(f) /\ f.kind # "function"
        BY <3>2 DEF IsNew, IsLoop
      <3>4. frames' = Append(frames, f)
        BY <2>3, <3>1
      <3> QED
        BY <2>1, <3>3, <3>4, NestPush
    <2> QED
      BY <1>4, <2>2, <2>3 DEF Block
  <1>5. ASSUME NEW kind \in {"function", "eval", "dotcmd"}, NEW command \in BOOLEAN,
               NEW rs \in Redirs, NEW as \in {<< >>} \cup (Vars \X Values),
               Call(kind, command, rs, as)
        PROVE  Nests'
    <2>1. PICK b \in BOOLEAN : b = (kind # "function" /\ ~command)
      OBVIOUS
    <2>2. PICK f : f = Frame(kind, b, rs)
      OBVIOUS
    <2>3. /\ pc = "run"
          /\ \/ \E r, v : Enter(f, r, v)
             \/ frames' = frames /\ loopnest' = loopnest
             \/ \E r, v : Error(frames, r, v)
      BY <1>5, <2>1, <2>2 DEF Call, Running
    <2>4. CASE \E r, v : Enter(f, r, v)
      <3>1. IsNew(f, kind, b, rs)
        <4>1. kind \in Kinds /\ kind \notin {"while", "for"} /\ kind # "block"
          BY DEF Kinds
        <4> QED
          BY <2>2, <4>1, NewFrame
      <3>2. f \in FrameType /\ f.saveloopnest = loopnest /\ f.kind = kind /\ ~IsLoop(f)
        BY <3>1 DEF IsNew, IsLoop
      <3>3. frames' = Append(frames, f) /\ loopnest' = IF f.kind = "function" THEN 0 ELSE loopnest
        BY <2>4 DEF Enter
      <3> QED
        BY <2>3, <3>2, <3>3, NestPush
    <2>5. CASE frames' = frames /\ loopnest' = loopnest
      BY <2>3, <2>5, NestSame
    <2>6. CASE \E r, v : Error(frames, r, v)
      BY <2>3, <2>6, RaisedNests DEF Error
    <2> QED
      BY <2>3, <2>4, <2>5, <2>6
  <1>6. CASE \E rs \in Redirs \ {<< >>} : Block(rs)
    BY <1>4, <1>6
  <1>7. CASE \E rs \in Redirs, as \in {<< >>} \cup (Vars \X Values) : Call("function", FALSE, rs, as)
    <2>1. PICK rs \in Redirs, as \in {<< >>} \cup (Vars \X Values) : Call("function", FALSE, rs, as)
      BY <1>7
    <2>2. "function" \in {"function", "eval", "dotcmd"} /\ FALSE \in BOOLEAN
      OBVIOUS
    <2> QED
      BY <1>5, <2>1, <2>2
  <1>8. CASE \E rs \in Redirs, as \in {<< >>} \cup (Vars \X Values) :
               \E kind \in {"eval", "dotcmd"}, command \in BOOLEAN : Call(kind, command, rs, as)
    <2>1. PICK rs \in Redirs, as \in {<< >>} \cup (Vars \X Values),
               kind \in {"eval", "dotcmd"}, command \in BOOLEAN : Call(kind, command, rs, as)
      BY <1>8
    <2>2. kind \in {"function", "eval", "dotcmd"}
      OBVIOUS
    <2> QED
      BY <1>5, <2>1, <2>2
  <1> QED
    BY <1>1, <1>2, <1>3, <1>6, <1>7, <1>8 DEF Begin

LEMMA NestDo ==
  ASSUME Types, Nests, ~LoopErrors, Do
  PROVE  Nests'
  <1>1. CASE Simple \/ (\E skip \in {"SKIPBREAK", "SKIPCONT"}, n \in 1..2 : breakcmd(skip, n))
             \/ (\E skip, status : returncmd(skip, status))
    <2>1. pc = "run" /\ frames' = frames /\ loopnest' = loopnest
      BY <1>1 DEF Simple, breakcmd, returncmd, Running
    <2> QED
      BY <2>1, NestSame
  <1>2. CASE Fails \/ exitcmd \/ Interrupt
    <2>1. pc = "run" /\ \E e : Exraise(e, frames, rd, lv)
      BY <1>2 DEF Fails, exitcmd, Interrupt, Error, Running
    <2> QED
      BY <2>1, RaisedNests
  <1>3. ASSUME NEW command, NEW rs, Exec(command, rs)
        PROVE  Nests'
    <2>1. /\ pc = "run"
          /\ \/ frames' = frames /\ loopnest' = loopnest
             \/ \E r, v : Exraise("EXERROR", frames, r, v)
      BY <1>3 DEF Exec, Error, Running
    <2> QED
      BY <2>1, NestSame, RaisedNests
  <1>4. ASSUME NEW v, SetVars(v)
        PROVE  Nests'
    <2>1. /\ pc = "run"
          /\ \/ frames' = frames /\ loopnest' = loopnest
             \/ Exraise("EXERROR", frames, rd, v)
      BY <1>4 DEF SetVars, Error, Running
    <2> QED
      BY <2>1, NestSame, RaisedNests
  <1>5. ASSUME NEW x \in Vars, VarCommand(x)
        PROVE  \E v : SetVars(v)
    BY <1>5 DEF VarCommand
  <1> QED
    BY <1>1, <1>2, <1>3, <1>4, <1>5 DEF Do

LEMMA NestEnd ==
  ASSUME Types, Nests, ~LoopErrors, End
  PROVE  Nests'
  <1>1. ASSUME pc = "run", Depth > 0, IsLoop(Top), NEW status, LeaveLoop(status)
        PROVE  Nests'
    <2>1. /\ frames' = Outer /\ loopnest' = loopnest - 1 /\ Top.kind # "function"
      BY <1>1 DEF LeaveLoop, IsLoop
    <2> QED
      BY <1>1, <2>1, NestPop
  <1>2. ASSUME pc = "run", Depth > 0, IsLoop(Top), NEW test \in BOOLEAN, test => Top.kind = "while",
               NEW status \in 0..255, Goto(test, status)
        PROVE  Nests'
    <2>1. /\ frames' = [frames EXCEPT ![Depth].test = test, ![Depth].status = status]
          /\ loopnest' = loopnest
      BY <1>2 DEF Goto
    <2>2. Top \in FrameType /\ Top = frames[Depth] /\ Depth \in DOMAIN frames
      BY <1>2, Unpacked DEF Top
    <2>3. PICK f : f = [Top EXCEPT !.test = test, !.status = status]
      OBVIOUS
    <2>4. /\ f.kind = Top.kind /\ (f.redir <=> Top.redir) /\ (f.test <=> test)
          /\ f.saveloopnest = Top.saveloopnest
      BY <2>2, <2>3 DEF FrameType
    <2>5. f \in [kind : Kinds, spclbltin : BOOLEAN, redir : BOOLEAN,
                 stop : [redir : Nat, file : Nat, local : Nat],
                 saveloopnest : Int, test : BOOLEAN, status : 0..255]
      BY <2>2, <2>3, ZenonT(40) DEF FrameType
    <2>6. ~Top.redir /\ f.kind # "block" /\ f.kind # "function" /\ Top.kind # "function"
      BY <1>2, <2>2, <2>4, FrameFields DEF IsLoop
    <2>7. f \in FrameType
      BY <1>2, <2>4, <2>5, <2>6 DEF FrameType, IsLoop
    <2>8. IsLoop(f) <=> IsLoop(Top)
      BY <2>4 DEF IsLoop
    <2>9. frames' = [frames EXCEPT ![Depth] = f]
      BY <2>1, <2>2, <2>3
    <2> QED
      BY <1>2, <2>1, <2>4, <2>6, <2>7, <2>8, <2>9, NestTop
  <1>3. CASE EndTest
    <2>1. /\ pc = "run" /\ Depth > 0 /\ Top.test
          /\ \/ \E status : LeaveLoop(status)
             \/ \E test \in BOOLEAN : Goto(test, Top.status)
      BY <1>3 DEF EndTest
    <2>2. Top.kind = "while" /\ IsLoop(Top) /\ Top.status \in 0..255
      BY <2>1, Unpacked, FrameFields DEF IsLoop
    <2> QED
      BY <1>1, <1>2, <2>1, <2>2
  <1>4. CASE EndBody
    <2>1. /\ pc = "run" /\ Depth > 0 /\ IsLoop(Top)
          /\ \/ LeaveLoop(exitstatus)
             \/ Goto(Top.kind = "while", IF Top.kind = "while" THEN exitstatus ELSE 0)
      BY <1>4 DEF EndBody
    <2>2. CASE LeaveLoop(exitstatus)
      BY <1>1, <2>1, <2>2
    <2>3. CASE Goto(Top.kind = "while", IF Top.kind = "while" THEN exitstatus ELSE 0)
      <3>1. PICK test \in BOOLEAN : test = (Top.kind = "while")
        OBVIOUS
      <3>2. PICK status \in 0..255 : status = IF Top.kind = "while" THEN exitstatus ELSE 0
        BY Unpacked
      <3>3. Goto(test, status) /\ (test => Top.kind = "while")
        BY <2>3, <3>1, <3>2
      <3> QED
        BY <1>2, <2>1, <3>3
    <2> QED
      BY <2>1, <2>2, <2>3
  <1>5. CASE EndBlock
    <2>1. /\ pc = "run" /\ Depth > 0 /\ frames' = Outer /\ loopnest' = loopnest
          /\ Top.kind # "function" /\ ~IsLoop(Top)
      BY <1>5 DEF EndBlock, IsLoop
    <2> QED
      BY <2>1, NestPop
  <1>6. CASE EndCall
    <2>1. /\ pc = "run" /\ Depth > 0 /\ frames' = Outer /\ loopnest' = NestThen /\ ~IsLoop(Top)
      BY <1>6 DEF EndCall, IsLoop
    <2> QED
      BY <2>1, NestPop DEF NestThen
  <1>7. CASE EndTop
    BY <1>7 DEF EndTop, Nests
  <1> QED
    BY <1>3, <1>4, <1>5, <1>6, <1>7 DEF End

LEMMA StepNests ==
  ASSUME Types, Nests, ~LoopErrors, [Next]_vars
  PROVE  Nests'
  <1>1. CASE UNCHANGED vars
    BY <1>1 DEF vars, Nests
  <1> QED
    BY <1>1, NestBegin, NestDo, NestEnd DEF Next

LEMMA InitNests == Init => Nests
  BY NestEmpty DEF Init, Nests

(* Where the stacks are as high as the frames say, they are as the         *)
(* property has it.                                                        *)
LEMMA BalancedThen == Types /\ Stacks /\ Nests => Balanced
  <1> SUFFICES ASSUME Types, Stacks, Nests, pc = "run" PROVE Balanced
    BY DEF Balanced
  <1>1. DOMAIN frames = 1..Len(frames) /\ Depth = Len(frames)
        /\ \A i \in 1..Len(frames) : frames[i] \in FrameType
    BY Lengths DEF Types
  <1>2. /\ Below(frames, Len(frames), WithRedir) = {i \in DOMAIN frames : frames[i].redir}
        /\ Below(frames, Len(frames), WithLocal) =
             {i \in DOMAIN frames : IsCall(frames[i]) /\ ~frames[i].spclbltin}
        /\ Below(frames, Len(frames), WithFile) =
             {i \in DOMAIN frames : frames[i].kind \in {"eval", "dot"}}
    BY <1>1, FrameFields DEF Below
  <1>3. /\ Len(rd.list) = Height(frames, Len(frames), WithRedir)
        /\ Len(lv.stack) = Height(frames, Len(frames), WithLocal)
        /\ Len(files) = Height(frames, Len(frames), WithFile)
    BY DEF Stacks, Stacked
  <1>4. loopnest = Cardinality(Loops)
    <2>1. Loops = LoopsTo(frames, Depth)
      BY LoopsNow DEF Types
    <2> QED
      BY <1>1, <2>1 DEF Nests, Nested
  <1> QED
    BY <1>2, <1>3, <1>4 DEF Height, Balanced

(* Whatever the way commands end, by their last line, by break, continue   *)
(* or return, by an error that "command" stopped or that took an           *)
(* interactive shell back to its prompt: there is one table of             *)
(* redirections for each construct under way that has redirections, one    *)
(* scope of local variables for each call that makes one, one input for    *)
(* each eval and dot script, and loopnest counts the loops around the next *)
(* command.  What is assumed is that no error leaves a loop inside         *)
(* "command eval": it is the one way in which loopnest is not put back.    *)
THEOREM BalancedAlways == ASSUME ~LoopErrors PROVE Spec => []Balanced
  <1>1. Init => Types /\ Stacks /\ Nests
    BY InitTypes, InitNests
  <1>2. (Types /\ Stacks /\ Nests) /\ [Next]_vars => (Types /\ Stacks /\ Nests)'
    BY StepTypes, StepNests
  <1>3. Types /\ Stacks /\ Nests => Balanced
    BY BalancedThen
  <1> QED
    BY <1>1, <1>2, <1>3, PTL DEF Spec

-----------------------------------------------------------------------------
(* Where skipping leads *)

(* The loops and the target of return once the innermost frame is gone. *)
Popped ==
    /\ Depth' = Depth - 1 /\ DOMAIN frames' = 1..(Depth - 1) /\ Depth \in Nat
    /\ \A i \in 1..(Depth - 1) : frames'[i] = frames[i]
    /\ IsLoop(Top) => Loops = Loops' \cup {Depth} /\ Depth \notin Loops'
    /\ ~IsLoop(Top) /\ Top.kind # "function" => Loops' = Loops
    /\ Top.kind = "function" => Loops = {}
    /\ Top.kind \notin {"function", "dot"} => ReturnTo(frames') = ReturnTo(frames)
    /\ Top.kind \in {"function", "dot"} => ReturnTo(frames) = Depth
LEMMA LoopsPopped ==
  ASSUME Types, Depth > 0, frames' = Outer
  PROVE  Popped
  <1>0. PICK gs : gs = frames'
    OBVIOUS
  <1>1. PICK n \in Nat : n = Depth - 1 /\ n + 1 = Depth
    BY Unpacked
  <1>2. /\ frames \in Seq(FrameType) /\ Depth = Len(frames) /\ n \in 0..Len(frames)
        /\ DOMAIN frames = 1..(n + 1) /\ frames[n + 1] = Top /\ FramesType
    BY <1>1, Unpacked DEF Top
  <1>3. gs = SubSeq(frames, 1, n)
    BY <1>0, <1>1 DEF Outer
  <1>4. Len(gs) = n /\ DOMAIN gs = 1..n /\ \A i \in 1..n : gs[i] = frames[i]
    BY <1>2, <1>3, Cut
  <1>5. Depth' = n /\ DOMAIN frames' = 1..n /\ \A i \in 1..n : frames'[i] = frames[i]
    BY <1>0, <1>4 DEF Depth
  <1>6. Loops' = LoopsTo(gs, n)
    <2>1. Loops' = {i \in 1..n : IsLoop(gs[i]) /\ \A j \in i..n : gs[j].kind # "function"}
      BY <1>0, <1>5 DEF Loops
    <2> QED
      BY <2>1 DEF LoopsTo
  <1>7. LoopsTo(gs, n) = LoopsTo(frames, n)
    <2>1. \A j \in 1..n : gs[j].kind = frames[j].kind
      BY <1>4
    <2>2. \A k \in 0..n : LoopsTo(gs, k) = LoopsTo(frames, k)
      BY <2>1, SameLoops
    <2>3. n \in 0..n
      OBVIOUS
    <2> QED
      BY <2>2, <2>3
  <1>8. Loops = LoopsTo(frames, n + 1)
    BY <1>1, <1>2, LoopsNow
  <1>9. /\ Top.kind = "function" => Loops = {}
        /\ IsLoop(Top) => Loops = Loops' \cup {Depth}
        /\ ~IsLoop(Top) /\ Top.kind # "function" => Loops' = Loops
    <2>1. /\ frames[n + 1].kind = "function" => LoopsTo(frames, n + 1) = {}
          /\ IsLoop(frames[n + 1]) => LoopsTo(frames, n + 1) = LoopsTo(frames, n) \cup {n + 1}
          /\ ~IsLoop(frames[n + 1]) /\ frames[n + 1].kind # "function" =>
                LoopsTo(frames, n + 1) = LoopsTo(frames, n)
      BY LoopsStep
    <2> QED
      BY <1>1, <1>2, <1>6, <1>7, <1>8, <2>1
  <1>10. Depth \notin Loops'
    <2>1. Loops' \subseteq 1..n
      BY <1>6, LoopsFinite
    <2>2. Depth \notin 1..n
      BY <1>1
    <2> QED
      BY <2>1, <2>2
  <1>11. Top.kind \notin {"function", "dot"} => ReturnTo(gs) = ReturnTo(frames)
    <2> SUFFICES ASSUME Top.kind \notin {"function", "dot"}
                 PROVE  ReturnTo(gs) = ReturnTo(frames)
      OBVIOUS
    <2>1. {i \in DOMAIN gs : gs[i].kind \in {"function", "dot"}} =
             {i \in DOMAIN frames : frames[i].kind \in {"function", "dot"}}
      BY <1>2, <1>4
    <2> QED
      BY <2>1 DEF ReturnTo
  <1>12. Top.kind \in {"function", "dot"} => ReturnTo(frames) = Depth
    <2> SUFFICES ASSUME Top.kind \in {"function", "dot"} PROVE ReturnTo(frames) = Depth
      OBVIOUS
    <2>1. Depth \in Returns
      BY <1>1, <1>2 DEF Returns
    <2>2. PICK to : to = To
      OBVIOUS
    <2>3. to = ReturnTo(frames) /\ to \in 0..Depth /\ Depth \in Nat /\ Depth <= to
      BY <1>2, <2>1, <2>2, ToBound
    <2> QED
      BY <2>3
  <1> QED
    BY <1>0, <1>1, <1>5, <1>9, <1>10, <1>11, <1>12 DEF Popped

(* Nothing is skipped: only dot scripts not yet open matter. *)
DotLast(fs) == \A i \in DOMAIN fs : fs[i].kind = "dotcmd" => i = Len(fs)
LEMMA NotSkipping ==
  ASSUME pc' # "run" \/ (evalskip' = None /\ DotLast(frames'))
  PROVE  SkipInv'
  BY DEF SkipInv, DotLast, Returning, None, Depth

LEMMA DotFrames ==
  ASSUME Types, SkipInv, pc = "run"
  PROVE  /\ DotLast(frames)
         /\ evalskip # None => \A i \in DOMAIN frames : frames[i].kind # "dotcmd"
         /\ Depth > 0 /\ Top.kind = "dotcmd" => evalskip = None
  <1>1. Depth > 0 => Depth \in DOMAIN frames
    BY Unpacked
  <1> QED
    BY <1>1 DEF SkipInv, DotLast, Top, Depth

(* An exception: with no command being skipped, or none caught. *)
LEMMA RaisedSkip ==
  ASSUME Types, SkipInv, pc = "run", NEW e, NEW r, NEW v, evalskip = None \/ e # "EXERROR",
         Exraise(e, frames, r, v)
  PROVE  SkipInv' /\ evalskip' = None
  <1> DEFINE H == {i \in DOMAIN frames : Catches(e, frames[i])}
  <1>1. CASE H # {}
    <2>1. PICK i \in 1..Len(frames) : i = Max(H) /\ Catches(e, frames[i])
      BY <1>1, Handler, Unpacked
    <2>2. frames' = SubSeq(frames, 1, i - 1) /\ evalskip' = evalskip
      BY <1>1, <2>1 DEF Exraise
    <2>3. evalskip' = None
      BY <2>1, <2>2 DEF Catches
    <2>4. DotLast(frames')
      <3>1. frames \in Seq(FrameType) /\ i - 1 \in 0..Len(frames) /\ Len(frames) \in Nat
        BY Unpacked
      <3>2. /\ DOMAIN frames' = 1..(i - 1) /\ DOMAIN frames = 1..Len(frames)
            /\ \A j \in 1..(i - 1) : frames'[j] = frames[j]
        BY <2>2, <3>1, Cut
      <3>3. \A j \in 1..(i - 1) : frames[j].kind # "dotcmd"
        BY <3>1, <3>2, DotFrames DEF DotLast
      <3> QED
        BY <3>2, <3>3 DEF DotLast
    <2> QED
      BY <2>3, <2>4, NotSkipping
  <1>2. CASE H = {}
    <2>1. frames' = << >> /\ evalskip' = None
      BY <1>2 DEF Exraise, exitreset
    <2>2. DotLast(frames')
      BY <2>1 DEF DotLast
    <2> QED
      BY <2>1, <2>2, NotSkipping
  <1> QED
    BY <1>1, <1>2

LEMMA PushSkip ==
  ASSUME Types, SkipInv, Running, evalskip' = evalskip, NEW f \in FrameType, frames' = Append(frames, f)
  PROVE  SkipInv'
  <1>1. /\ pc = "run" /\ evalskip = None /\ (Depth > 0 => Top.kind # "dotcmd")
        /\ frames \in Seq(FrameType) /\ Len(frames) \in Nat /\ Depth = Len(frames)
        /\ DOMAIN frames = 1..Len(frames)
    BY Unpacked DEF Running
  <1>2. \A i \in 1..Len(frames) : frames[i].kind # "dotcmd"
    <2> SUFFICES ASSUME NEW i \in 1..Len(frames), frames[i].kind = "dotcmd" PROVE FALSE
      OBVIOUS
    <2>1. i = Len(frames)
      BY <1>1, DotFrames DEF DotLast
    <2> QED
      BY <1>1, <2>1 DEF Top
  <1>3. /\ DOMAIN frames' = 1..(Len(frames) + 1) /\ Len(frames') = Len(frames) + 1
        /\ \A i \in 1..Len(frames) : frames'[i] = frames[i]
    BY <1>1, Appended
  <1>4. DotLast(frames')
    <2> SUFFICES ASSUME NEW i \in DOMAIN frames', frames'[i].kind = "dotcmd"
                 PROVE  i = Len(frames')
      BY DEF DotLast
    <2>1. i \notin 1..Len(frames)
      BY <1>2, <1>3
    <2> QED
      BY <1>1, <1>3, <2>1
  <1> QED
    BY <1>1, <1>4, NotSkipping

(* No frame begins or ends, and nothing is skipped. *)
LEMMA SameSkip ==
  ASSUME Types, SkipInv, pc = "run", evalskip = None, evalskip' = None, frames' = frames
  PROVE  SkipInv'
  <1>1. DotLast(frames')
    BY DotFrames
  <1> QED
    BY <1>1, NotSkipping

LEMMA SkipBegin ==
  ASSUME Types, SkipInv, Begin
  PROVE  SkipInv'
  <1>1. CASE While
    <2>1. /\ Running /\ evalskip' = evalskip
          /\ frames' = Append(frames, [Frame("while", FALSE, << >>) EXCEPT !.test = TRUE])
      BY <1>1 DEF While
    <2>2. PICK g : g = Frame("while", FALSE, << >>)
      OBVIOUS
    <2>3. IsNew(g, "while", FALSE, << >>)
      <3>1. "while" \in Kinds
        BY DEF Kinds
      <3> QED
        BY <2>2, <3>1, NewFrame
    <2>4. g \in FrameType /\ g.kind = "while"
      BY <2>3 DEF IsNew
    <2>5. PICK f : f = [g EXCEPT !.test = TRUE]
      OBVIOUS
    <2>6. f \in FrameType
      BY <2>4, <2>5 DEF FrameType, IsLoop
    <2>7. frames' = Append(frames, f)
      BY <2>1, <2>2, <2>5
    <2> QED
      BY <2>1, <2>6, <2>7, PushSkip
  <1>2. CASE For
    <2>1. Running /\ evalskip' = evalskip /\ frames' = Append(frames, Frame("for", FALSE, << >>))
      BY <1>2 DEF For
    <2>2. PICK f : f = Frame("for", FALSE, << >>)
      OBVIOUS
    <2>3. IsNew(f, "for", FALSE, << >>)
      <3>1. "for" \in Kinds
        BY DEF Kinds
      <3> QED
        BY <2>2, <3>1, NewFrame
    <2>4. f \in FrameType /\ frames' = Append(frames, f)
      BY <2>1, <2>2, <2>3 DEF IsNew
    <2> QED
      BY <2>1, <2>4, PushSkip
  <1>3. CASE OpenScript
    <2>1. pc = "run" /\ Depth > 0 /\ Top.kind = "dotcmd"
      BY <1>3 DEF OpenScript
    <2>2. evalskip = None
      BY <2>1, DotFrames
    <2>3. CASE Error(frames, rd, lv)
      BY <2>1, <2>2, <2>3, RaisedSkip DEF Error
    <2>4. CASE frames' = [frames EXCEPT ![Depth].kind = "dot"] /\ evalskip' = evalskip
      <3>1. /\ Top \in FrameType /\ Top = frames[Depth] /\ frames \in Seq(FrameType)
            /\ Depth \in 1..Len(frames) /\ Depth = Len(frames) /\ DOMAIN frames = 1..Len(frames)
        BY <2>1, Unpacked DEF Top
      <3>2. DOMAIN frames' = DOMAIN frames /\ \A i \in DOMAIN frames : i # Depth => frames'[i] = frames[i]
        BY <2>4
      <3>3. frames'[Depth].kind = "dot"
        BY <2>4, <3>1 DEF FrameType
      <3>4. DotLast(frames')
        BY <2>1, <3>1, <3>2, <3>3, DotFrames DEF DotLast
      <3> QED
        BY <2>2, <2>4, <3>4, NotSkipping
    <2> QED
      BY <1>3, <2>3, <2>4 DEF OpenScript
  <1>4. ASSUME NEW rs \in Redirs \ {<< >>}, Block(rs)
        PROVE  SkipInv'
    <2>1. Running /\ evalskip' = evalskip /\ pc = "run" /\ evalskip = None
      BY <1>4 DEF Block, Running
    <2>2. CASE frames' = frames
      BY <2>1, <2>2, SameSkip
    <2>3. CASE frames' = Append(frames, Frame("block", FALSE, rs))
      <3>1. PICK f : f = Frame("block", FALSE, rs)
        OBVIOUS
      <3>2. IsNew(f, "block", FALSE, rs)
        <4>1. "block" \in Kinds /\ "block" \notin {"while", "for"} /\ rs # << >>
          BY DEF Kinds
        <4> QED
          BY <3>1, <4>1, NewFrame
      <3>3. f \in FrameType /\ frames' = Append(frames, f)
        BY <2>3, <3>1, <3>2 DEF IsNew
      <3> QED
        BY <2>1, <3>3, PushSkip
    <2> QED
      BY <1>4, <2>2, <2>3 DEF Block
  <1>5. ASSUME NEW kind \in {"function", "eval", "dotcmd"}, NEW command \in BOOLEAN,
               NEW rs \in Redirs, NEW as \in {<< >>} \cup (Vars \X Values),
               Call(kind, command, rs, as)
        PROVE  SkipInv'
    <2>1. PICK b \in BOOLEAN : b = (kind # "function" /\ ~command)
      OBVIOUS
    <2>2. PICK f : f = Frame(kind, b, rs)
      OBVIOUS
    <2>3. /\ Running /\ pc = "run" /\ evalskip = None
          /\ \/ \E r, v : Enter(f, r, v)
             \/ frames' = frames /\ evalskip' = evalskip
             \/ \E r, v : Error(frames, r, v)
      BY <1>5, <2>1, <2>2 DEF Call, Running
    <2>4. CASE \E r, v : Enter(f, r, v)
      <3>1. IsNew(f, kind, b, rs)
        <4>1. kind \in Kinds /\ kind \notin {"while", "for"} /\ kind # "block"
          BY DEF Kinds
        <4> QED
          BY <2>2, <4>1, NewFrame
      <3>2. f \in FrameType /\ frames' = Append(frames, f) /\ evalskip' = evalskip
        BY <2>4, <3>1 DEF IsNew, Enter
      <3> QED
        BY <2>3, <3>2, PushSkip
    <2>5. CASE frames' = frames /\ evalskip' = evalskip
      BY <2>3, <2>5, SameSkip
    <2>6. CASE \E r, v : Error(frames, r, v)
      BY <2>3, <2>6, RaisedSkip DEF Error
    <2> QED
      BY <2>3, <2>4, <2>5, <2>6
  <1>6. CASE \E rs \in Redirs \ {<< >>} : Block(rs)
    BY <1>4, <1>6
  <1>7. CASE \E rs \in Redirs, as \in {<< >>} \cup (Vars \X Values) : Call("function", FALSE, rs, as)
    <2>1. PICK rs \in Redirs, as \in {<< >>} \cup (Vars \X Values) : Call("function", FALSE, rs, as)
      BY <1>7
    <2>2. "function" \in {"function", "eval", "dotcmd"} /\ FALSE \in BOOLEAN
      OBVIOUS
    <2> QED
      BY <1>5, <2>1, <2>2
  <1>8. CASE \E rs \in Redirs, as \in {<< >>} \cup (Vars \X Values) :
               \E kind \in {"eval", "dotcmd"}, command \in BOOLEAN : Call(kind, command, rs, as)
    <2>1. PICK rs \in Redirs, as \in {<< >>} \cup (Vars \X Values),
               kind \in {"eval", "dotcmd"}, command \in BOOLEAN : Call(kind, command, rs, as)
      BY <1>8
    <2>2. kind \in {"function", "eval", "dotcmd"}
      OBVIOUS
    <2> QED
      BY <1>5, <2>1, <2>2
  <1> QED
    BY <1>1, <1>2, <1>3, <1>6, <1>7, <1>8 DEF Begin

(* break and continue say how many loops to leave: as many as there are    *)
(* from the one meant to the innermost.                                    *)
LEMMA SkipBreak ==
  ASSUME Types, Nests, SkipInv, NEW skip \in {"SKIPBREAK", "SKIPCONT"}, NEW n \in 1..2,
         breakcmd(skip, n)
  PROVE  SkipInv'
  <1>1. /\ pc = "run" /\ evalskip = None /\ frames' = frames /\ (Depth > 0 => Top.kind # "dotcmd")
        /\ IF Count(n) > 0 THEN evalskip' = skip /\ skipcount' = Count(n)
           ELSE evalskip' = evalskip /\ skipcount' = skipcount
        /\ goal' = IF Loops = {} THEN NoGoal
                   ELSE [to |-> Nth(n), how |-> IF skip = "SKIPBREAK" THEN "end" ELSE "next", status |-> 0]
    BY DEF breakcmd, Running
  <1>2. /\ FramesType /\ Loops = LoopsTo(frames, Depth) /\ IsFiniteSet(Loops)
        /\ Cardinality(Loops) \in Nat /\ Depth = Len(frames)
    BY LoopsNow, Unpacked
  <1>3. loopnest = Cardinality(Loops)
    BY <1>1, <1>2 DEF Nests, Nested
  <1>4. Count(n) = IF n <= Cardinality(Loops) THEN n ELSE Cardinality(Loops)
    <2>1. PICK c \in Nat : c = Cardinality(Loops)
      BY <1>2
    <2>2. Min({n, c}) = IF n <= c THEN n ELSE c
      <3>1. n \in Int /\ c \in Int
        OBVIOUS
      <3> QED
        BY <3>1, MinTwo
    <2> QED
      BY <1>3, <2>1, <2>2 DEF Count
  <1>5. CASE Count(n) <= 0
    <2>1. evalskip' = None
      BY <1>1, <1>2, <1>4, <1>5
    <2> QED
      BY <1>1, <2>1, SameSkip
  <1>6. CASE Count(n) > 0
    <2>1. evalskip' = skip /\ skipcount' = Count(n)
      BY <1>1, <1>6
    <2>2. Loops # {}
      <3>1. Cardinality({}) = 0
        BY FS_EmptySet
      <3> QED
        BY <1>4, <1>6, <3>1
    <2>3. PICK to : to = Nth(n)
      OBVIOUS
    <2>4. /\ to \in Loops
          /\ \/ Cardinality(Upper(Loops, to)) = n
             \/ Cardinality(Upper(Loops, to)) < n /\ Upper(Loops, to) = Loops
          /\ Cardinality(Upper(Loops, to)) <= Cardinality(Loops)
      BY <1>2, <2>2, <2>3, NthLoop
    <2>5. skipcount' = Cardinality(Upper(Loops, to))
      <3>1. CASE Cardinality(Upper(Loops, to)) = n
        BY <1>4, <2>1, <2>4, <3>1
      <3>2. CASE Cardinality(Upper(Loops, to)) < n /\ Upper(Loops, to) = Loops
        BY <1>2, <1>4, <2>1, <3>2
      <3> QED
        BY <2>4, <3>1, <3>2
    <2>6. goal'.to = to /\ goal'.how = IF skip = "SKIPBREAK" THEN "end" ELSE "next"
      BY <1>1, <2>2, <2>3
    <2>7. Loops' = Loops
      BY <1>1 DEF Loops, Depth
    <2>8. LevelGoal'
      BY <2>1, <2>4, <2>5, <2>6, <2>7 DEF LevelGoal, Upper
    <2>9. ~Returning'
      BY <2>1 DEF Returning
    <2>10. \A i \in DOMAIN frames : frames[i].kind # "dotcmd"
      <3> SUFFICES ASSUME NEW i \in DOMAIN frames, frames[i].kind = "dotcmd" PROVE FALSE
        OBVIOUS
      <3>1. i = Len(frames)
        BY <1>1, DotFrames DEF DotLast
      <3>2. Depth > 0
        BY <1>2, <3>1, Unpacked
      <3> QED
        BY <1>1, <1>2, <3>1, <3>2 DEF Top
    <2> QED
      BY <1>1, <2>8, <2>9, <2>10 DEF SkipInv
  <1>7. Count(n) \in Int
    BY <1>2, <1>4
  <1> QED
    BY <1>5, <1>6, <1>7

LEMMA SkipReturn ==
  ASSUME Types, SkipInv, NEW skip \in {"SKIPFUNC", "SKIPFUNCDEF"}, NEW status, returncmd(skip, status)
  PROVE  SkipInv'
  <1>1. /\ pc = "run" /\ frames' = frames /\ (Depth > 0 => Top.kind # "dotcmd")
        /\ TestReturns \/ skip = "SKIPFUNC" \/ \A i \in (To + 1)..Depth : ~frames[i].test
        /\ evalskip' = skip /\ exitstatus' = status
        /\ goal' = [to |-> To, how |-> "return", status |-> status]
    BY DEF returncmd, Running
  <1>2. To = ReturnTo(frames)
    BY ToBound, Unpacked
  <1>3. ReturnGoal'
    <2>1. goal'.how = "return" /\ goal'.to = To /\ goal'.status = status
      BY <1>1
    <2>2. Depth' = Depth
      BY <1>1 DEF Depth
    <2>3. ~TestReturns /\ skip = "SKIPFUNCDEF" => \A i \in (To + 1)..Depth : ~frames[i].test
      BY <1>1
    <2> QED
      BY <1>1, <1>2, <2>1, <2>2, <2>3 DEF ReturnGoal
  <1>4. \A i \in DOMAIN frames : frames[i].kind # "dotcmd"
    <2> SUFFICES ASSUME NEW i \in DOMAIN frames, frames[i].kind = "dotcmd" PROVE FALSE
      OBVIOUS
    <2>1. i = Len(frames)
      BY <1>1, DotFrames DEF DotLast
    <2>2. Depth > 0 /\ Depth = Len(frames)
      BY <2>1, Unpacked
    <2> QED
      BY <1>1, <2>1, <2>2 DEF Top
  <1>5. evalskip' \notin {"SKIPBREAK", "SKIPCONT"}
    BY <1>1
  <1> QED
    BY <1>1, <1>3, <1>4, <1>5 DEF SkipInv

LEMMA SkipDo ==
  ASSUME Types, Nests, SkipInv, Do
  PROVE  SkipInv'
  <1>1. CASE Simple
    <2>1. pc = "run" /\ evalskip = None /\ evalskip' = None /\ frames' = frames
      BY <1>1 DEF Simple, Running
    <2> QED
      BY <2>1, SameSkip
  <1>2. CASE Fails \/ exitcmd \/ Interrupt
    <2>1. pc = "run" /\ \E e : Exraise(e, frames, rd, lv) /\ (evalskip = None \/ e # "EXERROR")
      BY <1>2 DEF Fails, exitcmd, Interrupt, Error, Running
    <2> QED
      BY <2>1, RaisedSkip
  <1>3. ASSUME NEW command, NEW rs, Exec(command, rs)
        PROVE  SkipInv'
    <2>1. /\ pc = "run" /\ evalskip = None
          /\ \/ frames' = frames /\ evalskip' = evalskip
             \/ \E r, v : Exraise("EXERROR", frames, r, v)
      BY <1>3 DEF Exec, Error, Running
    <2> QED
      BY <2>1, SameSkip, RaisedSkip
  <1>4. ASSUME NEW v, SetVars(v)
        PROVE  SkipInv'
    <2>1. /\ pc = "run" /\ evalskip = None
          /\ \/ frames' = frames /\ evalskip' = evalskip
             \/ Exraise("EXERROR", frames, rd, v)
      BY <1>4 DEF SetVars, Error, Running
    <2> QED
      BY <2>1, SameSkip, RaisedSkip
  <1>5. ASSUME NEW x \in Vars, VarCommand(x)
        PROVE  \E v : SetVars(v)
    BY <1>5 DEF VarCommand
  <1>6. CASE \E skip \in {"SKIPBREAK", "SKIPCONT"}, n \in 1..2 : breakcmd(skip, n)
    BY <1>6, SkipBreak
  <1>7. CASE (\E status \in Statuses : returncmd("SKIPFUNC", status)) \/ returncmd("SKIPFUNCDEF", exitstatus)
    BY <1>7, SkipReturn
  <1> QED
    BY <1>1, <1>2, <1>3, <1>4, <1>5, <1>6, <1>7 DEF Do

(* What break and continue make of a loop that ends a turn: the last of    *)
(* the loops they are about is the one they lead to.                       *)
LEMMA LevelsLeft ==
  ASSUME Types, SkipInv, pc = "run", Levels, Depth > 0, IsLoop(Top)
  PROVE  /\ LevelGoal /\ Depth \in Loops /\ IsFiniteSet(Loops) /\ Loops \subseteq Int
         /\ \A j \in Loops : j <= Depth
         /\ skipcount \in Nat /\ skipcount > 0
         /\ LastLevel <=> goal.to = Depth
         /\ LastLevel <=> skipcount = 1
  <1>1. LevelGoal
    BY DEF SkipInv, Levels
  <1>2. /\ Loops \subseteq 1..Depth /\ Loops \subseteq Int /\ IsFiniteSet(Loops) /\ Depth \in Nat
    BY LoopsNow, Unpacked
  <1>3. Depth \in Loops
    <2>1. Depth \in DOMAIN frames
      BY Unpacked
    <2>2. frames[Depth].kind # "function"
      BY DEF IsLoop, Top
    <2>3. \A j \in Depth..Depth : j = Depth
      BY <1>2
    <2> QED
      BY <2>1, <2>2, <2>3 DEF Loops, Top
  <1>4. PICK to \in Loops : to = goal.to
    BY <1>1 DEF LevelGoal
  <1>5. skipcount = Cardinality(Upper(Loops, to))
    BY <1>1, <1>4 DEF LevelGoal, Upper
  <1>6. IsFiniteSet(Upper(Loops, to)) /\ Cardinality(Upper(Loops, to)) \in Nat
    <2>1. Upper(Loops, to) \subseteq Loops
      BY DEF Upper
    <2> QED
      BY <1>2, <2>1, FS_Subset, FS_CardinalityType
  <1>7. \A j \in Loops : j <= Depth /\ j \in Int
    BY <1>2
  <1>8. to \in Upper(Loops, to) /\ Depth \in Upper(Loops, to)
    BY <1>3, <1>7 DEF Upper
  <1>9. skipcount \in Nat /\ skipcount > 0
    <2>1. Upper(Loops, to) # {}
      BY <1>8
    <2>2. Cardinality(Upper(Loops, to)) # 0
      BY <1>6, <2>1, FS_EmptySet
    <2> QED
      BY <1>5, <1>6, <2>2
  <1>10. to = Depth => skipcount = 1
    <2> SUFFICES ASSUME to = Depth PROVE skipcount = 1
      OBVIOUS
    <2>1. Upper(Loops, to) = {Depth}
      <3> SUFFICES ASSUME NEW j PROVE j \in Upper(Loops, to) <=> j = Depth
        OBVIOUS
      <3>1. j \in Loops => j <= Depth /\ j \in Int
        BY <1>7
      <3> QED
        BY <1>2, <1>3, <3>1 DEF Upper
    <2>2. Cardinality({Depth}) = 1
      BY FS_Singleton
    <2> QED
      BY <1>5, <2>1, <2>2
  <1>11. to # Depth => skipcount > 1
    <2> SUFFICES ASSUME to # Depth PROVE skipcount > 1
      OBVIOUS
    <2>1. {to, Depth} \subseteq Upper(Loops, to)
      BY <1>8
    <2>2. Cardinality({to, Depth}) = 2
      <3>1. {to, Depth} = {to} \cup {Depth} /\ Depth \notin {to}
        OBVIOUS
      <3>2. IsFiniteSet({to}) /\ Cardinality({to}) = 1
        BY FS_Singleton
      <3>3. Cardinality({to} \cup {Depth}) = Cardinality({to}) + 1
        BY <3>1, <3>2, FS_AddElement
      <3> QED
        BY <3>1, <3>2, <3>3
    <2>3. Cardinality({to, Depth}) <= Cardinality(Upper(Loops, to))
      BY <1>6, <2>1, FS_Subset
    <2> QED
      BY <1>5, <1>9, <2>2, <2>3
  <1>12. LastLevel <=> skipcount = 1
    BY <1>9 DEF LastLevel
  <1> QED
    BY <1>1, <1>2, <1>3, <1>4, <1>7, <1>9, <1>10, <1>11, <1>12

(* Skipping goes on in what is around a construct. *)
LEMMA PoppedSkip ==
  ASSUME Types, SkipInv, pc = "run", Depth > 0, frames' = Outer, evalskip # None,
         evalskip' = evalskip, goal' = goal,
         evalskip \in {"SKIPBREAK", "SKIPCONT"} =>
            IF IsLoop(Top) THEN ~LastLevel /\ skipcount' = skipcount - 1 ELSE skipcount' = skipcount,
         Returning => Top.kind \notin {"function", "dot"},
         Returning /\ ~TestReturns => exitstatus' = exitstatus
  PROVE  SkipInv'
  <1>1. Popped
    BY LoopsPopped
  <1>2. \A i \in DOMAIN frames' : frames'[i].kind # "dotcmd"
    <2>1. \A i \in DOMAIN frames : frames[i].kind # "dotcmd"
      BY DotFrames
    <2>2. \A i \in 1..(Depth - 1) : i \in DOMAIN frames
      BY Unpacked
    <2> QED
      BY <1>1, <2>1, <2>2 DEF Popped
  <1>3. CASE Levels
    <2>0. evalskip \in {"SKIPBREAK", "SKIPCONT"} /\ LevelGoal
      BY <1>3 DEF Levels, SkipInv
    <2>1. Top.kind # "function"
      <3> SUFFICES ASSUME Top.kind = "function" PROVE FALSE
        OBVIOUS
      <3>1. Loops = {}
        BY <1>1 DEF Popped
      <3> QED
        BY <2>0, <3>1 DEF LevelGoal
    <2>2. CASE ~IsLoop(Top)
      <3>1. Loops' = Loops /\ skipcount' = skipcount
        BY <1>1, <2>0, <2>1, <2>2 DEF Popped
      <3>2. LevelGoal'
        BY <2>0, <3>1 DEF LevelGoal
      <3> QED
        BY <1>2, <2>0, <3>2 DEF SkipInv, Returning
    <2>3. CASE IsLoop(Top)
      <3>1. ~LastLevel /\ skipcount' = skipcount - 1
        BY <2>0, <2>3
      <3>2. /\ Depth \in Loops /\ IsFiniteSet(Loops) /\ Loops \subseteq Int
            /\ (\A j \in Loops : j <= Depth) /\ skipcount \in Nat /\ goal.to # Depth
        BY <1>3, <2>3, <3>1, LevelsLeft
      <3>3. Loops = Loops' \cup {Depth} /\ Depth \notin Loops'
        BY <1>1, <2>3 DEF Popped
      <3>4. PICK to \in Loops : to = goal.to
        BY <2>0 DEF LevelGoal
      <3>5. PICK L : L = Loops'
        OBVIOUS
      <3>6. to \in L
        BY <3>2, <3>3, <3>4, <3>5
      <3>7. Upper(Loops, to) = Upper(L, to) \cup {Depth} /\ Depth \notin Upper(L, to)
        <4>1. Depth >= to
          BY <3>2
        <4> QED
          BY <3>3, <3>5, <4>1 DEF Upper
      <3>8. Cardinality(Upper(Loops, to)) = Cardinality(Upper(L, to)) + 1
            /\ Cardinality(Upper(L, to)) \in Nat
        <4>1. Upper(L, to) \subseteq Loops
          BY <3>3, <3>5 DEF Upper
        <4>2. IsFiniteSet(Upper(L, to))
          BY <3>2, <4>1, FS_Subset
        <4> QED
          BY <3>7, <4>2, FS_AddElement, FS_CardinalityType
      <3>9. skipcount = Cardinality(Upper(Loops, to))
        BY <2>0, <3>4 DEF LevelGoal, Upper
      <3>10. skipcount' = Cardinality(Upper(L, to))
        BY <3>1, <3>8, <3>9
      <3>11. LevelGoal'
        BY <2>0, <3>4, <3>5, <3>6, <3>10 DEF LevelGoal, Upper
      <3> QED
        BY <1>2, <2>0, <3>11 DEF SkipInv, Returning
    <2> QED
      BY <2>2, <2>3
  <1>4. CASE Returning
    <2>1. ReturnGoal /\ Top.kind \notin {"function", "dot"}
      BY <1>4 DEF SkipInv
    <2>2. ReturnTo(frames') = ReturnTo(frames)
      BY <1>1, <2>1 DEF Popped
    <2>3. ASSUME ~TestReturns, evalskip = "SKIPFUNCDEF", NEW i \in (goal.to + 1)..(Depth - 1)
          PROVE  ~frames'[i].test
      <3>1. goal.to \in Nat /\ Depth \in Nat
        <4>1. goal.to = To /\ To \in 0..Depth /\ Depth \in Nat
          BY <2>1, ToBound, Unpacked DEF ReturnGoal
        <4> QED
          BY <4>1
      <3>2. i \in (goal.to + 1)..Depth /\ i \in 1..(Depth - 1)
        BY <3>1
      <3>3. ~frames[i].test
        BY <2>1, <2>3, <3>2 DEF ReturnGoal
      <3> QED
        BY <1>1, <3>2, <3>3 DEF Popped
    <2>4. Depth' = Depth - 1
      BY <1>1 DEF Popped
    <2>5. ReturnGoal'
      BY <1>4, <2>1, <2>2, <2>3, <2>4 DEF ReturnGoal
    <2>6. evalskip' \notin {"SKIPBREAK", "SKIPCONT"}
      BY <1>4 DEF Returning
    <2> QED
      BY <1>2, <2>5, <2>6 DEF SkipInv
  <1> QED
    BY <1>3, <1>4, Unpacked DEF Levels, Returning, Skips

(* A loop ends, or its innermost frame goes on. *)
LEMMA DotsKept ==
  ASSUME Types, SkipInv, pc = "run", Depth > 0,
         \/ frames' = Outer
         \/ \E test, status : frames' = [frames EXCEPT ![Depth].test = test, ![Depth].status = status]
  PROVE  DotLast(frames')
  <1>1. /\ DotLast(frames) /\ frames \in Seq(FrameType) /\ Depth = Len(frames) /\ Depth \in Nat
        /\ DOMAIN frames = 1..Depth /\ \A i \in 1..Depth : frames[i] \in FrameType
    BY DotFrames, Unpacked
  <1>2. CASE frames' = Outer
    <2>1. /\ Depth' = Depth - 1 /\ DOMAIN frames' = 1..(Depth - 1)
          /\ \A i \in 1..(Depth - 1) : frames'[i] = frames[i]
      BY <1>2, LoopsPopped DEF Popped
    <2>2. \A i \in 1..(Depth - 1) : frames[i].kind # "dotcmd"
      BY <1>1 DEF DotLast
    <2> QED
      BY <2>1, <2>2 DEF DotLast
  <1>3. CASE \E test, status : frames' = [frames EXCEPT ![Depth].test = test, ![Depth].status = status]
    <2>1. PICK test, status : frames' = [frames EXCEPT ![Depth].test = test, ![Depth].status = status]
      BY <1>3
    <2>2. Depth \in 1..Depth
      BY <1>1
    <2>3. PICK f \in FrameType : f = frames[Depth]
      BY <1>1, <2>2
    <2>4. PICK g : g = [f EXCEPT !.test = test, !.status = status]
      OBVIOUS
    <2>5. g.kind = f.kind
      BY <2>3, <2>4 DEF FrameType
    <2>6. frames' = [frames EXCEPT ![Depth] = g]
      BY <1>1, <2>1, <2>2, <2>3, <2>4
    <2>7. DOMAIN frames' = 1..Depth /\ \A i \in 1..Depth : frames'[i].kind = frames[i].kind
      BY <1>1, <2>3, <2>5, <2>6
    <2>8. \A i \in 1..Depth : frames[i].kind = "dotcmd" => i = Depth
      BY <1>1 DEF DotLast
    <2>9. Len(frames') = Depth
      BY <1>1, <2>6
    <2> QED
      BY <2>7, <2>8, <2>9 DEF DotLast
  <1> QED
    BY <1>2, <1>3

LEMMA LoopSkip ==
  ASSUME Types, SkipInv, pc = "run", Depth > 0, IsLoop(Top), SkipLoop,
         \/ frames' = Outer
         \/ \E test, status : frames' = [frames EXCEPT ![Depth].test = test, ![Depth].status = status],
         Leaves => frames' = Outer,
         Returning /\ ~TestReturns => exitstatus' = exitstatus
  PROVE  SkipInv'
  <1>1. CASE evalskip = None \/ LastLevel
    <2>1. evalskip' = None
      BY <1>1 DEF SkipLoop
    <2>2. DotLast(frames')
      BY DotsKept
    <2> QED
      BY <2>1, <2>2, NotSkipping
  <1>2. CASE evalskip # None /\ ~LastLevel
    <2>1. evalskip' = evalskip /\ goal' = goal /\ skipcount' = IF Levels THEN skipcount - 1 ELSE skipcount
      BY <1>2 DEF SkipLoop
    <2>2. Leaves
      BY <1>2, Unpacked DEF Leaves, Skip, Levels, Skips, None
    <2>3. evalskip \in {"SKIPBREAK", "SKIPCONT"} => skipcount' = skipcount - 1
      BY <2>1 DEF Levels
    <2>4. Returning => Top.kind \notin {"function", "dot"}
      BY DEF IsLoop
    <2> QED
      BY <1>2, <2>1, <2>2, <2>3, <2>4, PoppedSkip
  <1> QED
    BY <1>1, <1>2

(* The status given to return stays while loops are left. *)
LEMMA StatusKept ==
  ASSUME Types, SkipInv, pc = "run", Returning, ~TestReturns, EndTest
  PROVE  exitstatus' = exitstatus
  <1>1. /\ Depth > 0 /\ Top.test /\ Skip = evalskip /\ Leaves /\ ReturnGoal
        /\ LeaveLoop(IF Skip = "SKIPFUNC" THEN exitstatus ELSE Top.status)
    BY DEF EndTest, Returning, Skip, Levels, Leaves, None, SkipInv
  <1>2. CASE evalskip = "SKIPFUNC"
    BY <1>1, <1>2 DEF LeaveLoop
  <1>3. CASE evalskip = "SKIPFUNCDEF"
    <2>1. PICK to : to = To
      OBVIOUS
    <2>2. to = goal.to /\ to \in 0..Depth /\ Depth \in Nat /\ (to # 0 => to \in Returns)
      BY <1>1, <2>1, ToBound, Unpacked DEF ReturnGoal
    <2>3. Top.kind = "while"
      BY <1>1, FrameFields, Unpacked
    <2>4. to # Depth
      <3>1. Depth \notin Returns
        BY <2>3 DEF Returns, Top
      <3> QED
        BY <1>1, <2>2, <3>1
    <2>5. Depth \in (goal.to + 1)..Depth
      BY <2>2, <2>4
    <2>6. ~frames[Depth].test
      BY <1>1, <1>3, <2>5 DEF ReturnGoal
    <2> QED
      BY <1>1, <2>6 DEF Top
  <1> QED
    BY <1>2, <1>3 DEF Returning

LEMMA SkipEnd ==
  ASSUME Types, SkipInv, End
  PROVE  SkipInv'
  <1>1. CASE EndTest
    <2>1. /\ pc = "run" /\ Depth > 0 /\ Top.test /\ SkipLoop
          /\ \/ frames' = Outer
             \/ \E test, status : frames' = [frames EXCEPT ![Depth].test = test, ![Depth].status = status]
          /\ Leaves => frames' = Outer
      BY <1>1 DEF EndTest, LeaveLoop, Goto
    <2>2. IsLoop(Top)
      BY <2>1, Unpacked, FrameFields DEF IsLoop
    <2>3. Returning /\ ~TestReturns => exitstatus' = exitstatus
      BY <1>1, <2>1, StatusKept
    <2> QED
      BY <2>1, <2>2, <2>3, LoopSkip
  <1>2. CASE EndBody
    <2>1. /\ pc = "run" /\ Depth > 0 /\ IsLoop(Top) /\ SkipLoop
          /\ \/ frames' = Outer
             \/ \E test, status : frames' = [frames EXCEPT ![Depth].test = test, ![Depth].status = status]
          /\ Leaves => frames' = Outer
          /\ exitstatus' = exitstatus
      BY <1>2, SMTT(20) DEF EndBody, LeaveLoop, Goto
    <2> QED
      BY <2>1, LoopSkip
  <1>3. CASE EndBlock
    <2>1. /\ pc = "run" /\ Depth > 0 /\ Top.kind = "block" /\ frames' = Outer /\ evalskip' = evalskip
          /\ skipcount' = skipcount /\ exitstatus' = exitstatus /\ goal' = goal
      BY <1>3 DEF EndBlock
    <2>2. ~IsLoop(Top) /\ Top.kind \notin {"function", "dot"}
      BY <2>1 DEF IsLoop
    <2>3. CASE evalskip = None
      BY <2>1, <2>3, DotsKept, NotSkipping
    <2>4. CASE evalskip # None
      BY <2>1, <2>2, <2>4, PoppedSkip
    <2> QED
      BY <2>3, <2>4
  <1>4. CASE EndCall
    <2>1. /\ pc = "run" /\ Depth > 0 /\ Top.kind \in {"function", "eval", "dot"} /\ frames' = Outer
          /\ skipcount' = skipcount /\ exitstatus' = exitstatus
          /\ IF SkipEnds THEN evalskip' = None /\ goal' = NoGoal
             ELSE evalskip' = evalskip /\ goal' = goal
      BY <1>4 DEF EndCall
    <2>2. CASE evalskip' = None
      BY <2>1, <2>2, DotsKept, NotSkipping
    <2>3. CASE evalskip' # None
      <3>1. evalskip' = evalskip /\ goal' = goal /\ evalskip # None /\ ~SkipEnds
        BY <2>1, <2>3
      <3>2. ~IsLoop(Top) /\ (Returning => Top.kind \notin {"function", "dot"})
        BY <2>1, <3>1 DEF IsLoop, SkipEnds
      <3> QED
        BY <2>1, <3>1, <3>2, PoppedSkip
    <2> QED
      BY <2>2, <2>3
  <1>5. CASE EndTop
    BY <1>5 DEF EndTop, SkipInv
  <1> QED
    BY <1>1, <1>2, <1>3, <1>4, <1>5 DEF End

LEMMA StepSkip ==
  ASSUME Types, Nests, SkipInv, [Next]_vars
  PROVE  SkipInv'
  <1>1. CASE UNCHANGED vars
    BY <1>1 DEF vars, SkipInv, LevelGoal, ReturnGoal, Returning, Loops, Depth
  <1> QED
    BY <1>1, SkipBegin, SkipDo, SkipEnd DEF Next

LEMMA InitSkip == Init => SkipInv
  BY DEF Init, SkipInv, Returning, None

(* While commands are skipped there is a break, continue or return that    *)
(* asked for it, with a loop, function or dot script to lead to, or the    *)
(* top of the script for return, and the commands around that one are not  *)
(* skipped yet.                                                            *)
THEOREM SkippingLeadsSomewhere == ASSUME ~LoopErrors PROVE Spec => []SkipTarget
  <1>1. Init => Types /\ Stacks /\ Nests /\ SkipInv
    BY InitTypes, InitNests, InitSkip
  <1>2. (Types /\ Stacks /\ Nests /\ SkipInv) /\ [Next]_vars => (Types /\ Stacks /\ Nests /\ SkipInv)'
    BY StepTypes, StepNests, StepSkip
  <1>3. Types /\ SkipInv => SkipTarget
    <2> SUFFICES ASSUME Types, SkipInv, pc = "run", evalskip # None
                 PROVE  goal.how # "none" /\ Depth >= goal.to
      BY DEF SkipTarget
    <2>1. CASE evalskip \in {"SKIPBREAK", "SKIPCONT"}
      <3>1. goal.how \in {"end", "next"} /\ goal.to \in Loops
        BY <2>1 DEF SkipInv, LevelGoal
      <3>2. goal.to \in 1..Depth /\ Depth \in Nat
        BY <3>1, LoopsNow, Unpacked
      <3> QED
        BY <3>1, <3>2
    <2>2. CASE Returning
      <3>1. goal.how = "return" /\ goal.to = ReturnTo(frames)
        BY <2>2 DEF SkipInv, ReturnGoal
      <3>2. goal.to \in 0..Depth /\ Depth \in Nat
        <4>1. To = ReturnTo(frames) /\ To \in 0..Depth /\ Depth \in Nat
          BY ToBound, Unpacked
        <4> QED
          BY <3>1, <4>1
      <3> QED
        BY <3>1, <3>2
    <2> QED
      BY <2>1, <2>2, Unpacked DEF Returning, Skips
  <1> QED
    BY <1>1, <1>2, <1>3, PTL DEF Spec

(* Skipping ends where it was to lead, or an interrupt takes the shell     *)
(* back to its prompt.                                                     *)
LEMMA LoopLands ==
  ASSUME Types, SkipInv, pc = "run", Depth > 0, IsLoop(Top), evalskip # None, LastLevel,
         Leaves => frames' = Outer,
         ~Leaves => \/ \E test, status : frames' = [frames EXCEPT ![Depth].test = test, ![Depth].status = status]
                    \/ Top.kind = "for" /\ frames' = Outer
  PROVE  Landed
  <1>1. Levels
    BY DEF LastLevel
  <1>2. LevelGoal /\ goal.to = Depth
    BY <1>1, LevelsLeft
  <1>3. CASE evalskip = "SKIPBREAK"
    <2>1. Leaves
      BY <1>3 DEF Leaves, Skip, None
    <2>2. goal.how = "end"
      BY <1>2, <1>3 DEF LevelGoal
    <2> QED
      BY <1>2, <2>1, <2>2 DEF Landed
  <1>4. CASE evalskip = "SKIPCONT"
    <2>1. ~Leaves
      BY <1>4 DEF Leaves, Skip, Levels, LastLevel
    <2>2. goal.how = "next"
      BY <1>2, <1>4 DEF LevelGoal
    <2>3. \/ Len(frames') = Depth /\ SubSeq(frames', 1, Depth - 1) = Outer
          \/ Top.kind = "for" /\ frames' = Outer
      <3>1. CASE \E test, status : frames' = [frames EXCEPT ![Depth].test = test, ![Depth].status = status]
        <4>1. PICK test, status : frames' = [frames EXCEPT ![Depth].test = test, ![Depth].status = status]
          BY <3>1
        <4>2. PICK n \in Nat : n = Depth - 1
          BY Unpacked
        <4>3. /\ frames \in Seq(FrameType) /\ Depth = Len(frames) /\ Depth = n + 1
              /\ n \in 0..Len(frames) /\ DOMAIN frames = 1..Depth
          BY <4>2, Unpacked
        <4>4. PICK g : g = [frames[Depth] EXCEPT !.test = test, !.status = status]
          OBVIOUS
        <4>5. PICK gs : gs = [frames EXCEPT ![Depth] = g]
          OBVIOUS
        <4>6. gs = frames'
          BY <4>1, <4>3, <4>4, <4>5
        <4>7. PICK S : S = FrameType \cup {g}
          OBVIOUS
        <4>8. frames \in Seq(S) /\ g \in S /\ Depth \in 1..Len(frames)
          BY <4>3, <4>7
        <4>9. /\ gs \in Seq(S) /\ Len(gs) = Len(frames)
              /\ \A i \in 1..Len(frames) : gs[i] = IF i = Depth THEN g ELSE frames[i]
          BY <4>5, <4>8, Updated
        <4>10. /\ SubSeq(gs, 1, n) \in Seq(S) /\ Len(SubSeq(gs, 1, n)) = n
               /\ DOMAIN SubSeq(gs, 1, n) = 1..n
               /\ \A i \in 1..n : SubSeq(gs, 1, n)[i] = gs[i]
          BY <4>3, <4>9, Cut
        <4>11. /\ SubSeq(frames, 1, n) \in Seq(S) /\ Len(SubSeq(frames, 1, n)) = n
               /\ DOMAIN SubSeq(frames, 1, n) = 1..n
               /\ \A i \in 1..n : SubSeq(frames, 1, n)[i] = frames[i]
          <5>1. PICK fs : fs = frames
            OBVIOUS
          <5>2. fs \in Seq(S) /\ n \in 0..Len(fs)
            BY <4>3, <4>8, <5>1
          <5>3. /\ SubSeq(fs, 1, n) \in Seq(S) /\ Len(SubSeq(fs, 1, n)) = n
                /\ DOMAIN SubSeq(fs, 1, n) = 1..n
                /\ \A i \in 1..n : SubSeq(fs, 1, n)[i] = fs[i]
            BY ONLY <5>2, Cut
          <5> QED
            BY <5>1, <5>3
        <4>12. \A i \in 1..n : SubSeq(gs, 1, n)[i] = SubSeq(frames, 1, n)[i]
          BY <4>3, <4>9, <4>10, <4>11
        <4>13. SubSeq(gs, 1, n) = SubSeq(frames, 1, n)
          BY <4>10, <4>11, <4>12
        <4> QED
          BY <4>2, <4>3, <4>6, <4>9, <4>13 DEF Outer
      <3> QED
        BY <2>1, <3>1
    <2> QED
      BY <1>2, <2>2, <2>3 DEF Landed
  <1> QED
    BY <1>1, <1>3, <1>4 DEF Levels

LEMMA StepLands ==
  ASSUME Types, SkipInv, ~TestReturns, Next, evalskip # None, evalskip' = None
  PROVE  Landed \/ (iflag /\ exitstatus' = 130)
  <1>1. CASE Begin
    <2>1. ~Running
      BY DEF Running
    <2>2. ~While /\ ~For
      BY <2>1 DEF While, For
    <2>3. \A rs : ~Block(rs)
      BY <2>1 DEF Block
    <2>4. \A kind, command, rs, as : ~Call(kind, command, rs, as)
      BY <2>1, ZenonT(40) DEF Call
    <2>5. OpenScript
      BY <1>1, <2>2, <2>3, <2>4 DEF Begin
    <2> QED
      BY <2>5, DotFrames DEF OpenScript
  <1>2. CASE Do
    <2>1. Interrupt
      BY <1>2 DEF Do, Simple, Fails, exitcmd, Exec, VarCommand, SetVars, breakcmd, returncmd, Running
    <2> QED
      BY <2>1 DEF Interrupt
  <1>3. CASE EndTest
    <2>1. /\ pc = "run" /\ Depth > 0 /\ Top.test /\ SkipLoop
          /\ Leaves => frames' = Outer
      BY <1>3 DEF EndTest, LeaveLoop
    <2>2. IsLoop(Top)
      BY <2>1, Unpacked, FrameFields DEF IsLoop
    <2>3. LastLevel
      BY <2>1 DEF SkipLoop
    <2>4. ~Leaves => \E test, status :
                        frames' = [frames EXCEPT ![Depth].test = test, ![Depth].status = status]
      <3> SUFFICES ASSUME ~Leaves
                   PROVE  \E test, status :
                        frames' = [frames EXCEPT ![Depth].test = test, ![Depth].status = status]
        OBVIOUS
      <3>1. Skip = "SKIPCONT"
        BY DEF Leaves, Skip, None
      <3>2. Goto(TRUE, Top.status)
        BY <1>3, <3>1 DEF EndTest
      <3> QED
        BY <3>2 DEF Goto
    <2> QED
      BY <2>1, <2>2, <2>3, <2>4, LoopLands
  <1>4. CASE EndBody
    <2>1. /\ pc = "run" /\ Depth > 0 /\ IsLoop(Top) /\ SkipLoop
          /\ Leaves => frames' = Outer
          /\ ~Leaves => \/ \E test, status :
                              frames' = [frames EXCEPT ![Depth].test = test, ![Depth].status = status]
                        \/ Top.kind = "for" /\ frames' = Outer
      BY <1>4 DEF EndBody, LeaveLoop, Goto
    <2>2. LastLevel
      BY <2>1 DEF SkipLoop
    <2> QED
      BY <2>1, <2>2, LoopLands
  <1>5. CASE EndBlock
    BY <1>5 DEF EndBlock
  <1>6. CASE EndCall
    <2>1. /\ pc = "run" /\ Depth > 0 /\ Top.kind \in {"function", "eval", "dot"} /\ frames' = Outer
          /\ exitstatus' = exitstatus /\ SkipEnds
      BY <1>6 DEF EndCall
    <2>2. Returning /\ Top.kind \in {"function", "dot"}
      BY <2>1 DEF SkipEnds
    <2>3. ReturnGoal /\ exitstatus = goal.status
      BY <2>1, <2>2 DEF SkipInv, ReturnGoal
    <2>4. ReturnTo(frames) = Depth
      BY <2>1, <2>2, LoopsPopped DEF Popped
    <2> QED
      BY <2>1, <2>3, <2>4 DEF Landed, ReturnGoal
  <1>7. CASE EndTop
    <2>1. pc = "run" /\ frames = << >> /\ Returning /\ frames' = frames /\ exitstatus' = exitstatus
      BY <1>7 DEF EndTop
    <2>2. ReturnGoal /\ exitstatus = goal.status
      BY <2>1 DEF SkipInv, ReturnGoal
    <2>3. Depth = 0 /\ Outer = << >>
      BY <2>1 DEF Depth, Outer
    <2>4. ReturnTo(frames) = 0
      BY <2>1 DEF ReturnTo
    <2> QED
      BY <2>1, <2>2, <2>3, <2>4 DEF Landed, ReturnGoal
  <1> QED
    BY <1>1, <1>2, <1>3, <1>4, <1>5, <1>6, <1>7 DEF Next, End

(* break ends the loop it names and continue begins its next turn, however *)
(* many constructs are left on the way; return ends the function or dot    *)
(* script around it, with the status it was given.  An interrupt of an     *)
(* interactive shell may come first.  Assumed, beside what Balanced needs, *)
(* is that no plain return is in the condition of a loop: evaltree() does  *)
(* not keep the status of that one.                                        *)
THEOREM SkippingLands == ASSUME ~LoopErrors, ~TestReturns PROVE Spec => Lands
  <1>1. Init => Types /\ Stacks /\ Nests /\ SkipInv
    BY InitTypes, InitNests, InitSkip
  <1>2. (Types /\ Stacks /\ Nests /\ SkipInv) /\ [Next]_vars => (Types /\ Stacks /\ Nests /\ SkipInv)'
    BY StepTypes, StepNests, StepSkip
  <1>3. (Types /\ Stacks /\ Nests /\ SkipInv) /\ [Next]_vars =>
          [evalskip # None /\ evalskip' = None => Landed \/ (iflag /\ exitstatus' = 130)]_vars
    BY StepLands
  <1> QED
    BY <1>1, <1>2, <1>3, PTL DEF Spec, Lands


-----------------------------------------------------------------------------
(* Local variables as the stack of scopes of ShellScopes: what variables   *)
(* mean, what each scope has saved, and what a variable means once all     *)
(* scopes but the first k have ended.                                      *)

Means(v) == [x \in Vars |-> Meaning(v.vars[x])]
Scopes(v) == [i \in DOMAIN v.stack |-> [x \in Vars |-> SavedMeaning(v.stack[i], x)]]
Taking(v, k, x) == {i \in (k + 1)..Len(v.stack) : SavedMeaning(v.stack[i], x) # <<"keep">>}
MeantBefore(v, k, x) ==
    IF Taking(v, k, x) = {} THEN Meaning(v.vars[x])
    ELSE SavedMeaning(v.stack[Min(Taking(v, k, x))], x)

LEMMA NotKeep == \A e : Meaning(e) # <<"keep">>
  <1> SUFFICES ASSUME NEW e, Meaning(e) = <<"keep">> PROVE FALSE
    OBVIOUS
  <1>1. Len(Meaning(e)) = 2
    BY DEF Meaning
  <1>2. Len(<<"keep">>) = 1
    OBVIOUS
  <1> QED
    BY <1>1, <1>2

(* Of the items of a variable in a scope the first one saved counts. *)
LEMMA SavedLast ==
  ASSUME NEW items \in Seq(Item), NEW x
  PROVE  \/ /\ \A k \in DOMAIN items : items[k].name # x
            /\ SavedMeaning(items, x) = <<"keep">>
         \/ \E k \in DOMAIN items :
               /\ items[k].name = x
               /\ \A m \in DOMAIN items : m > k => items[m].name # x
               /\ SavedMeaning(items, x) = Meaning(items[k].was)
               /\ SavedMeaning(items, x) # <<"keep">>
  <1> DEFINE S == {k \in DOMAIN items : items[k].name = x}
  <1>1. SavedMeaning(items, x) = IF S = {} THEN <<"keep">> ELSE Meaning(items[Max(S)].was)
    BY DEF SavedMeaning
  <1>2. CASE S = {}
    BY <1>1, <1>2
  <1>3. CASE S # {}
    <2>1. DOMAIN items = 1..Len(items) /\ Len(items) \in Int
      OBVIOUS
    <2>2. S \subseteq Int /\ (\A y \in S : y <= Len(items))
      BY <2>1
    <2>3. Max(S) \in S /\ \A y \in S : y <= Max(S)
      <3> HIDE DEF S
      <3> QED
        BY <1>3, <2>1, <2>2, MaxOf
    <2>4. PICK k \in S : k = Max(S)
      BY <2>3
    <2>5. \A m \in DOMAIN items : m > k => items[m].name # x
      <3> SUFFICES ASSUME NEW m \in DOMAIN items, m > k, items[m].name = x PROVE FALSE
        OBVIOUS
      <3>1. m \in S /\ m \in Int /\ k \in Int
        BY <2>1
      <3> HIDE DEF S
      <3>2. m <= k
        BY <2>3, <2>4, <3>1
      <3> QED
        BY <3>1, <3>2
    <2>6. SavedMeaning(items, x) = Meaning(items[k].was)
      BY <1>1, <1>3, <2>4
    <2> QED
      BY <2>4, <2>5, <2>6, NotKeep
  <1> QED
    BY <1>2, <1>3

LEMMA NoneSaved == \A x : SavedMeaning(<< >>, x) = <<"keep">>
  BY DEF SavedMeaning

(* Another item counts only for a variable that has none in the scope.     *)
LEMMA SavedMore ==
  ASSUME NEW items \in Seq(Item), NEW t \in Item, NEW x
  PROVE  SavedMeaning(<<t>> \o items, x) =
            IF t.name = x /\ SavedMeaning(items, x) = <<"keep">> THEN Meaning(t.was)
            ELSE SavedMeaning(items, x)
  <1>1. PICK more \in Seq(Item) :
           /\ more = <<t>> \o items /\ Len(more) = Len(items) + 1 /\ more[1] = t
           /\ DOMAIN more = 1..(Len(items) + 1) /\ DOMAIN items = 1..Len(items) /\ Len(items) \in Nat
           /\ \A k \in 1..Len(items) : more[k + 1] = items[k]
    <2>1. <<t>> \o items \in Seq(Item) /\ Len(<<t>> \o items) = Len(items) + 1
      OBVIOUS
    <2>2. (<<t>> \o items)[1] = t
      OBVIOUS
    <2>3. \A k \in 1..Len(items) : (<<t>> \o items)[k + 1] = items[k]
      OBVIOUS
    <2>4. DOMAIN (<<t>> \o items) = 1..(Len(items) + 1) /\ DOMAIN items = 1..Len(items) /\ Len(items) \in Nat
      BY <2>1
    <2> QED
      BY <2>1, <2>2, <2>3, <2>4
  <1>2. 1 \in DOMAIN more /\ \A k \in DOMAIN items : k + 1 \in DOMAIN more /\ more[k + 1] = items[k]
    BY <1>1
  <1>3. \A m \in DOMAIN more : m = 1 \/ (m - 1 \in DOMAIN items /\ more[m] = items[m - 1])
    <2> SUFFICES ASSUME NEW m \in DOMAIN more, m # 1
                 PROVE  m - 1 \in DOMAIN items /\ more[m] = items[m - 1]
      OBVIOUS
    <2>1. m - 1 \in 1..Len(items) /\ (m - 1) + 1 = m
      BY <1>1
    <2> QED
      BY <1>1, <2>1
  <1>4. CASE \A k \in DOMAIN items : items[k].name # x
    <2>1. SavedMeaning(items, x) = <<"keep">>
      BY <1>4, SavedLast
    <2>2. CASE t.name = x
      <3>1. \A k \in DOMAIN more : more[k].name = x => k = 1
        BY <1>3, <1>4
      <3>2. SavedMeaning(more, x) = Meaning(more[1].was)
        <4>1. PICK k \in DOMAIN more : more[k].name = x /\ SavedMeaning(more, x) = Meaning(more[k].was)
          <5>1. ~\A k \in DOMAIN more : more[k].name # x
            BY <1>1, <1>2, <2>2
          <5> QED
            BY <5>1, SavedLast
        <4> QED
          BY <3>1, <4>1
      <3> QED
        BY <1>1, <2>1, <2>2, <3>2
    <2>3. CASE t.name # x
      <3>1. \A k \in DOMAIN more : more[k].name # x
        BY <1>1, <1>3, <1>4, <2>3
      <3>2. SavedMeaning(more, x) = <<"keep">>
        BY <3>1, SavedLast
      <3> QED
        BY <1>1, <2>1, <2>3, <3>2
    <2> QED
      BY <2>2, <2>3
  <1>5. CASE ~\A k \in DOMAIN items : items[k].name # x
    <2>1. PICK k \in DOMAIN items :
             /\ items[k].name = x /\ \A m \in DOMAIN items : m > k => items[m].name # x
             /\ SavedMeaning(items, x) = Meaning(items[k].was) /\ SavedMeaning(items, x) # <<"keep">>
      BY <1>5, SavedLast
    <2>2. PICK j \in DOMAIN more :
             /\ more[j].name = x /\ \A m \in DOMAIN more : m > j => more[m].name # x
             /\ SavedMeaning(more, x) = Meaning(more[j].was)
      <3>1. more[k + 1].name = x /\ k + 1 \in DOMAIN more
        BY <1>2, <2>1
      <3> QED
        BY <3>1, SavedLast
    <2>3. j = k + 1
      <3>1. k + 1 \in DOMAIN more /\ more[k + 1].name = x /\ k \in Int /\ j \in Int /\ k >= 1
        BY <1>1, <1>2, <2>1
      <3>2. ~(k + 1 > j)
        BY <2>2, <3>1
      <3>3. ~(j > k + 1)
        <4> SUFFICES ASSUME j > k + 1 PROVE FALSE
          OBVIOUS
        <4>1. j - 1 \in DOMAIN items /\ more[j] = items[j - 1] /\ j - 1 > k
          BY <1>3, <3>1
        <4> QED
          BY <2>1, <2>2, <4>1
      <3> QED
        BY <3>1, <3>2, <3>3
    <2>4. more[j] = items[k]
      BY <1>2, <2>3
    <2> QED
      BY <1>1, <2>1, <2>2, <2>4
  <1> QED
    BY <1>4, <1>5

(* When the innermost scope ends, what it has saved is back.               *)
LEMMA PopMeans ==
  ASSUME NEW v, LvGood(v), v.stack # << >>, NEW w, w = poplocalvars(v), NEW x \in Vars,
         NEW items, items = v.stack[Len(v.stack)]
  PROVE  Meaning(w.vars[x]) = IF SavedMeaning(items, x) = <<"keep">> THEN Meaning(v.vars[x])
                              ELSE SavedMeaning(items, x)
  <1>1. v \in LvType /\ Len(v.stack) \in DOMAIN v.stack
    <2>1. v \in LvType
      BY DEF LvGood
    <2>2. v.stack \in Seq(Seq(Item))
      BY <2>1, LvFields
    <2> QED
      BY <2>1, <2>2
  <1>2. items \in Seq(Item)
    BY <1>1, NoItems
  <1>3. PoppedScope(v, w)
    BY PopLocalGood
  <1>4. /\ (\A k \in DOMAIN items : items[k].name # x) => w.vars[x] = v.vars[x]
        /\ \A k \in DOMAIN items :
              items[k].name = x /\ (\A m \in DOMAIN items : m > k => items[m].name # x) =>
                 w.vars[x] = items[k].was
    BY <1>3 DEF PoppedScope
  <1> QED
    BY <1>2, <1>4, SavedLast

LEMMA BeforeStep ==
  ASSUME NEW v \in LvType, NEW k \in Nat, k < Len(v.stack), NEW x
  PROVE  MeantBefore(v, k, x) =
            IF SavedMeaning(v.stack[k + 1], x) = <<"keep">> THEN MeantBefore(v, k + 1, x)
            ELSE SavedMeaning(v.stack[k + 1], x)
  <1> DEFINE S == Taking(v, k, x)
             T == Taking(v, k + 1, x)
             n == Len(v.stack)
  <1>1. n \in Nat /\ v.stack \in Seq(Seq(Item))
    BY LvFields
  <1>2. S \subseteq (k + 1)..n /\ T \subseteq S /\ (\A i \in S : i = k + 1 \/ i \in T)
        /\ k + 1 \notin T /\ (k + 1 \in S <=> SavedMeaning(v.stack[k + 1], x) # <<"keep">>)
    BY <1>1 DEF Taking
  <1> HIDE DEF S, T, n
  <1>3. CASE k + 1 \in S
    <2>1. S \subseteq Int /\ (\A i \in S : k + 1 <= i) /\ k + 1 \in Int /\ S # {}
      BY <1>1, <1>2, <1>3
    <2>2. Min(S) \in S /\ \A i \in S : Min(S) <= i
      BY <2>1, MinOf
    <2>3. Min(S) = k + 1
      <3>1. Min(S) \in Int /\ Min(S) <= k + 1 /\ k + 1 <= Min(S)
        BY <1>3, <2>1, <2>2
      <3> QED
        BY <2>1, <3>1
    <2> QED
      BY <1>2, <1>3, <2>1, <2>3 DEF MeantBefore, S
  <1>4. CASE k + 1 \notin S
    <2>1. S = T
      BY <1>2, <1>4
    <2> QED
      BY <1>2, <1>4, <2>1 DEF MeantBefore, S, T
  <1> QED
    BY <1>3, <1>4

(* And when scopes end until stop are left. *)
UnwoundTo(v, k, w) ==
    /\ LvGood(w) /\ Len(w.stack) = k /\ \A i \in 1..k : w.stack[i] = v.stack[i]
    /\ \A x \in Vars : Meaning(w.vars[x]) = MeantBefore(v, k, x)
LEMMA UnwindMeans ==
  ASSUME NEW v, LvGood(v), NEW stop \in Nat, stop <= Len(v.stack)
  PROVE  UnwoundTo(v, stop, unwindlocalvars(v, stop))
  <1>1. v \in LvType /\ v.stack \in Seq(Seq(Item)) /\ Len(v.stack) \in Nat
    <2>1. v \in LvType
      BY DEF LvGood
    <2>2. v.stack \in Seq(Seq(Item))
      BY <2>1, LvFields
    <2> QED
      BY <2>1, <2>2
  <1>2. PICK h : /\ h[Len(v.stack)] = v /\ unwindlocalvars(v, stop) = h[stop]
                 /\ \A k \in stop..(Len(v.stack) - 1) : h[k] = poplocalvars(h[k + 1])
    BY <1>1, UnwindLocalSteps
  <1> DEFINE len == Len(v.stack)
             Good(k) == UnwoundTo(v, k, h[k])
             S == {d \in Nat : d <= len - stop => Good(len - d)}
  <1> HIDE DEF Good, len
  <1>3. 0 \in S
    <2>1. len - 0 = len
      BY <1>1 DEF len
    <2>2. \A x : MeantBefore(v, len, x) = Meaning(v.vars[x])
      <3>1. (len + 1)..len = {}
        BY <1>1 DEF len
      <3> QED
        BY <3>1 DEF MeantBefore, Taking, len
    <2>3. Good(len)
      BY <1>1, <1>2, <2>2 DEF Good, len, UnwoundTo
    <2> QED
      BY <2>1, <2>3
  <1>4. \A d \in Nat : d \in S => d + 1 \in S
    <2> SUFFICES ASSUME NEW d \in Nat, d \in S, d + 1 <= len - stop PROVE Good(len - (d + 1))
      OBVIOUS
    <2> DEFINE k == len - (d + 1)
    <2>1. k \in stop..(len - 1) /\ k + 1 = len - d /\ k + 1 > 0 /\ d <= len - stop /\ k \in Nat
          /\ k < len
      BY <1>1 DEF len
    <2>2. Good(k + 1)
      BY <2>1
    <2> HIDE DEF k
    <2>3. PICK u : u = h[k + 1]
      OBVIOUS
    <2>4. /\ LvGood(u) /\ Len(u.stack) = k + 1 /\ h[k] = poplocalvars(u)
          /\ \A i \in 1..(k + 1) : u.stack[i] = v.stack[i]
          /\ \A x \in Vars : Meaning(u.vars[x]) = MeantBefore(v, k + 1, x)
      BY <1>2, <2>1, <2>2, <2>3 DEF Good, len, UnwoundTo
    <2>5. u.stack # << >>
      BY <2>1, <2>4
    <2>6. PICK w : w = poplocalvars(u)
      OBVIOUS
    <2>7. PoppedScope(u, w)
      BY <2>4, <2>5, <2>6, PopLocalGood
    <2>8. LvGood(w) /\ Len(w.stack) = k /\ \A i \in 1..k : w.stack[i] = v.stack[i]
      <3>1. LvGood(w) /\ w.stack = SubSeq(u.stack, 1, (k + 1) - 1) /\ Len(w.stack) = (k + 1) - 1
        BY <2>4, <2>7 DEF PoppedScope
      <3>2. (k + 1) - 1 = k /\ k \in 0..Len(u.stack)
        BY <2>1, <2>4
      <3>3. u.stack \in Seq(Seq(Item))
        <4>1. u \in LvType
          BY <2>4 DEF LvGood
        <4> QED
          BY <4>1, LvFields
      <3>4. \A i \in 1..k : w.stack[i] = u.stack[i]
        BY <3>1, <3>2, <3>3, Cut
      <3>5. \A i \in 1..k : i \in 1..(k + 1)
        BY <2>1
      <3> QED
        BY <2>4, <3>1, <3>2, <3>4, <3>5
    <2>9. \A x \in Vars : Meaning(w.vars[x]) = MeantBefore(v, k, x)
      <3> SUFFICES ASSUME NEW x \in Vars PROVE Meaning(w.vars[x]) = MeantBefore(v, k, x)
        OBVIOUS
      <3>1. PICK items : items = v.stack[k + 1]
        OBVIOUS
      <3>2. items = u.stack[Len(u.stack)]
        <4>1. k + 1 \in 1..(k + 1)
          BY <2>1
        <4> QED
          BY <2>4, <3>1, <4>1
      <3>3. Meaning(w.vars[x]) = IF SavedMeaning(items, x) = <<"keep">> THEN Meaning(u.vars[x])
                                 ELSE SavedMeaning(items, x)
        BY <2>4, <2>5, <2>6, <3>2, PopMeans
      <3>4. MeantBefore(v, k, x) = IF SavedMeaning(items, x) = <<"keep">> THEN MeantBefore(v, k + 1, x)
                                   ELSE SavedMeaning(items, x)
        BY <1>1, <2>1, <3>1, BeforeStep DEF len
      <3>5. Meaning(u.vars[x]) = MeantBefore(v, k + 1, x)
        BY <2>4
      <3> QED
        BY <3>3, <3>4, <3>5
    <2>10. Good(k)
      BY <2>4, <2>6, <2>8, <2>9 DEF Good, UnwoundTo
    <2> QED
      BY <2>10 DEF k
  <1>5. Good(stop)
    <2>1. len - stop \in Nat /\ len - (len - stop) = stop /\ len - stop <= len - stop
      BY <1>1 DEF len
    <2>2. len - stop \in S
      <3> HIDE DEF S
      <3> QED
        BY <1>3, <1>4, <2>1, NatSetInduction
    <2> QED
      BY <2>1, <2>2
  <1> QED
    BY <1>2, <1>5 DEF Good

(* What a step may do to the variables, as ShellScopes has it: a scope     *)
(* begins, the innermost one takes over more, or scopes end.               *)
Entered(v, w) ==
    LET n == Len(v.stack) IN
    /\ Len(w.stack) = n + 1 /\ \A i \in 1..n : w.stack[i] = v.stack[i]
    /\ \A x \in Vars : \/ SavedMeaning(w.stack[n + 1], x) = Meaning(v.vars[x])
                       \/ /\ SavedMeaning(w.stack[n + 1], x) = <<"keep">>
                          /\ Meaning(w.vars[x]) = Meaning(v.vars[x])
TakenOver(v, w) ==
    LET n == Len(v.stack) IN
    /\ n > 0 /\ Len(w.stack) = n /\ \A i \in 1..(n - 1) : w.stack[i] = v.stack[i]
    /\ \A x \in Vars : \/ SavedMeaning(w.stack[n], x) = SavedMeaning(v.stack[n], x)
                       \/ /\ SavedMeaning(v.stack[n], x) = <<"keep">>
                          /\ SavedMeaning(w.stack[n], x) = Meaning(v.vars[x])
Closed(v, w) ==
    /\ Len(w.stack) <= Len(v.stack) /\ \A i \in 1..Len(w.stack) : w.stack[i] = v.stack[i]
    /\ \A x \in Vars : Meaning(w.vars[x]) = MeantBefore(v, Len(w.stack), x)
Moved(v, w) == w.stack = v.stack \/ Entered(v, w) \/ TakenOver(v, w) \/ Closed(v, w)

(* What a command that fails leaves, before scopes end. *)
Near(v, w) ==
    /\ w.stack = v.stack \/ w.stack = Append(v.stack, << >>)
    /\ \A x \in Vars : Meaning(w.vars[x]) = Meaning(v.vars[x])

LEMMA LvStack ==
  ASSUME NEW v, LvGood(v)
  PROVE  /\ v \in LvType /\ v.stack \in Seq(Seq(Item)) /\ Len(v.stack) \in Nat
         /\ DOMAIN v.stack = 1..Len(v.stack)
  <1>1. v \in LvType
    BY DEF LvGood
  <1>2. v.stack \in Seq(Seq(Item))
    BY <1>1, LvFields
  <1> QED
    BY <1>1, <1>2

LEMMA SameMeaning ==
  ASSUME NEW e, NEW f, e.value = f.value,
         e.flags = f.flags \/ e.flags = f.flags \cup {"fixed"}
  PROVE  Meaning(e) = Meaning(f)
  <1>1. e.flags \ {"fixed"} = f.flags \ {"fixed"}
    OBVIOUS
  <1> QED
    BY <1>1 DEF Meaning

(* The scopes of v that count are those of w when the one more is empty. *)
LEMMA NearBefore ==
  ASSUME NEW v, LvGood(v), NEW w, LvGood(w), Near(v, w), NEW k \in Nat, k <= Len(v.stack), NEW x \in Vars
  PROVE  MeantBefore(w, k, x) = MeantBefore(v, k, x)
  <1>0. /\ v.stack \in Seq(Seq(Item)) /\ Len(v.stack) \in Nat /\ << >> \in Seq(Item)
        /\ Meaning(w.vars[x]) = Meaning(v.vars[x])
    BY LvStack DEF Near
  <1>1. CASE w.stack = v.stack
    BY <1>0, <1>1 DEF MeantBefore, Taking
  <1>2. CASE w.stack = Append(v.stack, << >>)
    <2> DEFINE n == Len(v.stack)
    <2>1. /\ Len(w.stack) = n + 1 /\ w.stack[n + 1] = << >>
          /\ \A i \in 1..n : w.stack[i] = v.stack[i]
      BY <1>0, <1>2, Appended
    <2>2. SavedMeaning(w.stack[n + 1], x) = <<"keep">>
      BY <2>1, NoneSaved
    <2>3. Taking(w, k, x) = Taking(v, k, x)
      <3>1. \A i \in (k + 1)..(n + 1) : i \in (k + 1)..n \/ i = n + 1
        BY <1>0
      <3>2. \A i \in (k + 1)..n : i \in (k + 1)..(n + 1) /\ i \in 1..n
        BY <1>0
      <3> HIDE DEF n
      <3>3. Taking(w, k, x) = {i \in (k + 1)..(n + 1) : SavedMeaning(w.stack[i], x) # <<"keep">>}
        BY <2>1 DEF Taking
      <3>4. Taking(v, k, x) = {i \in (k + 1)..n : SavedMeaning(v.stack[i], x) # <<"keep">>}
        BY DEF Taking, n
      <3> QED
        BY <2>1, <2>2, <3>1, <3>2, <3>3, <3>4
    <2>4. CASE Taking(v, k, x) = {}
      BY <1>0, <2>3, <2>4 DEF MeantBefore
    <2>5. CASE Taking(v, k, x) # {}
      <3> DEFINE S == Taking(v, k, x)
      <3>1. S \subseteq (k + 1)..n
        BY DEF Taking
      <3> HIDE DEF S, n
      <3>2. S \subseteq Int /\ (\A i \in S : k + 1 <= i) /\ k + 1 \in Int
        BY <1>0, <3>1 DEF n
      <3>3. Min(S) \in S
        BY <2>5, <3>2, MinOf DEF S
      <3>4. Min(S) \in 1..n
        <4>1. (k + 1)..n \subseteq 1..n
          BY <1>0 DEF n
        <4> QED
          BY <3>1, <3>3, <4>1
      <3>5. w.stack[Min(S)] = v.stack[Min(S)]
        BY <2>1, <3>4
      <3> QED
        BY <2>3, <2>5, <3>5 DEF MeantBefore, S
    <2> QED
      BY <2>4, <2>5
  <1> QED
    BY <1>1, <1>2 DEF Near

LEMMA NearClosed ==
  ASSUME NEW v, LvGood(v), NEW w, LvGood(w), Near(v, w), NEW stop \in Nat, stop <= Len(v.stack),
         NEW u, u = [unwindlocalvars(w, stop) EXCEPT !.ok = TRUE]
  PROVE  Closed(v, u)
  <1>1. v.stack \in Seq(Seq(Item)) /\ Len(v.stack) \in Nat /\ << >> \in Seq(Item)
    BY LvStack
  <1>2. /\ Len(w.stack) \in Nat /\ Len(v.stack) <= Len(w.stack)
        /\ \A i \in 1..Len(v.stack) : w.stack[i] = v.stack[i]
    <2>1. CASE w.stack = v.stack
      BY <1>1, <2>1
    <2>2. CASE w.stack = Append(v.stack, << >>)
      BY <1>1, <2>2, Appended
    <2> QED
      BY <2>1, <2>2 DEF Near
  <1>3. stop <= Len(w.stack)
    BY <1>1, <1>2
  <1>4. PICK t : t = unwindlocalvars(w, stop)
    OBVIOUS
  <1>5. UnwoundTo(w, stop, t)
    BY <1>3, <1>4, UnwindMeans
  <1>6. /\ LvGood(t) /\ Len(t.stack) = stop /\ \A i \in 1..stop : t.stack[i] = w.stack[i]
        /\ \A x \in Vars : Meaning(t.vars[x]) = MeantBefore(w, stop, x)
    BY <1>5 DEF UnwoundTo
  <1>7. u = [t EXCEPT !.ok = TRUE]
    BY <1>4
  <1>8. u.stack = t.stack /\ u.vars = t.vars
    BY <1>6, <1>7, OkGood
  <1>9. \A i \in 1..stop : i \in 1..Len(v.stack)
    BY <1>1
  <1>10. \A x \in Vars : MeantBefore(w, stop, x) = MeantBefore(v, stop, x)
    BY NearBefore
  <1> QED
    BY <1>2, <1>6, <1>8, <1>9, <1>10 DEF Closed

LEMMA NearMoved ==
  ASSUME NEW v, LvGood(v), NEW w, LvGood(w), Near(v, w), NEW u, u.stack = w.stack, u.vars = w.vars
  PROVE  Moved(v, u)
  <1>1. v.stack \in Seq(Seq(Item)) /\ Len(v.stack) \in Nat /\ << >> \in Seq(Item)
    BY LvStack
  <1>2. CASE w.stack = v.stack
    BY <1>2 DEF Moved
  <1>3. CASE w.stack = Append(v.stack, << >>)
    <2>1. /\ Len(w.stack) = Len(v.stack) + 1 /\ w.stack[Len(v.stack) + 1] = << >>
          /\ \A i \in 1..Len(v.stack) : w.stack[i] = v.stack[i]
      BY <1>1, <1>3, Appended
    <2>2. \A x \in Vars : /\ SavedMeaning(u.stack[Len(v.stack) + 1], x) = <<"keep">>
                          /\ Meaning(u.vars[x]) = Meaning(v.vars[x])
      BY <2>1, NoneSaved DEF Near
    <2>3. Entered(v, u)
      BY <2>1, <2>2 DEF Entered
    <2> QED
      BY <2>3 DEF Moved
  <1> QED
    BY <1>2, <1>3 DEF Near

-----------------------------------------------------------------------------
(* What commands do to variables *)

LEMMA SetVarNear ==
  ASSUME NEW v, LvGood(v), v.ok, NEW x \in Vars, NEW value \in Values \cup {Unset},
         NEW flags \in SUBSET Flags, NEW w, w = setvareq(v, x, value, flags)
  PROVE  w.stack = v.stack /\ (~w.ok => Near(v, w))
  <1>0. v \in LvType
    BY LvStack
  <1>1. /\ w.stack = v.stack /\ (ReadOnly(v, x) => w.vars = v.vars)
        /\ (~ReadOnly(v, x) => (w.ok <=> v.ok))
    <2>1. /\ setvareq(v, x, value, flags).stack = v.stack
          /\ (ReadOnly(v, x) => setvareq(v, x, value, flags).vars = v.vars)
          /\ (~ReadOnly(v, x) => (setvareq(v, x, value, flags).ok <=> v.ok))
      BY <1>0, SetVarType
    <2> QED
      BY <2>1
  <1> QED
    BY <1>1 DEF Near

LEMMA ExportNear ==
  ASSUME NEW v, LvGood(v), v.ok, NEW x \in Vars, NEW flag \in Marks, NEW w, w = exportcmd(v, x, flag)
  PROVE  w.stack = v.stack /\ (~w.ok => Near(v, w))
  <1>1. CASE v.vars[x].here
    <2>1. w = [v EXCEPT !.vars[x].flags = @ \cup {flag}]
      BY <1>1 DEF exportcmd
    <2>2. w.stack = v.stack /\ w.ok
      BY <2>1, LvStack, LvFields
    <2> QED
      BY <2>2
  <1>2. CASE ~v.vars[x].here
    <2>1. PICK flags \in SUBSET Flags : flags = {flag}
      BY EvalAssumption DEF EvalAssumption, Flags
    <2>2. PICK none \in Values \cup {Unset} : none = Unset
      OBVIOUS
    <2>3. w = setvareq(v, x, none, flags)
      BY <1>2, <2>1, <2>2 DEF exportcmd
    <2> QED
      BY <2>3, SetVarNear
  <1> QED
    BY <1>1, <1>2

(* local and assignments before commands: the scope has what the variable  *)
(* meant, unless it had it already.                                        *)
Took(v, w, x, n) ==
    /\ Len(w.stack) = n /\ \A i \in 1..(n - 1) : w.stack[i] = v.stack[i]
    /\ \A y \in Vars \ {x} : /\ w.vars[y] = v.vars[y]
                             /\ SavedMeaning(w.stack[n], y) = SavedMeaning(v.stack[n], y)
    /\ SavedMeaning(w.stack[n], x) =
          IF SavedMeaning(v.stack[n], x) = <<"keep">> THEN Meaning(v.vars[x])
          ELSE SavedMeaning(v.stack[n], x)
LEMMA MklocalNear ==
  ASSUME NEW v, LvGood(v), v.ok, v.stack # << >>, NEW x \in Vars,
         NEW value \in Values \cup {Unset, NoValue}, NEW flags \in SUBSET Flags,
         NEW w, w = mklocal(v, x, value, flags)
  PROVE  /\ ~w.ok => Near(v, w) /\ w.stack = v.stack
         /\ w.ok => Took(v, w, x, Len(v.stack))
  <1> DEFINE n == Len(v.stack)
  <1>0. v \in LvType /\ v.stack \in Seq(Seq(Item)) /\ n \in DOMAIN v.stack
    BY LvStack
  <1>1. MadeLocal(v, w, x)
    BY <1>0, MklocalType
  <1>2. CASE ~w.ok
    <2>1. /\ w.stack = v.stack /\ w.vars[x].value = v.vars[x].value
          /\ \/ w.vars[x].flags = v.vars[x].flags
             \/ w.vars[x].flags = v.vars[x].flags \cup {"fixed"}
          /\ \A y \in Vars : y # x => w.vars[y] = v.vars[y]
      BY <1>1, <1>2 DEF MadeLocal
    <2>2. Meaning(w.vars[x]) = Meaning(v.vars[x])
      <3>1. PICK e : e = w.vars[x]
        OBVIOUS
      <3>2. PICK f : f = v.vars[x]
        OBVIOUS
      <3> QED
        BY <2>1, <3>1, <3>2, SameMeaning
    <2>3. \A y \in Vars : Meaning(w.vars[y]) = Meaning(v.vars[y])
      BY <2>1, <2>2
    <2> QED
      BY <1>2, <2>1, <2>3 DEF Near
  <1>3. CASE w.ok
    <2>1. PICK t \in Item : t = Saved(v, x) /\ t.name = x /\ t.was = v.vars[x]
      BY <1>0, SavedType
    <2>2. PICK items \in Seq(Item) : items = v.stack[n]
      BY <1>0, NoItems
    <2>3. /\ Len(w.stack) = n /\ (\A i \in 1..(n - 1) : w.stack[i] = v.stack[i])
          /\ \A y \in Vars : y # x => w.vars[y] = v.vars[y]
          /\ w.stack[n] = <<t>> \o items
      BY <1>1, <1>3, <2>1, <2>2 DEF MadeLocal
    <2>4. \A y : SavedMeaning(<<t>> \o items, y) =
                    IF t.name = y /\ SavedMeaning(items, y) = <<"keep">> THEN Meaning(t.was)
                    ELSE SavedMeaning(items, y)
      BY SavedMore
    <2> HIDE DEF n
    <2>5. /\ \A y \in Vars \ {x} : SavedMeaning(w.stack[n], y) = SavedMeaning(v.stack[n], y)
          /\ SavedMeaning(w.stack[n], x) =
                IF SavedMeaning(v.stack[n], x) = <<"keep">> THEN Meaning(v.vars[x])
                ELSE SavedMeaning(v.stack[n], x)
      BY <2>1, <2>2, <2>3, <2>4
    <2>6. Took(v, w, x, n)
      BY <2>3, <2>5 DEF Took
    <2> QED
      BY <1>3, <2>6 DEF n
  <1> QED
    BY <1>2, <1>3

-----------------------------------------------------------------------------
(* What steps do to variables *)

LEMMA StopsBelow ==
  ASSUME Types, Stacks, pc = "run", NEW i \in 1..Len(frames)
  PROVE  /\ frames[i] \in FrameType /\ frames[i].stop.local \in Nat
         /\ frames[i].stop.local <= Len(lv.stack)
  <1>1. frames \in Seq(FrameType) /\ frames[i] \in FrameType /\ Len(lv.stack) \in Nat
    BY Unpacked
  <1>2. frames[i].stop.local \in Nat
    BY <1>1, FrameFields
  <1>3. Stacked(frames, Len(rd.list), Len(lv.stack), Len(files))
    BY DEF Stacks
  <1>4. frames[i].stop.local + (IF frames[i] \in WithLocal THEN 1 ELSE 0) <= Len(lv.stack)
    BY <1>1, <1>3, CutFrames
  <1> QED
    BY <1>1, <1>2, <1>4

LEMMA OutMoves ==
  ASSUME Types, NEW f, f.stop.local \in Nat, f.stop.local <= Len(lv.stack),
         NEW r, NEW v, LvGood(v), Near(lv, v), Out(f, r, v)
  PROVE  Moved(lv, lv')
  <1>1. LvGood(lv) /\ lv' = [unwindlocalvars(v, f.stop.local) EXCEPT !.ok = TRUE]
    BY Unpacked DEF Out
  <1>2. Closed(lv, lv')
    BY <1>1, NearClosed
  <1> QED
    BY <1>2 DEF Moved

LEMMA RaisedMoves ==
  ASSUME Types, Stacks, pc = "run", NEW e, NEW r, NEW v, LvGood(v), Near(lv, v),
         Exraise(e, frames, r, v)
  PROVE  Moved(lv, lv')
  <1>0. FramesType /\ LvGood(lv) /\ Len(lv.stack) \in Nat
    BY Unpacked
  <1> DEFINE H == {i \in DOMAIN frames : Catches(e, frames[i])}
  <1>1. CASE H # {}
    <2>1. PICK i \in 1..Len(frames) : i = Max(H)
      BY <1>0, <1>1, Handler
    <2>2. Out(frames[i], r, v)
      BY <1>1, <2>1 DEF Exraise
    <2> QED
      BY <2>2, StopsBelow, OutMoves
  <1>2. CASE H = {}
    <2>1. CASE iflag /\ e \in {"EXERROR", "EXINT"}
      <3>1. lv' = [unwindlocalvars(v, 0) EXCEPT !.ok = TRUE]
        BY <1>2, <2>1 DEF Exraise
      <3>2. 0 \in Nat /\ 0 <= Len(lv.stack)
        BY <1>0
      <3>3. Closed(lv, lv')
        BY <1>0, <3>1, <3>2, NearClosed
      <3> QED
        BY <3>3 DEF Moved
    <2>2. CASE ~(iflag /\ e \in {"EXERROR", "EXINT"})
      <3>1. lv' = [v EXCEPT !.ok = TRUE]
        BY <1>2, <2>2 DEF Exraise
      <3>2. lv'.stack = v.stack /\ lv'.vars = v.vars
        BY <3>1, OkGood
      <3> QED
        BY <1>0, <3>2, NearMoved
    <2> QED
      BY <2>1, <2>2
  <1> QED
    BY <1>1, <1>2

LEMMA ErrorMoves ==
  ASSUME Types, Stacks, pc = "run", NEW r, NEW v, LvGood(v), Near(lv, v), Error(frames, r, v)
  PROVE  Moved(lv, lv')
  BY RaisedMoves DEF Error

LEMMA ItselfNear == \A v : Near(v, v)
  BY DEF Near

(* The scope of a call and its assignment. *)
LEMMA CallMakes ==
  ASSUME Types, NEW local \in BOOLEAN, NEW as \in {<< >>} \cup (Vars \X Values),
         NEW v1, v1 = pushlocalvars(lv, local), NEW v2, v2 = Assigned(v1, local, as)
  PROVE  /\ Near(lv, v1) /\ (~v2.ok => Near(lv, v2))
         /\ v2.ok => Moved(lv, v2)
  <1>1. LvGood(lv) /\ lv.ok /\ lv \in LvType /\ lv.stack \in Seq(Seq(Item)) /\ Len(lv.stack) \in Nat
        /\ << >> \in Seq(Item)
    BY Unpacked, LvStack
  <1>2. /\ LvGood(v1) /\ v1.ok /\ v1.vars = lv.vars
        /\ v1.stack = IF local THEN Append(lv.stack, << >>) ELSE lv.stack
    <2>1. LvGood(v1)
      BY <1>1, PushLocalGood
    <2>2. /\ pushlocalvars(lv, local).vars = lv.vars /\ (pushlocalvars(lv, local).ok <=> lv.ok)
          /\ pushlocalvars(lv, local).stack = IF local THEN Append(lv.stack, << >>) ELSE lv.stack
      BY <1>1, PushLocalType
    <2> QED
      BY <1>1, <2>1, <2>2
  <1>3. Near(lv, v1)
    BY <1>2 DEF Near
  <1>4. Moved(lv, v1)
    BY <1>1, <1>2, <1>3, NearMoved
  <1>5. CASE as = << >>
    <2>1. v2 = v1
      BY <1>5 DEF Assigned
    <2> QED
      BY <1>3, <1>4, <2>1
  <1>6. CASE as # << >>
    <2>1. PICK x \in Vars : x = as[1]
      BY <1>6
    <2>2. PICK value \in Values : value = as[2]
      BY <1>6
    <2>3. CASE local
      <3>1. PICK S \in SUBSET Flags : S = {"export"}
        BY DEF Flags
      <3>2. v2 = mklocal(v1, x, value, S)
        BY <1>6, <2>1, <2>2, <2>3, <3>1 DEF Assigned
      <3> DEFINE n == Len(lv.stack) + 1
      <3>3. /\ Len(v1.stack) = n /\ v1.stack[n] = << >> /\ n - 1 = Len(lv.stack) /\ v1.stack # << >>
            /\ \A i \in 1..(n - 1) : v1.stack[i] = lv.stack[i]
        <4>1. v1.stack = Append(lv.stack, << >>)
          BY <1>2, <2>3
        <4>2. /\ Len(Append(lv.stack, << >>)) = n /\ Append(lv.stack, << >>)[n] = << >>
              /\ \A i \in 1..Len(lv.stack) : Append(lv.stack, << >>)[i] = lv.stack[i]
          BY <1>1, Appended
        <4>3. n - 1 = Len(lv.stack) /\ n # 0
          BY <1>1
        <4>4. Len(v1.stack) = n /\ v1.stack[n] = << >>
          BY <4>1, <4>2
        <4>5. \A i \in 1..(n - 1) : v1.stack[i] = lv.stack[i]
          BY <4>1, <4>2, <4>3
        <4> HIDE DEF n
        <4>6. v1.stack # << >>
          BY <4>3, <4>4
        <4> QED
          BY <4>3, <4>4, <4>5, <4>6
      <3>4. SavedMeaning(v1.stack[n], x) = <<"keep">>
            /\ \A y : SavedMeaning(v1.stack[n], y) = <<"keep">>
        BY <3>3, NoneSaved
      <3> HIDE DEF n
      <3>5. value \in Values \cup {Unset, NoValue}
        OBVIOUS
      <3>6. /\ ~v2.ok => Near(v1, v2) /\ v2.stack = v1.stack
            /\ v2.ok =>
                  /\ Len(v2.stack) = n /\ \A i \in 1..(n - 1) : v2.stack[i] = v1.stack[i]
                  /\ \A y \in Vars \ {x} : /\ v2.vars[y] = v1.vars[y]
                                           /\ SavedMeaning(v2.stack[n], y) = SavedMeaning(v1.stack[n], y)
                  /\ SavedMeaning(v2.stack[n], x) =
                        IF SavedMeaning(v1.stack[n], x) = <<"keep">> THEN Meaning(v1.vars[x])
                        ELSE SavedMeaning(v1.stack[n], x)
        <4>1. (~v2.ok => Near(v1, v2) /\ v2.stack = v1.stack) /\ (v2.ok => Took(v1, v2, x, Len(v1.stack)))
          <5>1. LvGood(v1) /\ v1.ok /\ v1.stack # << >>
            BY <1>2, <3>3
          <5> QED
            BY <3>2, <3>5, <5>1, MklocalNear
        <4> QED
          BY <3>3, <4>1 DEF Took
      <3>7. ~v2.ok => Near(lv, v2)
        BY <1>2, <2>3, <3>6 DEF Near
      <3>8. ASSUME v2.ok PROVE Entered(lv, v2)
        <4>1. \A i \in 1..Len(lv.stack) : v2.stack[i] = lv.stack[i]
          BY <3>3, <3>6, <3>8, ZenonT(40)
        <4>2. \A y \in Vars : \/ SavedMeaning(v2.stack[n], y) = Meaning(lv.vars[y])
                              \/ /\ SavedMeaning(v2.stack[n], y) = <<"keep">>
                                 /\ Meaning(v2.vars[y]) = Meaning(lv.vars[y])
          <5> SUFFICES ASSUME NEW y \in Vars
                       PROVE  \/ SavedMeaning(v2.stack[n], y) = Meaning(lv.vars[y])
                              \/ /\ SavedMeaning(v2.stack[n], y) = <<"keep">>
                                 /\ Meaning(v2.vars[y]) = Meaning(lv.vars[y])
            OBVIOUS
          <5>1. CASE y = x
            BY <1>2, <3>4, <3>6, <3>8, <5>1
          <5>2. CASE y # x
            BY <1>2, <3>4, <3>6, <3>8, <5>2
          <5> QED
            BY <5>1, <5>2
        <4> QED
          BY <3>6, <3>8, <4>1, <4>2 DEF Entered, n
      <3> QED
        BY <1>3, <3>7, <3>8 DEF Moved
    <2>4. CASE ~local
      <3>1. PICK S \in SUBSET Flags : S = {}
        OBVIOUS
      <3>2. v2 = setvareq(v1, x, value, S)
        BY <1>6, <2>1, <2>2, <2>4, <3>1 DEF Assigned
      <3>3. value \in Values \cup {Unset}
        OBVIOUS
      <3>4. v2.stack = v1.stack /\ (~v2.ok => Near(v1, v2))
        BY <1>2, <3>2, <3>3, SetVarNear
      <3>5. v1.stack = lv.stack
        BY <1>2, <2>4
      <3>6. ~v2.ok => Near(lv, v2)
        BY <1>2, <3>4, <3>5 DEF Near
      <3> QED
        BY <1>3, <3>4, <3>5, <3>6 DEF Moved
    <2> QED
      BY <2>3, <2>4
  <1> QED
    BY <1>5, <1>6

LEMMA CallMoves ==
  ASSUME Types, Stacks, NEW kind \in {"function", "eval", "dotcmd"}, NEW command \in BOOLEAN,
         NEW rs \in Redirs, NEW as \in {<< >>} \cup (Vars \X Values),
         Call(kind, command, rs, as)
  PROVE  Moved(lv, lv')
  <1>1. PICK b \in BOOLEAN : b <=> (kind # "function" /\ ~command)
    OBVIOUS
  <1>2. PICK local \in BOOLEAN : local <=> ~b
    OBVIOUS
  <1>3. PICK f : f = Frame(kind, b, rs)
    OBVIOUS
  <1>4. PICK r : r = redirect(pushredir(rd, rs), rs)
    OBVIOUS
  <1>5. PICK v1 : v1 = pushlocalvars(lv, local)
    OBVIOUS
  <1>6. PICK v2 : v2 = Assigned(v1, local, as)
    OBVIOUS
  <1>7. b = (kind # "function" /\ ~command) /\ local = ~b
    BY <1>1, <1>2
  <1>8. /\ pc = "run"
        /\ IF r.ok /\ v2.ok THEN Enter(f, r, v2)
           ELSE IF ~r.ok /\ ~b
           THEN exitstatus' = 2 /\ Out(f, r, v1) /\ UNCHANGED <<pc, frames, evalskip, loopnest, goal>>
           ELSE Error(frames, r, IF r.ok THEN v2 ELSE v1)
    BY <1>3, <1>4, <1>5, <1>6, <1>7 DEF Call, Running
  <1>9. LvGood(v1) /\ LvGood(v2)
    <2>1. CallScope(v1, v2, local)
      BY <1>5, <1>6, CallVars
    <2> QED
      BY <2>1 DEF CallScope
  <1>10. Near(lv, v1) /\ (~v2.ok => Near(lv, v2)) /\ (v2.ok => Moved(lv, v2))
    BY <1>5, <1>6, CallMakes
  <1>11. CASE r.ok /\ v2.ok
    <2>1. lv' = v2
      BY <1>8, <1>11 DEF Enter
    <2> QED
      BY <1>10, <1>11, <2>1
  <1>12. CASE ~(r.ok /\ v2.ok) /\ ~r.ok /\ ~b
    <2>1. Out(f, r, v1)
      BY <1>8, <1>12
    <2>2. f.stop.local = Len(lv.stack) /\ Len(lv.stack) \in Nat
      BY <1>3, Unpacked DEF Frame, Stops
    <2> QED
      BY <1>9, <1>10, <2>1, <2>2, OutMoves
  <1>13. CASE ~(r.ok /\ v2.ok) /\ ~(~r.ok /\ ~b)
    <2>1. PICK v : v = IF r.ok THEN v2 ELSE v1
      OBVIOUS
    <2>2. Error(frames, r, v)
      BY <1>8, <1>13, <2>1
    <2>3. LvGood(v) /\ Near(lv, v)
      BY <1>9, <1>10, <1>13, <2>1
    <2> QED
      BY <1>8, <2>2, <2>3, ErrorMoves
  <1> QED
    BY <1>11, <1>12, <1>13

LEMMA SetVarsMoves ==
  ASSUME Types, Stacks, NEW v, LvGood(v), v.ok => Moved(lv, v), ~v.ok => Near(lv, v), SetVars(v)
  PROVE  Moved(lv, lv')
  <1>1. CASE v.ok
    BY <1>1 DEF SetVars
  <1>2. CASE ~v.ok
    <2>1. pc = "run" /\ Error(frames, rd, v)
      BY <1>2 DEF SetVars, Running
    <2> QED
      BY <1>2, <2>1, ErrorMoves
  <1> QED
    BY <1>1, <1>2

LEMMA VariableMoves ==
  ASSUME Types, Stacks, NEW x \in Vars, VarCommand(x)
  PROVE  Moved(lv, lv')
  <1>0. LvGood(lv) /\ lv.ok
    BY Unpacked
  <1>1. CASE \E value \in Values \cup {Unset} : SetVars(setvareq(lv, x, value, {}))
    <2>1. PICK value \in Values \cup {Unset} : SetVars(setvareq(lv, x, value, {}))
      BY <1>1
    <2>2. PICK S \in SUBSET Flags : S = {}
      OBVIOUS
    <2>3. PICK v : v = setvareq(lv, x, value, S)
      OBVIOUS
    <2>4. LvGood(v) /\ v.stack = lv.stack /\ (~v.ok => Near(lv, v))
      BY <1>0, <2>3, SetVarGood, SetVarNear
    <2>5. SetVars(v)
      BY <2>1, <2>2, <2>3
    <2> QED
      BY <2>4, <2>5, SetVarsMoves DEF Moved
  <1>2. CASE \E flag \in Marks : SetVars(exportcmd(lv, x, flag))
    <2>1. PICK flag \in Marks : SetVars(exportcmd(lv, x, flag))
      BY <1>2
    <2>2. PICK v : v = exportcmd(lv, x, flag)
      OBVIOUS
    <2>3. LvGood(v) /\ v.stack = lv.stack /\ (~v.ok => Near(lv, v))
      BY <1>0, <2>2, ExportGood, ExportNear
    <2>4. SetVars(v)
      BY <2>1, <2>2
    <2> QED
      BY <2>3, <2>4, SetVarsMoves DEF Moved
  <1>3. CASE lv.stack = << >> /\ SetVars(Failed(lv))
    <2>1. PICK v : v = Failed(lv)
      OBVIOUS
    <2>2. LvGood(v) /\ v.stack = lv.stack /\ v.vars = lv.vars
      BY <1>0, <2>1, OkGood
    <2>3. SetVars(v) /\ Near(lv, v)
      BY <1>3, <2>1, <2>2 DEF Near
    <2> QED
      BY <2>2, <2>3, SetVarsMoves DEF Moved
  <1>4. CASE \E value \in Values \cup {NoValue} : lv.stack # << >> /\ SetVars(mklocal(lv, x, value, {}))
    <2>1. PICK value \in Values \cup {NoValue} : lv.stack # << >> /\ SetVars(mklocal(lv, x, value, {}))
      BY <1>4
    <2>2. PICK S \in SUBSET Flags : S = {}
      OBVIOUS
    <2>3. PICK v : v = mklocal(lv, x, value, S)
      OBVIOUS
    <2>4. value \in Values \cup {Unset, NoValue}
      OBVIOUS
    <2>5. LvGood(v)
      BY <1>0, <2>1, <2>3, <2>4, MklocalGood
    <2> DEFINE n == Len(lv.stack)
    <2>6. (~v.ok => Near(lv, v)) /\ (v.ok => Took(lv, v, x, n))
      BY <1>0, <2>1, <2>3, <2>4, MklocalNear
    <2>7. n > 0
      <3>1. lv.stack \in Seq(Seq(Item))
        BY <1>0, LvStack
      <3> QED
        BY <2>1, <3>1
    <2> HIDE DEF n
    <2>8. v.ok => TakenOver(lv, v)
      <3>1. v.ok => \A y \in Vars : \/ SavedMeaning(v.stack[n], y) = SavedMeaning(lv.stack[n], y)
                                    \/ /\ SavedMeaning(lv.stack[n], y) = <<"keep">>
                                       /\ SavedMeaning(v.stack[n], y) = Meaning(lv.vars[y])
        BY <2>6 DEF Took
      <3> QED
        BY <2>6, <2>7, <3>1 DEF TakenOver, Took, n
    <2>9. SetVars(v)
      BY <2>1, <2>2, <2>3
    <2> QED
      BY <2>5, <2>6, <2>8, <2>9, SetVarsMoves DEF Moved
  <1> QED
    BY <1>1, <1>2, <1>3, <1>4 DEF VarCommand

LEMMA StepMoves ==
  ASSUME Types, Stacks, [Next]_vars
  PROVE  Moved(lv, lv')
  <1>0. LvGood(lv) /\ Near(lv, lv)
    BY Unpacked, ItselfNear
  <1>1. CASE lv' = lv
    BY <1>1 DEF Moved
  <1>2. CASE OpenScript
    <2>1. pc = "run" /\ (lv' = lv \/ Error(frames, rd, lv))
      BY <1>2 DEF OpenScript
    <2> QED
      BY <1>0, <1>1, <2>1, ErrorMoves
  <1>3. CASE \E kind \in {"function", "eval", "dotcmd"}, command \in BOOLEAN, rs \in Redirs,
                as \in {<< >>} \cup (Vars \X Values) : Call(kind, command, rs, as)
    BY <1>3, CallMoves
  <1>4. CASE Fails
    <2>1. pc = "run" /\ Error(frames, rd, lv)
      BY <1>4 DEF Fails, Running
    <2> QED
      BY <1>0, <2>1, ErrorMoves
  <1>5. CASE exitcmd
    <2>1. pc = "run" /\ Exraise("EXEXIT", frames, rd, lv)
      BY <1>5 DEF exitcmd, Running
    <2> QED
      BY <1>0, <2>1, RaisedMoves
  <1>6. CASE Interrupt
    <2>1. pc = "run" /\ Exraise("EXINT", frames, rd, lv)
      BY <1>6 DEF Interrupt
    <2> QED
      BY <1>0, <2>1, RaisedMoves
  <1>7. CASE \E command \in BOOLEAN, rs \in Redirs \ {<< >>} : Exec(command, rs)
    <2>1. PICK command \in BOOLEAN, rs \in Redirs \ {<< >>} : Exec(command, rs)
      BY <1>7
    <2>2. pc = "run" /\ (lv' = lv \/ \E r : Error(frames, r, lv))
      BY <2>1 DEF Exec, Running
    <2> QED
      BY <1>0, <1>1, <2>2, ErrorMoves
  <1>8. CASE \E x \in Vars : VarCommand(x)
    BY <1>8, VariableMoves
  <1>9. CASE EndCall
    <2>1. pc = "run" /\ Depth > 0 /\ Out(Top, rd, lv)
      BY <1>9 DEF EndCall
    <2>2. Top = frames[Depth] /\ Depth \in 1..Len(frames)
      BY <2>1, Unpacked DEF Top
    <2>3. Top.stop.local \in Nat /\ Top.stop.local <= Len(lv.stack)
      BY <2>1, <2>2, StopsBelow
    <2> QED
      BY <1>0, <2>1, <2>3, OutMoves
  <1>10. CASE Begin
    <2>1. CASE \E rs \in Redirs, as \in {<< >>} \cup (Vars \X Values) : Call("function", FALSE, rs, as)
      <3>1. "function" \in {"function", "eval", "dotcmd"} /\ FALSE \in BOOLEAN
        OBVIOUS
      <3> QED
        BY <1>3, <2>1, <3>1
    <2>2. CASE \E rs \in Redirs, as \in {<< >>} \cup (Vars \X Values) :
                  \E kind \in {"eval", "dotcmd"}, command \in BOOLEAN : Call(kind, command, rs, as)
      <3>1. PICK rs \in Redirs, as \in {<< >>} \cup (Vars \X Values),
                 kind \in {"eval", "dotcmd"}, command \in BOOLEAN : Call(kind, command, rs, as)
        BY <2>2
      <3>2. kind \in {"function", "eval", "dotcmd"}
        OBVIOUS
      <3> QED
        BY <1>3, <3>1, <3>2
    <2>3. CASE While \/ For \/ \E rs \in Redirs \ {<< >>} : Block(rs)
      <3>1. lv' = lv
        BY <2>3 DEF While, For, Block
      <3> QED
        BY <1>1, <3>1
    <2> QED
      BY <1>2, <1>10, <2>1, <2>2, <2>3 DEF Begin
  <1>11. CASE Do
    <2>1. CASE \/ Simple
               \/ \E skip \in {"SKIPBREAK", "SKIPCONT"}, n \in 1..2 : breakcmd(skip, n)
               \/ \E status \in Statuses : returncmd("SKIPFUNC", status)
               \/ returncmd("SKIPFUNCDEF", exitstatus)
      <3>1. lv' = lv
        BY <2>1 DEF Simple, breakcmd, returncmd
      <3> QED
        BY <1>1, <3>1
    <2> QED
      BY <1>4, <1>5, <1>6, <1>7, <1>8, <1>11, <2>1 DEF Do
  <1>12. CASE End
    <2>1. CASE EndTest \/ EndBody \/ EndBlock \/ EndTop
      <3>1. lv' = lv
        BY <2>1 DEF EndTest, EndBody, EndBlock, EndTop
      <3> QED
        BY <1>1, <3>1
    <2> QED
      BY <1>9, <1>12, <2>1 DEF End
  <1>13. CASE UNCHANGED vars
    BY <1>1, <1>13 DEF vars
  <1> QED
    BY <1>10, <1>11, <1>12, <1>13 DEF Next

-----------------------------------------------------------------------------
(* Every step is one of ShellScopes. *)

Scope == [Vars -> {<<"keep">>} \cup {Meaning(e) : e \in Entry}]

LEMMA SameSeq ==
  ASSUME NEW S, NEW s \in Seq(S), NEW t \in Seq(S), Len(s) = Len(t), \A i \in 1..Len(s) : s[i] = t[i]
  PROVE  s = t
  OBVIOUS

LEMMA ScopesSeq ==
  ASSUME NEW v, LvGood(v)
  PROVE  /\ Scopes(v) \in Seq(Scope)
         /\ Len(Scopes(v)) = Len(v.stack) /\ Len(v.stack) \in Nat
         /\ \A i \in 1..Len(v.stack) : Scopes(v)[i] = [x \in Vars |-> SavedMeaning(v.stack[i], x)]
         /\ \A i \in 1..Len(v.stack), x \in Vars : Scopes(v)[i][x] = SavedMeaning(v.stack[i], x)
         /\ \A x \in Vars : Means(v)[x] = Meaning(v.vars[x])
  <1> DEFINE s == Scopes(v)
             n == Len(v.stack)
  <1>1. DOMAIN v.stack = 1..n /\ n \in Nat /\ v \in LvType
    BY LvStack
  <1>2. /\ s = [i \in 1..n |-> [x \in Vars |-> SavedMeaning(v.stack[i], x)]]
        /\ \A x \in Vars : Means(v)[x] = Meaning(v.vars[x])
    BY <1>1 DEF Scopes, Means
  <1>3. \A i \in 1..n : [x \in Vars |-> SavedMeaning(v.stack[i], x)] \in Scope
    <2> SUFFICES ASSUME NEW i \in 1..n PROVE [x \in Vars |-> SavedMeaning(v.stack[i], x)] \in Scope
      OBVIOUS
    <2>1. PICK items \in Seq(Item) : items = v.stack[i]
      BY <1>1, NoItems
    <2>2. \A k \in DOMAIN items : items[k].was \in Entry
      BY <1>1, <2>1, NoItems
    <2>3. \A x \in Vars : SavedMeaning(items, x) \in {<<"keep">>} \cup {Meaning(e) : e \in Entry}
      BY <2>2, SavedLast
    <2> QED
      BY <2>1, <2>3 DEF Scope
  <1> HIDE DEF s, n
  <1>4. s \in Seq(Scope) /\ Len(s) = n
    BY <1>1, <1>2, <1>3
  <1>5. /\ \A i \in 1..n : s[i] = [x \in Vars |-> SavedMeaning(v.stack[i], x)]
        /\ \A i \in 1..n, x \in Vars : s[i][x] = SavedMeaning(v.stack[i], x)
    BY <1>2
  <1> QED
    BY <1>1, <1>2, <1>4, <1>5 DEF s, n

LEMMA SameScopes ==
  ASSUME NEW v, LvGood(v), NEW w, LvGood(w), NEW k \in Nat, k <= Len(v.stack), k <= Len(w.stack),
         \A i \in 1..k : w.stack[i] = v.stack[i]
  PROVE  SubSeq(Scopes(w), 1, k) = SubSeq(Scopes(v), 1, k)
  <1>1. PICK s \in Seq(Scope) :
           /\ s = Scopes(v) /\ Len(s) = Len(v.stack)
           /\ \A i \in 1..Len(v.stack) : s[i] = [x \in Vars |-> SavedMeaning(v.stack[i], x)]
    BY ScopesSeq
  <1>2. PICK t \in Seq(Scope) :
           /\ t = Scopes(w) /\ Len(t) = Len(w.stack)
           /\ \A i \in 1..Len(w.stack) : t[i] = [x \in Vars |-> SavedMeaning(w.stack[i], x)]
    BY ScopesSeq
  <1>3. \A i \in 1..k : i \in 1..Len(v.stack) /\ i \in 1..Len(w.stack)
    BY <1>1, <1>2
  <1>4. \A i \in 1..k : s[i] = t[i]
    <2> SUFFICES ASSUME NEW i \in 1..k PROVE s[i] = t[i]
      OBVIOUS
    <2>1. PICK items : items = v.stack[i]
      OBVIOUS
    <2>2. s[i] = [x \in Vars |-> SavedMeaning(items, x)]
      BY <1>1, <1>3, <2>1
    <2>3. t[i] = [x \in Vars |-> SavedMeaning(items, x)]
      BY <1>2, <1>3, <2>1
    <2> QED
      BY <2>2, <2>3
  <1>5. k \in 0..Len(s) /\ k \in 0..Len(t)
    BY <1>1, <1>2
  <1>6. /\ SubSeq(s, 1, k) \in Seq(Scope) /\ Len(SubSeq(s, 1, k)) = k
        /\ SubSeq(t, 1, k) \in Seq(Scope) /\ Len(SubSeq(t, 1, k)) = k
        /\ \A i \in 1..k : SubSeq(s, 1, k)[i] = s[i] /\ SubSeq(t, 1, k)[i] = t[i]
    BY <1>5, Cut
  <1>7. SubSeq(s, 1, k) = SubSeq(t, 1, k)
    BY <1>4, <1>6, SameSeq
  <1> QED
    BY <1>1, <1>2, <1>7

LEMMA AllScopes ==
  ASSUME NEW v, LvGood(v)
  PROVE  SubSeq(Scopes(v), 1, Len(v.stack)) = Scopes(v)
  <1>1. PICK s \in Seq(Scope) : s = Scopes(v) /\ Len(s) = Len(v.stack) /\ Len(s) \in Nat
    BY ScopesSeq
  <1>2. Len(s) \in 0..Len(s)
    BY <1>1
  <1>3. /\ SubSeq(s, 1, Len(s)) \in Seq(Scope) /\ Len(SubSeq(s, 1, Len(s))) = Len(s)
        /\ \A i \in 1..Len(s) : SubSeq(s, 1, Len(s))[i] = s[i]
    BY <1>2, Cut
  <1>4. SubSeq(s, 1, Len(s)) = s
    BY <1>3, SameSeq
  <1> QED
    BY <1>1, <1>4

LEMMA MapPush ==
  ASSUME LvGood(lv), LvGood(lv'), Entered(lv, lv')
  PROVE  Locals!Push
  <1> DEFINE n == Len(lv.stack)
  <1>1. /\ Len(lv'.stack) = n + 1 /\ n \in Nat /\ n + 1 \in 1..(n + 1) /\ n <= n + 1
        /\ \A i \in 1..n : lv'.stack[i] = lv.stack[i]
        /\ \A x \in Vars : \/ SavedMeaning(lv'.stack[n + 1], x) = Meaning(lv.vars[x])
                           \/ /\ SavedMeaning(lv'.stack[n + 1], x) = <<"keep">>
                              /\ Meaning(lv'.vars[x]) = Meaning(lv.vars[x])
    BY LvStack DEF Entered
  <1>2. /\ Len(Scopes(lv)) = n /\ Len(Scopes(lv')) = n + 1
        /\ \A x \in Vars : Scopes(lv')[n + 1][x] = SavedMeaning(lv'.stack[n + 1], x)
        /\ \A x \in Vars : Means(lv)[x] = Meaning(lv.vars[x])
        /\ \A x \in Vars : Means(lv')[x] = Meaning(lv'.vars[x])
    BY <1>1, ScopesSeq
  <1>3. SubSeq(Scopes(lv'), 1, n) = Scopes(lv)
    BY <1>1, SameScopes, AllScopes, SMTT(20)
  <1> HIDE DEF n
  <1>4. /\ Len(Scopes(lv')) = Len(Scopes(lv)) + 1
        /\ SubSeq(Scopes(lv'), 1, Len(Scopes(lv))) = Scopes(lv)
        /\ \A x \in Vars : \/ Scopes(lv')[Len(Scopes(lv'))][x] = Means(lv)[x]
                           \/ /\ Scopes(lv')[Len(Scopes(lv'))][x] = <<"keep">>
                              /\ Means(lv')[x] = Means(lv)[x]
    BY <1>1, <1>2, <1>3
  <1> QED
    BY <1>4 DEF Locals!Push, Scopes, Means

LEMMA MapSet ==
  ASSUME LvGood(lv), LvGood(lv'), lv'.stack = lv.stack \/ TakenOver(lv, lv')
  PROVE  Locals!Set
  <1>1. CASE lv'.stack = lv.stack
    <2>1. Scopes(lv') = Scopes(lv)
      BY <1>1 DEF Scopes
    <2>2. Len(Scopes(lv')) = Len(Scopes(lv)) /\ Scopes(lv') = Scopes(lv)
      BY <2>1
    <2> QED
      BY <2>2 DEF Locals!Set, Scopes
  <1>2. CASE TakenOver(lv, lv')
    <2> DEFINE n == Len(lv.stack)
    <2>1. /\ n \in Nat /\ n \in 1..n /\ n - 1 \in Nat /\ n - 1 <= n /\ Len(lv'.stack) = n
          /\ \A i \in 1..(n - 1) : lv'.stack[i] = lv.stack[i]
          /\ \A x \in Vars : \/ SavedMeaning(lv'.stack[n], x) = SavedMeaning(lv.stack[n], x)
                             \/ /\ SavedMeaning(lv.stack[n], x) = <<"keep">>
                                /\ SavedMeaning(lv'.stack[n], x) = Meaning(lv.vars[x])
      BY <1>2, LvStack DEF TakenOver
    <2>2. /\ Len(Scopes(lv)) = n /\ Len(Scopes(lv')) = n
          /\ \A x \in Vars : /\ Scopes(lv')[n][x] = SavedMeaning(lv'.stack[n], x)
                             /\ Scopes(lv)[n][x] = SavedMeaning(lv.stack[n], x)
                             /\ Means(lv)[x] = Meaning(lv.vars[x])
      BY <2>1, ScopesSeq
    <2>3. SubSeq(Scopes(lv'), 1, n - 1) = SubSeq(Scopes(lv), 1, n - 1)
      BY <2>1, SameScopes
    <2> HIDE DEF n
    <2>4. /\ Len(Scopes(lv')) = Len(Scopes(lv))
          /\ SubSeq(Scopes(lv'), 1, Len(Scopes(lv)) - 1) = SubSeq(Scopes(lv), 1, Len(Scopes(lv)) - 1)
          /\ \A x \in Vars : \/ Scopes(lv')[Len(Scopes(lv))][x] = Scopes(lv)[Len(Scopes(lv))][x]
                             \/ /\ Scopes(lv)[Len(Scopes(lv))][x] = <<"keep">>
                                /\ Scopes(lv')[Len(Scopes(lv))][x] = Means(lv)[x]
      BY <2>1, <2>2, <2>3
    <2> QED
      BY <2>4 DEF Locals!Set, Locals!Lower, Scopes, Means
  <1> QED
    BY <1>1, <1>2

LEMMA MapDrop ==
  ASSUME LvGood(lv), LvGood(lv'), Closed(lv, lv'), lv'.stack # lv.stack
  PROVE  Locals!Drop
  <1> DEFINE n == Len(lv.stack)
             k == Len(lv'.stack)
  <1>1. /\ n \in Nat /\ k \in Nat /\ k <= n /\ \A i \in 1..k : lv'.stack[i] = lv.stack[i]
        /\ \A x \in Vars : Meaning(lv'.vars[x]) = MeantBefore(lv, k, x)
        /\ lv.stack \in Seq(Seq(Item)) /\ lv'.stack \in Seq(Seq(Item))
    BY LvStack DEF Closed
  <1>2. k < n
    <2> SUFFICES ASSUME k = n PROVE FALSE
      BY <1>1
    <2>1. lv'.stack = lv.stack
      BY <1>1, SameSeq
    <2> QED
      BY <2>1
  <1>3. /\ Len(Scopes(lv)) = n /\ Len(Scopes(lv')) = k
        /\ \A i \in 1..n, x \in Vars : Scopes(lv)[i][x] = SavedMeaning(lv.stack[i], x)
        /\ \A x \in Vars : /\ Means(lv)[x] = Meaning(lv.vars[x])
                           /\ Means(lv')[x] = Meaning(lv'.vars[x])
    BY ScopesSeq
  <1>4. Scopes(lv') = SubSeq(Scopes(lv), 1, k)
    <2>1. k <= k
      BY <1>1
    <2> QED
      BY <1>1, <2>1, SameScopes, AllScopes
  <1> HIDE DEF n, k
  <1>5. ASSUME NEW x \in Vars
        PROVE  Means(lv')[x] =
                  LET S == {i \in (k + 1)..n : Scopes(lv)[i][x] # <<"keep">>}
                  IN IF S = {} THEN Means(lv)[x] ELSE Scopes(lv)[Min(S)][x]
    <2> DEFINE S == {i \in (k + 1)..n : Scopes(lv)[i][x] # <<"keep">>}
    <2>1. (k + 1)..n \subseteq 1..n
      BY <1>1
    <2>2. Taking(lv, k, x) = S
      BY <1>3, <2>1 DEF Taking, n
    <2>3. Means(lv')[x] = IF S = {} THEN Meaning(lv.vars[x]) ELSE SavedMeaning(lv.stack[Min(S)], x)
      BY <1>1, <1>3, <2>2 DEF MeantBefore
    <2>4. S # {} => Min(S) \in 1..n
      <3> SUFFICES ASSUME S # {} PROVE Min(S) \in 1..n
        OBVIOUS
      <3>1. S \subseteq Int /\ (\A i \in S : k + 1 <= i) /\ k + 1 \in Int /\ S \subseteq 1..n
        BY <1>1, <2>1
      <3> HIDE DEF S
      <3>2. Min(S) \in S
        BY <3>1, MinOf
      <3> QED
        BY <3>1, <3>2
    <2> HIDE DEF S
    <2>5. Means(lv')[x] = IF S = {} THEN Means(lv)[x] ELSE Scopes(lv)[Min(S)][x]
      BY <1>3, <2>3, <2>4
    <2> QED
      BY <2>5 DEF S
  <1>6. /\ Len(Scopes(lv')) < Len(Scopes(lv))
        /\ Scopes(lv') = SubSeq(Scopes(lv), 1, Len(Scopes(lv')))
    BY <1>2, <1>3, <1>4
  <1>7. \A x \in Vars : Means(lv')[x] =
           LET S == {i \in (Len(Scopes(lv')) + 1)..Len(Scopes(lv)) : Scopes(lv)[i][x] # <<"keep">>}
           IN IF S = {} THEN Means(lv)[x] ELSE Scopes(lv)[Min(S)][x]
    BY <1>3, <1>5
  <1>8. \A S : Locals!Min(S) = Min(S)
    BY DEF Locals!Min, Min
  <1>9. \A x \in Vars : Means(lv')[x] =
           LET S == {i \in (Len(Scopes(lv')) + 1)..Len(Scopes(lv)) : Scopes(lv)[i][x] # <<"keep">>}
           IN IF S = {} THEN Means(lv)[x] ELSE Scopes(lv)[Locals!Min(S)][x]
    BY <1>7, <1>8
  <1> QED
    BY <1>6, <1>9 DEF Locals!Drop, Locals!Lower, Locals!Before, Scopes, Means

(* Commands change variables for their own duration, by "local", by an     *)
(* assignment before a function or an ordinary command, and all over       *)
(* var.c, one item after the other: whichever ends them, their last line,  *)
(* return, break, an error in the middle of an assignment or an interrupt, *)
(* the variables mean again what they meant outside.                       *)
THEOREM VariablesRestored == Spec => LocalsUndone
  <1>1. Init => Types /\ Stacks /\ Locals!Init
    <2> SUFFICES ASSUME Init PROVE Types /\ Stacks /\ Locals!Init
      OBVIOUS
    <2>1. Types /\ Stacks
      BY InitTypes
    <2>2. LvGood(lv) /\ Len(lv.stack) = 0
      BY <2>1, Unpacked DEF Init, NoVars
    <2>3. Scopes(lv) = << >>
      BY <2>2, ScopesSeq
    <2> QED
      BY <2>1, <2>3 DEF Locals!Init, Scopes
  <1>2. (Types /\ Stacks) /\ [Next]_vars => (Types /\ Stacks)'
    BY StepTypes
  <1>3. Types /\ Stacks /\ Types' /\ [Next]_vars => Locals!Next
    <2> SUFFICES ASSUME Types, Stacks, Types', [Next]_vars PROVE Locals!Next
      OBVIOUS
    <2>1. LvGood(lv) /\ LvGood(lv') /\ Moved(lv, lv')
      BY Unpacked, StepMoves DEF Types, DataType
    <2>2. CASE lv'.stack = lv.stack \/ TakenOver(lv, lv')
      BY <2>1, <2>2, MapSet DEF Locals!Next
    <2>3. CASE Entered(lv, lv')
      BY <2>1, <2>3, MapPush DEF Locals!Next
    <2>4. CASE Closed(lv, lv') /\ lv'.stack # lv.stack
      BY <2>1, <2>4, MapDrop DEF Locals!Next
    <2> QED
      BY <2>1, <2>2, <2>3, <2>4 DEF Moved
  <1> QED
    BY <1>1, <1>2, <1>3, PTL DEF Spec, LocalsUndone, Locals!Spec

=============================================================================
