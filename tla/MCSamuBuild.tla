---------------------------- MODULE MCSamuBuild ----------------------------
(***************************************************************************)
(* Instances of SamuBuild for TLC.                                         *)
(***************************************************************************)
EXTENDS SamuBuild

NodeState == {"absent", "clean", "changed"}

(* What samu may find: each output of Outs in one of the given states and  *)
(* each source in Srcs older or newer than the outputs.                    *)
Files(outs, srcs, states, ages, missing) ==
    {[disk     |-> [n \in Nodes |-> IF n \in outs
                                    THEN IF st[n] = "absent" THEN MTIME_MISSING ELSE 2
                                    ELSE IF n \in srcs THEN age[n] ELSE MTIME_MISSING],
      logmtime |-> [n \in Nodes |-> IF n \in outs /\ st[n] # "absent" THEN 2
                                    ELSE MTIME_MISSING],
      samehash |-> [n \in Nodes |-> n \in outs /\ st[n] = "clean"],
      nodeps   |-> m, clock |-> 3] :
        st \in [outs -> states], age \in [srcs -> ages], m \in missing}

-----------------------------------------------------------------------------
(* A program: a generated header h (restat), two objects compiled in a     *)
(* pool of depth 1, one of them with h as an order-only input, a library   *)
(* made of them and a phony target.                                        *)
ProgEdges == {"gen", "cc1", "cc2", "ld", "all"}
ProgNodes == {"s1", "s2", "h", "o1", "o2", "bin", "ALL"}
ProgIn == [gen |-> <<"s1">>, cc1 |-> <<"s1", "h">>, cc2 |-> <<"h", "s2">>,
           ld |-> <<"o1", "o2">>, all |-> <<"bin", "h">>]
ProgInorder == [gen |-> 1, cc1 |-> 1, cc2 |-> 2, ld |-> 2, all |-> 2]
ProgOut == [gen |-> <<"h">>, cc1 |-> <<"o1">>, cc2 |-> <<"o2">>, ld |-> <<"bin">>,
            all |-> <<"ALL">>]
ProgUse == [s1 |-> <<"gen", "cc1">>, s2 |-> <<"cc2">>, h |-> <<"cc1", "cc2", "all">>,
            o1 |-> <<"ld">>, o2 |-> <<"ld">>, bin |-> <<"all">>, ALL |-> << >>]
ProgPool == [gen |-> NoPool, cc1 |-> "p", cc2 |-> "p", ld |-> NoPool, all |-> NoPool]
ProgDepth == [p |-> 1]
ProgTargets == <<"ALL">>
ProgFiles == Files({"h", "o1", "o2", "bin"}, {"s1", "s2"}, NodeState, {1, 3}, {{}, {"cc2"}})

-----------------------------------------------------------------------------
(* A graph with an edge of two outputs, order-only inputs of clean edges,  *)
(* a pool of depth 2 and the console pool.                                 *)
WideEdges == {"g", "x", "y", "z", "w", "l"}
WideNodes == {"s1", "s2", "a", "b", "ox", "oy", "oz", "ow", "fin"}
WideIn == [g |-> <<"s1">>, x |-> <<"b", "a">>, y |-> <<"a">>, z |-> <<"s2">>,
           w |-> <<"s2", "oy">>, l |-> <<"ow", "oz", "ox", "b">>]
WideInorder == [g |-> 1, x |-> 1, y |-> 1, z |-> 1, w |-> 1, l |-> 3]
WideOut == [g |-> <<"a", "b">>, x |-> <<"ox">>, y |-> <<"oy">>, z |-> <<"oz">>,
            w |-> <<"ow">>, l |-> <<"fin">>]
WideUse == [s1 |-> <<"g">>, s2 |-> <<"z", "w">>, a |-> <<"x", "y">>, b |-> <<"x", "l">>,
            ox |-> <<"l">>, oy |-> <<"w">>, oz |-> <<"l">>, ow |-> <<"l">>, fin |-> << >>]
WidePool == [g |-> NoPool, x |-> "p", y |-> "p", z |-> "p", w |-> "console", l |-> "console"]
WideDepth == [p |-> 2, console |-> 1]
WideTargets == <<"fin">>
WideFiles ==
    {f \in Files({"a", "b", "ox", "oy", "oz", "ow", "fin"}, {"s1", "s2"},
                 {"absent", "clean"}, {1, 3}, {{}}) :
        \* the objects are all there or all absent, and so are the last outputs
        /\ f.disk["fin"] = f.disk["ow"]
        /\ f.disk["oz"] = f.disk["oy"] /\ f.disk["ox"] = f.disk["oy"]
        /\ f.disk["s1"] = 3 /\ f.disk["s2"] = 1 /\ f.disk["a"] # MTIME_MISSING}

-----------------------------------------------------------------------------
(* A manifest made by a configure step that depends on a tool which is     *)
(* itself built (and restat, so that the step may be pruned), and a        *)
(* program built with the same tool.                                       *)
ConfEdges == {"tool", "conf", "app"}
ConfNodes == {"src", "conf.in", "t", "build.ninja", "prog"}
ConfIn == [tool |-> <<"src">>, conf |-> <<"t", "conf.in">>, app |-> <<"src", "t">>]
ConfInorder == [tool |-> 1, conf |-> 2, app |-> 2]
ConfOut == [tool |-> <<"t">>, conf |-> <<"build.ninja">>, app |-> <<"prog">>]
ConfUse == [n \in ConfNodes |->
               CASE n = "src" -> <<"tool", "app">> [] n = "conf.in" -> <<"conf">>
                 [] n = "t" -> <<"conf", "app">> [] OTHER -> << >>]
ConfPool == [e \in ConfEdges |-> IF e = "conf" THEN "console" ELSE NoPool]
ConfDepth == [console |-> 1]
NoDepth == << >>
ConfTargets == <<"prog", "t">>
ConfFiles == Files({"t", "build.ninja", "prog"}, {"src", "conf.in"}, NodeState, {1, 3},
                   {{}, {"app"}})

-----------------------------------------------------------------------------
(* A manifest with a cycle, and sources that may be missing.               *)
LoopEdges == {"m", "u", "v"}
LoopNodes == {"s", "r", "om", "ou", "ov"}
LoopIn == [m |-> <<"s">>, u |-> <<"om", "ov">>, v |-> <<"r", "ou">>]
LoopInorder == [m |-> 1, u |-> 1, v |-> 2]
LoopOut == [m |-> <<"om">>, u |-> <<"ou">>, v |-> <<"ov">>]
LoopUse == [s |-> <<"m">>, r |-> <<"v">>, om |-> <<"u">>, ou |-> <<"v">>, ov |-> <<"u">>]
LoopPool == [e \in LoopEdges |-> NoPool]
LoopTargets == <<"om", "ou">>
LoopFiles == Files({"om", "ou", "ov"}, {"s", "r"}, NodeState, {1, 3, MTIME_MISSING}, {{}})

=============================================================================
