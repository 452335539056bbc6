-------------------------- MODULE ShellExecProofs --------------------------
(***************************************************************************)
(* Proofs about ShellExec, for all names, directories, values of PATH and  *)
(* programs: the table tells the truth, and what runs never depends on     *)
(* what it remembers.                                                      *)
(***************************************************************************)
EXTENDS ShellExec, WellFoundedInduction, TLAPS

(* What find_command() relies on when it skips absolute entries after cd:  *)
(* of a place k, found once in PATH p, what is absolute does not change.   *)
PlaceKept(p, n, k) ==
    /\ p[k + 1] # Here => There(p[k + 1], cwd, n)
    /\ \A j \in 0..(k - 1) : p[j + 1] # Here => ~There(p[j + 1], cwd, n)

Place(e, n, p, k) ==
    /\ e.cmd = CMDNORMAL(k)
    /\ PlaceKept(p, n, k)
    /\ ~e.rehash => k = Search(p, cwd, n)

(* An entry of the table for n, if the functions are F and PATH is p *)
Commands == [cmdtype : {"unknown", "function", "builtin", "normal"}, index : Int]
Entries == [cmd : Commands, rehash : BOOLEAN]
EntryInv(e, n, p, F) ==
    \/ e.cmd = CMDUNKNOWN /\ ~e.rehash /\ n \notin F
    \/ e.cmd = CMDFUNCTION /\ ~e.rehash /\ n \in F
    \/ e.cmd = CMDBUILTIN /\ ~e.rehash /\ n \in Builtins /\ n \notin F
    \/ n \notin Builtins /\ n \notin F /\ \E k \in 0..(Len(p) - 1) : Place(e, n, p, k)

TableInv(table, p, F) ==
    /\ table \in [Names -> Entries]
    /\ \A n \in Names : EntryInv(table[n], n, p, F)

IInv ==
    /\ path \in Paths
    /\ saved \in Seq(Assignments)
    /\ funs \subseteq Names
    /\ TableInv(cmdtable, path, funs)

-----------------------------------------------------------------------------
(* The kinds of commands, and the entries made of them. *)
LEMMA Kinds ==
    /\ CMDUNKNOWN.cmdtype = "unknown" /\ CMDFUNCTION.cmdtype = "function"
    /\ CMDBUILTIN.cmdtype = "builtin"
    /\ \A k \in Int : CMDNORMAL(k).cmdtype = "normal" /\ CMDNORMAL(k).index = k
    /\ CMDUNKNOWN \in Commands /\ CMDFUNCTION \in Commands /\ CMDBUILTIN \in Commands
    /\ \A k \in Int : CMDNORMAL(k) \in Commands
<1>1. -1 \in Int
  OBVIOUS
<1> QED BY <1>1 DEF CMDUNKNOWN, CMDFUNCTION, CMDBUILTIN, CMDNORMAL, Commands

(* An entry newly made by find_command() or defun() is not marked. *)
LEMMA NewEntry ==
    ASSUME NEW c \in Commands
    PROVE  /\ Entry(c, FALSE) \in Entries
           /\ Entry(c, FALSE).cmd = c /\ ~Entry(c, FALSE).rehash
BY DEF Entry, Entries

(* A name has no entry exactly when its entry is the empty one. *)
LEMMA EmptyEntry ==
    /\ NoEntry \in Entries /\ NoEntry.cmd = CMDUNKNOWN /\ ~NoEntry.rehash
    /\ \A e \in Entries : e = NoEntry <=> e.cmd = CMDUNKNOWN /\ ~e.rehash
<1>1. NoEntry = [cmd |-> CMDUNKNOWN, rehash |-> FALSE]
  BY DEF NoEntry, Entry
<1> QED BY <1>1, Kinds DEF Entries

(* A set of natural numbers has a smallest one (Min of a search). *)
LEMMA Smallest ==
    ASSUME NEW S \in SUBSET Nat, S # {}
    PROVE  Min(S) \in S /\ \A j \in S : Min(S) <= j
<1> DEFINE R == OpToRel(<, Nat)
<1>1. IsWellFoundedOn(R, Nat)
  BY NatLessThanWellFounded
<1>2. PICK x \in S : \A y \in S : ~(<<y, x>> \in R)
  <2> HIDE DEF R
  <2> QED BY <1>1, WFMin
<1>3. \A y \in S : x <= y
  <2> SUFFICES ASSUME NEW y \in S PROVE x <= y
    OBVIOUS
  <2>1. ~(y < x)
    BY <1>2 DEF OpToRel
  <2> QED BY <2>1
<1> QED BY <1>3 DEF Min

(* A search of PATH fails, or ends at the first entry with the program. *)
LEMMA SearchFinds ==
    ASSUME NEW p \in Seq(Dirs \cup {Here}), NEW n, NEW w
    PROVE  LET k == Search(p, w, n) IN
           \/ k = -1 /\ \A j \in 0..(Len(p) - 1) : ~There(p[j + 1], w, n)
           \/ /\ k \in 0..(Len(p) - 1) /\ There(p[k + 1], w, n)
              /\ \A j \in 0..(k - 1) : ~There(p[j + 1], w, n)
<1> DEFINE S == {i \in 0..(Len(p) - 1) : There(p[i + 1], w, n)}
<1>0. Len(p) \in Nat
  OBVIOUS
<1>1. CASE S = {}
  BY <1>1 DEF Search
<1>2. CASE S # {}
  <2>1. S \in SUBSET Nat
    BY <1>0
  <2>2. Min(S) \in S /\ \A j \in S : Min(S) <= j
    BY <1>2, <2>1, Smallest
  <2>3. Search(p, w, n) = Min(S)
    BY <1>2 DEF Search
  <2> HIDE DEF S
  <2>4. Min(S) \in 0..(Len(p) - 1) /\ There(p[Min(S) + 1], w, n)
    BY <2>2 DEF S
  <2>5. \A j \in 0..(Min(S) - 1) : ~There(p[j + 1], w, n)
    <3> SUFFICES ASSUME NEW j \in 0..(Min(S) - 1), There(p[j + 1], w, n) PROVE FALSE
      OBVIOUS
    <3>1. j \in S
      BY <1>0, <2>4 DEF S
    <3> QED BY <2>2, <2>4, <3>1, <1>0
  <2> QED BY <2>3, <2>4, <2>5
<1> QED BY <1>1, <1>2

(* After cd, the shortened search finds what a full one would. *)
LEMMA SearchAgain ==
    ASSUME NEW p \in Seq(Dirs \cup {Here}), NEW n, NEW k \in 0..(Len(p) - 1) \cup {-1},
           k # -1 => PlaceKept(p, n, k)
    PROVE  SearchPath(p, n, k) = Search(p, cwd, n)
<1>0. Len(p) \in Nat
  OBVIOUS
<1>1. \A i \in 0..(Len(p) - 1) : Hit(p, n, k, i) <=> There(p[i + 1], cwd, n)
  BY <1>0 DEF Hit, PlaceKept
<1>2. {i \in 0..(Len(p) - 1) : Hit(p, n, k, i)} = {i \in 0..(Len(p) - 1) : There(p[i + 1], cwd, n)}
  BY <1>1
<1> QED BY <1>2 DEF SearchPath, Search

(* What was found just now is where it should be. *)
LEMMA FoundIsKept ==
    ASSUME NEW p \in Seq(Dirs \cup {Here}), NEW n, Search(p, cwd, n) >= 0
    PROVE  /\ Search(p, cwd, n) \in 0..(Len(p) - 1)
           /\ PlaceKept(p, n, Search(p, cwd, n))
BY SearchFinds DEF PlaceKept

-----------------------------------------------------------------------------
(* Changing one entry. *)
LEMMA PutEntry ==
    ASSUME NEW table, NEW p, NEW F, TableInv(table, p, F), NEW n \in Names,
           NEW e \in Entries, EntryInv(e, n, p, F)
    PROVE  TableInv([table EXCEPT ![n] = e], p, F)
BY DEF TableInv

(* find_command() on the PATH of the table leaves a table that tells the   *)
(* truth, whichever of its returns it takes.                               *)
LEMMA FindKeeps ==
    ASSUME NEW p \in Seq(Dirs \cup {Here}), NEW F, NEW table, TableInv(table, p, F),
           NEW n \in Names, NEW flags
    PROVE  TableInv(find_command(table, n, flags, p, FALSE).table, p, F)
<1> DEFINE e == table[n]
           refuse == flags \cap Bit(e, n)
           known == e # NoEntry /\ refuse = {}
           i == SearchPath(p, n, IF known /\ e.rehash THEN e.cmd.index ELSE -1)
<1>0. EntryInv(e, n, p, F) /\ e \in Entries /\ Len(p) \in Nat
  BY DEF TableInv
<1>1. CASE "DO_REGBLTIN" \in refuse \/ (known /\ ~e.rehash)
  BY <1>1 DEF find_command, Found
<1>2. ASSUME ~("DO_REGBLTIN" \in refuse), ~(known /\ ~e.rehash)
      PROVE  TableInv(find_command(table, n, flags, p, FALSE).table, p, F)
  <2>1. CASE refuse # {}
    BY <1>2, <2>1 DEF find_command, Found
  <2>2. CASE refuse = {}
    <3>1. n \notin F
      BY <1>0, <1>2, <2>2, Kinds, EmptyEntry DEF EntryInv
    <3>2. CASE n \in Builtins
      <4> DEFINE new == Entry(CMDBUILTIN, FALSE)
      <4>1. find_command(table, n, flags, p, FALSE).table = [table EXCEPT ![n] = new]
        BY <1>2, <2>2, <3>2 DEF find_command, Found
      <4>2. EntryInv(new, n, p, F) /\ new \in Entries
        BY <3>1, <3>2, Kinds, NewEntry DEF EntryInv
      <4> HIDE DEF new
      <4>3. TableInv([table EXCEPT ![n] = new], p, F)
        BY <4>2, PutEntry
      <4> QED BY <4>1, <4>3
    <3>3. CASE n \notin Builtins
      <4>1. i = Search(p, cwd, n)
        <5>1. CASE known /\ e.rehash
          <6>1. PICK k \in 0..(Len(p) - 1) : Place(e, n, p, k)
            BY <1>0, <5>1, EmptyEntry DEF EntryInv
          <6>2. e.cmd.index = k /\ PlaceKept(p, n, k)
            BY <1>0, <6>1, Kinds DEF Place
          <6> QED BY <5>1, <6>2, SearchAgain
        <5>2. CASE ~(known /\ e.rehash)
          BY <5>2, SearchAgain
        <5> QED BY <5>1, <5>2
      <4>2. CASE i >= 0 /\ ~("DO_REGBLTIN" \in flags)
        <5> DEFINE new == Entry(CMDNORMAL(i), FALSE)
        <5>1. find_command(table, n, flags, p, FALSE).table = [table EXCEPT ![n] = new]
          BY <1>2, <2>2, <3>3, <4>2 DEF find_command, Found
        <5>2. i \in 0..(Len(p) - 1) /\ PlaceKept(p, n, i)
          BY <4>1, <4>2, FoundIsKept
        <5>3. CMDNORMAL(i) \in Commands
          BY <1>0, <5>2, Kinds
        <5>4. new \in Entries /\ new.cmd = CMDNORMAL(i) /\ ~new.rehash
          BY <5>3, NewEntry
        <5>5. EntryInv(new, n, p, F)
          BY <3>1, <3>3, <4>1, <5>2, <5>4 DEF EntryInv, Place
        <5> HIDE DEF new
        <5>6. TableInv([table EXCEPT ![n] = new], p, F)
          BY <5>4, <5>5, PutEntry
        <5> QED BY <5>1, <5>6
      <4>3. CASE ~(i >= 0 /\ ~("DO_REGBLTIN" \in flags))
        <5>1. find_command(table, n, flags, p, FALSE).table
                \in {table, [table EXCEPT ![n] = NoEntry]}
          BY <1>2, <2>2, <3>3, <4>3 DEF find_command, Found
        <5>2. EntryInv(NoEntry, n, p, F) /\ NoEntry \in Entries
          BY <3>1, EmptyEntry DEF EntryInv
        <5>3. TableInv([table EXCEPT ![n] = NoEntry], p, F)
          BY <5>2, PutEntry
        <5> QED BY <5>1, <5>3
      <4> QED BY <4>2, <4>3
    <3> QED BY <3>2, <3>3
  <2> QED BY <2>1, <2>2
<1> QED BY <1>1, <1>2

(* On another PATH it leaves the table alone. *)
LEMMA FindElsewhere ==
    ASSUME NEW table, NEW n, NEW flags, NEW p
    PROVE  find_command(table, n, flags, p, TRUE).table = table
BY DEF find_command, Found

(* After changepath() the table is right for any PATH. *)
LEMMA ClearKeeps ==
    ASSUME NEW table, NEW p, NEW q, NEW F, TableInv(table, p, F)
    PROVE  TableInv(changepath(table), q, F)
<1> SUFFICES ASSUME NEW n \in Names PROVE EntryInv(clearcmdentry(table)[n], n, q, F)
  BY EmptyEntry DEF TableInv, changepath, clearcmdentry
<1>1. EntryInv(table[n], n, p, F)
  BY DEF TableInv
<1>2. clearcmdentry(table)[n] = IF IsNormal(table[n]) THEN NoEntry ELSE table[n]
  BY DEF clearcmdentry
<1>3. CASE IsNormal(table[n])
  BY <1>1, <1>2, <1>3, Kinds, EmptyEntry DEF EntryInv, IsNormal
<1>4. CASE ~IsNormal(table[n])
  <2>1. \A k \in 0..(Len(p) - 1) : ~Place(table[n], n, p, k)
    BY <1>4, Kinds DEF IsNormal, Place
  <2> QED BY <1>1, <1>2, <1>4, <2>1 DEF EntryInv
<1> QED BY <1>3, <1>4

(* PATH assigned before a command, or restored: changepath() is called. *)
LEMMA AssignedKeeps ==
    ASSUME NEW table, NEW F, NEW assign \in Assignments, TableInv(table, path, F)
    PROVE  TableInv(Assigned(table, assign), During(assign), F)
BY ClearKeeps DEF Assigned, During

(* The lookups of evalcommand() leave a table that is right while the      *)
(* assignment before the command holds.                                    *)
LEMMA LookupKeeps ==
    ASSUME path \in Paths, NEW F, NEW table, TableInv(table, path, F),
           NEW n \in Names, NEW nofunc, NEW alt \in BOOLEAN, NEW assign \in Assignments
    PROVE  TableInv(Lookup(table, n, nofunc, alt, assign).table, During(assign), F)
<1> DEFINE act == IF nofunc THEN {"DO_NOFUNC"} ELSE {}
           first == find_command(table, n, act \cup {"DO_REGBLTIN"}, path, FALSE)
           after == Assigned(first.table, assign)
           second == find_command(after, n, act \cup {"DO_ERR"}, SearchedPath(alt, assign), alt)
<1>1. path \in Seq(Dirs \cup {Here}) /\ During(assign) \in Seq(Dirs \cup {Here})
  BY ExecAssumption DEF During, Assignments
<1>2. TableInv(first.table, path, F)
  BY <1>1, FindKeeps
<1>3. TableInv(after, During(assign), F)
  BY <1>2, AssignedKeeps
<1>4. TableInv(second.table, During(assign), F)
  <2>1. CASE alt
    BY <1>3, <2>1, FindElsewhere
  <2>2. CASE ~alt
    BY <1>1, <1>3, <2>2, FindKeeps DEF SearchedPath
  <2> QED BY <2>1, <2>2
<1>5. Lookup(table, n, nofunc, alt, assign).table \in {after, second.table}
  BY DEF Lookup, Found
<1> QED BY <1>3, <1>4, <1>5

-----------------------------------------------------------------------------
(* The table starts empty. *)
LEMMA InitInv == Init => IInv
<1> SUFFICES ASSUME Init PROVE IInv
  OBVIOUS
<1>1. cmdtable \in [Names -> Entries] /\ \A n \in Names : cmdtable[n] = NoEntry
  BY EmptyEntry DEF Init
<1>2. \A n \in Names : EntryInv(cmdtable[n], n, path, funs)
  BY <1>1, EmptyEntry DEF Init, EntryInv
<1>3. saved \in Seq(Assignments)
  BY DEF Init
<1> QED BY <1>1, <1>2, <1>3 DEF Init, IInv, TableInv

(* A step that leaves programs and directory alone has to leave a table    *)
(* that is right for the functions and the PATH after it.                  *)
LEMMA StepInv ==
    ASSUME UNCHANGED <<exe, cwd>>, path' \in Paths, saved' \in Seq(Assignments),
           funs' \subseteq Names, TableInv(cmdtable', path', funs')
    PROVE  IInv'
<1>1. ASSUME NEW n \in Names PROVE EntryInv(cmdtable[n], n, path, funs)'
  <2>1. EntryInv(cmdtable'[n], n, path', funs')
    BY DEF TableInv
  <2> QED BY <2>1 DEF EntryInv, Place, PlaceKept, Search, There, Dir
<1> QED BY <1>1 DEF IInv, TableInv

(* cd: marked entries keep what is absolute. *)
LEMMA CdInv ==
    ASSUME IInv, NEW d \in Dirs, docd(d)
    PROVE  IInv'
<1>0. /\ path \in Paths /\ saved \in Seq(Assignments) /\ funs \subseteq Names
      /\ path \in Seq(Dirs \cup {Here})
  BY ExecAssumption DEF IInv
<1>1. cmdtable \in [Names -> Entries] /\ cmdtable' \in [Names -> Entries]
  BY DEF IInv, TableInv, docd, hashcd, Entries
<1>2. ASSUME NEW n \in Names PROVE EntryInv(cmdtable[n], n, path, funs)'
  <2>0. EntryInv(cmdtable[n], n, path, funs) /\ cmdtable[n] \in Entries
    BY DEF IInv, TableInv
  <2>1. CASE IsNormal(cmdtable[n])
    <3>1. n \notin Builtins /\ n \notin funs
      BY <2>0, <2>1, Kinds DEF EntryInv, IsNormal
    <3>2. PICK k \in 0..(Len(path) - 1) : Place(cmdtable[n], n, path, k)
      BY <2>0, <2>1, Kinds DEF EntryInv, IsNormal
    <3>3. cmdtable'[n].cmd = CMDNORMAL(k) /\ cmdtable'[n].rehash
      BY <1>1, <2>0, <2>1, <3>2 DEF docd, hashcd, Place, Entries
    <3>4. PlaceKept(path, n, k)'
      BY <1>0, <3>2 DEF docd, Place, PlaceKept, There, Dir
    <3>5. Place(cmdtable[n], n, path, k)'
      BY <3>3, <3>4 DEF Place, docd
    <3>6. UNCHANGED <<path, funs>>
      BY DEF docd
    <3> QED BY <3>1, <3>5, <3>6 DEF EntryInv
  <2>2. CASE ~IsNormal(cmdtable[n])
    <3>1. cmdtable'[n] = cmdtable[n] /\ UNCHANGED <<path, funs>>
      BY <1>1, <2>2 DEF docd, hashcd
    <3>2. \A k \in 0..(Len(path) - 1) : ~Place(cmdtable[n], n, path, k)
      BY <1>0, <2>2, Kinds DEF IsNormal, Place
    <3> QED BY <2>0, <3>1, <3>2 DEF EntryInv
  <2> QED BY <2>1, <2>2
<1> QED BY <1>0, <1>1, <1>2 DEF IInv, TableInv, docd

(* Every operation on the table preserves the invariant. *)
LEMMA NextInv ==
    ASSUME IInv, [Next]_vars
    PROVE  IInv'
<1> USE DEF IInv
<1>0. path \in Seq(Dirs \cup {Here})
  BY ExecAssumption
<1>1. ASSUME NEW n \in Names, NEW nofunc, NEW alt \in BOOLEAN, NEW assign \in Assignments, NEW env,
             Run(n, nofunc, alt, assign, env)
      PROVE  IInv'
  <2> DEFINE table == Lookup(cmdtable, n, nofunc, alt, assign).table
  <2>1. TableInv(table, During(assign), funs)
    BY LookupKeeps
  <2>2. cmdtable' = Assigned(table, assign) /\ UNCHANGED <<exe, cwd, path, saved, funs>>
    BY <1>1 DEF Run
  <2> HIDE DEF table
  <2>3. TableInv(cmdtable', path, funs)
    BY <2>1, <2>2, ClearKeeps DEF Assigned, During
  <2> QED BY <2>2, <2>3, StepInv
<1>2. ASSUME NEW n \in Names, NEW assign \in Assignments, CallFunction(n, assign)
      PROVE  IInv'
  <2>1. TableInv(cmdtable', path', funs)
    BY <1>2, LookupKeeps DEF CallFunction
  <2>2. path' \in Paths
    BY <1>2 DEF CallFunction, During, Assignments
  <2>3. saved' \in Seq(Assignments)
    BY <1>2 DEF CallFunction, Assignments
  <2> QED BY <1>2, <2>1, <2>2, <2>3, StepInv DEF CallFunction
<1>3. CASE Return
  <2> DEFINE top == saved[Len(saved)]
  <2>1. top \in Assignments /\ saved' \in Seq(Assignments)
    BY <1>3 DEF Return
  <2>2. path' = During(top) /\ cmdtable' = Assigned(cmdtable, top) /\ UNCHANGED <<exe, cwd, funs>>
    BY <1>3 DEF Return, Restored
  <2> HIDE DEF top
  <2>3. TableInv(cmdtable', path', funs)
    BY <2>1, <2>2, AssignedKeeps
  <2>4. path' \in Paths
    BY <2>1, <2>2 DEF During, Assignments
  <2> QED BY <2>1, <2>2, <2>3, <2>4, StepInv
<1>4. ASSUME NEW n \in Names, prehash(n) \/ describe_command(n)
      PROVE  IInv'
  <2>1. TableInv(cmdtable', path, funs)
    BY <1>0, <1>4, FindKeeps DEF prehash, describe_command
  <2> QED BY <1>4, <2>1, StepInv DEF prehash, describe_command
<1>5. ASSUME NEW n \in Names, hashcmd(n)
      PROVE  IInv'
  <2> DEFINE t == [cmdtable EXCEPT ![n] = IF IsNormal(@) THEN NoEntry ELSE @]
             new == IF IsNormal(cmdtable[n]) THEN NoEntry ELSE cmdtable[n]
  <2>1. EntryInv(new, n, path, funs) /\ new \in Entries
    BY Kinds, EmptyEntry DEF TableInv, EntryInv, IsNormal
  <2>2. t = [cmdtable EXCEPT ![n] = new]
    OBVIOUS
  <2>3. cmdtable' = find_command(t, n, {"DO_ERR"}, path, FALSE).table
    BY <1>5 DEF hashcmd
  <2> HIDE DEF new, t
  <2>4. TableInv(t, path, funs)
    BY <2>1, <2>2, PutEntry
  <2>5. TableInv(cmdtable', path, funs)
    BY <1>0, <2>3, <2>4, FindKeeps
  <2> QED BY <1>5, <2>5, StepInv DEF hashcmd
<1>6. CASE hash_r
  <2>1. TableInv(cmdtable', path, funs)
    BY <1>6, ClearKeeps DEF hash_r, changepath
  <2> QED BY <1>6, <2>1, StepInv DEF hash_r
<1>7. ASSUME NEW p \in Paths, SetPath(p)
      PROVE  IInv'
  <2>1. TableInv(cmdtable', p, funs)
    BY <1>7, ClearKeeps DEF SetPath
  <2> QED BY <1>7, <2>1, StepInv DEF SetPath
<1>8. ASSUME NEW n \in Names, defun(n)
      PROVE  IInv'
  <2> DEFINE new == Entry(CMDFUNCTION, FALSE)
  <2>1. new \in Entries /\ new.cmd = CMDFUNCTION /\ ~new.rehash
    BY Kinds, NewEntry
  <2>2. cmdtable' = [cmdtable EXCEPT ![n] = new] /\ funs' = funs \cup {n}
        /\ UNCHANGED <<exe, cwd, path, saved>>
    BY <1>8 DEF defun
  <2> HIDE DEF new
  <2>3. ASSUME NEW m \in Names PROVE EntryInv(cmdtable'[m], m, path, funs')
    BY <2>1, <2>2 DEF TableInv, EntryInv
  <2>4. TableInv(cmdtable', path, funs')
    BY <2>1, <2>2, <2>3 DEF TableInv
  <2> QED BY <2>2, <2>4, StepInv
<1>9. ASSUME NEW n \in Names, unsetfunc(n)
      PROVE  IInv'
  <2>1. cmdtable' = [cmdtable EXCEPT ![n] = IF @.cmd = CMDFUNCTION THEN NoEntry ELSE @]
        /\ funs' = funs \ {n} /\ UNCHANGED <<exe, cwd, path, saved>>
    BY <1>9 DEF unsetfunc
  <2>2. ASSUME NEW m \in Names PROVE EntryInv(cmdtable'[m], m, path, funs')
    <3>1. EntryInv(cmdtable[m], m, path, funs)
      BY DEF TableInv
    <3>2. CASE m = n
      BY <2>1, <3>1, <3>2, EmptyEntry, Kinds DEF TableInv, EntryInv
    <3>3. CASE m # n
      BY <2>1, <3>1, <3>3 DEF TableInv, EntryInv
    <3> QED BY <3>2, <3>3
  <2>3. TableInv(cmdtable', path, funs')
    BY <2>1, <2>2, EmptyEntry DEF TableInv
  <2> QED BY <2>1, <2>3, StepInv
<1>10. ASSUME NEW v, NEW x, SetExported(v, x)
       PROVE  IInv'
  BY <1>10, StepInv DEF SetExported, lookupVars
<1>11. CASE UNCHANGED vars
  BY <1>11, StepInv DEF vars
<1> QED
  <2>1. {} \in Assignments
    BY DEF Assignments
  <2> QED BY <1>1, <1>2, <1>3, <1>4, <1>5, <1>6, <1>7, <1>8, <1>9, <1>10, <1>11, <2>1, CdInv DEF Next

-----------------------------------------------------------------------------
(* The table tells the truth (find_command(), changepath(), hashcd(),      *)
(* defun(), unsetfunc(), hashcmd()): it has exactly the functions that are *)
(* defined, and each program not marked by cd where PATH has it now.       *)
THEOREM TableCorrect == Spec => []TableSound
<1>1. Init => IInv
  BY InitInv
<1>2. IInv /\ [Next]_vars => IInv'
  BY NextInv
<1>3. IInv => TableSound
  <2> SUFFICES ASSUME IInv PROVE TableSound
    OBVIOUS
  <2>1. {n \in Names : cmdtable[n].cmd = CMDFUNCTION} = funs
    <3> SUFFICES ASSUME NEW n \in Names PROVE cmdtable[n].cmd = CMDFUNCTION <=> n \in funs
      BY DEF IInv
    <3>1. EntryInv(cmdtable[n], n, path, funs) /\ Len(path) \in Nat
      BY ExecAssumption DEF IInv, TableInv
    <3> QED BY <3>1, Kinds DEF EntryInv, Place
  <2>2. ASSUME NEW n \in Names
        PROVE  /\ cmdtable[n].cmd = CMDBUILTIN => n \in Builtins
               /\ cmdtable[n].rehash => IsNormal(cmdtable[n])
               /\ IsNormal(cmdtable[n]) =>
                     /\ n \notin Builtins /\ cmdtable[n].cmd.index \in 0..(Len(path) - 1)
                     /\ ~cmdtable[n].rehash => cmdtable[n].cmd.index = Search(path, cwd, n)
    <3>1. EntryInv(cmdtable[n], n, path, funs) /\ Len(path) \in Nat
      BY ExecAssumption DEF IInv, TableInv
    <3>2. CASE \E k \in 0..(Len(path) - 1) : Place(cmdtable[n], n, path, k)
      BY <3>1, <3>2, Kinds DEF EntryInv, Place, IsNormal
    <3>3. CASE ~\E k \in 0..(Len(path) - 1) : Place(cmdtable[n], n, path, k)
      BY <3>1, <3>3, Kinds DEF EntryInv, IsNormal
    <3> QED BY <3>2, <3>3
  <2> QED BY <2>1, <2>2 DEF TableSound
<1> QED BY <1>1, <1>2, <1>3, PTL DEF Spec

-----------------------------------------------------------------------------
(* shellexec() on the first place in PATH: what should run, runs. *)
LEMMA ExecRight ==
    ASSUME NEW p \in Seq(Dirs \cup {Here}), NEW n \in Names, n \notin Builtins,
           NEW nofunc \in BOOLEAN, n \notin funs \/ nofunc
    PROVE  LET k == Search(p, cwd, n) IN
           /\ k >= 0 \/ n \in Toys => Runs(n, CMDNORMAL(k), p) = Should(n, nofunc, p)
           /\ ~(k >= 0) => k = -1
           /\ ~(k >= 0) /\ n \notin Toys => Runs(n, CMDUNKNOWN, p) = Should(n, nofunc, p)
<1> DEFINE k == Search(p, cwd, n)
<1>0. Len(p) \in Nat /\ k \in Int
  BY SearchFinds
<1>1. CASE n \in Toys
  <2>1. Runs(n, CMDNORMAL(k), p) = shellexec(n, CMDNORMAL(k), p)
    BY <1>0, Kinds DEF Runs
  <2> QED BY <1>1, <2>1, SearchFinds DEF shellexec, Should
<1>2. CASE n \notin Toys /\ k >= 0
  <2> DEFINE S == {i \in 0..(Len(p) - 1) : i >= CMDNORMAL(k).index /\ There(p[i + 1], cwd, n)}
  <2>1. k \in 0..(Len(p) - 1) /\ There(p[k + 1], cwd, n)
    BY <1>0, <1>2, SearchFinds
  <2>2. CMDNORMAL(k).index = k
    BY <1>0, Kinds
  <2>3. S \in SUBSET Nat /\ k \in S /\ \A i \in S : k <= i
    BY <1>0, <2>1, <2>2
  <2>4. Runs(n, CMDNORMAL(k), p)
          = IF S = {} THEN Nothing ELSE [ran |-> "program", dir |-> Dir(p[Min(S) + 1], cwd)]
    BY <1>0, <1>2, Kinds DEF Runs, shellexec
  <2>5. Should(n, nofunc, p) = [ran |-> "program", dir |-> Dir(p[k + 1], cwd)]
    BY <1>0, <1>2 DEF Should
  <2> HIDE DEF S, k
  <2>6. Min(S) = k
    <3>1. Min(S) \in S /\ Min(S) <= k
      BY <2>3, Smallest
    <3>2. k <= Min(S) /\ Min(S) \in Nat
      BY <3>1, <2>3
    <3> QED BY <1>0, <3>1, <3>2
  <2>7. Runs(n, CMDNORMAL(k), p) = Should(n, nofunc, p)
    BY <2>3, <2>4, <2>5, <2>6
  <2> USE DEF k
  <2> QED BY <1>2, <2>7
<1>3. CASE n \notin Toys /\ ~(k >= 0)
  BY <1>0, <1>3, Kinds, SearchFinds DEF Runs, Should
<1> QED BY <1>1, <1>2, <1>3

(* What find_command() comes to when it has to search *)
Fresh(p, n) ==
    LET k == Search(p, cwd, n)
    IN IF n \in Builtins THEN CMDBUILTIN
       ELSE IF k >= 0 THEN CMDNORMAL(k)
       ELSE IF n \in Toys THEN CMDNORMAL(-1) ELSE CMDUNKNOWN

(* A search that uses no entry leads to what should run. *)
LEMMA FreshRight ==
    ASSUME NEW p \in Seq(Dirs \cup {Here}), NEW n \in Names,
           NEW nofunc \in BOOLEAN, n \notin funs \/ nofunc
    PROVE  Runs(n, Fresh(p, n), p) = Should(n, nofunc, p)
<1>1. CASE n \in Builtins
  <2>1. Runs(n, CMDBUILTIN, p) = [ran |-> "builtin", dir |-> Here]
    BY Kinds DEF Runs
  <2> QED BY <1>1, <2>1 DEF Fresh, Should
<1>2. CASE n \notin Builtins
  <2> DEFINE k == Search(p, cwd, n)
  <2>1. CASE k >= 0
    <3>1. Fresh(p, n) = CMDNORMAL(k)
      BY <1>2, <2>1 DEF Fresh
    <3> QED BY <1>2, <2>1, <3>1, ExecRight
  <2>2. CASE ~(k >= 0) /\ n \in Toys
    <3>1. Fresh(p, n) = CMDNORMAL(k)
      BY <1>2, <2>2, ExecRight DEF Fresh
    <3> QED BY <1>2, <2>2, <3>1, ExecRight
  <2>3. CASE ~(k >= 0) /\ n \notin Toys
    <3>1. Fresh(p, n) = CMDUNKNOWN
      BY <1>2, <2>3 DEF Fresh
    <3> QED BY <1>2, <2>3, <3>1, ExecRight
  <2> QED BY <2>1, <2>2, <2>3
<1> QED BY <1>1, <1>2

(* A lookup without DO_REGBLTIN, on the PATH of the table: an entry that   *)
(* is used says what a search would.                                       *)
LEMMA FindRight ==
    ASSUME NEW p \in Seq(Dirs \cup {Here}), NEW table, TableInv(table, p, funs),
           NEW n \in Names, NEW nofunc \in BOOLEAN, NEW flags,
           flags = IF nofunc THEN {"DO_NOFUNC", "DO_ERR"} ELSE {"DO_ERR"}
    PROVE  Runs(n, find_command(table, n, flags, p, FALSE).cmd, p) = Should(n, nofunc, p)
<1> DEFINE e == table[n]
           refuse == flags \cap Bit(e, n)
           known == e # NoEntry /\ refuse = {}
           prev == IF known /\ e.rehash THEN e.cmd.index ELSE -1
           found == find_command(table, n, flags, p, FALSE).cmd
<1>0. EntryInv(e, n, p, funs) /\ e \in Entries /\ Len(p) \in Nat
  BY DEF TableInv
<1>1. "DO_REGBLTIN" \notin flags /\ "DO_ALTPATH" \notin flags
  OBVIOUS
<1>2. CASE known /\ ~e.rehash
  <2>1. found = e.cmd
    BY <1>1, <1>2 DEF find_command, Found
  <2>2. CASE n \in funs
    <3>1. e.cmd = CMDFUNCTION
      BY <1>0, <2>2 DEF EntryInv
    <3>2. ~nofunc
      BY <1>2, <3>1, Kinds DEF Bit
    <3> QED BY <2>1, <2>2, <3>1, <3>2, Kinds DEF Runs, Should
  <2>3. CASE n \notin funs
    <3>1. e.cmd = Fresh(p, n)
      <4>1. CASE e.cmd = CMDBUILTIN
        BY <1>0, <2>3, <4>1, Kinds DEF EntryInv, Fresh, Place
      <4>2. CASE e.cmd # CMDBUILTIN
        <5>1. PICK k \in 0..(Len(p) - 1) : Place(e, n, p, k)
          BY <1>0, <1>2, <2>3, <4>2, EmptyEntry DEF EntryInv
        <5>2. n \notin Builtins
          BY <1>0, <1>2, <2>3, <4>2, EmptyEntry DEF EntryInv
        <5> QED BY <1>0, <1>2, <5>1, <5>2 DEF Fresh, Place
      <4> QED BY <4>1, <4>2
    <3> QED BY <2>1, <2>3, <3>1, FreshRight
  <2> QED BY <2>2, <2>3
<1>3. CASE ~(known /\ ~e.rehash)
  <2>1. SearchPath(p, n, prev) = Search(p, cwd, n)
    <3>1. CASE known /\ e.rehash
      <4>1. PICK k \in 0..(Len(p) - 1) : Place(e, n, p, k)
        BY <1>0, <3>1, EmptyEntry DEF EntryInv
      <4>2. prev = k /\ PlaceKept(p, n, k)
        BY <1>0, <3>1, <4>1, Kinds DEF Place
      <4> QED BY <4>2, SearchAgain
    <3>2. CASE ~(known /\ e.rehash)
      BY <3>2, SearchAgain
    <3> QED BY <3>1, <3>2
  <2>2. found = Fresh(p, n)
    BY <1>1, <1>3, <2>1 DEF find_command, Found, Fresh
  <2>3. n \notin funs \/ nofunc
    <3> SUFFICES ASSUME n \in funs, ~nofunc PROVE FALSE
      OBVIOUS
    <3>1. e.cmd = CMDFUNCTION /\ ~e.rehash
      BY <1>0 DEF EntryInv
    <3>2. known
      BY <1>0, <3>1, EmptyEntry, Kinds DEF Bit
    <3> QED BY <1>3, <3>1, <3>2
  <2> QED BY <2>2, <2>3, FreshRight
<1> QED BY <1>2, <1>3

(* ... and on another one, for "command -p": no place in the table is used *)
LEMMA FindRightElsewhere ==
    ASSUME NEW p \in Seq(Dirs \cup {Here}), NEW q \in Seq(Dirs \cup {Here}), NEW table,
           TableInv(table, q, funs), NEW n \in Names
    PROVE  Runs(n, find_command(table, n, {"DO_NOFUNC", "DO_ERR"}, p, TRUE).cmd, p)
             = Should(n, TRUE, p)
<1> DEFINE flags == {"DO_NOFUNC", "DO_ERR"}
           e == table[n]
           refuse == (flags \cup {"DO_ALTPATH"}) \cap Bit(e, n)
           known == e # NoEntry /\ refuse = {}
           found == find_command(table, n, flags, p, TRUE).cmd
<1>0. EntryInv(e, n, q, funs) /\ e \in Entries /\ Len(q) \in Nat
  BY DEF TableInv
<1>1. known => e.cmd = CMDBUILTIN /\ ~e.rehash /\ n \in Builtins
  <2>1. CASE \E k \in 0..(Len(q) - 1) : Place(e, n, q, k)
    <3>1. e.cmd.cmdtype = "normal"
      BY <1>0, <2>1, Kinds DEF Place
    <3>2. "DO_ALTPATH" \in refuse
      BY <3>1 DEF Bit
    <3> QED BY <3>2
  <2>2. CASE ~\E k \in 0..(Len(q) - 1) : Place(e, n, q, k)
    BY <1>0, <2>2, Kinds, EmptyEntry DEF EntryInv, Bit
  <2> QED BY <2>1, <2>2
<1>2. SearchPath(p, n, -1) = Search(p, cwd, n)
  BY SearchAgain
<1>3. found = Fresh(p, n)
  <2>1. CASE known
    BY <1>1, <2>1 DEF find_command, Found, Fresh, Bit
  <2>2. CASE ~known
    BY <1>2, <2>2, Kinds DEF find_command, Found, Fresh, Bit
  <2> QED BY <2>1, <2>2
<1> QED BY <1>3, FreshRight

(* The first lookup of evalcommand() finds a built-in only if it is to run. *)
LEMMA FirstRight ==
    ASSUME NEW p, NEW table, TableInv(table, p, funs), NEW n \in Names, NEW nofunc \in BOOLEAN,
           NEW flags,
           flags = (IF nofunc THEN {"DO_NOFUNC"} ELSE {}) \cup {"DO_REGBLTIN"},
           find_command(table, n, flags, p, FALSE).cmd = CMDBUILTIN
    PROVE  n \in Builtins /\ (n \notin funs \/ nofunc)
<1> DEFINE e == table[n]
           refuse == flags \cap Bit(e, n)
           known == e # NoEntry /\ refuse = {}
           found == find_command(table, n, flags, p, FALSE).cmd
<1>0. EntryInv(e, n, p, funs) /\ e \in Entries
  BY DEF TableInv
<1>1. n \in Builtins
  <2> SUFFICES ASSUME n \notin Builtins PROVE FALSE
    OBVIOUS
  <2>1. found \in {CMDUNKNOWN, e.cmd}
    BY DEF find_command, Found
  <2>2. e.cmd # CMDBUILTIN
    BY <1>0, Kinds DEF EntryInv, Place
  <2> QED BY <2>1, <2>2, Kinds
<1>2. n \notin funs \/ nofunc
  <2> SUFFICES ASSUME n \in funs, ~nofunc PROVE FALSE
    OBVIOUS
  <2>1. e.cmd = CMDFUNCTION /\ ~e.rehash
    BY <1>0 DEF EntryInv
  <2>2. refuse = {} /\ known
    BY <1>0, <2>1, EmptyEntry, Kinds DEF Bit
  <2>3. found = e.cmd
    BY <2>1, <2>2 DEF find_command, Found
  <2> QED BY <2>1, <2>3, Kinds
<1> QED BY <1>1, <1>2

-----------------------------------------------------------------------------
(* What runs is what the functions, PATH and directory of the moment say,  *)
(* for every PATH, every set of programs and every history of the command  *)
(* table (evalcommand(), find_command(), shellexec()).                     *)
THEOREM LookupCorrect == Spec => []RunsFresh
<1>1. Init => IInv
  BY InitInv
<1>2. IInv /\ [Next]_vars => IInv'
  BY NextInv
<1>3. IInv => RunsFresh
  <2> SUFFICES ASSUME IInv, NEW n \in Names, NEW nofunc \in BOOLEAN, NEW alt \in BOOLEAN,
                      NEW assign \in Assignments, alt => nofunc
               PROVE  Runs(n, Lookup(cmdtable, n, nofunc, alt, assign).cmd,
                           SearchedPath(alt, assign))
                        = Should(n, nofunc, SearchedPath(alt, assign))
    BY DEF RunsFresh
  <2> DEFINE act == IF nofunc THEN {"DO_NOFUNC"} ELSE {}
             first == find_command(cmdtable, n, act \cup {"DO_REGBLTIN"}, path, FALSE)
             after == Assigned(first.table, assign)
             p == SearchedPath(alt, assign)
             second == find_command(after, n, act \cup {"DO_ERR"}, p, alt)
             q == During(assign)
  <2>0. /\ path \in Seq(Dirs \cup {Here}) /\ q \in Seq(Dirs \cup {Here})
        /\ p \in Seq(Dirs \cup {Here})
    <3>1. DefPath \in Seq(Dirs \cup {Here})
      BY ExecAssumption
    <3> QED BY <3>1, ExecAssumption DEF IInv, During, Assignments, SearchedPath
  <2>1. TableInv(after, q, funs)
    <3>1. TableInv(first.table, path, funs)
      BY <2>0, FindKeeps DEF IInv
    <3> QED BY <3>1, AssignedKeeps
  <2>2. CASE first.cmd = CMDBUILTIN /\ n \in Regular
    <3>1. n \in Builtins /\ (n \notin funs \/ nofunc)
      BY <2>2, FirstRight DEF IInv
    <3>2. Lookup(cmdtable, n, nofunc, alt, assign).cmd = CMDBUILTIN
      BY <2>2 DEF Lookup, Found
    <3>3. CMDBUILTIN = Fresh(p, n)
      BY <3>1 DEF Fresh
    <3>4. Runs(n, Fresh(p, n), p) = Should(n, nofunc, p)
      <4> HIDE DEF p
      <4> QED BY <2>0, <3>1, FreshRight
    <3> QED BY <3>2, <3>3, <3>4
  <2>3. CASE ~(first.cmd = CMDBUILTIN /\ n \in Regular)
    <3>1. Lookup(cmdtable, n, nofunc, alt, assign) = second
      BY <2>3 DEF Lookup
    <3> HIDE DEF after
    <3>2. CASE alt
      <4>1. act \cup {"DO_ERR"} = {"DO_NOFUNC", "DO_ERR"} /\ nofunc = TRUE
        BY <3>2
      <4>2. second = find_command(after, n, {"DO_NOFUNC", "DO_ERR"}, p, TRUE)
        BY <3>2, <4>1
      <4> QED BY <2>0, <2>1, <3>1, <4>1, <4>2, FindRightElsewhere, ZenonT(40)
    <3>3. CASE ~alt
      <4> DEFINE flags == act \cup {"DO_ERR"}
      <4>1. flags = IF nofunc THEN {"DO_NOFUNC", "DO_ERR"} ELSE {"DO_ERR"}
        OBVIOUS
      <4>2. p = q /\ second = find_command(after, n, flags, q, FALSE)
        BY <3>3 DEF SearchedPath
      <4>3. Runs(n, find_command(after, n, flags, q, FALSE).cmd, q) = Should(n, nofunc, q)
        <5> HIDE DEF q, flags
        <5> QED BY <2>0, <2>1, <4>1, FindRight, ZenonT(40)
      <4> QED BY <3>1, <4>2, <4>3
    <3> QED BY <3>2, <3>3
  <2> QED BY <2>2, <2>3
<1> QED BY <1>1, <1>2, <1>3, PTL DEF Spec
=============================================================================
