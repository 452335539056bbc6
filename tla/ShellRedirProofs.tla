-------------------------- MODULE ShellRedirProofs --------------------------
(***************************************************************************)
(* Theorems about the descriptors of ShellEval, for every nesting of       *)
(* constructs and every list of redirections: each descriptor is put back  *)
(* where the construct that redirected it ends, and none is left behind.   *)
(*                                                                         *)
(* Each descriptor from 10 on that is open is one that a table of          *)
(* redirections has saved or one that a script is read from, of one table  *)
(* or script only, and what closed_redirs names is closed.                 *)
(***************************************************************************)
EXTENDS ShellEvalProofs

High == {d \in Desc : d >= 10}
OnDescriptors == Files \cup {Scripts, NoFile}
SavedTable == [Fds -> {EMPTY, CLOSED} \cup High]
RdType == [list : Seq(SavedTable), closed : SUBSET Fds, ofile : [Desc -> OnDescriptors], ok : BOOLEAN]
FilesType == Seq({-1} \cup High)

InTables(l, x) == \E i \in 1..Len(l) : \E d \in Fds : l[i][d] = x
InFiles(fs, x) == \E j \in 1..Len(fs) : fs[j] = x
OneOwner(l, fs) ==
    /\ \A i, j \in 1..Len(l) : \A d, e \in Fds :
          l[i][d] = l[j][e] /\ l[i][d] \in High => i = j /\ d = e
    /\ \A i, j \in 1..Len(fs) : fs[i] = fs[j] /\ fs[i] \in High => i = j
    /\ \A i \in 1..Len(l) : \A d \in Fds : l[i][d] \in High => ~InFiles(fs, l[i][d])
RdGood(r, fs) ==
    /\ r \in RdType /\ fs \in FilesType
    /\ \A d \in r.closed : ~IsOpen(r, d)
    /\ \A x \in Desc \ Fds : IsOpen(r, x) <=> InTables(r.list, x) \/ InFiles(fs, x)
    /\ OneOwner(r.list, fs)

(* Two descriptors are left: for a file, and to save another one at.       *)
Room(r) == \E x, y \in High : x # y /\ ~IsOpen(r, x) /\ ~IsOpen(r, y)

LEMMA RdFields ==
  ASSUME NEW r \in RdType
  PROVE  /\ r = [list |-> r.list, closed |-> r.closed, ofile |-> r.ofile, ok |-> r.ok]
         /\ r.list \in Seq(SavedTable) /\ r.closed \in SUBSET Fds
         /\ r.ofile \in [Desc -> OnDescriptors] /\ r.ok \in BOOLEAN
         /\ DOMAIN r.list = 1..Len(r.list) /\ Len(r.list) \in Nat
         /\ \A i \in 1..Len(r.list) : r.list[i] \in SavedTable
         /\ \A i \in 1..Len(r.list), d \in Fds : r.list[i][d] \in {EMPTY, CLOSED} \cup High
  <1>1. r.list \in Seq(SavedTable)
    BY DEF RdType
  <1>2. DOMAIN r.list = 1..Len(r.list) /\ Len(r.list) \in Nat /\ \A i \in 1..Len(r.list) : r.list[i] \in SavedTable
    BY <1>1
  <1>3. \A t \in SavedTable, d \in Fds : t[d] \in {EMPTY, CLOSED} \cup High
    BY DEF SavedTable
  <1> QED
    BY <1>1, <1>2, <1>3 DEF RdType

LEMMA HighFacts ==
  /\ High \subseteq Desc \ Fds /\ High \subseteq Int /\ IsFiniteSet(High)
  /\ Fds \subseteq Desc /\ Desc \subseteq Int /\ IsFiniteSet(Fds)
  /\ \A x \in High : x >= 10 /\ x # EMPTY /\ x # CLOSED /\ x # -1
  /\ \A x \in Desc : 3 <= x /\ x # EMPTY /\ x # CLOSED /\ x # -1
  /\ EMPTY # CLOSED
  <1>1. /\ Fds \subseteq Desc /\ IsFiniteSet(Desc) /\ \A d \in Desc : d \in Nat /\ d >= 3
        /\ \A d \in Fds : d < 10
    BY DescFacts
  <1>2. Desc \subseteq Int /\ \A x \in Desc : 3 <= x /\ x # -2 /\ x # -1
    BY <1>1
  <1>3. IsFiniteSet(High) /\ IsFiniteSet(Fds)
    BY <1>1, FS_Subset DEF High
  <1>4. \A x \in High : x \in Desc /\ x >= 10
    BY DEF High
  <1>5. ASSUME NEW x \in High PROVE x \notin Fds /\ x \in Int /\ x # -1 /\ x # -2
    <2>1. x \in Int /\ x >= 10
      BY <1>1, <1>4
    <2>2. x \in Fds => x < 10
      BY <1>1
    <2> QED
      BY <2>1, <2>2
  <1>6. EMPTY = -2 /\ CLOSED = -1 /\ -2 # -1
    BY DEF EMPTY, CLOSED
  <1>7. \A x \in High : x >= 10 /\ x # EMPTY /\ x # CLOSED /\ x # -1
    BY <1>4, <1>5, <1>6
  <1>8. High \subseteq Desc \ Fds /\ High \subseteq Int
    BY <1>4, <1>5
  <1> QED
    BY <1>1, <1>2, <1>3, <1>6, <1>7, <1>8

LEMMA OnDescriptor ==
  /\ NoFile \in OnDescriptors /\ Scripts \in OnDescriptors /\ Files \subseteq OnDescriptors
  /\ Scripts # NoFile /\ NoFile \notin Files /\ KeepFd \notin OnDescriptors
  BY EvalAssumption, DescFacts DEF EvalAssumption, OnDescriptors

(* The lowest descriptor that is free. *)
LEMMA LowestFree ==
  ASSUME NEW r, NEW k \in Int, NEW x \in Desc, x >= k, ~IsOpen(r, x)
  PROVE  Lowest(r, k) \in Desc /\ Lowest(r, k) >= k /\ ~IsOpen(r, Lowest(r, k))
  <1> DEFINE S == {d \in Desc : d >= k /\ ~IsOpen(r, d)}
  <1>1. S \subseteq Int /\ (\A y \in S : k <= y) /\ S # {}
    BY HighFacts
  <1>2. Min(S) \in S
    <2> HIDE DEF S
    <2> QED
      BY <1>1, MinOf
  <1> QED
    BY <1>2 DEF Lowest

LEMMA RedirectionKinds ==
  ASSUME NEW n \in Redirection
  PROVE  /\ n.fd \in Fds
         /\ \/ n.type = "open" /\ n.file \in Files
            \/ n.type = "bad"
            \/ n.type = "close"
            \/ n.type = "dup" /\ n.dupfd \in Fds
  BY DEF Redirection

(* The functions of redir.c set an entry of the innermost table and the    *)
(* files of descriptors.                                                   *)
InTable(l, i, fd, p) == [l EXCEPT ![i][fd] = p]
TableSet(l, m, i, fd, p) ==
    /\ m \in Seq(SavedTable) /\ Len(m) = Len(l)
    /\ \A j \in 1..Len(l), d \in Fds : m[j][d] = IF j = i /\ d = fd THEN p ELSE l[j][d]
LEMMA PutTable ==
  ASSUME NEW l \in Seq(SavedTable), NEW i \in 1..Len(l), NEW fd \in Fds,
         NEW p \in {EMPTY, CLOSED} \cup High
  PROVE  TableSet(l, InTable(l, i, fd, p), i, fd, p)
  <1>0. PICK m : m = InTable(l, i, fd, p)
    OBVIOUS
  <1>1. PICK t : t = [l[i] EXCEPT ![fd] = p]
    OBVIOUS
  <1>2. l[i] \in SavedTable
    OBVIOUS
  <1>3. t \in SavedTable /\ \A d \in Fds : t[d] = IF d = fd THEN p ELSE l[i][d]
    BY <1>1, <1>2 DEF SavedTable
  <1>4. m = [l EXCEPT ![i] = t]
    BY <1>0, <1>1 DEF InTable
  <1>5. /\ m \in Seq(SavedTable) /\ Len(m) = Len(l)
        /\ \A j \in 1..Len(l) : m[j] = IF j = i THEN t ELSE l[j]
    BY <1>3, <1>4, Updated
  <1>6. ASSUME NEW j \in 1..Len(l), NEW d \in Fds PROVE m[j][d] = IF j = i /\ d = fd THEN p ELSE l[j][d]
    <2>1. CASE j = i
      BY <1>3, <1>5, <2>1
    <2>2. CASE j # i
      BY <1>5, <2>2
    <2> QED
      BY <2>1, <2>2
  <1> QED
    BY <1>0, <1>5, <1>6 DEF TableSet

(* What saving descriptor fd in the innermost table does: nothing, as it   *)
(* was saved or is not to be; or it was not open; or its file is moved.    *)
Keeps(r, q, fd) ==
    LET n == Len(r.list) IN
    /\ \A x \in Desc \ {fd} : q.ofile[x] = r.ofile[x]
    /\ q.list[n][fd] = r.list[n][fd]
NotesClosed(r, q, fd) ==
    LET n == Len(r.list) IN
    /\ \A x \in Desc \ {fd} : q.ofile[x] = r.ofile[x]
    /\ r.list[n][fd] = EMPTY /\ q.list[n][fd] = CLOSED /\ r.ofile[fd] = NoFile
SavesAt(r, q, fd, low) ==
    LET n == Len(r.list) IN
    /\ \A x \in Desc \ {fd, low} : q.ofile[x] = r.ofile[x]
    /\ r.list[n][fd] = EMPTY /\ q.list[n][fd] = low
    /\ r.ofile[fd] # NoFile /\ r.ofile[low] = NoFile /\ q.ofile[low] = r.ofile[fd]

(* What one redirection of fd makes of r.                                  *)
Redirects(r, q, fd) ==
    LET n == Len(r.list) IN
    /\ q \in RdType /\ Len(q.list) = n
    /\ \A i \in 1..n, d \in Fds : (i # n \/ d # fd) => q.list[i][d] = r.list[i][d]
    /\ \A d \in q.closed : ~IsOpen(q, d)
    /\ \/ Keeps(r, q, fd) /\ (r.list[n][fd] # EMPTY \/ q.ofile[fd] = r.ofile[fd])
       \/ NotesClosed(r, q, fd)
       \/ \E low \in High : SavesAt(r, q, fd, low)

PutAt(r, fd, p) == [r EXCEPT !.list[Len(r.list)][fd] = p]
PutFile(r, x, f) == [r EXCEPT !.ofile[x] = f]
ListSet(r, q, fd, p) ==
    /\ q \in RdType /\ q.ofile = r.ofile /\ q.closed = r.closed /\ (q.ok <=> r.ok)
    /\ Len(q.list) = Len(r.list) /\ q.list[Len(r.list)][fd] = p
    /\ \A i \in 1..Len(r.list), d \in Fds :
          (i # Len(r.list) \/ d # fd) => q.list[i][d] = r.list[i][d]
FileSet(r, q, x, f) ==
    /\ q \in RdType /\ q.list = r.list /\ q.closed = r.closed /\ (q.ok <=> r.ok)
    /\ q.ofile[x] = f /\ \A y \in Desc \ {x} : q.ofile[y] = r.ofile[y]

LEMMA SetList ==
  ASSUME NEW r \in RdType, Len(r.list) > 0, NEW fd \in Fds, NEW p \in {EMPTY, CLOSED} \cup High
  PROVE  ListSet(r, PutAt(r, fd, p), fd, p)
  <1>0. PICK q : q = PutAt(r, fd, p)
    OBVIOUS
  <1>1. PICK n \in 1..Len(r.list) : n = Len(r.list)
    BY RdFields
  <1>2. PICK m : m = InTable(r.list, n, fd, p)
    OBVIOUS
  <1>3. q = [r EXCEPT !.list = m]
    BY <1>0, <1>1, <1>2 DEF InTable, PutAt
  <1>4. /\ m \in Seq(SavedTable) /\ Len(m) = Len(r.list)
        /\ \A j \in 1..Len(r.list), d \in Fds : m[j][d] = IF j = n /\ d = fd THEN p ELSE r.list[j][d]
    <2>1. r.list \in Seq(SavedTable)
      BY RdFields
    <2>2. TableSet(r.list, m, n, fd, p)
      BY <1>2, <2>1, PutTable
    <2> QED
      BY <2>2 DEF TableSet
  <1>5. q = [list |-> m, closed |-> r.closed, ofile |-> r.ofile, ok |-> r.ok]
    BY <1>3, RdFields
  <1>6. q \in RdType
    BY <1>4, <1>5, RdFields DEF RdType
  <1>7. q.list = m /\ q.ofile = r.ofile /\ q.closed = r.closed /\ q.ok = r.ok
    BY <1>5
  <1> QED
    BY <1>0, <1>1, <1>4, <1>6, <1>7 DEF ListSet

LEMMA SetFile ==
  ASSUME NEW r \in RdType, NEW x \in Desc, NEW f \in OnDescriptors
  PROVE  FileSet(r, PutFile(r, x, f), x, f)
  <1>0. PICK q : q = PutFile(r, x, f)
    OBVIOUS
  <1>1. PICK o : o = [r.ofile EXCEPT ![x] = f]
    OBVIOUS
  <1>2. q = [r EXCEPT !.ofile = o]
    BY <1>0, <1>1 DEF PutFile
  <1>3. /\ r.ofile \in [Desc -> OnDescriptors]
        /\ r = [list |-> r.list, closed |-> r.closed, ofile |-> r.ofile, ok |-> r.ok]
    BY RdFields
  <1>4. o \in [Desc -> OnDescriptors] /\ o[x] = f /\ \A y \in Desc \ {x} : o[y] = r.ofile[y]
    BY <1>1, <1>3
  <1>5. q = [list |-> r.list, closed |-> r.closed, ofile |-> o, ok |-> r.ok]
    BY <1>2, <1>3
  <1>6. q \in RdType
    BY <1>4, <1>5, RdFields DEF RdType
  <1> QED
    BY <1>0, <1>4, <1>5, <1>6 DEF FileSet

(* Where the innermost table leaves descriptor fd of o. *)
Put(o, fd, save) ==
    LET top == Len(o.list) IN
    IF save THEN [savefd(o, fd) EXCEPT !.list[top][fd] = Lowest(o, 10)]
    ELSE IF o.list[top][fd] = EMPTY THEN [o EXCEPT !.list[top][fd] = CLOSED]
    ELSE o
IsPut(o, s, fd, save) ==
    LET n == Len(o.list) IN
    /\ s \in RdType /\ s.closed = o.closed /\ (s.ok <=> o.ok) /\ Len(s.list) = n
    /\ \A i \in 1..n, d \in Fds : (i # n \/ d # fd) => s.list[i][d] = o.list[i][d]
    /\ \/ ~save /\ o.list[n][fd] # EMPTY /\ s = o
       \/ ~save /\ o.list[n][fd] = EMPTY /\ s.list[n][fd] = CLOSED /\ s.ofile = o.ofile
       \/ save /\ \E low \in High : SavesAt(o, s, fd, low)
LEMMA PutOne ==
  ASSUME NEW o \in RdType, Len(o.list) > 0, NEW fd \in Fds, NEW save \in BOOLEAN,
         save => o.list[Len(o.list)][fd] = EMPTY /\ IsOpen(o, fd),
         \E x \in High : ~IsOpen(o, x), NEW s, s = Put(o, fd, save)
  PROVE  IsPut(o, s, fd, save)
  <1>1. CASE save
    <2>1. PICK x \in High : ~IsOpen(o, x)
      OBVIOUS
    <2>2. x \in Desc /\ x >= 10 /\ fd \in Desc
      BY HighFacts
    <2>3. PICK low : low = Lowest(o, 10)
      OBVIOUS
    <2>4. low \in Desc /\ low >= 10 /\ ~IsOpen(o, low)
      BY <2>1, <2>2, <2>3, LowestFree
    <2>5. low \in High
      BY <2>4 DEF High
    <2>6. low \in Desc \ {fd} /\ fd \in Desc \ {low}
      BY <2>4, <2>5, HighFacts
    <2>7. PICK p : p = savefd(o, fd)
      OBVIOUS
    <2>0. PICK a : a = PutFile(o, low, o.ofile[fd])
      OBVIOUS
    <2>8. p = PutFile(a, fd, NoFile)
      BY <2>0, <2>3, <2>7 DEF savefd, PutFile
    <2>9. o.ofile[fd] \in OnDescriptors /\ NoFile \in OnDescriptors
      BY <2>6, RdFields, OnDescriptor
    <2>10. /\ p \in RdType /\ p.list = o.list /\ p.closed = o.closed /\ (p.ok <=> o.ok)
           /\ p.ofile[low] = o.ofile[fd] /\ p.ofile[fd] = NoFile
           /\ \A y \in Desc \ {low, fd} : p.ofile[y] = o.ofile[y]
      <3>1. FileSet(o, a, low, o.ofile[fd])
        BY <2>0, <2>6, <2>9, SetFile
      <3>2. a \in RdType
        BY <3>1 DEF FileSet
      <3>3. FileSet(a, p, fd, NoFile)
        BY <2>6, <2>8, <2>9, <3>2, SetFile
      <3> QED
        BY <2>6, <3>1, <3>3 DEF FileSet
    <2>11. s = PutAt(p, fd, low)
      BY <1>1, <2>3, <2>7, <2>10 DEF Put, PutAt
    <2>12. ListSet(p, s, fd, low)
      BY <2>5, <2>10, <2>11, SetList
    <2>13. o.ofile[low] = NoFile /\ o.ofile[fd] # NoFile
      BY <1>1, <2>4 DEF IsOpen
    <2> DEFINE n == Len(o.list)
    <2>15. /\ s \in RdType /\ s.ofile = p.ofile /\ s.closed = o.closed /\ (s.ok <=> o.ok)
           /\ Len(s.list) = n /\ s.list[n][fd] = low
           /\ \A i \in 1..n, d \in Fds : (i # n \/ d # fd) => s.list[i][d] = o.list[i][d]
      BY <2>10, <2>12 DEF ListSet
    <2>14. SavesAt(o, s, fd, low)
      <3>1. \A y \in Desc \ {fd, low} : s.ofile[y] = o.ofile[y]
        BY <2>10, <2>15
      <3>2. o.list[n][fd] = EMPTY /\ s.list[n][fd] = low /\ s.ofile[low] = o.ofile[fd]
        BY <1>1, <2>10, <2>15
      <3> QED
        BY <2>13, <3>1, <3>2 DEF SavesAt
    <2> QED
      BY <1>1, <2>5, <2>14, <2>15 DEF IsPut
  <1>2. CASE ~save /\ o.list[Len(o.list)][fd] = EMPTY
    <2>1. s = PutAt(o, fd, CLOSED)
      BY <1>2 DEF Put, PutAt
    <2>2. ListSet(o, s, fd, CLOSED)
      BY <2>1, SetList
    <2> QED
      BY <1>2, <2>2 DEF ListSet, IsPut
  <1>3. CASE ~save /\ o.list[Len(o.list)][fd] # EMPTY
    <2>1. s = o
      BY <1>3 DEF Put
    <2> QED
      BY <1>3, <2>1 DEF IsPut
  <1> QED
    BY <1>1, <1>2, <1>3

(* From r, with a file opened at a descriptor of W for a while, to q.      *)
LEMMA PutThen ==
  ASSUME NEW r \in RdType, NEW o \in RdType, NEW s, NEW q \in RdType, Len(r.list) > 0,
         NEW fd \in Fds, NEW save \in BOOLEAN, NEW W, fd \notin W,
         o.list = r.list, IsPut(o, s, fd, save), q.list = s.list,
         o.ofile[fd] = r.ofile[fd],
         ~save /\ r.list[Len(r.list)][fd] = EMPTY => r.ofile[fd] = NoFile,
         \A x \in Desc \ {fd} :
            IF x \in W THEN q.ofile[x] = r.ofile[x] /\ o.ofile[x] # NoFile
            ELSE o.ofile[x] = r.ofile[x] /\ q.ofile[x] = s.ofile[x],
         \A d \in r.closed : ~IsOpen(r, d),
         \A d \in q.closed : IF d = fd THEN q.ofile[fd] = NoFile ELSE d \in r.closed
  PROVE  Redirects(r, q, fd)
  <1> DEFINE n == Len(r.list)
  <1>1. n > 0 /\ n \in Nat /\ fd \in Desc
    BY RdFields, HighFacts
  <1>2. /\ s \in RdType /\ Len(q.list) = n
        /\ \A i \in 1..n, d \in Fds : (i # n \/ d # fd) => q.list[i][d] = r.list[i][d]
    BY DEF IsPut
  <1>3. \/ ~save /\ r.list[n][fd] # EMPTY /\ s = o
        \/ ~save /\ r.list[n][fd] = EMPTY /\ q.list[n][fd] = CLOSED /\ s.ofile = o.ofile
        \/ save /\ \E low \in High : SavesAt(o, s, fd, low)
    BY DEF IsPut
  <1> HIDE DEF n
  <1>4. /\ \/ Keeps(r, q, fd) /\ r.list[n][fd] # EMPTY
           \/ NotesClosed(r, q, fd)
           \/ \E low \in High : SavesAt(r, q, fd, low)
        /\ \A d \in Fds \ {fd} : q.ofile[d] = r.ofile[d]
    <2>1. CASE ~save /\ r.list[n][fd] # EMPTY /\ s = o
      <3>1. \A x \in Desc \ {fd} : q.ofile[x] = r.ofile[x]
        BY <2>1
      <3>2. Keeps(r, q, fd)
        BY <2>1, <3>1 DEF Keeps, n
      <3>3. Fds \subseteq Desc
        BY HighFacts
      <3> QED
        BY <2>1, <3>1, <3>2, <3>3
    <2>2. CASE ~save /\ r.list[n][fd] = EMPTY /\ q.list[n][fd] = CLOSED /\ s.ofile = o.ofile
      <3>1. \A x \in Desc \ {fd} : q.ofile[x] = r.ofile[x]
        BY <2>2
      <3>2. NotesClosed(r, q, fd)
        BY <2>2, <3>1 DEF NotesClosed, n
      <3>3. Fds \subseteq Desc
        BY HighFacts
      <3> QED
        BY <3>1, <3>2, <3>3
    <2>3. CASE save /\ \E low \in High : SavesAt(o, s, fd, low)
      <3>1. PICK low \in High : SavesAt(o, s, fd, low)
        BY <2>3
      <3>2. /\ \A x \in Desc \ {fd, low} : s.ofile[x] = o.ofile[x]
            /\ r.list[n][fd] = EMPTY /\ q.list[n][fd] = low
            /\ o.ofile[fd] # NoFile /\ o.ofile[low] = NoFile /\ s.ofile[low] = o.ofile[fd]
        BY <3>1 DEF SavesAt, n
      <3>3. low \in Desc \ {fd} /\ Fds \subseteq Desc /\ low \notin Fds
        BY HighFacts
      <3>4. low \notin W /\ r.ofile[low] = NoFile /\ q.ofile[low] = r.ofile[fd] /\ r.ofile[fd] # NoFile
        BY <3>2, <3>3
      <3>5. \A x \in Desc \ {fd, low} : q.ofile[x] = r.ofile[x]
        BY <3>2
      <3>6. SavesAt(r, q, fd, low)
        BY <3>2, <3>4, <3>5 DEF SavesAt, n
      <3> QED
        BY <3>3, <3>5, <3>6
    <2> QED
      BY <1>3, <2>1, <2>2, <2>3
  <1>5. \A d \in q.closed : ~IsOpen(q, d)
    <2>1. q.closed \subseteq Fds
      BY RdFields
    <2> QED
      BY <1>4, <2>1 DEF IsOpen
  <1> QED
    BY <1>2, <1>4, <1>5 DEF Redirects, n

(* r with another set of closed descriptors, or another ok. *)
LEMMA SetClosed ==
  ASSUME NEW r \in RdType, NEW c \in SUBSET Fds, NEW q, q = [r EXCEPT !.closed = c]
  PROVE  q \in RdType /\ q.list = r.list /\ q.closed = c /\ q.ofile = r.ofile /\ q.ok = r.ok
  <1>1. q = [list |-> r.list, closed |-> c, ofile |-> r.ofile, ok |-> r.ok]
    BY RdFields
  <1> QED
    BY <1>1, RdFields DEF RdType

LEMMA SetOk ==
  ASSUME NEW r \in RdType, NEW b \in BOOLEAN, NEW q, q = [r EXCEPT !.ok = b]
  PROVE  q \in RdType /\ q.list = r.list /\ q.closed = r.closed /\ q.ofile = r.ofile /\ q.ok = b
  <1>1. q = [list |-> r.list, closed |-> r.closed, ofile |-> r.ofile, ok |-> b]
    BY RdFields
  <1> QED
    BY <1>1, RdFields DEF RdType

LEMMA NothingRedirected ==
  ASSUME NEW r \in RdType, NEW q \in RdType, NEW fd \in Fds, \A d \in r.closed : ~IsOpen(r, d),
         q.list = r.list, q.closed = r.closed, q.ofile = r.ofile
  PROVE  Redirects(r, q, fd)
  <1>1. Keeps(r, q, fd) /\ \A d \in q.closed : ~IsOpen(q, d)
    BY DEF Keeps, IsOpen
  <1> QED
    BY <1>1 DEF Redirects

(* r that can take one more redirection. *)
Ready(r) == r \in RdType /\ Len(r.list) > 0 /\ (\A d \in r.closed : ~IsOpen(r, d)) /\ Room(r)

(* The parts of Redirect1: newfd is to become n.fd, and o is r with what   *)
(* openredirect() and update_closed_redirs() have done.                    *)
Begins(r, n, newfd, o) ==
    /\ n.type # "bad" /\ newfd = Newfd(r, n) /\ newfd # -2
    /\ o = [Opened(r, n) EXCEPT !.closed = NoteClosed(@, n.fd, newfd)] /\ o.list = r.list
LEMMA Parts ==
  ASSUME NEW r, NEW n, NEW newfd, NEW o, Begins(r, n, newfd, o),
         NEW save \in BOOLEAN, save <=> Saves(r, n, newfd) /\ IsOpen(o, n.fd)
  PROVE  Redirect1(r, n) = IF n.fd = newfd THEN Put(o, n.fd, save)
                           ELSE dupredirect(Put(o, n.fd, save), n, newfd)
  <1>0. /\ n.type # "bad" /\ newfd = Newfd(r, n) /\ newfd # -2
        /\ o = [Opened(r, n) EXCEPT !.closed = NoteClosed(@, n.fd, newfd)] /\ o.list = r.list
    BY DEF Begins
  <1>1. PICK s : s = Put(o, n.fd, save)
    OBVIOUS
  <1>2. s = IF Saves(r, n, newfd) /\ IsOpen(o, n.fd)
            THEN [savefd(o, n.fd) EXCEPT !.list[Len(r.list)][n.fd] = Lowest(o, 10)]
            ELSE IF r.list[Len(r.list)][n.fd] = EMPTY
            THEN [o EXCEPT !.list[Len(r.list)][n.fd] = CLOSED]
            ELSE o
    <2>1. CASE save
      BY <1>0, <1>1, <2>1 DEF Put
    <2>2. CASE ~save
      BY <1>0, <1>1, <2>2 DEF Put
    <2> QED
      BY <2>1, <2>2
  <1>3. Redirect1(r, n) = IF n.fd = newfd THEN s ELSE dupredirect(s, n, newfd)
    <2>1. n.type # "bad" /\ newfd = Newfd(r, n) /\ newfd # -2
      BY <1>0
    <2>2. o = [Opened(r, n) EXCEPT !.closed = NoteClosed(@, n.fd, newfd)]
      BY <1>0
    <2> QED
      BY <1>2, <2>1, <2>2 DEF Redirect1
  <1> QED
    BY <1>1, <1>3

LEMMA CloseOne ==
  ASSUME NEW r, Ready(r), NEW n \in Redirection, n.type = "close"
  PROVE  Redirects(r, Redirect1(r, n), n.fd)
  <1>0. PICK fd \in Fds : fd = n.fd
    BY RedirectionKinds
  <1>1. r \in RdType /\ Len(r.list) > 0 /\ (\A d \in r.closed : ~IsOpen(r, d)) /\ Room(r)
    BY DEF Ready
  <1>2. PICK c \in SUBSET Fds : c = r.closed \cup {fd}
    BY <1>1, RdFields
  <1>3. PICK o : o = [r EXCEPT !.closed = c]
    OBVIOUS
  <1>4. o \in RdType /\ o.list = r.list /\ o.closed = c /\ o.ofile = r.ofile /\ o.ok = r.ok
    <2>1. r \in RdType
      BY <1>1
    <2> QED
      BY <1>3, <2>1, SetClosed
  <1>5. Newfd(r, n) = -1 /\ Opened(r, n) = r /\ fd # -1 /\ NoteClosed(r.closed, fd, -1) = c
    BY <1>0, <1>2, HighFacts DEF Newfd, Opened, NoteClosed
  <1>6. PICK save \in BOOLEAN : save <=> Saves(r, n, -1) /\ IsOpen(o, fd)
    OBVIOUS
  <1>7. PICK s : s = Put(o, fd, save)
    OBVIOUS
  <1>8. PICK q : q = Redirect1(r, n)
    OBVIOUS
  <1>9. Begins(r, n, -1, o)
    BY <1>0, <1>3, <1>4, <1>5 DEF Begins
  <1>10. q = IF fd = -1 THEN s ELSE dupredirect(s, n, -1)
    BY <1>0, <1>6, <1>7, <1>8, <1>9, Parts
  <1>11. q = PutFile(s, fd, NoFile)
    BY <1>0, <1>5, <1>10 DEF dupredirect, PutFile
  <1>12. save => r.list[Len(r.list)][fd] = EMPTY /\ IsOpen(o, fd)
    BY <1>0, <1>6 DEF Saves
  <1>13. IsPut(o, s, fd, save)
    <2>1. \E x \in High : ~IsOpen(o, x)
      BY <1>1, <1>4 DEF Room, IsOpen
    <2> QED
      BY <1>1, <1>4, <1>7, <1>12, <2>1, PutOne
  <1>14. /\ q \in RdType /\ q.list = s.list /\ q.closed = c /\ q.ofile[fd] = NoFile
         /\ \A x \in Desc \ {fd} : q.ofile[x] = s.ofile[x]
    <2>1. FileSet(s, q, fd, NoFile)
      <3>1. s \in RdType /\ fd \in Desc /\ NoFile \in OnDescriptors
        BY <1>13, HighFacts, OnDescriptor DEF IsPut
      <3> QED
        BY <1>11, <3>1, SetFile
    <2> QED
      BY <1>4, <1>13, <2>1 DEF FileSet, IsPut
  <1>15. ~save /\ r.list[Len(r.list)][fd] = EMPTY => r.ofile[fd] = NoFile
    BY <1>0, <1>1, <1>4, <1>5, <1>6 DEF Saves, IsOpen
  <1>16. Redirects(r, q, fd)
    <2> DEFINE W == {}
    <2>1. /\ fd \notin W
          /\ \A x \in Desc \ {fd} :
                IF x \in W THEN q.ofile[x] = r.ofile[x] /\ o.ofile[x] # NoFile
                ELSE o.ofile[x] = r.ofile[x] /\ q.ofile[x] = s.ofile[x]
      BY <1>4, <1>14
    <2>2. \A d \in q.closed : IF d = fd THEN q.ofile[fd] = NoFile ELSE d \in r.closed
      BY <1>2, <1>14
    <2> HIDE DEF W
    <2> QED
      BY <1>1, <1>4, <1>13, <1>14, <1>15, <2>1, <2>2, PutThen, SMTT(20)
  <1> QED
    BY <1>0, <1>8, <1>16

LEMMA DupOne ==
  ASSUME NEW r, Ready(r), NEW n \in Redirection, n.type = "dup"
  PROVE  Redirects(r, Redirect1(r, n), n.fd)
  <1>0. PICK fd \in Fds, newfd \in Fds : fd = n.fd /\ newfd = n.dupfd
    BY RedirectionKinds
  <1>1. r \in RdType /\ Len(r.list) > 0 /\ (\A d \in r.closed : ~IsOpen(r, d)) /\ Room(r)
    BY DEF Ready
  <1>8. PICK q : q = Redirect1(r, n)
    OBVIOUS
  <1>a. CASE newfd = fd
    <2>1. q = r
      BY <1>0, <1>8, <1>a DEF Redirect1, Newfd
    <2> QED
      BY <1>0, <1>1, <1>8, <2>1, NothingRedirected
  <1>b. CASE newfd # fd
    <2>2. PICK c \in SUBSET Fds : c = r.closed \ {fd}
      BY <1>1, RdFields
    <2>3. PICK o : o = [r EXCEPT !.closed = c]
      OBVIOUS
    <2>4. o \in RdType /\ o.list = r.list /\ o.closed = c /\ o.ofile = r.ofile /\ o.ok = r.ok
      <3>1. r \in RdType
        BY <1>1
      <3> QED
        BY <2>3, <3>1, SetClosed
    <2>5. Newfd(r, n) = newfd /\ Opened(r, n) = r /\ newfd # -2 /\ NoteClosed(r.closed, fd, newfd) = c
      <3>1. newfd \in Int /\ newfd >= 3
        BY HighFacts
      <3> QED
        BY <1>0, <1>b, <2>2, <3>1 DEF Newfd, Opened, NoteClosed
    <2>6. PICK save \in BOOLEAN : save <=> Saves(r, n, newfd) /\ IsOpen(o, fd)
      OBVIOUS
    <2>7. PICK s : s = Put(o, fd, save)
      OBVIOUS
    <2>9. Begins(r, n, newfd, o)
      BY <1>0, <2>3, <2>4, <2>5 DEF Begins
    <2>10. q = IF fd = newfd THEN s ELSE dupredirect(s, n, newfd)
      BY <1>0, <1>8, <2>6, <2>7, <2>9, Parts
    <2>11. q = IF IsOpen(s, newfd) THEN PutFile(s, fd, s.ofile[newfd]) ELSE [s EXCEPT !.ok = FALSE]
      BY <1>0, <1>b, <2>10 DEF dupredirect, PutFile
    <2>12. save => r.list[Len(r.list)][fd] = EMPTY /\ IsOpen(o, fd)
      BY <1>0, <2>6 DEF Saves
    <2>13. IsPut(o, s, fd, save)
      <3>1. \E x \in High : ~IsOpen(o, x)
        BY <1>1, <2>4 DEF Room, IsOpen
      <3> QED
        BY <1>1, <2>4, <2>7, <2>12, <3>1, PutOne
    <2>14. /\ q \in RdType /\ q.list = s.list /\ q.closed = c
           /\ \A x \in Desc \ {fd} : q.ofile[x] = s.ofile[x]
      <3>1. s \in RdType /\ fd \in Desc /\ newfd \in Desc /\ s.closed = c
        BY <2>4, <2>13, HighFacts DEF IsPut
      <3>2. s.ofile[newfd] \in OnDescriptors
        BY <3>1, RdFields
      <3>3. CASE IsOpen(s, newfd)
        <4>1. FileSet(s, q, fd, s.ofile[newfd])
          BY <2>11, <3>1, <3>2, <3>3, SetFile
        <4> QED
          BY <3>1, <4>1 DEF FileSet
      <3>4. CASE ~IsOpen(s, newfd)
        BY <2>11, <3>1, <3>4, SetOk
      <3> QED
        BY <3>3, <3>4
    <2>15. ~save /\ r.list[Len(r.list)][fd] = EMPTY => r.ofile[fd] = NoFile
      BY <1>0, <1>1, <1>b, <2>4, <2>6 DEF Saves, IsOpen
    <2>16. Redirects(r, q, fd)
      <3> DEFINE W == {}
      <3>1. /\ fd \notin W
            /\ \A x \in Desc \ {fd} :
                  IF x \in W THEN q.ofile[x] = r.ofile[x] /\ o.ofile[x] # NoFile
                  ELSE o.ofile[x] = r.ofile[x] /\ q.ofile[x] = s.ofile[x]
        BY <2>4, <2>14
      <3>2. \A d \in q.closed : IF d = fd THEN q.ofile[fd] = NoFile ELSE d \in r.closed
        BY <2>2, <2>14
      <3> HIDE DEF W
      <3> QED
        BY <1>1, <2>4, <2>13, <2>14, <2>15, <3>1, <3>2, PutThen, ZenonT(40)
    <2> QED
      BY <1>0, <1>8, <2>16
  <1> QED
    BY <1>a, <1>b

LEMMA OpenOne ==
  ASSUME NEW r, Ready(r), NEW n \in Redirection, n.type = "open"
  PROVE  Redirects(r, Redirect1(r, n), n.fd)
  <1>0. PICK fd \in Fds : fd = n.fd /\ n.file \in Files
    BY RedirectionKinds
  <1>1. r \in RdType /\ Len(r.list) > 0 /\ (\A d \in r.closed : ~IsOpen(r, d)) /\ Room(r)
    BY DEF Ready
  <1>2. PICK newfd : newfd = Lowest(r, 3)
    OBVIOUS
  <1>3. newfd \in Desc /\ newfd >= 3 /\ ~IsOpen(r, newfd) /\ newfd \in Int
    <2>1. PICK x \in High : ~IsOpen(r, x)
      BY <1>1 DEF Room
    <2>2. x \in Desc /\ x >= 3 /\ 3 \in Int
      BY HighFacts
    <2> QED
      BY <1>2, <2>1, <2>2, LowestFree, HighFacts
  <1>4. PICK a : a = PutFile(r, newfd, n.file)
    OBVIOUS
  <1>5. /\ a \in RdType /\ a.list = r.list /\ a.closed = r.closed /\ a.ofile[newfd] = n.file
        /\ \A x \in Desc \ {newfd} : a.ofile[x] = r.ofile[x]
    <2>1. FileSet(r, a, newfd, n.file)
      BY <1>0, <1>1, <1>3, <1>4, SetFile, OnDescriptor
    <2> QED
      BY <2>1 DEF FileSet
  <1>6. PICK c \in SUBSET Fds : c = r.closed \ {fd}
    BY <1>1, RdFields
  <1>7. PICK o : o = [a EXCEPT !.closed = c]
    OBVIOUS
  <1>8. o \in RdType /\ o.list = a.list /\ o.closed = c /\ o.ofile = a.ofile
    <2>1. a \in RdType
      BY <1>5
    <2> QED
      BY <1>7, <2>1, SetClosed
  <1>9. PICK q : q = Redirect1(r, n)
    OBVIOUS
  <1>10. PICK save \in BOOLEAN : save <=> Saves(r, n, newfd) /\ IsOpen(o, fd)
    OBVIOUS
  <1>11. PICK s : s = Put(o, fd, save)
    OBVIOUS
  <1>12. Begins(r, n, newfd, o)
    <2>1. Newfd(r, n) = newfd /\ Opened(r, n) = a /\ newfd # -2
      BY <1>2, <1>3, <1>4 DEF Newfd, Opened, PutFile
    <2>2. NoteClosed(a.closed, n.fd, newfd) = c
      BY <1>0, <1>3, <1>5, <1>6 DEF NoteClosed
    <2> QED
      BY <1>5, <1>7, <1>8, <2>1, <2>2 DEF Begins
  <1>13. q = IF fd = newfd THEN s ELSE dupredirect(s, n, newfd)
    BY <1>0, <1>9, <1>10, <1>11, <1>12, Parts
  <1>14. save => fd # newfd /\ r.list[Len(r.list)][fd] = EMPTY /\ IsOpen(o, fd)
    BY <1>0, <1>10 DEF Saves
  <1>15. IsPut(o, s, fd, save)
    <2>1. \E x \in High : ~IsOpen(o, x)
      <3>1. PICK x, y \in High : x # y /\ ~IsOpen(r, x) /\ ~IsOpen(r, y)
        BY <1>1 DEF Room
      <3>2. x \in Desc /\ y \in Desc /\ (x # newfd \/ y # newfd)
        BY <3>1, HighFacts
      <3> QED
        BY <1>5, <1>8, <3>1, <3>2 DEF IsOpen
    <2> QED
      BY <1>1, <1>5, <1>8, <1>11, <1>14, <2>1, PutOne
  <1>16. n.file # NoFile /\ fd \in Desc /\ NoFile \in OnDescriptors
    BY <1>0, OnDescriptor, HighFacts
  <1>a. CASE fd = newfd
    <2>1. ~save /\ q = s
      BY <1>13, <1>14, <1>a
    <2>2. q \in RdType /\ q.closed = c /\ q.ofile = o.ofile
      BY <1>8, <1>15, <2>1 DEF IsPut
    <2>3. \A x \in Desc \ {fd} : q.ofile[x] = r.ofile[x]
      BY <1>5, <1>8, <1>a, <2>2
    <2>4. \A d \in q.closed : ~IsOpen(q, d)
      <3>1. \A d \in q.closed : d \in Desc \ {fd} /\ d \in r.closed
        BY <1>6, <2>2, HighFacts
      <3> QED
        BY <1>1, <2>3, <3>1 DEF IsOpen
    <2>5. /\ Len(q.list) = Len(r.list)
          /\ \A i \in 1..Len(r.list), d \in Fds :
                (i # Len(r.list) \/ d # fd) => q.list[i][d] = r.list[i][d]
      BY <1>5, <1>8, <1>15, <2>1 DEF IsPut
    <2>6. CASE r.list[Len(r.list)][fd] # EMPTY
      <3>1. q.list[Len(r.list)][fd] = r.list[Len(r.list)][fd]
        BY <1>5, <1>8, <1>15, <2>1, <2>6 DEF IsPut
      <3>2. Keeps(r, q, fd)
        BY <2>3, <3>1 DEF Keeps
      <3> QED
        BY <1>0, <1>9, <2>2, <2>4, <2>5, <2>6, <3>2 DEF Redirects
    <2>7. CASE r.list[Len(r.list)][fd] = EMPTY
      <3>1. q.list[Len(r.list)][fd] = CLOSED
        BY <1>5, <1>8, <1>15, <2>1, <2>7 DEF IsPut
      <3>2. NotesClosed(r, q, fd)
        BY <1>3, <1>a, <2>3, <2>7, <3>1 DEF NotesClosed, IsOpen
      <3> QED
        BY <1>0, <1>9, <2>2, <2>4, <2>5, <3>2 DEF Redirects
    <2> QED
      BY <2>6, <2>7
  <1>b. CASE fd # newfd
    <2>1. PICK b : b = PutFile(s, fd, s.ofile[newfd])
      OBVIOUS
    <2>2. q = PutFile(b, newfd, NoFile)
      BY <1>0, <1>13, <1>b, <2>1 DEF dupredirect, PutFile
    <2>3. FileSet(s, b, fd, s.ofile[newfd]) /\ FileSet(b, q, newfd, NoFile)
      <3>1. s \in RdType /\ s.ofile[newfd] \in OnDescriptors
        BY <1>3, <1>15, RdFields DEF IsPut
      <3>2. FileSet(s, b, fd, s.ofile[newfd])
        BY <1>16, <2>1, <3>1, SetFile
      <3>3. b \in RdType
        BY <3>2 DEF FileSet
      <3> QED
        BY <1>3, <1>16, <2>2, <3>2, <3>3, SetFile
    <2>4. /\ q \in RdType /\ q.list = s.list /\ q.closed = c /\ q.ofile[newfd] = NoFile
          /\ \A x \in Desc \ {fd, newfd} : q.ofile[x] = s.ofile[x]
      BY <1>8, <1>15, <2>3 DEF FileSet, IsPut
    <2>5. o.ofile[fd] = r.ofile[fd] /\ o.list = r.list
      BY <1>5, <1>8, <1>16, <1>b
    <2>6. ~save /\ r.list[Len(r.list)][fd] = EMPTY => r.ofile[fd] = NoFile
      BY <1>0, <1>1, <1>b, <1>10, <2>5 DEF Saves, IsOpen
    <2>7. Redirects(r, q, fd)
      <3> DEFINE W == {newfd}
      <3>1. /\ fd \notin W
            /\ \A x \in Desc \ {fd} :
                  IF x \in W THEN q.ofile[x] = r.ofile[x] /\ o.ofile[x] # NoFile
                  ELSE o.ofile[x] = r.ofile[x] /\ q.ofile[x] = s.ofile[x]
        BY <1>3, <1>5, <1>8, <1>16, <1>b, <2>4 DEF IsOpen
      <3>2. \A d \in q.closed : IF d = fd THEN q.ofile[fd] = NoFile ELSE d \in r.closed
        BY <1>6, <2>4
      <3> HIDE DEF W
      <3> QED
        BY <1>1, <1>8, <1>15, <2>4, <2>5, <2>6, <3>1, <3>2, PutThen, SMTT(20)
    <2> QED
      BY <1>0, <1>9, <2>7
  <1> QED
    BY <1>a, <1>b

(* One redirection, of a command whose table is the innermost.             *)
LEMMA RedirectOne ==
  ASSUME NEW r, Ready(r), NEW n \in Redirection
  PROVE  Redirects(r, Redirect1(r, n), n.fd) /\ n.fd \in Fds
  <1>1. n.fd \in Fds /\ n.type \in {"open", "bad", "close", "dup"}
    BY RedirectionKinds
  <1>2. CASE n.type = "bad"
    <2>1. r \in RdType /\ \A d \in r.closed : ~IsOpen(r, d)
      BY DEF Ready
    <2>2. PICK q : q = [r EXCEPT !.ok = FALSE]
      OBVIOUS
    <2>3. Redirect1(r, n) = q
      BY <1>2, <2>2 DEF Redirect1
    <2>4. q \in RdType /\ q.list = r.list /\ q.closed = r.closed /\ q.ofile = r.ofile
      BY <2>1, <2>2, SetOk
    <2>5. Redirects(r, q, n.fd)
      BY <1>1, <2>1, <2>4, NothingRedirected
    <2> QED
      BY <1>1, <2>3, <2>5
  <1> QED
    BY <1>1, <1>2, OpenOne, CloseOne, DupOne

-----------------------------------------------------------------------------
(* The scopes of redirections: what a table has saved of a descriptor.     *)

SavedFor(r, x) == CASE x = EMPTY -> KeepFd [] x = CLOSED -> NoFile [] OTHER -> r.ofile[x]
InScope(r, i, d) == SavedFor(r, r.list[i][d])

LEMMA GoodFields ==
  ASSUME NEW r, NEW fs, RdGood(r, fs)
  PROVE  /\ r \in RdType /\ fs \in FilesType /\ Len(r.list) \in Nat /\ Len(fs) \in Nat
         /\ \A d \in r.closed : ~IsOpen(r, d)
         /\ \A x \in High : IsOpen(r, x) <=> InTables(r.list, x) \/ InFiles(fs, x)
         /\ \A i \in 1..Len(r.list), d \in Fds : r.list[i][d] \in {EMPTY, CLOSED} \cup High
         /\ \A i \in 1..Len(r.list), d \in Fds : r.list[i][d] \in High => IsOpen(r, r.list[i][d])
         /\ \A j \in 1..Len(fs) : fs[j] \in {-1} \cup High
  <1>1. r \in RdType /\ fs \in FilesType /\ \A d \in r.closed : ~IsOpen(r, d)
    BY DEF RdGood
  <1>2. \A x \in High : IsOpen(r, x) <=> InTables(r.list, x) \/ InFiles(fs, x)
    BY HighFacts DEF RdGood
  <1>3. \A i \in 1..Len(r.list), d \in Fds : r.list[i][d] \in {EMPTY, CLOSED} \cup High
    BY <1>1, RdFields
  <1>4. \A i \in 1..Len(r.list), d \in Fds : r.list[i][d] \in High => IsOpen(r, r.list[i][d])
    BY <1>2 DEF InTables
  <1>5. Len(fs) \in Nat /\ \A j \in 1..Len(fs) : fs[j] \in {-1} \cup High
    BY <1>1 DEF FilesType
  <1> QED
    BY <1>1, <1>2, <1>3, <1>4, <1>5, RdFields

LEMMA SavedKinds ==
  ASSUME NEW r \in RdType, NEW p \in {EMPTY, CLOSED} \cup High
  PROVE  /\ p = EMPTY => SavedFor(r, p) = KeepFd
         /\ p = CLOSED => SavedFor(r, p) = NoFile
         /\ p \in High => SavedFor(r, p) = r.ofile[p]
         /\ SavedFor(r, p) = KeepFd <=> p = EMPTY
         /\ p # EMPTY => SavedFor(r, p) \in OnDescriptors
  <1>1. EMPTY # CLOSED /\ \A x \in High : x # EMPTY /\ x # CLOSED /\ x \in Desc
    BY HighFacts
  <1>2. p \in High => r.ofile[p] \in OnDescriptors
    BY <1>1, RdFields
  <1> QED
    BY <1>1, <1>2, OnDescriptor DEF SavedFor

(* A table changes in one entry, which was not used. *)
LEMMA OneEntry ==
  ASSUME NEW l \in Seq(SavedTable), NEW m \in Seq(SavedTable), Len(m) = Len(l), NEW fd \in Fds,
         NEW n \in 1..Len(l),
         \A i \in 1..Len(l), d \in Fds : (i # n \/ d # fd) => m[i][d] = l[i][d],
         l[n][fd] = EMPTY \/ m[n][fd] = l[n][fd], NEW x \in Desc
  PROVE  InTables(m, x) <=> InTables(l, x) \/ x = m[n][fd]
  <1>1. x # EMPTY
    BY HighFacts
  <1>2. ASSUME InTables(m, x), x # m[n][fd] PROVE InTables(l, x)
    <2>1. PICK i \in 1..Len(l), d \in Fds : m[i][d] = x
      BY <1>2 DEF InTables
    <2>2. l[i][d] = x
      BY <1>2, <2>1
    <2> QED
      BY <2>2 DEF InTables
  <1>3. ASSUME InTables(l, x) PROVE InTables(m, x)
    <2>1. PICK i \in 1..Len(l), d \in Fds : l[i][d] = x
      BY <1>3 DEF InTables
    <2>2. m[i][d] = x
      BY <1>1, <2>1
    <2> QED
      BY <2>2 DEF InTables
  <1>4. x = m[n][fd] => InTables(m, x)
    BY DEF InTables
  <1> QED
    BY <1>2, <1>3, <1>4

(* One redirection keeps descriptors in order, and other scopes as they    *)
(* were; what it changes the innermost one knows.                          *)
ScopesKept(r, q, fd) ==
    LET n == Len(r.list) IN
    /\ \A i \in 1..n, d \in Fds : (i # n \/ d # fd) => InScope(q, i, d) = InScope(r, i, d)
    /\ \A d \in Fds \ {fd} : q.ofile[d] = r.ofile[d]
    /\ \/ /\ InScope(q, n, fd) = InScope(r, n, fd)
          /\ InScope(r, n, fd) # KeepFd \/ q.ofile[fd] = r.ofile[fd]
       \/ InScope(r, n, fd) = KeepFd /\ InScope(q, n, fd) = r.ofile[fd]

LEMMA RedirectsGood ==
  ASSUME NEW r, NEW fs, RdGood(r, fs), Len(r.list) > 0, NEW fd \in Fds, NEW q, Redirects(r, q, fd)
  PROVE  RdGood(q, fs)
  <1>1. PICK n \in 1..Len(r.list) : n = Len(r.list)
    BY GoodFields
  <1>2. /\ r \in RdType /\ fs \in FilesType
        /\ \A x \in High : IsOpen(r, x) <=> InTables(r.list, x) \/ InFiles(fs, x)
        /\ \A i \in 1..Len(r.list), d \in Fds : r.list[i][d] \in High => IsOpen(r, r.list[i][d])
    BY GoodFields
  <1>3. /\ q \in RdType /\ Len(q.list) = Len(r.list)
        /\ \A i \in 1..Len(r.list), d \in Fds : (i # n \/ d # fd) => q.list[i][d] = r.list[i][d]
        /\ \A d \in q.closed : ~IsOpen(q, d)
    BY <1>1 DEF Redirects
  <1>4. r.list \in Seq(SavedTable) /\ q.list \in Seq(SavedTable)
    BY <1>2, <1>3, RdFields
  <1>5. /\ r.list[n][fd] = EMPTY \/ q.list[n][fd] = r.list[n][fd]
        /\ \A x \in Desc \ Fds :
              \/ q.list[n][fd] # x /\ q.ofile[x] = r.ofile[x]
              \/ q.list[n][fd] = x /\ q.list[n][fd] = r.list[n][fd] /\ q.ofile[x] = r.ofile[x]
              \/ q.list[n][fd] = x /\ r.ofile[x] = NoFile /\ q.ofile[x] # NoFile
    <2>1. CASE Keeps(r, q, fd)
      BY <1>1, <2>1 DEF Keeps
    <2>2. CASE NotesClosed(r, q, fd)
      BY <1>1, <2>2, HighFacts DEF NotesClosed
    <2>3. CASE \E low \in High : SavesAt(r, q, fd, low)
      BY <1>1, <2>3, HighFacts DEF SavesAt
    <2> QED
      BY <2>1, <2>2, <2>3 DEF Redirects
  <1>6. \A x \in Desc : InTables(q.list, x) <=> InTables(r.list, x) \/ x = q.list[n][fd]
    BY <1>3, <1>4, <1>5, OneEntry, SMTT(20)
  <1>7. \A x \in Desc \ Fds : IsOpen(q, x) <=> InTables(q.list, x) \/ InFiles(fs, x)
    <2> SUFFICES ASSUME NEW x \in Desc \ Fds
                 PROVE  IsOpen(q, x) <=> InTables(q.list, x) \/ InFiles(fs, x)
      OBVIOUS
    <2>1. IsOpen(r, x) <=> InTables(r.list, x) \/ InFiles(fs, x)
      BY DEF RdGood
    <2>2. x = q.list[n][fd] /\ q.list[n][fd] = r.list[n][fd] => InTables(r.list, x)
      BY DEF InTables
    <2> QED
      BY <1>5, <1>6, <2>1, <2>2 DEF IsOpen
  <1>8. OneOwner(q.list, fs)
    <2>0. OneOwner(r.list, fs)
      BY DEF RdGood
    <2>1. CASE q.list[n][fd] = r.list[n][fd]
      <3>1. \A i \in 1..Len(r.list), d \in Fds : q.list[i][d] = r.list[i][d]
        BY <1>3, <2>1
      <3>2. \A i, j \in 1..Len(r.list) : \A d, e \in Fds :
               q.list[i][d] = q.list[j][e] /\ q.list[i][d] \in High => i = j /\ d = e
        <4> SUFFICES ASSUME NEW i \in 1..Len(r.list), NEW j \in 1..Len(r.list), NEW d \in Fds, NEW e \in Fds,
                            q.list[i][d] = q.list[j][e], q.list[i][d] \in High
                     PROVE  i = j /\ d = e
          OBVIOUS
        <4>1. r.list[i][d] = r.list[j][e] /\ r.list[i][d] \in High
          BY <3>1
        <4> QED
          BY <2>0, <4>1 DEF OneOwner
      <3>3. \A i \in 1..Len(r.list) : \A d \in Fds : q.list[i][d] \in High => ~InFiles(fs, q.list[i][d])
        <4> SUFFICES ASSUME NEW i \in 1..Len(r.list), NEW d \in Fds, q.list[i][d] \in High
                     PROVE  ~InFiles(fs, q.list[i][d])
          OBVIOUS
        <4>1. q.list[i][d] = r.list[i][d]
          BY <3>1
        <4> QED
          BY <2>0, <4>1 DEF OneOwner
      <3> QED
        BY <1>3, <2>0, <3>2, <3>3 DEF OneOwner
    <2>2. CASE q.list[n][fd] # r.list[n][fd]
      <3>1. q.list[n][fd] \in High => ~IsOpen(r, q.list[n][fd])
        BY <1>5, <2>2, HighFacts DEF IsOpen
      <3>2. ASSUME q.list[n][fd] \in High
            PROVE  /\ ~InFiles(fs, q.list[n][fd])
                   /\ \A i \in 1..Len(r.list), d \in Fds : r.list[i][d] # q.list[n][fd]
        BY <1>2, <3>1, <3>2
      <3>3. \A i, j \in 1..Len(r.list) : \A d, e \in Fds :
               q.list[i][d] = q.list[j][e] /\ q.list[i][d] \in High => i = j /\ d = e
        <4> SUFFICES ASSUME NEW i \in 1..Len(r.list), NEW j \in 1..Len(r.list), NEW d \in Fds, NEW e \in Fds,
                            q.list[i][d] = q.list[j][e], q.list[i][d] \in High
                     PROVE  i = j /\ d = e
          OBVIOUS
        <4>1. CASE (i # n \/ d # fd) /\ (j # n \/ e # fd)
          <5>1. q.list[i][d] = r.list[i][d] /\ q.list[j][e] = r.list[j][e]
            BY <1>3, <4>1
          <5>2. r.list[i][d] = r.list[j][e] /\ r.list[i][d] \in High
            BY <5>1
          <5> QED
            BY <2>0, <5>2 DEF OneOwner
        <4>2. CASE i = n /\ d = fd /\ (j # n \/ e # fd)
          BY <1>3, <3>2, <4>2
        <4>3. CASE (i # n \/ d # fd) /\ j = n /\ e = fd
          BY <1>3, <3>2, <4>3
        <4> QED
          BY <4>1, <4>2, <4>3
      <3>4. \A i \in 1..Len(r.list) : \A d \in Fds : q.list[i][d] \in High => ~InFiles(fs, q.list[i][d])
        <4> SUFFICES ASSUME NEW i \in 1..Len(r.list), NEW d \in Fds, q.list[i][d] \in High
                     PROVE  ~InFiles(fs, q.list[i][d])
          OBVIOUS
        <4>1. CASE i # n \/ d # fd
          <5>1. q.list[i][d] = r.list[i][d]
            BY <1>3, <4>1
          <5> QED
            BY <2>0, <5>1 DEF OneOwner
        <4>2. CASE i = n /\ d = fd
          BY <3>2, <4>2
        <4> QED
          BY <4>1, <4>2
      <3> QED
        BY <1>3, <2>0, <3>3, <3>4 DEF OneOwner
    <2> QED
      BY <2>1, <2>2
  <1> QED
    BY <1>2, <1>3, <1>7, <1>8 DEF RdGood

LEMMA RedirectsScopes ==
  ASSUME NEW r, NEW fs, RdGood(r, fs), Len(r.list) > 0, NEW fd \in Fds, NEW q, Redirects(r, q, fd)
  PROVE  ScopesKept(r, q, fd)
  <1>1. PICK n \in 1..Len(r.list) : n = Len(r.list)
    BY GoodFields
  <1>2. /\ r \in RdType /\ q \in RdType
        /\ \A i \in 1..Len(r.list), d \in Fds : r.list[i][d] \in {EMPTY, CLOSED} \cup High
        /\ \A i \in 1..Len(r.list), d \in Fds : r.list[i][d] \in High => IsOpen(r, r.list[i][d])
        /\ \A i \in 1..n, d \in Fds : (i # n \/ d # fd) => q.list[i][d] = r.list[i][d]
    BY <1>1, GoodFields DEF Redirects
  <1>3. fd \in Desc /\ Fds \subseteq Desc /\ High \subseteq Desc \ Fds /\ EMPTY \notin High /\ CLOSED \notin High
    BY HighFacts
  <1>4. ASSUME \A x \in Desc \ {fd} : r.ofile[x] # NoFile => q.ofile[x] = r.ofile[x]
        PROVE  \A i \in 1..n, d \in Fds : (i # n \/ d # fd) => InScope(q, i, d) = InScope(r, i, d)
    <2> SUFFICES ASSUME NEW i \in 1..n, NEW d \in Fds, i # n \/ d # fd
                 PROVE  InScope(q, i, d) = InScope(r, i, d)
      OBVIOUS
    <2>1. PICK p \in {EMPTY, CLOSED} \cup High : p = r.list[i][d]
      BY <1>1, <1>2
    <2>2. q.list[i][d] = p /\ (p \in High => IsOpen(r, p))
      BY <1>1, <1>2, <2>1
    <2>3. p \in High => q.ofile[p] = r.ofile[p]
      BY <1>3, <1>4, <2>2 DEF IsOpen
    <2>4. SavedFor(q, p) = SavedFor(r, p)
      BY <1>2, <2>3, SavedKinds
    <2> QED
      BY <2>1, <2>2, <2>4 DEF InScope
  <1>5. PICK p \in {EMPTY, CLOSED} \cup High : p = r.list[n][fd]
    BY <1>1, <1>2
  <1>6. CASE Keeps(r, q, fd) /\ (p # EMPTY \/ q.ofile[fd] = r.ofile[fd])
    <2>1. /\ \A x \in Desc \ {fd} : q.ofile[x] = r.ofile[x]
          /\ q.list[n][fd] = p
      BY <1>1, <1>5, <1>6 DEF Keeps
    <2>2. SavedFor(q, p) = SavedFor(r, p) /\ (SavedFor(r, p) # KeepFd \/ q.ofile[fd] = r.ofile[fd])
      BY <1>2, <1>3, <1>6, <2>1, SavedKinds
    <2>3. InScope(q, n, fd) = SavedFor(q, p) /\ InScope(r, n, fd) = SavedFor(r, p)
      BY <1>5, <2>1 DEF InScope
    <2> QED
      BY <1>1, <1>3, <1>4, <2>1, <2>2, <2>3 DEF ScopesKept
  <1>7. CASE NotesClosed(r, q, fd)
    <2>1. /\ \A x \in Desc \ {fd} : q.ofile[x] = r.ofile[x]
          /\ p = EMPTY /\ q.list[n][fd] = CLOSED /\ r.ofile[fd] = NoFile
      BY <1>1, <1>5, <1>7 DEF NotesClosed
    <2>2. SavedFor(r, EMPTY) = KeepFd /\ SavedFor(q, CLOSED) = NoFile
      BY <1>2, SavedKinds
    <2>3. InScope(q, n, fd) = NoFile /\ InScope(r, n, fd) = KeepFd
      BY <1>5, <2>1, <2>2 DEF InScope
    <2> QED
      BY <1>1, <1>3, <1>4, <2>1, <2>3 DEF ScopesKept
  <1>8. CASE \E low \in High : SavesAt(r, q, fd, low)
    <2>1. PICK low \in High : SavesAt(r, q, fd, low)
      BY <1>8
    <2>2. /\ \A x \in Desc \ {fd, low} : q.ofile[x] = r.ofile[x]
          /\ p = EMPTY /\ q.list[n][fd] = low /\ r.ofile[low] = NoFile /\ q.ofile[low] = r.ofile[fd]
      BY <1>1, <1>5, <2>1 DEF SavesAt
    <2>3. SavedFor(r, EMPTY) = KeepFd /\ SavedFor(q, low) = r.ofile[fd]
      BY <1>2, <2>2, SavedKinds
    <2>4. InScope(q, n, fd) = r.ofile[fd] /\ InScope(r, n, fd) = KeepFd
      BY <1>5, <2>2, <2>3 DEF InScope
    <2>5. \A d \in Fds \ {fd} : q.ofile[d] = r.ofile[d]
      BY <1>3, <2>2
    <2>6. \A x \in Desc \ {fd} : r.ofile[x] # NoFile => q.ofile[x] = r.ofile[x]
      BY <2>2
    <2> QED
      BY <1>1, <1>4, <2>4, <2>5, <2>6 DEF ScopesKept
  <1> QED
    BY <1>1, <1>5, <1>6, <1>7, <1>8 DEF Redirects

-----------------------------------------------------------------------------
(* How many descriptors the shell needs of its own: one for each entry of  *)
(* the tables and one for each script.                                     *)

EnoughDescriptors == Cardinality(High) > (MaxDepth + 1) * (Cardinality(Fds) + 1)
Fits(l, fs) == Len(l) <= MaxDepth + 1 /\ Len(fs) <= MaxDepth

LEMMA Injects ==
  ASSUME NEW S, NEW T, IsFiniteSet(T), NEW f \in [S -> T],
         \A x, y \in S : f[x] = f[y] => x = y
  PROVE  IsFiniteSet(S) /\ Cardinality(S) <= Cardinality(T)
  <1>1. f \in Injection(S, T)
    BY DEF Injection, IsInjective
  <1> QED
    BY <1>1, FS_Injection

LEMMA RoomLeft ==
  ASSUME EnoughDescriptors, NEW r, NEW fs, RdGood(r, fs), Fits(r.list, fs)
  PROVE  Room(r)
  <1> DEFINE T == {x \in High : InTables(r.list, x)}
             F == {x \in High : InFiles(fs, x)}
             O == {x \in High : IsOpen(r, x)}
             P == (1..(MaxDepth + 1)) \X Fds
  <1>1. MaxDepth \in Nat /\ IsFiniteSet(Fds) /\ IsFiniteSet(High)
    BY Numbers, HighFacts
  <1>2. Cardinality(Fds) \in Nat /\ Cardinality(High) \in Nat
    BY <1>1, FS_CardinalityType
  <1>3. IsFiniteSet(P) /\ Cardinality(P) = (MaxDepth + 1) * Cardinality(Fds)
    <2>1. /\ IsFiniteSet(1..(MaxDepth + 1)) /\ Cardinality(1..(MaxDepth + 1)) = MaxDepth + 1
      <3>1. 1 \in Int /\ MaxDepth + 1 \in Int /\ ~(1 > MaxDepth + 1) /\ (MaxDepth + 1) - 1 + 1 = MaxDepth + 1
        BY <1>1
      <3> QED
        BY <3>1, FS_Interval
    <2> QED
      BY <1>1, <2>1, FS_Product
  <1>4. IsFiniteSet(T) /\ Cardinality(T) <= Cardinality(P)
    <2> DEFINE f == [x \in T |-> CHOOSE q \in P : r.list[q[1]][q[2]] = x]
    <2>1. ASSUME NEW x \in T PROVE f[x] \in P /\ r.list[f[x][1]][f[x][2]] = x
      <3>1. PICK i \in 1..Len(r.list), d \in Fds : r.list[i][d] = x
        BY DEF InTables
      <3>2. i \in 1..(MaxDepth + 1)
        BY <1>1, GoodFields DEF Fits
      <3>3. <<i, d>> \in P /\ r.list[<<i, d>>[1]][<<i, d>>[2]] = x
        BY <3>1, <3>2
      <3> QED
        BY <3>3
    <2>2. f \in [T -> P]
      BY <2>1
    <2> HIDE DEF T, P, f
    <2>3. \A x, y \in T : f[x] = f[y] => x = y
      BY <2>1
    <2> QED
      BY <1>3, <2>2, <2>3, Injects
  <1>5. IsFiniteSet(F) /\ Cardinality(F) <= MaxDepth
    <2> DEFINE f == [x \in F |-> CHOOSE j \in 1..MaxDepth : fs[j] = x]
    <2>1. ASSUME NEW x \in F PROVE f[x] \in 1..MaxDepth /\ fs[f[x]] = x
      <3>1. PICK j \in 1..Len(fs) : fs[j] = x
        BY DEF InFiles
      <3>2. j \in 1..MaxDepth
        BY <1>1, GoodFields DEF Fits
      <3> QED
        BY <3>1, <3>2
    <2>2. f \in [F -> 1..MaxDepth]
      BY <2>1
    <2>3. IsFiniteSet(1..MaxDepth) /\ Cardinality(1..MaxDepth) = MaxDepth
      <3>1. 1 \in Int /\ MaxDepth \in Int /\ (1 > MaxDepth => MaxDepth = 0) /\ MaxDepth - 1 + 1 = MaxDepth
        BY <1>1
      <3> QED
        BY <3>1, FS_Interval
    <2> HIDE DEF F, f
    <2>4. \A x, y \in F : f[x] = f[y] => x = y
      BY <2>1
    <2>5. IsFiniteSet(F) /\ Cardinality(F) <= Cardinality(1..MaxDepth)
      BY <2>2, <2>3, <2>4, Injects
    <2> QED
      BY <2>3, <2>5
  <1>6. O = T \cup F
    BY GoodFields
  <1> HIDE DEF T, F, O, P
  <1>7. IsFiniteSet(O) /\ Cardinality(O) \in Nat /\ Cardinality(O) + 1 < Cardinality(High)
    <2>1. IsFiniteSet(T \cup F) /\ Cardinality(T \cup F) = Cardinality(T) + Cardinality(F) - Cardinality(T \cap F)
      BY <1>4, <1>5, FS_Union
    <2>2. IsFiniteSet(T \cap F)
      BY <1>4, FS_Intersection
    <2>3. Cardinality(T) \in Nat /\ Cardinality(F) \in Nat /\ Cardinality(T \cap F) \in Nat /\ Cardinality(O) \in Nat
      BY <1>4, <1>5, <1>6, <2>1, <2>2, FS_CardinalityType
    <2>4. (MaxDepth + 1) * (Cardinality(Fds) + 1) = (MaxDepth + 1) * Cardinality(Fds) + (MaxDepth + 1)
      BY <1>1, <1>2
    <2>5. PICK p \in Int : p = (MaxDepth + 1) * Cardinality(Fds)
      BY <1>1, <1>2
    <2>6. Cardinality(O) <= p + MaxDepth
      BY <1>1, <1>3, <1>4, <1>5, <1>6, <2>1, <2>3, <2>5
    <2>7. Cardinality(High) > p + (MaxDepth + 1)
      BY <2>4, <2>5 DEF EnoughDescriptors
    <2> QED
      BY <1>1, <1>2, <1>6, <2>1, <2>3, <2>6, <2>7
  <1>8. SUFFICES ASSUME ~Room(r) PROVE FALSE
    OBVIOUS
  <1>9. \E z : High \subseteq O \cup {z}
    <2>1. CASE \E x \in High : ~IsOpen(r, x)
      <3>1. PICK x \in High : ~IsOpen(r, x)
        BY <2>1
      <3>2. \A y \in High : IsOpen(r, y) \/ y = x
        BY <1>8, <3>1 DEF Room
      <3> QED
        BY <3>2 DEF O
    <2>2. CASE ~\E x \in High : ~IsOpen(r, x)
      BY <2>2 DEF O
    <2> QED
      BY <2>1, <2>2
  <1>10. PICK z : High \subseteq O \cup {z}
    BY <1>9
  <1>11. IsFiniteSet(O \cup {z}) /\ Cardinality(O \cup {z}) <= Cardinality(O) + 1 /\ Cardinality(O \cup {z}) \in Nat
    <2>1. /\ IsFiniteSet(O \cup {z})
          /\ Cardinality(O \cup {z}) = IF z \in O THEN Cardinality(O) ELSE Cardinality(O) + 1
      BY <1>7, FS_AddElement
    <2> QED
      BY <1>7, <2>1
  <1>12. Cardinality(High) <= Cardinality(O \cup {z})
    BY <1>10, <1>11, FS_Subset
  <1> QED
    BY <1>2, <1>7, <1>11, <1>12

-----------------------------------------------------------------------------
(* The redirections of a command make a scope. *)

PushedOn(r, p) ==
    LET n == Len(r.list) IN
    /\ Len(p.list) = n + 1
    /\ \A i \in 1..n, d \in Fds : InScope(p, i, d) = InScope(r, i, d)
    /\ \A d \in Fds : \/ InScope(p, n + 1, d) = r.ofile[d]
                      \/ InScope(p, n + 1, d) = KeepFd /\ p.ofile[d] = r.ofile[d]

LEMMA PushGood ==
  ASSUME NEW r, NEW fs, RdGood(r, fs), NEW rs, rs # << >>, NEW q, q = pushredir(r, rs)
  PROVE  RdGood(q, fs) /\ PushedOn(r, q)
  <1>1. PICK e \in SavedTable : e = [d \in Fds |-> EMPTY]
    BY DEF SavedTable
  <1>2. PICK n \in Nat : n = Len(r.list)
    BY GoodFields
  <1>3. /\ r \in RdType /\ r.list \in Seq(SavedTable) /\ fs \in FilesType
        /\ r = [list |-> r.list, closed |-> r.closed, ofile |-> r.ofile, ok |-> r.ok]
    BY GoodFields, RdFields
  <1>4. PICK m : m = Append(r.list, e)
    OBVIOUS
  <1>5. /\ m \in Seq(SavedTable) /\ Len(m) = n + 1 /\ m[n + 1] = e
        /\ \A i \in 1..n : m[i] = r.list[i]
    BY <1>2, <1>3, <1>4, Appended
  <1>6. q = [list |-> m, closed |-> r.closed, ofile |-> r.ofile, ok |-> r.ok]
    BY <1>1, <1>3, <1>4 DEF pushredir
  <1>7. q \in RdType /\ q.list = m /\ q.closed = r.closed /\ q.ofile = r.ofile
    BY <1>3, <1>5, <1>6, RdFields DEF RdType
  <1>8. \A i \in 1..(n + 1) : i \in 1..n \/ i = n + 1
    BY <1>2
  <1>9. \A i \in 1..n : i \in 1..(n + 1)
    BY <1>2
  <1>10. \A x \in Desc : InTables(m, x) <=> InTables(r.list, x)
    <2>1. \A d \in Fds : m[n + 1][d] = EMPTY
      BY <1>1, <1>5
    <2>2. ASSUME NEW x \in Desc, InTables(m, x) PROVE InTables(r.list, x)
      <3>1. PICK i \in 1..(n + 1), d \in Fds : m[i][d] = x
        BY <1>5, <2>2 DEF InTables
      <3>2. i # n + 1
        BY <2>1, <3>1, HighFacts
      <3> QED
        BY <1>2, <1>5, <1>8, <3>1, <3>2 DEF InTables
    <2>3. ASSUME NEW x \in Desc, InTables(r.list, x) PROVE InTables(m, x)
      <3>1. PICK i \in 1..n, d \in Fds : r.list[i][d] = x
        BY <1>2, <2>3 DEF InTables
      <3> QED
        BY <1>5, <1>9, <3>1 DEF InTables
    <2> QED
      BY <2>2, <2>3
  <1>11. OneOwner(m, fs)
    <2>0. OneOwner(r.list, fs) /\ EMPTY \notin High
      BY HighFacts DEF RdGood
    <2>1. \A i \in 1..(n + 1), d \in Fds : m[i][d] \in High => i \in 1..n /\ m[i][d] = r.list[i][d]
      BY <1>1, <1>5, <1>8, <2>0
    <2>2. \A i, j \in 1..Len(m) : \A d, e1 \in Fds :
             m[i][d] = m[j][e1] /\ m[i][d] \in High => i = j /\ d = e1
      <3> SUFFICES ASSUME NEW i \in 1..(n + 1), NEW j \in 1..(n + 1), NEW d \in Fds, NEW e1 \in Fds,
                          m[i][d] = m[j][e1], m[i][d] \in High
                   PROVE  i = j /\ d = e1
        BY <1>5
      <3>1. i \in 1..n /\ j \in 1..n /\ r.list[i][d] = r.list[j][e1] /\ r.list[i][d] \in High
        BY <2>1
      <3> QED
        BY <1>2, <2>0, <3>1 DEF OneOwner
    <2>3. \A i \in 1..Len(m) : \A d \in Fds : m[i][d] \in High => ~InFiles(fs, m[i][d])
      <3> SUFFICES ASSUME NEW i \in 1..(n + 1), NEW d \in Fds, m[i][d] \in High
                   PROVE  ~InFiles(fs, m[i][d])
        BY <1>5
      <3>1. i \in 1..n /\ m[i][d] = r.list[i][d]
        BY <2>1
      <3> QED
        BY <1>2, <2>0, <3>1 DEF OneOwner
    <2> QED
      BY <2>0, <2>2, <2>3 DEF OneOwner
  <1>12. RdGood(q, fs)
    <2>1. \A d \in q.closed : ~IsOpen(q, d)
      BY <1>7, GoodFields DEF IsOpen
    <2>2. \A x \in Desc \ Fds : IsOpen(q, x) <=> InTables(q.list, x) \/ InFiles(fs, x)
      <3> SUFFICES ASSUME NEW x \in Desc \ Fds
                   PROVE  IsOpen(q, x) <=> InTables(q.list, x) \/ InFiles(fs, x)
        OBVIOUS
      <3>1. IsOpen(r, x) <=> InTables(r.list, x) \/ InFiles(fs, x)
        BY DEF RdGood
      <3> QED
        BY <1>7, <1>10, <3>1 DEF IsOpen
    <2> QED
      BY <1>3, <1>7, <1>11, <2>1, <2>2 DEF RdGood
  <1>13. PushedOn(r, q)
    <2>1. \A i \in 1..n, d \in Fds : InScope(q, i, d) = InScope(r, i, d)
      BY <1>5, <1>7 DEF InScope, SavedFor
    <2>2. \A d \in Fds : InScope(q, n + 1, d) = KeepFd /\ q.ofile[d] = r.ofile[d]
      <3>1. SavedFor(q, EMPTY) = KeepFd
        BY <1>7, SavedKinds
      <3>2. \A d \in Fds : q.list[n + 1][d] = EMPTY
        BY <1>1, <1>5, <1>7
      <3> QED
        BY <1>7, <3>1, <3>2 DEF InScope
    <2> QED
      BY <1>2, <1>5, <1>7, <2>1, <2>2 DEF PushedOn
  <1> QED
    BY <1>12, <1>13

LEMMA RedirectMore ==
  ASSUME EnoughDescriptors, NEW r \in RdType, NEW p, NEW fs, RdGood(p, fs), Fits(p.list, fs),
         PushedOn(r, p), NEW n \in Redirection, NEW q, q = Redirect1(p, n)
  PROVE  RdGood(q, fs) /\ PushedOn(r, q) /\ Fits(q.list, fs)
  <1>1. PICK k \in Nat : k = Len(r.list)
    BY RdFields
  <1>2. Len(p.list) = k + 1 /\ Len(p.list) > 0
    BY <1>1 DEF PushedOn
  <1>3. Ready(p)
    BY <1>2, GoodFields, RoomLeft DEF Ready
  <1>4. PICK fd \in Fds : fd = n.fd /\ Redirects(p, q, fd)
    BY <1>3, RedirectOne
  <1>5. RdGood(q, fs) /\ ScopesKept(p, q, fd)
    BY <1>2, <1>4, RedirectsGood, RedirectsScopes
  <1>6. Len(q.list) = k + 1
    BY <1>2, <1>4 DEF Redirects
  <1>7. \A i \in 1..k, d \in Fds : InScope(q, i, d) = InScope(r, i, d)
    <2>1. \A i \in 1..k : i \in 1..(k + 1) /\ i # k + 1
      BY <1>1
    <2> QED
      BY <1>1, <1>2, <1>5, <2>1 DEF ScopesKept, PushedOn
  <1>8. ASSUME NEW d \in Fds
        PROVE  \/ InScope(q, k + 1, d) = r.ofile[d]
               \/ InScope(q, k + 1, d) = KeepFd /\ q.ofile[d] = r.ofile[d]
    <2>0. k + 1 \in 1..(k + 1)
      BY <1>1
    <2>1. \/ InScope(p, k + 1, d) = r.ofile[d]
          \/ InScope(p, k + 1, d) = KeepFd /\ p.ofile[d] = r.ofile[d]
      BY <1>1 DEF PushedOn
    <2>2. CASE d # fd
      <3>1. InScope(q, k + 1, d) = InScope(p, k + 1, d) /\ q.ofile[d] = p.ofile[d]
        BY <1>2, <1>5, <2>0, <2>2 DEF ScopesKept
      <3> QED
        BY <2>1, <3>1
    <2>3. CASE d = fd
      <3>1. \/ /\ InScope(q, k + 1, d) = InScope(p, k + 1, d)
               /\ InScope(p, k + 1, d) # KeepFd \/ q.ofile[d] = p.ofile[d]
            \/ InScope(p, k + 1, d) = KeepFd /\ InScope(q, k + 1, d) = p.ofile[d]
        BY <1>2, <1>5, <2>3 DEF ScopesKept
      <3>2. r.ofile[d] # KeepFd
        <4>1. d \in Desc
          BY HighFacts
        <4> QED
          BY <4>1, RdFields, OnDescriptor
      <3>3. CASE InScope(p, k + 1, d) # KeepFd
        BY <2>1, <3>1, <3>3
      <3>4. CASE InScope(p, k + 1, d) = KeepFd /\ p.ofile[d] = r.ofile[d]
        BY <3>1, <3>4
      <3>5. CASE InScope(p, k + 1, d) = KeepFd /\ p.ofile[d] # r.ofile[d]
        BY <2>1, <3>2, <3>5
      <3> QED
        BY <3>3, <3>4, <3>5
    <2> QED
      BY <2>2, <2>3
  <1>9. Fits(q.list, fs)
    BY <1>2, <1>6 DEF Fits
  <1> QED
    BY <1>1, <1>5, <1>6, <1>7, <1>8, <1>9 DEF PushedOn

LEMMA RedirectGood ==
  ASSUME EnoughDescriptors, NEW r, NEW fs, RdGood(r, fs), Len(r.list) <= MaxDepth, Len(fs) <= MaxDepth,
         NEW rs \in Seq(Redirection), rs # << >>, NEW q, q = redirect(pushredir(r, rs), rs)
  PROVE  RdGood(q, fs) /\ PushedOn(r, q)
  <1>1. PICK p : p = pushredir(r, rs)
    OBVIOUS
  <1>2. RdGood(p, fs) /\ PushedOn(r, p)
    BY <1>1, PushGood
  <1>3. Fits(p.list, fs) /\ r \in RdType
    <2>1. Len(r.list) \in Nat /\ Len(p.list) = Len(r.list) + 1 /\ MaxDepth \in Nat /\ r \in RdType
      BY <1>2, GoodFields, Numbers DEF PushedOn
    <2> QED
      BY <2>1 DEF Fits
  <1>4. Len(rs) \in Nat /\ \A k \in 1..Len(rs) : rs[k] \in Redirection
    OBVIOUS
  <1>5. PICK h : /\ h[0] = p /\ redirect(p, rs) = h[Len(rs)]
                 /\ \A k \in 1..Len(rs) : h[k] = IF ~h[k - 1].ok THEN h[k - 1]
                                                 ELSE Redirect1(h[k - 1], rs[k])
    BY <1>4, RedirectSteps
  <1> DEFINE Good(x) == RdGood(x, fs) /\ PushedOn(r, x) /\ Fits(x.list, fs)
             S == {k \in Nat : k <= Len(rs) => Good(h[k])}
  <1>6. 0 \in S
    BY <1>2, <1>3, <1>5
  <1>7. \A k \in Nat : k \in S => k + 1 \in S
    <2> SUFFICES ASSUME NEW k \in Nat, k \in S, k + 1 <= Len(rs) PROVE Good(h[k + 1])
      OBVIOUS
    <2>1. k + 1 \in 1..Len(rs) /\ (k + 1) - 1 = k /\ k <= Len(rs)
      BY <1>4
    <2>2. PICK x : x = h[k]
      OBVIOUS
    <2>3. Good(x)
      BY <2>1, <2>2
    <2>4. PICK y : y = Redirect1(x, rs[k + 1])
      OBVIOUS
    <2>5. Good(y)
      <3>1. rs[k + 1] \in Redirection
        BY <1>4, <2>1
      <3> QED
        BY <1>3, <2>3, <2>4, <3>1, RedirectMore
    <2>6. h[k + 1] = IF ~x.ok THEN x ELSE y
      BY <1>5, <2>1, <2>2, <2>4
    <2> HIDE DEF Good
    <2> QED
      BY <2>3, <2>5, <2>6
  <1>8. Good(h[Len(rs)])
    <2>1. Len(rs) \in S
      <3> HIDE DEF S
      <3> QED
        BY <1>4, <1>6, <1>7, NatSetInduction
    <2> QED
      BY <1>4, <2>1
  <1> QED
    BY <1>1, <1>5, <1>8

(* popredir(): the saved descriptors are back, or given up (drop). *)
PoppedTo(r, q, drop) ==
    LET n == Len(r.list) IN
    /\ q \in RdType /\ Len(q.list) = n - 1 /\ \A i \in 1..(n - 1) : q.list[i] = r.list[i]
    /\ \A d \in Fds : q.ofile[d] = IF drop \/ InScope(r, n, d) = KeepFd THEN r.ofile[d]
                                   ELSE InScope(r, n, d)
    /\ \A x \in Desc \ Fds : q.ofile[x] = IF \E d \in Fds : r.list[n][d] = x THEN NoFile ELSE r.ofile[x]
    /\ \A d \in q.closed : ~IsOpen(q, d)

LEMMA PopOne ==
  ASSUME NEW r, NEW fs, RdGood(r, fs), Len(r.list) > 0, NEW drop \in BOOLEAN,
         NEW q, q = popredir(r, drop)
  PROVE  PoppedTo(r, q, drop)
  <1>1. PICK n \in 1..Len(r.list) : n = Len(r.list)
    BY GoodFields
  <1>2. PICK t \in SavedTable : t = r.list[n]
    BY GoodFields, RdFields
  <1>3. /\ r \in RdType /\ r.ofile \in [Desc -> OnDescriptors] /\ r.closed \subseteq Fds
        /\ r = [list |-> r.list, closed |-> r.closed, ofile |-> r.ofile, ok |-> r.ok]
        /\ r.list \in Seq(SavedTable) /\ \A d \in r.closed : r.ofile[d] = NoFile
    BY GoodFields, RdFields DEF IsOpen
  <1>4. \A d \in Fds : t[d] \in {EMPTY, CLOSED} \cup High
    BY DEF SavedTable
  <1>5. /\ \A d \in Fds : t[d] >= 0 <=> t[d] \in High
        /\ \A d \in Fds : t[d] \notin Fds
        /\ Fds \subseteq Desc /\ High \subseteq Desc /\ EMPTY # CLOSED /\ EMPTY \notin High /\ CLOSED \notin High
    <2>1. EMPTY = -2 /\ CLOSED = -1 /\ ~(-2 >= 0) /\ ~(-1 >= 0)
      BY DEF EMPTY, CLOSED
    <2>2. \A x \in High : x >= 0 /\ x \notin Fds /\ x \in Desc
      BY HighFacts
    <2>3. /\ Fds \subseteq Desc /\ High \subseteq Desc /\ EMPTY # CLOSED
          /\ EMPTY \notin High /\ CLOSED \notin High /\ EMPTY \notin Fds /\ CLOSED \notin Fds
      BY HighFacts
    <2> QED
      BY <1>4, <2>1, <2>2, <2>3
  <1> DEFINE saved == {d \in Fds : t[d] >= 0}
             shut == {d \in Fds : t[d] = CLOSED}
             shuts == {d \in Fds : t[d] = CLOSED /\ d \notin r.closed}
             file(d) == IF d \in saved /\ ~drop THEN r.ofile[t[d]]
                        ELSE IF d \in shuts /\ ~drop THEN NoFile
                        ELSE IF \E s \in saved : t[s] = d THEN NoFile
                        ELSE r.ofile[d]
             o == [d \in Desc |-> file(d)]
             c == IF drop THEN r.closed ELSE (r.closed \cup shut) \ saved
             l == SubSeq(r.list, 1, n - 1)
  <1>6. q = [list |-> l, closed |-> c, ofile |-> o, ok |-> TRUE]
    <2>1. q = [r EXCEPT !.list = l, !.ofile = o, !.closed = c, !.ok = TRUE]
      BY <1>1, <1>2 DEF popredir, ToClose
    <2> HIDE DEF l, o, c
    <2> QED
      BY <1>3, <2>1
  <1>7. l \in Seq(SavedTable) /\ Len(l) = n - 1 /\ \A i \in 1..(n - 1) : l[i] = r.list[i]
    <2>1. n - 1 \in 0..Len(r.list)
      BY <1>1
    <2> QED
      BY <1>3, <2>1, Cut
  <1>8. \A d \in Fds : file(d) = IF drop \/ t[d] = EMPTY THEN r.ofile[d]
                                 ELSE IF t[d] = CLOSED THEN NoFile ELSE r.ofile[t[d]]
    <2> SUFFICES ASSUME NEW d \in Fds
                 PROVE  file(d) = IF drop \/ t[d] = EMPTY THEN r.ofile[d]
                                  ELSE IF t[d] = CLOSED THEN NoFile ELSE r.ofile[t[d]]
      OBVIOUS
    <2>1. ~\E s \in saved : t[s] = d
      BY <1>5
    <2>2. CASE drop
      BY <2>1, <2>2
    <2>3. CASE ~drop /\ t[d] = EMPTY
      BY <1>5, <2>1, <2>3
    <2>4. CASE ~drop /\ t[d] = CLOSED
      BY <1>3, <1>5, <2>1, <2>4
    <2>5. CASE ~drop /\ t[d] \in High
      BY <1>5, <2>5
    <2> QED
      BY <1>4, <2>2, <2>3, <2>4, <2>5
  <1>9. \A x \in Desc \ Fds : file(x) = IF \E d \in Fds : t[d] = x THEN NoFile ELSE r.ofile[x]
    <2> SUFFICES ASSUME NEW x \in Desc \ Fds
                 PROVE  file(x) = IF \E d \in Fds : t[d] = x THEN NoFile ELSE r.ofile[x]
      OBVIOUS
    <2>1. x # EMPTY /\ x # CLOSED
      BY HighFacts
    <2>2. (\E s \in saved : t[s] = x) <=> (\E d \in Fds : t[d] = x)
      BY <1>4, <1>5, <2>1
    <2> QED
      BY <2>2
  <1>10. o \in [Desc -> OnDescriptors] /\ \A x \in Desc : o[x] = file(x)
    <2>1. \A x \in Desc : file(x) \in OnDescriptors
      <3> SUFFICES ASSUME NEW x \in Desc PROVE file(x) \in OnDescriptors
        OBVIOUS
      <3>1. CASE x \in Fds
        BY <1>3, <1>4, <1>5, <1>8, <3>1, OnDescriptor
      <3>2. CASE x \notin Fds
        BY <1>3, <1>9, <3>2, OnDescriptor
      <3> QED
        BY <3>1, <3>2
    <2> HIDE DEF file
    <2> QED
      BY <2>1
  <1>11. c \subseteq Fds
    BY <1>3
  <1>12. \A d \in c : file(d) = NoFile
    <2> SUFFICES ASSUME NEW d \in c PROVE file(d) = NoFile
      OBVIOUS
    <2>0. d \in Fds
      BY <1>11
    <2>1. CASE drop
      BY <1>3, <1>8, <2>0, <2>1
    <2>2. CASE ~drop
      <3>1. t[d] \notin High /\ (d \in r.closed \/ t[d] = CLOSED)
        BY <1>5, <2>0, <2>2
      <3>2. t[d] = EMPTY \/ t[d] = CLOSED
        BY <1>4, <2>0, <3>1
      <3> QED
        BY <1>3, <1>5, <1>8, <2>0, <3>1, <3>2
    <2> QED
      BY <2>1, <2>2
  <1> HIDE DEF file, o, c, l
  <1>13. \A d \in Fds : /\ t[d] = EMPTY <=> InScope(r, n, d) = KeepFd
                        /\ t[d] = CLOSED => InScope(r, n, d) = NoFile
                        /\ t[d] \in High => InScope(r, n, d) = r.ofile[t[d]]
    BY <1>2, <1>3, <1>4, SavedKinds DEF InScope
  <1>14. \A d \in Fds : o[d] = IF drop \/ InScope(r, n, d) = KeepFd THEN r.ofile[d] ELSE InScope(r, n, d)
    <2> SUFFICES ASSUME NEW d \in Fds
                 PROVE  o[d] = IF drop \/ InScope(r, n, d) = KeepFd THEN r.ofile[d] ELSE InScope(r, n, d)
      OBVIOUS
    <2>1. o[d] = file(d)
      BY <1>5, <1>10
    <2>2. t[d] \in High => t[d] # CLOSED
      BY <1>5
    <2> QED
      BY <1>4, <1>8, <1>13, <2>1, <2>2
  <1>15. q \in RdType /\ q.list = l /\ q.closed = c /\ q.ofile = o
    BY <1>6, <1>7, <1>10, <1>11 DEF RdType
  <1>16. \A d \in q.closed : ~IsOpen(q, d)
    BY <1>5, <1>10, <1>11, <1>12, <1>15 DEF IsOpen
  <1> QED
    BY <1>1, <1>2, <1>7, <1>9, <1>10, <1>14, <1>15, <1>16 DEF PoppedTo

LEMMA PoppedGood ==
  ASSUME NEW r, NEW fs, RdGood(r, fs), Len(r.list) > 0, NEW q,
         PoppedTo(r, q, FALSE) \/ PoppedTo(r, q, TRUE)
  PROVE  /\ RdGood(q, fs)
         /\ \A i \in 1..(Len(r.list) - 1), d \in Fds : InScope(q, i, d) = InScope(r, i, d)
  <1>1. PICK n \in 1..Len(r.list) : n = Len(r.list) /\ n \in Nat
    BY GoodFields
  <1>2. /\ q \in RdType /\ Len(q.list) = n - 1 /\ \A i \in 1..(n - 1) : q.list[i] = r.list[i]
        /\ \A x \in Desc \ Fds : q.ofile[x] = IF \E d \in Fds : r.list[n][d] = x THEN NoFile ELSE r.ofile[x]
        /\ \A d \in q.closed : ~IsOpen(q, d)
    BY <1>1 DEF PoppedTo
  <1>3. \A i \in 1..(n - 1) : i \in 1..n /\ i # n
    BY <1>1
  <1>4. /\ r \in RdType /\ fs \in FilesType /\ OneOwner(r.list, fs)
        /\ \A i \in 1..n, d \in Fds : r.list[i][d] \in {EMPTY, CLOSED} \cup High
        /\ \A x \in Desc \ Fds : IsOpen(r, x) <=> InTables(r.list, x) \/ InFiles(fs, x)
    BY <1>1, GoodFields DEF RdGood
  <1>5. /\ \A i, j \in 1..n : \A d, e \in Fds :
              r.list[i][d] = r.list[j][e] /\ r.list[i][d] \in High => i = j /\ d = e
        /\ \A i, j \in 1..Len(fs) : fs[i] = fs[j] /\ fs[i] \in High => i = j
        /\ \A i \in 1..n : \A d \in Fds : r.list[i][d] \in High => ~InFiles(fs, r.list[i][d])
    BY <1>1, <1>4 DEF OneOwner
  <1>6. ASSUME NEW x \in Desc \ Fds PROVE IsOpen(q, x) <=> InTables(q.list, x) \/ InFiles(fs, x)
    <2>1. x # EMPTY /\ x # CLOSED
      BY HighFacts
    <2>2. InTables(r.list, x) <=> InTables(q.list, x) \/ \E d \in Fds : r.list[n][d] = x
      <3>1. \A i \in 1..n : i = n \/ i \in 1..(n - 1)
        BY <1>1
      <3>2. ASSUME InTables(r.list, x), ~\E d \in Fds : r.list[n][d] = x PROVE InTables(q.list, x)
        <4>1. PICK i \in 1..n, d \in Fds : r.list[i][d] = x
          BY <1>1, <3>2 DEF InTables
        <4>2. i \in 1..(n - 1) /\ q.list[i][d] = x
          BY <1>2, <3>1, <3>2, <4>1
        <4> QED
          BY <1>2, <4>2 DEF InTables
      <3>3. ASSUME InTables(q.list, x) PROVE InTables(r.list, x)
        <4>1. PICK i \in 1..(n - 1), d \in Fds : q.list[i][d] = x
          BY <1>2, <3>3 DEF InTables
        <4>2. i \in 1..Len(r.list) /\ r.list[i][d] = x
          BY <1>1, <1>2, <1>3, <4>1
        <4> QED
          BY <4>2 DEF InTables
      <3>4. (\E d \in Fds : r.list[n][d] = x) => InTables(r.list, x)
        BY <1>1 DEF InTables
      <3> QED
        BY <3>2, <3>3, <3>4
    <2>3. ASSUME \E d \in Fds : r.list[n][d] = x PROVE ~InTables(q.list, x) /\ ~InFiles(fs, x)
      <3>1. PICK d \in Fds : r.list[n][d] = x
        BY <2>3
      <3>2. x \in High /\ n \in 1..n
        BY <1>1, <1>4, <2>1, <3>1
      <3>3. ~InTables(q.list, x)
        <4> SUFFICES ASSUME NEW i \in 1..(n - 1), NEW e \in Fds, q.list[i][e] = x PROVE FALSE
          BY <1>2 DEF InTables
        <4>1. r.list[i][e] = x /\ i \in 1..n /\ i # n
          BY <1>2, <1>3
        <4> QED
          BY <1>5, <3>1, <3>2, <4>1
      <3> QED
        BY <1>5, <3>1, <3>2, <3>3
    <2>4. q.ofile[x] = IF \E d \in Fds : r.list[n][d] = x THEN NoFile ELSE r.ofile[x]
      BY <1>2
    <2>5. IsOpen(r, x) <=> InTables(r.list, x) \/ InFiles(fs, x)
      BY <1>4
    <2> QED
      BY <2>2, <2>3, <2>4, <2>5 DEF IsOpen
  <1>7. OneOwner(q.list, fs)
    <2>1. \A i, j \in 1..(n - 1) : \A d, e \in Fds :
              q.list[i][d] = q.list[j][e] /\ q.list[i][d] \in High => i = j /\ d = e
      <3> SUFFICES ASSUME NEW i \in 1..(n - 1), NEW j \in 1..(n - 1), NEW d \in Fds, NEW e \in Fds,
                          q.list[i][d] = q.list[j][e], q.list[i][d] \in High
                   PROVE  i = j /\ d = e
        OBVIOUS
      <3>1. q.list[i][d] = r.list[i][d] /\ q.list[j][e] = r.list[j][e] /\ i \in 1..n /\ j \in 1..n
        BY <1>2, <1>3
      <3>2. r.list[i][d] = r.list[j][e] /\ r.list[i][d] \in High
        BY <3>1
      <3> QED
        BY <1>5, <3>1, <3>2
    <2>2. \A i \in 1..(n - 1) : \A d \in Fds : q.list[i][d] \in High => ~InFiles(fs, q.list[i][d])
      BY <1>2, <1>3, <1>5
    <2> QED
      BY <1>2, <1>5, <2>1, <2>2 DEF OneOwner
  <1>8. ASSUME NEW i \in 1..(n - 1), NEW d \in Fds PROVE InScope(q, i, d) = InScope(r, i, d)
    <2>1. PICK p \in {EMPTY, CLOSED} \cup High : p = r.list[i][d] /\ q.list[i][d] = p
      BY <1>2, <1>3, <1>4
    <2>2. ASSUME p \in High PROVE q.ofile[p] = r.ofile[p]
      <3>1. ~\E e \in Fds : r.list[n][e] = p
        <4>1. i \in 1..n /\ n \in 1..n /\ i # n /\ r.list[i][d] \in High
          BY <1>1, <1>3, <2>1, <2>2
        <4>2. \A e \in Fds : r.list[i][d] # r.list[n][e]
          BY <1>5, <4>1
        <4> QED
          BY <2>1, <4>2
      <3>2. p \in Desc \ Fds
        BY <2>2, HighFacts
      <3> QED
        BY <1>2, <3>1, <3>2
    <2>3. SavedFor(q, p) = SavedFor(r, p)
      <3>1. q \in RdType /\ r \in RdType
        BY <1>2, <1>4
      <3>2. CASE p = EMPTY
        BY <3>1, <3>2, SavedKinds
      <3>3. CASE p = CLOSED
        BY <3>1, <3>3, SavedKinds
      <3>4. CASE p \in High
        <4>1. SavedFor(q, p) = q.ofile[p]
          BY <3>1, <3>4, SavedKinds
        <4>2. SavedFor(r, p) = r.ofile[p]
          BY <3>1, <3>4, SavedKinds
        <4> QED
          BY <2>2, <3>4, <4>1, <4>2
      <3> QED
        BY <3>2, <3>3, <3>4
    <2> QED
      BY <2>1, <2>3 DEF InScope
  <1> QED
    BY <1>1, <1>2, <1>4, <1>6, <1>7, <1>8 DEF RdGood

(* What descriptor d is once all scopes but the first k have ended. *)
TakenAt(r, k, d) == {i \in (k + 1)..Len(r.list) : InScope(r, i, d) # KeepFd}
MeantAt(r, k, d) ==
    IF TakenAt(r, k, d) = {} THEN r.ofile[d] ELSE InScope(r, Min(TakenAt(r, k, d)), d)

EndedAt(r, k, q) ==
    /\ Len(q.list) = k /\ \A i \in 1..k, d \in Fds : InScope(q, i, d) = InScope(r, i, d)
    /\ \A d \in Fds : q.ofile[d] = MeantAt(r, k, d)

LEMMA NoneEnded ==
  ASSUME NEW r, NEW n \in Nat, n = Len(r.list)
  PROVE  EndedAt(r, n, r) /\ \A d : MeantAt(r, n, d) = r.ofile[d]
  <1>1. (n + 1)..Len(r.list) = {}
    OBVIOUS
  <1> QED
    BY <1>1 DEF EndedAt, MeantAt, TakenAt

LEMMA OneMeant ==
  ASSUME NEW r, NEW n \in Nat, n + 1 = Len(r.list), NEW d
  PROVE  MeantAt(r, n, d) = IF InScope(r, n + 1, d) = KeepFd THEN r.ofile[d] ELSE InScope(r, n + 1, d)
  <1>1. (n + 1)..Len(r.list) = {n + 1}
    OBVIOUS
  <1>2. CASE InScope(r, n + 1, d) = KeepFd
    <2>1. TakenAt(r, n, d) = {}
      BY <1>1, <1>2 DEF TakenAt
    <2> QED
      BY <1>2, <2>1 DEF MeantAt
  <1>3. CASE InScope(r, n + 1, d) # KeepFd
    <2>1. TakenAt(r, n, d) = {n + 1}
      BY <1>1, <1>3 DEF TakenAt
    <2>2. Min({n + 1}) = n + 1
      <3>1. {n + 1} \subseteq Int /\ \A y \in {n + 1} : n + 1 <= y
        OBVIOUS
      <3>2. Min({n + 1}) \in {n + 1}
        BY <3>1, MinOf
      <3> QED
        BY <3>2
    <2> QED
      BY <1>3, <2>1, <2>2 DEF MeantAt
  <1> QED
    BY <1>2, <1>3

LEMMA OneEnded ==
  ASSUME NEW r, NEW fs, RdGood(r, fs), Len(r.list) > 0, NEW q, q = popredir(r, FALSE)
  PROVE  RdGood(q, fs) /\ EndedAt(r, Len(r.list) - 1, q)
  <1>1. PICK n \in Nat : n + 1 = Len(r.list) /\ n = Len(r.list) - 1
    <2>1. Len(r.list) \in Nat
      BY GoodFields
    <2>2. Len(r.list) - 1 \in Nat
      BY <2>1
    <2> QED
      BY <2>1, <2>2
  <1>2. PoppedTo(r, q, FALSE)
    <2>1. FALSE \in BOOLEAN
      OBVIOUS
    <2> QED
      BY <2>1, PopOne
  <1>3. RdGood(q, fs) /\ \A i \in 1..n, d \in Fds : InScope(q, i, d) = InScope(r, i, d)
    <2>1. /\ RdGood(q, fs)
          /\ \A i \in 1..(Len(r.list) - 1), d \in Fds : InScope(q, i, d) = InScope(r, i, d)
      BY <1>2, PoppedGood
    <2> QED
      BY <1>1, <2>1
  <1>4. /\ Len(q.list) = n
        /\ \A d \in Fds : q.ofile[d] = IF InScope(r, n + 1, d) = KeepFd THEN r.ofile[d]
                                       ELSE InScope(r, n + 1, d)
    BY <1>1, <1>2 DEF PoppedTo
  <1>5. \A d \in Fds : q.ofile[d] = MeantAt(r, n, d)
    BY <1>1, <1>4, OneMeant
  <1> QED
    BY <1>1, <1>3, <1>4, <1>5 DEF EndedAt

LEMMA MeantEnded ==
  ASSUME NEW r, NEW fs, RdGood(r, fs), NEW k \in Nat, k <= Len(r.list), NEW p, EndedAt(r, k, p),
         NEW j \in Nat, j <= k, NEW d \in Fds
  PROVE  MeantAt(p, j, d) = MeantAt(r, j, d)
  <1>A. Len(r.list) \in Nat /\ Len(p.list) = k
    BY GoodFields DEF EndedAt
  <1>B. \A i \in 1..k : InScope(p, i, d) = InScope(r, i, d)
    BY DEF EndedAt
  <1> DEFINE S == TakenAt(p, j, d)
             T == TakenAt(r, j, d)
  <1>1. /\ S \subseteq (j + 1)..k /\ S \subseteq T /\ \A i \in T : i \in S \/ i > k
        /\ T \subseteq (j + 1)..Len(r.list)
    BY <1>A, <1>B DEF TakenAt
  <1>2. S \subseteq Int /\ T \subseteq Int /\ (\A i \in S : j + 1 <= i) /\ (\A i \in T : j + 1 <= i)
        /\ j + 1 \in Int /\ \A i \in S : i <= k /\ i \in 1..k
    BY <1>A, <1>1
  <1>3. S = {} => T = TakenAt(r, k, d)
    BY <1>A, <1>1 DEF TakenAt
  <1>4. MeantAt(p, j, d) = IF S = {} THEN p.ofile[d] ELSE InScope(p, Min(S), d)
    BY DEF MeantAt
  <1>5. MeantAt(r, j, d) = IF T = {} THEN r.ofile[d] ELSE InScope(r, Min(T), d)
    BY DEF MeantAt
  <1>6. p.ofile[d] = MeantAt(r, k, d)
    BY DEF EndedAt
  <1> HIDE DEF S, T
  <1>7. CASE S = {}
    <2>1. MeantAt(r, k, d) = IF T = {} THEN r.ofile[d] ELSE InScope(r, Min(T), d)
      BY <1>3, <1>7 DEF MeantAt
    <2> QED
      BY <1>4, <1>5, <1>6, <1>7, <2>1
  <1>8. CASE S # {}
    <2>1. Min(S) \in S /\ \A i \in S : Min(S) <= i
      BY <1>2, <1>8, MinOf
    <2>2. Min(T) \in T /\ \A i \in T : Min(T) <= i
      BY <1>1, <1>2, <1>8, MinOf
    <2>3. PICK a \in S : a = Min(S)
      BY <2>1
    <2>4. PICK b \in T : b = Min(T)
      BY <2>2
    <2>5. b <= a /\ a <= k /\ a \in Int /\ b \in Int
      BY <1>1, <1>2, <2>2, <2>3, <2>4
    <2>6. b \in S
      BY <1>1, <2>4, <2>5
    <2>7. a = b
      <3>1. a <= b
        BY <2>1, <2>3, <2>6
      <3> QED
        BY <2>5, <3>1
    <2>8. InScope(p, a, d) = InScope(r, a, d)
      BY <1>B, <1>2
    <2> QED
      BY <1>1, <1>4, <1>5, <1>8, <2>3, <2>4, <2>7, <2>8
  <1> QED
    BY <1>7, <1>8

LEMMA MoreEnded ==
  ASSUME NEW r, NEW fs, RdGood(r, fs), NEW k \in Nat, k <= Len(r.list), NEW p, EndedAt(r, k, p),
         NEW j \in Nat, j <= k, NEW q, EndedAt(p, j, q)
  PROVE  EndedAt(r, j, q)
  <1>1. Len(r.list) \in Nat /\ Len(p.list) = k /\ Len(q.list) = j
    BY GoodFields DEF EndedAt
  <1>2. \A i \in 1..k, d \in Fds : InScope(p, i, d) = InScope(r, i, d)
    BY DEF EndedAt
  <1>3. \A i \in 1..j, d \in Fds : InScope(q, i, d) = InScope(r, i, d)
    BY <1>1, <1>2 DEF EndedAt
  <1>4. \A d \in Fds : q.ofile[d] = MeantAt(r, j, d)
    BY MeantEnded DEF EndedAt
  <1> QED
    BY <1>1, <1>3, <1>4 DEF EndedAt

(* unwindredir() *)
LEMMA UnwindEnded ==
  ASSUME NEW r, NEW fs, RdGood(r, fs), NEW stop \in Nat, stop <= Len(r.list),
         NEW q, q = unwindredir(r, stop)
  PROVE  RdGood(q, fs) /\ EndedAt(r, stop, q)
  <1>1. Len(r.list) \in Nat
    BY GoodFields
  <1>2. PICK h : /\ h[Len(r.list)] = r /\ unwindredir(r, stop) = h[stop]
                 /\ \A k \in stop..(Len(r.list) - 1) : h[k] = popredir(h[k + 1], FALSE)
    BY <1>1, UnwindRedirSteps
  <1> DEFINE len == Len(r.list)
             Good(k) == RdGood(h[k], fs) /\ EndedAt(r, k, h[k])
             S == {d \in Nat : d <= len - stop => Good(len - d)}
  <1> HIDE DEF Good, len
  <1>3. 0 \in S
    <2>1. len - 0 = len
      BY <1>1 DEF len
    <2>2. Good(len)
      BY <1>1, <1>2, NoneEnded DEF Good, len
    <2> QED
      BY <2>1, <2>2
  <1>4. \A d \in Nat : d \in S => d + 1 \in S
    <2> SUFFICES ASSUME NEW d \in Nat, d \in S, d + 1 <= len - stop PROVE Good(len - (d + 1))
      OBVIOUS
    <2> DEFINE k == len - (d + 1)
    <2>1. k \in stop..(len - 1) /\ k + 1 = len - d /\ k + 1 > 0 /\ d <= len - stop /\ k \in Nat
          /\ k <= k + 1 /\ k + 1 <= len /\ k + 1 \in Nat /\ (k + 1) - 1 = k
      BY <1>1 DEF len
    <2>2. Good(k + 1)
      BY <2>1
    <2> HIDE DEF k
    <2>3. PICK u : u = h[k + 1]
      OBVIOUS
    <2>4. RdGood(u, fs) /\ EndedAt(r, k + 1, u) /\ h[k] = popredir(u, FALSE) /\ Len(u.list) = k + 1
      BY <1>2, <2>1, <2>2, <2>3 DEF Good, len, EndedAt
    <2>5. PICK w : w = popredir(u, FALSE)
      OBVIOUS
    <2>6. RdGood(w, fs) /\ EndedAt(u, k, w)
      <3>1. Len(u.list) > 0 /\ Len(u.list) - 1 = k
        BY <2>1, <2>4
      <3>2. RdGood(w, fs) /\ EndedAt(u, Len(u.list) - 1, w)
        BY <2>4, <2>5, <3>1, OneEnded
      <3> QED
        BY <3>1, <3>2
    <2>7. EndedAt(r, k, w)
      <3>1. k + 1 <= Len(r.list) /\ k + 1 \in Nat /\ k \in Nat /\ k <= k + 1
        BY <2>1 DEF len
      <3> QED
        BY <2>4, <2>6, <3>1, MoreEnded
    <2>8. Good(k)
      BY <2>4, <2>5, <2>6, <2>7 DEF Good
    <2> QED
      BY <2>8 DEF k
  <1>5. Good(stop)
    <2>1. len - stop \in Nat /\ len - (len - stop) = stop /\ len - stop <= len - stop
      BY <1>1 DEF len
    <2>2. len - stop \in S
      <3> HIDE DEF S
      <3> QED
        BY <1>3, <1>4, <2>1, NatSetInduction
    <2> QED
      BY <2>1, <2>2
  <1> QED
    BY <1>2, <1>5 DEF Good

(* What a command that fails makes of redirections before it ends is taken *)
(* back with it.                                                           *)
LEMMA PushedEnded ==
  ASSUME NEW r, NEW fs, RdGood(r, fs), NEW p, NEW gs, RdGood(p, gs), PushedOn(r, p),
         NEW k \in Nat, k <= Len(r.list), NEW q, EndedAt(p, k, q)
  PROVE  EndedAt(r, k, q)
  <1>1. PICK n \in Nat : n = Len(r.list)
    BY GoodFields
  <1>2. /\ Len(p.list) = n + 1 /\ \A i \in 1..n, d \in Fds : InScope(p, i, d) = InScope(r, i, d)
        /\ \A d \in Fds : \/ InScope(p, n + 1, d) = r.ofile[d]
                          \/ InScope(p, n + 1, d) = KeepFd /\ p.ofile[d] = r.ofile[d]
    BY <1>1 DEF PushedOn
  <1>3. \A d \in Fds : r.ofile[d] # KeepFd
    <2>1. r \in RdType
      BY GoodFields
    <2>2. r.ofile \in [Desc -> OnDescriptors]
      BY <2>1, RdFields
    <2> QED
      BY <2>2, DescFacts, OnDescriptor
  <1>4. \A d \in Fds : r.ofile[d] = MeantAt(p, n, d)
    BY <1>2, <1>3, OneMeant
  <1>5. EndedAt(p, n, r)
    BY <1>1, <1>2, <1>4 DEF EndedAt
  <1>6. \A d \in Fds : MeantAt(r, k, d) = MeantAt(p, k, d)
    <2>1. n <= Len(p.list) /\ k <= n
      BY <1>1, <1>2
    <2> QED
      BY <1>5, <2>1, MeantEnded
  <1>7. \A i \in 1..k : i \in 1..n
    BY <1>1
  <1> QED
    BY <1>2, <1>6, <1>7 DEF EndedAt

(* unwindfiles() *)
LEMMA FilesEnded ==
  ASSUME NEW r, NEW fs, RdGood(r, fs), NEW stop \in Nat, stop <= Len(fs),
         NEW q, q = unwindfiles(r, fs, stop)
  PROVE  /\ RdGood(q, SubSeq(fs, 1, stop)) /\ (q.ok <=> r.ok)
         /\ Len(q.list) = Len(r.list) /\ \A d \in Fds : q.ofile[d] = r.ofile[d]
         /\ \A i \in 1..Len(r.list), d \in Fds : InScope(q, i, d) = InScope(r, i, d)
  <1>1. PICK n \in Nat : n = Len(fs) /\ stop \in 0..Len(fs)
    BY GoodFields
  <1>2. PICK gs : gs = SubSeq(fs, 1, stop)
    OBVIOUS
  <1>3. /\ gs \in FilesType /\ Len(gs) = stop
        /\ \A j \in 1..stop : gs[j] = fs[j] /\ j \in 1..n
    <2>1. fs \in Seq({-1} \cup High)
      BY GoodFields DEF FilesType
    <2> QED
      BY <1>1, <1>2, <2>1, Cut DEF FilesType
  <1>4. /\ r \in RdType /\ fs \in FilesType /\ OneOwner(r.list, fs)
        /\ \A i \in 1..Len(r.list), d \in Fds : r.list[i][d] \in {EMPTY, CLOSED} \cup High
        /\ \A x \in Desc \ Fds : IsOpen(r, x) <=> InTables(r.list, x) \/ InFiles(fs, x)
        /\ \A d \in r.closed : ~IsOpen(r, d)
        /\ \A j \in 1..n : fs[j] \in {-1} \cup High
    BY <1>1, GoodFields DEF RdGood
  <1>5. /\ \A i, j \in 1..Len(r.list) : \A d, e \in Fds :
              r.list[i][d] = r.list[j][e] /\ r.list[i][d] \in High => i = j /\ d = e
        /\ \A i, j \in 1..n : fs[i] = fs[j] /\ fs[i] \in High => i = j
        /\ \A i \in 1..Len(r.list) : \A d \in Fds : r.list[i][d] \in High => ~InFiles(fs, r.list[i][d])
    BY <1>1, <1>4 DEF OneOwner
  <1>6. /\ r.list \in Seq(SavedTable) /\ r.closed \in SUBSET Fds /\ r.ofile \in [Desc -> OnDescriptors]
        /\ r = [list |-> r.list, closed |-> r.closed, ofile |-> r.ofile, ok |-> r.ok]
    BY <1>4, RdFields
  <1> DEFINE fds == {fs[i] : i \in (stop + 1)..Len(fs)} \ {-1}
             o == [d \in Desc |-> IF d \in fds THEN NoFile ELSE r.ofile[d]]
  <1>7. q = [list |-> r.list, closed |-> r.closed, ofile |-> o, ok |-> r.ok]
    <2>1. q = [r EXCEPT !.ofile = o]
      BY DEF unwindfiles
    <2> HIDE DEF o
    <2> QED
      BY <1>6, <2>1
  <1>8. o \in [Desc -> OnDescriptors] /\ \A x \in Desc : o[x] = IF x \in fds THEN NoFile ELSE r.ofile[x]
    BY <1>6, OnDescriptor
  <1>9. \A x \in Desc : x \in fds <=> \E j \in (stop + 1)..n : fs[j] = x
    <2>1. \A x \in Desc : x # -1
      BY HighFacts
    <2> QED
      BY <1>1, <2>1
  <1> HIDE DEF o, fds
  <1>10. q \in RdType /\ q.list = r.list /\ q.closed = r.closed /\ q.ofile = o /\ (q.ok <=> r.ok)
    BY <1>4, <1>6, <1>7, <1>8 DEF RdType
  <1>11. \A j \in (stop + 1)..n : j \in 1..n /\ j \notin 1..stop
    BY <1>1
  <1>12. \A x \in Desc : x \in fds => x \in High /\ InFiles(fs, x) /\ ~InTables(r.list, x) /\ ~InFiles(gs, x)
    <2> SUFFICES ASSUME NEW x \in Desc, x \in fds
                 PROVE  x \in High /\ InFiles(fs, x) /\ ~InTables(r.list, x) /\ ~InFiles(gs, x)
      OBVIOUS
    <2>1. PICK j \in (stop + 1)..n : fs[j] = x
      BY <1>9
    <2>2. x \in High /\ InFiles(fs, x) /\ j \in 1..n
      <3>1. x # -1 /\ j \in 1..n
        BY <1>11, HighFacts
      <3> QED
        BY <1>1, <1>4, <2>1, <3>1 DEF InFiles
    <2>3. ~InTables(r.list, x)
      BY <1>5, <2>2 DEF InTables
    <2>4. ~InFiles(gs, x)
      <3> SUFFICES ASSUME NEW i \in 1..stop, gs[i] = x PROVE FALSE
        BY <1>3 DEF InFiles
      <3>1. fs[i] = x /\ i \in 1..n
        BY <1>3
      <3>2. i = j
        BY <1>5, <2>1, <2>2, <3>1
      <3> QED
        BY <1>11, <3>2
    <2> QED
      BY <2>2, <2>3, <2>4
  <1>13. \A x \in Desc : InFiles(fs, x) <=> x \in fds \/ InFiles(gs, x)
    <2>1. \A j \in 1..n : j \in 1..stop \/ j \in (stop + 1)..n
      BY <1>1
    <2>2. ASSUME NEW x \in Desc, InFiles(fs, x), x \notin fds PROVE InFiles(gs, x)
      <3>1. PICK j \in 1..n : fs[j] = x
        BY <1>1, <2>2 DEF InFiles
      <3>2. j \in 1..stop
        BY <1>9, <2>1, <2>2, <3>1
      <3> QED
        BY <1>3, <3>1, <3>2 DEF InFiles
    <2>3. ASSUME NEW x \in Desc, InFiles(gs, x) PROVE InFiles(fs, x)
      <3>1. PICK j \in 1..stop : gs[j] = x
        BY <1>3, <2>3 DEF InFiles
      <3>2. fs[j] = x /\ j \in 1..n
        BY <1>3, <3>1
      <3> QED
        BY <1>1, <3>2 DEF InFiles
    <2> QED
      BY <1>12, <2>2, <2>3
  <1>14. \A x \in Desc \ Fds : IsOpen(q, x) <=> InTables(q.list, x) \/ InFiles(gs, x)
    BY <1>4, <1>8, <1>10, <1>12, <1>13 DEF IsOpen
  <1>15. OneOwner(q.list, gs)
    <2>1. \A i, j \in 1..Len(gs) : gs[i] = gs[j] /\ gs[i] \in High => i = j
      <3> SUFFICES ASSUME NEW i \in 1..stop, NEW j \in 1..stop, gs[i] = gs[j], gs[i] \in High
                   PROVE  i = j
        BY <1>3
      <3>1. fs[i] = fs[j] /\ fs[i] \in High /\ i \in 1..n /\ j \in 1..n
        BY <1>3
      <3> QED
        BY <1>5, <3>1
    <2>2. \A i \in 1..Len(r.list) : \A d \in Fds : r.list[i][d] \in High => ~InFiles(gs, r.list[i][d])
      <3>1. \A x \in High : x \in Desc
        BY HighFacts
      <3> QED
        BY <1>5, <1>13, <3>1
    <2> QED
      BY <1>5, <1>10, <2>1, <2>2 DEF OneOwner
  <1>16. \A d \in Fds : d \in Desc /\ d \notin High
    BY HighFacts
  <1>17. \A d \in Fds : o[d] = r.ofile[d]
    BY <1>8, <1>12, <1>16
  <1>18. \A d \in q.closed : ~IsOpen(q, d)
    BY <1>4, <1>6, <1>10, <1>17 DEF IsOpen
  <1>19. ASSUME NEW i \in 1..Len(r.list), NEW d \in Fds PROVE InScope(q, i, d) = InScope(r, i, d)
    <2>1. PICK p \in {EMPTY, CLOSED} \cup High : p = r.list[i][d]
      BY <1>4
    <2>2. ASSUME p \in High PROVE o[p] = r.ofile[p]
      <3>1. InTables(r.list, p) /\ p \in Desc
        BY <2>1, <2>2, HighFacts DEF InTables
      <3> QED
        BY <1>8, <1>12, <3>1
    <2>3. SavedFor(q, p) = SavedFor(r, p)
      <3>1. CASE p = EMPTY
        BY <1>4, <1>10, <3>1, SavedKinds
      <3>2. CASE p = CLOSED
        BY <1>4, <1>10, <3>2, SavedKinds
      <3>3. CASE p \in High
        <4>1. SavedFor(q, p) = q.ofile[p]
          BY <1>10, <3>3, SavedKinds
        <4>2. SavedFor(r, p) = r.ofile[p]
          BY <1>4, <3>3, SavedKinds
        <4> QED
          BY <1>10, <2>2, <3>3, <4>1, <4>2
      <3> QED
        BY <3>1, <3>2, <3>3
    <2> QED
      BY <1>10, <2>1, <2>3 DEF InScope
  <1> QED
    BY <1>2, <1>3, <1>10, <1>14, <1>15, <1>17, <1>18, <1>19 DEF RdGood

-----------------------------------------------------------------------------
(* What steps do to redirections *)

ScopesSame(r, q) ==
    /\ Len(q.list) = Len(r.list)
    /\ \A i \in 1..Len(r.list), d \in Fds : InScope(q, i, d) = InScope(r, i, d)
FilesSame(r, q) == ScopesSame(r, q) /\ \A d \in Fds : q.ofile[d] = r.ofile[d]
RdMoves(r, q) ==
    FilesSame(r, q) \/ PushedOn(r, q) \/ \E k \in Nat : k <= Len(r.list) /\ EndedAt(r, k, q)

LEMMA HeightsBounded ==
  ASSUME Types, Stacks, pc = "run"
  PROVE  Len(rd.list) <= Depth /\ Len(files) <= Depth /\ Depth <= MaxDepth /\ Depth \in Nat
  <1>1. Len(frames) \in Nat /\ Depth = Len(frames) /\ Depth <= MaxDepth
    BY Unpacked DEF FramesType
  <1>2. Stacked(frames, Len(rd.list), Len(lv.stack), Len(files))
    BY DEF Stacks
  <1>3. ASSUME NEW P PROVE Height(frames, Depth, P) <= Depth
    <2>1. IsFiniteSet(1..Depth) /\ Cardinality(1..Depth) = Depth
      <3>1. 1 \in Int /\ Depth \in Int
        BY <1>1
      <3>2. IsFiniteSet(1..Depth) /\ Cardinality(1..Depth) = IF 1 > Depth THEN 0 ELSE Depth - 1 + 1
        BY <3>1, FS_Interval
      <3> QED
        BY <1>1, <3>2
    <2>2. Below(frames, Depth, P) \in SUBSET (1..Depth)
      BY DEF Below
    <2> QED
      BY <2>1, <2>2, FS_Subset DEF Height
  <1> QED
    BY <1>1, <1>2, <1>3 DEF Stacked

LEMMA FrameStops ==
  ASSUME Types, Stacks, pc = "run", NEW i \in 1..Len(frames)
  PROVE  /\ frames[i].stop.redir \in Nat /\ frames[i].stop.file \in Nat
         /\ frames[i].stop.redir <= Len(rd.list) /\ frames[i].stop.file <= Len(files)
         /\ frames[i].redir => frames[i].stop.redir < Len(rd.list)
         /\ frames[i].kind = "block" => frames[i].redir
  <1>1. frames \in Seq(FrameType) /\ frames[i] \in FrameType /\ Len(rd.list) \in Nat /\ Len(files) \in Nat
    BY Unpacked
  <1>2. /\ frames[i].stop.redir \in Nat /\ frames[i].stop.file \in Nat
        /\ (frames[i] \in WithRedir <=> frames[i].redir)
        /\ frames[i].kind = "block" => frames[i].redir
    BY <1>1, FrameFields
  <1>3. Stacked(frames, Len(rd.list), Len(lv.stack), Len(files))
    BY DEF Stacks
  <1>4. /\ frames[i].stop.redir + (IF frames[i] \in WithRedir THEN 1 ELSE 0) <= Len(rd.list)
        /\ frames[i].stop.file + (IF frames[i] \in WithFile THEN 1 ELSE 0) <= Len(files)
    BY <1>1, <1>3, CutFrames
  <1> QED
    BY <1>1, <1>2, <1>4

(* The files are given up, the scopes stay. *)
LEMMA FilesUnwound ==
  ASSUME NEW r, NEW fs, NEW p, RdGood(p, fs), NEW k \in Nat, EndedAt(r, k, p),
         NEW stop \in Nat, stop <= Len(fs), NEW q, q = unwindfiles(p, fs, stop)
  PROVE  RdGood(q, SubSeq(fs, 1, stop)) /\ EndedAt(r, k, q)
  <1>1. /\ RdGood(q, SubSeq(fs, 1, stop))
        /\ Len(q.list) = Len(p.list) /\ \A d \in Fds : q.ofile[d] = p.ofile[d]
        /\ \A i \in 1..Len(p.list), d \in Fds : InScope(q, i, d) = InScope(p, i, d)
    BY FilesEnded
  <1> QED
    BY <1>1 DEF EndedAt

LEMMA OutEnded ==
  ASSUME NEW r, RdGood(rd, files), RdGood(r, files), r = rd \/ PushedOn(rd, r),
         NEW f, f.stop.redir \in Nat, f.stop.redir <= Len(rd.list),
         f.redir => f.stop.redir < Len(r.list),
         f.stop.file \in Nat, f.stop.file <= Len(files),
         NEW v, Out(f, r, v)
  PROVE  RdGood(rd', files') /\ RdMoves(rd, rd')
  <1>1. PICK p : p = IF f.redir THEN popredir(r, FALSE) ELSE r
    OBVIOUS
  <1>2. PICK k \in Nat : k = f.stop.redir /\ k <= Len(rd.list)
    OBVIOUS
  <1>3. PICK stop \in Nat : stop = f.stop.file /\ stop <= Len(files)
    OBVIOUS
  <1>4. PICK u : u = unwindredir(p, k)
    OBVIOUS
  <1>5. rd' = unwindfiles(u, files, stop) /\ files' = SubSeq(files, 1, stop)
    BY <1>1, <1>2, <1>3, <1>4 DEF Out
  <1>6. Len(r.list) \in Nat /\ Len(rd.list) \in Nat
    BY GoodFields
  <1>7. k <= Len(r.list)
    <2>1. PushedOn(rd, r) => Len(r.list) = Len(rd.list) + 1
      BY DEF PushedOn
    <2> QED
      BY <1>2, <1>6, <2>1
  <1>8. RdGood(u, files) /\ EndedAt(r, k, u)
    <2>1. CASE f.redir
      <3>1. PICK m \in Nat : m = Len(r.list) - 1 /\ k <= m /\ m <= Len(r.list) /\ Len(r.list) > 0
        <4>1. k < Len(r.list)
          BY <1>2, <2>1
        <4>2. Len(r.list) - 1 \in Nat /\ k <= Len(r.list) - 1 /\ Len(r.list) > 0
              /\ Len(r.list) - 1 <= Len(r.list)
          BY <1>2, <1>6, <4>1
        <4> QED
          BY <4>2
      <3>2. RdGood(p, files) /\ EndedAt(r, m, p)
        <4>1. p = popredir(r, FALSE)
          BY <1>1, <2>1
        <4>2. RdGood(p, files) /\ EndedAt(r, Len(r.list) - 1, p)
          BY <3>1, <4>1, OneEnded
        <4> QED
          BY <3>1, <4>2
      <3>3. k <= Len(p.list)
        BY <3>1, <3>2 DEF EndedAt
      <3>4. RdGood(u, files) /\ EndedAt(p, k, u)
        BY <1>4, <3>2, <3>3, UnwindEnded
      <3> QED
        BY <3>1, <3>2, <3>4, MoreEnded
    <2>2. CASE ~f.redir
      <3>1. p = r
        BY <1>1, <2>2
      <3> QED
        BY <1>4, <1>7, <3>1, UnwindEnded
    <2> QED
      BY <2>1, <2>2
  <1>9. EndedAt(rd, k, u)
    <2>1. CASE r = rd
      BY <1>8, <2>1
    <2>2. CASE PushedOn(rd, r)
      BY <1>2, <1>8, <2>2, PushedEnded
    <2> QED
      BY <2>1, <2>2
  <1>10. RdGood(rd', files') /\ EndedAt(rd, k, rd')
    BY <1>3, <1>5, <1>8, <1>9, FilesUnwound
  <1> QED
    BY <1>2, <1>10 DEF RdMoves

LEMMA RaisedEnded ==
  ASSUME Types, Stacks, pc = "run", NEW r, RdGood(rd, files), RdGood(r, files),
         r = rd \/ PushedOn(rd, r), NEW e, NEW v, Exraise(e, frames, r, v)
  PROVE  RdGood(rd', files') /\ RdMoves(rd, rd')
  <1>0. FramesType /\ Len(rd.list) \in Nat /\ Len(files) \in Nat /\ Len(r.list) \in Nat
    BY Unpacked, GoodFields
  <1> DEFINE H == {i \in DOMAIN frames : Catches(e, frames[i])}
  <1>1. CASE H # {}
    <2>1. PICK i \in 1..Len(frames) : i = Max(H)
      BY <1>0, <1>1, Handler
    <2>2. PICK f : f = frames[i]
      OBVIOUS
    <2>3. Out(f, r, v)
      BY <1>1, <2>1, <2>2 DEF Exraise
    <2>4. /\ f.stop.redir \in Nat /\ f.stop.file \in Nat
          /\ f.stop.redir <= Len(rd.list) /\ f.stop.file <= Len(files)
          /\ f.redir => f.stop.redir < Len(rd.list)
      BY <2>2, FrameStops
    <2>5. f.redir => f.stop.redir < Len(r.list)
      <3>1. PushedOn(rd, r) => Len(r.list) = Len(rd.list) + 1
        BY DEF PushedOn
      <3> QED
        BY <1>0, <2>4, <3>1
    <2> QED
      BY <2>3, <2>4, <2>5, OutEnded
  <1>2. CASE H = {}
    <2>1. PICK u : u = unwindredir(r, 0)
      OBVIOUS
    <2>2. RdGood(u, files) /\ EndedAt(r, 0, u)
      <3>1. 0 \in Nat /\ 0 <= Len(r.list)
        BY <1>0
      <3> QED
        BY <2>1, <3>1, UnwindEnded
    <2>3. EndedAt(rd, 0, u)
      <3>1. 0 \in Nat /\ 0 <= Len(rd.list)
        BY <1>0
      <3>2. CASE r = rd
        BY <2>2, <3>2
      <3>3. CASE PushedOn(rd, r)
        BY <2>2, <3>1, <3>3, PushedEnded
      <3> QED
        BY <3>2, <3>3
    <2>4. RdGood(rd', files') /\ EndedAt(rd, 0, rd')
      <3>1. CASE iflag /\ e \in {"EXERROR", "EXINT"}
        <4>1. rd' = unwindfiles(u, files, 0) /\ files' = << >>
          BY <1>2, <2>1, <3>1 DEF Exraise
        <4>2. 0 \in Nat /\ 0 <= Len(files)
          BY <1>0
        <4>3. SubSeq(files, 1, 0) = << >>
          <5>1. files \in Seq(Place) /\ 0 \in 0..Len(files)
            BY <1>0, Unpacked
          <5>2. SubSeq(files, 1, 0) \in Seq(Place) /\ Len(SubSeq(files, 1, 0)) = 0
            BY <5>1, Cut
          <5> QED
            BY <5>2
        <4>4. RdGood(rd', SubSeq(files, 1, 0)) /\ EndedAt(rd, 0, rd')
          BY <2>2, <2>3, <4>1, <4>2, FilesUnwound
        <4> QED
          BY <4>1, <4>3, <4>4
      <3>2. CASE ~(iflag /\ e \in {"EXERROR", "EXINT"})
        <4>1. rd' = u /\ files' = files
          BY <1>2, <2>1, <3>2 DEF Exraise, exitreset
        <4> QED
          BY <2>2, <2>3, <4>1
      <3> QED
        BY <3>1, <3>2
    <2> QED
      BY <1>0, <2>4 DEF RdMoves
  <1> QED
    BY <1>1, <1>2

(* The redirections of a command that may have none. *)
LEMMA OwnRedirections ==
  ASSUME EnoughDescriptors, Types, Stacks, pc = "run", RdGood(rd, files), NEW rs \in Redirs,
         NEW r, r = redirect(pushredir(rd, rs), rs)
  PROVE  /\ RdGood(r, files)
         /\ rs = << >> => r = rd
         /\ rs # << >> => PushedOn(rd, r)
  <1>1. rs \in Seq(Redirection)
    BY Numbers
  <1>2. CASE rs = << >>
    <2>1. pushredir(rd, rs) = rd /\ Len(rs) = 0
      BY <1>2 DEF pushredir
    <2>2. Len(rs) \in Nat
      BY <2>1
    <2>3. redirect(rd, rs) = rd
      <3>1. PICK h : h[0] = rd /\ redirect(rd, rs) = h[Len(rs)]
        BY <2>2, RedirectSteps
      <3> QED
        BY <2>1, <3>1
    <2> QED
      BY <1>2, <2>1, <2>3
  <1>3. CASE rs # << >>
    <2>1. Len(rd.list) <= MaxDepth /\ Len(files) <= MaxDepth
      <3>1. Len(rd.list) <= Depth /\ Len(files) <= Depth /\ Depth <= MaxDepth /\ Depth \in Nat
        BY HeightsBounded
      <3>2. Len(rd.list) \in Nat /\ Len(files) \in Nat /\ MaxDepth \in Nat
        BY Unpacked, Numbers
      <3> QED
        BY <3>1, <3>2
    <2> QED
      BY <1>1, <1>3, <2>1, RedirectGood
  <1> QED
    BY <1>2, <1>3

(* eval reads from a string. *)
LEMMA StringRead ==
  ASSUME NEW r, NEW fs, RdGood(r, fs)
  PROVE  RdGood(r, Append(fs, -1))
  <1>1. PICK gs : gs = Append(fs, -1)
    OBVIOUS
  <1>2. PICK n \in Nat : n = Len(fs)
    BY GoodFields
  <1>3. /\ gs \in FilesType /\ Len(gs) = n + 1 /\ gs[n + 1] = -1
        /\ \A j \in 1..n : gs[j] = fs[j]
    <2>1. fs \in Seq({-1} \cup High) /\ -1 \in {-1} \cup High
      BY GoodFields DEF FilesType
    <2> QED
      BY <1>1, <1>2, <2>1, Appended DEF FilesType
  <1>4. \A j \in 1..(n + 1) : j \in 1..n \/ j = n + 1
    BY <1>2
  <1>5. \A j \in 1..n : j \in 1..(n + 1)
    BY <1>2
  <1>6. \A x \in Desc : x # -1
    BY HighFacts
  <1>7. \A x \in Desc : InFiles(gs, x) <=> InFiles(fs, x)
    <2>1. ASSUME NEW x \in Desc, InFiles(gs, x) PROVE InFiles(fs, x)
      <3>1. PICK j \in 1..(n + 1) : gs[j] = x
        BY <1>3, <2>1 DEF InFiles
      <3>2. j \in 1..n /\ fs[j] = x
        BY <1>3, <1>4, <1>6, <3>1
      <3> QED
        BY <1>2, <3>2 DEF InFiles
    <2>2. ASSUME NEW x \in Desc, InFiles(fs, x) PROVE InFiles(gs, x)
      <3>1. PICK j \in 1..n : fs[j] = x
        BY <1>2, <2>2 DEF InFiles
      <3>2. j \in 1..(n + 1) /\ gs[j] = x
        BY <1>3, <1>5, <3>1
      <3> QED
        BY <1>3, <3>2 DEF InFiles
    <2> QED
      BY <2>1, <2>2
  <1>8. \A x \in High : x \in Desc
    BY HighFacts
  <1>9. OneOwner(r.list, gs)
    <2>1. OneOwner(r.list, fs)
      BY DEF RdGood
    <2>2. \A i, j \in 1..Len(gs) : gs[i] = gs[j] /\ gs[i] \in High => i = j
      <3> SUFFICES ASSUME NEW i \in 1..(n + 1), NEW j \in 1..(n + 1), gs[i] = gs[j], gs[i] \in High
                   PROVE  i = j
        BY <1>3
      <3>1. i \in 1..n /\ j \in 1..n
        BY <1>3, <1>4, <1>6, <1>8
      <3>2. fs[i] = fs[j] /\ fs[i] \in High
        BY <1>3, <3>1
      <3> QED
        BY <1>2, <2>1, <3>1, <3>2 DEF OneOwner
    <2>3. \A i \in 1..Len(r.list) : \A d \in Fds : r.list[i][d] \in High => ~InFiles(gs, r.list[i][d])
      BY <1>7, <1>8, <2>1 DEF OneOwner
    <2> QED
      BY <2>1, <2>2, <2>3 DEF OneOwner
  <1> QED
    BY <1>1, <1>3, <1>7, <1>9 DEF RdGood

(* A dot script is read from a descriptor that was free. *)
LEMMA ScriptRead ==
  ASSUME NEW r, NEW fs, RdGood(r, fs), NEW low \in High, ~IsOpen(r, low),
         NEW q, q = PutFile(r, low, Scripts)
  PROVE  RdGood(q, Append(fs, low)) /\ ScopesSame(r, q)
  <1>1. PICK gs : gs = Append(fs, low)
    OBVIOUS
  <1>2. PICK n \in Nat : n = Len(fs)
    BY GoodFields
  <1>3. /\ gs \in FilesType /\ Len(gs) = n + 1 /\ gs[n + 1] = low
        /\ \A j \in 1..n : gs[j] = fs[j]
    <2>1. fs \in Seq({-1} \cup High) /\ low \in {-1} \cup High
      BY GoodFields DEF FilesType
    <2> QED
      BY <1>1, <1>2, <2>1, Appended DEF FilesType
  <1>4. \A j \in 1..(n + 1) : j \in 1..n \/ j = n + 1
    BY <1>2
  <1>5. \A j \in 1..n : j \in 1..(n + 1)
    BY <1>2
  <1>6. r \in RdType /\ low \in Desc /\ low \notin Fds /\ Scripts \in OnDescriptors
    BY GoodFields, HighFacts, OnDescriptor
  <1>7. /\ q \in RdType /\ q.list = r.list /\ q.closed = r.closed
        /\ q.ofile[low] = Scripts /\ \A y \in Desc \ {low} : q.ofile[y] = r.ofile[y]
    BY <1>6, SetFile DEF FileSet
  <1>8. /\ \A x \in High : IsOpen(r, x) <=> InTables(r.list, x) \/ InFiles(fs, x)
        /\ \A i \in 1..Len(r.list), d \in Fds : r.list[i][d] \in {EMPTY, CLOSED} \cup High
        /\ \A i \in 1..Len(r.list), d \in Fds : r.list[i][d] \in High => IsOpen(r, r.list[i][d])
        /\ \A d \in r.closed : ~IsOpen(r, d) /\ d \in Fds
    <2>1. r.closed \subseteq Fds
      BY <1>6, RdFields
    <2> QED
      BY <2>1, GoodFields
  <1>9. \A x \in Desc : InFiles(gs, x) <=> InFiles(fs, x) \/ x = low
    <2>1. ASSUME NEW x \in Desc, InFiles(gs, x), x # low PROVE InFiles(fs, x)
      <3>1. PICK j \in 1..(n + 1) : gs[j] = x
        BY <1>3, <2>1 DEF InFiles
      <3>2. j \in 1..n /\ fs[j] = x
        BY <1>3, <1>4, <2>1, <3>1
      <3> QED
        BY <1>2, <3>2 DEF InFiles
    <2>2. ASSUME NEW x \in Desc, InFiles(fs, x) PROVE InFiles(gs, x)
      <3>1. PICK j \in 1..n : fs[j] = x
        BY <1>2, <2>2 DEF InFiles
      <3>2. j \in 1..(n + 1) /\ gs[j] = x
        BY <1>3, <1>5, <3>1
      <3> QED
        BY <1>3, <3>2 DEF InFiles
    <2>3. InFiles(gs, low)
      <3>1. n + 1 \in 1..(n + 1)
        BY <1>2
      <3> QED
        BY <1>3, <3>1 DEF InFiles
    <2> QED
      BY <2>1, <2>2, <2>3
  <1>10. ~InTables(r.list, low) /\ ~InFiles(fs, low)
    BY <1>8
  <1>11. \A x \in Desc \ Fds : IsOpen(q, x) <=> InTables(q.list, x) \/ InFiles(gs, x)
    <2> SUFFICES ASSUME NEW x \in Desc \ Fds PROVE IsOpen(q, x) <=> InTables(q.list, x) \/ InFiles(gs, x)
      OBVIOUS
    <2>1. IsOpen(r, x) <=> InTables(r.list, x) \/ InFiles(fs, x)
      BY DEF RdGood
    <2>2. CASE x = low
      BY <1>7, <1>9, <2>2, OnDescriptor DEF IsOpen
    <2>3. CASE x # low
      BY <1>7, <1>9, <2>1, <2>3 DEF IsOpen
    <2> QED
      BY <2>2, <2>3
  <1>12. \A x \in High : x \in Desc
    BY HighFacts
  <1>13. OneOwner(q.list, gs)
    <2>1. OneOwner(r.list, fs)
      BY DEF RdGood
    <2>2. \A i, j \in 1..Len(gs) : gs[i] = gs[j] /\ gs[i] \in High => i = j
      <3> SUFFICES ASSUME NEW i \in 1..(n + 1), NEW j \in 1..(n + 1), gs[i] = gs[j], gs[i] \in High
                   PROVE  i = j
        BY <1>3
      <3>0. \A k \in 1..n : gs[k] # low
        BY <1>2, <1>3, <1>10 DEF InFiles
      <3>1. CASE i \in 1..n /\ j \in 1..n
        <4>1. fs[i] = fs[j] /\ fs[i] \in High
          BY <1>3, <3>1
        <4> QED
          BY <1>2, <2>1, <3>1, <4>1 DEF OneOwner
      <3>2. CASE i = n + 1 /\ j = n + 1
        BY <3>2
      <3>3. CASE i = n + 1 /\ j \in 1..n
        BY <1>3, <3>0, <3>3
      <3>4. CASE i \in 1..n /\ j = n + 1
        BY <1>3, <3>0, <3>4
      <3> QED
        BY <1>4, <3>1, <3>2, <3>3, <3>4
    <2>3. \A i \in 1..Len(r.list) : \A d \in Fds : r.list[i][d] \in High => ~InFiles(gs, r.list[i][d])
      <3> SUFFICES ASSUME NEW i \in 1..Len(r.list), NEW d \in Fds, r.list[i][d] \in High
                   PROVE  ~InFiles(gs, r.list[i][d])
        OBVIOUS
      <3>1. ~InFiles(fs, r.list[i][d])
        BY <2>1 DEF OneOwner
      <3>2. r.list[i][d] # low
        BY <1>10 DEF InTables
      <3> QED
        BY <1>9, <1>12, <3>1, <3>2
    <2> QED
      BY <1>7, <2>1, <2>2, <2>3 DEF OneOwner
  <1>14. \A d \in q.closed : ~IsOpen(q, d)
    BY <1>6, <1>7, <1>8, DescFacts DEF IsOpen
  <1>15. ScopesSame(r, q)
    <2>1. ASSUME NEW i \in 1..Len(r.list), NEW d \in Fds PROVE InScope(q, i, d) = InScope(r, i, d)
      <3>1. PICK p \in {EMPTY, CLOSED} \cup High : p = r.list[i][d] /\ q.list[i][d] = p
        BY <1>7, <1>8
      <3>2. CASE p \in High
        <4>1. p # low /\ p \in Desc
          BY <1>8, <1>12, <3>1, <3>2
        <4>2. q.ofile[p] = r.ofile[p]
          BY <1>7, <4>1
        <4>3. SavedFor(q, p) = q.ofile[p]
          BY <1>7, <3>2, SavedKinds
        <4>4. SavedFor(r, p) = r.ofile[p]
          BY <1>6, <3>2, SavedKinds
        <4> QED
          BY <3>1, <4>2, <4>3, <4>4 DEF InScope
      <3>3. CASE p = EMPTY
        BY <1>6, <1>7, <3>1, <3>3, SavedKinds DEF InScope
      <3>4. CASE p = CLOSED
        BY <1>6, <1>7, <3>1, <3>4, SavedKinds DEF InScope
      <3> QED
        BY <3>2, <3>3, <3>4
    <2> QED
      BY <1>7, <2>1 DEF ScopesSame
  <1> QED
    BY <1>1, <1>3, <1>7, <1>11, <1>13, <1>14, <1>15 DEF RdGood

(* What a redirection that is to stay leaves of its scope: nothing. *)
LEMMA GivenUp ==
  ASSUME NEW r, NEW fs, RdGood(r, fs), NEW p, RdGood(p, fs), PushedOn(r, p),
         NEW q, q = popredir(p, TRUE)
  PROVE  RdGood(q, fs) /\ ScopesSame(r, q)
  <1>1. PICK n \in Nat : n = Len(r.list)
    BY GoodFields
  <1>2. /\ Len(p.list) = n + 1 /\ Len(p.list) > 0 /\ Len(p.list) - 1 = n
        /\ \A i \in 1..n, d \in Fds : InScope(p, i, d) = InScope(r, i, d)
    BY <1>1 DEF PushedOn
  <1>3. PoppedTo(p, q, TRUE)
    <2>1. TRUE \in BOOLEAN
      OBVIOUS
    <2> QED
      BY <1>2, <2>1, PopOne
  <1>4. /\ RdGood(q, fs)
        /\ \A i \in 1..(Len(p.list) - 1), d \in Fds : InScope(q, i, d) = InScope(p, i, d)
    BY <1>2, <1>3, PoppedGood
  <1>5. Len(q.list) = n
    BY <1>2, <1>3 DEF PoppedTo
  <1> QED
    BY <1>1, <1>2, <1>4, <1>5 DEF ScopesSame

(* And of one that failed. *)
LEMMA TakenBack ==
  ASSUME NEW r, NEW fs, RdGood(r, fs), NEW p, RdGood(p, fs), PushedOn(r, p),
         NEW q, q = popredir(p, FALSE)
  PROVE  RdGood(q, fs) /\ RdMoves(r, q)
  <1>1. PICK n \in Nat : n = Len(r.list)
    BY GoodFields
  <1>2. Len(p.list) = n + 1 /\ Len(p.list) > 0 /\ Len(p.list) - 1 = n
    BY <1>1 DEF PushedOn
  <1>3. RdGood(q, fs) /\ EndedAt(p, Len(p.list) - 1, q)
    BY <1>2, OneEnded
  <1>4. EndedAt(r, n, q)
    <2>1. EndedAt(p, n, q)
      BY <1>2, <1>3
    <2>2. n <= Len(r.list)
      BY <1>1
    <2> QED
      BY <1>3, <2>1, <2>2, PushedEnded
  <1>5. n <= Len(r.list)
    BY <1>1
  <1> QED
    BY <1>3, <1>4, <1>5 DEF RdMoves

LEMMA RdUnmoved ==
  ASSUME RdGood(rd, files), rd' = rd, files' = files
  PROVE  RdGood(rd', files') /\ RdMoves(rd, rd')
  BY DEF RdMoves, FilesSame, ScopesSame

LEMMA RaisedMovesRd ==
  ASSUME Types, Stacks, pc = "run", RdGood(rd, files), NEW e, NEW v, Exraise(e, frames, rd, v)
  PROVE  RdGood(rd', files') /\ RdMoves(rd, rd')
  BY RaisedEnded

LEMMA CallMovesRd ==
  ASSUME EnoughDescriptors, Types, Stacks, RdGood(rd, files),
         NEW kind \in {"function", "eval", "dotcmd"}, NEW command \in BOOLEAN,
         NEW rs \in Redirs, NEW as, Call(kind, command, rs, as)
  PROVE  RdGood(rd', files') /\ RdMoves(rd, rd')
  <1>1. PICK b \in BOOLEAN : b <=> (kind # "function" /\ ~command)
    OBVIOUS
  <1>2. PICK local \in BOOLEAN : local <=> ~b
    OBVIOUS
  <1>3. PICK f : f = Frame(kind, b, rs)
    OBVIOUS
  <1>4. PICK r : r = redirect(pushredir(rd, rs), rs)
    OBVIOUS
  <1>5. PICK v1 : v1 = pushlocalvars(lv, local)
    OBVIOUS
  <1>6. PICK v2 : v2 = Assigned(v1, local, as)
    OBVIOUS
  <1>7. b = (kind # "function" /\ ~command) /\ local = ~b
    BY <1>1, <1>2
  <1>8. /\ pc = "run"
        /\ IF r.ok /\ v2.ok THEN Enter(f, r, v2)
           ELSE IF ~r.ok /\ ~b
           THEN exitstatus' = 2 /\ Out(f, r, v1) /\ UNCHANGED <<pc, frames, evalskip, loopnest, goal>>
           ELSE Error(frames, r, IF r.ok THEN v2 ELSE v1)
    BY <1>3, <1>4, <1>5, <1>6, <1>7 DEF Call, Running
  <1>9. /\ RdGood(r, files) /\ (rs = << >> => r = rd) /\ (rs # << >> => PushedOn(rd, r))
    BY <1>4, <1>8, OwnRedirections
  <1>10. r = rd \/ PushedOn(rd, r)
    BY <1>9
  <1>11. CASE r.ok /\ v2.ok
    <2>1. rd' = r /\ (files' = files \/ files' = Append(files, -1))
      BY <1>8, <1>11 DEF Enter
    <2>2. RdGood(rd', files')
      BY <1>9, <2>1, StringRead
    <2> QED
      BY <1>10, <2>1, <2>2 DEF RdMoves, FilesSame, ScopesSame
  <1>12. CASE ~(r.ok /\ v2.ok) /\ ~r.ok /\ ~b
    <2>1. Out(f, r, v1)
      BY <1>8, <1>12
    <2>2. /\ f.stop.redir = Len(rd.list) /\ f.stop.file = Len(files) /\ (f.redir <=> rs # << >>)
          /\ Len(rd.list) \in Nat /\ Len(files) \in Nat
      BY <1>3, Unpacked DEF Frame, Stops
    <2>3. f.redir => f.stop.redir < Len(r.list)
      <3>1. PushedOn(rd, r) => Len(r.list) = Len(rd.list) + 1
        BY DEF PushedOn
      <3> QED
        BY <1>9, <2>2, <3>1
    <2>4. f.stop.redir \in Nat /\ f.stop.redir <= Len(rd.list) /\ f.stop.file \in Nat /\ f.stop.file <= Len(files)
      BY <2>2
    <2> QED
      BY <1>9, <1>10, <2>1, <2>3, <2>4, OutEnded
  <1>13. CASE ~(r.ok /\ v2.ok) /\ ~(~r.ok /\ ~b)
    <2>1. PICK v : v = IF r.ok THEN v2 ELSE v1
      OBVIOUS
    <2>2. Exraise("EXERROR", frames, r, v)
      BY <1>8, <1>13, <2>1 DEF Error
    <2> QED
      BY <1>8, <1>9, <1>10, <2>2, RaisedEnded
  <1> QED
    BY <1>11, <1>12, <1>13

LEMMA BlockMovesRd ==
  ASSUME EnoughDescriptors, Types, Stacks, RdGood(rd, files), NEW rs \in Redirs \ {<< >>}, Block(rs)
  PROVE  RdGood(rd', files') /\ RdMoves(rd, rd')
  <1>1. PICK r : r = redirect(pushredir(rd, rs), rs)
    OBVIOUS
  <1>2. pc = "run" /\ files' = files /\ rd' = IF r.ok THEN r ELSE popredir(r, FALSE)
    BY <1>1 DEF Block, Running
  <1>3. RdGood(r, files) /\ PushedOn(rd, r)
    BY <1>1, <1>2, OwnRedirections
  <1>4. CASE r.ok
    BY <1>2, <1>3, <1>4 DEF RdMoves
  <1>5. CASE ~r.ok
    BY <1>2, <1>3, <1>5, TakenBack
  <1> QED
    BY <1>4, <1>5

LEMMA ExecMovesRd ==
  ASSUME EnoughDescriptors, Types, Stacks, RdGood(rd, files), NEW command \in BOOLEAN,
         NEW rs \in Redirs \ {<< >>}, Exec(command, rs)
  PROVE  /\ RdGood(rd', files') /\ (RdMoves(rd, rd') \/ ScopesSame(rd, rd'))
         /\ ~command /\ ~redirect(pushredir(rd, rs), rs).ok => RdMoves(rd, rd')
  <1>1. PICK r : r = redirect(pushredir(rd, rs), rs)
    OBVIOUS
  <1>2. pc = "run" /\ IF r.ok \/ command THEN rd' = popredir(r, TRUE) /\ files' = files
                      ELSE Exraise("EXERROR", frames, r, lv)
    BY <1>1 DEF Exec, Running, Error
  <1>3. RdGood(r, files) /\ PushedOn(rd, r)
    BY <1>1, <1>2, OwnRedirections
  <1>4. CASE r.ok \/ command
    <2>1. RdGood(rd', files') /\ ScopesSame(rd, rd')
      BY <1>2, <1>3, <1>4, GivenUp
    <2> QED
      BY <1>1, <1>4, <2>1
  <1>5. CASE ~(r.ok \/ command)
    <2>1. RdGood(rd', files') /\ RdMoves(rd, rd')
      BY <1>2, <1>3, <1>5, RaisedEnded
    <2> QED
      BY <2>1
  <1> QED
    BY <1>4, <1>5

LEMMA OpenMovesRd ==
  ASSUME EnoughDescriptors, Types, Stacks, RdGood(rd, files), OpenScript
  PROVE  RdGood(rd', files') /\ RdMoves(rd, rd')
  <1>0. pc = "run"
    BY DEF OpenScript
  <1>1. CASE Error(frames, rd, lv)
    BY <1>0, <1>1, RaisedMovesRd DEF Error
  <1>2. CASE ~Error(frames, rd, lv)
    <2>1. PICK low : low = Lowest(rd, 10)
      OBVIOUS
    <2>2. rd' = PutFile(rd, low, Scripts) /\ files' = Append(files, low)
      BY <1>2, <2>1 DEF OpenScript, PutFile
    <2>3. Fits(rd.list, files)
      <3>1. Len(rd.list) <= Depth /\ Len(files) <= Depth /\ Depth <= MaxDepth /\ Depth \in Nat
        BY <1>0, HeightsBounded
      <3>2. Len(rd.list) \in Nat /\ Len(files) \in Nat /\ MaxDepth \in Nat
        BY Unpacked, Numbers
      <3> QED
        BY <3>1, <3>2 DEF Fits
    <2>4. PICK x \in High : ~IsOpen(rd, x)
      BY <2>3, RoomLeft DEF Room
    <2>5. x \in Desc /\ x >= 10 /\ 10 \in Int
      BY HighFacts
    <2>6. low \in High /\ ~IsOpen(rd, low)
      BY <2>1, <2>4, <2>5, LowestFree DEF High
    <2>7. RdGood(rd', files') /\ ScopesSame(rd, rd')
      BY <2>2, <2>6, ScriptRead
    <2>8. \A d \in Fds : rd'.ofile[d] = rd.ofile[d]
      <3>1. rd \in RdType /\ low \in Desc /\ low \notin Fds /\ Scripts \in OnDescriptors
        BY <2>6, GoodFields, HighFacts, OnDescriptor
      <3>2. \A y \in Desc \ {low} : rd'.ofile[y] = rd.ofile[y]
        BY <2>2, <3>1, SetFile DEF FileSet
      <3> QED
        BY <3>1, <3>2, HighFacts
    <2> QED
      BY <2>7, <2>8 DEF RdMoves, FilesSame
  <1> QED
    BY <1>1, <1>2

LEMMA SetVarsMovesRd ==
  ASSUME Types, Stacks, RdGood(rd, files), NEW v, SetVars(v)
  PROVE  RdGood(rd', files') /\ RdMoves(rd, rd')
  <1>1. CASE v.ok
    BY <1>1, RdUnmoved DEF SetVars
  <1>2. CASE ~v.ok
    <2>1. pc = "run" /\ Exraise("EXERROR", frames, rd, v)
      BY <1>2 DEF SetVars, Running, Error
    <2> QED
      BY <2>1, RaisedMovesRd
  <1> QED
    BY <1>1, <1>2

LEMMA EndMovesRd ==
  ASSUME Types, Stacks, RdGood(rd, files), EndBlock \/ EndCall
  PROVE  RdGood(rd', files') /\ RdMoves(rd, rd')
  <1>1. PICK i \in 1..Len(frames) : i = Depth /\ Top = frames[i]
    <2>1. Depth > 0
      BY DEF EndBlock, EndCall
    <2> QED
      BY <2>1, Unpacked DEF Top
  <1>2. pc = "run"
    BY DEF EndBlock, EndCall
  <1>3. PICK f : f = Top
    OBVIOUS
  <1>4. /\ f.stop.redir \in Nat /\ f.stop.file \in Nat
        /\ f.stop.redir <= Len(rd.list) /\ f.stop.file <= Len(files)
        /\ f.redir => f.stop.redir < Len(rd.list)
        /\ f.kind = "block" => f.redir
    BY <1>1, <1>2, <1>3, FrameStops
  <1>5. CASE EndCall
    <2>1. Out(f, rd, lv)
      BY <1>3, <1>5 DEF EndCall
    <2> QED
      BY <1>4, <2>1, OutEnded
  <1>6. CASE EndBlock
    <2>1. rd' = popredir(rd, FALSE) /\ files' = files /\ f.kind = "block"
      BY <1>3, <1>6 DEF EndBlock
    <2>2. PICK n \in Nat : n = Len(rd.list) - 1 /\ n <= Len(rd.list) /\ Len(rd.list) > 0
      <3>1. Len(rd.list) \in Nat /\ Len(rd.list) > 0
        BY <1>4, <2>1, Unpacked
      <3>2. Len(rd.list) - 1 \in Nat /\ Len(rd.list) - 1 <= Len(rd.list)
        BY <3>1
      <3> QED
        BY <3>1, <3>2
    <2>3. RdGood(rd', files) /\ EndedAt(rd, Len(rd.list) - 1, rd')
      BY <2>1, <2>2, OneEnded
    <2>4. EndedAt(rd, n, rd') /\ n <= Len(rd.list)
      BY <2>2, <2>3
    <2> QED
      BY <2>1, <2>3, <2>4 DEF RdMoves
  <1> QED
    BY <1>5, <1>6

LEMMA BeginMovesRd ==
  ASSUME EnoughDescriptors, Types, Stacks, RdGood(rd, files), Begin
  PROVE  RdGood(rd', files') /\ RdMoves(rd, rd')
  <1>1. CASE OpenScript
    BY <1>1, OpenMovesRd
  <1>2. CASE \E rs \in Redirs \ {<< >>} : Block(rs)
    BY <1>2, BlockMovesRd
  <1>3. CASE \E rs \in Redirs, as \in {<< >>} \cup (Vars \X Values) : Call("function", FALSE, rs, as)
    <2>1. "function" \in {"function", "eval", "dotcmd"} /\ FALSE \in BOOLEAN
      OBVIOUS
    <2> QED
      BY <1>3, <2>1, CallMovesRd
  <1>4. CASE \E rs \in Redirs, as \in {<< >>} \cup (Vars \X Values) :
                \E kind \in {"eval", "dotcmd"}, command \in BOOLEAN : Call(kind, command, rs, as)
    <2>1. PICK rs \in Redirs, as \in {<< >>} \cup (Vars \X Values),
               kind \in {"eval", "dotcmd"}, command \in BOOLEAN : Call(kind, command, rs, as)
      BY <1>4
    <2>2. kind \in {"function", "eval", "dotcmd"}
      OBVIOUS
    <2> QED
      BY <2>1, <2>2, CallMovesRd
  <1>5. CASE While \/ For
    <2>1. rd' = rd /\ files' = files
      BY <1>5 DEF While, For
    <2> QED
      BY <2>1, RdUnmoved
  <1> QED
    BY <1>1, <1>2, <1>3, <1>4, <1>5 DEF Begin

LEMMA EndsMoveRd ==
  ASSUME Types, Stacks, RdGood(rd, files), End
  PROVE  RdGood(rd', files') /\ RdMoves(rd, rd')
  <1>1. CASE EndTest \/ EndBody \/ EndTop
    <2>1. rd' = rd /\ files' = files
      BY <1>1 DEF EndTest, EndBody, EndTop
    <2> QED
      BY <2>1, RdUnmoved
  <1> QED
    BY <1>1, EndMovesRd DEF End

(* A step that begins or ends redirections for a while. *)
LEMMA TemporaryMovesRd ==
  ASSUME EnoughDescriptors, Types, Stacks, RdGood(rd, files), Temporary
  PROVE  RdGood(rd', files') /\ RdMoves(rd, rd')
  <1>1. CASE Begin
    BY <1>1, BeginMovesRd
  <1>2. CASE End
    BY <1>2, EndsMoveRd
  <1>3. CASE Fails
    BY <1>3, RaisedMovesRd DEF Fails, Running, Error
  <1>4. CASE exitcmd
    BY <1>4, RaisedMovesRd DEF exitcmd, Running
  <1>5. CASE Interrupt
    BY <1>5, RaisedMovesRd DEF Interrupt
  <1>6. CASE \E x \in Vars : VarCommand(x)
    <2>1. PICK x \in Vars : VarCommand(x)
      BY <1>6
    <2>2. \E v : SetVars(v)
      BY <2>1 DEF VarCommand
    <2> QED
      BY <2>2, SetVarsMovesRd
  <1>7. CASE \E rs \in Redirs \ {<< >>} : ~redirect(pushredir(rd, rs), rs).ok /\ Exec(FALSE, rs)
    <2>1. FALSE \in BOOLEAN
      OBVIOUS
    <2> QED
      BY <1>7, <2>1, ExecMovesRd
  <1> QED
    BY <1>1, <1>2, <1>3, <1>4, <1>5, <1>6, <1>7 DEF Temporary

LEMMA StepMovesRd ==
  ASSUME EnoughDescriptors, Types, Stacks, RdGood(rd, files), [Next]_vars
  PROVE  RdGood(rd', files') /\ (RdMoves(rd, rd') \/ ScopesSame(rd, rd'))
  <1>1. CASE Temporary
    BY <1>1, TemporaryMovesRd
  <1>2. CASE Do /\ ~Temporary
    <2>1. CASE \/ Simple
               \/ \E skip \in {"SKIPBREAK", "SKIPCONT"}, n \in 1..2 : breakcmd(skip, n)
               \/ \E status \in Statuses : returncmd("SKIPFUNC", status)
               \/ returncmd("SKIPFUNCDEF", exitstatus)
      <3>1. rd' = rd /\ files' = files
        BY <2>1 DEF Simple, breakcmd, returncmd
      <3> QED
        BY <3>1, RdUnmoved
    <2>2. CASE \E command \in BOOLEAN, rs \in Redirs \ {<< >>} : Exec(command, rs)
      BY <2>2, ExecMovesRd
    <2> QED
      BY <1>2, <2>1, <2>2 DEF Do, Temporary
  <1>3. CASE UNCHANGED vars
    <2>1. rd' = rd /\ files' = files
      BY <1>3 DEF vars
    <2> QED
      BY <2>1, RdUnmoved
  <1> QED
    BY <1>1, <1>2, <1>3 DEF Next, Temporary

LEMMA InitRd ==
  ASSUME Init
  PROVE  RdGood(rd, files) /\ Len(rd.list) = 0
  <1>1. rd = [list |-> << >>, closed |-> {}, ofile |-> [d \in Desc |-> NoFile], ok |-> TRUE] /\ files = << >>
    BY DEF Init, NoRedirs
  <1>2. rd \in RdType /\ files \in FilesType
    BY <1>1, OnDescriptor DEF RdType, FilesType
  <1>3. Len(rd.list) = 0 /\ Len(files) = 0 /\ rd.closed = {} /\ \A x \in Desc : rd.ofile[x] = NoFile
    BY <1>1
  <1>4. 1..0 = {}
    OBVIOUS
  <1> QED
    BY <1>2, <1>3, <1>4 DEF RdGood, OneOwner, InTables, InFiles, IsOpen

-----------------------------------------------------------------------------
(* Every step is one of ShellScopes here too. *)

FilesIn(r) == [d \in Fds |-> r.ofile[d]]
RdScopes(r) == [i \in DOMAIN r.list |-> [d \in Fds |-> InScope(r, i, d)]]
ScopesNow == [i \in DOMAIN rd.list |-> [d \in Fds |-> SavedFile(rd.list[i], d)]]
RdScope == [Fds -> {KeepFd} \cup OnDescriptors]

LEMMA ScopesAre ==
  /\ ScopesNow = RdScopes(rd)
  /\ ScopesNow' = RdScopes(rd')
  <1>1. \A i, d : SavedFile(rd.list[i], d) = InScope(rd, i, d)
    BY DEF SavedFile, InScope, SavedFor
  <1>2. \A i, d : SavedFile(rd.list[i], d)' = InScope(rd', i, d)
    BY DEF SavedFile, InScope, SavedFor
  <1>3. ScopesNow = RdScopes(rd)
    BY <1>1 DEF ScopesNow, RdScopes
  <1>4. ScopesNow' = RdScopes(rd')
    BY <1>2 DEF ScopesNow, RdScopes
  <1> QED
    BY <1>3, <1>4

LEMMA RdScopesSeq ==
  ASSUME NEW r, NEW fs, RdGood(r, fs)
  PROVE  /\ RdScopes(r) \in Seq(RdScope) /\ Len(RdScopes(r)) = Len(r.list) /\ Len(r.list) \in Nat
         /\ \A i \in 1..Len(r.list) : RdScopes(r)[i] = [d \in Fds |-> InScope(r, i, d)]
         /\ \A i \in 1..Len(r.list), d \in Fds : RdScopes(r)[i][d] = InScope(r, i, d)
         /\ \A d \in Fds : FilesIn(r)[d] = r.ofile[d]
  <1> DEFINE s == RdScopes(r)
             n == Len(r.list)
  <1>1. DOMAIN r.list = 1..n /\ n \in Nat /\ r \in RdType
    <2>1. r \in RdType
      BY GoodFields
    <2> QED
      BY <2>1, RdFields
  <1>2. s = [i \in 1..n |-> [d \in Fds |-> InScope(r, i, d)]] /\ \A d \in Fds : FilesIn(r)[d] = r.ofile[d]
    BY <1>1 DEF RdScopes, FilesIn
  <1>3. \A i \in 1..n : [d \in Fds |-> InScope(r, i, d)] \in RdScope
    <2> SUFFICES ASSUME NEW i \in 1..n PROVE [d \in Fds |-> InScope(r, i, d)] \in RdScope
      OBVIOUS
    <2>1. \A d \in Fds : InScope(r, i, d) \in {KeepFd} \cup OnDescriptors
      <3> SUFFICES ASSUME NEW d \in Fds PROVE InScope(r, i, d) \in {KeepFd} \cup OnDescriptors
        OBVIOUS
      <3>1. PICK p \in {EMPTY, CLOSED} \cup High : p = r.list[i][d]
        BY GoodFields
      <3>2. SavedFor(r, p) = KeepFd \/ SavedFor(r, p) \in OnDescriptors
        BY <1>1, SavedKinds
      <3> QED
        BY <3>1, <3>2 DEF InScope
    <2> QED
      BY <2>1 DEF RdScope
  <1> HIDE DEF s, n
  <1>4. s \in Seq(RdScope) /\ Len(s) = n
    BY <1>1, <1>2, <1>3
  <1>5. /\ \A i \in 1..n : s[i] = [d \in Fds |-> InScope(r, i, d)]
        /\ \A i \in 1..n, d \in Fds : s[i][d] = InScope(r, i, d)
    BY <1>2
  <1> QED
    BY <1>1, <1>2, <1>4, <1>5 DEF s, n

LEMMA SameRdScopes ==
  ASSUME NEW r, NEW fs, RdGood(r, fs), NEW q, NEW gs, RdGood(q, gs),
         NEW k \in Nat, k <= Len(r.list), k <= Len(q.list),
         \A i \in 1..k, d \in Fds : InScope(q, i, d) = InScope(r, i, d)
  PROVE  SubSeq(RdScopes(q), 1, k) = SubSeq(RdScopes(r), 1, k)
  <1>1. PICK s \in Seq(RdScope) :
           /\ s = RdScopes(r) /\ Len(s) = Len(r.list)
           /\ \A i \in 1..Len(r.list) : s[i] = [d \in Fds |-> InScope(r, i, d)]
    BY RdScopesSeq
  <1>2. PICK t \in Seq(RdScope) :
           /\ t = RdScopes(q) /\ Len(t) = Len(q.list)
           /\ \A i \in 1..Len(q.list) : t[i] = [d \in Fds |-> InScope(q, i, d)]
    BY RdScopesSeq
  <1>3. \A i \in 1..k : i \in 1..Len(r.list) /\ i \in 1..Len(q.list)
    BY <1>1, <1>2
  <1>4. \A i \in 1..k : s[i] = t[i]
    <2> SUFFICES ASSUME NEW i \in 1..k PROVE s[i] = t[i]
      OBVIOUS
    <2>1. s[i] = [d \in Fds |-> InScope(r, i, d)]
      BY <1>1, <1>3
    <2>2. t[i] = [d \in Fds |-> InScope(q, i, d)]
      BY <1>2, <1>3
    <2>3. \A d \in Fds : InScope(q, i, d) = InScope(r, i, d)
      OBVIOUS
    <2> QED
      BY <2>1, <2>2, <2>3
  <1>5. k \in 0..Len(s) /\ k \in 0..Len(t)
    BY <1>1, <1>2
  <1>6. /\ SubSeq(s, 1, k) \in Seq(RdScope) /\ Len(SubSeq(s, 1, k)) = k
        /\ SubSeq(t, 1, k) \in Seq(RdScope) /\ Len(SubSeq(t, 1, k)) = k
        /\ \A i \in 1..k : SubSeq(s, 1, k)[i] = s[i] /\ SubSeq(t, 1, k)[i] = t[i]
    BY <1>5, Cut
  <1>7. SubSeq(s, 1, k) = SubSeq(t, 1, k)
    BY <1>4, <1>6, SameSeq
  <1> QED
    BY <1>1, <1>2, <1>7

LEMMA AllRdScopes ==
  ASSUME NEW r, NEW fs, RdGood(r, fs)
  PROVE  SubSeq(RdScopes(r), 1, Len(r.list)) = RdScopes(r)
  <1>1. PICK s \in Seq(RdScope) : s = RdScopes(r) /\ Len(s) = Len(r.list) /\ Len(s) \in Nat
    BY RdScopesSeq
  <1>2. Len(s) \in 0..Len(s)
    BY <1>1
  <1>3. /\ SubSeq(s, 1, Len(s)) \in Seq(RdScope) /\ Len(SubSeq(s, 1, Len(s))) = Len(s)
        /\ \A i \in 1..Len(s) : SubSeq(s, 1, Len(s))[i] = s[i]
    BY <1>2, Cut
  <1>4. SubSeq(s, 1, Len(s)) = s
    BY <1>3, SameSeq
  <1> QED
    BY <1>1, <1>4

LEMMA MapSetRd ==
  ASSUME RdGood(rd, files), RdGood(rd', files'), ScopesSame(rd, rd')
  PROVE  Redirections!Set
  <1>1. PICK n \in Nat : n = Len(rd.list) /\ n = Len(rd'.list)
    BY GoodFields DEF ScopesSame
  <1>2. n <= n
    BY <1>1
  <1>3. SubSeq(RdScopes(rd'), 1, n) = SubSeq(RdScopes(rd), 1, n)
    <2>1. \A i \in 1..n, d \in Fds : InScope(rd', i, d) = InScope(rd, i, d)
      BY <1>1 DEF ScopesSame
    <2>2. n <= Len(rd.list) /\ n <= Len(rd'.list)
      BY <1>1, <1>2
    <2> QED
      BY <2>1, <2>2, SameRdScopes
  <1>4. RdScopes(rd') = RdScopes(rd)
    <2>1. SubSeq(RdScopes(rd), 1, n) = RdScopes(rd)
      BY <1>1, AllRdScopes
    <2>2. SubSeq(RdScopes(rd'), 1, n) = RdScopes(rd')
      BY <1>1, AllRdScopes
    <2> QED
      BY <1>3, <2>1, <2>2
  <1>5. ScopesNow' = ScopesNow
    BY <1>4, ScopesAre
  <1>6. Len(ScopesNow') = Len(ScopesNow) /\ ScopesNow' = ScopesNow
    BY <1>5
  <1> QED
    BY <1>6 DEF Redirections!Set, ScopesNow

LEMMA MapPushRd ==
  ASSUME RdGood(rd, files), RdGood(rd', files'), PushedOn(rd, rd')
  PROVE  Redirections!Push
  <1>1. PICK n \in Nat : n = Len(rd.list) /\ n + 1 = Len(rd'.list)
    BY GoodFields DEF PushedOn
  <1>2. /\ \A i \in 1..n, d \in Fds : InScope(rd', i, d) = InScope(rd, i, d)
        /\ \A d \in Fds : \/ InScope(rd', n + 1, d) = rd.ofile[d]
                          \/ InScope(rd', n + 1, d) = KeepFd /\ rd'.ofile[d] = rd.ofile[d]
    BY <1>1 DEF PushedOn
  <1>3. SubSeq(RdScopes(rd'), 1, n) = RdScopes(rd)
    <2>1. n <= Len(rd.list) /\ n <= Len(rd'.list)
      BY <1>1
    <2>2. SubSeq(RdScopes(rd'), 1, n) = SubSeq(RdScopes(rd), 1, n)
      BY <1>2, <2>1, SameRdScopes
    <2>3. SubSeq(RdScopes(rd), 1, n) = RdScopes(rd)
      BY <1>1, AllRdScopes
    <2> QED
      BY <2>2, <2>3
  <1>4. /\ Len(RdScopes(rd)) = n /\ Len(RdScopes(rd')) = n + 1
        /\ \A d \in Fds : FilesIn(rd)[d] = rd.ofile[d] /\ FilesIn(rd')[d] = rd'.ofile[d]
    BY <1>1, RdScopesSeq
  <1>5. \A d \in Fds : RdScopes(rd')[n + 1][d] = InScope(rd', n + 1, d)
    <2>1. n + 1 \in 1..Len(rd'.list)
      BY <1>1
    <2> QED
      BY <2>1, RdScopesSeq
  <1>6. /\ Len(RdScopes(rd')) = Len(RdScopes(rd)) + 1
        /\ SubSeq(RdScopes(rd'), 1, Len(RdScopes(rd))) = RdScopes(rd)
        /\ \A d \in Fds : \/ RdScopes(rd')[Len(RdScopes(rd'))][d] = FilesIn(rd)[d]
                          \/ /\ RdScopes(rd')[Len(RdScopes(rd'))][d] = KeepFd
                             /\ FilesIn(rd')[d] = FilesIn(rd)[d]
    BY <1>2, <1>3, <1>4, <1>5
  <1>7. /\ Len(ScopesNow') = Len(ScopesNow) + 1
        /\ SubSeq(ScopesNow', 1, Len(ScopesNow)) = ScopesNow
        /\ \A d \in Fds : \/ ScopesNow'[Len(ScopesNow')][d] = FilesIn(rd)[d]
                          \/ /\ ScopesNow'[Len(ScopesNow')][d] = KeepFd
                             /\ FilesIn(rd')[d] = FilesIn(rd)[d]
    BY <1>6, ScopesAre
  <1> QED
    BY <1>7 DEF Redirections!Push, ScopesNow, FilesIn

LEMMA MapDropRd ==
  ASSUME RdGood(rd, files), RdGood(rd', files'), NEW k \in Nat, k < Len(rd.list), EndedAt(rd, k, rd')
  PROVE  Redirections!Drop
  <1>1. PICK n \in Nat : n = Len(rd.list) /\ k < n
    BY GoodFields
  <1>2. /\ Len(rd'.list) = k /\ \A i \in 1..k, d \in Fds : InScope(rd', i, d) = InScope(rd, i, d)
        /\ \A d \in Fds : rd'.ofile[d] = MeantAt(rd, k, d)
    BY DEF EndedAt
  <1>3. RdScopes(rd') = SubSeq(RdScopes(rd), 1, k)
    <2>1. k <= Len(rd.list) /\ k <= Len(rd'.list)
      BY <1>1, <1>2
    <2>2. SubSeq(RdScopes(rd'), 1, k) = SubSeq(RdScopes(rd), 1, k)
      BY <1>2, <2>1, SameRdScopes
    <2>3. SubSeq(RdScopes(rd'), 1, k) = RdScopes(rd')
      BY <1>2, AllRdScopes
    <2> QED
      BY <2>2, <2>3
  <1>4. /\ Len(RdScopes(rd)) = n /\ Len(RdScopes(rd')) = k
        /\ \A i \in 1..n, d \in Fds : RdScopes(rd)[i][d] = InScope(rd, i, d)
        /\ \A d \in Fds : FilesIn(rd)[d] = rd.ofile[d] /\ FilesIn(rd')[d] = rd'.ofile[d]
    BY <1>1, <1>2, RdScopesSeq
  <1>5. ASSUME NEW d \in Fds
        PROVE  FilesIn(rd')[d] =
                  LET S == {i \in (k + 1)..n : RdScopes(rd)[i][d] # KeepFd}
                  IN IF S = {} THEN FilesIn(rd)[d] ELSE RdScopes(rd)[Min(S)][d]
    <2> DEFINE S == {i \in (k + 1)..n : RdScopes(rd)[i][d] # KeepFd}
    <2>1. (k + 1)..n \subseteq 1..n
      BY <1>1
    <2>2. TakenAt(rd, k, d) = S
      BY <1>1, <1>4, <2>1 DEF TakenAt
    <2>3. FilesIn(rd')[d] = IF S = {} THEN rd.ofile[d] ELSE InScope(rd, Min(S), d)
      BY <1>2, <1>4, <2>2 DEF MeantAt
    <2>4. S # {} => Min(S) \in 1..n
      <3> SUFFICES ASSUME S # {} PROVE Min(S) \in 1..n
        OBVIOUS
      <3>1. S \subseteq Int /\ (\A i \in S : k + 1 <= i) /\ k + 1 \in Int /\ S \subseteq 1..n
        BY <1>1, <2>1
      <3> HIDE DEF S
      <3>2. Min(S) \in S
        BY <3>1, MinOf
      <3> QED
        BY <3>1, <3>2
    <2> HIDE DEF S
    <2>5. FilesIn(rd')[d] = IF S = {} THEN FilesIn(rd)[d] ELSE RdScopes(rd)[Min(S)][d]
      BY <1>4, <2>3, <2>4
    <2> QED
      BY <2>5 DEF S
  <1>6. /\ Len(RdScopes(rd')) < Len(RdScopes(rd))
        /\ RdScopes(rd') = SubSeq(RdScopes(rd), 1, Len(RdScopes(rd')))
    BY <1>1, <1>3, <1>4
  <1>7. \A d \in Fds : FilesIn(rd')[d] =
           LET S == {i \in (Len(RdScopes(rd')) + 1)..Len(RdScopes(rd)) : RdScopes(rd)[i][d] # KeepFd}
           IN IF S = {} THEN FilesIn(rd)[d] ELSE RdScopes(rd)[Min(S)][d]
    BY <1>4, <1>5
  <1>8. \A S : Redirections!Min(S) = Min(S)
    BY DEF Redirections!Min, Min
  <1>9. /\ Len(ScopesNow') < Len(ScopesNow)
        /\ ScopesNow' = SubSeq(ScopesNow, 1, Len(ScopesNow'))
        /\ \A d \in Fds : FilesIn(rd')[d] =
              LET S == {i \in (Len(ScopesNow') + 1)..Len(ScopesNow) : ScopesNow[i][d] # KeepFd}
              IN IF S = {} THEN FilesIn(rd)[d] ELSE ScopesNow[Redirections!Min(S)][d]
    BY <1>6, <1>7, <1>8, ScopesAre
  <1> QED
    BY <1>9 DEF Redirections!Drop, Redirections!Lower, Redirections!Before, ScopesNow, FilesIn

(* A descriptor that was redirected for a command is put back by popredir()*)
(* alone, from where it was saved, through tables that are right only as   *)
(* long as nothing else is saved there: whatever ends the command, its last*)
(* line, break, return, an error half-way through its own redirections or  *)
(* an interrupt, files are where they were outside, but for what exec has  *)
(* made to stay.                                                           *)
THEOREM RedirectionsRestored == ASSUME EnoughDescriptors PROVE Spec => RedirectionsUndone
  <1> DEFINE I == Types /\ Stacks /\ RdGood(rd, files)
  <1>1. Init => I /\ Redirections!Init
    <2> SUFFICES ASSUME Init PROVE I /\ Redirections!Init
      OBVIOUS
    <2>1. Types /\ Stacks
      BY InitTypes
    <2>2. RdGood(rd, files) /\ Len(rd.list) = 0
      BY InitRd
    <2>3. RdScopes(rd) = << >>
      BY <2>2, RdScopesSeq
    <2>4. ScopesNow = << >>
      BY <2>3, ScopesAre
    <2> QED
      BY <2>1, <2>2, <2>4 DEF Redirections!Init, ScopesNow
  <1>2. I /\ [Next]_vars => I' /\ Redirections!Next
    <2> SUFFICES ASSUME Types, Stacks, RdGood(rd, files), [Next]_vars PROVE I' /\ Redirections!Next
      OBVIOUS
    <2>1. Types' /\ Stacks'
      BY StepTypes
    <2>2. RdGood(rd', files') /\ (RdMoves(rd, rd') \/ ScopesSame(rd, rd'))
      BY StepMovesRd
    <2>3. RdGood(rd, files)'
      BY <2>2
    <2>4. Redirections!Next
      <3>1. CASE ScopesSame(rd, rd')
        BY <2>2, <3>1, MapSetRd DEF Redirections!Next
      <3>2. CASE PushedOn(rd, rd')
        BY <2>2, <3>2, MapPushRd DEF Redirections!Next
      <3>3. CASE \E k \in Nat : k <= Len(rd.list) /\ EndedAt(rd, k, rd')
        <4>1. PICK k \in Nat : k <= Len(rd.list) /\ EndedAt(rd, k, rd')
          BY <3>3
        <4>2. CASE k < Len(rd.list)
          BY <2>2, <4>1, <4>2, MapDropRd DEF Redirections!Next
        <4>3. CASE ~(k < Len(rd.list))
          <5>1. k = Len(rd.list)
            BY <4>1, <4>3, GoodFields
          <5>2. ScopesSame(rd, rd')
            BY <4>1, <5>1 DEF EndedAt, ScopesSame
          <5> QED
            BY <2>2, <5>2, MapSetRd DEF Redirections!Next
        <4> QED
          BY <4>2, <4>3
      <3> QED
        BY <2>2, <3>1, <3>2, <3>3 DEF RdMoves, FilesSame
    <2> QED
      BY <2>1, <2>3, <2>4
  <1>3. I /\ [Next]_vars => (Leaks => ~Temporary)
    <2> SUFFICES ASSUME Types, Stacks, RdGood(rd, files), Temporary, Len(rd'.list) = Len(rd.list)
                 PROVE  FilesNow' = FilesNow
      BY DEF Leaks
    <2>1. RdMoves(rd, rd')
      BY TemporaryMovesRd
    <2>2. PICK n \in Nat : n = Len(rd.list)
      BY GoodFields
    <2>3. \A d \in Fds : rd'.ofile[d] = rd.ofile[d]
      <3>1. CASE FilesSame(rd, rd')
        BY <3>1 DEF FilesSame
      <3>2. CASE PushedOn(rd, rd')
        BY <2>2, <3>2 DEF PushedOn
      <3>3. CASE \E k \in Nat : k <= Len(rd.list) /\ EndedAt(rd, k, rd')
        <4>1. PICK k \in Nat : EndedAt(rd, k, rd')
          BY <3>3
        <4>2. EndedAt(rd, n, rd')
          BY <2>2, <4>1 DEF EndedAt
        <4> QED
          BY <2>2, <4>2, NoneEnded DEF EndedAt
      <3> QED
        BY <2>1, <3>1, <3>2, <3>3 DEF RdMoves
    <2> QED
      BY <2>3 DEF FilesNow
  <1> HIDE DEF I
  <1> QED
    BY <1>1, <1>2, <1>3, PTL DEF Spec, RedirectionsUndone, Redirections!Spec

(* The shell's own descriptors, from 10 on, are what popredir() and        *)
(* unwindfiles() put back and close: each that is open is in one table or  *)
(* one input file, and in no other place, whatever has ended in between;   *)
(* and what popredir() takes for closed is.                                *)
THEOREM DescriptorsCorrect == ASSUME EnoughDescriptors PROVE Spec => []DescriptorsKept
  <1> DEFINE I == Types /\ Stacks /\ RdGood(rd, files)
  <1>1. Init => I
    BY InitTypes, InitRd
  <1>2. I /\ [Next]_vars => I'
    <2> SUFFICES ASSUME Types, Stacks, RdGood(rd, files), [Next]_vars PROVE I'
      OBVIOUS
    <2>1. Types' /\ Stacks'
      BY StepTypes
    <2>2. RdGood(rd', files')
      BY StepMovesRd
    <2>3. RdGood(rd, files)'
      BY <2>2
    <2> QED
      BY <2>1, <2>3
  <1>3. I => DescriptorsKept
    <2> SUFFICES ASSUME RdGood(rd, files) PROVE DescriptorsKept
      OBVIOUS
    <2>1. /\ Len(rd.list) \in Nat /\ Len(files) \in Nat
          /\ DOMAIN rd.list = 1..Len(rd.list) /\ DOMAIN files = 1..Len(files)
      <3>1. rd \in RdType /\ files \in Seq({-1} \cup High)
        BY GoodFields DEF FilesType
      <3> QED
        BY <3>1, RdFields
    <2>2. /\ \A i \in 1..Len(rd.list), d \in Fds : rd.list[i][d] \in {EMPTY, CLOSED} \cup High
          /\ \A j \in 1..Len(files) : files[j] \in {-1} \cup High
          /\ \A d \in rd.closed : ~IsOpen(rd, d)
      BY GoodFields
    <2>3. \A x : x \in High => x # EMPTY /\ x # CLOSED /\ x # -1 /\ x \in Desc /\ x \notin Fds
      BY HighFacts
    <2>4. ASSUME NEW i \in 1..Len(rd.list), NEW x
          PROVE  x \in SavedIn(i) <=> x \in High /\ \E d \in Fds : rd.list[i][d] = x
      BY <2>2, <2>3 DEF SavedIn
    <2>A. PICK U : U = UNION {SavedIn(i) : i \in DOMAIN rd.list}
      OBVIOUS
    <2>B. PICK F : F = {files[i] : i \in DOMAIN files} \ {-1}
      OBVIOUS
    <2>5. \A x : x \in U <=> x \in High /\ InTables(rd.list, x)
      <3> SUFFICES ASSUME NEW x PROVE x \in U <=> x \in High /\ InTables(rd.list, x)
        OBVIOUS
      <3>1. x \in U <=> \E i \in 1..Len(rd.list) : x \in SavedIn(i)
        BY <2>1, <2>A
      <3> QED
        BY <2>4, <3>1 DEF InTables
    <2>6. \A x : x \in F <=> x \in High /\ InFiles(files, x)
      BY <2>1, <2>2, <2>3, <2>B DEF InFiles
    <2>7. \A x \in Desc \ Fds : IsOpen(rd, x) <=> InTables(rd.list, x) \/ InFiles(files, x)
      BY DEF RdGood
    <2>8. \A x \in Desc \ Fds : InTables(rd.list, x) \/ InFiles(files, x) => x \in High
      <3> SUFFICES ASSUME NEW x \in Desc \ Fds, InTables(rd.list, x) \/ InFiles(files, x) PROVE x \in High
        OBVIOUS
      <3>1. x # EMPTY /\ x # CLOSED /\ x # -1
        BY HighFacts
      <3> QED
        BY <2>2, <3>1 DEF InTables, InFiles
    <2>9. {d \in Desc \ Fds : IsOpen(rd, d)} = U \cup F
      BY <2>3, <2>5, <2>6, <2>7, <2>8
    <2>10. \A i, j \in DOMAIN rd.list : i # j => SavedIn(i) \cap SavedIn(j) = {}
      <3> SUFFICES ASSUME NEW i \in 1..Len(rd.list), NEW j \in 1..Len(rd.list),
                          NEW x, x \in SavedIn(i), x \in SavedIn(j)
                   PROVE  i = j
        BY <2>1
      <3>1. x \in High /\ (\E d \in Fds : rd.list[i][d] = x) /\ (\E d \in Fds : rd.list[j][d] = x)
        BY <2>4
      <3>2. OneOwner(rd.list, files)
        BY DEF RdGood
      <3> QED
        BY <3>1, <3>2 DEF OneOwner
    <2>11. {d \in Desc \ Fds : IsOpen(rd, d)} =
              (UNION {SavedIn(i) : i \in DOMAIN rd.list}) \cup ({files[i] : i \in DOMAIN files} \ {-1})
      BY <2>9, <2>A, <2>B, Zenon
    <2>12. \A d \in rd.closed : ~IsOpen(rd, d)
      BY <2>2
    <2> QED
      BY <2>10, <2>11, <2>12, Zenon DEF DescriptorsKept
  <1> HIDE DEF I
  <1> QED
    BY <1>1, <1>2, <1>3, PTL DEF Spec

-----------------------------------------------------------------------------
(* Types, also once the shell has exited: what break has left to count is  *)
(* a number, and not zero while loops are still to be left for it.         *)

Counts == skipcount \in Nat /\ loopnest \in Nat /\ (Levels => skipcount > 0)

(* Either the shell runs on, or loopnest is put back or stays. *)
NestStep == pc' = "run" \/ loopnest' = 0 \/ loopnest' = loopnest
CountStep == skipcount' = skipcount /\ (evalskip' = evalskip \/ ~Levels')

LEMMA RaisedCounts ==
  ASSUME pc = "run", NEW e, NEW r, NEW v, Exraise(e, frames, r, v)
  PROVE  NestStep /\ (evalskip' = evalskip \/ ~Levels')
  <1> DEFINE H == {i \in DOMAIN frames : Catches(e, frames[i])}
  <1>1. CASE H # {}
    <2>1. pc' = pc /\ evalskip' = evalskip
      BY <1>1 DEF Exraise
    <2> QED
      BY <2>1 DEF NestStep
  <1>2. CASE H = {}
    <2>1. evalskip' = None /\ loopnest' = 0
      BY <1>2 DEF Exraise, exitreset
    <2>2. ~Levels'
      BY <2>1 DEF Levels, None
    <2> QED
      BY <2>1, <2>2 DEF NestStep
  <1> QED
    BY <1>1, <1>2

LEMMA ErrorCounts ==
  ASSUME pc = "run", NEW r, NEW v, Error(frames, r, v)
  PROVE  NestStep /\ (evalskip' = evalskip \/ ~Levels')
  BY RaisedCounts DEF Error

LEMMA SetVarsCounts ==
  ASSUME NEW v, SetVars(v)
  PROVE  NestStep /\ CountStep
  <1>1. CASE v.ok
    BY <1>1 DEF SetVars, NestStep, CountStep
  <1>2. CASE ~v.ok
    <2>1. pc = "run" /\ Error(frames, rd, v) /\ skipcount' = skipcount
      BY <1>2 DEF SetVars, Running
    <2> QED
      BY <2>1, ErrorCounts DEF CountStep
  <1> QED
    BY <1>1, <1>2

LEMMA CallCounts ==
  ASSUME NEW kind, NEW command, NEW rs, NEW as, Call(kind, command, rs, as)
  PROVE  NestStep /\ CountStep
  <1>1. pc = "run" /\ skipcount' = skipcount
    BY DEF Call, Running
  <1>2. \/ pc' = pc /\ evalskip' = evalskip
        \/ \E r, v : Error(frames, r, v)
    BY DEF Call, Enter
  <1> QED
    BY <1>1, <1>2, ErrorCounts DEF NestStep, CountStep

LEMMA BeginCounts ==
  ASSUME Begin
  PROVE  NestStep /\ CountStep
  <1>1. CASE OpenScript
    <2>1. pc = "run" /\ skipcount' = skipcount
          /\ ((pc' = pc /\ evalskip' = evalskip) \/ Error(frames, rd, lv))
      BY <1>1 DEF OpenScript
    <2> QED
      BY <2>1, ErrorCounts DEF NestStep, CountStep
  <1>2. CASE While \/ For \/ \E rs \in Redirs \ {<< >>} : Block(rs)
    <2>1. pc = "run" /\ pc' = pc /\ evalskip' = evalskip /\ skipcount' = skipcount
      BY <1>2 DEF While, For, Block, Running
    <2> QED
      BY <2>1 DEF NestStep, CountStep
  <1>3. CASE \E kind, command, rs, as : Call(kind, command, rs, as)
    BY <1>3, CallCounts
  <1> QED
    BY <1>1, <1>2, <1>3 DEF Begin

LEMMA BreakCounts ==
  ASSUME Counts, NEW skip \in {"SKIPBREAK", "SKIPCONT"}, NEW n \in 1..2, breakcmd(skip, n)
  PROVE  NestStep /\ (skipcount \in Nat /\ (Levels => skipcount > 0))'
  <1>1. PICK m : m = Count(n)
    OBVIOUS
  <1>2. pc' = "run" /\ IF m > 0 THEN evalskip' = skip /\ skipcount' = m
                       ELSE evalskip' = evalskip /\ skipcount' = skipcount
    BY <1>1 DEF breakcmd, Running
  <1>3. m \in Nat
    <2>1. {n, loopnest} \subseteq Int /\ \A y \in {n, loopnest} : 0 <= y
      BY DEF Counts
    <2>2. Min({n, loopnest}) \in {n, loopnest}
      BY <2>1, MinOf
    <2> QED
      BY <1>1, <2>2 DEF Count, Counts
  <1> QED
    BY <1>2, <1>3 DEF NestStep, Counts, Levels

LEMMA DoCounts ==
  ASSUME Counts, Do
  PROVE  NestStep /\ (skipcount \in Nat /\ (Levels => skipcount > 0))'
  <1>0. CountStep => (skipcount \in Nat /\ (Levels => skipcount > 0))'
    BY DEF Counts, CountStep, Levels
  <1>1. CASE Simple
    BY <1>0, <1>1 DEF Simple, Running, NestStep, CountStep
  <1>2. CASE Fails
    BY <1>0, <1>2, ErrorCounts DEF Fails, Running, CountStep
  <1>3. CASE exitcmd
    BY <1>0, <1>3, RaisedCounts DEF exitcmd, Running, CountStep
  <1>4. CASE Interrupt
    BY <1>0, <1>4, RaisedCounts DEF Interrupt, CountStep
  <1>5. CASE \E command \in BOOLEAN, rs \in Redirs \ {<< >>} : Exec(command, rs)
    <2>1. pc = "run" /\ skipcount' = skipcount
          /\ ((pc' = pc /\ evalskip' = evalskip) \/ \E r : Error(frames, r, lv))
      BY <1>5 DEF Exec, Running
    <2> QED
      BY <1>0, <2>1, ErrorCounts DEF NestStep, CountStep
  <1>6. CASE \E x \in Vars : VarCommand(x)
    <2>1. \E v : SetVars(v)
      BY <1>6 DEF VarCommand
    <2> QED
      BY <1>0, <2>1, SetVarsCounts
  <1>7. CASE \E skip \in {"SKIPBREAK", "SKIPCONT"}, n \in 1..2 : breakcmd(skip, n)
    BY <1>7, BreakCounts
  <1>8. CASE (\E status \in Statuses : returncmd("SKIPFUNC", status)) \/ returncmd("SKIPFUNCDEF", exitstatus)
    <2>1. pc' = "run" /\ skipcount' = skipcount /\ evalskip' \in {"SKIPFUNC", "SKIPFUNCDEF"}
      BY <1>8 DEF returncmd, Running
    <2> QED
      BY <1>0, <2>1 DEF NestStep, CountStep, Levels
  <1> QED
    BY <1>1, <1>2, <1>3, <1>4, <1>5, <1>6, <1>7, <1>8 DEF Do

LEMMA EndCounts ==
  ASSUME Counts, End
  PROVE  NestStep /\ (skipcount \in Nat /\ (Levels => skipcount > 0))'
  <1>0. CountStep => (skipcount \in Nat /\ (Levels => skipcount > 0))'
    BY DEF Counts, CountStep, Levels
  <1>1. CASE EndTest \/ EndBody
    <2>1. pc' = "run" /\ SkipLoop
      BY <1>1 DEF EndTest, EndBody
    <2>2. /\ evalskip' = IF LastLevel THEN None ELSE evalskip
          /\ skipcount' = IF Levels THEN skipcount - 1 ELSE skipcount
      BY <2>1 DEF SkipLoop
    <2>3. CASE ~Levels
      BY <2>1, <2>2, <2>3 DEF LastLevel, Levels, Counts, NestStep
    <2>4. CASE Levels
      <3>1. skipcount' = skipcount - 1 /\ skipcount - 1 \in Nat /\ skipcount \in Nat
        BY <2>2, <2>4 DEF Counts
      <3>2. CASE skipcount - 1 <= 0
        BY <2>1, <2>2, <2>4, <3>1, <3>2 DEF LastLevel, Levels, None, NestStep
      <3>3. CASE ~(skipcount - 1 <= 0)
        BY <2>1, <2>2, <2>4, <3>1, <3>3 DEF LastLevel, Levels, NestStep
      <3> QED
        BY <3>2, <3>3
    <2> QED
      BY <2>3, <2>4
  <1>2. CASE EndBlock
    BY <1>0, <1>2 DEF EndBlock, NestStep, CountStep
  <1>3. CASE EndCall
    <2>1. pc' = "run" /\ skipcount' = skipcount /\ (evalskip' = evalskip \/ evalskip' = None)
      BY <1>3 DEF EndCall
    <2> QED
      BY <1>0, <2>1 DEF NestStep, CountStep, Levels, None
  <1>4. CASE EndTop
    <2>1. loopnest' = loopnest /\ skipcount' = skipcount /\ (evalskip' = evalskip \/ evalskip' = None)
      BY <1>4 DEF EndTop
    <2> QED
      BY <1>0, <2>1 DEF NestStep, CountStep, Levels, None
  <1> QED
    BY <1>1, <1>2, <1>3, <1>4 DEF End

LEMMA StepCounts ==
  ASSUME Types, Nests', Types', Counts, [Next]_vars
  PROVE  Counts'
  <1>1. NestStep /\ (skipcount \in Nat /\ (Levels => skipcount > 0))'
    <2>1. CASE Begin
      BY <2>1, BeginCounts DEF Counts, CountStep, Levels
    <2>2. CASE UNCHANGED vars
      BY <2>2 DEF vars, NestStep, Counts, Levels
    <2> QED
      BY <2>1, <2>2, DoCounts, EndCounts DEF Next
  <1>2. loopnest' \in Nat
    <2>1. CASE pc' = "run"
      <3>1. PICK fs : fs = frames'
        OBVIOUS
      <3>2. Len(fs) \in Nat
        BY <3>1 DEF Types, FramesType
      <3>3. loopnest' = Cardinality(LoopsTo(fs, Len(fs)))
        BY <2>1, <3>1 DEF Nests, Nested
      <3>4. IsFiniteSet(LoopsTo(fs, Len(fs)))
        BY <3>2, LoopsFinite
      <3> QED
        BY <3>3, <3>4, FS_CardinalityType
    <2> QED
      BY <1>1, <2>1 DEF NestStep, Counts
  <1> QED
    BY <1>1, <1>2 DEF Counts

(* The types of the state, as long as the shell has descriptors: a saved   *)
(* descriptor is one, a break counts loops that are there, and what an     *)
(* error has cut short has left tables, scopes and counters as they are    *)
(* expected by the next command.                                           *)
THEOREM TypeCorrect == ASSUME ~LoopErrors, EnoughDescriptors PROVE Spec => []TypeOK
  <1> DEFINE I == Types /\ Stacks /\ Nests /\ Counts /\ RdGood(rd, files)
  <1>1. Init => I
    <2>1. Init => Counts
      BY DEF Init, Counts, Levels, None
    <2> QED
      BY <2>1, InitTypes, InitNests, InitRd
  <1>2. I /\ [Next]_vars => I'
    <2> SUFFICES ASSUME Types, Stacks, Nests, Counts, RdGood(rd, files), [Next]_vars PROVE I'
      OBVIOUS
    <2>1. Types' /\ Stacks' /\ Nests'
      BY StepTypes, StepNests
    <2>2. Counts'
      BY <2>1, StepCounts
    <2>3. RdGood(rd, files)'
      BY StepMovesRd
    <2> QED
      BY <2>1, <2>2, <2>3
  <1>3. I => TypeOK
    <2> SUFFICES ASSUME Types, Counts, RdGood(rd, files) PROVE TypeOK
      OBVIOUS
    <2>1. /\ pc \in {"run", "exit"} /\ iflag \in BOOLEAN /\ evalskip \in Skips \cup {None}
          /\ exitstatus \in 0..255 /\ goal.to \in 0..MaxDepth /\ rd.ok /\ lv.ok
      BY Unpacked DEF GoalType
    <2>2. \A i \in DOMAIN frames : frames[i].kind \in Kinds
      BY Unpacked, FrameFields
    <2>3. rd.closed \subseteq Fds /\ rd.ofile \in [Desc -> Files \cup {Scripts, NoFile}]
      <3>1. rd \in RdType
        BY GoodFields
      <3> QED
        BY <3>1, RdFields DEF OnDescriptors
    <2>4. \A i \in DOMAIN rd.list : rd.list[i] \in [Fds -> {EMPTY, CLOSED} \cup Desc]
      <3>1. rd \in RdType
        BY GoodFields
      <3>2. DOMAIN rd.list = 1..Len(rd.list) /\ \A i \in 1..Len(rd.list) : rd.list[i] \in SavedTable
        BY <3>1, RdFields
      <3>3. High \subseteq Desc
        BY HighFacts
      <3> QED
        BY <3>2, <3>3 DEF SavedTable
    <2>5. lv.vars \in [Vars -> [here : BOOLEAN, value : Values \cup {Unset}, flags : SUBSET Flags]]
      <3>1. lv \in LvType
        BY Unpacked DEF LvGood
      <3> QED
        BY <3>1, LvFields DEF Entry
    <2>6. \A i \in DOMAIN files : files[i] \in {-1} \cup Desc
      <3>1. files \in Seq({-1} \cup High) /\ High \subseteq Desc
        BY GoodFields, HighFacts DEF FilesType
      <3> QED
        BY <3>1
    <2>7. skipcount \in Nat /\ loopnest \in Nat
      BY DEF Counts
    <2> QED
      BY <2>1, <2>2, <2>3, <2>4, <2>5, <2>6, <2>7 DEF TypeOK
  <1> HIDE DEF I
  <1> QED
    BY <1>1, <1>2, <1>3, PTL DEF Spec
=============================================================================
