---------------------------- MODULE ShellScopes ----------------------------
(***************************************************************************)
(* What the shell promises of settings that commands change for their own  *)
(* duration only, descriptors by redirection and variables by assignment   *)
(* or "local": a stack of scopes, each of which remembers what the names   *)
(* it has taken over meant outside.  When scopes end, however that comes   *)
(* about, these names mean again what they meant.                          *)
(***************************************************************************)
EXTENDS Naturals, Sequences, FiniteSetsExt

CONSTANTS Names,
          Keep      \* of a scope: a name it has not taken over

VARIABLES cur,      \* what each name means now
          scopes    \* a sequence of functions from Names

Lower(k) == SubSeq(scopes, 1, k)
Init == scopes = << >>

(* A scope begins, and takes over the names it is about to change. *)
Push ==
    /\ Len(scopes') = Len(scopes) + 1
    /\ SubSeq(scopes', 1, Len(scopes)) = scopes
    /\ LET s == scopes'[Len(scopes')] IN
       \A n \in Names : \/ s[n] = cur[n]
                        \/ s[n] = Keep /\ cur'[n] = cur[n]

(* Names are changed, for the scopes that have taken them over already; or *)
(* the innermost scope takes over more.                                    *)
Set ==
    /\ Len(scopes') = Len(scopes)
    /\ scopes' = scopes \/
       LET k == Len(scopes) IN
       /\ SubSeq(scopes', 1, k - 1) = Lower(k - 1)
       /\ \A n \in Names : \/ scopes'[k][n] = scopes[k][n]
                           \/ scopes[k][n] = Keep /\ scopes'[k][n] = cur[n]

(* All scopes but the first k end. *)
Before(k, n) ==
    LET S == {i \in (k + 1)..Len(scopes) : scopes[i][n] # Keep}
    IN IF S = {} THEN cur[n] ELSE scopes[Min(S)][n]
Drop ==
    /\ Len(scopes') < Len(scopes)
    /\ scopes' = Lower(Len(scopes'))
    /\ \A n \in Names : cur'[n] = Before(Len(scopes'), n)

Next == Push \/ Set \/ Drop
Spec == Init /\ [][Next]_<<cur, scopes>>
=============================================================================
