---------------------------- MODULE ShellRedir -----------------------------
(***************************************************************************)
(* Redirections (redir.c): the functions that open, save and restore       *)
(* descriptors, as operators on                                            *)
(*   list     redirlist, the innermost table last: renamed[] of each       *)
(*   closed   closed_redirs, the descriptors redirections have closed      *)
(*   ofile    what the process has open (the kernel's table)               *)
(*   ok       FALSE when an error was raised                               *)
(* Descriptors 0 to 2 and those a script does not use are always open and  *)
(* left out; those from 10 on are the shell's own.                         *)
(***************************************************************************)
EXTENDS Integers, Sequences, FiniteSets, FiniteSetsExt

CONSTANTS
    Fds,        \* descriptors that scripts redirect
    Desc,       \* all descriptors of the model
    Files,
    NoFile      \* not open

ASSUME RedirAssumption ==
    /\ Fds \subseteq Desc /\ IsFiniteSet(Desc)
    /\ \A d \in Desc : d \in Nat /\ d >= 3
    /\ \A d \in Fds : d < 10
    /\ NoFile \notin Files

EMPTY == -2
CLOSED == -1

NoRedirs == [list |-> << >>, closed |-> {}, ofile |-> [d \in Desc |-> NoFile], ok |-> TRUE]

(* The redirections of a command: "open" a file (NFROM, NTO, ...), "bad"   *)
(* one that cannot be opened, "dup" another descriptor, "close".           *)
Redirection ==
    [type : {"open"}, fd : Fds, file : Files] \cup [type : {"bad", "close"}, fd : Fds]
        \cup [type : {"dup"}, fd : Fds, dupfd : Fds]

IsOpen(r, d) == r.ofile[d] # NoFile
Lowest(r, k) == Min({d \in Desc : d >= k /\ ~IsOpen(r, d)})

pushredir(r, rs) ==
    IF rs = << >> THEN r
    ELSE [r EXCEPT !.list = Append(@, [d \in Fds |-> EMPTY])]

(* openredirect(): the descriptor to use, -1 to close, -2 for nothing      *)
Opened(r, n) == IF n.type = "open" THEN [r EXCEPT !.ofile[Lowest(r, 3)] = n.file] ELSE r
Newfd(r, n) ==
    CASE n.type = "open"  -> Lowest(r, 3)
      [] n.type = "close" -> -1
      [] n.type = "dup"   -> IF n.dupfd = n.fd THEN -2 ELSE n.dupfd

(* update_closed_redirs() *)
NoteClosed(c, fd, newfd) == IF newfd >= 0 THEN c \ {fd} ELSE c \cup {fd}

(* savefd() of an open descriptor *)
savefd(r, fd) == [r EXCEPT !.ofile[Lowest(r, 10)] = r.ofile[fd], !.ofile[fd] = NoFile]

(* dupredirect() *)
dupredirect(r, n, newfd) ==
    CASE n.type = "open"  -> [r EXCEPT !.ofile[n.fd] = r.ofile[newfd], !.ofile[newfd] = NoFile]
      [] n.type = "close" -> [r EXCEPT !.ofile[n.fd] = NoFile]
      [] n.type = "dup"   -> IF IsOpen(r, newfd) THEN [r EXCEPT !.ofile[n.fd] = r.ofile[newfd]]
                             ELSE [r EXCEPT !.ok = FALSE]

(* One redirection, into the innermost table: a descriptor is saved the    *)
(* first time only, and not when it is closed.                             *)
SavesAlways(r, n, newfd) == n.fd # newfd /\ n.fd \notin r.closed  \* mutant: saved again
Saves(r, n, newfd) ==
    r.list[Len(r.list)][n.fd] = EMPTY /\ n.fd # newfd /\ n.fd \notin r.closed
Redirect1(r, n) ==
    LET newfd == Newfd(r, n)
        top   == Len(r.list)
        o     == [Opened(r, n) EXCEPT !.closed = NoteClosed(@, n.fd, newfd)]
        save  == Saves(r, n, newfd) /\ IsOpen(o, n.fd)
        s     == IF save THEN [savefd(o, n.fd) EXCEPT !.list[top][n.fd] = Lowest(o, 10)]
                 ELSE IF r.list[top][n.fd] = EMPTY THEN [o EXCEPT !.list[top][n.fd] = CLOSED]
                 ELSE o
    IN IF n.type = "bad" THEN [r EXCEPT !.ok = FALSE]
       ELSE IF newfd = -2 THEN r
       ELSE IF n.fd = newfd THEN s
       ELSE dupredirect(s, n, newfd)

redirect(r, rs) ==
    LET upTo[k \in 0..Len(rs)] ==
            IF k = 0 THEN r
            ELSE IF ~upTo[k - 1].ok THEN upTo[k - 1]
            ELSE Redirect1(upTo[k - 1], rs[k])
    IN upTo[Len(rs)]

(* popredir(): the saved descriptors go back to their place, or are given  *)
(* up when the redirections are to stay (exec).                            *)
ToCloseNone(r, t) == {}                    \* mutant: what was not open stays open
ToClose(r, t) == {d \in Fds : t[d] = CLOSED /\ d \notin r.closed}
popredir(r, drop) ==
    LET t == r.list[Len(r.list)]
        saved == {d \in Fds : t[d] >= 0}
        shut  == {d \in Fds : t[d] = CLOSED}
        file(d) == IF d \in saved /\ ~drop THEN r.ofile[t[d]]
                   ELSE IF d \in ToClose(r, t) /\ ~drop THEN NoFile
                   ELSE IF \E s \in saved : t[s] = d THEN NoFile
                   ELSE r.ofile[d]
    IN [r EXCEPT !.list = SubSeq(@, 1, Len(@) - 1),
                 !.ofile = [d \in Desc |-> file(d)],
                 !.closed = IF drop THEN @ ELSE (@ \cup shut) \ saved,
                 !.ok = TRUE]

unwindredir(r, stop) ==
    LET down[k \in stop..Len(r.list)] ==
            IF k = Len(r.list) THEN r ELSE popredir(down[k + 1], FALSE)
    IN down[stop]
=============================================================================
