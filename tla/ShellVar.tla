----------------------------- MODULE ShellVar ------------------------------
(***************************************************************************)
(* Variables and the stack of local variables (var.c), as operators on     *)
(*   vars   the table: whether there is an entry, its value and flags      *)
(*   stack  localvar_stack, the innermost scope last: what "local" or an   *)
(*          assignment before a command has saved, the latest first        *)
(*   ok     FALSE when an error was raised                                 *)
(* A saved item points to the variable's entry, so the entry must stay:    *)
(* that is what VSTRFIXED (fixed) is for.                                  *)
(***************************************************************************)
EXTENDS Naturals, Sequences

CONSTANTS
    Vars,
    Values,
    Unset,      \* no value (VUNSET), also: setvar() with a null pointer
    NoValue     \* "local x": leaves the value as it is

ASSUME VarAssumption == Unset \notin Values /\ NoValue \notin Values \cup {Unset}

Flags == {"export", "readonly", "fixed"}
Absent == [here |-> FALSE, value |-> Unset, flags |-> {}]
NoVars == [vars |-> [x \in Vars |-> Absent], stack |-> << >>, ok |-> TRUE]

ReadOnly(v, x) == "readonly" \in v.vars[x].flags
Failed(v) == [v EXCEPT !.ok = FALSE]

(* The entry setvareq() leaves.  Unsetting removes it unless it is fixed.  *)
NewEntry(e, value, flags) ==
    IF value = Unset /\ flags \cap Flags = {}
    THEN IF "fixed" \in e.flags THEN [here |-> TRUE, value |-> Unset, flags |-> {"fixed"}]
         ELSE Absent
    ELSE [here |-> TRUE, value |-> value, flags |-> flags \cup e.flags]
setvareq(v, x, value, flags) ==
    IF ReadOnly(v, x) THEN Failed(v)
    ELSE [v EXCEPT !.vars[x] = NewEntry(@, value, flags)]

(* export and readonly of x without a value *)
exportcmd(v, x, flag) ==
    IF v.vars[x].here THEN [v EXCEPT !.vars[x].flags = @ \cup {flag}]
    ELSE setvareq(v, x, Unset, {flag})

-----------------------------------------------------------------------------
pushlocalvars(v, push) == IF push THEN [v EXCEPT !.stack = Append(@, << >>)] ELSE v

(* A saved variable; made is TRUE when there was none. *)
Saved(v, x) == [name |-> x, made |-> ~v.vars[x].here, was |-> v.vars[x]]

FixNot(v, x) == v                          \* mutant: the entry may go away
Fix(v, x) == [v EXCEPT !.vars[x].flags = @ \cup {"fixed"}]
mklocal(v, x, value, flags) ==
    LET w == IF ~v.vars[x].here
             THEN setvareq(v, x, IF value = NoValue THEN Unset ELSE value, {"fixed"} \cup flags)
             ELSE IF value = NoValue THEN Fix(v, x)
             ELSE setvareq(Fix(v, x), x, value, flags)
    IN IF ~w.ok THEN w
       ELSE [w EXCEPT !.stack[Len(w.stack)] = <<Saved(v, x)>> \o @]

(* poplocalvars() of one saved variable, and of a scope *)
RestoreValue(v, s) == [v EXCEPT !.vars[s.name].value = s.was.value]  \* mutant: not the flags
Restore(v, s) ==
    IF s.made
    THEN setvareq([v EXCEPT !.vars[s.name].flags = @ \ {"fixed", "readonly"}], s.name, Unset, {})
    ELSE [v EXCEPT !.vars[s.name] = s.was]
poplocalvars(v) ==
    LET lv == v.stack[Len(v.stack)]
        upTo[k \in 0..Len(lv)] == IF k = 0 THEN v ELSE Restore(upTo[k - 1], lv[k])
    IN [upTo[Len(lv)] EXCEPT !.stack = SubSeq(@, 1, Len(@) - 1)]

unwindlocalvars(v, stop) ==
    LET down[k \in stop..Len(v.stack)] ==
            IF k = Len(v.stack) THEN v ELSE poplocalvars(down[k + 1])
    IN down[stop]
=============================================================================
