---------------------------- MODULE MCShellJobs ----------------------------
(***************************************************************************)
(* ShellJobs for TLC.  Process ids are interchangeable.                    *)
(***************************************************************************)
EXTENDS ShellJobs, TLC

Symmetry == Permutations(Pids)
=============================================================================
