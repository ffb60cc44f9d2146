-------------------------- MODULE MCRunnerRegistry --------------------------
(***************************************************************************)
(* RunnerRegistry on a small instance.  The runners that are not configured *)
(* are interchangeable.                                                    *)
(***************************************************************************)
EXTENDS RunnerRegistry

Symmetry == Permutations(Runners \ Configured)
=============================================================================
