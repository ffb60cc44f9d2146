-------------------------- MODULE MCSessionManager --------------------------
(***************************************************************************)
(* SessionManager on a small instance.  One request task is enough: the    *)
(* manager's lock lets one task at a time into a create or an update, so   *)
(* more of them only choose who is next.                                   *)
(***************************************************************************)
EXTENDS SessionManager, TLC

\* What decides no step and no property of this module is left out: the pool's
\* history, an operator's hold of a slot it lost its exclusive use of, the idle time of
\* sessions nobody will end, a failed end whose session has no workstation.
View ==
    <<state, handle, lock, draining, live, op, pc, target, launched, attempt, todo, drained,
      lost, status, endpoint, browserOf, warmOf, vncOf, vncLive, active, taskVars, mode,
      phase, reaping, intruded, cut,
      [t \in Operators |-> opHeld[t] \ intruded],
      {s \in Sessions : idle[s] /\ reaping # "dead"},
      {s \in botched : warmOf[s] # NoSlot}>>

Symmetry == Permutations(Sessions) \cup Permutations(Browsers)
=============================================================================
