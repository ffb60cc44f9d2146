---------------------------- MODULE JobLifecycle ----------------------------
(***************************************************************************)
(* What the worker promises of a job, without queues, deliveries and       *)
(* consumers: the consumer that holds it executes it, one at a time and as *)
(* often as need be while it is open; it is settled once, never while it   *)
(* is executed by its holder, and what it is settled as is true.           *)
(*                                                                         *)
(* A job can be withdrawn from its holder, who does not learn of it and    *)
(* works on: such a loose execution may overlap those of the next holders  *)
(* and outlast the verdict, but has no say in it.                          *)
(*                                                                         *)
(* How often and whether at all a job is executed depends on the backend   *)
(* (RunsMatchBackend, JobsSettle of Worker) and is left open here.  Worker *)
(* implements it (ImplementsLifecycle).                                    *)
(***************************************************************************)
EXTENDS Naturals

CONSTANTS Jobs, Key, NoKey

VARIABLES
    fate,     \* what became of a job
    running,  \* the jobs that are being executed by their holders
    loose,    \* the jobs somebody is at work on who does not hold them
    runs,     \* how often a job's execution has begun
    wins      \* whether one has ended with success

vars == <<fate, running, loose, runs, wins>>

Init ==
    /\ fate = [j \in Jobs |-> "unsent"]
    /\ running = {} /\ loose = {}
    /\ runs = [j \in Jobs |-> 0]
    /\ wins = [j \in Jobs |-> FALSE]

Send(j) ==
    /\ fate[j] = "unsent"
    /\ fate' = [fate EXCEPT ![j] = "open"]
    /\ UNCHANGED <<running, loose, runs, wins>>

Begin(j) ==
    /\ fate[j] = "open"
    /\ runs' = [runs EXCEPT ![j] = @ + 1]
    /\ j \notin running
    /\ running' = running \cup {j}
    /\ UNCHANGED <<fate, loose, wins>>

\* With or without success; the death of its process is an end without.
End(j, ok) ==
    /\ j \in running
    /\ running' = running \ {j}
    /\ wins' = [wins EXCEPT ![j] = @ \/ ok]
    /\ UNCHANGED <<fate, loose, runs>>

Withdraw(j) ==
    /\ fate[j] = "open"
    /\ running' = running \ {j}
    /\ loose' = loose \cup {j}
    /\ UNCHANGED <<fate, runs, wins>>

\* Whoever received the job before it was withdrawn may begin all the same.
BeginLoose(j) ==
    /\ j \in loose
    /\ runs' = [runs EXCEPT ![j] = @ + 1]
    /\ UNCHANGED <<fate, running, loose, wins>>

\* One of those at work on j is through with it, and maybe others are not.
EndLoose(j, ok) ==
    /\ j \in loose
    /\ loose' \in {loose, loose \ {j}}
    /\ wins' = [wins EXCEPT ![j] = @ \/ ok]
    /\ UNCHANGED <<fate, running, runs>>

\* Another job, or this one, did what j would do again.
Duplicate(j) == Key[j] # NoKey /\ \E i \in Jobs : Key[i] = Key[j] /\ wins[i]

\* The verdicts a job may get: as done if it was, as a duplicate if it is one, and
\* given up only after it was tried.
Deserved(j, what) ==
    \/ what = "done" /\ wins[j]
    \/ what = "skipped" /\ Duplicate(j)
    \/ what \in {"dropped", "lost"} /\ runs[j] > 0

Settle(j, what) ==
    /\ fate[j] = "open"
    /\ fate' = [fate EXCEPT ![j] = what]
    /\ j \notin running
    /\ Deserved(j, what)
    /\ UNCHANGED <<running, loose, runs, wins>>

Next ==
    \E j \in Jobs :
        \/ Send(j)
        \/ Begin(j)
        \/ \E ok \in BOOLEAN : End(j, ok)
        \/ Withdraw(j)
        \/ BeginLoose(j)
        \/ \E ok \in BOOLEAN : EndLoose(j, ok)
        \/ \E what \in {"done", "skipped", "dropped", "lost"} : Settle(j, what)

Spec == Init /\ [][Next]_vars
=============================================================================
