-------------------------- MODULE OrchestratedJob --------------------------
(***************************************************************************)
(* run_orchestrated_job (worker/runner_orch.py): create a session through   *)
(* the gateway, configure its proxy, poll until READY, touch, and always    *)
(* try to delete.  Every call goes through _request_with_retry, which       *)
(* repeats it after a network error or a 500/502/503/504 - also when the    *)
(* gateway had carried the request out and only the answer was lost.        *)
(*                                                                         *)
(* The gateway is seen from this client: `sessions` is what it lists.       *)
(***************************************************************************)
EXTENDS Naturals

CONSTANTS Runners,   \* executions that can be under way at a time
          Ids,       \* bound: ids for the sessions created in a behaviour
          NoId,
          Retries    \* retries of one request

VARIABLES sessions,  \* id -> "none" | "INIT" | "READY" | "DEAD" | "gone"
          orch,      \* runner -> progress of its run_orchestrated_job
          orphans    \* sessions whose job can no longer delete them (history)

orchVars == <<sessions, orch, orphans>>

Listed(s) == sessions[s] \in {"INIT", "READY", "DEAD"}

\* step: the request being made; sid: session_id; tries: attempts used by this
\* request; late: poll_timeout has elapsed; err: the result is a FAILURE;
\* proxied: the job has a proxy.
AtRest == [step |-> "idle", sid |-> NoId, tries |-> 0, late |-> FALSE,
           err |-> FALSE, proxied |-> FALSE]

OrchInit ==
    /\ sessions = [s \in Ids |-> "none"]
    /\ orch = [r \in Runners |-> AtRest]
    /\ orphans = {}

\* default_orchestrator_executor: without a gateway url and token it raises.
Start(r, proxied) ==
    /\ orch[r].step = "idle"
    /\ orch' = [orch EXCEPT ![r] =
          [AtRest EXCEPT !.step = "create", !.proxied = proxied]]
    /\ UNCHANGED <<sessions, orphans>>

Misconfigured(r) ==
    /\ orch[r].step = "idle"
    /\ orch' = [orch EXCEPT ![r] = [AtRest EXCEPT !.step = "done", !.err = TRUE]]
    /\ UNCHANGED <<sessions, orphans>>

Goto(r, step) == orch' = [orch EXCEPT ![r].step = step, ![r].tries = 0]

\* Fault: an error skips the finally block.
FailSkipsCleanup(r) ==
    orch' = [orch EXCEPT ![r].err = TRUE, ![r].tries = 0, ![r].step = "done"]

\* GatewayRequestError or TimeoutError: on to the finally block, which deletes
\* a session it knows of; an error of that delete ends the job as a FAILURE.
Fail(r) ==
    orch' = [orch EXCEPT ![r].err = TRUE, ![r].tries = 0,
                         ![r].step = IF orch[r].sid = NoId \/ orch[r].step = "delete"
                                       THEN "done" ELSE "delete"]

OutOfTries(r) == orch[r].tries >= Retries

\* A transient failure: another attempt, or GatewayRequestError.
Transient(r) ==
    IF OutOfTries(r) THEN Fail(r) ELSE orch' = [orch EXCEPT ![r].tries = @ + 1]

\* A session that is READY at once is one that SessionMoves right away.
NewSession(s) ==
    /\ sessions[s] = "none"
    /\ sessions' = [sessions EXCEPT ![s] = "INIT"]

AfterCreate(r) == IF orch[r].proxied THEN "proxy" ELSE "poll"

Create(r) ==
    /\ orch[r].step = "create"
    /\ \/ \E s \in Ids :
             /\ NewSession(s)
             /\ orch' = [orch EXCEPT ![r].sid = s, ![r].step = AfterCreate(r),
                                     ![r].tries = 0]
             /\ UNCHANGED orphans
       \/ \E s \in Ids :     \* the answer is lost
             /\ NewSession(s)
             /\ orphans' = orphans \cup {s}
             /\ Transient(r)
       \/ (Transient(r) \/ Fail(r)) /\ UNCHANGED <<sessions, orphans>>

\* update_session_proxy and touch_session: what they change is not modelled.
Proxy(r) ==
    /\ orch[r].step = "proxy"
    /\ \/ Listed(orch[r].sid) /\ Goto(r, "poll")
       \/ Transient(r)
       \/ Fail(r)
    /\ UNCHANGED <<sessions, orphans>>

Touch(r) ==
    /\ orch[r].step = "touch"
    /\ \/ Listed(orch[r].sid) /\ Goto(r, "delete")
       \/ Transient(r)
       \/ Fail(r)
    /\ UNCHANGED <<sessions, orphans>>

\* Fault: the deadline is never looked at.
PollForEver(r) ==
    /\ orch[r].step = "poll"
    /\ \/ sessions[orch[r].sid] = "READY" /\ Goto(r, "touch")
       \/ sessions[orch[r].sid] \in {"INIT", "DEAD"} /\ Goto(r, "poll")
       \/ sessions[orch[r].sid] = "gone" /\ Fail(r)
       \/ Transient(r) \/ Fail(r)
    /\ UNCHANGED <<sessions, orphans>>

\* poll_session_status: only READY ends it well.  A DEAD session is polled
\* until the deadline, which is looked at after an answered request only.
Poll(r) ==
    /\ orch[r].step = "poll"
    /\ LET status == sessions[orch[r].sid] IN
         \/ status = "READY" /\ Goto(r, "touch")
         \/ status \in {"INIT", "DEAD"} /\ orch[r].late /\ Fail(r)
         \/ status \in {"INIT", "DEAD"} /\ ~orch[r].late /\ Goto(r, "poll")
         \/ status = "gone" /\ Fail(r)
         \/ Transient(r)
         \/ Fail(r)
    /\ UNCHANGED <<sessions, orphans>>

DeadlinePasses(r) ==
    /\ orch[r].step = "poll" /\ ~orch[r].late
    /\ orch' = [orch EXCEPT ![r].late = TRUE]
    /\ UNCHANGED <<sessions, orphans>>

\* delete_session takes 204 and 404 for success.
Delete(r) ==
    /\ orch[r].step = "delete"
    /\ LET s == orch[r].sid IN
         \/ /\ sessions' = [sessions EXCEPT ![s] = "gone"]
            /\ Goto(r, "done") \/ Transient(r)          \* answered, or answer lost
            /\ UNCHANGED orphans
         \/ /\ \/ Transient(r) /\ orphans' = IF OutOfTries(r) THEN orphans \cup {s} ELSE orphans
               \/ Fail(r) /\ orphans' = orphans \cup {s}
            /\ UNCHANGED sessions

\* The JobResult is handed to the queue.
Finish(r) ==
    /\ orch[r].step = "done"
    /\ orch' = [orch EXCEPT ![r] = AtRest]
    /\ UNCHANGED <<sessions, orphans>>

\* The process dies: no finally block runs.  A create under way may have been
\* carried out (the step Create with its answer lost, taken just before).
Abandon(r) ==
    /\ orphans' = orphans \cup (IF orch[r].step = "idle" THEN {} ELSE {orch[r].sid} \ {NoId})
    /\ orch' = [orch EXCEPT ![r] = AtRest]
    /\ UNCHANGED sessions

\* The runner's side of a session: it becomes ready, dies, is reaped.
SessionMoves(s) ==
    /\ \E to \in {"READY", "DEAD", "gone"} :
          /\ \/ sessions[s] = "INIT"
             \/ sessions[s] = "READY" /\ to # "READY"
             \/ sessions[s] = "DEAD" /\ to = "gone"
          /\ sessions' = [sessions EXCEPT ![s] = to]
    /\ UNCHANGED <<orch, orphans>>

=============================================================================
