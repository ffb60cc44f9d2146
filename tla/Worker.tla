------------------------------- MODULE Worker -------------------------------
(***************************************************************************)
(* The Camoufox worker: JobQueue consumers that execute native jobs         *)
(* (worker/runner_native.py, seen by its result) and orchestrated jobs      *)
(* (OrchestratedJob).  A consumer executes one job at a time, so an         *)
(* orchestrated execution is named after its consumer.                      *)
(***************************************************************************)
EXTENDS JobQueue

CONSTANTS Ids, NoId, Retries,
          Proxied     \* jobs with a proxy

ASSUME WorkerAssumption == NoId \notin Ids /\ Retries \in Nat /\ Proxied \subseteq Jobs

VARIABLES sessions, orch, orphans

Job == INSTANCE OrchestratedJob WITH Runners <- Consumers

gatewayVars == <<sessions, orch, orphans>>

vars == <<backend, queue, held, pc, cur, completed, fate, runs, wins, faults,
          sessions, orch, orphans>>

Init == QueueInit /\ Job!OrchInit

Executing(c, mode) == pc[c] = "executing" /\ Mode[cur[c].job] = mode

\* run_job answers with a JobResult whatever happens in the browser.
NativeJob(c) ==
    /\ Executing(c, "native")
    /\ \E ok \in BOOLEAN : JobReturns(c, ok)
    /\ UNCHANGED gatewayVars

StartJob(c) ==
    /\ Executing(c, "orchestrator")
    /\ Job!Start(c, cur[c].job \in Proxied) \/ Job!Misconfigured(c)
    /\ UNCHANGED queueVars

GatewayRequest(c) ==
    /\ Job!Create(c) \/ Job!Proxy(c) \/ Job!Poll(c) \/ Job!Touch(c) \/ Job!Delete(c)
    /\ UNCHANGED queueVars

FinishJob(c) == Job!Finish(c) /\ JobReturns(c, ~orch[c].err)

QueueStep(c) ==
    /\ \/ Receive(c) \/ Dispatch(c)
       \/ Ack(c) \/ AckSkipped(c) \/ Reject(c) \/ Requeue(c) \/ SettleStale(c)
    /\ UNCHANGED gatewayVars

\* What a live consumer does of its own.
Step(c) == QueueStep(c) \/ NativeJob(c) \/ StartJob(c) \/ GatewayRequest(c) \/ FinishJob(c)

Deadline(c) == Job!DeadlinePasses(c) /\ UNCHANGED queueVars

ProcessExit(c) == Exit(c) /\ Job!Abandon(c)

Outside ==
    \/ /\ \/ \E j \in Jobs : Publish(j)
          \/ \E c \in Consumers :
                \/ EmptyPoll(c) \/ CallFails(c) \/ Restart(c) \/ ConnectionLost(c)
                \/ \E k \in completed[c] : KeyExpires(c, k)
       /\ UNCHANGED gatewayVars
    \/ \E c \in Consumers : ProcessExit(c)
    \/ (\E s \in Ids : Job!SessionMoves(s)) /\ UNCHANGED queueVars

Next == (\E c \in Consumers : Step(c) \/ Deadline(c)) \/ Outside

(***************************************************************************)
(* A live consumer keeps running (its loop awaits calls that time out) and  *)
(* time passes; nothing makes the producer, a broker fault or a restart     *)
(* happen.                                                                  *)
(***************************************************************************)
Fairness == \A c \in Consumers : WF_vars(Step(c)) /\ WF_vars(Deadline(c))

Spec == Init /\ [][Next]_vars /\ Fairness

-----------------------------------------------------------------------------

TypeOK ==
    /\ backend \in Backends
    /\ queue \in Seq(Entries)
    /\ held \in [Consumers -> SUBSET Entries]
    /\ pc \in [Consumers -> Idle \cup {"polling", "received", "skipping",
                                       "executing", "succeeded", "failed"}]
    /\ cur \in [Consumers -> Entries \cup {NoEntry}]
    /\ fate \in [Jobs -> {"unsent", "open", "done", "skipped", "dropped", "lost"}]
    /\ faults \in 0..MaxFaults
    /\ sessions \in [Ids -> {"none", "INIT", "READY", "DEAD", "gone"}]
    /\ orch \in [Consumers -> [step : {"idle", "create", "proxy", "poll", "touch",
                                       "delete", "done"},
                               sid : Ids \cup {NoId}, tries : 0..Retries,
                               late : BOOLEAN, err : BOOLEAN, proxied : BOOLEAN]]
    /\ orphans \subseteq Ids

\* Everywhere an entry of job j is: positions of the queue, hands of consumers.
Places(j) == {i \in 1..Len(queue) : queue[i].job = j}
             \cup {h \in Consumers \X Entries : h[2].job = j /\ h[2] \in held[h[1]]}

\* No crash, failing call, redelivery or retry makes an unsettled job vanish
\* or turn up twice, and a settled one is nowhere (queue.py receive, ack,
\* requeue and reject of the three backends).
JobsAccountedFor ==
    \A j \in Jobs : Cardinality(Places(j)) = IF fate[j] = "open" THEN 1 ELSE 0

\* A message leaves the queue as done only if its job was executed with
\* success, and as a duplicate only if some job with its key was: the ack, the
\* key registry and the deliveries of a crashed consumer never combine into an
\* acknowledged job nobody did (_handle_success, poll_once's skip).
AckedWorkWasDone ==
    /\ \A j \in Jobs : fate[j] = "done" => wins[j]
    /\ \A j \in Jobs : fate[j] = "skipped" => \E i \in Jobs : Key[i] = Key[j] /\ wins[i]

\* How often a job can be executed depends on the backend: up to the limit in
\* memory, and exactly so often when it is dropped; not at all on redis, where no
\* delivery gets past its log line; on amqp once more per crash, lost connection or
\* failing call, because redelivery does not count as an attempt - and no more often
\* even when those who lost their connection execute what they no longer hold.
RunsMatchBackend ==
    \A j \in Jobs :
        CASE backend = "memory" -> /\ runs[j] <= MaxAttempts
                                   /\ fate[j] = "dropped" => runs[j] = MaxAttempts
          [] backend = "redis"  -> runs[j] = 0
          [] backend = "amqp"   -> runs[j] <= 1 + faults

\* A session the gateway still lists has a job that is going to delete it, or
\* was orphaned by a lost answer to its creation, a failed delete or the death
\* of its worker; no other path out of run_orchestrated_job forgets it, and a
\* job reported as a success has deleted the session it worked with.
LeftoversExplained ==
    /\ \A s \in Ids : Job!Listed(s) =>
          s \in orphans \/ \E c \in Consumers : orch[c].sid = s /\ orch[c].step # "done"
    /\ \A c \in Consumers : orch[c].step = "done" /\ ~orch[c].err =>
          orch[c].sid # NoId /\ ~Job!Listed(orch[c].sid)

\* A job's life is the one JobLifecycle describes, whichever backend delivers it and
\* whatever crashes, calls and connections fail: no two consumers that hold it execute
\* it at a time, its holder is done executing when it is settled, and its verdict is
\* settled once and is deserved.  A consumer whose delivery was withdrawn by a lost
\* connection may execute it beside its next holder, or after the verdict, and settles
\* nothing (queue.py:669, connect_robust).
Holding(c) == pc[c] = "executing" /\ ~Stale(c)

Running == {cur[c].job : c \in {d \in Consumers : Holding(d)}}

AtLarge(c) == pc[c] \in {"received", "executing"} /\ Stale(c)

Loose == {cur[c].job : c \in {d \in Consumers : AtLarge(d)}}

Life == INSTANCE JobLifecycle WITH running <- Running, loose <- Loose
ImplementsLifecycle == Life!Spec

\* Pending on redis in hands that will not come back to it: nobody claims it, which
\* is how every delivery ends there.
Stranded(j) ==
    /\ backend = "redis"
    /\ \E c \in Consumers : \E e \in held[c] :
          e.job = j /\ (cur[c] # e \/ pc[c] \in Idle)

\* Whatever the gateway and the sessions do - no answers, a session that is
\* never ready or dies under the poll - a job is settled: executions end
\* (poll_timeout, retries), attempts run out, a live consumer polls on.  The
\* exceptions are consumers that all stopped or ended and, on redis, an entry
\* left pending.  On amqp nothing is promised: a message that does not decode
\* comes back to the head and can end one consumer after the other.
JobsSettle ==
    backend # "amqp" =>
        \A j \in Jobs : fate[j] = "open" ~>
            fate[j] # "open" \/ Stranded(j) \/ \A c \in Consumers : pc[c] \in Idle

\* tests/test_queue_consumer.py: "Failures should trigger retries until the
\* limit, then drop the job."
FailuresAreRetried ==
    \A j \in Jobs : fate[j] \in {"dropped", "lost"} => runs[j] >= MaxAttempts

=============================================================================
