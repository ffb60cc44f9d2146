------------------------------ MODULE JobQueue ------------------------------
(***************************************************************************)
(* The worker's job queue (services/camoufox_worker/worker/queue.py): the   *)
(* consumer loop, its per-process idempotency registry and the three        *)
(* backends it can be given.  What executing a job does is left to the      *)
(* module that composes this one (Worker); here an execution starts with    *)
(* Dispatch and ends with JobReturns.                                       *)
(*                                                                         *)
(* The backends differ in who keeps a delivered job.  "memory": the process *)
(* itself.  "redis": the consumer group's pending list, which no code reads *)
(* again (receive asks for ">" only).  "amqp": the broker, which puts an    *)
(* unsettled job back at the head once the connection of its consumer is    *)
(* closed: when its process dies, and also when it lives on and connects    *)
(* again (connect_robust), still at work on what it no longer holds.        *)
(***************************************************************************)
EXTENDS Naturals, Sequences, FiniteSets

CONSTANTS Backends,     \* the backends to check
          Consumers,    \* JobQueueConsumer instances on the one queue
          Jobs,         \* the messages a producer may publish, once each
          Order,        \* bound: the order it publishes them in, a sequence
          Mode,         \* Jobs -> "native" | "orchestrator" | "malformed"
          Key,          \* Jobs -> idempotency key, or NoKey
          NoKey,
          MaxAttempts,  \* JobQueueMessage.max_attempts
          MaxFaults     \* bound: crashes, lost connections, failing broker calls

ASSUME QueueAssumption ==
    /\ Backends \subseteq {"memory", "redis", "amqp"}
    /\ IsFiniteSet(Consumers)
    /\ Order \in Seq(Jobs)
    /\ Mode \in [Jobs -> {"native", "orchestrator", "malformed"}]
    /\ MaxAttempts \in Nat \ {0}
    /\ MaxFaults \in Nat

VARIABLES backend,    \* the backend of this behaviour
          queue,      \* deliverable entries [job, attempt], oldest first
          held,       \* consumer -> entries delivered to it and not settled
          pc,         \* consumer -> where poll_once stands
          cur,        \* consumer -> the envelope poll_once works on
          completed,  \* consumer -> keys in its IdempotencyRegistry
          fate,       \* job -> what became of it (history)
          runs,       \* job -> executions started (history)
          wins,       \* job -> did an execution succeed (history)
          faults      \* crashes, lost connections and failing calls (history, bounded)

queueVars == <<backend, queue, held, pc, cur, completed, fate, runs, wins, faults>>

Entries == [job : Jobs, attempt : 1..MaxAttempts]
NoEntry == [job |-> "none", attempt |-> 0]

\* polling: in receive; received: the depth gauge is being updated;
\* ended: an exception left run(), the process is still there.
Idle == {"ended", "down", "stopped"}

QueueInit ==
    /\ backend \in Backends
    /\ queue = <<>>
    /\ held = [c \in Consumers |-> {}]
    /\ pc = [c \in Consumers |-> "polling"]
    /\ cur = [c \in Consumers |-> NoEntry]
    /\ completed = [c \in Consumers |-> {}]
    /\ fate = [j \in Jobs |-> "unsent"]
    /\ runs = [j \in Jobs |-> 0]
    /\ wins = [j \in Jobs |-> FALSE]
    /\ faults = 0

(***************************************************************************)
(* The producer.  The memory backend is handed message objects, so nothing  *)
(* in it can fail to decode.                                                *)
(***************************************************************************)
Sendable(j) == backend = "memory" => Mode[j] # "malformed"

Publish(j) ==
    /\ fate[j] = "unsent" /\ Sendable(j)
    /\ \A i, k \in DOMAIN Order :
          i < k /\ Order[k] = j /\ Sendable(Order[i]) => fate[Order[i]] # "unsent"
    /\ queue' = Append(queue, [job |-> j, attempt |-> 1])
    /\ fate' = [fate EXCEPT ![j] = "open"]
    /\ UNCHANGED <<backend, held, pc, cur, completed, runs, wins, faults>>

(***************************************************************************)
(* receive.  The brokers deliver first and decode afterwards, so a message  *)
(* that does not decode is held by a consumer that ends.                    *)
(***************************************************************************)
Undecodable(entry) == Mode[entry.job] = "malformed"

Deliver(c) ==
    /\ queue # <<>>
    /\ queue' = Tail(queue)
    /\ held' = [held EXCEPT ![c] = @ \cup {Head(queue)}]

Receive(c) ==
    /\ pc[c] = "polling"
    /\ Deliver(c)
    /\ IF Undecodable(Head(queue))
         THEN /\ pc' = [pc EXCEPT ![c] = "ended"] /\ UNCHANGED cur
         ELSE /\ pc' = [pc EXCEPT ![c] = "received"]
              /\ cur' = [cur EXCEPT ![c] = Head(queue)]
    /\ UNCHANGED <<backend, completed, fate, runs, wins, faults>>

\* A poll that found nothing: run() ends here if stop_event is set.  aio_pika
\* may also raise on an empty queue (QueueEmpty) instead of returning None.
EmptyPoll(c) ==
    /\ pc[c] = "polling" /\ queue = <<>>
    /\ \E next \in {"stopped"} \cup (IF backend = "amqp" THEN {"ended"} ELSE {}) :
          pc' = [pc EXCEPT ![c] = next]
    /\ UNCHANGED <<backend, queue, held, cur, completed, fate, runs, wins, faults>>

KeyOf(c) == Key[cur[c].job]
Known(c) == KeyOf(c) # NoKey /\ KeyOf(c) \in completed[c]

\* The delivery is no longer this consumer's: its connection was lost meanwhile.
Stale(c) == cur[c] \notin held[c]

\* The log line job_received, the idempotency check, then the executor: all after the
\* depth gauge.  A delivery tag of redis is bytes, which the log line's json.dumps
\* refuses: the exception leaves poll_once and ends run() with the entry pending.
Dispatch(c) ==
    /\ pc[c] = "received"
    /\ \/ /\ backend = "redis"
          /\ pc' = [pc EXCEPT ![c] = "ended"] /\ UNCHANGED runs
       \/ /\ backend # "redis" /\ Known(c)
          /\ pc' = [pc EXCEPT ![c] = "skipping"] /\ UNCHANGED runs
       \/ /\ backend # "redis" /\ ~Known(c)
          /\ pc' = [pc EXCEPT ![c] = "executing"]
          /\ runs' = [runs EXCEPT ![cur[c].job] = @ + 1]
    /\ UNCHANGED <<backend, queue, held, cur, completed, fate, wins, faults>>

\* Fault: poll_once takes any returned result for a success.
JobReturnsUnread(c, ok) ==
    /\ pc[c] = "executing"
    /\ pc' = [pc EXCEPT ![c] = "succeeded"]
    /\ wins' = [wins EXCEPT ![cur[c].job] = @ \/ ok]
    /\ UNCHANGED <<backend, queue, held, cur, completed, fate, runs, faults>>

\* The executor returned a result, or raised (ok = FALSE).
JobReturns(c, ok) ==
    /\ pc[c] = "executing"
    /\ pc' = [pc EXCEPT ![c] = IF ok THEN "succeeded" ELSE "failed"]
    /\ wins' = [wins EXCEPT ![cur[c].job] = @ \/ ok]
    /\ UNCHANGED <<backend, queue, held, cur, completed, fate, runs, faults>>

(***************************************************************************)
(* Settling.  The entry leaves the consumer's hands with the fate given.    *)
(***************************************************************************)
\* Fault: the broker is not told.
SettleForgotten(c, what) == UNCHANGED held /\ fate' = [fate EXCEPT ![cur[c].job] = what]

\* Fault: a delivery that was withdrawn is settled all the same.
SettleWithdrawn(c, what) ==
    /\ held' = [held EXCEPT ![c] = @ \ {cur[c]}]
    /\ fate' = [fate EXCEPT ![cur[c].job] = what]

Settle(c, what) ==
    /\ ~Stale(c)
    /\ held' = [held EXCEPT ![c] = @ \ {cur[c]}]
    /\ fate' = [fate EXCEPT ![cur[c].job] = what]

Continue(c) ==
    /\ pc' = [pc EXCEPT ![c] = "polling"]
    /\ cur' = [cur EXCEPT ![c] = NoEntry]

\* _handle_success: the ack comes first, the key is marked after it.
Ack(c) ==
    /\ pc[c] = "succeeded"
    /\ Settle(c, "done")
    /\ completed' = [completed EXCEPT ![c] = @ \cup ({KeyOf(c)} \ {NoKey})]
    /\ Continue(c)
    /\ UNCHANGED <<backend, queue, runs, wins, faults>>

AckSkipped(c) ==
    /\ pc[c] = "skipping"
    /\ Settle(c, "skipped")
    /\ Continue(c)
    /\ UNCHANGED <<backend, queue, completed, runs, wins, faults>>

\* Fault: the limit is compared one too early.
LastAttemptEarly(c) == cur[c].attempt + 1 >= MaxAttempts

LastAttempt(c) == cur[c].attempt >= MaxAttempts

Reject(c) ==
    /\ pc[c] = "failed" /\ LastAttempt(c)
    /\ Settle(c, "dropped")
    /\ Continue(c)
    /\ UNCHANGED <<backend, queue, completed, runs, wins, faults>>

\* The channel of a lost connection is closed for its deliveries, so ack and reject
\* raise: nothing is settled, no key is marked and run() ends.
SettleStale(c) ==
    /\ pc[c] \in {"skipping", "succeeded", "failed"} /\ Stale(c)
    /\ pc' = [pc EXCEPT ![c] = "ended"]
    /\ UNCHANGED <<backend, queue, held, cur, completed, fate, runs, wins, faults>>

(***************************************************************************)
(* requeue.  Only the memory backend gets as far as queueing the message    *)
(* again.  amqp serialises it with json.dumps(model_dump()), which raises   *)
(* for every Job (its url is an HttpUrl object) after the old delivery was  *)
(* rejected for good; the exception leaves poll_once and ends run().  On    *)
(* redis no job is executed, so none fails.                                 *)
(***************************************************************************)
RequeueInMemory(c) ==
    /\ backend = "memory"
    /\ held' = [held EXCEPT ![c] = @ \ {cur[c]}]
    /\ queue' = Append(queue, [cur[c] EXCEPT !.attempt = @ + 1])
    /\ Continue(c)
    /\ UNCHANGED fate

RequeueOnAmqp(c) ==
    /\ backend = "amqp"
    /\ Settle(c, "lost")
    /\ pc' = [pc EXCEPT ![c] = "ended"]
    /\ UNCHANGED <<queue, cur>>

Requeue(c) ==
    /\ pc[c] = "failed" /\ ~LastAttempt(c)
    /\ RequeueInMemory(c) \/ RequeueOnAmqp(c)
    /\ UNCHANGED <<backend, completed, runs, wins, faults>>

(***************************************************************************)
(* A broker call raises (connection lost, XINFO refused): the exception     *)
(* leaves run().  The broker may have done what it was asked or not.        *)
(***************************************************************************)
BrokerCall(c) == \/ pc[c] = "polling" /\ backend # "memory"
                 \/ pc[c] = "received" /\ backend = "redis"
                 \/ /\ pc[c] \in {"skipping", "succeeded", "failed"}
                    /\ backend = "amqp" /\ ~Stale(c)

CallFails(c) ==
    /\ BrokerCall(c) /\ faults < MaxFaults
    /\ faults' = faults + 1
    /\ pc' = [pc EXCEPT ![c] = "ended"]
    /\ \/ UNCHANGED <<queue, held, fate>>
       \* xreadgroup was carried out and its answer is lost.
       \/ pc[c] = "polling" /\ backend = "redis" /\ Deliver(c) /\ UNCHANGED fate
       \/ /\ \/ pc[c] = "succeeded" /\ Settle(c, "done")
             \/ pc[c] = "skipping" /\ Settle(c, "skipped")
             \/ pc[c] = "failed" /\ Settle(c, IF LastAttempt(c) THEN "dropped" ELSE "lost")
          /\ UNCHANGED queue
    /\ UNCHANGED <<backend, cur, completed, runs, wins>>

\* The record of a completed key reaches the end of its ttl.
KeyExpires(c, k) ==
    /\ k \in completed[c]
    /\ completed' = [completed EXCEPT ![c] = @ \ {k}]
    /\ UNCHANGED <<backend, queue, held, pc, cur, fate, runs, wins, faults>>

\* An amqp broker redelivers what was not settled: one entry at most, with the
\* attempt number it had.
GiveBack(c) ==
    /\ queue' = <<CHOOSE e \in held[c] : TRUE>> \o queue
    /\ held' = [held EXCEPT ![c] = {}]

\* The connection to the broker is lost and made again (connect_robust) in a process
\* that lives on: its consumer does not learn of it until it settles.
ConnectionLost(c) ==
    /\ backend = "amqp" /\ held[c] # {} /\ faults < MaxFaults
    /\ faults' = faults + 1
    /\ GiveBack(c)
    /\ UNCHANGED <<backend, pc, cur, completed, fate, runs, wins>>

(***************************************************************************)
(* The process of a consumer on a broker dies, or exits after run() ended.  *)
(* Its registry goes with it.  redis keeps what it held pending.            *)
(***************************************************************************)
Exit(c) ==
    /\ backend # "memory" /\ pc[c] \notin {"down", "stopped"}
    /\ \/ pc[c] = "ended" /\ UNCHANGED faults
       \/ pc[c] # "ended" /\ faults < MaxFaults /\ faults' = faults + 1
    /\ pc' = [pc EXCEPT ![c] = "down"]
    /\ cur' = [cur EXCEPT ![c] = NoEntry]
    /\ completed' = [completed EXCEPT ![c] = {}]
    /\ IF backend = "amqp" /\ held[c] # {}
         THEN GiveBack(c)
         ELSE UNCHANGED <<queue, held>>
    /\ UNCHANGED <<backend, fate, runs, wins>>

Restart(c) ==
    /\ pc[c] = "down"
    /\ pc' = [pc EXCEPT ![c] = "polling"]
    /\ UNCHANGED <<backend, queue, held, cur, completed, fate, runs, wins, faults>>

=============================================================================
