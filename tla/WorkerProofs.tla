---------------------------- MODULE WorkerProofs ----------------------------
(***************************************************************************)
(* The safety properties of the worker hold for any consumers, jobs and    *)
(* sessions, any number of attempts and retries, and on every backend.     *)
(*                                                                         *)
(* The queue's half of a state (QueueInv) and the gateway's (SessionInv)   *)
(* are invariants of their own: a job's execution and its entry in the     *)
(* queue meet only where an execution begins and returns.                  *)
(***************************************************************************)
EXTENDS Worker, FiniteSetTheorems, TLAPS

Working == {"received", "skipping", "executing", "succeeded", "failed"}

QueueTypes ==
    /\ backend \in Backends
    /\ queue \in Seq(Entries)
    /\ held \in [Consumers -> SUBSET Entries]
    /\ pc \in [Consumers -> Idle \cup {"polling"} \cup Working]
    /\ cur \in [Consumers -> Entries \cup {NoEntry}]
    /\ DOMAIN completed = Consumers
    /\ fate \in [Jobs -> {"unsent", "open", "done", "skipped", "dropped", "lost"}]
    /\ runs \in [Jobs -> Nat]
    /\ wins \in [Jobs -> BOOLEAN]
    /\ faults \in 0..MaxFaults

\* A consumer works on an entry it holds, unless a RabbitMQ connection was lost.  A
\* RabbitMQ consumer holds no other, which is why its death gives back all it holds.
InHands ==
    /\ \A c \in Consumers :
          pc[c] \in Working => cur[c] \in Entries /\ (Stale(c) => backend = "amqp")
    /\ backend = "amqp" =>
          \A c \in Consumers : /\ pc[c] \in {"polling", "down", "stopped"} => held[c] = {}
                               /\ pc[c] \in Working => held[c] \subseteq {cur[c]}
                               /\ \A e, f \in held[c] : e = f

\* No job is at two places of the queue, in two hands or in both, and the unsettled
\* ones are those that are somewhere.
OnePlace ==
    /\ \A i, k \in DOMAIN queue : queue[i].job = queue[k].job => i = k
    /\ \A c, d \in Consumers : \A e \in held[c], f \in held[d] :
          e.job = f.job => c = d /\ e = f
    /\ \A i \in DOMAIN queue, c \in Consumers : \A e \in held[c] : queue[i].job # e.job
    /\ \A j \in Jobs :
          fate[j] = "open" <=> \/ \E i \in DOMAIN queue : queue[i].job = j
                               \/ \E c \in Consumers : \E e \in held[c] : e.job = j

\* Some job with this key was executed with success.
KeyWon(k) == \E i \in Jobs : Key[i] = k /\ wins[i]

\* A key is registered, and a job on its way to an ack, only after such a success.
Deserves(c) ==
    /\ pc[c] = "succeeded" => wins[cur[c].job]
    /\ pc[c] = "skipping" => KeyWon(KeyOf(c))
    /\ \A k \in completed[c] : KeyWon(k)

AcksDeserved == AckedWorkWasDone /\ \A c \in Consumers : Deserves(c)

\* The consumers that have yet to begin an execution of a delivery they lost.
Late(j) == {c \in Consumers : pc[c] = "received" /\ Stale(c) /\ cur[c].job = j}

\* The executions of a job that have begun, and those that may begin without a delivery.
Due(j) == runs[j] + Cardinality(Late(j))

\* How often the job of an entry was executed before, and when, its attempt begins.
Unrun(e) ==
    /\ backend = "memory" => runs[e.job] = e.attempt - 1
    /\ backend = "redis" => runs[e.job] = 0
    /\ backend = "amqp" => Due(e.job) <= faults

Ran(e) ==
    /\ backend = "memory" => runs[e.job] = e.attempt
    /\ backend = "redis" => runs[e.job] = 0
    /\ backend = "amqp" => Due(e.job) <= 1 + faults

RunsBounded ==
    \A j \in Jobs :
        /\ backend = "memory" => /\ runs[j] <= MaxAttempts
                                 /\ fate[j] = "dropped" => runs[j] = MaxAttempts
        /\ backend = "redis" => runs[j] = 0
        /\ backend = "amqp" => Due(j) <= 1 + faults

\* On RabbitMQ what an ended consumer will give back has a fault to account for it.
Accounted(c) ==
    /\ pc[c] \in Working => fate[cur[c].job] # "unsent"
    /\ ~Stale(c) /\ pc[c] \in {"received", "skipping"} => Unrun(cur[c])
    /\ ~Stale(c) /\ pc[c] \in {"executing", "succeeded", "failed"} => Ran(cur[c])
    /\ backend = "amqp" /\ pc[c] = "ended" => \A e \in held[c] : Unrun(e)

Attempts ==
    /\ RunsBounded
    /\ \A j \in Jobs : fate[j] = "unsent" => runs[j] = 0
    /\ \A i \in DOMAIN queue : Unrun(queue[i])
    /\ \A c \in Consumers : Accounted(c)

QueueInv ==
    /\ QueueTypes
    /\ InHands
    /\ OnePlace
    /\ AcksDeserved
    /\ Attempts

Progress == [step : {"idle", "create", "proxy", "poll", "touch", "delete", "done"},
             sid : Ids \cup {NoId}, tries : 0..Retries,
             late : BOOLEAN, err : BOOLEAN, proxied : BOOLEAN]

SessionTypes ==
    /\ sessions \in [Ids -> {"none", "INIT", "READY", "DEAD", "gone"}]
    /\ orch \in [Consumers -> Progress]
    /\ orphans \subseteq Ids

\* An execution knows its session from the answer of the create on, and reports a
\* success only when it has deleted it; a deleted session does not come back.
Knows(c) ==
    /\ orch[c].step \in {"idle", "create"} => orch[c].sid = NoId
    /\ orch[c].step \in {"proxy", "poll", "touch", "delete"} =>
          orch[c].sid \in Ids /\ sessions[orch[c].sid] # "none"
    /\ orch[c].step \in {"create", "proxy", "poll", "touch"} => ~orch[c].err
    /\ orch[c].step = "done" /\ ~orch[c].err =>
          orch[c].sid \in Ids /\ sessions[orch[c].sid] = "gone"

Sids == \A c \in Consumers : Knows(c)

SessionInv ==
    /\ SessionTypes
    /\ Sids
    /\ LeftoversExplained

IInv == QueueInv /\ SessionInv

-----------------------------------------------------------------------------
\* What the queue is after its head was taken, something put behind it, or in front.
LEMMA Shifted ==
    ASSUME NEW S, NEW q \in Seq(S), q # <<>>
    PROVE  /\ 1 \in DOMAIN q /\ Head(q) = q[1] /\ Head(q) \in S
           /\ Tail(q) \in Seq(S)
           /\ \A i \in DOMAIN Tail(q) : /\ i \in Nat /\ i + 1 \in DOMAIN q /\ i + 1 # 1
                                        /\ Tail(q)[i] = q[i + 1]
           /\ \A i \in DOMAIN q \ {1} : /\ i \in Nat /\ i - 1 \in DOMAIN Tail(q)
                                        /\ Tail(q)[i - 1] = q[i]
    OBVIOUS

\* Where an entry is that joined the end of a sequence ...
LEMMA Appended ==
    ASSUME NEW S, NEW q \in Seq(S), NEW e \in S
    PROVE  /\ Append(q, e) \in Seq(S)
           /\ DOMAIN Append(q, e) = DOMAIN q \cup {Len(q) + 1}
           /\ Len(q) + 1 \notin DOMAIN q
           /\ Append(q, e)[Len(q) + 1] = e
           /\ \A i \in DOMAIN q : Append(q, e)[i] = q[i]
    OBVIOUS

\* ... or its head.
LEMMA Prepended ==
    ASSUME NEW S, NEW q \in Seq(S), NEW e \in S
    PROVE  /\ <<e>> \o q \in Seq(S)
           /\ 1 \in DOMAIN (<<e>> \o q) /\ (<<e>> \o q)[1] = e
           /\ \A i \in DOMAIN (<<e>> \o q) \ {1} :
                 /\ i \in Nat /\ i - 1 \in DOMAIN q
                 /\ (<<e>> \o q)[i] = q[i - 1]
           /\ \A i \in DOMAIN q : /\ i \in Nat /\ i + 1 \in DOMAIN (<<e>> \o q) /\ i + 1 # 1
                                  /\ (<<e>> \o q)[i + 1] = q[i]
    OBVIOUS

\* A consumer works on an entry, and holds nothing if it does not hold this one.
LEMMA InWork ==
    ASSUME QueueInv, NEW c \in Consumers, pc[c] \in Working
    PROVE  /\ cur[c] \in Entries
           /\ cur[c].job \in Jobs /\ cur[c].attempt \in 1..MaxAttempts
           /\ fate[cur[c].job] # "unsent"
           /\ Stale(c) => backend = "amqp" /\ held[c] = {}
<1>1. cur[c] \in Entries /\ (Stale(c) => backend = "amqp")
    BY DEF QueueInv, InHands
<1>2. cur[c].job \in Jobs /\ cur[c].attempt \in 1..MaxAttempts
    BY <1>1 DEF Entries
<1>3. Stale(c) => held[c] = {}
    BY <1>1 DEF QueueInv, InHands, Stale
<1>4. fate[cur[c].job] # "unsent"
    BY DEF QueueInv, Attempts, Accounted
<1>. QED
    BY <1>1, <1>2, <1>3, <1>4

\* The entry it holds is unsettled, and nobody else has it.
LEMMA InHand ==
    ASSUME QueueInv, NEW c \in Consumers, pc[c] \in Working, ~Stale(c)
    PROVE  /\ cur[c] \in held[c]
           /\ fate[cur[c].job] = "open"
           /\ \A i \in DOMAIN queue : queue[i].job # cur[c].job
           /\ \A d \in Consumers \ {c} : \A e \in held[d] : e.job # cur[c].job
           /\ \A e \in held[c] : e.job = cur[c].job => e = cur[c]
<1>1. cur[c] \in held[c] /\ cur[c].job \in Jobs
    BY InWork DEF Stale
<1>. QED
    BY <1>1 DEF QueueInv, OnePlace

\* An entry on its way is well formed.
LEMMA EntryFields ==
    ASSUME NEW e \in Entries
    PROVE  e.job \in Jobs /\ e.attempt \in 1..MaxAttempts
    BY DEF Entries

\* A settled entry is nowhere, and its job settled.
LEMMA Settles ==
    ASSUME QueueTypes, OnePlace, NEW c \in Consumers, cur[c] \in held[c],
           NEW what, what # "open", Settle(c, what), UNCHANGED queue
    PROVE  OnePlace'
<1>1. cur[c] \in Entries /\ cur[c].job \in Jobs
    BY DEF QueueTypes, Entries
<1>2. /\ \A d \in Consumers : held'[d] = IF d = c THEN held[c] \ {cur[c]} ELSE held[d]
      /\ \A j \in Jobs : fate'[j] = IF j = cur[c].job THEN what ELSE fate[j]
    BY DEF Settle, QueueTypes
<1>3. \A d \in Consumers : \A e \in held'[d] : e \in held[d] /\ e.job # cur[c].job
    BY <1>2 DEF OnePlace
<1>4. \A d \in Consumers : \A e \in held[d] : e \in held'[d] \/ e = cur[c]
    BY <1>2
<1>5. \A j \in Jobs :
          fate'[j] = "open" <=> \/ \E i \in DOMAIN queue : queue[i].job = j
                                \/ \E d \in Consumers : \E e \in held'[d] : e.job = j
  <2> TAKE j \in Jobs
  <2>1. CASE j = cur[c].job
      BY <1>1, <1>2, <1>3, <2>1 DEF OnePlace
  <2>2. CASE j # cur[c].job
      BY <1>2, <1>3, <1>4, <2>2 DEF OnePlace
  <2>. QED
      BY <2>1, <2>2
<1>. QED
    BY <1>3, <1>5 DEF OnePlace

\* A delivered entry was at the head and is in one hand now.
LEMMA Delivers ==
    ASSUME QueueTypes, OnePlace, NEW c \in Consumers, Deliver(c), UNCHANGED fate
    PROVE  OnePlace' /\ queue' \in Seq(Entries) /\ held' \in [Consumers -> SUBSET Entries]
<1> DEFINE first == Head(queue)
<1>1. /\ 1 \in DOMAIN queue /\ first = queue[1] /\ first \in Entries
      /\ queue' \in Seq(Entries)
      /\ \A i \in DOMAIN queue' : i \in Nat /\ i + 1 \in DOMAIN queue /\ i + 1 # 1
                                  /\ queue'[i] = queue[i + 1]
      /\ \A i \in DOMAIN queue \ {1} : i - 1 \in DOMAIN queue' /\ queue'[i - 1] = queue[i]
    BY DEF QueueTypes, Deliver
<1>2. \A d \in Consumers : held'[d] = IF d = c THEN held[c] \cup {first} ELSE held[d]
    BY DEF Deliver, QueueTypes
<1> HIDE DEF first
<1>3. held' \in [Consumers -> SUBSET Entries]
    BY <1>1 DEF Deliver, QueueTypes
<1>4. /\ \A i \in DOMAIN queue' : queue'[i].job # first.job
      /\ \A i, k \in DOMAIN queue' : queue'[i].job = queue'[k].job => i = k
  <2>1. \A i, k \in DOMAIN queue' : i + 1 = k + 1 => i = k
      BY <1>1
  <2>. QED
      BY <1>1, <2>1 DEF OnePlace
<1>5. \A d, b \in Consumers : \A e \in held'[d], f \in held'[b] :
          e.job = f.job => d = b /\ e = f
    BY <1>1, <1>2 DEF OnePlace
<1>6. ASSUME NEW i \in DOMAIN queue', NEW d \in Consumers, NEW e \in held'[d]
      PROVE  queue'[i].job # e.job
  <2>1. CASE e = first
      BY <1>4, <2>1
  <2>2. CASE e \in held[d]
      BY <1>1, <2>2 DEF OnePlace
  <2>. QED
      BY <1>2, <2>1, <2>2
<1>7. ASSUME NEW j \in Jobs
      PROVE  fate'[j] = "open" <=> \/ \E i \in DOMAIN queue' : queue'[i].job = j
                                   \/ \E d \in Consumers : \E e \in held'[d] : e.job = j
  <2>1. (\E i \in DOMAIN queue : queue[i].job = j)
            <=> first.job = j \/ \E i \in DOMAIN queue' : queue'[i].job = j
      BY <1>1
  <2>2. (\E d \in Consumers : \E e \in held'[d] : e.job = j)
            <=> first.job = j \/ \E d \in Consumers : \E e \in held[d] : e.job = j
      BY <1>2
  <2>. QED
      BY <2>1, <2>2 DEF OnePlace
<1>. QED
    BY <1>1, <1>3, <1>4, <1>5, <1>6, <1>7 DEF OnePlace

\* A failed entry leaves the hands and is behind the others, one attempt later.
LEMMA Requeues ==
    ASSUME QueueTypes, OnePlace, NEW c \in Consumers, cur[c] \in held[c],
           NEW e \in Entries, e.job = cur[c].job,
           held' = [held EXCEPT ![c] = @ \ {cur[c]}], queue' = Append(queue, e), UNCHANGED fate
    PROVE  OnePlace'
<1> DEFINE last == Len(queue) + 1
<1>1. /\ DOMAIN queue' = DOMAIN queue \cup {last} /\ last \notin DOMAIN queue
      /\ queue'[last] = e
      /\ \A i \in DOMAIN queue : queue'[i] = queue[i]
    OBVIOUS
<1> HIDE DEF last
<1>2. \A d \in Consumers : held'[d] = IF d = c THEN held[c] \ {cur[c]} ELSE held[d]
    BY DEF QueueTypes
<1>3. \A d \in Consumers : \A f \in held'[d] : f \in held[d] /\ f.job # cur[c].job
    BY <1>2 DEF OnePlace
<1>4. \A i \in DOMAIN queue : queue[i].job # cur[c].job
    BY DEF OnePlace
<1>5. \A i, k \in DOMAIN queue' : queue'[i].job = queue'[k].job => i = k
    BY <1>1, <1>4 DEF OnePlace
<1>6. \A i \in DOMAIN queue', d \in Consumers : \A f \in held'[d] : queue'[i].job # f.job
    BY <1>1, <1>3 DEF OnePlace
<1>7. ASSUME NEW j \in Jobs
      PROVE  fate'[j] = "open" <=> \/ \E i \in DOMAIN queue' : queue'[i].job = j
                                   \/ \E d \in Consumers : \E f \in held'[d] : f.job = j
  <2>1. (\E i \in DOMAIN queue' : queue'[i].job = j)
            <=> cur[c].job = j \/ \E i \in DOMAIN queue : queue[i].job = j
      BY <1>1
  <2>2. (\E d \in Consumers : \E f \in held[d] : f.job = j)
            <=> cur[c].job = j \/ \E d \in Consumers : \E f \in held'[d] : f.job = j
      BY <1>2
  <2>. QED
      BY <2>1, <2>2 DEF OnePlace
<1>. QED
    BY <1>3, <1>5, <1>6, <1>7 DEF OnePlace

\* The only entry of a dead consumer is at the head.
LEMMA GivesBack ==
    ASSUME QueueTypes, OnePlace, NEW c \in Consumers, NEW e \in held[c],
           \A f \in held[c] : f = e,
           held' = [held EXCEPT ![c] = {}], queue' = <<e>> \o queue, UNCHANGED fate
    PROVE  OnePlace'
<1>1. /\ 1 \in DOMAIN queue' /\ queue'[1] = e
      /\ \A i \in DOMAIN queue' \ {1} : /\ i \in Nat /\ i - 1 \in DOMAIN queue
                                        /\ queue'[i] = queue[i - 1]
      /\ \A i \in DOMAIN queue : /\ i + 1 \in DOMAIN queue' /\ i + 1 # 1
                                 /\ queue'[i + 1] = queue[i]
    OBVIOUS
<1>2. \A d \in Consumers : held'[d] = IF d = c THEN {} ELSE held[d]
    BY DEF QueueTypes
<1>3. \A d \in Consumers : \A f \in held'[d] : f \in held[d] /\ f.job # e.job
    BY <1>2 DEF OnePlace
<1>4. \A i, k \in DOMAIN queue' : queue'[i].job = queue'[k].job => i = k
  <2>1. \A i, k \in DOMAIN queue' \ {1} : i - 1 = k - 1 => i = k
      BY <1>1
  <2>2. \A i \in DOMAIN queue' \ {1} : queue'[i].job # e.job
      BY <1>1 DEF OnePlace
  <2>. QED
      BY <1>1, <2>1, <2>2 DEF OnePlace
<1>5. \A d, b \in Consumers : \A f \in held'[d], h \in held'[b] :
          f.job = h.job => d = b /\ f = h
    BY <1>3 DEF OnePlace
<1>6. \A i \in DOMAIN queue', d \in Consumers : \A f \in held'[d] : queue'[i].job # f.job
    BY <1>1, <1>3 DEF OnePlace
<1>7. ASSUME NEW j \in Jobs
      PROVE  fate'[j] = "open" <=> \/ \E i \in DOMAIN queue' : queue'[i].job = j
                                   \/ \E d \in Consumers : \E f \in held'[d] : f.job = j
  <2>1. (\E i \in DOMAIN queue' : queue'[i].job = j)
            <=> e.job = j \/ \E i \in DOMAIN queue : queue[i].job = j
      BY <1>1
  <2>2. (\E d \in Consumers : \E f \in held[d] : f.job = j)
            <=> e.job = j \/ \E d \in Consumers : \E f \in held'[d] : f.job = j
      BY <1>2
  <2>. QED
      BY <2>1, <2>2 DEF OnePlace
<1>. QED
    BY <1>4, <1>5, <1>6, <1>7 DEF OnePlace

-----------------------------------------------------------------------------
\* What a step of one consumer leaves alone.
Others(c) ==
    \A d \in Consumers \ {c} : /\ pc'[d] = pc[d]
                               /\ cur'[d] = cur[d]
                               /\ held'[d] = held[d]
                               /\ completed'[d] = completed[d]

\* A step of one consumer leaves the others' places and entries alone.
LEMMA Alone ==
    ASSUME QueueTypes, NEW c \in Consumers,
           \/ Receive(c) \/ EmptyPoll(c) \/ Dispatch(c) \/ \E ok \in BOOLEAN : JobReturns(c, ok)
           \/ Ack(c) \/ AckSkipped(c) \/ Reject(c) \/ Requeue(c) \/ CallFails(c)
           \/ Exit(c) \/ Restart(c) \/ \E k \in completed[c] : KeyExpires(c, k)
           \/ SettleStale(c) \/ ConnectionLost(c)
    PROVE  Others(c)
<1> USE DEF Others, QueueTypes
<1>1. CASE Receive(c)
    BY <1>1 DEF Receive, Deliver
<1>2. CASE EmptyPoll(c) \/ Dispatch(c) \/ Restart(c) \/ SettleStale(c)
    BY <1>2 DEF EmptyPoll, Dispatch, Restart, SettleStale
<1>3. CASE \E ok \in BOOLEAN : JobReturns(c, ok)
    BY <1>3 DEF JobReturns
<1>4. CASE Ack(c) \/ AckSkipped(c) \/ Reject(c)
    BY <1>4 DEF Ack, AckSkipped, Reject, Settle, Continue
<1>5. CASE Requeue(c)
    BY <1>5 DEF Requeue, RequeueInMemory, RequeueOnAmqp, Settle, Continue
<1>6. CASE CallFails(c)
    BY <1>6 DEF CallFails, Deliver, Settle
<1>7. CASE Exit(c) \/ ConnectionLost(c)
    BY <1>7 DEF Exit, ConnectionLost, GiveBack
<1>8. CASE \E k \in completed[c] : KeyExpires(c, k)
    BY <1>8 DEF KeyExpires
<1>. QED
    BY <1>1, <1>2, <1>3, <1>4, <1>5, <1>6, <1>7, <1>8

\* Nothing takes a success back, so what the other consumers rely on stays true.
LEMMA StillDeserved ==
    ASSUME QueueInv, NEW c \in Consumers, Others(c),
           \A j \in Jobs : wins[j] => wins'[j],
           Deserves(c)', AckedWorkWasDone'
    PROVE  AcksDeserved'
<1>1. \A k : KeyWon(k) => KeyWon(k)'
    BY DEF KeyWon
<1>2. ASSUME NEW d \in Consumers \ {c}
      PROVE  Deserves(d)'
  <2>1. pc[d] = "succeeded" => cur[d].job \in Jobs
      BY InWork DEF Working
  <2>. QED
      BY <1>1, <2>1 DEF QueueInv, AcksDeserved, Deserves, Others, KeyOf
<1>. QED
    BY <1>2 DEF AcksDeserved

\* The consumers are finitely many, and so are those that are late.
LEMMA Counts ==
    ASSUME NEW S, S \subseteq Consumers, NEW T, T \subseteq S
    PROVE  /\ IsFiniteSet(S) /\ Cardinality(S) \in Nat
           /\ IsFiniteSet(T) /\ Cardinality(T) \in Nat
           /\ Cardinality(T) <= Cardinality(S)
<1>1. IsFiniteSet(Consumers)
    BY QueueAssumption
<1>2. IsFiniteSet(S)
    BY <1>1, FS_Subset
<1>3. IsFiniteSet(T)
    BY <1>2, FS_Subset
<1>. QED
    BY <1>2, <1>3, FS_Subset, FS_CardinalityType

\* Every count is one.
LEMMA DueTypes ==
    ASSUME QueueTypes, NEW j \in Jobs
    PROVE  /\ Due(j) \in Nat /\ runs[j] \in Nat /\ runs[j] <= Due(j)
           /\ faults \in Nat /\ Cardinality(Late(j)) \in Nat /\ Late(j) \subseteq Consumers
<1>1. Late(j) \subseteq Consumers
    BY DEF Late
<1>2. Cardinality(Late(j)) \in Nat
    BY <1>1, Counts
<1>3. runs[j] \in Nat /\ faults \in Nat
    BY DEF QueueTypes
<1>. QED
    BY <1>1, <1>2, <1>3 DEF Due

\* A step after which a job was not executed more often, nor may be without a delivery.
NoMore(j) ==
    /\ backend # "amqp" => runs'[j] = runs[j]
    /\ backend = "amqp" => Due(j)' <= Due(j) /\ Due(j)' \in Nat

\* A step that begins no execution and makes no consumer late leaves every entry
\* accounted for.
LEMMA Quiet ==
    ASSUME QueueInv, runs' = runs, backend' = backend, faults' \in Nat, faults' >= faults,
           \A j \in Jobs : Late(j)' \subseteq Late(j)
    PROVE  /\ \A j \in Jobs : NoMore(j)
           /\ \A e \in Entries : (Unrun(e) => Unrun(e)') /\ (Ran(e) => Ran(e)')
           /\ \A j \in Jobs : Due(j) <= 1 + faults => Due(j)' <= 1 + faults'
<1>1. ASSUME NEW j \in Jobs
      PROVE  /\ Due(j) \in Nat /\ Due(j)' \in Nat /\ Due(j)' <= Due(j) /\ faults \in Nat
  <2>1. /\ Due(j) = runs[j] + Cardinality(Late(j))
        /\ Due(j)' = runs[j] + Cardinality(Late(j)')
      BY DEF Due
  <2>2. /\ Cardinality(Late(j)) \in Nat /\ Cardinality(Late(j)') \in Nat
        /\ Cardinality(Late(j)') <= Cardinality(Late(j))
    <3>1. Late(j) \subseteq Consumers
        BY DEF Late
    <3>. QED
        BY <3>1, Counts
  <2>3. runs[j] \in Nat /\ faults \in Nat
      BY DEF QueueInv, QueueTypes
  <2>. QED
      BY <2>1, <2>2, <2>3
<1>2. ASSUME NEW e \in Entries
      PROVE  (Unrun(e) => Unrun(e)') /\ (Ran(e) => Ran(e)')
  <2>1. e.job \in Jobs
      BY DEF Entries
  <2>2. Due(e.job) <= faults => Due(e.job)' <= faults'
      BY <1>1, <2>1
  <2>3. Due(e.job) <= 1 + faults => Due(e.job)' <= 1 + faults'
      BY <1>1, <2>1
  <2>. QED
      BY <2>2, <2>3 DEF Unrun, Ran
<1>. QED
    BY <1>1, <1>2 DEF NoMore

\* Whoever is not late after a step was not made late by it.
LEMMA NotLate ==
    ASSUME NEW c \in Consumers, Others(c), pc'[c] # "received" \/ ~Stale(c)'
    PROVE  \A j \in Jobs : Late(j)' \subseteq Late(j)
<1> SUFFICES ASSUME NEW j \in Jobs, NEW d \in Consumers,
                    (pc[d] = "received" /\ Stale(d) /\ cur[d].job = j)'
             PROVE  pc[d] = "received" /\ Stale(d) /\ cur[d].job = j
    BY DEF Late
<1>1. d # c
    OBVIOUS
<1>. QED
    BY <1>1 DEF Others, Stale

\* An execution counts for the entry it began with, and for no other.
LEMMA StillAccounted ==
    ASSUME QueueInv, NEW c \in Consumers, Others(c), backend' = backend,
           faults' \in Nat, faults' >= faults,
           \A j \in Jobs :
               NoMore(j) \/ (pc[c] \in Working /\ ~Stale(c) /\ j = cur[c].job),
           \A j \in Jobs : fate[j] # "unsent" => fate'[j] # "unsent",
           RunsBounded',
           \A j \in Jobs : fate'[j] = "unsent" => runs'[j] = 0,
           (\A i \in DOMAIN queue : Unrun(queue[i]))',
           Accounted(c)'
    PROVE  Attempts'
<1>1. ASSUME NEW d \in Consumers \ {c}, NEW e \in held[d]
      PROVE  (Unrun(e) => Unrun(e)') /\ (Ran(e) => Ran(e)')
  <2>1. e.job \in Jobs
      BY EntryFields DEF QueueInv, QueueTypes
  <2>2. pc[c] \in Working /\ ~Stale(c) => e.job # cur[c].job
      BY InHand
  <2>3. NoMore(e.job)
      BY <2>1, <2>2
  <2>4. Due(e.job) \in Nat /\ faults \in Nat
      BY <2>1, DueTypes DEF QueueInv
  <2>5. backend = "amqp" =>
            /\ Due(e.job) <= faults => Due(e.job)' <= faults'
            /\ Due(e.job) <= 1 + faults => Due(e.job)' <= 1 + faults'
      BY <2>3, <2>4 DEF NoMore
  <2>. QED
      BY <2>3, <2>5 DEF NoMore, Unrun, Ran
<1>2. ASSUME NEW d \in Consumers \ {c}
      PROVE  Accounted(d)'
  <2>1. Accounted(d) /\ pc'[d] = pc[d] /\ cur'[d] = cur[d] /\ held'[d] = held[d]
      BY DEF QueueInv, Attempts, Others
  <2>2. Stale(d)' <=> Stale(d)
      BY <2>1 DEF Stale
  <2>3. pc[d] \in Working => fate'[cur[d].job] # "unsent"
      BY InWork
  <2>4. ~Stale(d) /\ pc[d] \in {"received", "skipping"} => Unrun(cur[d])'
      BY <1>1, <2>1 DEF Accounted, Stale
  <2>5. ~Stale(d) /\ pc[d] \in {"executing", "succeeded", "failed"} => Ran(cur[d])'
      BY <1>1, <2>1 DEF Accounted, Stale
  <2>6. backend = "amqp" /\ pc[d] = "ended" => \A e \in held[d] : Unrun(e)'
      BY <1>1, <2>1 DEF Accounted
  <2>7. Unrun(cur[d])' = Unrun(cur[d])'
      OBVIOUS
  <2>. QED
      BY <2>1, <2>2, <2>3, <2>4, <2>5, <2>6 DEF Accounted
<1>. QED
    BY <1>2 DEF Attempts

-----------------------------------------------------------------------------
\* Nothing is published and nothing is held.
LEMMA QueueInitInv == QueueInit => QueueInv
<1> SUFFICES ASSUME QueueInit PROVE QueueInv
    OBVIOUS
<1>1. QueueTypes /\ InHands
    BY QueueAssumption DEF QueueInit, QueueTypes, InHands, Working
<1>2. OnePlace /\ AcksDeserved
    BY DEF QueueInit, OnePlace, AcksDeserved, AckedWorkWasDone, Deserves
<1>3. Attempts
  <2>1. \A j \in Jobs : Late(j) = {}
      BY DEF QueueInit, Late
  <2>2. \A j \in Jobs : Due(j) = 0
    <3>1. \A j \in Jobs : Cardinality(Late(j)) = 0
        BY <2>1, FS_EmptySet
    <3>2. \A j \in Jobs : runs[j] = 0
        BY DEF QueueInit
    <3>. QED
        BY <3>1, <3>2 DEF Due
  <2>. QED
      BY <2>2, QueueAssumption DEF QueueInit, Attempts, Accounted, RunsBounded, Working
<1>. QED
    BY <1>1, <1>2, <1>3 DEF QueueInv

\* A job that was never sent is in no other place, and was never executed.
LEMMA PublishPreserves ==
    ASSUME QueueInv, NEW j \in Jobs, Publish(j)
    PROVE  QueueInv'
<1> USE DEF QueueInv
<1> DEFINE last == Len(queue) + 1
           sent == [job |-> j, attempt |-> 1]
<1>1. sent \in Entries /\ sent.job = j /\ sent.attempt = 1
    BY QueueAssumption DEF Entries
<1>2. /\ queue' \in Seq(Entries)
      /\ DOMAIN queue' = DOMAIN queue \cup {last} /\ last \notin DOMAIN queue
      /\ queue'[last] = sent
      /\ \A i \in DOMAIN queue : queue'[i] = queue[i]
    BY <1>1 DEF Publish, QueueTypes
<1> HIDE DEF last, sent
<1>3. \A k \in Jobs : fate'[k] = IF k = j THEN "open" ELSE fate[k]
    BY DEF Publish, QueueTypes
<1>4. InHands'
    BY DEF Publish, InHands, Stale
<1>5. QueueTypes'
    BY <1>2 DEF Publish, QueueTypes
<1>6. OnePlace'
  <2>1. /\ \A i \in DOMAIN queue : queue[i].job # j
        /\ \A d \in Consumers : \A e \in held[d] : e.job # j
      BY DEF Publish, OnePlace
  <2>. QED
      BY <1>1, <1>2, <1>3, <2>1 DEF Publish, OnePlace
<1>7. AcksDeserved'
    BY <1>3 DEF Publish, AcksDeserved, AckedWorkWasDone, Deserves, KeyOf, KeyWon
<1>8. Attempts'
  <2>1. faults \in Nat /\ faults' = faults /\ runs[j] = 0
      BY DEF QueueTypes, Attempts, Publish
  <2>2. \A k \in Jobs : Late(k)' = Late(k)
      BY DEF Publish, Late, Stale
  <2>3. \A e \in Entries : (Unrun(e) => Unrun(e)') /\ (Ran(e) => Ran(e)')
      BY <2>1, <2>2, Quiet DEF Publish
  <2>4. Unrun(sent)
    <3>1. Late(j) = {}
      <4>1. \A c \in Consumers : pc[c] \in Working => cur[c].job # j
          BY InWork DEF Publish
      <4>. QED
          BY <4>1 DEF Late, Working
    <3>2. Due(j) = 0
        BY <2>1, <3>1, FS_EmptySet DEF Due
    <3>. QED
        BY <1>1, <2>1, <3>2 DEF Unrun
  <2>5. (\A i \in DOMAIN queue : Unrun(queue[i]))'
    <3>1. \A i \in DOMAIN queue : queue[i] \in Entries /\ Unrun(queue[i])
        BY DEF QueueTypes, Attempts
    <3>. QED
        BY <1>1, <1>2, <2>3, <2>4, <3>1
  <2>6. ASSUME NEW c \in Consumers PROVE Accounted(c)'
    <3>1. Accounted(c) /\ UNCHANGED <<pc, cur, held, backend>>
        BY DEF Attempts, Publish
    <3>2. pc[c] \in Working => cur[c] \in Entries /\ cur[c].job \in Jobs
        BY InWork
    <3>3. held[c] \subseteq Entries
        BY DEF QueueTypes
    <3>4. pc[c] \in Working => fate'[cur[c].job] # "unsent"
        BY <1>3, <3>1, <3>2 DEF Accounted
    <3>. QED
        BY <2>3, <3>1, <3>2, <3>3, <3>4 DEF Accounted, Stale, Working
  <2>7. RunsBounded'
    <3>1. \A k \in Jobs : Due(k)' = Due(k)
        BY <2>2 DEF Due, Publish
    <3>. QED
        BY <1>3, <3>1 DEF Publish, Attempts, RunsBounded
  <2>8. (\A k \in Jobs : fate[k] = "unsent" => runs[k] = 0)'
      BY <1>3 DEF Publish, Attempts
  <2>. QED
      BY <2>5, <2>6, <2>7, <2>8 DEF Attempts
<1>. QED
    BY <1>4, <1>5, <1>6, <1>7, <1>8

\* The head of the queue moves into the hands of a consumer, which held no other on
\* RabbitMQ.
LEMMA ReceivePreserves ==
    ASSUME QueueInv, NEW c \in Consumers, Receive(c)
    PROVE  QueueInv'
<1> USE DEF QueueInv
<1> DEFINE first == Head(queue)
<1>1. Others(c)
    BY Alone
<1>2. /\ OnePlace' /\ queue' \in Seq(Entries) /\ held' \in [Consumers -> SUBSET Entries]
      /\ held'[c] = held[c] \cup {first} /\ first \in Entries
      /\ 1 \in DOMAIN queue /\ first = queue[1]
      /\ \A i \in DOMAIN queue' : i + 1 \in DOMAIN queue /\ queue'[i] = queue[i + 1]
  <2>1. Deliver(c) /\ UNCHANGED fate
      BY DEF Receive
  <2>2. OnePlace' /\ queue' \in Seq(Entries) /\ held' \in [Consumers -> SUBSET Entries]
      BY <2>1, Delivers
  <2>3. held'[c] = held[c] \cup {first} /\ queue # <<>> /\ queue' = Tail(queue)
      BY <2>1 DEF Deliver, QueueTypes
  <2>4. /\ 1 \in DOMAIN queue /\ first = queue[1] /\ first \in Entries
        /\ \A i \in DOMAIN queue' : i + 1 \in DOMAIN queue /\ queue'[i] = queue[i + 1]
      BY <2>3 DEF QueueTypes
  <2>. QED
      BY <2>2, <2>3, <2>4
<1> HIDE DEF first
<1>3. \/ pc'[c] = "ended" /\ cur'[c] = cur[c]
      \/ pc'[c] = "received" /\ cur'[c] = first
    BY DEF Receive, QueueTypes, first
<1>4. QueueTypes'
    BY <1>2 DEF Receive, QueueTypes, Idle, Working, first
<1>5. InHands'
  <2>1. backend = "amqp" => held[c] = {}
      BY DEF InHands, Receive
  <2>2. pc'[c] = "received" => ~Stale(c)'
      BY <1>2, <1>3 DEF Stale
  <2>. QED
      BY <1>1, <1>2, <1>3, <2>1, <2>2 DEF Receive, InHands, Others, Working, Stale
<1>6. AcksDeserved'
  <2>1. Deserves(c)' /\ AckedWorkWasDone'
      BY <1>3 DEF Receive, AcksDeserved, AckedWorkWasDone, Deserves, KeyWon
  <2>. QED
      BY <1>1, <2>1, StillDeserved DEF Receive
<1>7. Attempts'
  <2>1. faults \in Nat /\ faults' = faults
      BY DEF QueueTypes, Receive
  <2>2. /\ \A j \in Jobs : NoMore(j)
        /\ \A e \in Entries : Unrun(e) => Unrun(e)'
        /\ \A j \in Jobs : Due(j) <= 1 + faults => Due(j)' <= 1 + faults'
    <3>1. pc'[c] # "received" \/ ~Stale(c)'
        BY <1>2, <1>3 DEF Stale
    <3>2. \A j \in Jobs : Late(j)' \subseteq Late(j)
        BY <1>1, <3>1, NotLate
    <3>. QED
        BY <2>1, <3>2, Quiet DEF Receive
  <2>3. (\A i \in DOMAIN queue : Unrun(queue[i]))'
    <3>1. \A i \in DOMAIN queue : queue[i] \in Entries /\ Unrun(queue[i])
        BY DEF QueueTypes, Attempts
    <3>. QED
        BY <1>2, <2>2, <3>1
  <2>4. backend = "amqp" => held[c] = {}
      BY DEF InHands, Receive
  <2>5. \A e \in Entries : e = first => Unrun(e)'
      BY <1>2, <2>2 DEF Attempts
  <2>6. Accounted(c)'
    <3>1. fate'[first.job] # "unsent"
        BY <1>2, EntryFields DEF Receive, OnePlace
    <3>2. CASE pc'[c] = "ended"
        BY <1>2, <2>4, <2>5, <3>2 DEF Receive, Accounted, Working
    <3>3. CASE pc'[c] = "received" /\ cur'[c] = first
        BY <1>2, <2>5, <3>1, <3>3 DEF Receive, Accounted, Working
    <3>. QED
        BY <1>3, <3>2, <3>3
  <2>7. RunsBounded' /\ \A j \in Jobs : fate'[j] = "unsent" => runs'[j] = 0
      BY <2>2 DEF Receive, Attempts, RunsBounded
  <2>. QED
      BY <1>1, <2>1, <2>2, <2>3, <2>6, <2>7, StillAccounted DEF Receive
<1>. QED
    BY <1>2, <1>4, <1>5, <1>6, <1>7

\* A poll that finds nothing ends with empty hands on RabbitMQ.
LEMMA EmptyPollPreserves ==
    ASSUME QueueInv, NEW c \in Consumers, EmptyPoll(c)
    PROVE  QueueInv'
<1> USE DEF QueueInv
<1>1. Others(c) /\ pc'[c] \in {"stopped", "ended"}
    BY Alone DEF EmptyPoll, QueueTypes
<1>2. QueueTypes' /\ OnePlace'
    BY DEF EmptyPoll, QueueTypes, Idle, OnePlace
<1>3. InHands'
    BY <1>1 DEF EmptyPoll, InHands, Working, Others, Stale
<1>4. AcksDeserved'
  <2>1. Deserves(c)' /\ AckedWorkWasDone'
      BY <1>1 DEF EmptyPoll, AcksDeserved, AckedWorkWasDone, Deserves, KeyWon
  <2>. QED
      BY <1>1, <2>1, StillDeserved DEF EmptyPoll
<1>5. Attempts'
  <2>1. Accounted(c)'
      BY <1>1 DEF EmptyPoll, Accounted, InHands, Working
  <2>2. faults \in Nat /\ faults' = faults
      BY DEF QueueTypes, EmptyPoll
  <2>3. /\ \A j \in Jobs : NoMore(j)
        /\ \A e \in Entries : Unrun(e) => Unrun(e)'
        /\ \A j \in Jobs : Due(j) <= 1 + faults => Due(j)' <= 1 + faults'
      BY <1>1, <2>2, NotLate, Quiet DEF EmptyPoll
  <2>4. (\A i \in DOMAIN queue : Unrun(queue[i]))'
      BY <2>3 DEF EmptyPoll, QueueTypes, Attempts
  <2>5. RunsBounded' /\ \A j \in Jobs : fate'[j] = "unsent" => runs'[j] = 0
      BY <2>3 DEF EmptyPoll, Attempts, RunsBounded
  <2>. QED
      BY <1>1, <2>1, <2>2, <2>3, <2>4, <2>5, StillAccounted DEF EmptyPoll
<1>. QED
    BY <1>2, <1>3, <1>4, <1>5

\* An execution begins for a job that nobody else has, or that was lost on the way.
LEMMA DispatchPreserves ==
    ASSUME QueueInv, NEW c \in Consumers, Dispatch(c)
    PROVE  QueueInv'
<1> USE DEF QueueInv
<1> DEFINE job == cur[c].job
<1>1. /\ Others(c) /\ pc[c] = "received"
      /\ cur[c] \in Entries /\ job \in Jobs /\ fate[job] # "unsent"
      /\ cur[c].attempt \in 1..MaxAttempts
      /\ Stale(c) => backend = "amqp" /\ held[c] = {}
    BY Alone, InWork DEF Dispatch, Working
<1>2. \/ pc'[c] = "ended" /\ runs' = runs /\ backend = "redis"
      \/ pc'[c] = "skipping" /\ runs' = runs /\ Known(c)
      \/ pc'[c] = "executing" /\ runs' = [runs EXCEPT ![job] = @ + 1] /\ backend # "redis"
    BY DEF Dispatch, QueueTypes
<1>3. /\ UNCHANGED <<backend, queue, held, cur, completed, fate, wins, faults>>
      /\ Stale(c)' <=> Stale(c)
    BY DEF Dispatch, Stale
<1>4. QueueTypes' /\ OnePlace'
  <2>1. runs' \in [Jobs -> Nat]
      BY <1>2 DEF QueueTypes
  <2>2. pc' \in [Consumers -> Idle \cup {"polling"} \cup Working]
      BY DEF Dispatch, QueueTypes, Working, Idle
  <2>. QED
    <3>1. QueueTypes'
        BY <1>3, <2>1, <2>2 DEF QueueTypes
    <3>2. OnePlace'
        BY <1>3 DEF OnePlace
    <3>. QED
        BY <3>1, <3>2
<1>5. InHands'
    BY <1>1, <1>2, <1>3 DEF InHands, Others, Stale, Working
<1>6. AcksDeserved'
  <2>1. Deserves(c)' /\ AckedWorkWasDone'
      BY <1>2, <1>3 DEF AcksDeserved, AckedWorkWasDone, Deserves, KeyWon, KeyOf, Known
  <2>. QED
      BY <1>1, <1>3, <2>1, StillDeserved
<1>7. Attempts'
  <2>1. faults \in Nat /\ faults' = faults
      BY <1>3 DEF QueueTypes
  <2>2. /\ \A j \in Jobs : runs[j] \in Nat
        /\ \A j \in Jobs : runs'[j] = IF j = job /\ pc'[c] = "executing" THEN runs[j] + 1
                                                                       ELSE runs[j]
      BY <1>2 DEF QueueTypes
  <2>3. \A j \in Jobs :
            Late(j)' = IF j = job /\ Stale(c) THEN Late(j) \ {c} ELSE Late(j)
      BY <1>1, <1>2, <1>3 DEF Late, Others, Stale
  <2>4. ASSUME NEW j \in Jobs
        PROVE  /\ Due(j)' \in Nat /\ Due(j) \in Nat
               /\ j # job \/ Stale(c) => Due(j)' <= Due(j)
               /\ Due(j)' <= Due(j) + 1
    <3>1. /\ Due(j) = runs[j] + Cardinality(Late(j))
          /\ Due(j)' = runs'[j] + Cardinality(Late(j)')
        BY DEF Due
    <3>2. /\ Late(j) \subseteq Consumers /\ IsFiniteSet(Late(j))
          /\ Cardinality(Late(j)) \in Nat
        BY Counts DEF Late
    <3>3. CASE j = job /\ Stale(c)
      <4>1. c \in Late(j)
          BY <1>1, <3>3 DEF Late
      <4>2. Cardinality(Late(j)') = Cardinality(Late(j)) - 1 /\ Cardinality(Late(j)) # 0
          BY <2>3, <3>2, <3>3, <4>1, FS_RemoveElement, FS_EmptySet
      <4>. QED
          BY <2>2, <3>1, <3>2, <4>2
    <3>4. CASE ~(j = job /\ Stale(c))
        BY <2>2, <2>3, <3>1, <3>2, <3>4
    <3>. QED
        BY <3>3, <3>4
  <2>5. ~Stale(c) => Unrun(cur[c])
      BY <1>1 DEF Attempts, Accounted
  <2>6. Accounted(c)'
    <3>1. ~Stale(c) /\ pc'[c] = "skipping" => Unrun(cur[c])'
        BY <1>1, <1>2, <1>3, <2>2, <2>3, <2>5 DEF Unrun, Due
    <3>2. ~Stale(c) /\ pc'[c] = "executing" => Ran(cur[c])'
        BY <1>1, <1>2, <1>3, <2>1, <2>2, <2>4, <2>5 DEF Unrun, Ran
    <3>. QED
        BY <1>1, <1>2, <1>3, <3>1, <3>2 DEF Accounted, Working
  <2>7. RunsBounded'
    <3>1. ASSUME NEW j \in Jobs, backend = "amqp" PROVE Due(j)' <= 1 + faults'
      <4>1. CASE j # job \/ Stale(c)
          BY <2>1, <2>4, <3>1, <4>1 DEF Attempts, RunsBounded
      <4>2. CASE j = job /\ ~Stale(c)
          BY <2>1, <2>4, <2>5, <3>1, <4>2 DEF Unrun
      <4>. QED
          BY <4>1, <4>2
    <3>2. ASSUME NEW j \in Jobs, backend = "memory"
          PROVE  /\ runs'[j] <= MaxAttempts
                 /\ fate'[j] = "dropped" => runs'[j] = MaxAttempts
      <4>1. runs'[j] # runs[j] => j = job /\ ~Stale(c) /\ pc'[c] = "executing"
          BY <1>1, <2>2, <3>2
      <4>2. ~Stale(c) => fate[job] = "open"
          BY <1>1, InHand DEF Working
      <4>3. j = job /\ ~Stale(c) => runs'[j] <= cur[c].attempt
          BY <1>1, <2>2, <2>5, <3>2 DEF Unrun
      <4>4. cur[c].attempt <= MaxAttempts
          BY <1>1
      <4>5. runs'[j] \in Nat /\ MaxAttempts \in Nat
          BY <2>2, QueueAssumption
      <4>. QED
          BY <1>1, <1>3, <3>2, <4>1, <4>2, <4>3, <4>4, <4>5 DEF Attempts, RunsBounded
    <3>3. ASSUME NEW j \in Jobs, backend = "redis" PROVE runs'[j] = 0
        BY <1>2, <2>2, <3>3 DEF Attempts, RunsBounded
    <3>. QED
        BY <1>3, <3>1, <3>2, <3>3 DEF RunsBounded
  <2>8. \A j \in Jobs : fate'[j] = "unsent" => runs'[j] = 0
      BY <1>1, <1>3, <2>2 DEF Attempts
  <2>9. \A j \in Jobs : NoMore(j) \/ (pc[c] \in Working /\ ~Stale(c) /\ j = job)
      BY <1>1, <1>2, <2>2, <2>4 DEF NoMore, Working
  <2>10. (\A i \in DOMAIN queue : Unrun(queue[i]))'
    <3>1. ASSUME NEW i \in DOMAIN queue PROVE Unrun(queue[i])'
      <4>1. /\ queue[i].job \in Jobs /\ Unrun(queue[i])
            /\ ~Stale(c) => queue[i].job # job
          BY <1>1, EntryFields, InHand DEF QueueTypes, Attempts, Working
      <4>2. NoMore(queue[i].job)
          BY <2>9, <4>1
      <4>3. Due(queue[i].job) \in Nat
          BY <2>4, <4>1
      <4>. QED
          BY <1>3, <2>1, <4>1, <4>2, <4>3 DEF NoMore, Unrun
    <3>. QED
        BY <1>3, <3>1
  <2>. QED
      BY <1>1, <1>3, <2>1, <2>6, <2>7, <2>8, <2>9, <2>10, StillAccounted
<1>. QED
    BY <1>4, <1>5, <1>6, <1>7

\* What the execution returned is what the entry is settled by.
LEMMA JobReturnsPreserves ==
    ASSUME QueueInv, NEW c \in Consumers, NEW ok \in BOOLEAN, JobReturns(c, ok)
    PROVE  QueueInv'
<1> USE DEF QueueInv
<1>1. /\ Others(c)
      /\ cur[c] \in Entries /\ cur[c].job \in Jobs /\ fate[cur[c].job] # "unsent"
    BY Alone, InWork DEF JobReturns, Working
<1>2. /\ pc'[c] = IF ok THEN "succeeded" ELSE "failed"
      /\ \A j \in Jobs : wins'[j] = IF j = cur[c].job THEN wins[j] \/ ok ELSE wins[j]
    BY DEF JobReturns, QueueTypes
<1>3. QueueTypes' /\ OnePlace'
    BY <1>1, <1>2 DEF JobReturns, QueueTypes, Working, OnePlace
<1>4. InHands'
    BY <1>1, <1>2 DEF JobReturns, InHands, Others, Stale, Working
<1>5. AcksDeserved'
  <2>1. \A j \in Jobs : wins[j] => wins'[j]
      BY <1>2
  <2>2. Deserves(c)'
      BY <1>1, <1>2, <2>1 DEF JobReturns, AcksDeserved, Deserves, KeyWon
  <2>3. AckedWorkWasDone'
      BY <2>1 DEF JobReturns, AcksDeserved, AckedWorkWasDone
  <2>. QED
      BY <1>1, <2>1, <2>2, <2>3, StillDeserved
<1>6. Attempts'
  <2>1. faults \in Nat /\ faults' = faults
      BY DEF QueueTypes, JobReturns
  <2>2. /\ \A j \in Jobs : NoMore(j)
        /\ \A e \in Entries : (Unrun(e) => Unrun(e)') /\ (Ran(e) => Ran(e)')
        /\ \A j \in Jobs : Due(j) <= 1 + faults => Due(j)' <= 1 + faults'
    <3>1. \A j \in Jobs : Late(j)' \subseteq Late(j)
        BY <1>1, <1>2, NotLate
    <3>. QED
        BY <2>1, <3>1, Quiet DEF JobReturns
  <2>3. Accounted(c)'
    <3>1. ~Stale(c) => Ran(cur[c])'
        BY <1>1, <2>2 DEF JobReturns, Attempts, Accounted
    <3>. QED
        BY <1>1, <1>2, <3>1 DEF JobReturns, Accounted, Stale
  <2>4. (\A i \in DOMAIN queue : Unrun(queue[i]))'
      BY <2>2 DEF JobReturns, QueueTypes, Attempts
  <2>5. RunsBounded' /\ \A j \in Jobs : fate'[j] = "unsent" => runs'[j] = 0
      BY <2>2 DEF JobReturns, Attempts, RunsBounded
  <2>. QED
      BY <1>1, <2>1, <2>2, <2>3, <2>4, <2>5, StillAccounted DEF JobReturns
<1>. QED
    BY <1>3, <1>4, <1>5, <1>6

\* The entry of a success leaves the hands as done, that of a known key as skipped, and
\* that of a failure as dropped after the last attempt.
LEMMA SettlingPreserves ==
    ASSUME QueueInv, NEW c \in Consumers, Ack(c) \/ AckSkipped(c) \/ Reject(c)
    PROVE  QueueInv'
<1> USE DEF QueueInv
<1> DEFINE job == cur[c].job
<1>1. /\ Others(c) /\ pc[c] \in {"succeeded", "skipping", "failed"}
      /\ cur[c] \in held[c] /\ job \in Jobs
      /\ cur[c].attempt \in 1..MaxAttempts /\ ~Stale(c)
    BY Alone, InWork DEF Ack, AckSkipped, Reject, Working, Settle, Stale
<1>2. /\ pc'[c] = "polling" /\ held'[c] = held[c] \ {cur[c]}
      /\ UNCHANGED <<backend, queue, runs, wins, faults>>
    BY DEF Ack, AckSkipped, Reject, Settle, Continue, QueueTypes
<1>3. PICK what \in {"done", "skipped", "dropped"} :
          /\ Settle(c, what)
          /\ what = "done" => pc[c] = "succeeded"
          /\ what = "skipped" => pc[c] = "skipping"
          /\ what = "dropped" => pc[c] = "failed" /\ cur[c].attempt >= MaxAttempts
    BY DEF Ack, AckSkipped, Reject, LastAttempt
<1>4. \A j \in Jobs : fate'[j] = IF j = job THEN what ELSE fate[j]
    BY <1>3 DEF Settle, QueueTypes
<1>5. QueueTypes'
  <2>1. /\ held' \in [Consumers -> SUBSET Entries]
        /\ fate' \in [Jobs -> {"unsent", "open", "done", "skipped", "dropped", "lost"}]
      BY <1>3 DEF Settle, QueueTypes
  <2>2. /\ pc' \in [Consumers -> Idle \cup {"polling"} \cup Working]
        /\ cur' \in [Consumers -> Entries \cup {NoEntry}]
        /\ DOMAIN completed' = Consumers
      BY DEF Ack, AckSkipped, Reject, Continue, QueueTypes
  <2>. QED
      BY <1>2, <2>1, <2>2 DEF QueueTypes
<1>6. InHands'
    BY <1>1, <1>2 DEF InHands, Others, Working, Stale
<1>7. OnePlace'
    BY <1>1, <1>2, <1>3, Settles
<1>8. AcksDeserved'
  <2>1. AckedWorkWasDone'
    <3>1. CASE pc[c] = "succeeded"
        BY <1>1, <1>2, <1>3, <1>4, <3>1 DEF AcksDeserved, AckedWorkWasDone, Deserves
    <3>2. CASE pc[c] = "skipping"
        BY <1>1, <1>2, <1>3, <1>4, <3>2 DEF AcksDeserved, AckedWorkWasDone, Deserves,
            KeyWon, KeyOf
    <3>3. CASE pc[c] = "failed"
        BY <1>1, <1>2, <1>3, <1>4, <3>3 DEF AcksDeserved, AckedWorkWasDone
    <3>. QED
        BY <1>1, <3>1, <3>2, <3>3
  <2>2. \A k \in completed'[c] : KeyWon(k)'
    <3>1. \A k \in completed'[c] : k \in completed[c] \/ (pc[c] = "succeeded" /\ k = KeyOf(c))
        BY DEF Ack, AckSkipped, Reject, QueueTypes
    <3>2. pc[c] = "succeeded" => KeyWon(KeyOf(c))
        BY <1>1 DEF AcksDeserved, Deserves, KeyWon, KeyOf
    <3>. QED
        BY <1>2, <3>1, <3>2 DEF AcksDeserved, Deserves, KeyWon
  <2>3. Deserves(c)'
      BY <1>2, <2>2 DEF Deserves
  <2>. QED
      BY <1>1, <1>2, <2>1, <2>3, StillDeserved
<1>9. Attempts'
  <2>1. faults \in Nat /\ \A j \in Jobs : runs[j] \in Nat
      BY DEF QueueTypes
  <2>2. /\ \A j \in Jobs : NoMore(j)
        /\ \A e \in Entries : Unrun(e) => Unrun(e)'
        /\ \A j \in Jobs : Due(j) <= 1 + faults => Due(j)' <= 1 + faults'
      BY <1>1, <1>2, <2>1, NotLate, Quiet
  <2>3. (\A i \in DOMAIN queue : Unrun(queue[i]))'
      BY <1>2, <2>2 DEF QueueTypes, Attempts
  <2>4. Accounted(c)'
      BY <1>2 DEF Accounted, Working
  <2>5. RunsBounded'
    <3>1. pc[c] = "failed" => Ran(cur[c])
        BY <1>1 DEF Attempts, Accounted
    <3>2. backend = "memory" /\ what = "dropped" => runs[job] = MaxAttempts
        BY <1>1, <1>3, <3>1, QueueAssumption DEF Ran
    <3>. QED
        BY <1>2, <1>4, <2>2, <3>2 DEF Attempts, RunsBounded
  <2>6. \A j \in Jobs : fate'[j] = "unsent" => runs'[j] = 0
      BY <1>2, <1>3, <1>4 DEF Attempts
  <2>7. \A j \in Jobs : fate[j] # "unsent" => fate'[j] # "unsent"
      BY <1>3, <1>4
  <2>. QED
      BY <1>1, <1>2, <2>1, <2>2, <2>3, <2>4, <2>5, <2>6, <2>7, StillAccounted
<1>. QED
    BY <1>5, <1>6, <1>7, <1>8, <1>9

\* A settlement that raises ends its consumer, and that is all.
LEMMA SettleStalePreserves ==
    ASSUME QueueInv, NEW c \in Consumers, SettleStale(c)
    PROVE  QueueInv'
<1> USE DEF QueueInv
<1>1. /\ Others(c) /\ pc[c] \in Working /\ pc'[c] = "ended" /\ held[c] = {}
      /\ UNCHANGED <<backend, queue, held, cur, completed, fate, runs, wins, faults>>
    BY Alone, InWork DEF SettleStale, QueueTypes, Working
<1>2. QueueTypes' /\ OnePlace'
    BY <1>1 DEF SettleStale, QueueTypes, Idle, OnePlace
<1>3. InHands'
    BY <1>1 DEF InHands, Others, Stale, Working
<1>4. AcksDeserved'
  <2>1. Deserves(c)' /\ AckedWorkWasDone'
      BY <1>1 DEF AcksDeserved, AckedWorkWasDone, Deserves, KeyWon
  <2>. QED
      BY <1>1, <2>1, StillDeserved
<1>5. Attempts'
  <2>1. faults \in Nat
      BY DEF QueueTypes
  <2>2. /\ \A j \in Jobs : NoMore(j)
        /\ \A e \in Entries : Unrun(e) => Unrun(e)'
        /\ \A j \in Jobs : Due(j) <= 1 + faults => Due(j)' <= 1 + faults'
      BY <1>1, <2>1, NotLate, Quiet
  <2>3. (\A i \in DOMAIN queue : Unrun(queue[i]))'
      BY <1>1, <2>2 DEF QueueTypes, Attempts
  <2>4. Accounted(c)'
      BY <1>1 DEF Accounted, Working
  <2>5. RunsBounded' /\ \A j \in Jobs : fate'[j] = "unsent" => runs'[j] = 0
      BY <1>1, <2>2 DEF Attempts, RunsBounded
  <2>. QED
      BY <1>1, <2>1, <2>2, <2>3, <2>4, <2>5, StillAccounted
<1>. QED
    BY <1>2, <1>3, <1>4, <1>5

\* A failed job goes back behind the others, or is lost.
LEMMA RequeuePreserves ==
    ASSUME QueueInv, NEW c \in Consumers, Requeue(c)
    PROVE  QueueInv'
<1> USE DEF QueueInv
<1> DEFINE job == cur[c].job
           again == [cur[c] EXCEPT !.attempt = @ + 1]
<1>1. /\ Others(c) /\ pc[c] = "failed"
      /\ cur[c] \in held[c] /\ job \in Jobs /\ ~Stale(c)
      /\ cur[c].attempt \in 1..MaxAttempts /\ ~(cur[c].attempt >= MaxAttempts)
      /\ Ran(cur[c])
  <2>1. Others(c) /\ pc[c] = "failed" /\ ~LastAttempt(c)
      BY Alone DEF Requeue
  <2>2. ~Stale(c)
      BY <2>1, InWork DEF Requeue, RequeueInMemory, RequeueOnAmqp, Settle, Working
  <2>. QED
      BY <2>1, <2>2, InWork, InHand DEF LastAttempt, Working, Attempts, Accounted
<1>2. UNCHANGED <<backend, completed, runs, wins, faults>>
    BY DEF Requeue
<1>8. pc'[c] \in {"polling", "ended"}
    BY DEF Requeue, RequeueInMemory, RequeueOnAmqp, Continue, QueueTypes
<1>9. /\ \A j \in Jobs : NoMore(j)
      /\ \A e \in Entries : Unrun(e) => Unrun(e)'
      /\ \A j \in Jobs : Due(j) <= 1 + faults => Due(j)' <= 1 + faults'
  <2>1. faults \in Nat
      BY DEF QueueTypes
  <2>. QED
      BY <1>1, <1>2, <1>8, <2>1, NotLate, Quiet
<1>3. again \in Entries /\ again.job = job /\ again.attempt = cur[c].attempt + 1
  <2>1. cur[c] \in Entries
      BY <1>1 DEF QueueTypes
  <2>. QED
      BY <1>1, <2>1, QueueAssumption DEF Entries
<1>4. faults \in Nat /\ \A j \in Jobs : runs[j] \in Nat
    BY DEF QueueTypes
<1>5. CASE RequeueInMemory(c)
  <2>1. /\ pc'[c] = "polling" /\ fate' = fate /\ backend = "memory"
        /\ held' = [held EXCEPT ![c] = @ \ {cur[c]}]
        /\ queue' = Append(queue, again)
      BY <1>5 DEF RequeueInMemory, Continue, QueueTypes
  <2> HIDE DEF again
  <2>2. /\ queue' \in Seq(Entries)
        /\ \A i \in DOMAIN queue' : queue'[i] = again \/ (i \in DOMAIN queue /\ queue'[i] = queue[i])
      BY <1>3, <2>1 DEF QueueTypes
  <2>3. QueueTypes'
      BY <1>2, <1>5, <2>1, <2>2 DEF RequeueInMemory, Continue, QueueTypes
  <2>4. InHands'
      BY <1>1, <1>2, <2>1 DEF InHands, Others, Working, Stale
  <2>5. OnePlace'
      BY <1>1, <1>3, <2>1, Requeues
  <2>6. AcksDeserved'
    <3>1. Deserves(c)' /\ AckedWorkWasDone'
        BY <1>2, <2>1 DEF AcksDeserved, AckedWorkWasDone, Deserves, KeyWon
    <3>. QED
        BY <1>1, <1>2, <3>1, StillDeserved
  <2>7. Attempts'
    <3>1. Unrun(again)
        BY <1>1, <1>3, <1>4, <2>1 DEF Ran, Unrun
    <3>2. (\A i \in DOMAIN queue : Unrun(queue[i]))'
      <4>1. \A i \in DOMAIN queue : queue[i] \in Entries /\ Unrun(queue[i])
          BY DEF QueueTypes, Attempts
      <4>. QED
          BY <1>3, <1>9, <2>2, <3>1, <4>1
    <3>3. /\ Accounted(c)' /\ RunsBounded'
          /\ \A j \in Jobs : fate'[j] = "unsent" => runs'[j] = 0
        BY <1>2, <1>9, <2>1 DEF Attempts, Accounted, RunsBounded, Working
    <3>. QED
        BY <1>1, <1>2, <1>4, <1>9, <2>1, <3>2, <3>3, StillAccounted
  <2>. QED
      BY <2>3, <2>4, <2>5, <2>6, <2>7
<1>6. CASE RequeueOnAmqp(c)
  <2>1. pc'[c] = "ended" /\ UNCHANGED <<queue, cur>> /\ backend = "amqp" /\ Settle(c, "lost")
      BY <1>6 DEF RequeueOnAmqp, QueueTypes
  <2>2. \A j \in Jobs : fate'[j] = fate[j] \/ (j = job /\ fate'[j] = "lost")
      BY <2>1 DEF Settle, QueueTypes
  <2>3. held'[c] = {}
      BY <1>1, <2>1 DEF Settle, QueueTypes, InHands
  <2>4. QueueTypes'
      BY <1>2, <1>6, <2>1 DEF RequeueOnAmqp, Settle, QueueTypes, Idle
  <2>5. InHands'
      BY <1>1, <1>2, <2>1, <2>3 DEF InHands, Others, Working, Stale
  <2>6. OnePlace'
      BY <1>1, <2>1, Settles
  <2>7. AcksDeserved'
    <3>1. Deserves(c)' /\ AckedWorkWasDone'
        BY <1>2, <2>1, <2>2 DEF AcksDeserved, AckedWorkWasDone, Deserves, KeyWon
    <3>. QED
        BY <1>1, <1>2, <3>1, StillDeserved
  <2>8. Attempts'
    <3>1. Accounted(c)'
        BY <2>1, <2>3 DEF Accounted, Working
    <3>2. (\A i \in DOMAIN queue : Unrun(queue[i]))'
        BY <1>9, <2>1 DEF QueueTypes, Attempts
    <3>3. RunsBounded' /\ \A j \in Jobs : fate'[j] = "unsent" => runs'[j] = 0
        BY <1>2, <1>9, <2>2 DEF Attempts, RunsBounded
    <3>4. \A j \in Jobs : fate[j] # "unsent" => fate'[j] # "unsent"
        BY <2>2
    <3>. QED
        BY <1>1, <1>2, <1>4, <1>9, <3>1, <3>2, <3>3, <3>4, StillAccounted
  <2>. QED
      BY <2>4, <2>5, <2>6, <2>7, <2>8
<1>. QED
    BY <1>5, <1>6 DEF Requeue

\* On RabbitMQ all that a consumer holds has been executed once more than the faults
\* account for, at most; ended or not begun, not even that.
LEMMA HeldOnAmqp ==
    ASSUME QueueInv, backend = "amqp", NEW c \in Consumers, NEW e \in held[c]
    PROVE  /\ e \in Entries /\ e.job \in Jobs
           /\ pc[c] = "ended" \/ (pc[c] \in Working /\ ~Stale(c) /\ e = cur[c])
           /\ Due(e.job) \in Nat /\ Due(e.job) <= 1 + faults
           /\ pc[c] \in {"ended", "received"} => Due(e.job) <= faults
<1>1. e \in Entries /\ e.job \in Jobs
    BY EntryFields DEF QueueInv, QueueTypes
<1>2. pc[c] = "ended" \/ (pc[c] \in Working /\ ~Stale(c) /\ e = cur[c])
    BY DEF QueueInv, InHands, QueueTypes, Idle, Stale
<1>3. pc[c] = "ended" => Unrun(e)
    BY DEF QueueInv, Attempts, Accounted
<1>4. /\ pc[c] \in Working => Unrun(cur[c]) \/ Ran(cur[c])
      /\ pc[c] = "received" => Unrun(cur[c])
    BY <1>2 DEF QueueInv, Attempts, Accounted, Working
<1>5. Due(e.job) \in Nat /\ faults \in Nat
    BY <1>1, DueTypes DEF QueueInv
<1>. QED
    BY <1>1, <1>2, <1>3, <1>4, <1>5 DEF Unrun, Ran, Working

\* A failing call was carried out or not, and its consumer ends.
LEMMA CallFailsPreserves ==
    ASSUME QueueInv, NEW c \in Consumers, CallFails(c)
    PROVE  QueueInv'
<1> USE DEF QueueInv
<1>1. /\ Others(c) /\ backend # "memory" /\ pc[c] \in {"polling"} \cup Working
      /\ pc'[c] = "ended" /\ cur' = cur
      /\ UNCHANGED <<backend, completed, runs, wins>>
    BY Alone DEF CallFails, BrokerCall, Working, QueueTypes
<1>2. /\ faults \in Nat /\ faults' = faults + 1 /\ faults' \in 0..MaxFaults
      /\ \A j \in Jobs : runs[j] \in Nat
    BY QueueAssumption DEF CallFails, QueueTypes
<1>3. pc' \in [Consumers -> Idle \cup {"polling"} \cup Working]
    BY DEF CallFails, QueueTypes, Idle
<1>4. /\ \A j \in Jobs : NoMore(j)
      /\ \A e \in Entries : Unrun(e) => Unrun(e)'
      /\ \A j \in Jobs : Due(j) <= 1 + faults => Due(j)' <= 1 + faults'
    BY <1>1, <1>2, NotLate, Quiet
<1>8. held[c] # {} /\ pc[c] \in Working => ~Stale(c)
    BY InWork
<1>5. CASE UNCHANGED <<queue, held, fate>>
  <2>1. QueueTypes' /\ InHands' /\ OnePlace'
    <3>1. QueueTypes'
        BY <1>1, <1>2, <1>3, <1>5 DEF QueueTypes
    <3>2. OnePlace'
        BY <1>5 DEF OnePlace
    <3>3. InHands'
        BY <1>1, <1>5 DEF InHands, Others, Working, Stale
    <3>. QED
        BY <3>1, <3>2, <3>3
  <2>2. Deserves(c)' /\ AckedWorkWasDone'
      BY <1>1, <1>5 DEF AcksDeserved, AckedWorkWasDone, Deserves, KeyWon
  <2>3. (\A i \in DOMAIN queue : Unrun(queue[i]))'
    <3>1. \A i \in DOMAIN queue : queue[i] \in Entries /\ Unrun(queue[i])
        BY DEF QueueTypes, Attempts
    <3>. QED
        BY <1>4, <1>5, <3>1
  <2>4. Accounted(c)'
    <3>1. ASSUME backend = "amqp", NEW e \in held[c]
          PROVE  Unrun(e)'
      <4>1. e.job \in Jobs /\ Due(e.job) \in Nat /\ Due(e.job) <= 1 + faults
          BY <3>1, HeldOnAmqp
      <4>2. Due(e.job)' \in Nat /\ Due(e.job)' <= Due(e.job)
          BY <1>4, <3>1, <4>1 DEF NoMore
      <4>. QED
          BY <1>1, <1>2, <3>1, <4>1, <4>2 DEF Unrun
    <3>. QED
        BY <1>1, <1>5, <3>1 DEF Accounted, Working
  <2>5. RunsBounded' /\ \A j \in Jobs : fate'[j] = "unsent" => runs'[j] = 0
      BY <1>1, <1>4, <1>5 DEF Attempts, RunsBounded
  <2>6. AcksDeserved'
      BY <1>1, <2>2, StillDeserved
  <2>7. Attempts'
      BY <1>1, <1>2, <1>4, <1>5, <2>3, <2>4, <2>5, StillAccounted
  <2>. QED
      BY <2>1, <2>6, <2>7
<1>6. CASE backend = "redis" /\ Deliver(c) /\ UNCHANGED fate
  <2>1. OnePlace' /\ queue' \in Seq(Entries) /\ held' \in [Consumers -> SUBSET Entries]
      BY <1>6, Delivers
  <2>2. QueueTypes' /\ InHands'
      BY <1>1, <1>2, <1>3, <1>6, <2>1 DEF QueueTypes, InHands, Others, Working, Stale
  <2>3. Deserves(c)' /\ AckedWorkWasDone'
      BY <1>1, <1>6 DEF AcksDeserved, AckedWorkWasDone, Deserves, KeyWon
  <2>4. (\A i \in DOMAIN queue : Unrun(queue[i]))'
    <3>1. \A i \in DOMAIN queue' : i + 1 \in DOMAIN queue /\ queue'[i] = queue[i + 1]
        BY <1>6 DEF Deliver, QueueTypes
    <3>2. \A i \in DOMAIN queue : queue[i] \in Entries /\ Unrun(queue[i])
        BY DEF QueueTypes, Attempts
    <3>. QED
        BY <1>4, <3>1, <3>2
  <2>5. Accounted(c)'
      BY <1>1, <1>6 DEF Accounted, Working
  <2>6. RunsBounded' /\ \A j \in Jobs : fate'[j] = "unsent" => runs'[j] = 0
      BY <1>1, <1>4, <1>6 DEF Attempts, RunsBounded
  <2>7. AcksDeserved'
      BY <1>1, <2>3, StillDeserved
  <2>8. Attempts'
      BY <1>1, <1>2, <1>4, <1>6, <2>4, <2>5, <2>6, StillAccounted
  <2>. QED
      BY <2>1, <2>2, <2>7, <2>8
<1>7. ASSUME NEW what \in {"done", "skipped", "dropped", "lost"}, Settle(c, what),
             pc[c] \in {"succeeded", "skipping", "failed"},
             what = "done" => pc[c] = "succeeded",
             what = "skipped" => pc[c] = "skipping",
             backend = "amqp", UNCHANGED queue
      PROVE  QueueInv'
  <2>1. cur[c] \in held[c] /\ cur[c].job \in Jobs
      BY <1>7, InWork DEF Working, Settle, Stale
  <2>2. \A j \in Jobs : fate'[j] = IF j = cur[c].job THEN what ELSE fate[j]
      BY <1>7 DEF Settle, QueueTypes
  <2>3. held'[c] = held[c] \ {cur[c]} /\ (backend = "amqp" => held'[c] = {})
      BY <1>7, <2>1 DEF Settle, QueueTypes, InHands
  <2>4. QueueTypes'
    <3>1. /\ held' \in [Consumers -> SUBSET Entries]
          /\ fate' \in [Jobs -> {"unsent", "open", "done", "skipped", "dropped", "lost"}]
        BY <1>7 DEF Settle, QueueTypes
    <3>. QED
        BY <1>1, <1>2, <1>3, <1>7, <3>1 DEF QueueTypes
  <2>5. InHands'
      BY <1>1, <2>3 DEF InHands, Others, Working, Stale
  <2>6. OnePlace'
      BY <1>7, <2>1, Settles
  <2>7. AckedWorkWasDone'
    <3>1. pc[c] = "succeeded" => wins[cur[c].job]
        BY DEF AcksDeserved, Deserves
    <3>2. pc[c] = "skipping" => \E i \in Jobs : Key[i] = Key[cur[c].job] /\ wins[i]
        BY DEF AcksDeserved, Deserves, KeyWon, KeyOf
    <3>. QED
        BY <1>1, <1>7, <2>1, <2>2, <3>1, <3>2 DEF AcksDeserved, AckedWorkWasDone
  <2>8. Deserves(c)'
      BY <1>1 DEF AcksDeserved, Deserves, KeyWon
  <2>9. (\A i \in DOMAIN queue : Unrun(queue[i]))'
    <3>1. \A i \in DOMAIN queue : queue[i] \in Entries /\ Unrun(queue[i])
        BY DEF QueueTypes, Attempts
    <3>. QED
        BY <1>4, <1>7, <3>1
  <2>10. Accounted(c)'
      BY <1>1, <2>3 DEF Accounted, Working
  <2>11. RunsBounded' /\ \A j \in Jobs : fate'[j] = "unsent" => runs'[j] = 0
      BY <1>1, <1>4, <1>7, <2>2 DEF Attempts, RunsBounded
  <2>12. \A j \in Jobs : fate[j] # "unsent" => fate'[j] # "unsent"
      BY <2>2
  <2>13. AcksDeserved'
      BY <1>1, <2>7, <2>8, StillDeserved
  <2>14. Attempts'
      BY <1>1, <1>2, <1>4, <2>9, <2>10, <2>11, <2>12, StillAccounted
  <2>. QED
      BY <2>4, <2>5, <2>6, <2>13, <2>14
<1>. QED
    BY <1>5, <1>6, <1>7 DEF CallFails, BrokerCall

\* A key that expires is one less to account for.
LEMMA KeyExpiresPreserves ==
    ASSUME QueueInv, NEW c \in Consumers, NEW k \in completed[c], KeyExpires(c, k)
    PROVE  QueueInv'
<1> USE DEF QueueInv
<1>1. Others(c) /\ completed'[c] = completed[c] \ {k}
    BY Alone DEF KeyExpires, QueueTypes
<1>2. QueueTypes'
    BY DEF KeyExpires, QueueTypes
<1>3. InHands' /\ OnePlace'
    BY DEF KeyExpires, InHands, OnePlace, Stale
<1>4. AcksDeserved'
  <2>1. Deserves(c)' /\ AckedWorkWasDone'
      BY <1>1 DEF KeyExpires, AcksDeserved, AckedWorkWasDone, Deserves, KeyWon, KeyOf
  <2>. QED
      BY <1>1, <2>1, StillDeserved DEF KeyExpires
<1>5. Attempts'
  <2>1. \A j : Late(j)' = Late(j)
      BY DEF KeyExpires, Late, Stale
  <2>2. \A j : Due(j)' = Due(j)
      BY <2>1 DEF KeyExpires, Due
  <2>3. \A e : (Unrun(e)' <=> Unrun(e)) /\ (Ran(e)' <=> Ran(e))
      BY <2>2 DEF KeyExpires, Unrun, Ran
  <2>4. RunsBounded'
      BY <2>2 DEF KeyExpires, Attempts, RunsBounded
  <2>5. \A d \in Consumers : Accounted(d)'
      BY <2>3 DEF KeyExpires, Attempts, Accounted, Stale
  <2>. QED
      BY <2>3, <2>4, <2>5 DEF KeyExpires, Attempts
<1>. QED
    BY <1>2, <1>3, <1>4, <1>5

\* The broker has the entry of a dead RabbitMQ consumer back, at the head.
LEMMA ExitPreserves ==
    ASSUME QueueInv, NEW c \in Consumers, Exit(c)
    PROVE  QueueInv'
<1> USE DEF QueueInv
<1>1. /\ Others(c) /\ backend # "memory" /\ pc'[c] = "down" /\ completed'[c] = {}
      /\ UNCHANGED <<backend, fate, runs, wins>>
    BY Alone DEF Exit, QueueTypes
<1>2. /\ faults \in Nat /\ \A j \in Jobs : runs[j] \in Nat
      /\ faults' \in 0..MaxFaults /\ faults' >= faults
      /\ pc[c] # "ended" => faults' = faults + 1
    BY QueueAssumption DEF Exit, QueueTypes
<1>3. /\ pc' \in [Consumers -> Idle \cup {"polling"} \cup Working]
      /\ cur' \in [Consumers -> Entries \cup {NoEntry}]
      /\ DOMAIN completed' = Consumers
    BY DEF Exit, QueueTypes, Idle
<1>4. /\ \A j \in Jobs : NoMore(j)
      /\ \A e \in Entries : Unrun(e) => Unrun(e)'
      /\ \A j \in Jobs : Due(j) <= 1 + faults => Due(j)' <= 1 + faults'
    BY <1>1, <1>2, NotLate, Quiet
<1>5. AcksDeserved'
  <2>1. Deserves(c)' /\ AckedWorkWasDone'
      BY <1>1 DEF AcksDeserved, AckedWorkWasDone, Deserves
  <2>. QED
      BY <1>1, <2>1, StillDeserved
<1>6. /\ Accounted(c)' /\ RunsBounded'
      /\ \A j \in Jobs : fate'[j] = "unsent" => runs'[j] = 0
    BY <1>1, <1>4 DEF Attempts, Accounted, RunsBounded, Working
<1>7. \A i \in DOMAIN queue : queue[i] \in Entries /\ Unrun(queue[i])
    BY DEF QueueTypes, Attempts
<1>8. CASE backend = "amqp" /\ held[c] # {}
  <2>1. PICK e \in held[c] : queue' = <<e>> \o queue
      BY <1>8 DEF Exit, GiveBack
  <2>2. e \in Entries /\ held' = [held EXCEPT ![c] = {}] /\ \A f \in held[c] : f = e
      BY <1>8, <2>1 DEF Exit, GiveBack, QueueTypes, InHands
  <2>3. /\ queue' \in Seq(Entries)
        /\ \A i \in DOMAIN queue' : queue'[i] = e \/ \E k \in DOMAIN queue : queue'[i] = queue[k]
      BY <2>1, <2>2 DEF QueueTypes
  <2>4. QueueTypes' /\ InHands'
      BY <1>1, <1>2, <1>3, <2>2, <2>3 DEF QueueTypes, InHands, Others, Working, Stale
  <2>5. OnePlace'
      BY <1>1, <2>1, <2>2, GivesBack
  <2>6. Unrun(e)'
    <3>1. /\ e.job \in Jobs /\ Due(e.job) \in Nat /\ Due(e.job) <= 1 + faults
          /\ pc[c] = "ended" => Due(e.job) <= faults
        BY <1>8, HeldOnAmqp
    <3>2. Due(e.job)' \in Nat /\ Due(e.job)' <= Due(e.job)
        BY <1>4, <1>8, <3>1 DEF NoMore
    <3>. QED
        BY <1>1, <1>2, <1>8, <3>1, <3>2 DEF Unrun
  <2>7. (\A i \in DOMAIN queue : Unrun(queue[i]))'
    <3>1. \A i \in DOMAIN queue' :
              queue'[i] = e \/ (queue'[i] \in Entries /\ Unrun(queue'[i]))
        BY <1>7, <2>3
    <3>. QED
        BY <1>4, <2>6, <3>1
  <2>8. Attempts'
      BY <1>1, <1>2, <1>4, <1>6, <2>7, StillAccounted
  <2>. QED
      BY <1>5, <2>4, <2>5, <2>8
<1>9. CASE ~(backend = "amqp" /\ held[c] # {})
  <2>1. UNCHANGED <<queue, held>>
      BY <1>9 DEF Exit
  <2>2. QueueTypes'
      BY <1>1, <1>2, <1>3, <2>1 DEF QueueTypes
  <2>3. InHands'
      BY <1>1, <1>9, <2>1 DEF InHands, Others, Working, Stale
  <2>4. OnePlace'
      BY <1>1, <2>1 DEF OnePlace
  <2>5. (\A i \in DOMAIN queue : Unrun(queue[i]))'
      BY <1>4, <1>7, <2>1
  <2>6. Attempts'
      BY <1>1, <1>2, <1>4, <1>6, <2>5, StillAccounted
  <2>. QED
      BY <1>5, <2>2, <2>3, <2>4, <2>6
<1>. QED
    BY <1>8, <1>9

\* The broker has the entry of a lost connection back, and whoever worked on it is late.
LEMMA ConnectionLostPreserves ==
    ASSUME QueueInv, NEW c \in Consumers, ConnectionLost(c)
    PROVE  QueueInv'
<1> USE DEF QueueInv
<1>1. /\ Others(c) /\ backend = "amqp" /\ faults \in Nat
      /\ faults' = faults + 1 /\ faults' \in 0..MaxFaults
      /\ UNCHANGED <<backend, pc, cur, completed, fate, runs, wins>>
    BY Alone, QueueAssumption DEF ConnectionLost, QueueTypes
<1>2. PICK e \in held[c] : queue' = <<e>> \o queue
    BY DEF ConnectionLost, GiveBack
<1>3. held' = [held EXCEPT ![c] = {}] /\ \A f \in held[c] : f = e
    BY <1>1 DEF ConnectionLost, GiveBack, InHands
<1>4. /\ e \in Entries /\ e.job \in Jobs
      /\ pc[c] = "ended" \/ (pc[c] \in Working /\ ~Stale(c) /\ e = cur[c])
      /\ Due(e.job) \in Nat /\ Due(e.job) <= 1 + faults
      /\ pc[c] \in {"ended", "received"} => Due(e.job) <= faults
    BY <1>1, HeldOnAmqp
<1>5. /\ queue' \in Seq(Entries) /\ held'[c] = {}
      /\ \A i \in DOMAIN queue' : queue'[i] = e \/ \E k \in DOMAIN queue : queue'[i] = queue[k]
    BY <1>2, <1>3, <1>4 DEF QueueTypes
<1>6. QueueTypes'
    BY <1>1, <1>3, <1>5 DEF QueueTypes
<1>7. InHands'
    BY <1>1, <1>3, <1>5 DEF InHands, Others, Stale
<1>8. OnePlace'
    BY <1>1, <1>2, <1>3, GivesBack
<1>9. AcksDeserved'
    BY <1>1 DEF AcksDeserved, AckedWorkWasDone, Deserves, KeyWon, KeyOf
<1>10. \A j \in Jobs :
           Late(j)' = IF pc[c] = "received" /\ j = e.job THEN Late(j) \cup {c} ELSE Late(j)
    BY <1>1, <1>4, <1>5 DEF Late, Others, Stale
<1>11. ASSUME NEW j \in Jobs
       PROVE  /\ Due(j) \in Nat /\ Due(j)' \in Nat
              /\ Due(j)' = IF pc[c] = "received" /\ j = e.job THEN Due(j) + 1 ELSE Due(j)
  <2>1. /\ Due(j) = runs[j] + Cardinality(Late(j))
        /\ Due(j)' = runs[j] + Cardinality(Late(j)')
      BY <1>1 DEF Due
  <2>2. Late(j) \subseteq Consumers /\ Due(j) \in Nat /\ runs[j] \in Nat
      BY DueTypes
  <2>3. IsFiniteSet(Late(j)) /\ Cardinality(Late(j)) \in Nat
      BY <2>2, Counts
  <2>4. CASE pc[c] = "received" /\ j = e.job
    <3>1. c \notin Late(j)
        BY <1>4, <2>4 DEF Late
    <3>2. Cardinality(Late(j)') = Cardinality(Late(j)) + 1
        BY <1>10, <2>3, <2>4, <3>1, FS_AddElement
    <3>. QED
        BY <2>1, <2>2, <2>3, <2>4, <3>2
  <2>5. CASE ~(pc[c] = "received" /\ j = e.job)
      BY <1>10, <2>1, <2>2, <2>3, <2>5
  <2>. QED
      BY <2>4, <2>5
<1>12. Attempts'
  <2>1. \A j \in Jobs : Due(j)' <= 1 + faults'
      BY <1>1, <1>4, <1>11 DEF Attempts, RunsBounded
  <2>2. RunsBounded' /\ \A j \in Jobs : fate'[j] = "unsent" => runs'[j] = 0
      BY <1>1, <2>1 DEF Attempts, RunsBounded
  <2>3. Unrun(e)'
      BY <1>1, <1>4, <1>11 DEF Unrun
  <2>4. ASSUME NEW f \in Entries, Unrun(f) PROVE Unrun(f)'
    <3>1. f.job \in Jobs /\ Due(f.job) <= faults
        BY <1>1, <2>4, EntryFields DEF Unrun
    <3>2. Due(f.job)' <= Due(f.job) + 1 /\ Due(f.job) \in Nat /\ Due(f.job)' \in Nat
        BY <1>11, <3>1
    <3>. QED
        BY <1>1, <3>1, <3>2 DEF Unrun
  <2>5. (\A i \in DOMAIN queue : Unrun(queue[i]))'
    <3>1. \A i \in DOMAIN queue : queue[i] \in Entries /\ Unrun(queue[i])
        BY DEF QueueTypes, Attempts
    <3>. QED
        BY <1>5, <2>3, <2>4, <3>1
  <2>6. Accounted(c)'
    <3>1. pc[c] \in Working => Stale(c)'
        BY <1>5 DEF Stale
    <3>. QED
        BY <1>1, <1>5, <3>1 DEF Attempts, Accounted, Working
  <2>7. \A j \in Jobs : NoMore(j) \/ (pc[c] \in Working /\ ~Stale(c) /\ j = cur[c].job)
    <3>1. \A j \in Jobs : Due(j)' > Due(j) => pc[c] = "received" /\ j = e.job
        BY <1>11
    <3>2. \A j \in Jobs : Due(j)' <= Due(j) => NoMore(j)
        BY <1>1, <1>11 DEF NoMore
    <3>. QED
        BY <1>4, <1>11, <3>1, <3>2 DEF Working
  <2>. QED
      BY <1>1, <2>2, <2>5, <2>6, <2>7, StillAccounted
<1>. QED
    BY <1>6, <1>7, <1>8, <1>9, <1>12

\* A consumer that starts again holds what Redis keeps pending for it.
LEMMA RestartPreserves ==
    ASSUME QueueInv, NEW c \in Consumers, Restart(c)
    PROVE  QueueInv'
<1> USE DEF QueueInv
<1>1. Others(c) /\ pc'[c] = "polling"
    BY Alone DEF Restart, QueueTypes
<1>2. QueueTypes'
    BY DEF Restart, QueueTypes
<1>3. OnePlace'
    BY DEF Restart, OnePlace
<1>4. InHands'
    BY <1>1 DEF Restart, InHands, Working, Others, Stale
<1>5. AcksDeserved'
  <2>1. Deserves(c)' /\ AckedWorkWasDone'
      BY <1>1 DEF Restart, AcksDeserved, AckedWorkWasDone, Deserves, KeyWon
  <2>. QED
      BY <1>1, <2>1, StillDeserved DEF Restart
<1>6. Attempts'
  <2>1. faults \in Nat /\ faults' = faults
      BY DEF QueueTypes, Restart
  <2>2. /\ \A j \in Jobs : NoMore(j)
        /\ \A e \in Entries : Unrun(e) => Unrun(e)'
        /\ \A j \in Jobs : Due(j) <= 1 + faults => Due(j)' <= 1 + faults'
      BY <1>1, <2>1, NotLate, Quiet DEF Restart
  <2>3. (\A i \in DOMAIN queue : Unrun(queue[i]))'
      BY <2>2 DEF Restart, QueueTypes, Attempts
  <2>4. /\ Accounted(c)' /\ RunsBounded' /\ \A j \in Jobs : fate'[j] = "unsent" => runs'[j] = 0
      BY <1>1, <2>2 DEF Restart, Attempts, Accounted, RunsBounded, Working
  <2>. QED
      BY <1>1, <2>1, <2>2, <2>3, <2>4, StillAccounted DEF Restart
<1>. QED
    BY <1>2, <1>3, <1>4, <1>5, <1>6

-----------------------------------------------------------------------------
\* No session exists, and no execution.
LEMMA SessionInitInv == Job!OrchInit => SessionInv
<1> SUFFICES ASSUME Job!OrchInit PROVE SessionInv
    OBVIOUS
<1>1. SessionTypes
    BY WorkerAssumption DEF Job!OrchInit, Job!AtRest, SessionTypes, Progress
<1>2. Sids
    BY DEF Job!OrchInit, Job!AtRest, Sids, Knows
<1>3. LeftoversExplained
    BY DEF Job!OrchInit, Job!AtRest, Job!Listed, LeftoversExplained
<1>. QED
    BY <1>1, <1>2, <1>3 DEF SessionInv

\* A request of one execution leaves the others where they are.
Elsewhere(c) ==
    /\ orch' \in [Consumers -> Progress]
    /\ \A d \in Consumers \ {c} : orch'[d] = orch[d]

\* What the three ends of a request make of the progress of its execution.
LEMMA Goes ==
    ASSUME SessionTypes, NEW c \in Consumers, NEW step \in {"poll", "touch", "delete", "done"},
           Job!Goto(c, step)
    PROVE  /\ Elsewhere(c)
           /\ orch'[c].step = step /\ orch'[c].sid = orch[c].sid /\ orch'[c].err = orch[c].err
<1>1. orch[c] \in Progress
    BY DEF SessionTypes
<1>2. orch' = [orch EXCEPT ![c] = [orch[c] EXCEPT !.step = step, !.tries = 0]]
    BY <1>1 DEF Job!Goto
<1>3. 0 \in 0..Retries
    BY WorkerAssumption
<1>. QED
    BY <1>1, <1>2, <1>3 DEF SessionTypes, Progress, Elsewhere

\* A request that fails for good ends the job, through the clean-up if there is
\* something to clean up.
LEMMA Fails ==
    ASSUME SessionTypes, NEW c \in Consumers, Job!Fail(c)
    PROVE  /\ Elsewhere(c)
           /\ orch'[c].err /\ orch'[c].sid = orch[c].sid
           /\ orch'[c].step = IF orch[c].sid = NoId \/ orch[c].step = "delete"
                                THEN "done" ELSE "delete"
<1> DEFINE step == IF orch[c].sid = NoId \/ orch[c].step = "delete" THEN "done" ELSE "delete"
           failed == [orch[c] EXCEPT !.err = TRUE, !.tries = 0, !.step = step]
<1>1. orch[c] \in Progress
    BY DEF SessionTypes
<1>2. orch' = [orch EXCEPT ![c] = failed]
    BY <1>1 DEF Job!Fail
<1>3. failed \in Progress /\ failed.err /\ failed.sid = orch[c].sid /\ failed.step = step
  <2>1. 0 \in 0..Retries
      BY WorkerAssumption
  <2>. QED
      BY <1>1, <2>1 DEF Progress
<1> HIDE DEF failed
<1>. QED
    BY <1>2, <1>3 DEF SessionTypes, Elsewhere

\* A transient failure before the last attempt leaves the job where it is.
LEMMA TriesAgain ==
    ASSUME SessionTypes, NEW c \in Consumers, Job!Transient(c), ~Job!OutOfTries(c)
    PROVE  /\ Elsewhere(c)
           /\ orch'[c].step = orch[c].step /\ orch'[c].sid = orch[c].sid
           /\ orch'[c].err = orch[c].err
    BY WorkerAssumption DEF Job!Transient, Job!OutOfTries, SessionTypes, Progress,
        Elsewhere

\* No other execution loses what it knows: a session that exists is never forgotten,
\* and one that is gone does not return.
LEMMA OneExecution ==
    ASSUME SessionInv, NEW c \in Consumers, Elsewhere(c), SessionTypes', Knows(c)',
           orphans \subseteq orphans',
           \A s \in Ids : /\ sessions[s] # "none" => sessions'[s] # "none"
                          /\ sessions[s] = "gone" => sessions'[s] = "gone",
           \A s \in Ids : Job!Listed(s)' =>
               \/ s \in orphans'
               \/ orch'[c].sid = s /\ orch'[c].step # "done"
               \/ Job!Listed(s) /\ (orch[c].sid = s => orch[c].step = "done")
    PROVE  SessionInv'
<1>1. Sids'
    BY DEF SessionInv, Sids, Knows, Elsewhere
<1>2. (\A d \in Consumers : orch[d].step = "done" /\ ~orch[d].err =>
           orch[d].sid # NoId /\ ~Job!Listed(orch[d].sid))'
    BY <1>1, WorkerAssumption DEF Sids, Knows, Job!Listed
<1>3. \A s \in Ids : Job!Listed(s)' =>
          s \in orphans' \/ \E d \in Consumers : orch'[d].sid = s /\ orch'[d].step # "done"
    BY DEF SessionInv, LeftoversExplained, Elsewhere
<1>. QED
    BY <1>1, <1>2, <1>3 DEF SessionInv, LeftoversExplained

\* A retry that is left goes on, the last one fails.
LEMMA Transients ==
    ASSUME SessionTypes, NEW c \in Consumers, Job!Transient(c)
    PROVE  \/ Job!OutOfTries(c) /\ Job!Fail(c)
           \/ /\ ~Job!OutOfTries(c) /\ Elsewhere(c)
              /\ orch'[c].step = orch[c].step /\ orch'[c].sid = orch[c].sid
              /\ orch'[c].err = orch[c].err
    BY TriesAgain DEF Job!Transient

\* Nothing is under way in an execution at rest.
LEMMA AtRestProgress ==
    /\ Job!AtRest \in Progress
    /\ Job!AtRest.step = "idle" /\ Job!AtRest.sid = NoId /\ ~Job!AtRest.err
<1>1. 0 \in 0..Retries
    BY WorkerAssumption
<1>. QED
    BY <1>1 DEF Job!AtRest, Progress

\* An execution begins without a session, or ends at once.
LEMMA StartPreserves ==
    ASSUME SessionInv, NEW c \in Consumers,
           (\E proxied \in BOOLEAN : Job!Start(c, proxied)) \/ Job!Misconfigured(c)
    PROVE  SessionInv'
<1>1. /\ Elsewhere(c) /\ UNCHANGED <<sessions, orphans>> /\ orch[c].step = "idle"
      /\ orch'[c].sid = NoId
      /\ \/ orch'[c].step = "create" /\ ~orch'[c].err
         \/ orch'[c].step = "done" /\ orch'[c].err
  <2>1. SessionTypes
      BY DEF SessionInv
  <2>2. CASE \E proxied \in BOOLEAN : Job!Start(c, proxied)
    <3>1. PICK proxied \in BOOLEAN : Job!Start(c, proxied)
        BY <2>2
    <3> DEFINE begun == [Job!AtRest EXCEPT !.step = "create", !.proxied = proxied]
    <3>2. begun \in Progress /\ begun.sid = NoId /\ begun.step = "create" /\ ~begun.err
        BY AtRestProgress DEF Progress
    <3> HIDE DEF begun
    <3>. QED
        BY <2>1, <3>1, <3>2 DEF Job!Start, SessionTypes, Elsewhere, begun
  <2>3. CASE Job!Misconfigured(c)
    <3> DEFINE failed == [Job!AtRest EXCEPT !.step = "done", !.err = TRUE]
    <3>1. failed \in Progress /\ failed.sid = NoId /\ failed.step = "done" /\ failed.err
        BY AtRestProgress DEF Progress
    <3> HIDE DEF failed
    <3>. QED
        BY <2>1, <2>3, <3>1 DEF Job!Misconfigured, SessionTypes, Elsewhere, failed
  <2>. QED
      BY <2>2, <2>3
<1>2. SessionTypes' /\ Knows(c)'
    BY <1>1 DEF SessionInv, SessionTypes, Elsewhere, Knows
<1>3. \A s \in Ids : Job!Listed(s)' => Job!Listed(s) /\ orch[c].sid # s
    BY <1>1, WorkerAssumption DEF Job!Listed, SessionInv, Sids, Knows
<1>. QED
    BY <1>1, <1>2, <1>3, OneExecution

\* A session that is created is its execution's, or an orphan if the answer is lost.
LEMMA CreatePreserves ==
    ASSUME SessionInv, NEW c \in Consumers, Job!Create(c)
    PROVE  SessionInv'
<1>1. orch[c].step = "create" /\ orch[c].sid = NoId /\ ~orch[c].err
    BY DEF Job!Create, SessionInv, Sids, Knows
<1>2. CASE \E s \in Ids :
              /\ Job!NewSession(s)
              /\ orch' = [orch EXCEPT ![c].sid = s, ![c].step = Job!AfterCreate(c),
                                      ![c].tries = 0]
              /\ UNCHANGED orphans
  <2>1. PICK s \in Ids :
              /\ Job!NewSession(s)
              /\ orch' = [orch EXCEPT ![c].sid = s, ![c].step = Job!AfterCreate(c),
                                      ![c].tries = 0]
              /\ UNCHANGED orphans
      BY <1>2
  <2>2. /\ sessions[s] = "none" /\ sessions' = [sessions EXCEPT ![s] = "INIT"]
        /\ sessions' \in [Ids -> {"none", "INIT", "READY", "DEAD", "gone"}]
      BY <2>1 DEF Job!NewSession, SessionInv, SessionTypes
  <2>3. /\ Elsewhere(c) /\ orch'[c].sid = s /\ orch'[c].step \in {"proxy", "poll"}
        /\ ~orch'[c].err
    <3>1. 0 \in 0..Retries /\ orch[c] \in Progress /\ Job!AfterCreate(c) \in {"proxy", "poll"}
        BY WorkerAssumption DEF SessionInv, SessionTypes, Job!AfterCreate
    <3>. QED
        BY <1>1, <2>1, <3>1 DEF SessionInv, SessionTypes, Progress
  <2>4. SessionTypes' /\ Knows(c)'
      BY <2>1, <2>2, <2>3 DEF SessionInv, SessionTypes, Elsewhere, Knows
  <2>5. \A q \in Ids : Job!Listed(q)' => q = s \/ Job!Listed(q)
      BY <2>2 DEF Job!Listed
  <2>. QED
      BY <1>1, <2>1, <2>2, <2>3, <2>4, <2>5, OneExecution, WorkerAssumption
<1>3. CASE \/ \E s \in Ids :
                 /\ Job!NewSession(s)
                 /\ orphans' = orphans \cup {s}
                 /\ Job!Transient(c)
           \/ (Job!Transient(c) \/ Job!Fail(c)) /\ UNCHANGED <<sessions, orphans>>
  <2>1. /\ SessionTypes /\ (Job!Transient(c) \/ Job!Fail(c))
        /\ orphans \subseteq orphans' /\ orphans' \subseteq Ids
        /\ sessions' \in [Ids -> {"none", "INIT", "READY", "DEAD", "gone"}]
        /\ \A s \in Ids : sessions'[s] = sessions[s] \/ (sessions[s] = "none" /\ s \in orphans')
      BY <1>3 DEF Job!NewSession, SessionInv, SessionTypes
  <2>2. /\ Elsewhere(c) /\ orch'[c].sid = NoId
        /\ \/ orch'[c].step = "create" /\ ~orch'[c].err
           \/ orch'[c].step = "done" /\ orch'[c].err
      BY <1>1, <2>1, Transients, Fails
  <2>3. SessionTypes' /\ Knows(c)'
      BY <2>1, <2>2 DEF SessionTypes, Elsewhere, Knows
  <2>4. \A s \in Ids : Job!Listed(s)' => s \in orphans' \/ (Job!Listed(s) /\ orch[c].sid # s)
      BY <1>1, <2>1, WorkerAssumption DEF Job!Listed
  <2>. QED
      BY <2>1, <2>2, <2>3, <2>4, OneExecution
<1>. QED
    BY <1>2, <1>3 DEF Job!Create

\* Configuring, polling and touching a session lead on, or to its delete.
LEMMA RequestPreserves ==
    ASSUME SessionInv, NEW c \in Consumers, Job!Proxy(c) \/ Job!Poll(c) \/ Job!Touch(c)
    PROVE  SessionInv'
<1>1. /\ SessionTypes /\ UNCHANGED <<sessions, orphans>>
      /\ orch[c].step \in {"proxy", "poll", "touch"}
    BY DEF Job!Proxy, Job!Poll, Job!Touch, SessionInv
<1>2. /\ orch[c].sid \in Ids /\ orch[c].sid # NoId
      /\ sessions[orch[c].sid] # "none" /\ ~orch[c].err
    BY <1>1, WorkerAssumption DEF SessionInv, Sids, Knows
<1>3. \/ \E step \in {"poll", "touch", "delete"} : Job!Goto(c, step)
      \/ Job!Transient(c) \/ Job!Fail(c)
    BY DEF Job!Proxy, Job!Poll, Job!Touch
<1>4. /\ Elsewhere(c) /\ orch'[c].sid = orch[c].sid
      /\ \/ orch'[c].step \in {"proxy", "poll", "touch", "delete"} /\ ~orch'[c].err
         \/ orch'[c].step = "delete"
    BY <1>1, <1>2, <1>3, Goes, Transients, Fails
<1>5. SessionTypes' /\ Knows(c)'
    BY <1>1, <1>2, <1>4 DEF SessionTypes, Elsewhere, Knows
<1>. QED
    BY <1>1, <1>2, <1>4, <1>5, OneExecution DEF Job!Listed

\* The delete is carried out, tried again, or leaves an orphan.
LEMMA DeletePreserves ==
    ASSUME SessionInv, NEW c \in Consumers, Job!Delete(c)
    PROVE  SessionInv'
<1> DEFINE s == orch[c].sid
<1>1. /\ SessionTypes /\ orch[c].step = "delete"
      /\ s \in Ids /\ s # NoId /\ sessions[s] # "none"
    BY WorkerAssumption DEF Job!Delete, SessionInv, Sids, Knows
<1>2. /\ orphans \subseteq orphans' /\ orphans' \subseteq Ids
      /\ sessions' \in [Ids -> {"none", "INIT", "READY", "DEAD", "gone"}]
      /\ \A q \in Ids : sessions'[q] = sessions[q] \/ (q = s /\ sessions'[q] = "gone")
    BY <1>1 DEF Job!Delete, SessionTypes
<1>3. /\ Elsewhere(c) /\ orch'[c].sid = s
      /\ \/ orch'[c].step = "delete"
         \/ orch'[c].step = "done" /\ sessions'[s] = "gone"
         \/ orch'[c].step = "done" /\ orch'[c].err /\ s \in orphans'
  <2>1. CASE /\ sessions' = [sessions EXCEPT ![s] = "gone"]
             /\ Job!Goto(c, "done") \/ Job!Transient(c)
      BY <1>1, <2>1, Goes, Transients, Fails DEF SessionTypes
  <2>2. CASE Job!Transient(c) /\ orphans' = IF Job!OutOfTries(c) THEN orphans \cup {s} ELSE orphans
      BY <1>1, <2>2, Transients, Fails
  <2>3. CASE Job!Fail(c) /\ orphans' = orphans \cup {s}
      BY <1>1, <2>3, Fails
  <2>. QED
      BY <2>1, <2>2, <2>3 DEF Job!Delete
<1>4. SessionTypes' /\ Knows(c)'
    BY <1>1, <1>2, <1>3 DEF SessionTypes, Elsewhere, Knows
<1>5. \A q \in Ids : Job!Listed(q)' => Job!Listed(q) /\ (sessions'[s] = "gone" => q # s)
    BY <1>2 DEF Job!Listed
<1>. QED
    BY <1>1, <1>2, <1>3, <1>4, <1>5, OneExecution

\* Time passing disturbs nothing.
LEMMA DeadlinePreserves ==
    ASSUME SessionInv, NEW c \in Consumers, Job!DeadlinePasses(c)
    PROVE  SessionInv'
<1>1. /\ Elsewhere(c) /\ UNCHANGED <<sessions, orphans>>
      /\ orch'[c].step = orch[c].step /\ orch'[c].sid = orch[c].sid
      /\ orch'[c].err = orch[c].err
    BY DEF Job!DeadlinePasses, SessionInv, SessionTypes, Progress, Elsewhere
<1>2. SessionTypes' /\ Knows(c)'
    BY <1>1 DEF SessionInv, SessionTypes, Elsewhere, Sids, Knows
<1>. QED
    BY <1>1, <1>2, OneExecution DEF Job!Listed

\* An execution that is over, or whose process dies, has deleted its session or left an
\* orphan.
LEMMA RestPreserves ==
    ASSUME SessionInv, NEW c \in Consumers, Job!Finish(c) \/ Job!Abandon(c)
    PROVE  SessionInv'
<1>1. /\ Elsewhere(c) /\ UNCHANGED sessions
      /\ orch'[c].step = "idle" /\ orch'[c].sid = NoId
    BY AtRestProgress DEF Job!Finish, Job!Abandon, SessionInv, SessionTypes, Elsewhere
<1>2. /\ orphans \subseteq orphans' /\ orphans' \subseteq Ids
      /\ \A s \in Ids : orch[c].sid = s => s \in orphans' \/ orch[c].step = "done"
    BY WorkerAssumption DEF Job!Finish, Job!Abandon, SessionInv, SessionTypes, Progress,
        Sids, Knows
<1>3. SessionTypes' /\ Knows(c)'
    BY <1>1, <1>2 DEF SessionInv, SessionTypes, Elsewhere, Knows
<1>. QED
    BY <1>1, <1>2, <1>3, OneExecution DEF Job!Listed

\* A session that becomes ready, dies or is reaped stays known to whom it was.
LEMMA SessionMovesPreserves ==
    ASSUME SessionInv, NEW s \in Ids, Job!SessionMoves(s)
    PROVE  SessionInv'
<1>1. /\ UNCHANGED <<orch, orphans>>
      /\ sessions' \in [Ids -> {"none", "INIT", "READY", "DEAD", "gone"}]
      /\ \A q \in Ids : /\ sessions[q] # "none" => sessions'[q] # "none"
                        /\ sessions[q] = "gone" => sessions'[q] = "gone"
                        /\ sessions[q] = "none" => sessions'[q] = "none"
    BY DEF Job!SessionMoves, SessionInv, SessionTypes
<1>2. SessionTypes' /\ Sids'
    BY <1>1 DEF SessionInv, SessionTypes, Sids, Knows
<1>3. \A q \in Ids : Job!Listed(q)' => Job!Listed(q)
    BY <1>1 DEF Job!Listed, SessionInv, SessionTypes
<1>4. (\A d \in Consumers : orch[d].step = "done" /\ ~orch[d].err =>
           orch[d].sid # NoId /\ ~Job!Listed(orch[d].sid))'
    BY <1>2, WorkerAssumption DEF Sids, Knows, Job!Listed
<1>5. LeftoversExplained'
    BY <1>1, <1>3, <1>4 DEF SessionInv, LeftoversExplained
<1>. QED
    BY <1>2, <1>5 DEF SessionInv

-----------------------------------------------------------------------------
\* Every step preserves the invariant: it is one of the queue, one of the gateway, or
\* the return of an execution or the death of a process, which are both.
LEMMA QueueKept ==
    ASSUME QueueInv, UNCHANGED queueVars
    PROVE  QueueInv'
<1>1. (QueueTypes /\ InHands)'
    BY DEF QueueInv, QueueTypes, InHands, Stale, queueVars
<1>2. OnePlace'
    BY DEF QueueInv, OnePlace, queueVars
<1>3. AcksDeserved'
    BY DEF QueueInv, AcksDeserved, AckedWorkWasDone, Deserves, KeyWon, KeyOf, queueVars
<1>4. Attempts'
    BY DEF QueueInv, Attempts, Accounted, Unrun, Ran, RunsBounded, Due, Late, Stale,
        queueVars
<1>. QED
    BY <1>1, <1>2, <1>3, <1>4 DEF QueueInv

\* The queue's steps do not touch the gateway.
LEMMA SessionsKept ==
    ASSUME SessionInv, UNCHANGED gatewayVars
    PROVE  SessionInv'
    BY DEF SessionInv, SessionTypes, Sids, Knows, LeftoversExplained, Job!Listed,
        gatewayVars

\* Every step preserves the invariant.
LEMMA NextIInv ==
    ASSUME IInv, [Next]_vars
    PROVE  IInv'
<1> USE DEF IInv
<1>1. CASE UNCHANGED vars
    BY <1>1, QueueKept, SessionsKept DEF vars, queueVars, gatewayVars
<1>2. CASE \E c \in Consumers : QueueStep(c)
    BY <1>2, SessionsKept, ReceivePreserves, DispatchPreserves, SettlingPreserves,
        RequeuePreserves, SettleStalePreserves DEF QueueStep
<1>3. CASE \E c \in Consumers : NativeJob(c)
    BY <1>3, SessionsKept, JobReturnsPreserves DEF NativeJob
<1>4. CASE \E c \in Consumers : StartJob(c)
  <2>1. \A c \in Consumers : (cur[c].job \in Proxied) \in BOOLEAN
      OBVIOUS
  <2>. QED
      BY <1>4, <2>1, QueueKept, StartPreserves DEF StartJob
<1>5. CASE \E c \in Consumers : GatewayRequest(c)
    BY <1>5, QueueKept, CreatePreserves, RequestPreserves, DeletePreserves DEF
        GatewayRequest
<1>6. CASE \E c \in Consumers : FinishJob(c)
  <2>1. PICK c \in Consumers : Job!Finish(c) /\ JobReturns(c, ~orch[c].err)
      BY <1>6 DEF FinishJob
  <2>2. (~orch[c].err) \in BOOLEAN
      OBVIOUS
  <2>. QED
      BY <2>1, <2>2, RestPreserves, JobReturnsPreserves
<1>7. CASE \E c \in Consumers : Deadline(c)
    BY <1>7, QueueKept, DeadlinePreserves DEF Deadline
<1>8. CASE Outside
    BY <1>8, SessionsKept, QueueKept, PublishPreserves, EmptyPollPreserves,
        CallFailsPreserves, RestartPreserves, KeyExpiresPreserves, ExitPreserves,
        ConnectionLostPreserves,
        RestPreserves, SessionMovesPreserves DEF Outside, ProcessExit
<1>. QED
    BY <1>1, <1>2, <1>3, <1>4, <1>5, <1>6, <1>7, <1>8 DEF Next, Step

\* Every reachable state satisfies the invariant.
THEOREM Invariance == Spec => []IInv
<1>1. Init => IInv
    BY QueueInitInv, SessionInitInv DEF Init, IInv
<1>. QED
    BY <1>1, NextIInv, PTL DEF Spec

-----------------------------------------------------------------------------
\* The worker's variables keep their types for any consumers, jobs and sessions.
THEOREM TypeCorrect == Spec => []TypeOK
<1>1. IInv => TypeOK
    BY DEF IInv, QueueInv, QueueTypes, Working, SessionInv, SessionTypes, Progress, TypeOK
<1>. QED
    BY <1>1, Invariance, PTL

\* An unsettled job is in exactly one place, and a settled one is nowhere, through any
\* crashes, redeliveries, failing calls and retries on each backend.
THEOREM NoJobIsLostOrDoubled == Spec => []JobsAccountedFor
<1>1. ASSUME IInv, NEW j \in Jobs
      PROVE  Cardinality(Places(j)) = IF fate[j] = "open" THEN 1 ELSE 0
  <2>1. DOMAIN queue = 1..Len(queue)
      BY <1>1
  <2>2. CASE fate[j] # "open"
    <3>1. Places(j) = {}
        BY <1>1, <2>1, <2>2 DEF IInv, QueueInv, OnePlace, Places
    <3>. QED
        BY <2>2, <3>1, FS_EmptySet
  <2>3. CASE fate[j] = "open"
    <3>1. \E x : Places(j) = {x}
      <4>1. CASE \E i \in DOMAIN queue : queue[i].job = j
        <5>1. PICK i \in DOMAIN queue : queue[i].job = j
            BY <4>1
        <5>2. Places(j) = {i}
            BY <1>1, <2>1, <5>1 DEF IInv, QueueInv, OnePlace, Places
        <5>. QED
            BY <5>2
      <4>2. CASE \E c \in Consumers : \E e \in held[c] : e.job = j
        <5>1. PICK c \in Consumers : \E e \in held[c] : e.job = j
            BY <4>2
        <5>2. PICK e \in held[c] : e.job = j
            BY <5>1
        <5>3. e \in Entries
            BY <1>1 DEF IInv, QueueInv, QueueTypes
        <5>4. Places(j) = {<<c, e>>}
            BY <1>1, <2>1, <5>2, <5>3 DEF IInv, QueueInv, OnePlace, Places
        <5>. QED
            BY <5>4
      <4>. QED
          BY <1>1, <2>3, <4>1, <4>2 DEF IInv, QueueInv, OnePlace
    <3>. QED
        BY <2>3, <3>1, FS_Singleton
  <2>. QED
      BY <2>2, <2>3
<1>2. IInv => JobsAccountedFor
    BY <1>1 DEF JobsAccountedFor
<1>. QED
    BY <1>2, Invariance, PTL

\* A job that left the queue as done was executed with success, and one that left it as
\* a duplicate has a job with its key that was.
THEOREM AcksAreDeserved == Spec => []AckedWorkWasDone
<1>1. IInv => AckedWorkWasDone
    BY DEF IInv, QueueInv, AcksDeserved
<1>. QED
    BY <1>1, Invariance, PTL

\* A job is executed up to its limit in memory, never on redis, and at most once more
\* per fault on amqp, those executions included whose delivery was withdrawn.
THEOREM RunsAreBounded == Spec => []RunsMatchBackend
<1>1. IInv => RunsMatchBackend
  <2> SUFFICES ASSUME IInv PROVE RunsMatchBackend
      OBVIOUS
  <2>1. backend \in {"memory", "redis", "amqp"} /\ RunsBounded
      BY QueueAssumption DEF IInv, QueueInv, QueueTypes, Attempts
  <2>2. \A j \in Jobs : Due(j) \in Nat /\ runs[j] \in Nat /\ runs[j] <= Due(j) /\ faults \in Nat
      BY DueTypes DEF IInv, QueueInv
  <2>3. CASE backend = "amqp"
    <3>1. \A j \in Jobs : runs[j] <= 1 + faults
        BY <2>1, <2>2, <2>3 DEF RunsBounded
    <3>. QED
        BY <2>3, <3>1 DEF RunsMatchBackend
  <2>4. CASE backend # "amqp"
      BY <2>1, <2>4 DEF RunsBounded, RunsMatchBackend
  <2>. QED
      BY <2>3, <2>4
<1>. QED
    BY <1>1, Invariance, PTL

\* A session that the gateway lists has a job that is going to delete it, or was orphaned;
\* a success has deleted its session.
THEOREM NoSessionIsForgotten == Spec => []LeftoversExplained
<1>1. IInv => LeftoversExplained
    BY DEF IInv, SessionInv
<1>. QED
    BY <1>1, Invariance, PTL


-----------------------------------------------------------------------------
(* The life of a job: each step is one of JobLifecycle, or none. *)

\* A job is settled after an attempt only, and skipped only if it has a key.
Tried ==
    \A c \in Consumers :
        /\ pc[c] \in {"executing", "succeeded", "failed"} => runs[cur[c].job] > 0
        /\ pc[c] = "skipping" => KeyOf(c) # NoKey

\* A consumer that works on after a step works on the same entry, and whoever has
\* tried it before has tried it still.
LEMMA TriedStill ==
    ASSUME QueueInv, Tried, NEW c \in Consumers,
           \A d \in Consumers \ {c} : pc'[d] = pc[d] /\ cur'[d] = cur[d],
           \A j \in Jobs : runs[j] > 0 => runs'[j] > 0,
           pc'[c] \in {"executing", "succeeded", "failed"} =>
               cur'[c] = cur[c] /\ cur[c].job \in Jobs /\ runs'[cur[c].job] > 0,
           pc'[c] = "skipping" => cur'[c] = cur[c] /\ KeyOf(c) # NoKey
    PROVE  Tried'
<1> SUFFICES ASSUME NEW d \in Consumers
             PROVE  /\ pc'[d] \in {"executing", "succeeded", "failed"} =>
                           runs'[cur'[d].job] > 0
                    /\ pc'[d] = "skipping" => Key[cur'[d].job] # NoKey
    BY DEF Tried, KeyOf
<1>1. CASE d = c
    BY <1>1 DEF KeyOf
<1>2. CASE d # c
  <2>1. pc'[d] = pc[d] /\ cur'[d] = cur[d]
      BY <1>2
  <2>2. CASE pc[d] \in Working
    <3>1. cur[d].job \in Jobs
        BY <2>2, InWork
    <3>. QED
        BY <2>1, <3>1 DEF Tried, KeyOf
  <2>3. CASE pc[d] \notin Working
      BY <2>1, <2>3 DEF Working
  <2>. QED
      BY <2>2, <2>3
<1>. QED
    BY <1>1, <1>2

\* Every step keeps it so.
LEMMA TriedNext ==
    ASSUME IInv, Tried, [Next]_vars
    PROVE  Tried'
<1>1. QueueTypes /\ QueueInv
    BY DEF IInv, QueueInv
<1>2. ASSUME NEW c \in Consumers, Dispatch(c) PROVE Tried'
  <2>1. cur[c].job \in Jobs
      BY <1>1, <1>2, InWork DEF Dispatch, Working
  <2>2. \A d \in Consumers \ {c} : pc'[d] = pc[d] /\ cur'[d] = cur[d]
      BY <1>1, <1>2 DEF Dispatch, QueueTypes
  <2>3. \A j \in Jobs : runs[j] > 0 => runs'[j] > 0
    <3>1. CASE runs' = runs
        BY <3>1
    <3>2. CASE runs' = [runs EXCEPT ![cur[c].job] = @ + 1]
      <4>1. runs \in [Jobs -> Nat]
          BY <1>1 DEF QueueTypes
      <4>. QED
          BY <2>1, <3>2, <4>1
    <3>. QED
        BY <1>2, <3>1, <3>2 DEF Dispatch
  <2>4. pc'[c] \in {"executing", "succeeded", "failed"} =>
            cur'[c] = cur[c] /\ cur[c].job \in Jobs /\ runs'[cur[c].job] > 0
      BY <1>1, <1>2, <2>1 DEF Dispatch, QueueTypes
  <2>5. pc'[c] = "skipping" => cur'[c] = cur[c] /\ KeyOf(c) # NoKey
    <3>1. pc'[c] = "skipping" => Known(c)
        BY <1>1, <1>2 DEF Dispatch, QueueTypes
    <3>. QED
        BY <1>2, <3>1 DEF Dispatch, Known
  <2>. QED
      BY <1>1, <2>2, <2>3, <2>4, <2>5, TriedStill
<1>3. ASSUME NEW c \in Consumers, NEW ok \in BOOLEAN, JobReturns(c, ok) PROVE Tried'
  <2>1. cur[c].job \in Jobs /\ runs[cur[c].job] > 0
      BY <1>1, <1>3, InWork DEF JobReturns, Working, Tried
  <2>2. \A d \in Consumers \ {c} : pc'[d] = pc[d] /\ cur'[d] = cur[d]
      BY <1>1, <1>3 DEF JobReturns, QueueTypes
  <2>3. pc'[c] # "skipping" /\ cur' = cur /\ runs' = runs
      BY <1>1, <1>3 DEF JobReturns, QueueTypes
  <2>. QED
      BY <1>1, <2>1, <2>2, <2>3, TriedStill
<1>4. ASSUME NEW c \in Consumers,
             \/ Receive(c) \/ Ack(c) \/ AckSkipped(c) \/ Reject(c) \/ Requeue(c)
             \/ EmptyPoll(c) \/ CallFails(c) \/ Restart(c) \/ Exit(c)
             \/ SettleStale(c) \/ ConnectionLost(c)
             \/ (\E k \in completed[c] : KeyExpires(c, k))
      PROVE Tried'
  <2>1. runs' = runs
      BY <1>4 DEF Receive, Ack, AckSkipped, Reject, Requeue, EmptyPoll, CallFails, Restart,
          Exit, KeyExpires, SettleStale, ConnectionLost
  <2>2. \A d \in Consumers \ {c} : pc'[d] = pc[d] /\ cur'[d] = cur[d]
      BY <1>1, <1>4 DEF QueueTypes, Receive, Ack, AckSkipped, Reject, Requeue, EmptyPoll,
          CallFails, Restart, Exit, KeyExpires, SettleStale, ConnectionLost, Continue, RequeueInMemory,
          RequeueOnAmqp
  <2>3. \/ pc'[c] \notin {"executing", "succeeded", "failed", "skipping"}
        \/ pc'[c] = pc[c] /\ cur'[c] = cur[c]
      BY <1>1, <1>4 DEF QueueTypes, Receive, Ack, AckSkipped, Reject, Requeue, EmptyPoll,
          CallFails, Restart, Exit, KeyExpires, SettleStale, ConnectionLost, Continue, RequeueInMemory,
          RequeueOnAmqp
  <2>4. pc[c] \in {"executing", "succeeded", "failed"} =>
            cur[c].job \in Jobs /\ runs[cur[c].job] > 0
      BY <1>1, InWork DEF Working, Tried
  <2>5. pc[c] = "skipping" => KeyOf(c) # NoKey
      BY DEF Tried
  <2>. QED
      BY <1>1, <2>1, <2>2, <2>3, <2>4, <2>5, TriedStill
<1>5. CASE UNCHANGED <<pc, cur, runs>>
    BY <1>5 DEF Tried, KeyOf
<1>6. CASE \E j \in Jobs : Publish(j)
    BY <1>5, <1>6 DEF Publish
<1>7. CASE UNCHANGED queueVars \/ UNCHANGED vars
    BY <1>5, <1>7 DEF queueVars, vars
<1>8. CASE \E c \in Consumers : Step(c) \/ Deadline(c)
  <2>1. PICK c \in Consumers : Step(c) \/ Deadline(c)
      BY <1>8
  <2>2. CASE QueueStep(c)
      BY <1>2, <1>4, <2>2 DEF QueueStep
  <2>3. CASE NativeJob(c)
      BY <1>3, <2>3 DEF NativeJob
  <2>4. CASE FinishJob(c)
    <3>1. (~orch[c].err) \in BOOLEAN
        OBVIOUS
    <3>. QED
        BY <1>3, <2>4, <3>1 DEF FinishJob
  <2>5. CASE StartJob(c) \/ GatewayRequest(c) \/ Deadline(c)
      BY <1>7, <2>5 DEF StartJob, GatewayRequest, Deadline
  <2>. QED
      BY <2>1, <2>2, <2>3, <2>4, <2>5 DEF Step
<1>9. CASE Outside
    BY <1>4, <1>6, <1>7, <1>9 DEF Outside, ProcessExit
<1>. QED
    BY <1>7, <1>8, <1>9 DEF Next

\* What a job lives through does not change.
LifeStill ==
    fate' = fate /\ Running' = Running /\ Loose' = Loose /\ runs' = runs /\ wins' = wins

\* Who executed goes on, and nobody begins.
LEMMA RunningKept ==
    ASSUME \A d \in Consumers :
               /\ Holding(d)' <=> Holding(d)
               /\ AtLarge(d)' <=> AtLarge(d)
               /\ Holding(d) \/ AtLarge(d) => cur'[d] = cur[d]
    PROVE  Running' = Running /\ Loose' = Loose
<1>1. Running' = Running
    BY DEF Running
<1>2. Loose' = Loose
    BY DEF Loose
<1>. QED
    BY <1>1, <1>2

\* A step of one consumer leaves what the others execute alone.
LEMMA OthersRun ==
    ASSUME NEW c \in Consumers, Others(c)
    PROVE  \A d \in Consumers \ {c} : /\ Holding(d)' <=> Holding(d)
                                      /\ AtLarge(d)' <=> AtLarge(d)
                                      /\ cur'[d] = cur[d]
    BY DEF Others, Holding, AtLarge, Stale

\* A consumer that holds a job is the only one that may be executing it as its holder.
LEMMA ExecutedOnce ==
    ASSUME QueueInv, NEW c \in Consumers, pc[c] \in Working, ~Stale(c)
    PROVE  /\ cur[c].job \in Jobs /\ fate[cur[c].job] = "open"
           /\ \A d \in Consumers \ {c} : Holding(d) => cur[d].job # cur[c].job
           /\ pc[c] # "executing" => cur[c].job \notin Running
<1>1. /\ cur[c].job \in Jobs /\ fate[cur[c].job] = "open"
      /\ \A d \in Consumers \ {c} : \A e \in held[d] : e.job # cur[c].job
    BY InWork, InHand
<1>2. \A d \in Consumers \ {c} : Holding(d) => cur[d].job # cur[c].job
    BY <1>1 DEF Holding, Stale
<1>. QED
    BY <1>1, <1>2 DEF Running, Holding

\* A consumer that no longer holds its job is through with it, alone or not.
LEMMA LooseEnds ==
    ASSUME QueueInv, NEW c \in Consumers, AtLarge(c), ~AtLarge(c)', ~Holding(c)', Others(c),
           NEW ok \in BOOLEAN, wins' = [wins EXCEPT ![cur[c].job] = @ \/ ok],
           fate' = fate, runs' = runs
    PROVE  Life!Next
<1> DEFINE j == cur[c].job
<1>1. j \in Jobs /\ j \in Loose /\ ~Holding(c)
    BY InWork DEF AtLarge, Loose, Holding, Working
<1>2. Running' = Running
    BY <1>1, OthersRun DEF Running
<1>3. Loose' = IF \E d \in Consumers \ {c} : AtLarge(d) /\ cur[d].job = j
                 THEN Loose ELSE Loose \ {j}
    BY OthersRun DEF Loose
<1>4. Life!EndLoose(j, ok)
    BY <1>1, <1>2, <1>3 DEF Life!EndLoose
<1>. QED
    BY <1>1, <1>4 DEF Life!Next

\* An end without a success leaves the successes as they are.
LEMMA NoSuccess ==
    ASSUME QueueInv, NEW j \in Jobs, wins' = wins
    PROVE  wins' = [wins EXCEPT ![j] = @ \/ FALSE]
    BY DEF QueueInv, QueueTypes

\* The idempotency check lets an execution begin, or turns to the acknowledgement.
LEMMA DispatchLives ==
    ASSUME QueueInv, NEW c \in Consumers, Dispatch(c)
    PROVE  LifeStill \/ Life!Next
<1> DEFINE j == cur[c].job
<1>1. /\ pc[c] = "received" /\ UNCHANGED <<cur, held, fate, wins>>
      /\ Others(c) /\ j \in Jobs /\ ~Holding(c)
      /\ Stale(c)' <=> Stale(c)
    BY Alone, InWork DEF Dispatch, QueueInv, Working, Stale, Holding
<1>2. CASE pc'[c] # "executing"
  <2>1. runs' = runs /\ ~AtLarge(c)' /\ ~Holding(c)'
      BY <1>2 DEF Dispatch, QueueInv, QueueTypes, AtLarge, Holding
  <2>2. CASE Stale(c)
      BY <1>1, <2>1, <2>2, NoSuccess, LooseEnds DEF AtLarge
  <2>3. CASE ~Stale(c)
      BY <1>1, <2>1, <2>3, OthersRun, RunningKept DEF LifeStill, AtLarge
  <2>. QED
      BY <2>2, <2>3
<1>3. CASE pc'[c] = "executing"
  <2>1. runs' = [runs EXCEPT ![j] = @ + 1]
      BY <1>3 DEF Dispatch, QueueInv, QueueTypes
  <2>2. CASE Stale(c)
    <3>1. AtLarge(c) /\ AtLarge(c)' /\ ~Holding(c)'
        BY <1>1, <1>3, <2>2 DEF AtLarge, Holding
    <3>2. Running' = Running /\ Loose' = Loose
        BY <1>1, <3>1, OthersRun, RunningKept
    <3>3. j \in Loose
        BY <3>1 DEF Loose
    <3>4. Life!BeginLoose(j)
        BY <1>1, <2>1, <3>2, <3>3 DEF Life!BeginLoose
    <3>. QED
        BY <1>1, <3>4 DEF Life!Next
  <2>3. CASE ~Stale(c)
    <3>1. fate[j] = "open" /\ j \notin Running
        BY <1>1, <2>3, ExecutedOnce DEF Working
    <3>2. Holding(c)' /\ ~AtLarge(c) /\ ~AtLarge(c)'
        BY <1>1, <1>3, <2>3 DEF Holding, AtLarge
    <3>3. Running' = Running \cup {j}
        BY <1>1, <3>2, OthersRun DEF Running
    <3>4. Loose' = Loose
        BY <1>1, <3>2, OthersRun DEF Loose
    <3>5. Life!Begin(j)
        BY <1>1, <2>1, <3>1, <3>3, <3>4 DEF Life!Begin
    <3>. QED
        BY <1>1, <3>5 DEF Life!Next
  <2>. QED
      BY <2>2, <2>3
<1>. QED
    BY <1>2, <1>3

\* An execution ends: the executor returned or raised, or its process died.
LEMMA EndLives ==
    ASSUME QueueInv, NEW c \in Consumers, NEW ok \in BOOLEAN, pc[c] = "executing", Others(c),
           ~Holding(c)', ~AtLarge(c)',
           wins' = [wins EXCEPT ![cur[c].job] = @ \/ ok], fate' = fate, runs' = runs
    PROVE  Life!Next
<1> DEFINE j == cur[c].job
<1>1. CASE Stale(c)
    BY <1>1, LooseEnds DEF AtLarge
<1>2. CASE ~Stale(c)
  <2>1. /\ j \in Jobs /\ Holding(c) /\ ~AtLarge(c)
        /\ \A d \in Consumers \ {c} : Holding(d) => cur[d].job # j
      BY <1>2, ExecutedOnce DEF Working, Holding, AtLarge
  <2>2. Running' = Running \ {j} /\ j \in Running
      BY <2>1, OthersRun DEF Running
  <2>3. Loose' = Loose
      BY <2>1, OthersRun DEF Loose
  <2>4. Life!End(j, ok)
      BY <2>2, <2>3 DEF Life!End
  <2>. QED
      BY <2>1, <2>4 DEF Life!Next
<1>. QED
    BY <1>1, <1>2

\* A job is settled.
LEMMA SettleLives ==
    ASSUME QueueInv, Tried, NEW c \in Consumers, pc[c] \in {"succeeded", "skipping", "failed"},
           NEW what, Settle(c, what), Running' = Running, Loose' = Loose, runs' = runs, wins' = wins,
           what = IF pc[c] = "succeeded" THEN "done"
                  ELSE IF pc[c] = "skipping" THEN "skipped" ELSE what,
           pc[c] = "failed" => what \in {"dropped", "lost"}
    PROVE  Life!Next
<1> DEFINE j == cur[c].job
<1>1. j \in Jobs /\ fate[j] = "open" /\ j \notin Running
    BY ExecutedOnce DEF Working, Settle
<1>2. what \in {"done", "skipped", "dropped", "lost"}
    OBVIOUS
<1>3. Life!Deserved(j, what)
  <2>1. CASE pc[c] = "succeeded"
      BY <2>1 DEF QueueInv, AcksDeserved, Deserves, Life!Deserved
  <2>2. CASE pc[c] = "skipping"
      BY <2>2 DEF QueueInv, AcksDeserved, Deserves, KeyWon, KeyOf, Tried, Life!Deserved,
          Life!Duplicate
  <2>3. CASE pc[c] = "failed"
      BY <2>3 DEF Tried, Life!Deserved
  <2>. QED
      BY <2>1, <2>2, <2>3
<1>4. Life!Settle(j, what)
    BY <1>1, <1>3 DEF Settle, Life!Settle
<1>. QED
    BY <1>1, <1>2, <1>4 DEF Life!Next

\* Nobody begins or ends an execution when a consumer that is not executing turns to
\* something else that is not executing.
LEMMA NobodyRuns ==
    ASSUME NEW c \in Consumers, Others(c),
           ~Holding(c), ~AtLarge(c), ~Holding(c)', ~AtLarge(c)'
    PROVE  Running' = Running /\ Loose' = Loose
    BY OthersRun, RunningKept

\* The acknowledgements, the rejection and the requeue.
LEMMA SettlingLives ==
    ASSUME QueueInv, Tried, NEW c \in Consumers,
           Ack(c) \/ AckSkipped(c) \/ Reject(c) \/ Requeue(c)
    PROVE  LifeStill \/ Life!Next
<1>1. /\ pc[c] \notin {"received", "executing"} /\ pc'[c] \notin {"received", "executing"}
      /\ runs' = runs /\ wins' = wins /\ Others(c)
    BY Alone DEF QueueInv, QueueTypes, Ack, AckSkipped, Reject, Requeue, Continue,
        RequeueInMemory, RequeueOnAmqp
<1>2. Running' = Running /\ Loose' = Loose
    BY <1>1, NobodyRuns DEF Holding, AtLarge
<1>3. CASE Ack(c)
    BY <1>1, <1>2, <1>3, SettleLives DEF Ack
<1>4. CASE AckSkipped(c)
    BY <1>1, <1>2, <1>4, SettleLives DEF AckSkipped
<1>5. CASE Reject(c)
    BY <1>1, <1>2, <1>5, SettleLives DEF Reject
<1>6. CASE Requeue(c) /\ RequeueOnAmqp(c)
    BY <1>1, <1>2, <1>6, SettleLives DEF Requeue, RequeueOnAmqp
<1>7. CASE Requeue(c) /\ ~RequeueOnAmqp(c)
  <2>1. fate' = fate
      BY <1>7 DEF Requeue, RequeueInMemory
  <2>. QED
      BY <1>1, <1>2, <2>1 DEF LifeStill
<1>. QED
    BY <1>3, <1>4, <1>5, <1>6, <1>7

\* A broker call that raises may have been carried out.
LEMMA CallFailsLives ==
    ASSUME QueueInv, Tried, NEW c \in Consumers, CallFails(c)
    PROVE  LifeStill \/ Life!Next
<1>1. /\ ~Holding(c) /\ ~AtLarge(c) /\ ~Holding(c)' /\ ~AtLarge(c)'
      /\ runs' = runs /\ wins' = wins /\ Others(c)
  <2>1. pc'[c] = "ended" /\ runs' = runs /\ wins' = wins /\ Others(c) /\ BrokerCall(c)
      BY Alone DEF QueueInv, QueueTypes, CallFails
  <2>2. pc[c] # "executing" /\ (pc[c] = "received" => ~Stale(c))
      BY <2>1, InWork DEF BrokerCall, Working
  <2>. QED
      BY <2>1, <2>2 DEF Holding, AtLarge
<1>2. Running' = Running /\ Loose' = Loose
    BY <1>1, NobodyRuns
<1>3. CASE fate' = fate
    BY <1>1, <1>2, <1>3 DEF LifeStill
<1>4. CASE pc[c] = "succeeded" /\ Settle(c, "done")
    BY <1>1, <1>2, <1>4, SettleLives
<1>5. CASE pc[c] = "skipping" /\ Settle(c, "skipped")
    BY <1>1, <1>2, <1>5, SettleLives
<1>6. CASE pc[c] = "failed" /\ \E what \in {"dropped", "lost"} : Settle(c, what)
    BY <1>1, <1>2, <1>6, SettleLives
<1>. QED
    BY <1>3, <1>4, <1>5, <1>6 DEF CallFails

\* The death of a process ends the execution it was in, without success.
LEMMA ExitLives ==
    ASSUME QueueInv, NEW c \in Consumers, Exit(c)
    PROVE  LifeStill \/ Life!Next
<1>1. /\ ~Holding(c)' /\ ~AtLarge(c)' /\ fate' = fate /\ runs' = runs /\ wins' = wins
      /\ Others(c)
    BY Alone DEF Exit, QueueInv, QueueTypes, Holding, AtLarge
<1>2. CASE pc[c] = "executing"
    BY <1>1, <1>2, InWork, NoSuccess, EndLives DEF Working
<1>3. CASE pc[c] # "executing" /\ AtLarge(c)
    BY <1>1, <1>3, InWork, NoSuccess, LooseEnds DEF Working, AtLarge
<1>4. CASE pc[c] # "executing" /\ ~AtLarge(c)
    BY <1>1, <1>4, NobodyRuns DEF LifeStill, Holding
<1>. QED
    BY <1>2, <1>3, <1>4

\* A lost connection withdraws the job from a consumer that is at work on it.
LEMMA ConnectionLostLives ==
    ASSUME QueueInv, NEW c \in Consumers, ConnectionLost(c)
    PROVE  LifeStill \/ Life!Next
<1> DEFINE j == cur[c].job
<1>1. /\ Others(c) /\ held'[c] = {} /\ held[c] # {}
      /\ UNCHANGED <<pc, cur, fate, runs, wins>>
    BY Alone DEF ConnectionLost, GiveBack, QueueInv, QueueTypes
<1>2. ~Holding(c)' /\ (AtLarge(c)' <=> pc[c] \in {"received", "executing"})
    BY <1>1 DEF Holding, AtLarge, Stale
<1>3. CASE pc[c] \in {"received", "executing"}
  <2>1. ~Stale(c) /\ ~AtLarge(c)
      BY <1>1, <1>3, InWork DEF Working, AtLarge
  <2>2. /\ j \in Jobs /\ fate[j] = "open"
        /\ \A d \in Consumers \ {c} : Holding(d) => cur[d].job # j
      BY <1>3, <2>1, ExecutedOnce DEF Working
  <2>3. Running' = Running \ {j}
    <3>1. ASSUME NEW i \in Running' PROVE i \in Running \ {j}
      <4>1. PICK d \in Consumers : Holding(d)' /\ cur'[d].job = i
          BY <3>1 DEF Running
      <4>2. d # c /\ Holding(d) /\ cur[d].job = i
          BY <1>1, <1>2, <4>1, OthersRun
      <4>. QED
          BY <2>2, <4>2 DEF Running
    <3>2. ASSUME NEW i \in Running \ {j} PROVE i \in Running'
      <4>1. PICK d \in Consumers : Holding(d) /\ cur[d].job = i
          BY <3>2 DEF Running
      <4>2. d # c
          BY <3>2, <4>1
      <4>3. Holding(d)' /\ cur'[d].job = i
          BY <1>1, <4>1, <4>2, OthersRun
      <4>. QED
          BY <4>3 DEF Running
    <3>. QED
        BY <3>1, <3>2
  <2>4. Loose' = Loose \cup {j}
      BY <1>1, <1>2, <1>3, <2>1, OthersRun DEF Loose
  <2>5. Life!Withdraw(j)
      BY <1>1, <2>2, <2>3, <2>4 DEF Life!Withdraw
  <2>. QED
      BY <2>2, <2>5 DEF Life!Next
<1>4. CASE pc[c] \notin {"received", "executing"}
  <2>1. ~Holding(c) /\ ~AtLarge(c) /\ ~AtLarge(c)'
      BY <1>2, <1>4 DEF Holding, AtLarge
  <2>. QED
      BY <1>1, <1>2, <2>1, NobodyRuns DEF LifeStill
<1>. QED
    BY <1>3, <1>4

\* The steps that are about no job's life.
LEMMA StillLives ==
    ASSUME QueueInv, NEW c \in Consumers,
           \/ Receive(c) \/ EmptyPoll(c) \/ Restart(c) \/ SettleStale(c)
           \/ \E k \in completed[c] : KeyExpires(c, k)
    PROVE  LifeStill
<1>1. fate' = fate /\ runs' = runs /\ wins' = wins
    BY DEF Receive, EmptyPoll, Restart, KeyExpires, SettleStale
<1>2. CASE \E k \in completed[c] : KeyExpires(c, k)
  <2>1. UNCHANGED <<pc, cur, held>>
      BY <1>2 DEF KeyExpires
  <2>2. Running' = Running /\ Loose' = Loose
      BY <2>1, RunningKept DEF Holding, AtLarge, Stale
  <2>. QED
      BY <1>1, <2>2 DEF LifeStill
<1>3. CASE \/ Receive(c) \/ EmptyPoll(c) \/ Restart(c) \/ SettleStale(c)
  <2>1. /\ Others(c) /\ pc[c] \notin {"received", "executing"} /\ pc'[c] # "executing"
      BY <1>3, Alone DEF QueueInv, QueueTypes, Receive, EmptyPoll, Restart, SettleStale
  <2>2. pc'[c] = "received" => ~Stale(c)'
    <3>1. CASE Receive(c)
        BY <3>1 DEF Receive, Deliver, QueueInv, QueueTypes, Stale
    <3>2. CASE ~Receive(c)
        BY <1>3, <3>2 DEF EmptyPoll, Restart, SettleStale, QueueInv, QueueTypes
    <3>. QED
        BY <3>1, <3>2
  <2>3. Running' = Running /\ Loose' = Loose
      BY <2>1, <2>2, NobodyRuns DEF Holding, AtLarge
  <2>. QED
      BY <1>1, <2>3 DEF LifeStill
<1>. QED
    BY <1>2, <1>3

\* A message is published.
LEMMA PublishLives ==
    ASSUME NEW j \in Jobs, Publish(j)
    PROVE  Life!Next
<1>1. Running' = Running /\ Loose' = Loose
    BY RunningKept DEF Publish, Holding, AtLarge, Stale
<1>2. Life!Send(j)
    BY <1>1 DEF Publish, Life!Send
<1>. QED
    BY <1>2 DEF Life!Next

\* The worker implements the life of its jobs, on every backend: each step of a consumer,
\* the broker or the gateway is one step of one job's life, or none.
THEOREM JobsLiveOnce == Spec => ImplementsLifecycle
<1>1. Init => Life!Init /\ Tried
  <2> SUFFICES ASSUME Init PROVE Life!Init /\ Tried
      OBVIOUS
  <2>1. Running = {} /\ Loose = {}
      BY DEF Init, QueueInit, Running, Loose, Holding, AtLarge
  <2>. QED
      BY <2>1 DEF Init, QueueInit, Life!Init, Tried
<1>2. IInv /\ Tried /\ [Next]_vars => Tried'
    BY TriedNext
<1>3. IInv /\ Tried /\ [Next]_vars => [Life!Next]_(Life!vars)
  <2> SUFFICES ASSUME QueueInv, Tried, [Next]_vars PROVE LifeStill \/ Life!Next
      BY DEF IInv, LifeStill, Life!vars
  <2>1. CASE UNCHANGED queueVars \/ UNCHANGED vars
    <3>1. UNCHANGED <<pc, cur, held, fate, runs, wins>>
        BY <2>1 DEF queueVars, vars
    <3>2. Running' = Running /\ Loose' = Loose
        BY <3>1, RunningKept DEF Holding, AtLarge, Stale
    <3>. QED
        BY <3>1, <3>2 DEF LifeStill
  <2>2. ASSUME NEW c \in Consumers, NEW ok \in BOOLEAN, JobReturns(c, ok) PROVE Life!Next
    <3>1. /\ pc[c] = "executing" /\ fate' = fate /\ runs' = runs /\ Others(c)
          /\ wins' = [wins EXCEPT ![cur[c].job] = @ \/ ok]
        BY <2>2, Alone DEF JobReturns, QueueInv
    <3>2. ~Holding(c)' /\ ~AtLarge(c)'
        BY <2>2 DEF JobReturns, QueueInv, QueueTypes, Holding, AtLarge
    <3>. QED
        BY <3>1, <3>2, EndLives
  <2>3. CASE \E c \in Consumers : Step(c) \/ Deadline(c)
    <3>1. PICK c \in Consumers : Step(c) \/ Deadline(c)
        BY <2>3
    <3>2. CASE QueueStep(c)
        BY <3>2, StillLives, DispatchLives, SettlingLives DEF QueueStep
    <3>3. CASE NativeJob(c)
        BY <2>2, <3>3 DEF NativeJob
    <3>4. CASE FinishJob(c)
      <4>1. (~orch[c].err) \in BOOLEAN
          OBVIOUS
      <4>. QED
          BY <2>2, <3>4, <4>1 DEF FinishJob
    <3>5. CASE StartJob(c) \/ GatewayRequest(c) \/ Deadline(c)
        BY <2>1, <3>5 DEF StartJob, GatewayRequest, Deadline
    <3>. QED
        BY <3>1, <3>2, <3>3, <3>4, <3>5 DEF Step
  <2>4. CASE Outside
      BY <2>1, <2>4, PublishLives, StillLives, CallFailsLives, ExitLives,
          ConnectionLostLives DEF Outside, ProcessExit
  <2>. QED
      BY <2>1, <2>3, <2>4 DEF Next
<1>. QED
    BY <1>1, <1>2, <1>3, Invariance, PTL DEF Spec, ImplementsLifecycle, Life!Spec

\* What the life of a job keeps true by itself.
LifeInv ==
    /\ fate \in [Jobs -> {"unsent", "open", "done", "skipped", "dropped", "lost"}]
    /\ runs \in [Jobs -> Nat] /\ wins \in [Jobs -> BOOLEAN]
    /\ \A j \in Running : fate[j] = "open"
    /\ AckedWorkWasDone

\* A settled job is over: what is still executed of it was withdrawn before the verdict.
SettledIsFinal ==
    \A j \in Jobs :
        fate[j] \in {"done", "skipped", "dropped", "lost"} =>
            /\ fate'[j] = fate[j]
            /\ j \notin Running'
            /\ j \in Loose' => j \in Loose
            /\ runs'[j] # runs[j] => j \in Loose

\* The life of the jobs says enough: in every system that implements it what was
\* acknowledged was done, no settled job is settled again or withdrawn, and only those
\* from whom it was withdrawn before may still execute it.
THEOREM LifecycleIsFinal ==
    ImplementsLifecycle => []AckedWorkWasDone /\ [][SettledIsFinal]_(Life!vars)
<1>1. Life!Init => LifeInv
    BY DEF Life!Init, LifeInv, AckedWorkWasDone
<1>2. LifeInv /\ [Life!Next]_(Life!vars) => LifeInv' /\ [SettledIsFinal]_(Life!vars)
  <2> SUFFICES ASSUME LifeInv, Life!Next \/ UNCHANGED Life!vars
               PROVE  LifeInv' /\ (SettledIsFinal \/ UNCHANGED Life!vars)
      OBVIOUS
  <2> USE DEF LifeInv, AckedWorkWasDone, SettledIsFinal
  <2>1. ASSUME NEW j \in Jobs, Life!Send(j) PROVE LifeInv' /\ SettledIsFinal
      BY <2>1 DEF Life!Send
  <2>2. ASSUME NEW j \in Jobs, Life!Begin(j) PROVE LifeInv' /\ SettledIsFinal
      BY <2>2 DEF Life!Begin
  <2>3. ASSUME NEW j \in Jobs, NEW ok \in BOOLEAN, Life!End(j, ok)
        PROVE  LifeInv' /\ SettledIsFinal
    <3>1. j \in Jobs /\ wins' \in [Jobs -> BOOLEAN] /\ \A i \in Jobs : wins[i] => wins'[i]
        BY <2>3 DEF Life!End
    <3>2. /\ fate' = fate /\ runs' = runs /\ Running' \subseteq Running /\ Loose' = Loose
        BY <2>3 DEF Life!End
    <3>3. LifeInv'
        BY <3>1, <3>2
    <3>4. SettledIsFinal
        BY <3>2
    <3>. QED
        BY <3>3, <3>4
  <2>6. ASSUME NEW j \in Jobs, Life!Withdraw(j) PROVE LifeInv' /\ SettledIsFinal
      BY <2>6 DEF Life!Withdraw
  <2>7. ASSUME NEW j \in Jobs, Life!BeginLoose(j) PROVE LifeInv' /\ SettledIsFinal
      BY <2>7 DEF Life!BeginLoose
  <2>8. ASSUME NEW j \in Jobs, NEW ok \in BOOLEAN, Life!EndLoose(j, ok)
        PROVE  LifeInv' /\ SettledIsFinal
    <3>1. j \in Jobs /\ wins' \in [Jobs -> BOOLEAN] /\ \A i \in Jobs : wins[i] => wins'[i]
        BY <2>8 DEF Life!EndLoose
    <3>2. UNCHANGED <<fate, Running, runs>> /\ Loose' \subseteq Loose
        BY <2>8 DEF Life!EndLoose
    <3>3. LifeInv'
        BY <3>1, <3>2
    <3>4. SettledIsFinal
        BY <3>2
    <3>. QED
        BY <3>3, <3>4
  <2>4. ASSUME NEW j \in Jobs, NEW what \in {"done", "skipped", "dropped", "lost"},
               Life!Settle(j, what)
        PROVE  LifeInv' /\ SettledIsFinal
      BY <2>4 DEF Life!Settle, Life!Deserved, Life!Duplicate
  <2>5. CASE UNCHANGED Life!vars
      BY <2>5 DEF Life!vars
  <2>. QED
      BY <2>1, <2>2, <2>3, <2>4, <2>5, <2>6, <2>7, <2>8 DEF Life!Next
<1>3. LifeInv => AckedWorkWasDone
    BY DEF LifeInv
<1>. QED
    BY <1>1, <1>2, <1>3, PTL DEF ImplementsLifecycle, Life!Spec
=============================================================================
