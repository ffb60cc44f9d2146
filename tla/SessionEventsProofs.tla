-------------------------- MODULE SessionEventsProofs --------------------------
(***************************************************************************)
(* Proofs about the event streams: what a subscriber has still to read is   *)
(* the end of the log, a tab has one source or one timer, and an entry of   *)
(* the cache that no waiting event will correct is right or has its excuse. *)
(***************************************************************************)
EXTENDS SessionEvents, FiniteSetTheorems, SequenceTheorems, TLAPS

Event == [s : Sessions, v : Nat]
Reasons == {"missed", "overwritten", "foreign", "unpublished", "purged"}

Source == [client : {"none", "opening", "open"}, served : BOOLEAN, queue : Seq(Event)]
StreamTypes == stream \in [Streams -> Source]

\* What the gateway has: versions are numbers, and the log a sequence of events.
ServerTypes ==
    /\ registry \in [Sessions -> Nat] /\ ver \in [Sessions -> Nat] /\ log \in Seq(Event)

\* What the hook has.
HookTypes ==
    /\ ref \in Streams \cup {NoStream} /\ timer \in BOOLEAN /\ enabled \in BOOLEAN
    /\ retries \in 0 .. MaxRetries + 1

\* What the tab has: its cache, a list and an answer that may be under way.
TabTypes ==
    /\ cache \in [Sessions -> Nat] /\ reply \in Event \cup {NoReply}
    /\ fetch \in [at : {"none", "asked", "answered"}, list : [Sessions -> Nat]]
    /\ excuse \in [Sessions -> SUBSET Reasons]

\* q is, entry by entry, the end of l.
Ends(q, l) ==
    /\ Len(q) <= Len(l)
    /\ \A i \in 1 .. Len(q) : q[i] = l[Len(l) - Len(q) + i]

\* Every queue is the end of the log, and only a served stream has one.
Tails ==
    \A x \in Streams : /\ Ends(stream[x].queue, log)
                       /\ ~stream[x].served => stream[x].queue = <<>>

\* The source that can still deliver is the one the hook holds, and then no timer runs.
Single ==
    /\ \A x \in Streams : Connected(x) => x = ref /\ enabled /\ ~timer
    /\ timer => enabled

\* The reasons an entry keeps: a change without an event, or an event without a change.
Lasting(s) == excuse[s] \cap {"foreign", "unpublished", "purged"} # {}

\* Otherwise the last event about a session tells the version it has.
LastWord ==
    \A s \in Sessions : \A i \in 1 .. Len(log) :
        (log[i].s = s /\ \A j \in i + 1 .. Len(log) : log[j].s # s)
            => log[i].v = ver[s] \/ Lasting(s)

\* An event about s is still to be read.
Waiting(s) == Following /\ \E i \in 1 .. Len(stream[ref].queue) : stream[ref].queue[i].s = s

Explained == \A s \in Sessions : InSync(s) \/ excuse[s] # {} \/ Waiting(s)

IInv ==
    /\ ServerTypes /\ StreamTypes /\ HookTypes /\ TabTypes
    /\ Tails /\ Single /\ LastWord /\ Explained

-----------------------------------------------------------------------------
\* A sequence that agrees with the end of another is that end.
LEMMA EndOf ==
    ASSUME NEW S, NEW q \in Seq(S), NEW l \in Seq(S), Ends(q, l)
    PROVE  q = SubSeq(l, Len(l) - Len(q) + 1, Len(l))
<1> DEFINE m == Len(l) - Len(q) + 1
           r == SubSeq(l, m, Len(l))
<1>1. Len(l) \in Nat /\ Len(q) \in Nat /\ m \in 1 .. Len(l) + 1
    BY DEF Ends
<1>2. r \in Seq(S) /\ Len(r) = Len(q)
    BY <1>1
<1>3. \A i \in 1 .. Len(q) : r[i] = l[m + i - 1]
    BY <1>1, <1>2
<1>4. \A i \in 1 .. Len(q) : q[i] = r[i]
    BY <1>1, <1>3 DEF Ends
<1> QED
    BY <1>2, <1>4

\* A served stream's queue follows the log when both get the same event at the end.
LEMMA BothGrow ==
    ASSUME NEW S, NEW q \in Seq(S), NEW l \in Seq(S), NEW e \in S, Ends(q, l)
    PROVE  Ends(Append(q, e), Append(l, e))
<1> DEFINE p == Append(q, e)
           m == Append(l, e)
<1>1. /\ Len(p) = Len(q) + 1 /\ p[Len(q) + 1] = e
      /\ \A i \in 1 .. Len(q) : p[i] = q[i]
    OBVIOUS
<1>2. /\ Len(m) = Len(l) + 1 /\ m[Len(l) + 1] = e
      /\ \A i \in 1 .. Len(l) : m[i] = l[i]
    OBVIOUS
<1>3. Len(q) \in Nat /\ Len(l) \in Nat /\ Len(q) <= Len(l)
    BY DEF Ends
<1> HIDE DEF p, m
<1>4. ASSUME NEW i \in 1 .. Len(p) PROVE p[i] = m[Len(m) - Len(p) + i]
    <2>1. Len(m) - Len(p) + i = Len(l) - Len(q) + i
        BY <1>1, <1>2, <1>3
    <2>2. CASE i = Len(q) + 1
        <3>1. Len(l) - Len(q) + i = Len(l) + 1
            BY <1>3, <2>2
        <3> QED
            BY <1>1, <1>2, <2>1, <2>2, <3>1
    <2>3. CASE i # Len(q) + 1
        <3>1. i \in 1 .. Len(q) /\ Len(l) - Len(q) + i \in 1 .. Len(l)
            BY <1>1, <1>3, <2>3
        <3>2. p[i] = q[i] /\ q[i] = l[Len(l) - Len(q) + i]
            BY <1>1, <3>1 DEF Ends
        <3> QED
            BY <1>2, <2>1, <3>1, <3>2
    <2> QED
        BY <2>2, <2>3
<1>5. Len(p) <= Len(m)
    BY <1>1, <1>2, <1>3
<1> QED
    BY <1>4, <1>5 DEF Ends, p, m

-----------------------------------------------------------------------------
(***************************************************************************)
(* Publishing.                                                              *)
(***************************************************************************)
\* The fields of a stream.
LEMMA StreamFields ==
    ASSUME StreamTypes, NEW x \in Streams
    PROVE  /\ stream[x].client \in {"none", "opening", "open"}
           /\ stream[x].served \in BOOLEAN
           /\ stream[x].queue \in Seq(Event) /\ Len(stream[x].queue) \in Nat
    BY DEF StreamTypes, Source

\* publish() puts the event at the end of every subscriber's queue.
LEMMA FannedOut ==
    ASSUME ServerTypes, StreamTypes, Tails, NEW e \in Event,
           log' = Append(log, e), stream' = FanOut(e)
    PROVE  /\ log' \in Seq(Event) /\ StreamTypes' /\ Tails'
           /\ \A x \in Streams :
                /\ stream'[x].client = stream[x].client
                /\ stream'[x].served = stream[x].served
                /\ ~stream[x].served => stream'[x].queue = stream[x].queue
                /\ stream[x].served => stream'[x].queue = Append(stream[x].queue, e)
<1>1. /\ log \in Seq(Event) /\ Len(log) \in Nat
      /\ log' \in Seq(Event) /\ Len(log') = Len(log) + 1
    BY DEF ServerTypes
<1>2. \A x \in Streams :
          stream'[x] = IF stream[x].served
                         THEN [stream[x] EXCEPT !.queue = Append(stream[x].queue, e)]
                         ELSE stream[x]
    BY DEF FanOut
<1>3. ASSUME NEW x \in Streams
      PROVE  /\ stream'[x].client = stream[x].client
             /\ stream'[x].served = stream[x].served
             /\ ~stream[x].served => stream'[x].queue = stream[x].queue
             /\ stream[x].served => stream'[x].queue = Append(stream[x].queue, e)
             /\ stream'[x] \in Source
    <2>1. Append(stream[x].queue, e) \in Seq(Event)
        BY StreamFields
    <2> QED
        BY <1>2, <2>1 DEF StreamTypes, Source
<1>4. StreamTypes'
    BY <1>3 DEF StreamTypes, FanOut
<1>5. ASSUME NEW x \in Streams
      PROVE  Ends(stream'[x].queue, log') /\ (~stream'[x].served => stream'[x].queue = <<>>)
    <2>1. CASE stream[x].served
        <3>1. Ends(stream[x].queue, log) /\ stream[x].queue \in Seq(Event)
            BY StreamFields DEF Tails
        <3>2. Ends(Append(stream[x].queue, e), Append(log, e))
            BY <1>1, <3>1, BothGrow
        <3> QED
            BY <1>3, <2>1, <3>2
    <2>2. CASE ~stream[x].served
        <3>1. stream[x].queue = <<>> /\ stream'[x].queue = <<>>
            BY <1>3, <2>2 DEF Tails
        <3> QED
            BY <1>1, <3>1 DEF Ends
    <2> QED
        BY <2>1, <2>2
<1>6. Tails'
    BY <1>5 DEF Tails
<1> QED
    BY <1>1, <1>3, <1>4, <1>6

\* A published event leaves queues, tabs and excuses as they should be: an entry it
\* puts out of date has the event waiting, or is excused from now on.
LEMMA PublishKeeps ==
    ASSUME IInv, NEW e \in Event, NEW why \in SUBSET Reasons, Publish(e, why),
           UNCHANGED <<hook, cache>>,
           registry' \in [Sessions -> Nat], ver' \in [Sessions -> Nat],
           \A s \in Sessions \ {e.s} : registry'[s] = registry[s] /\ ver'[s] = ver[s],
           ver'[e.s] = e.v \/ "foreign" \in why
    PROVE  /\ ServerTypes' /\ StreamTypes' /\ HookTypes'
           /\ excuse' \in [Sessions -> SUBSET Reasons]
           /\ Tails' /\ Single' /\ LastWord' /\ Explained'
<1> USE DEF IInv
<1>1. e.s \in Sessions /\ e.v \in Nat
    BY DEF Event
<1>2. /\ log' \in Seq(Event) /\ StreamTypes' /\ Tails'
      /\ \A x \in Streams :
                /\ stream'[x].client = stream[x].client
                /\ stream'[x].served = stream[x].served
                /\ ~stream[x].served => stream'[x].queue = stream[x].queue
                /\ stream[x].served => stream'[x].queue = Append(stream[x].queue, e)
    BY FannedOut DEF Publish
<1>3. /\ excuse' \in [Sessions -> SUBSET Reasons]
      /\ \A s \in Sessions : excuse[s] \subseteq excuse'[s]
      /\ why \subseteq excuse'[e.s]
      /\ ~Following => "missed" \in excuse'[e.s]
    <2>1. excuse' = [excuse EXCEPT ![e.s] = excuse[e.s] \cup why
                                              \cup (IF Following THEN {} ELSE {"missed"})]
        BY DEF Publish
    <2>2. excuse \in [Sessions -> SUBSET Reasons]
        BY DEF TabTypes
    <2> QED
        BY <1>1, <2>1, <2>2 DEF Reasons
<1>4. ServerTypes' /\ HookTypes'
    BY <1>2 DEF ServerTypes, HookTypes, hook
<1>5. Single'
    BY <1>2 DEF Single, Connected, hook
<1>6. Following' = Following
    BY <1>2 DEF Following, Connected, HookTypes, hook
<1>7. LastWord'
    <2>1. log \in Seq(Event) /\ log' = Append(log, e) /\ Len(log) \in Nat
        BY DEF ServerTypes, Publish
    <2>2. /\ Len(log') = Len(log) + 1 /\ log'[Len(log) + 1] = e
          /\ \A i \in 1 .. Len(log) : log'[i] = log[i]
        BY <2>1
    <2>3. \A s \in Sessions : Lasting(s) => Lasting(s)'
        BY <1>3 DEF Lasting
    <2>4. ASSUME NEW s \in Sessions, NEW i \in 1 .. Len(log'), log'[i].s = s,
                 \A j \in i + 1 .. Len(log') : log'[j].s # s
          PROVE  log'[i].v = ver'[s] \/ Lasting(s)'
        <3>1. CASE i = Len(log) + 1
            BY <1>3, <2>2, <2>4, <3>1 DEF Lasting
        <3>2. CASE i # Len(log) + 1
            <4>1. i \in 1 .. Len(log) /\ s # e.s
                BY <2>1, <2>2, <2>4, <3>2
            <4>2. log[i].s = s /\ \A j \in i + 1 .. Len(log) : log[j].s # s
                BY <2>1, <2>2, <2>4, <4>1
            <4>3. log[i].v = ver[s] \/ Lasting(s)
                BY <4>1, <4>2 DEF LastWord
            <4> QED
                BY <2>2, <2>3, <4>1, <4>3
        <3> QED
            BY <3>1, <3>2
    <2> QED
        BY <2>4 DEF LastWord
<1>8. Explained'
    <2>1. ASSUME Following
          PROVE  /\ ref' = ref /\ ref \in Streams /\ Len(stream[ref].queue) \in Nat
                 /\ Len(stream'[ref].queue) = Len(stream[ref].queue) + 1
                 /\ stream'[ref].queue[Len(stream[ref].queue) + 1] = e
                 /\ \A i \in 1 .. Len(stream[ref].queue) :
                        stream'[ref].queue[i] = stream[ref].queue[i]
        <3>1. ref' = ref /\ ref \in Streams /\ stream[ref].served
            BY <2>1 DEF Following, HookTypes, hook
        <3>2. stream[ref].queue \in Seq(Event) /\ Len(stream[ref].queue) \in Nat
            BY <3>1, StreamFields
        <3>3. stream'[ref].queue = Append(stream[ref].queue, e)
            BY <1>2, <3>1
        <3> QED
            BY <3>1, <3>2, <3>3
    <2>2. ASSUME NEW s \in Sessions, Waiting(s) PROVE Waiting(s)'
        <3>1. PICK i \in 1 .. Len(stream[ref].queue) : stream[ref].queue[i].s = s
            BY <2>2 DEF Waiting
        <3>2. Following
            BY <2>2 DEF Waiting
        <3>3. /\ Len(stream[ref].queue) \in Nat
              /\ Len(stream'[ref].queue) = Len(stream[ref].queue) + 1
              /\ stream'[ref].queue[i] = stream[ref].queue[i]
            BY <2>1, <3>2
        <3>4. i \in 1 .. Len(stream'[ref].queue) /\ stream'[ref].queue[i].s = s
            BY <3>1, <3>3
        <3> QED
            BY <1>6, <2>1, <3>2, <3>4 DEF Waiting
    <2>3. Following => Waiting(e.s)'
        BY <1>6, <2>1 DEF Waiting
    <2>4. ASSUME NEW s \in Sessions
          PROVE  InSync(s)' \/ excuse'[s] # {} \/ Waiting(s)'
        <3>1. CASE s = e.s
            BY <1>3, <2>3, <3>1
        <3>2. CASE s # e.s
            <4>1. InSync(s)' <=> InSync(s)
                BY <3>2 DEF InSync
            <4> QED
                BY <1>3, <2>2, <4>1 DEF Explained
        <3> QED
            BY <3>1, <3>2
    <2> QED
        BY <2>4 DEF Explained
<1> QED
    BY <1>2, <1>3, <1>4, <1>5, <1>7, <1>8

\* The versions that steps write are numbers.
LEMMA Numbers ==
    ASSUME ServerTypes, NEW s \in Sessions
    PROVE  /\ NextVersion(s) \in Event /\ [s |-> s, v |-> Foreign] \in Event
           /\ registry[s] \in Nat /\ ver[s] \in Nat
    BY EventsAssumption DEF ServerTypes, NextVersion, Event, Foreign

\* A handler's write and its event are one step.
LEMMA ChangeKeeps ==
    ASSUME IInv, NEW s \in Sessions, Change(s), UNCHANGED <<hook, cache, fetch>>,
           reply' \in Event \cup {NoReply}
    PROVE  IInv'
<1>1. /\ Publish(NextVersion(s), {}) /\ NextVersion(s) \in Event
      /\ NextVersion(s).s = s /\ NextVersion(s).v = ver[s] + 1
    BY Numbers DEF IInv, Change, NextVersion
<1>2. /\ registry' \in [Sessions -> Nat] /\ ver' \in [Sessions -> Nat] 
      /\ ver'[s] = ver[s] + 1
      /\ \A t \in Sessions \ {s} : registry'[t] = registry[t] /\ ver'[t] = ver[t]
    BY DEF IInv, Change, ServerTypes
<1> QED
    BY <1>1, <1>2, PublishKeeps DEF IInv, TabTypes

\* A deleted session's event tells version 0.
LEMMA EndKeeps ==
    ASSUME IInv, NEW s \in Sessions, End(s)
    PROVE  IInv'
<1>1. /\ Publish(NextVersion(s), {}) /\ NextVersion(s) \in Event
      /\ NextVersion(s).s = s /\ NextVersion(s).v = ver[s] + 1
    BY Numbers DEF IInv, End, NextVersion
<1>2. /\ registry' \in [Sessions -> Nat] /\ ver' \in [Sessions -> Nat] 
      /\ ver'[s] = ver[s] + 1
      /\ \A t \in Sessions \ {s} : registry'[t] = registry[t] /\ ver'[t] = ver[t]
    BY DEF IInv, End, ServerTypes
<1> QED
    BY <1>1, <1>2, PublishKeeps DEF IInv, End, TabTypes

\* A runner's event, published as it came, may be about a change nobody stored.
LEMMA ReportKeeps ==
    ASSUME IInv, NEW s \in Sessions, RunnerReports(s)
    PROVE  IInv'
<1>1. /\ Publish([s |-> s, v |-> Foreign], {"foreign"})
      /\ [s |-> s, v |-> Foreign] \in Event
      /\ {"foreign"} \in SUBSET Reasons
    BY Numbers DEF IInv, RunnerReports, Reasons
<1> QED
    BY <1>1, PublishKeeps DEF IInv, RunnerReports, TabTypes, ServerTypes

\* No event is added and no version changes without a lasting excuse.
LEMMA LastWordFrom ==
    ASSUME LastWord, log' = log,
           \A s \in Sessions : Lasting(s)' \/ (~Lasting(s) /\ ver'[s] = ver[s])
    PROVE  LastWord'
    BY DEF LastWord

\* A change that nothing is published about has a lasting excuse.
LEMMA UnpublishedKeeps ==
    ASSUME IInv, NEW s \in Sessions, StoredUnpublished(s) \/ Purge(s)
    PROVE  IInv'
<1> USE DEF IInv
<1> PICK why \in {"unpublished", "purged"} :
            excuse' = [excuse EXCEPT ![s] = excuse[s] \cup {why}]
    BY DEF StoredUnpublished, Purge
<1>1. /\ registry' \in [Sessions -> Nat] /\ ver' \in [Sessions -> Nat]
      /\ \A t \in Sessions \ {s} : registry'[t] = registry[t] /\ ver'[t] = ver[t]
      /\ UNCHANGED <<log, stream, hook, cache, fetch, reply>>
    <2>1. CASE StoredUnpublished(s)
        BY <2>1 DEF StoredUnpublished, ServerTypes
    <2>2. CASE Purge(s)
        BY <2>2 DEF Purge, ServerTypes
    <2> QED
        BY <2>1, <2>2
<1>2. /\ excuse' \in [Sessions -> SUBSET Reasons] /\ Lasting(s)' /\ excuse'[s] # {}
      /\ \A t \in Sessions \ {s} : excuse'[t] = excuse[t]
    BY DEF TabTypes, Reasons, Lasting
<1>3. ServerTypes' /\ StreamTypes' /\ HookTypes' /\ TabTypes'
    BY <1>1, <1>2 DEF ServerTypes, StreamTypes, HookTypes, TabTypes, hook
<1>4. Tails' /\ Single'
    BY <1>1 DEF Tails, Single, Connected, hook
<1>5. LastWord'
    <2>1. \A t \in Sessions : Lasting(t)' \/ (~Lasting(t) /\ ver'[t] = ver[t])
        BY <1>1, <1>2 DEF Lasting
    <2> QED
        BY <1>1, <1>2, <2>1, LastWordFrom
<1>6. Explained'
    <2>1. \A t \in Sessions : Waiting(t)' <=> Waiting(t)
        BY <1>1 DEF Waiting, Following, Connected, hook
    <2>2. \A t \in Sessions \ {s} : InSync(t)' <=> InSync(t)
        BY <1>1 DEF InSync
    <2> QED
        BY <1>2, <2>1, <2>2 DEF Explained
<1> QED
    BY <1>3, <1>4, <1>5, <1>6

-----------------------------------------------------------------------------
(***************************************************************************)
(* The two ends of a stream.                                                *)
(***************************************************************************)
\* A step that changes one stream, and neither the log nor the cache.
LEMMA StreamKeeps ==
    ASSUME IInv, NEW x \in Streams, NEW new, stream' = [stream EXCEPT ![x] = new],
           new \in Source,
           Ends(new.queue, log), ~new.served => new.queue = <<>>,
           new.client # "none" => Connected(x),
           (Following /\ x = ref)
               => new.client # "none" /\ new.served /\ new.queue = stream[x].queue,
           UNCHANGED <<server, ref, timer, enabled, tab>>, retries' \in 0 .. MaxRetries + 1
    PROVE  IInv'
<1> USE DEF IInv
<1>1. stream'[x] = new /\ \A y \in Streams \ {x} : stream'[y] = stream[y]
    BY DEF StreamTypes
<1>2. ServerTypes' /\ StreamTypes' /\ HookTypes' /\ TabTypes'
    BY DEF ServerTypes, StreamTypes, HookTypes, TabTypes, server, tab
<1>3. Tails'
    BY <1>1 DEF Tails, server
<1>4. Single'
    BY <1>1 DEF Single, Connected
<1>5. LastWord'
    BY DEF LastWord, Lasting, server, tab
<1>6. Explained'
    <2>1. ASSUME Following PROVE Following' /\ stream'[ref].queue = stream[ref].queue
        <3>1. ref \in Streams /\ ref' = ref
            BY <2>1 DEF Following, HookTypes
        <3>2. CASE x = ref
            BY <1>1, <2>1, <3>1, <3>2 DEF Following, Connected, Source
        <3>3. CASE x # ref
            BY <1>1, <2>1, <3>1, <3>3 DEF Following, Connected
        <3> QED
            BY <3>2, <3>3
    <2>2. \A s \in Sessions : Waiting(s) => Waiting(s)'
        BY <2>1 DEF Waiting
    <2> QED
        BY <2>2 DEF Explained, InSync, server, tab
<1> QED
    BY <1>2, <1>3, <1>4, <1>5, <1>6

\* A subscriber starts with the latest event, whatever it missed before.
LEMMA SubscribeKeeps ==
    ASSUME IInv, NEW x \in Streams, Subscribe(x)
    PROVE  IInv'
<1> DEFINE q == IF log = <<>> THEN <<>> ELSE <<log[Len(log)]>>
           new == [stream[x] EXCEPT !.served = TRUE, !.queue = q]
<1>1. log \in Seq(Event) /\ Len(log) \in Nat
    BY DEF IInv, ServerTypes
<1>2. q \in Seq(Event) /\ Ends(q, log)
    <2>1. CASE log = <<>>
        BY <1>1, <2>1 DEF Ends
    <2>2. CASE log # <<>>
        <3>1. Len(log) \in 1 .. Len(log) /\ log[Len(log)] \in Event
            BY <1>1, <2>2
        <3> QED
            BY <1>1, <2>2, <3>1 DEF Ends
    <2> QED
        BY <2>1, <2>2
<1> HIDE DEF q
<1>3. /\ new.served /\ new.queue = q /\ new.client = stream[x].client
      /\ new \in Source
    BY <1>2 DEF IInv, StreamTypes, Source
<1>4. stream' = [stream EXCEPT ![x] = new]
    BY DEF Subscribe, q
<1>5. ~(Following /\ x = ref) /\ Connected(x)
    BY DEF Subscribe, Following
<1> HIDE DEF new
<1> QED
    BY <1>2, <1>3, <1>4, <1>5, StreamKeeps DEF Subscribe, hook, IInv, HookTypes

\* The gateway gives up a stream whose client is gone.
LEMMA UnsubscribeKeeps ==
    ASSUME IInv, NEW x \in Streams, Unsubscribe(x)
    PROVE  IInv'
<1>1. /\ Unused \in Source
      /\ Unused.client = "none" /\ Unused.queue = <<>>
    BY DEF Unused, Source
<1>2. Ends(Unused.queue, log)
    BY <1>1 DEF Ends
<1>3. ~(Following /\ x = ref)
    BY DEF Unsubscribe, Following
<1> QED
    BY <1>1, <1>2, <1>3, StreamKeeps DEF Unsubscribe, hook, IInv, HookTypes

\* The browser learns that its stream is open.
LEMMA OpenKeeps ==
    ASSUME IInv, NEW x \in Streams, OnOpen(x)
    PROVE  IInv'
<1> DEFINE new == [stream[x] EXCEPT !.client = "open"]
<1>1. /\ new.client = "open" /\ new.served = stream[x].served /\ new.queue = stream[x].queue
      /\ new \in Source
    BY DEF IInv, StreamTypes, Source
<1>2. stream' = [stream EXCEPT ![x] = new]
    BY DEF OnOpen
<1>3. Connected(x) /\ Ends(new.queue, log) /\ (~new.served => new.queue = <<>>)
    BY <1>1 DEF OnOpen, Connected, IInv, Tails
<1>4. retries' \in 0 .. MaxRetries + 1
    BY EventsAssumption DEF OnOpen
<1>5. (Following /\ x = ref) => new.served
    BY <1>1 DEF Following
<1> HIDE DEF new
<1> QED
    BY <1>1, <1>2, <1>3, <1>4, <1>5, StreamKeeps DEF OnOpen

-----------------------------------------------------------------------------
(***************************************************************************)
(* The hook opens and closes sources.  What a closed one had not delivered  *)
(* becomes an excuse.                                                       *)
(***************************************************************************)
LEMMA SwitchKeeps ==
    ASSUME IInv, NEW xs \in SUBSET Streams, NEW to \in SUBSET Streams, Switch(xs, to),
           Following => ref \in xs, UNCHANGED <<server, cache, fetch, reply>>
    PROVE  /\ ServerTypes' /\ StreamTypes' /\ TabTypes' /\ Tails' /\ LastWord' /\ Explained'
           /\ \A x \in Streams :
                /\ x \in to => stream'[x] = [Unused EXCEPT !.client = "opening"]
                /\ x \in xs \ to => stream'[x].client = "none"
                /\ x \notin xs \cup to => stream'[x] = stream[x]
<1> USE DEF IInv
<1> DEFINE fresh == [Unused EXCEPT !.client = "opening"]
<1>1. /\ fresh \in Source
      /\ fresh.queue = <<>> /\ fresh.client = "opening" /\ ~fresh.served
    BY EmptySeq DEF Unused, Source
<1>2. ASSUME NEW x \in Streams
      PROVE  /\ x \in to => stream'[x] = fresh
             /\ x \in xs \ to => /\ stream'[x].client = "none"
                                 /\ stream'[x].served = stream[x].served
                                 /\ stream'[x].queue = stream[x].queue
             /\ x \notin xs \cup to => stream'[x] = stream[x]
             /\ stream'[x] \in Source
    BY <1>1 DEF Switch, StreamTypes, Source
<1> HIDE DEF fresh
<1>3. StreamTypes'
    BY <1>2 DEF StreamTypes, Switch
<1>4. Tails'
    <2>1. Ends(<<>>, log)
        BY DEF Ends
    <2> QED
        BY <1>1, <1>2, <2>1 DEF Tails, server
<1>5. /\ excuse' \in [Sessions -> SUBSET Reasons]
      /\ \A s \in Sessions : /\ excuse[s] \subseteq excuse'[s]
                             /\ Lasting(s) => Lasting(s)'
    <2>1. excuse' = Missed(xs)
        BY DEF Switch
    <2>2. excuse \in [Sessions -> SUBSET Reasons]
        BY DEF TabTypes
    <2> QED
        BY <2>1, <2>2 DEF Missed, Reasons, Lasting
<1>6. ServerTypes' /\ TabTypes'
    BY <1>5 DEF ServerTypes, TabTypes, server
<1>7. LastWord'
    BY <1>5 DEF LastWord, server
<1>8. Explained'
    <2>1. ASSUME NEW s \in Sessions, Waiting(s) PROVE excuse'[s] # {}
        <3>1. Following /\ ref \in Streams /\ ref \in xs
            BY <2>1 DEF Waiting
        <3>2. PICK i \in 1 .. Len(stream[ref].queue) : stream[ref].queue[i].s = s
            BY <2>1 DEF Waiting
        <3>3. i \in DOMAIN stream[ref].queue
            BY <3>1, <3>2
        <3>4. "missed" \in Missed(xs)[s]
            BY <3>1, <3>2, <3>3 DEF Missed
        <3> QED
            BY <3>4 DEF Switch
    <2>2. \A s \in Sessions : InSync(s)' <=> InSync(s)
        BY DEF InSync, server
    <2> QED
        BY <1>5, <2>1, <2>2 DEF Explained
<1> QED
    BY <1>2, <1>3, <1>4, <1>6, <1>7, <1>8 DEF fresh

\* React runs the effect again: the old source is closed before the new one.
LEMMA EffectKeeps ==
    ASSUME IInv, RunEffect
    PROVE  IInv'
<1> USE DEF IInv
<1>1. PICK x \in Streams : Free(x) /\ Switch(Current, {x}) /\ ref' = x
    BY DEF RunEffect
<1>2. Current \in SUBSET Streams /\ (Following => ref \in Current)
    BY DEF Current, HookTypes, Following
<1>3. /\ ServerTypes' /\ StreamTypes' /\ TabTypes' /\ Tails' /\ LastWord' /\ Explained'
      /\ \A y \in Streams : /\ y \in Current \ {x} => stream'[y].client = "none"
                            /\ y \notin Current \cup {x} => stream'[y] = stream[y]
    BY <1>1, <1>2, SwitchKeeps DEF RunEffect
<1>4. HookTypes'
    <2>1. retries' \in 0 .. MaxRetries + 1
        BY EventsAssumption DEF RunEffect
    <2>2. timer' = FALSE /\ enabled' = TRUE /\ ref' \in Streams \cup {NoStream}
        BY <1>1 DEF RunEffect
    <2> QED
        BY <2>1, <2>2 DEF HookTypes
<1>5. Single'
    <2>1. \A y \in Streams : Connected(y) => y \in Current
        BY EventsAssumption DEF Single, Current
    <2>2. \A y \in Streams \ {x} : ~Connected(y)'
        BY <1>3, <2>1 DEF Connected
    <2> QED
        BY <1>1, <2>2 DEF Single, RunEffect
<1> QED
    BY <1>3, <1>4, <1>5

\* The hook is disabled: source and timer end.
LEMMA DisableKeeps ==
    ASSUME IInv, Disable
    PROVE  IInv'
<1> USE DEF IInv
<1>1. Current \in SUBSET Streams /\ (Following => ref \in Current)
    BY DEF Current, HookTypes, Following
<1>2. /\ ServerTypes' /\ StreamTypes' /\ TabTypes' /\ Tails' /\ LastWord' /\ Explained'
      /\ \A y \in Streams : /\ y \in Current => stream'[y].client = "none"
                            /\ y \notin Current => stream'[y] = stream[y]
    BY <1>1, SwitchKeeps DEF Disable
<1>3. HookTypes'
    <2>1. retries' \in 0 .. MaxRetries + 1
        BY EventsAssumption DEF Disable
    <2>2. timer' = FALSE /\ enabled' = FALSE /\ ref' \in Streams \cup {NoStream}
        BY DEF Disable
    <2> QED
        BY <2>1, <2>2 DEF HookTypes
<1>4. Single'
    <2>1. \A y \in Streams : Connected(y) => y \in Current
        BY EventsAssumption DEF Single, Current
    <2>2. \A y \in Streams : ~Connected(y)'
        BY <1>2, <2>1 DEF Connected
    <2> QED
        BY <2>2 DEF Single, Disable
<1> QED
    BY <1>2, <1>3, <1>4

\* An error closes the source and sets the timer, or gives up.
LEMMA ErrorKeeps ==
    ASSUME IInv, NEW x \in Streams, OnError(x)
    PROVE  IInv'
<1> USE DEF IInv
<1>1. x = ref /\ enabled /\ ~timer
    BY DEF OnError, Single
<1>2. /\ ServerTypes' /\ StreamTypes' /\ TabTypes' /\ Tails' /\ LastWord' /\ Explained'
      /\ stream'[x].client = "none"
      /\ \A y \in Streams \ {x} : stream'[y] = stream[y]
    BY <1>1, SwitchKeeps DEF OnError
<1>3. HookTypes'
    <2>1. retries' \in 0 .. MaxRetries + 1
        BY EventsAssumption DEF OnError, HookTypes
    <2>2. timer' \in BOOLEAN /\ enabled' \in BOOLEAN /\ ref' \in Streams \cup {NoStream}
        BY DEF OnError, HookTypes
    <2> QED
        BY <2>1, <2>2 DEF HookTypes
<1>4. Single'
    <2>1. \A y \in Streams : ~Connected(y)'
        BY <1>1, <1>2 DEF Connected, Single
    <2> QED
        BY <1>1, <2>1 DEF Single, OnError
<1> QED
    BY <1>2, <1>3, <1>4

\* The timer opens the next source.
LEMMA TimerKeeps ==
    ASSUME IInv, TimerFires
    PROVE  IInv'
<1> USE DEF IInv
<1>1. PICK x \in Streams : Free(x) /\ Switch({}, {x}) /\ ref' = x
    BY DEF TimerFires
<1>2. enabled /\ \A y \in Streams : ~Connected(y)
    BY DEF TimerFires, Single
<1>3. ~Following
    BY <1>2 DEF Following, HookTypes
<1>4. /\ ServerTypes' /\ StreamTypes' /\ TabTypes' /\ Tails' /\ LastWord' /\ Explained'
      /\ \A y \in Streams \ {x} : stream'[y] = stream[y]
    BY <1>1, <1>3, SwitchKeeps DEF TimerFires
<1>5. HookTypes'
    <2>1. ref' \in Streams \cup {NoStream}
        BY <1>1
    <2>2. timer' = FALSE /\ UNCHANGED <<retries, enabled>>
        BY DEF TimerFires
    <2> QED
        BY <2>1, <2>2 DEF HookTypes
<1>6. Single'
    BY <1>1, <1>2, <1>4 DEF Single, Connected, TimerFires
<1> QED
    BY <1>4, <1>5, <1>6

-----------------------------------------------------------------------------
(***************************************************************************)
(* The tab writes its cache.                                                *)
(***************************************************************************)
\* What Written leaves of an entry's excuses.
LEMMA WrittenIs ==
    ASSUME NEW s \in Sessions, NEW v, NEW why \in SUBSET {"overwritten"},
           excuse \in [Sessions -> SUBSET Reasons]
    PROVE  /\ Written(s, v, why) \in SUBSET Reasons
           /\ v # ver[s] /\ ~(v = 0 /\ registry[s] = 0)
                => excuse[s] \cup why \subseteq Written(s, v, why)
           /\ \A why2 \in {"foreign", "unpublished", "purged"} :
                why2 \in excuse[s] <=> why2 \in Written(s, v, why)
    BY DEF Written, Reasons

\* A step that writes entries of the cache and leaves the stream as it is.
LEMMA WriteKeeps ==
    ASSUME IInv, UNCHANGED <<server, stream, hook>>, TabTypes',
           \A s \in Sessions :
              \/ cache'[s] = cache[s] /\ excuse'[s] = excuse[s]
              \/ excuse'[s] = Written(s, cache'[s], {"overwritten"})
    PROVE  IInv'
<1> USE DEF IInv
<1>1. /\ ServerTypes' /\ StreamTypes' /\ HookTypes' /\ Tails' /\ Single'
      /\ \A s \in Sessions : Waiting(s)' <=> Waiting(s)
    BY DEF ServerTypes, StreamTypes, HookTypes, Tails, Single, Connected, Waiting,
        Following, server, hook
<1>2. excuse \in [Sessions -> SUBSET Reasons] /\ {"overwritten"} \in SUBSET {"overwritten"}
    BY DEF TabTypes
<1>3. \A s \in Sessions : Lasting(s)' <=> Lasting(s)
    BY <1>2, WrittenIs DEF Lasting
<1>4. LastWord'
    BY <1>3, LastWordFrom DEF server
<1>5. Explained'
    <2>1. ASSUME NEW s \in Sessions, excuse'[s] = Written(s, cache'[s], {"overwritten"})
          PROVE  InSync(s)' \/ excuse'[s] # {}
        BY <1>2, <2>1, WrittenIs DEF InSync, server
    <2>2. ASSUME NEW s \in Sessions, cache'[s] = cache[s], excuse'[s] = excuse[s]
          PROVE  InSync(s)' \/ excuse'[s] # {} \/ Waiting(s)'
        BY <1>1, <2>2 DEF Explained, InSync, server
    <2> QED
        BY <2>1, <2>2 DEF Explained
<1> QED
    BY <1>1, <1>4, <1>5

\* The list is asked for, answered, lost, or put into the cache.
LEMMA FetchKeeps ==
    ASSUME IInv,
           StartFetch \/ Show \/ Hide \/ AnswerFetch \/ FailFetch \/ TakeFetched
    PROVE  IInv'
<1>1. Nothing \in [Sessions -> Nat]
    BY DEF Nothing
<1>2. CASE StartFetch \/ Show \/ Hide \/ AnswerFetch \/ FailFetch
    <2> DEFINE F == [at : {"none", "asked", "answered"}, list : [Sessions -> Nat]]
    <2>1. fetch' \in F
        <3>1. CASE StartFetch \/ AnswerFetch \/ FailFetch
            BY <1>1, <3>1 DEF IInv, TabTypes, ServerTypes, StartFetch, AnswerFetch, FailFetch
        <3>2. CASE Show \/ Hide
            <4>1. fetch' = fetch \/ fetch' = [fetch EXCEPT !.at = "asked"]
                BY <3>2 DEF Show, Hide
            <4>2. [fetch EXCEPT !.at = "asked"] \in F
                BY DEF IInv, TabTypes
            <4> QED
                BY <4>1, <4>2 DEF IInv, TabTypes
        <3> QED
            BY <1>2, <3>1, <3>2
    <2>2. UNCHANGED <<server, stream, hook, cache, reply, excuse>>
        BY <1>2 DEF StartFetch, Show, Hide, AnswerFetch, FailFetch
    <2>3. TabTypes'
        BY <2>1, <2>2 DEF IInv, TabTypes
    <2> QED
        BY <2>2, <2>3, WriteKeeps
<1>3. CASE TakeFetched
    <2>1. fetch.list \in [Sessions -> Nat] /\ excuse \in [Sessions -> SUBSET Reasons]
        BY DEF IInv, TabTypes
    <2>2. /\ UNCHANGED <<server, stream, hook, reply>> /\ cache' = fetch.list
          /\ excuse' = [s \in Sessions |-> Written(s, fetch.list[s], {"overwritten"})]
          /\ fetch' = [at |-> "none", list |-> Nothing]
        BY <1>3 DEF TakeFetched
    <2>3. \A s \in Sessions : Written(s, fetch.list[s], {"overwritten"}) \in SUBSET Reasons
        BY <2>1, WrittenIs
    <2>4. TabTypes'
        BY <1>1, <2>1, <2>2, <2>3 DEF IInv, TabTypes
    <2>5. \A s \in Sessions : excuse'[s] = Written(s, cache'[s], {"overwritten"})
        BY <2>2
    <2> QED
        BY <2>2, <2>4, <2>5, WriteKeeps
<1> QED
    BY <1>2, <1>3

\* The answer of a proxy update is put into the cache, however old.
LEMMA ReplyKeeps ==
    ASSUME IInv, TakeReply
    PROVE  IInv'
<1> DEFINE new == Written(reply.s, reply.v, {"overwritten"})
<1>1. reply.s \in Sessions /\ reply.v \in Nat
    BY DEF IInv, TabTypes, TakeReply, Event
<1>2. excuse \in [Sessions -> SUBSET Reasons] /\ cache \in [Sessions -> Nat]
    BY DEF IInv, TabTypes
<1>3. new \in SUBSET Reasons
    BY <1>1, <1>2, WrittenIs
<1>4. /\ UNCHANGED <<server, stream, hook, fetch>> /\ reply' = NoReply
      /\ \/ UNCHANGED <<cache, excuse>>
         \/ /\ cache' = [cache EXCEPT ![reply.s] = reply.v]
            /\ excuse' = [excuse EXCEPT ![reply.s] = new]
    BY DEF TakeReply
<1>5. cache' \in [Sessions -> Nat] /\ excuse' \in [Sessions -> SUBSET Reasons]
    BY <1>1, <1>2, <1>3, <1>4
<1>6. TabTypes'
    BY <1>4, <1>5 DEF IInv, TabTypes
<1> HIDE DEF new
<1>7. \/ UNCHANGED <<cache, excuse>>
      \/ /\ cache'[reply.s] = reply.v /\ excuse'[reply.s] = new
         /\ \A s \in Sessions \ {reply.s} : cache'[s] = cache[s] /\ excuse'[s] = excuse[s]
    BY <1>1, <1>2, <1>4
<1>8. \A s \in Sessions :
         \/ cache'[s] = cache[s] /\ excuse'[s] = excuse[s]
         \/ excuse'[s] = Written(s, cache'[s], {"overwritten"})
    BY <1>7 DEF new
<1> QED
    BY <1>4, <1>6, <1>8, WriteKeeps

\* The tab reads an event: the entry is the event's, or the next one about it waits.
LEMMA MessageKeeps ==
    ASSUME IInv, NEW x \in Streams, OnMessage(x)
    PROVE  IInv'
<1> USE DEF IInv
<1> DEFINE q == stream[x].queue
<1>1. /\ q \in Seq(Event) /\ q # <<>> /\ Head(q) = q[1] /\ Len(q) \in Nat /\ Len(q) # 0
      /\ Tail(q) \in Seq(Event) /\ Len(Tail(q)) = Len(q) - 1
      /\ \A i \in 1 .. Len(q) - 1 : Tail(q)[i] = q[i + 1]
    BY StreamFields DEF OnMessage
<1>2. PICK e \in Event : e = Head(q)
    BY <1>1
<1>3. e.s \in Sessions /\ e.v \in Nat /\ e = q[1]
    BY <1>1, <1>2 DEF Event
<1> DEFINE new == Written(e.s, e.v, {})
<1>4. x = ref /\ Following
    <2>1. stream[x].client = "open" /\ stream[x].served
        BY <1>1 DEF OnMessage, Tails
    <2> QED
        BY <2>1, EventsAssumption DEF Single, Connected, Following
<1>5. /\ excuse \in [Sessions -> SUBSET Reasons] /\ cache \in [Sessions -> Nat]
      /\ log \in Seq(Event) /\ Len(log) \in Nat
    BY DEF TabTypes, ServerTypes
<1>6. /\ new \in SUBSET Reasons
      /\ e.v # ver[e.s] /\ ~(e.v = 0 /\ registry[e.s] = 0) => excuse[e.s] \subseteq new
      /\ \A why \in {"foreign", "unpublished", "purged"} :
            why \in excuse[e.s] <=> why \in new
    BY <1>3, <1>5, WrittenIs
<1>7. /\ UNCHANGED <<server, hook, fetch, reply>>
      /\ cache' = [cache EXCEPT ![e.s] = e.v] /\ excuse' = [excuse EXCEPT ![e.s] = new]
      /\ stream' = [stream EXCEPT ![x].queue = Tail(q)]
    BY <1>2 DEF OnMessage, Merged
<1>8. /\ stream'[x].queue = Tail(q) /\ stream'[x].client = stream[x].client
      /\ stream'[x].served = stream[x].served
      /\ \A y \in Streams \ {x} : stream'[y] = stream[y]
      /\ StreamTypes'
    BY <1>1, <1>7 DEF StreamTypes, Source
<1> HIDE DEF new, q
<1>9. /\ cache' \in [Sessions -> Nat] /\ excuse' \in [Sessions -> SUBSET Reasons]
      /\ cache'[e.s] = e.v /\ excuse'[e.s] = new
      /\ \A s \in Sessions \ {e.s} : cache'[s] = cache[s] /\ excuse'[s] = excuse[s]
    BY <1>3, <1>5, <1>6, <1>7
<1>10. ServerTypes' /\ HookTypes' /\ TabTypes'
    BY <1>7, <1>9 DEF ServerTypes, HookTypes, TabTypes, server, hook
<1>11. Tails'
    <2>1. Ends(q, log)
        BY DEF Tails, q
    <2>2. Ends(Tail(q), log)
        BY <1>1, <1>5, <2>1 DEF Ends
    <2> QED
        BY <1>4, <1>7, <1>8, <2>2 DEF Tails, server, Following
<1>12. Single'
    BY <1>7, <1>8 DEF Single, Connected, hook
<1>13. \A s \in Sessions : Lasting(s)' <=> Lasting(s)
    BY <1>6, <1>9 DEF Lasting
<1>14. LastWord'
    BY <1>7, <1>13, LastWordFrom DEF server
<1>15. Following' /\ ref' = ref
    BY <1>4, <1>7, <1>8 DEF Following, Connected, hook
\* Without a later event about the session, this one is the log's last about it.
<1>16. ASSUME ~Waiting(e.s)', e.v # ver[e.s] PROVE Lasting(e.s)
    <2>1. \A i \in 1 .. Len(Tail(q)) : Tail(q)[i].s # e.s
        <3>1. stream'[ref'].queue = Tail(q)
            BY <1>4, <1>8, <1>15
        <3> QED
            BY <1>15, <1>16, <3>1 DEF Waiting
    <2>2. \A i \in 2 .. Len(q) : q[i].s # e.s
        <3>1. ASSUME NEW i \in 2 .. Len(q) PROVE q[i].s # e.s
            <4>1. i - 1 \in 1 .. Len(q) - 1 /\ Tail(q)[i - 1] = q[i]
                BY <1>1
            <4> QED
                BY <2>1, <4>1
        <3> QED
            BY <3>1
    <2>3. Ends(q, log)
        BY DEF Tails, q
    <2> DEFINE d == Len(log) - Len(q)
    <2>4. d \in Nat /\ \A i \in 1 .. Len(q) : q[i] = log[d + i]
        BY <1>1, <1>5, <2>3 DEF Ends
    <2>5. d + 1 \in 1 .. Len(log) /\ log[d + 1] = e
        BY <1>1, <1>3, <1>5, <2>4
    <2>6. ASSUME NEW j \in d + 2 .. Len(log) PROVE log[j].s # e.s
        <3>1. j - d \in 2 .. Len(q) /\ j - d \in 1 .. Len(q) /\ d + (j - d) = j
            BY <1>1, <1>5, <2>4
        <3>2. q[j - d] = log[j] /\ q[j - d].s # e.s
            BY <2>2, <2>4, <3>1
        <3> QED
            BY <3>2
    <2>7. (d + 1) + 1 = d + 2
        BY <2>4
    <2> HIDE DEF d
    <2> QED
        BY <1>3, <1>16, <2>5, <2>6, <2>7 DEF LastWord
<1>17. Explained'
    <2>1. InSync(e.s)' \/ excuse'[e.s] # {} \/ Waiting(e.s)'
        <3>1. CASE e.v = ver[e.s]
            BY <1>3, <1>7, <1>9, <3>1 DEF InSync, server
        <3>2. CASE Lasting(e.s)
            BY <1>3, <1>13, <3>2 DEF Lasting
        <3> QED
            BY <1>16, <3>1, <3>2
    <2>2. ASSUME NEW s \in Sessions \ {e.s}, Waiting(s) PROVE Waiting(s)'
        <3>1. PICK i \in 1 .. Len(q) : q[i].s = s
            BY <1>4, <2>2 DEF Waiting, q
        <3>2. i - 1 \in 1 .. Len(q) - 1 /\ Tail(q)[i - 1] = q[i]
            BY <1>1, <1>3, <2>2, <3>1
        <3> QED
            BY <1>1, <1>4, <1>8, <1>15, <3>1, <3>2 DEF Waiting
    <2>3. \A s \in Sessions \ {e.s} : InSync(s)' <=> InSync(s)
        BY <1>7, <1>9 DEF InSync, server
    <2>4. \A s \in Sessions \ {e.s} : InSync(s)' \/ excuse'[s] # {} \/ Waiting(s)'
        BY <1>9, <2>2, <2>3 DEF Explained
    <2> QED
        BY <2>1, <2>4 DEF Explained
<1> QED
    BY <1>8, <1>10, <1>11, <1>12, <1>14, <1>17

-----------------------------------------------------------------------------
(***************************************************************************)
(* The invariant.                                                           *)
(***************************************************************************)
LEMMA Initially == Init => IInv
<1> SUFFICES ASSUME Init PROVE IInv
    OBVIOUS
<1> USE DEF Init
<1>1. Unused.client = "none" /\ ~Unused.served /\ Unused.queue = <<>>
    BY DEF Unused
<1>2. Nothing \in [Sessions -> Nat]
    BY DEF Nothing
<1>3. ServerTypes /\ TabTypes
    BY <1>2 DEF ServerTypes, TabTypes
<1>4. StreamTypes
    BY DEF StreamTypes, Source, Unused
<1>5. HookTypes
    <2>1. retries \in 0 .. MaxRetries + 1
        BY EventsAssumption
    <2>2. timer = FALSE /\ enabled = FALSE /\ ref \in Streams \cup {NoStream}
        OBVIOUS
    <2> QED
        BY <2>1, <2>2 DEF HookTypes
<1>6. Tails
    BY <1>1 DEF Tails, Ends
<1>7. Single
    BY <1>1 DEF Single, Connected
<1>8. LastWord /\ Explained
    BY DEF LastWord, Explained, InSync
<1> QED
    BY <1>3, <1>4, <1>5, <1>6, <1>7, <1>8 DEF IInv

\* Nothing happens.
LEMMA Stuttering ==
    ASSUME IInv, UNCHANGED vars
    PROVE  IInv'
<1>1. UNCHANGED <<server, stream, hook>> /\ UNCHANGED <<cache, fetch, reply, excuse>>
    BY DEF vars, tab
<1>2. TabTypes'
    BY <1>1 DEF IInv, TabTypes
<1> QED
    BY <1>1, <1>2, WriteKeeps

\* Every step preserves the invariant.
LEMMA Inductive == IInv /\ [Next]_vars => IInv'
<1> SUFFICES ASSUME IInv, [Next]_vars PROVE IInv'
    OBVIOUS
<1>1. ASSUME NEW s \in Sessions, Changed(s) \/ UpdateFromTab(s) PROVE IInv'
    <2>1. Change(s) /\ UNCHANGED <<hook, cache, fetch>>
        BY <1>1 DEF Changed, UpdateFromTab
    <2>2. reply' \in Event \cup {NoReply}
        BY <1>1, Numbers DEF Changed, UpdateFromTab, IInv, TabTypes
    <2> QED
        BY <2>1, <2>2, ChangeKeeps
<1>2. ASSUME NEW s \in Sessions,
             StoredUnpublished(s) \/ End(s) \/ Purge(s) \/ RunnerReports(s)
      PROVE  IInv'
    BY <1>2, UnpublishedKeeps, EndKeeps, ReportKeeps
<1>3. ASSUME NEW x \in Streams,
             Subscribe(x) \/ Unsubscribe(x) \/ OnOpen(x) \/ OnError(x) \/ OnMessage(x)
      PROVE  IInv'
    BY <1>3, SubscribeKeeps, UnsubscribeKeeps, OpenKeeps, ErrorKeeps, MessageKeeps
<1>4. CASE RunEffect \/ Disable \/ TimerFires
    BY <1>4, EffectKeeps, DisableKeeps, TimerKeeps
<1>5. CASE \/ StartFetch \/ Show \/ Hide \/ AnswerFetch \/ FailFetch
           \/ TakeFetched \/ TakeReply
    BY <1>5, FetchKeeps, ReplyKeeps
<1>6. CASE UNCHANGED vars
    BY <1>6, Stuttering
<1> QED
    BY <1>1, <1>2, <1>3, <1>4, <1>5, <1>6 DEF Next

\* IInv holds in every state of every behaviour.
THEOREM Invariance == Spec => []IInv
    BY Initially, Inductive, PTL DEF Spec

\* What a subscriber has still to read is the end of what was published,
\* whatever the subscriptions, errors and closed tabs in between.
THEOREM NothingIsSkipped == Spec => []StreamsAreTails
<1>1. ASSUME IInv PROVE StreamsAreTails
    <2>1. ASSUME NEW x \in Streams
          PROVE  LET q == stream[x].queue IN
                 Len(q) <= Len(log) /\ q = SubSeq(log, Len(log) - Len(q) + 1, Len(log))
        <3>1. /\ stream[x].queue \in Seq(Event) /\ log \in Seq(Event)
              /\ Ends(stream[x].queue, log)
            BY <1>1, StreamFields DEF IInv, Tails, ServerTypes
        <3>2. Len(stream[x].queue) <= Len(log)
            BY <3>1 DEF Ends
        <3> QED
            BY <3>1, <3>2, EndOf
    <2> QED
        BY <2>1 DEF StreamsAreTails
<1> QED
    BY <1>1, Invariance, PTL

\* A tab never has two sources, nor a source and the timer that opens the next,
\* nor either of them when the hook is disabled.
THEOREM TabHasOneStream == Spec => []OneStream
<1>1. ASSUME IInv PROVE OneStream
    <2> DEFINE C == {x \in Streams : Connected(x)}
    <2>1. C \subseteq {ref} /\ (timer \/ ~enabled => C = {}) /\ (timer => enabled)
        BY <1>1 DEF IInv, Single
    <2>2. Cardinality(C) \in {0, 1} /\ (C = {} => Cardinality(C) = 0)
        BY <2>1, FS_EmptySet, FS_Singleton
    <2> HIDE DEF C
    <2>3. Cardinality(C) + (IF timer THEN 1 ELSE 0) <= IF enabled THEN 1 ELSE 0
        BY <2>1, <2>2
    <2> QED
        BY <2>3 DEF OneStream, C
<1> QED
    BY <1>1, Invariance, PTL

\* Once the followed stream is drained every entry of the cache is right or has
\* one of the listed excuses, for any number of sessions, streams and events.
THEOREM CacheIsExplained == Spec => []DivergenceExplained
<1>1. ASSUME IInv PROVE DivergenceExplained
    <2> SUFFICES ASSUME Quiet, NEW s \in Sessions PROVE InSync(s) \/ excuse[s] # {}
        BY DEF DivergenceExplained
    <2>1. ~Waiting(s)
        BY DEF Quiet, Waiting
    <2> QED
        BY <1>1, <2>1 DEF IInv, Explained
<1> QED
    BY <1>1, Invariance, PTL

====
