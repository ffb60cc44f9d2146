---------------------------- MODULE SessionEvents ----------------------------
(***************************************************************************)
(* How a change of a session reaches the operator's screen: the gateway     *)
(* changes its registry and publishes an event (routers/sessions.py), the   *)
(* bridge copies the event to the queue of every subscriber                 *)
(* (core/websocket_bridge.py), the stream of a browser tab is relayed from  *)
(* its queue (routers/events.py), and the tab merges the event into its     *)
(* cached list of sessions (useSessionEvents.ts), which it also fetches as  *)
(* a whole every 15 s (DashboardPage.tsx).                                  *)
(*                                                                         *)
(* No lock on this path is held over a suspension and the queues are        *)
(* unbounded, so a handler's registry write and its publish are one step.   *)
(* A session is its version: the number of its last change.                 *)
(***************************************************************************)
EXTENDS Naturals, Sequences, FiniteSets

CONSTANTS Sessions,
          Streams,     \* bound: streams of the one tab a gateway may know
          NoStream,
          MaxRetries,  \* MAX_RETRIES of the hook
          MaxEvents    \* bound: events published, and stores that publish none

ASSUME EventsAssumption == NoStream \notin Streams /\ MaxRetries \in Nat /\ MaxEvents \in Nat

VARIABLES registry,  \* session -> version the gateway lists; 0: not listed
          ver,       \* session -> its last version (history)
          log,       \* the events published, in order; the last is _latest_event
          stream,    \* stream -> both ends of a /events connection
          ref,       \* eventSourceRef.current
          timer,     \* is a reconnect timer set
          retries,   \* retryCount.current
          enabled,   \* the hook's argument
          cache,     \* session -> version in the tab's query cache; 0: no entry
          fetch,     \* GET /sessions under way: [at, list]
          reply,     \* answer of the tab's own update under way, an event
          excuse,    \* session -> why its entry may be out of date (history)
          visible    \* is the tab on the screen

server == <<registry, ver, log>>
hook == <<ref, timer, retries, enabled>>
tab == <<cache, fetch, reply, excuse, visible>>
vars == <<server, stream, hook, tab>>

\* A version no registry holds: the state a runner reports with POST /events.
Foreign == 2 * MaxEvents + 1
NoReply == [s |-> CHOOSE s \in Sessions : TRUE, v |-> 0]
Nothing == [s \in Sessions |-> 0]
Unused == [client |-> "none", served |-> FALSE, queue |-> <<>>]

Init ==
    /\ registry = Nothing /\ ver = Nothing /\ log = <<>>
    /\ stream = [x \in Streams |-> Unused]
    /\ ref = NoStream /\ timer = FALSE /\ retries = 0 /\ enabled = FALSE
    /\ cache = Nothing /\ fetch = [at |-> "none", list |-> Nothing] /\ reply = NoReply
    /\ excuse = [s \in Sessions |-> {}] /\ visible = TRUE

Connected(x) == stream[x].client \in {"opening", "open"}
Following == ref # NoStream /\ Connected(ref) /\ stream[ref].served

(***************************************************************************)
(* The gateway.  publish: to every subscriber of this moment, each with a   *)
(* queue of its own.                                                        *)
(***************************************************************************)
\* Fault: queues that hold one event.
FanOutBounded(e) == [x \in Streams |-> IF stream[x].served /\ stream[x].queue = <<>>
                                         THEN [stream[x] EXCEPT !.queue = <<e>>]
                                         ELSE stream[x]]

FanOut(e) == [x \in Streams |-> IF stream[x].served
                                  THEN [stream[x] EXCEPT !.queue = Append(@, e)]
                                  ELSE stream[x]]

Room == Len(log) + Cardinality({s \in Sessions : "unpublished" \in excuse[s]}) < MaxEvents

Publish(e, why) ==
    /\ Room
    /\ log' = Append(log, e)
    /\ stream' = FanOut(e)
    /\ excuse' = [excuse EXCEPT ![e.s] = @ \cup why
                                            \cup (IF Following THEN {} ELSE {"missed"})]

NextVersion(s) == [s |-> s, v |-> ver[s] + 1]

\* A create, or any handler that stores the session again.  An update that read
\* the session before a delete or a purge lists it again.
Change(s) ==
    /\ Publish(NextVersion(s), {})
    /\ registry' = [registry EXCEPT ![s] = ver[s] + 1]
    /\ ver' = [ver EXCEPT ![s] = @ + 1]

Changed(s) == Change(s) /\ UNCHANGED <<hook, cache, fetch, reply, visible>>

\* The tab's own POST /sessions/{id}/proxy; its answer is on the way.
UpdateFromTab(s) ==
    /\ cache[s] # 0 /\ registry[s] # 0 /\ reply = NoReply
    /\ Change(s)
    /\ reply' = NextVersion(s)
    /\ UNCHANGED <<hook, cache, fetch, visible>>

End(s) ==
    /\ registry[s] # 0
    /\ Publish(NextVersion(s), {})
    /\ registry' = [registry EXCEPT ![s] = 0]
    /\ ver' = [ver EXCEPT ![s] = @ + 1]
    /\ UNCHANGED <<hook, cache, fetch, reply, visible>>

\* Stored, then an error instead of the event: SessionEvent refuses a created
\* event of a session that is DEAD or TERMINATING, and the enrichment after an
\* update may refuse the runner's VNC settings.  (Bound: once per session.)
StoredUnpublished(s) ==
    /\ "unpublished" \notin excuse[s] /\ Room
    /\ registry' = [registry EXCEPT ![s] = ver[s] + 1]
    /\ ver' = [ver EXCEPT ![s] = @ + 1]
    /\ excuse' = [excuse EXCEPT ![s] = @ \cup {"unpublished"}]
    /\ UNCHANGED <<log, stream, hook, cache, fetch, reply, visible>>

\* The sessions of a runner that left: nothing is published.
Purge(s) ==
    /\ registry[s] # 0
    /\ registry' = [registry EXCEPT ![s] = 0]
    /\ ver' = [ver EXCEPT ![s] = @ + 1]
    /\ excuse' = [excuse EXCEPT ![s] = @ \cup {"purged"}]
    /\ UNCHANGED <<log, stream, hook, cache, fetch, reply, visible>>

\* POST /events from a runner, of any session: published, and the registry is
\* left as it is.
RunnerReports(s) ==
    /\ Publish([s |-> s, v |-> Foreign], {"foreign"})
    /\ UNCHANGED <<registry, ver, hook, cache, fetch, reply, visible>>

\* subscribe(replay_latest=True), once the response of the stream has begun.
Subscribe(x) ==
    /\ Connected(x) /\ ~stream[x].served
    /\ stream' = [stream EXCEPT ![x].served = TRUE,
                                ![x].queue = IF log = <<>> THEN <<>> ELSE <<log[Len(log)]>>]
    /\ UNCHANGED <<server, hook, tab>>

\* The iterator's finally block, when the response notices that the tab left.
Unsubscribe(x) ==
    /\ ~Connected(x) /\ stream[x].served
    /\ stream' = [stream EXCEPT ![x] = Unused]
    /\ UNCHANGED <<server, hook, tab>>

(***************************************************************************)
(* The hook.                                                                *)
(***************************************************************************)
Free(x) == stream[x] = Unused

\* What a closed source had not delivered, and what will be published until
\* the next one is served, the tab does not see.
Missed(xs) == [s \in Sessions |->
    excuse[s] \cup (IF \E x \in xs : \E i \in DOMAIN stream[x].queue : stream[x].queue[i].s = s
                      THEN {"missed"} ELSE {})]

\* Close the sources in xs and open one in to (empty: open none).
Switch(xs, to) ==
    /\ stream' = [x \in Streams |->
          IF x \in to THEN [Unused EXCEPT !.client = "opening"]
          ELSE IF x \in xs THEN [stream[x] EXCEPT !.client = "none"] ELSE stream[x]]
    /\ excuse' = Missed(xs)

Current == {ref} \ {NoStream}

\* Fault: the effect's clean-up forgets the timer.
RunEffectKeepsTimer ==
    /\ \E x \in Streams : Free(x) /\ Switch(Current, {x}) /\ ref' = x
    /\ retries' = 0 /\ enabled' = TRUE
    /\ UNCHANGED <<server, timer, cache, fetch, reply, visible>>

\* The effect runs: enabled, the token or retrySignal changed.  The clean-up of
\* the last run closes its source and clears its timer first.
RunEffect ==
    /\ \E x \in Streams : Free(x) /\ Switch(Current, {x}) /\ ref' = x
    /\ timer' = FALSE /\ retries' = 0 /\ enabled' = TRUE
    /\ UNCHANGED <<server, cache, fetch, reply, visible>>

Disable ==
    /\ enabled
    /\ Switch(Current, {}) /\ ref' = NoStream
    /\ timer' = FALSE /\ retries' = 0 /\ enabled' = FALSE
    /\ UNCHANGED <<server, cache, fetch, reply, visible>>

OnOpen(x) ==
    /\ stream[x].client = "opening"
    /\ stream' = [stream EXCEPT ![x].client = "open"]
    /\ retries' = 0
    /\ UNCHANGED <<server, ref, timer, enabled, tab>>

\* onerror: at most MAX_RETRIES times in a row a new attempt is scheduled.
OnError(x) ==
    /\ Connected(x)
    /\ Switch({x}, {})
    /\ retries' = IF retries > MaxRetries THEN retries ELSE retries + 1
    /\ timer' = (timer \/ retries < MaxRetries)
    /\ UNCHANGED <<server, ref, enabled, cache, fetch, reply, visible>>

TimerFires ==
    /\ timer /\ timer' = FALSE
    /\ \E x \in Streams : Free(x) /\ Switch({}, {x}) /\ ref' = x
    /\ UNCHANGED <<server, retries, enabled, cache, fetch, reply, visible>>

(***************************************************************************)
(* The cache.  Written(s, v, why): an entry was written; why says how it    *)
(* can come to be older than what the gateway has.                          *)
(***************************************************************************)
Written(s, v, why) ==
    IF v = ver[s] \/ (v = 0 /\ registry[s] = 0)
      THEN excuse[s] \ {"missed", "overwritten"} ELSE excuse[s] \cup why

\* Fault: an event about a session the list does not have is ignored.
MergedKnown(e) == IF cache[e.s] = 0 THEN cache ELSE [cache EXCEPT ![e.s] = e.v]

\* mergeSession replaces the entry or adds one, whatever is there.
Merged(e) == [cache EXCEPT ![e.s] = e.v]

OnMessage(x) ==
    /\ stream[x].client = "open" /\ stream[x].queue # <<>>
    /\ LET e == Head(stream[x].queue) IN
         /\ cache' = Merged(e)
         /\ excuse' = [excuse EXCEPT ![e.s] = Written(e.s, e.v, {})]
    /\ stream' = [stream EXCEPT ![x].queue = Tail(@)]
    /\ UNCHANGED <<server, hook, fetch, reply, visible>>

\* The interval, the first mount, a retry, or an invalidated query.
StartFetch ==
    /\ fetch.at = "none"
    /\ fetch' = [fetch EXCEPT !.at = "asked"]
    /\ UNCHANGED <<server, stream, hook, cache, reply, excuse, visible>>

\* refetchInterval: not in a tab that is hidden.
Refetch == visible /\ StartFetch

\* A tab that is shown again asks at once (refetchOnWindowFocus).
Show ==
    /\ ~visible /\ visible' = TRUE
    /\ fetch' = IF fetch.at = "none" THEN [fetch EXCEPT !.at = "asked"] ELSE fetch
    /\ UNCHANGED <<server, stream, hook, cache, reply, excuse>>

Hide ==
    /\ visible /\ visible' = FALSE
    /\ UNCHANGED <<server, stream, hook, cache, fetch, reply, excuse>>

AnswerFetch ==
    /\ fetch.at = "asked"
    /\ fetch' = [at |-> "answered", list |-> registry]
    /\ UNCHANGED <<server, stream, hook, cache, reply, excuse, visible>>

FailFetch ==
    /\ fetch.at # "none"
    /\ fetch' = [at |-> "none", list |-> Nothing]
    /\ UNCHANGED <<server, stream, hook, cache, reply, excuse, visible>>

\* Fault: the fetched list is merged like events are.
TakeFetchedMerged ==
    /\ fetch.at = "answered"
    /\ cache' = [s \in Sessions |-> IF fetch.list[s] = 0 THEN cache[s] ELSE fetch.list[s]]
    /\ excuse' = [s \in Sessions |-> Written(s, cache'[s], {"overwritten"})]
    /\ fetch' = [at |-> "none", list |-> Nothing]
    /\ UNCHANGED <<server, stream, hook, reply, visible>>

\* The fetched list takes the place of the cache, events merged since included.
TakeFetched ==
    /\ fetch.at = "answered"
    /\ cache' = fetch.list
    /\ excuse' = [s \in Sessions |-> Written(s, fetch.list[s], {"overwritten"})]
    /\ fetch' = [at |-> "none", list |-> Nothing]
    /\ UNCHANGED <<server, stream, hook, reply, visible>>

\* setQueryData of SessionActions.tsx: only if the session is still in the list.
TakeReply ==
    /\ reply # NoReply
    /\ reply' = NoReply
    /\ IF cache[reply.s] = 0 THEN UNCHANGED <<cache, excuse>>
       ELSE /\ cache' = [cache EXCEPT ![reply.s] = reply.v]
            /\ excuse' = [excuse EXCEPT ![reply.s] = Written(reply.s, reply.v, {"overwritten"})]
    /\ UNCHANGED <<server, stream, hook, fetch, visible>>

\* setQueryData: react-query begins the 15 s of refetchInterval anew.
CacheWritten == TakeReply \/ \E x \in Streams : OnMessage(x)

Next ==
    \/ \E s \in Sessions : \/ Changed(s) \/ UpdateFromTab(s) \/ StoredUnpublished(s)
                           \/ End(s) \/ Purge(s) \/ RunnerReports(s)
    \/ \E x \in Streams : Subscribe(x) \/ Unsubscribe(x) \/ OnOpen(x) \/ OnError(x) \/ OnMessage(x)
    \/ RunEffect \/ Disable \/ TimerFires
    \/ StartFetch \/ Show \/ Hide \/ AnswerFetch \/ FailFetch \/ TakeFetched \/ TakeReply

(***************************************************************************)
(* refetchInterval asks again and again unless something keeps writing the  *)
(* cache, and a gateway that is asked again and again answers in the end.   *)
(* Of the stream nothing is assumed.                                        *)
(***************************************************************************)
Fairness == /\ WF_vars(Refetch) \/ []<><<CacheWritten>>_vars
            /\ SF_vars(AnswerFetch) /\ SF_vars(TakeFetched)

Spec == Init /\ [][Next]_vars /\ Fairness

-----------------------------------------------------------------------------

\* What a subscriber has still to read is the end of what was published: no
\* event is left out, repeated or moved, although it subscribes, is replayed the
\* latest event and leaves at any time between publications.
StreamsAreTails ==
    \A x \in Streams : LET q == stream[x].queue IN
        Len(q) <= Len(log) /\ q = SubSeq(log, Len(log) - Len(q) + 1, Len(log))

\* A tab has one source, or one timer that will open it, never two: no change
\* of the token, retry or error leaves an older source merging into the cache.
OneStream ==
    Cardinality({x \in Streams : Connected(x)}) + (IF timer THEN 1 ELSE 0)
        <= IF enabled THEN 1 ELSE 0

Quiet == Following /\ stream[ref].queue = <<>> /\ fetch.at = "none" /\ reply = NoReply

\* An ended session stays in the list as DEAD until the next fetch.
InSync(s) == cache[s] = ver[s] \/ (registry[s] = 0 /\ cache[s] = 0)

\* "Subscribes to the session SSE stream and keeps the local cache in sync":
\* once a followed stream is drained an entry is out of date only because its
\* event came while the tab was not subscribed (and was not the last), a list
\* or an answer asked for earlier arrived after it, the gateway stored or dropped
\* the session without an event, or a runner reported a state it does not have.
DivergenceExplained == Quiet => \A s \in Sessions : InSync(s) \/ excuse[s] # {}

\* The list on the screen is right again and again, unless the tab stays hidden,
\* or is never hidden while events and answers postpone the refetch for ever (a
\* stream that reconnects and is replayed its latest event more often than every
\* 15 s is enough for that).
CacheCatchesUp == \/ []<>(\A s \in Sessions : InSync(s))
                  \/ <>[]~visible
                  \/ <>[]visible /\ []<><<CacheWritten>>_vars

=============================================================================
