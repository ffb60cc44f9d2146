------------------------------ MODULE Gateway ------------------------------
(***************************************************************************)
(* The gateway's sessions (services/gateway/app): the registry of sessions *)
(* and the websocket bindings, the session commands forwarded to runners,  *)
(* and the loop that discovers runners and purges what the ones that left  *)
(* have left behind.                                                       *)
(*                                                                         *)
(* The registries' locks are never held over an await, so acquiring one    *)
(* does not suspend, and a handler gives way only at its calls to a        *)
(* runner: what it does before such a call is one step, what it does with  *)
(* the answer another.  A command that the gateway's client gives up may   *)
(* still reach the runner later.                                           *)
(*                                                                         *)
(* Abstracted: which registered runner a create selects (RunnerRegistry);  *)
(* the probes are one stage of the loop, a runner's health a choice.  Of a *)
(* session all that matters is whether it has a websocket endpoint: it has *)
(* one from its creation until it ends, and none when it is brought back   *)
(* from DEAD.  Proxies, heartbeats, tokens and events are left out.        *)
(***************************************************************************)
CONSTANTS
    Runners,      \* every runner discovery may ever report
    Configured,   \* settings.runners, which seed the registry
    Sessions,     \* session identifiers
    Tasks,        \* requests the gateway serves at the same time
    NoRunner, NoSession

ASSUME GatewayAssumption ==
    /\ Configured \subseteq Runners
    /\ NoRunner \notin Runners
    /\ NoSession \notin Sessions

VARIABLES
    registered, \* the runners of the RunnerRegistry
    listed,     \* SessionRegistry._sessions
    bound,      \* sessions with an entry in _session_ws_bindings
    owner,      \* session.runner_id
    known,      \* RunnerDiscoveryService._known_runner_ids
    loop,       \* where start-up and then the maintenance loop are
    todo,       \* runners start-up has still to restore from
    gone,       \* result.removed of the loop's refresh
    req,        \* the command a task serves
    pc,         \* where it is: not begun, waiting for the runner, or answered
    about,      \* the session it is about
    answer,     \* the runner's answer
    remote,     \* the sessions on their runners
    late,       \* sessions the creation of which may still reach the runner
    present,    \* the runners discovery would report now
    strayed,    \* history: sessions that were stored after their runner had
                \* left, or missed by a purge that did not take place
    half        \* history: sessions the registration of which failed after their
                \* binding had been made, and that have not been stored since

registryVars == <<registered, listed, bound, owner>>
loopVars == <<known, loop, todo, gone>>
taskVars == <<req, pc, about, answer>>
worldVars == <<remote, late, present>>
historyVars == <<strayed, half>>
vars == <<registryVars, loopVars, taskVars, worldVars, historyVars>>

\* A session with a websocket endpoint and one without.
Forms == {"open", "closed"}
\* The commands; an update may end the session or not.
Requests == {"create", "update", "end", "delete"}
Serving == loop \notin {"start", "restore"}

Init ==
    /\ registered = Configured
    /\ listed = {}
    /\ bound = {}
    /\ owner = [s \in Sessions |-> NoRunner]
    /\ known = {}
    /\ loop = "start"
    /\ todo = {}
    /\ gone = {}
    /\ req = [t \in Tasks |-> "none"]
    /\ pc = [t \in Tasks |-> "idle"]
    /\ about = [t \in Tasks |-> NoSession]
    /\ answer = [t \in Tasks |-> "none"]
    /\ remote = [s \in Sessions |-> "none"]
    /\ late = {}
    /\ present \in SUBSET Runners
    /\ strayed = {}
    /\ half = {}

\* SessionRegistry.upsert, and add of a session that is not there.
Store(s) ==
    /\ listed' = listed \cup {s}
    /\ strayed' = IF owner[s] \in registered THEN strayed ELSE strayed \cup {s}
    /\ half' = half \ {s}

\* SessionRegistry.delete
Unlist(these) ==
    /\ listed' = listed \ these
    /\ strayed' = strayed \ these
    /\ UNCHANGED half

-----------------------------------------------------------------------------
(* The command handlers of routers/sessions.py up to the call of the runner. *)

Send(t, q, s) ==
    /\ req' = [req EXCEPT ![t] = q]
    /\ pc' = [pc EXCEPT ![t] = "sent"]
    /\ about' = [about EXCEPT ![t] = s]
    /\ answer' = [answer EXCEPT ![t] = "none"]

\* execute_create_command, for a runner the caller names or the next in turn.
CallCreate(t, s) ==
    /\ Serving
    /\ pc[t] = "idle"
    /\ owner[s] = NoRunner
    /\ \E r \in registered : owner' = [owner EXCEPT ![s] = r]
    /\ Send(t, "create", s)
    /\ UNCHANGED <<registered, listed, bound, loopVars, worldVars, historyVars>>

\* execute_update_command, execute_delete_command
CallCommand(t, q, s) ==
    /\ Serving
    /\ pc[t] = "idle"
    /\ s \in listed
    /\ owner[s] \in registered
    /\ Send(t, q, s)
    /\ UNCHANGED <<registryVars, loopVars, worldVars, historyVars>>

(* The runner. *)

\* What a command makes of a session on the runner.
Effect(q, form) ==
    IF q = "create" THEN "open" ELSE IF q = "update" THEN form ELSE "closed"

\* The runner does what it is asked, and answers.
RunnerHandles(t) ==
    LET s == about[t] IN
    /\ pc[t] = "sent"
    /\ req[t] = "create" \/ remote[s] # "none"
    /\ remote' = [remote EXCEPT ![s] = Effect(req[t], @)]
    /\ answer' = [answer EXCEPT ![t] = remote'[s]]
    /\ pc' = [pc EXCEPT ![t] = "answered"]
    /\ UNCHANGED <<registryVars, loopVars, req, about, late, present, historyVars>>

\* A creation whose client has given up reaches the runner nevertheless.
RunnerCreatesLate(s) ==
    /\ s \in late
    /\ late' = late \ {s}
    /\ remote' = [remote EXCEPT ![s] = "open"]
    /\ UNCHANGED <<registryVars, loopVars, taskVars, present, historyVars>>

(* The handlers from the answer on. *)

Finish(t) ==
    /\ req' = [req EXCEPT ![t] = "none"]
    /\ pc' = [pc EXCEPT ![t] = "idle"]
    /\ about' = [about EXCEPT ![t] = NoSession]
    /\ answer' = [answer EXCEPT ![t] = "none"]

\* _assign_public_ws_endpoint: a session without an endpoint loses its binding.
Assign(s, form) == bound' = IF form = "open" THEN bound \cup {s} ELSE bound \ {s}

\* create and update: the runner's answer is stored, whatever happened meanwhile.
\* (What can raise after that leaves the registries alone.)
Answered(t) ==
    LET s == about[t] IN
    /\ pc[t] = "answered"
    /\ req[t] # "delete"
    /\ Assign(s, answer[t])
    /\ Store(s)
    /\ Finish(t)
    /\ UNCHANGED <<registered, owner, loopVars, worldVars>>

\* Fault: the local record is dropped and its binding is not.
DeletedKeepsBinding(t) ==
    LET s == about[t] IN
    /\ pc[t] = "answered"
    /\ req[t] = "delete"
    /\ Unlist({s})
    /\ Finish(t)
    /\ UNCHANGED <<registered, bound, owner, loopVars, worldVars>>

\* delete: the dead session is dropped; registry.delete raises KeyError, and the
\* handler ends, when it is not there any more.
Deleted(t) ==
    LET s == about[t] IN
    /\ pc[t] = "answered"
    /\ req[t] = "delete"
    /\ bound' = bound \ {s}
    /\ Unlist({s})
    /\ Finish(t)
    /\ UNCHANGED <<registered, owner, loopVars, worldVars>>

\* The binding of the dead session is dropped, and then its VNC details do not fit
\* the runner's templates: the handler raises before it drops the session.
DeletedInPart(t) ==
    /\ pc[t] = "answered"
    /\ req[t] = "delete"
    /\ bound' = bound \ {about[t]}
    /\ Finish(t)
    /\ UNCHANGED <<registered, listed, owner, loopVars, worldVars, historyVars>>

\* RunnerCommandError, a 502 to the caller: the runner refuses or is not there, ...
Rejected(t) ==
    /\ pc[t] = "sent"
    /\ owner' = IF req[t] = "create" THEN [owner EXCEPT ![about[t]] = NoRunner] ELSE owner
    /\ Finish(t)
    /\ UNCHANGED <<registered, listed, bound, loopVars, worldVars, historyVars>>

\* The commands of some tasks are lost, or are on their way to the runner alone
\* (a late end is no different from SessionEnds).
Abandon(tasks) ==
    \E on \in SUBSET {t \in tasks : pc[t] = "sent" /\ req[t] = "create"} :
        late' = late \cup {about[t] : t \in on}

\* ... or the client's time-out passes, before the runner has looked at the
\* command or after it has answered.
TimesOut(t) ==
    /\ pc[t] # "idle"
    /\ Abandon({t})
    /\ Finish(t)
    /\ UNCHANGED <<registryVars, loopVars, remote, present, historyVars>>

-----------------------------------------------------------------------------
(* The endpoints that call no runner. *)

\* POST /sessions: the binding is registered before add() looks for a conflict.
Register(s) ==
    /\ Serving
    /\ remote[s] # "none"
    /\ Assign(s, remote[s])
    /\ IF s \in listed THEN UNCHANGED <<listed, historyVars>> ELSE Store(s)
    /\ UNCHANGED <<registered, owner, loopVars, taskVars, worldVars>>

\* Between the two the session's VNC details are rewritten with its runner's
\* templates, which may not make a valid URL: the handler raises.
RegisterInPart(s) ==
    /\ Serving
    /\ remote[s] # "none"
    /\ owner[s] \in registered
    /\ Assign(s, remote[s])
    /\ half' = IF s \in listed THEN half ELSE half \cup {s}
    /\ UNCHANGED <<registered, listed, owner, loopVars, taskVars, worldVars, strayed>>

\* DELETE /sessions/{id}: only the gateway forgets the session.
Forget(s) ==
    /\ Serving
    /\ s \in listed
    /\ Unlist({s})
    /\ bound' = bound \ {s}
    /\ UNCHANGED <<registered, owner, loopVars, taskVars, worldVars>>

-----------------------------------------------------------------------------
(* Start-up, and _runner_maintenance_loop. *)

\* Fault: the removed runners are computed after the known ones were replaced.
RemovedLate(reported) == known \ (known \cup reported)

Removed(reported) == known \ reported

\* refresh(): what is reported is registered; _handle_removed_runners drops the
\* bindings of the runners that were reported before and are not now, and the
\* runners.  One that only the settings named is never known, and stays.
Discover ==
    LET removed == Removed(present) IN
    /\ loop \in {"start", "refresh"}
    /\ registered' = (registered \cup present) \ removed
    /\ bound' = {s \in bound : owner[s] \notin removed}
    /\ known' = present
    /\ gone' = removed
    /\ strayed' = {s \in strayed : owner[s] \notin registered'}
    /\ todo' = IF loop = "start" THEN registered' ELSE {}
    /\ loop' = IF loop = "start" THEN "restore" ELSE "probe"
    /\ UNCHANGED <<listed, owner, taskVars, worldVars, half>>

\* _restore_runner_sessions, of one runner: skipped when it is not healthy or
\* does not answer.
Restore(r) ==
    LET its == {s \in Sessions : remote[s] # "none" /\ owner[s] = r} IN
    /\ loop = "restore"
    /\ r \in todo
    /\ todo' = todo \ {r}
    /\ \/ /\ listed' = listed \cup its
          /\ bound' = (bound \ its) \cup {s \in its : remote[s] = "open"}
          /\ half' = half \ its
       \/ UNCHANGED <<listed, bound, half>>
    /\ UNCHANGED <<registered, owner, known, loop, gone,
                   taskVars, worldVars, strayed>>

Restored ==
    /\ loop = "restore"
    /\ todo = {}
    /\ loop' = "refresh"
    /\ UNCHANGED <<registryVars, known, todo, gone, taskVars, worldVars, historyVars>>

\* Fault: an answer that cannot be parsed ends the loop.
ProbeRaisesOut ==
    /\ loop = "probe"
    /\ registered # {}
    /\ loop' = "dead"
    /\ gone' = {}
    /\ UNCHANGED <<registryVars, known, todo, taskVars, worldVars, historyVars>>

\* An answer that cannot be parsed raises: the iteration ends without a purge.
ProbeRaises ==
    /\ loop = "probe"
    /\ registered # {}
    /\ loop' = "refresh"
    /\ gone' = {}
    /\ strayed' = strayed \cup {s \in listed : owner[s] \in gone}
    /\ UNCHANGED <<registryVars, known, todo, taskVars, worldVars, half>>

\* Fault: only sessions with a binding are purged, and refresh() has dropped it.
PurgeBound ==
    LET stale == {s \in bound : owner[s] \in gone} IN
    /\ loop = "probe"
    /\ Unlist(stale)
    /\ bound' = bound \ stale
    /\ loop' = "refresh"
    /\ gone' = {}
    /\ UNCHANGED <<registered, owner, known, todo, taskVars, worldVars>>

\* purge_sessions_for_missing_runners, after the last probe; then the loop sleeps.
Purge ==
    LET stale == {s \in listed : owner[s] \in gone} IN
    /\ loop = "probe"
    /\ Unlist(stale)
    /\ bound' = bound \ stale
    /\ loop' = "refresh"
    /\ gone' = {}
    /\ UNCHANGED <<registered, owner, known, todo, taskVars, worldVars>>

-----------------------------------------------------------------------------
(* The world around the gateway. *)

\* Runners come and go in what discovery reports.
RunnerComes(r) == r \notin present /\ present' = present \cup {r}
RunnerGoes(r) == r \in present /\ present' = present \ {r}

\* A session ends on its runner (the idle reaper); the gateway's registry is not told.
SessionEnds(s) ==
    /\ remote[s] = "open"
    /\ remote' = [remote EXCEPT ![s] = "closed"]
    /\ UNCHANGED <<registryVars, loopVars, taskVars, late, present, historyVars>>

\* A runner restarts and has no sessions any more.
RunnerRestarts(r) ==
    /\ \E s \in Sessions : owner[s] = r /\ remote[s] # "none"
    /\ remote' = [s \in Sessions |-> IF owner[s] = r THEN "none" ELSE remote[s]]
    /\ UNCHANGED <<registryVars, loopVars, taskVars, late, present, historyVars>>

\* The gateway restarts: its registries are empty, its requests are gone.
GatewayRestarts ==
    /\ Serving
    /\ registered' = Configured
    /\ listed' = {}
    /\ bound' = {}
    /\ strayed' = {}
    /\ half' = {}
    /\ known' = {}
    /\ loop' = "start"
    /\ todo' = {}
    /\ gone' = {}
    /\ req' = [t \in Tasks |-> "none"]
    /\ pc' = [t \in Tasks |-> "idle"]
    /\ about' = [t \in Tasks |-> NoSession]
    /\ answer' = [t \in Tasks |-> "none"]
    /\ Abandon(Tasks)
    /\ UNCHANGED <<owner, remote, present>>

Environment ==
    \/ /\ \E r \in Runners : RunnerComes(r) \/ RunnerGoes(r)
       /\ UNCHANGED <<registryVars, loopVars, taskVars, remote, late, historyVars>>
    \/ \E s \in Sessions : SessionEnds(s)
    \/ \E r \in Runners : RunnerRestarts(r)
    \/ GatewayRestarts

Serve(t) ==
    \/ \E s \in Sessions : CallCreate(t, s)
    \/ \E q \in Requests \ {"create"}, s \in Sessions : CallCommand(t, q, s)
    \/ RunnerHandles(t)
    \/ Answered(t)
    \/ Deleted(t)
    \/ DeletedInPart(t)
    \/ Rejected(t)
    \/ TimesOut(t)

Next ==
    \/ \E t \in Tasks : Serve(t)
    \/ \E s \in Sessions : Register(s) \/ RegisterInPart(s) \/ Forget(s)
    \/ \E s \in late : RunnerCreatesLate(s)
    \/ Discover
    \/ \E r \in Runners : Restore(r)
    \/ Restored
    \/ ProbeRaises
    \/ Purge
    \/ Environment

Spec == Init /\ [][Next]_vars

\* The loop goes on: the clients of discovery and of the probes have time-outs,
\* and discovery answers again and again.
Fairness ==
    /\ WF_vars(Discover)
    /\ WF_vars((\E r \in Runners : Restore(r)) \/ Restored)
    /\ WF_vars(Purge \/ ProbeRaises)

FairSpec == Spec /\ Fairness

-----------------------------------------------------------------------------
(***************************************************************************)
(* Properties.                                                             *)
(***************************************************************************)

\* The types of the registries, of the loop and of the requests' places in their
\* handlers; discovery only knows registered runners.
TypeOK ==
    /\ registered \subseteq Runners
    /\ listed \subseteq Sessions
    /\ bound \subseteq Sessions
    /\ owner \in [Sessions -> Runners \cup {NoRunner}]
    /\ known \subseteq registered /\ todo \subseteq registered /\ gone \subseteq Runners
    /\ loop \in {"start", "restore", "refresh", "probe"}
    /\ req \in [Tasks -> Requests \cup {"none"}]
    /\ pc \in [Tasks -> {"idle", "sent", "answered"}]
    /\ about \in [Tasks -> Sessions \cup {NoSession}]
    /\ answer \in [Tasks -> Forms \cup {"none"}]
    /\ remote \in [Sessions -> Forms \cup {"none"}]
    /\ late \subseteq Sessions
    /\ present \subseteq Runners
    /\ strayed \subseteq Sessions
    /\ half \subseteq Sessions

\* A websocket binding belongs to a listed session: whatever order answers,
\* deletions, removals of runners and purges come in, no binding outlives its
\* session.  Only the registration of a session may fail and leave the binding it
\* has begun with, until the session is stored after all.
BindingsHaveSessions == bound \subseteq listed \cup half

\* A session is listed without its runner only until the purge that is due, or
\* when it was stored after the runner had left, or a probe kept the purge from
\* taking place.
OrphansAreKnown ==
    \A s \in listed : owner[s] \in registered \cup gone \/ s \in strayed

\* A runner discovery has reported and reports no longer leaves the registry (one
\* of the settings can come back with a restart, and discovery never knew it).
RemovedRunnersLeave ==
    \A r \in Runners :
        (r \in known /\ r \notin present)
            ~> (r \notin registered \/ r \in present \/ r \in Configured)
=============================================================================
