--------------------------- MODULE SessionManager ---------------------------
(***************************************************************************)
(* The runner's SessionManager (services/runner/app/session_manager.py)    *)
(* together with the warm pool it draws browsers from, the operators that  *)
(* call the same pool over /workstations, the idle reaper and the          *)
(* startup and shutdown hooks.                                             *)
(*                                                                         *)
(* create_session and update_session hold the manager's lock from          *)
(* beginning to end, so at most one task is inside one of them; a task     *)
(* that waits for the lock is simply a task that has not begun.  Under the *)
(* lock the task awaits the pool, a launch or the publisher, and there     *)
(* operators and the pool's own work interleave: operators never take the  *)
(* manager's lock.  Work under the lock that only this manager can observe *)
(* (killing a cold browser, releasing a VNC pipeline) is part of the step  *)
(* that starts it.  VncPool tells when the release of a pipeline raises:   *)
(* here it may, after the helpers have ended.                              *)
(*                                                                         *)
(* Abstracted: INIT, READY and TERMINATING are "LIVE" (the code tells only *)
(* DEAD apart), a session's times are one flag (its idle TTL has passed),  *)
(* its VNC pipeline is one flag, and names, metadata, labels and metrics   *)
(* other than the active-session count are left out.                       *)
(***************************************************************************)
EXTENDS Naturals, FiniteSets

CONSTANTS
    Sessions,    \* session identifiers: bounds the sessions ever created
    Requests,    \* tasks that serve /sessions requests
    Operators,   \* tasks that serve /workstations requests
    OperatorCalls, \* the calls of the pool they are considered to make
    Reaper,      \* the reaper task
    Main,        \* the task of the startup and shutdown hooks
    Modes,       \* the values of settings.warm_pool_mode considered
    Restartable, \* start() may be called again after stop()
    Slots, Browsers, NoBrowser, NoClient, NoSlot, NoSession, MaxRetries

Clients == Requests \cup Operators \cup {Reaper, Main}
Managers == Requests \cup {Reaper}

ASSUME SessionManagerAssumption ==
    /\ Reaper \notin Requests \cup Operators \cup {Main}
    /\ Main \notin Requests \cup Operators
    /\ Requests \cap Operators = {}
    /\ OperatorCalls \subseteq {"reserve", "busy", "cancel", "release", "restart",
                              "enable", "drain_slot"}
    /\ Restartable \in BOOLEAN
    /\ Modes \subseteq {"warm_only", "cold_only", "hybrid"}
    /\ NoSession \notin Sessions
    /\ NoBrowser \notin Browsers
    /\ NoClient \notin Clients
    /\ NoSlot \notin Slots
    /\ MaxRetries \in Nat \ {0}

VARIABLES state, handle, lock, draining, live, op, pc, target, launched, attempt, todo,
          used, stranded, drained, reenabled, lost

Pool == INSTANCE WarmPool WITH Starter <- Main

poolVars == <<state, handle, lock, draining, live, op, pc, target, launched, attempt,
              todo, used, stranded, drained, reenabled, lost>>

VARIABLES
    mode,       \* settings.warm_pool_mode
    status,     \* _sessions: the status of a session, "none" when not stored
    endpoint,   \* the session has a ws_endpoint
    browserOf,  \* _browser_handles
    warmOf,     \* _warm_sessions
    vncOf,      \* _vnc_handles
    vncLive,    \* sessions whose VNC helper processes run
    active,     \* _active_sessions
    idle,       \* the session's idle TTL has passed
    mlock,      \* holder of _lock
    mpc,        \* where a task is in create, update or reap
    cur,        \* the session it works on
    hold,       \* the slot it has reserved
    inHand,     \* the browser it has acquired
    phase,      \* the application: starting, serving, or where in stop() it is
    reaping,    \* the reaper task: off, on, or dead of an exception
    expired,    \* the identifiers a sweep has still to end
    opHeld,     \* history: the slots an operator has reserved and not given back
    intruded,   \* history: slots an operator took on that another had reserved
    botched,    \* history: sessions whose end lost its way in the VNC release
    cut         \* history: sessions whose end stop() cut off

sessionVars == <<status, endpoint, browserOf, warmOf, vncOf, vncLive, active, idle>>
taskVars == <<mlock, mpc, cur, hold, inHand, expired>>
appVars == <<mode, phase, reaping, opHeld, intruded, botched, cut>>
managerVars == <<sessionVars, taskVars, appVars>>
vars == <<poolVars, managerVars>>

Payloads == [status : {"keep", "LIVE", "DEAD"}, endpoint : {"keep", "clear", "replace"},
             vnc : {"keep", "off"}]
EndPayload == [status |-> "DEAD", endpoint |-> "clear", vnc |-> "off"]

LiveSessions == {s \in Sessions : status[s] = "LIVE"}

-----------------------------------------------------------------------------
(* Decisions of update_session and stop, each as the code takes it. *)

\* Fault: every end counts, the first and the repeated ones.
RecountUnguarded(prev, next) ==
    IF next = "DEAD" THEN active - 1
    ELSE IF prev = "DEAD" /\ next = "LIVE" THEN active + 1 ELSE active

\* Fault: a session that leaves DEAD is not counted again.
RecountNoRevival(prev, next) ==
    IF prev = "LIVE" /\ next = "DEAD" /\ active > 0 THEN active - 1 ELSE active

\* The count after a change of a session's status.
Recount(prev, next) ==
    IF prev = "LIVE" /\ next = "DEAD" /\ active > 0 THEN active - 1
    ELSE IF prev = "DEAD" /\ next = "LIVE" THEN active + 1 ELSE active

NextStatus(s, p) == IF p.status = "keep" THEN status[s] ELSE p.status

\* Fault: only a changed endpoint drops the browser, not a death.
DropsBrowserOnClear(s, p) == endpoint[s] /\ p.endpoint # "keep"

\* _should_cleanup_browser: the old endpoint is cleared or changed, or its
\* session is now dead.
DropsBrowser(s, p) ==
    endpoint[s] /\ (p.endpoint # "keep" \/ NextStatus(s, p) = "DEAD")

\* _should_cleanup_vnc, and whether the end of a session gives its slot back.
DropsVnc(s, p) == vncOf[s] /\ (NextStatus(s, p) = "DEAD" \/ p.vnc = "off")
ReleasesWarm(s, p) == status[s] = "LIVE" /\ NextStatus(s, p) = "DEAD" /\ warmOf[s] # NoSlot

\* Fault: the handle is forgotten, the process is not killed.
ForgetsCold(s) == {}

\* What _shutdown_browser kills: a warm slot's browser is left to the pool.
Killed(s) == IF warmOf[s] = NoSlot THEN {browserOf[s]} ELSE {}

\* Fault: stop() clears the handles without killing the processes.
NoColdBrowsers == {}

\* What stop() kills: the browsers of sessions without a workstation.
ColdBrowsers == {browserOf[s] : s \in {x \in Sessions : warmOf[x] = NoSlot}}

-----------------------------------------------------------------------------
Init ==
    /\ Pool!Init
    /\ mode \in Modes
    /\ status = [s \in Sessions |-> "none"]
    /\ endpoint = [s \in Sessions |-> FALSE]
    /\ browserOf = [s \in Sessions |-> NoBrowser]
    /\ warmOf = [s \in Sessions |-> NoSlot]
    /\ vncOf = [s \in Sessions |-> FALSE]
    /\ vncLive = {}
    /\ active = 0
    /\ idle = [s \in Sessions |-> FALSE]
    /\ mlock = NoClient
    /\ mpc = [t \in Managers |-> "idle"]
    /\ cur = [t \in Managers |-> NoSession]
    /\ hold = [t \in Managers |-> NoSlot]
    /\ inHand = [t \in Managers |-> NoBrowser]
    /\ phase = "starting"
    /\ reaping = "off"
    /\ expired = {}
    /\ opHeld = [t \in Operators |-> {}]
    /\ intruded = {}
    /\ botched = {}
    /\ cut = {}

\* The task leaves the manager and its lock is given back; the reaper goes on with
\* what its sweep has left.
Leave(t) ==
    /\ mlock' = NoClient
    /\ mpc' = [mpc EXCEPT ![t] = IF t = Reaper /\ expired # {} THEN "sweep" ELSE "idle"]
    /\ cur' = [cur EXCEPT ![t] = NoSession]
    /\ hold' = [hold EXCEPT ![t] = NoSlot]
    /\ inHand' = [inHand EXCEPT ![t] = NoBrowser]

\* Fault: the lock is not released when an exception passes.
RaiseKeepsLock(t) ==
    /\ mpc' = [mpc EXCEPT ![t] = "idle"]
    /\ cur' = [cur EXCEPT ![t] = NoSession]
    /\ reaping' = IF t = Reaper THEN "dead" ELSE reaping
    /\ UNCHANGED <<mlock, hold, inHand, expired>>

\* An exception leaves the manager: a request answers with an error, the reaper,
\* which catches only SessionNotFoundError, ends.
Raise(t) ==
    /\ IF t = Reaper
       THEN /\ mlock' = NoClient
            /\ mpc' = [mpc EXCEPT ![t] = "idle"]
            /\ cur' = [cur EXCEPT ![t] = NoSession]
            /\ reaping' = "dead"
            /\ expired' = {}
            /\ UNCHANGED <<hold, inHand>>
       ELSE Leave(t) /\ UNCHANGED <<reaping, expired>>

Goto(t, place) == mpc' = [mpc EXCEPT ![t] = place]

-----------------------------------------------------------------------------
(* create_session *)

\* The lock, the VNC pipeline (allocated or not wanted), the choice of a source.
\* A warm-only runner refuses requests with flags of their own.
CreateBegin(t, s, wantsVnc, customFlags) ==
    /\ phase = "serving"
    /\ mpc[t] = "idle" /\ mlock = NoClient
    /\ status[s] = "none"
    /\ ~(mode = "warm_only" /\ customFlags)
    /\ mlock' = t
    /\ cur' = [cur EXCEPT ![t] = s]
    /\ vncLive' = IF wantsVnc THEN vncLive \cup {s} ELSE vncLive
    /\ Goto(t, IF mode = "cold_only" \/ customFlags THEN "cold" ELSE "reserve")
    /\ UNCHANGED <<poolVars, status, endpoint, browserOf, warmOf, vncOf, active, idle,
                   hold, inHand, expired, appVars>>

\* Fault: the pipeline of a session that never came to be stays.
AbandonKeepsVnc(t) ==
    /\ Leave(t)
    /\ UNCHANGED <<sessionVars, expired>>

\* SessionCapacityError before a session exists: the VNC pipeline is discarded.
Abandon(t) ==
    /\ vncLive' = vncLive \ {cur[t]}
    /\ Leave(t)
    /\ UNCHANGED <<status, endpoint, browserOf, warmOf, vncOf, active, idle, expired>>

\* No warm slot: a warm-only runner gives up, a hybrid one launches a browser.
NoWarmSlot(t) ==
    IF mode = "warm_only"
    THEN Abandon(t)
    ELSE Goto(t, "cold") /\ UNCHANGED <<sessionVars, mlock, cur, hold, inHand, expired>>

CreateReserve(t) ==
    /\ mpc[t] = "reserve"
    /\ \/ \E w \in Slots :
            /\ Pool!CallReserve(t, w)
            /\ Goto(t, "reserving")
            /\ hold' = [hold EXCEPT ![t] = w]
            /\ UNCHANGED <<sessionVars, mlock, cur, inHand, expired>>
       \/ \E asked \in {{w} : w \in Slots} \cup {Slots, {}} :
            /\ Pool!ReserveRefused(asked)
            /\ NoWarmSlot(t)
            /\ UNCHANGED poolVars
    /\ UNCHANGED appVars

CreateReserved(t) ==
    /\ mpc[t] = "reserving"
    /\ \/ /\ Pool!Switch(t)
          /\ inHand' = [inHand EXCEPT ![t] = handle[hold[t]]]
          /\ Goto(t, "build")
          /\ UNCHANGED <<sessionVars, mlock, cur, hold, expired>>
       \/ /\ Pool!Refuse(t)
          /\ NoWarmSlot(t)
    /\ UNCHANGED appVars

\* launch_browser returns a running browser, raises, or raises and leaves the
\* browser running (the ValueError that Pool!SpawnLoses is about).
CreateCold(t) ==
    /\ mpc[t] = "cold"
    /\ \/ \E b \in Pool!Fresh :
            /\ live' = live \cup {b}
            /\ inHand' = [inHand EXCEPT ![t] = b]
            /\ hold' = [hold EXCEPT ![t] = NoSlot]
            /\ Goto(t, "build")
            /\ UNCHANGED <<lost, sessionVars, mlock, cur, expired>>
       \/ Abandon(t) /\ UNCHANGED <<live, lost>>
       \/ \E b \in Pool!Fresh :
            /\ live' = live \cup {b}
            /\ lost' = lost \cup {b}
            /\ Abandon(t)
    /\ UNCHANGED <<appVars, state, handle, lock, draining, op, pc, target, launched, attempt,
                   todo, used, stranded, drained, reenabled>>

\* The Session object is built, and a warm one's slot is marked busy.  A validation
\* error undoes the acquisition.
CreateBuild(t) ==
    /\ mpc[t] = "build"
    /\ \/ /\ hold[t] = NoSlot
          /\ live' = live \ {inHand[t]}
          /\ Abandon(t)
          /\ UNCHANGED <<state, handle, lock, draining, op, pc, target, launched, attempt,
                         todo, used, stranded, drained, reenabled, lost>>
       \/ /\ hold[t] # NoSlot
          /\ \/ Pool!Call(t, "busy", hold[t]) /\ Goto(t, "marking")
             \/ Pool!Call(t, "cancel", hold[t]) /\ Goto(t, "cancelling")
          /\ UNCHANGED <<sessionVars, mlock, cur, hold, inHand, expired>>
    /\ UNCHANGED appVars

\* A slot that is no longer reserved is a capacity error: cancel, and give up.
CreateNotMarked(t) ==
    /\ mpc[t] = "marking"
    /\ Pool!Refuse(t)
    /\ Goto(t, "cancel")
    /\ UNCHANGED <<sessionVars, mlock, cur, hold, inHand, expired, appVars>>

CreateCancel(t) ==
    /\ mpc[t] = "cancel"
    /\ Pool!Call(t, "cancel", hold[t])
    /\ Goto(t, "cancelling")
    /\ UNCHANGED <<sessionVars, mlock, cur, hold, inHand, expired, appVars>>

CreateCancelled(t) ==
    /\ mpc[t] = "cancelling"
    /\ Pool!Switch(t) \/ Pool!Refuse(t)
    /\ Abandon(t)
    /\ UNCHANGED appVars

\* The session, its handles and the count are stored: a cold one's at once, a warm
\* one's when its slot is busy.  The payload may ask for any status; only a LIVE one
\* is counted.
CreateStore(t, st) ==
    LET s == cur[t] IN
    /\ \/ mpc[t] = "build" /\ hold[t] = NoSlot /\ UNCHANGED poolVars
       \/ mpc[t] = "marking" /\ Pool!Switch(t)
    /\ status' = [status EXCEPT ![s] = st]
    /\ endpoint' = [endpoint EXCEPT ![s] = TRUE]
    /\ browserOf' = [browserOf EXCEPT ![s] = inHand[t]]
    /\ warmOf' = [warmOf EXCEPT ![s] = hold[t]]
    /\ vncOf' = [vncOf EXCEPT ![s] = s \in vncLive]
    /\ active' = IF st = "LIVE" THEN active + 1 ELSE active
    /\ idle' = [idle EXCEPT ![s] = FALSE]
    /\ inHand' = [inHand EXCEPT ![t] = NoBrowser]
    /\ hold' = [hold EXCEPT ![t] = NoSlot]
    /\ Goto(t, "created")
    /\ UNCHANGED <<vncLive, mlock, cur, expired, appVars>>

PublishCreated(t) ==
    /\ mpc[t] = "created"
    /\ status[cur[t]] = "LIVE"
    /\ Leave(t)
    /\ UNCHANGED <<poolVars, status, endpoint, browserOf, warmOf, vncOf, vncLive, active,
                   idle, expired, appVars>>

\* The publisher raises, or the event is invalid: everything is taken back.  A
\* warm slot is released; errors of the clean-up are suppressed.
PublishCreatedFails(t) ==
    LET s == cur[t] IN
    /\ mpc[t] = "created"
    /\ status' = [status EXCEPT ![s] = "none"]
    /\ endpoint' = [endpoint EXCEPT ![s] = FALSE]
    /\ browserOf' = [browserOf EXCEPT ![s] = NoBrowser]
    /\ warmOf' = [warmOf EXCEPT ![s] = NoSlot]
    /\ vncOf' = [vncOf EXCEPT ![s] = FALSE]
    /\ vncLive' = vncLive \ {s}
    /\ active' = IF status[s] = "LIVE" /\ active > 0 THEN active - 1 ELSE active
    /\ \/ /\ warmOf[s] # NoSlot
          /\ Pool!Call(t, "release", warmOf[s])
          /\ Goto(t, "undoing")
          /\ UNCHANGED <<mlock, cur, hold, inHand>>
       \/ /\ warmOf[s] = NoSlot
          /\ live' = live \ {browserOf[s]}
          /\ Leave(t)
          /\ UNCHANGED <<state, handle, lock, draining, op, pc, target, launched, attempt,
                         todo, used, stranded, drained, reenabled, lost>>
    /\ UNCHANGED <<idle, expired, appVars>>

\* The rollback's release returns or raises.
CreateUndone(t) ==
    /\ mpc[t] = "undoing"
    /\ Pool!Step(t) /\ op'[t] = "none"
    /\ Leave(t)
    /\ UNCHANGED <<sessionVars, expired, appVars>>

-----------------------------------------------------------------------------
(* update_session; end_session and touch_session are calls of it. *)

\* The new snapshot and the count are stored, and the browser is dropped, before
\* anything else is cleaned up.
Stores(s, p) ==
    /\ status[s] # "none"
    /\ status' = [status EXCEPT ![s] = NextStatus(s, p)]
    /\ endpoint' = [endpoint EXCEPT ![s] =
            CASE p.endpoint = "replace" -> TRUE
              [] p.endpoint = "clear" \/ p.status = "DEAD" -> FALSE
              [] OTHER -> @]
    /\ active' = Recount(status[s], NextStatus(s, p))
    /\ idle' = [idle EXCEPT ![s] = FALSE]
    /\ browserOf' = [browserOf EXCEPT ![s] = IF DropsBrowser(s, p) THEN NoBrowser ELSE @]

\* The browser is killed and the pipeline released; whatever raises comes later.
CleansUp(s, p) ==
    /\ phase = "serving"
    /\ mlock = NoClient
    /\ Stores(s, p)
    /\ live' = IF DropsBrowser(s, p) THEN live \ Killed(s) ELSE live
    /\ vncOf' = [vncOf EXCEPT ![s] = @ /\ ~DropsVnc(s, p)]
    /\ vncLive' = IF DropsVnc(s, p) THEN vncLive \ {s} ELSE vncLive
    /\ UNCHANGED <<state, handle, lock, draining, op, pc, target, launched, attempt, todo,
                   used, stranded, drained, reenabled, lost, warmOf>>

Update(t, s, p) ==
    /\ CleansUp(s, p)
    /\ mlock' = t
    /\ cur' = [cur EXCEPT ![t] = s]
    /\ Goto(t, IF ReleasesWarm(s, p) THEN "release" ELSE "publish")
    /\ UNCHANGED <<hold, inHand, appVars>>

\* The pipeline's release has ended the helpers and raises what a log reader of
\* theirs died of: the workstation is not released, nothing is published.
UpdateRaises(t, s, p) ==
    /\ DropsVnc(s, p)
    /\ CleansUp(s, p)
    /\ Raise(t)
    /\ botched' = IF ReleasesWarm(s, p) THEN botched \cup {s} ELSE botched
    /\ UNCHANGED <<mode, phase, opHeld, intruded, cut>>

\* To ask for the status, the missing endpoint or the missing pipeline that the session
\* has is to ask for nothing: one payload stands for all that ask the same.
Asks(s, p) ==
    /\ p.status = "LIVE" => status[s] = "DEAD"
    /\ p.endpoint = "clear" => endpoint[s]
    /\ p.vnc = "off" => vncOf[s]

UpdateRequest(t, s, p) ==
    /\ t \in Requests
    /\ mpc[t] = "idle"
    /\ Asks(s, p)
    /\ \/ Update(t, s, p) /\ UNCHANGED expired
       \/ UpdateRaises(t, s, p)

\* Fault: the slot is recycled while the session still has it.
UpdateReleaseLate(t) ==
    /\ mpc[t] = "release"
    /\ Pool!Call(t, "release", warmOf[cur[t]])
    /\ Goto(t, "releasing")
    /\ UNCHANGED <<sessionVars, mlock, cur, hold, inHand, expired, appVars>>

\* Fault: the slot is forgotten and not recycled.
UpdateReleaseOnlyForgets(t) ==
    /\ mpc[t] = "release"
    /\ warmOf' = [warmOf EXCEPT ![cur[t]] = NoSlot]
    /\ Goto(t, "publish")
    /\ UNCHANGED <<poolVars, status, endpoint, browserOf, vncOf, vncLive, active, idle,
                   mlock, cur, hold, inHand, expired, appVars>>

\* _release_warm_slot forgets the slot before it asks the pool to recycle it.
UpdateRelease(t) ==
    LET s == cur[t] IN
    /\ mpc[t] = "release"
    /\ warmOf' = [warmOf EXCEPT ![s] = NoSlot]
    /\ Pool!Call(t, "release", warmOf[s])
    /\ Goto(t, "releasing")
    /\ botched' = botched \ {s}
    /\ UNCHANGED <<status, endpoint, browserOf, vncOf, vncLive, active, idle,
                   mlock, cur, hold, inHand, expired,
                   mode, phase, reaping, opHeld, intruded, cut>>

\* The recycle succeeds, and the change is published, or it raises: the slot
\* was not reserved or busy, provisioning failed, or there was no directory.
UpdateReleased(t) ==
    /\ mpc[t] = "releasing"
    /\ \/ /\ Pool!Prewarm(t)
          /\ Goto(t, "publish")
          /\ UNCHANGED <<mlock, cur, hold, inHand, expired, reaping>>
       \/ /\ \/ Pool!Refuse(t)
             \/ Pool!DirectoryFails(t)
             \/ /\ \/ Pool!SpawnFails(t)
                   \/ \E b \in Browsers : Pool!SpawnLoses(t, b)
                   \/ Pool!PrewarmFails(t)
                /\ op'[t] = "none"
          /\ Raise(t)
    /\ UNCHANGED <<sessionVars, mode, phase, opHeld, intruded, botched, cut>>

PublishUpdate(t) ==
    /\ mpc[t] = "publish"
    /\ Leave(t)
    /\ UNCHANGED <<poolVars, status, endpoint, browserOf, warmOf, vncOf, vncLive, active,
                   idle, expired, appVars>>

PublishUpdateFails(t) ==
    /\ mpc[t] = "publish"
    /\ Raise(t)
    /\ UNCHANGED <<poolVars, sessionVars, mode, phase, opHeld, intruded, botched, cut>>

-----------------------------------------------------------------------------
(* reap_expired_sessions, in the loop of _reaper_loop. *)

\* Fault: sessions whose endpoint was cleared are not looked at.
ExpiredWithEndpoint == {s \in LiveSessions : idle[s] /\ endpoint[s]}

\* The sessions a sweep finds expired.
Expired == {s \in LiveSessions : idle[s]}

\* The sweep collects the expired identifiers and gives the lock back ...
ReapCollect ==
    /\ phase = "serving"
    /\ reaping = "on"
    /\ mpc[Reaper] = "idle" /\ mlock = NoClient
    /\ expired' = Expired
    /\ expired' # {}
    /\ Goto(Reaper, "sweep")
    /\ UNCHANGED <<poolVars, sessionVars, mlock, cur, hold, inHand, appVars>>

\* ... then ends them one by one, each under the lock again.  (All are still stored:
\* only a failing create_session removes a session, under the lock.)
ReapOne(s) ==
    /\ mpc[Reaper] = "sweep"
    /\ s \in expired
    /\ \/ Update(Reaper, s, EndPayload) /\ expired' = expired \ {s}
       \/ UpdateRaises(Reaper, s, EndPayload)

\* Time passes.  (Nothing looks at a session's times while the runner starts or
\* stops: what passes then is seen once it serves.)
TTLPasses(s) ==
    /\ phase = "serving"
    /\ status[s] = "LIVE"
    /\ ~idle[s]
    /\ idle' = [idle EXCEPT ![s] = TRUE]
    /\ UNCHANGED <<poolVars, status, endpoint, browserOf, warmOf, vncOf, vncLive, active,
                   taskVars, appVars>>

-----------------------------------------------------------------------------
(* The workstation endpoints: they call the pool, know no sessions, and check   *)
(* nothing about whose slot it is.                                             *)

OperatorBegins(t) ==
    /\ phase = "serving"
    /\ \/ "reserve" \in OperatorCalls /\ \E w \in Slots : Pool!CallReserve(t, w)
       \/ \E o \in OperatorCalls, w \in Slots : Pool!Call(t, o, w)
    /\ UNCHANGED managerVars

\* The pool accepts, from a task that has not reserved the slot, a call meant for
\* the one that has.
Intrudes(t) ==
    /\ t \in Operators
    /\ pc[t] = "wait"
    /\ op[t] \in {"busy", "cancel", "release"}
    /\ Pool!Accepted(t)
    /\ target[t] \notin opHeld[t]

RecordsIntrusion(t) ==
    intruded' = IF Intrudes(t) THEN intruded \cup {target[t]} ELSE intruded

OperatorReturns(t) ==
    /\ Pool!Step(t)
    /\ op'[t] = "none"
    /\ opHeld' = [opHeld EXCEPT ![t] =
            IF pc[t] = "wait" /\ ~Pool!Accepted(t) THEN @
            ELSE IF op[t] = "reserve" THEN @ \cup {target[t]}
            ELSE IF op[t] \in {"cancel", "release"} THEN @ \ {target[t]} ELSE @]
    /\ RecordsIntrusion(t)
    /\ UNCHANGED <<sessionVars, taskVars, mode, phase, reaping, botched, cut>>

\* The pool's work on a call that is not finished by the step.  (When start()
\* fails the application's phase stays "starting": it never serves.)
PoolWorks(t) ==
    /\ Pool!Step(t)
    /\ op'[t] # "none"
    /\ RecordsIntrusion(t)
    /\ UNCHANGED <<sessionVars, taskVars, mode, phase, reaping, opHeld, botched, cut>>

-----------------------------------------------------------------------------
(* start() and stop(), called by the FastAPI hooks. *)

\* The pool's start() returns and the reaper is started.
Started ==
    /\ phase = "starting"
    /\ Pool!LoopDone(Main)
    /\ phase' = "serving"
    /\ reaping' = "on"
    /\ UNCHANGED <<sessionVars, taskVars, mode, opHeld, intruded, botched, cut>>

\* stop() takes the lock and gives it back; then it cancels the reaper.  (uvicorn
\* runs the shutdown hook when no request is being served and takes no more.)
StopBegin ==
    /\ phase = "serving"
    /\ mlock = NoClient
    /\ \A t \in Requests : mpc[t] = "idle"
    /\ \A t \in Operators \cup {Main} : pc[t] = "idle"
    /\ phase' = "cancelling"
    /\ UNCHANGED <<poolVars, sessionVars, taskVars, mode, reaping, opHeld, intruded, botched,
                   cut>>

ReaperEnds(how) ==
    /\ phase = "cancelling"
    /\ reaping = "on"
    /\ reaping' = how
    /\ mpc' = [mpc EXCEPT ![Reaper] = "idle"]
    /\ expired' = {}
    /\ UNCHANGED <<handle, lock, draining, op, pc, target, launched, attempt, todo, used,
                   drained, reenabled, lost, mlock, cur, hold, inHand,
                   mode, phase, opHeld, intruded, botched>>

\* The reaper sleeps, or is cancelled while it waits for the lock.
ReaperCancelled ==
    /\ ReaperEnds("off")
    /\ UNCHANGED <<state, live, stranded, sessionVars, cut>>

\* The lock stop() gave back woke the reaper in its sweep: it ends one more
\* session, up to the first await of the update, and is cancelled there.
ReaperCut(s) ==
    LET w == warmOf[s]
        atBrowser == endpoint[s] /\ Killed(s) \ {NoBrowser} # {}
        atVnc == ~atBrowser /\ vncOf[s]
        atRelease == ~atBrowser /\ ~atVnc /\ ReleasesWarm(s, EndPayload)
    IN
    /\ mpc[Reaper] = "sweep"
    /\ s \in expired
    /\ Stores(s, EndPayload)
    /\ \/ \* a cold browser has been killed, nothing after it is reached
          /\ atBrowser
          /\ live' = live \ Killed(s)
          /\ cut' = cut \cup {s}
          /\ ReaperEnds("off")
          /\ UNCHANGED <<state, stranded, warmOf, vncOf, vncLive>>
       \/ \* the pipeline is forgotten, its helpers may run on
          /\ atVnc
          /\ vncOf' = [vncOf EXCEPT ![s] = FALSE]
          /\ vncLive' \in {vncLive, vncLive \ {s}}
          /\ cut' = cut \cup {s}
          /\ ReaperEnds("off")
          /\ UNCHANGED <<state, live, stranded, warmOf>>
       \/ \* the slot is forgotten, its browser killed, its recycle given up
          /\ atRelease
          /\ state[w] \in {"RESERVED", "BUSY"}
          /\ warmOf' = [warmOf EXCEPT ![s] = NoSlot]
          /\ state' = [state EXCEPT ![w] = "RECYCLING"]
          /\ live' = live \ {handle[w]}
          /\ stranded' = stranded \cup {w}
          /\ ReaperEnds("off")
          /\ UNCHANGED <<vncOf, vncLive, cut>>
       \/ \* the slot is not the session's to release any more: an exception
          /\ atRelease
          /\ state[w] \notin {"RESERVED", "BUSY"}
          /\ warmOf' = [warmOf EXCEPT ![s] = NoSlot]
          /\ ReaperEnds("dead")
          /\ UNCHANGED <<state, live, stranded, vncOf, vncLive, cut>>
       \/ \* only the publication is left out
          /\ ~atBrowser /\ ~atVnc /\ ~atRelease
          /\ ReaperEnds("off")
          /\ UNCHANGED <<state, live, stranded, warmOf, vncOf, vncLive, cut>>

\* The reaper is gone: the cold browsers are killed, every handle is forgotten,
\* the pool drains.
StopCleansUp ==
    /\ phase = "cancelling"
    /\ reaping = "off"
    /\ phase' = "stopping"
    /\ live' = live \ ColdBrowsers
    /\ browserOf' = [s \in Sessions |-> NoBrowser]
    /\ draining' = TRUE
    /\ op' = [op EXCEPT ![Main] = "drain"]
    /\ pc' = [pc EXCEPT ![Main] = "next"]
    /\ todo' = [todo EXCEPT ![Main] = Slots]
    /\ UNCHANGED <<state, handle, lock, target, launched, attempt, used, stranded, drained,
                   reenabled, lost, mode, reaping, status, endpoint, warmOf, vncOf, vncLive,
                   active, idle, taskVars, opHeld, intruded, botched, cut>>

\* The reaper died of an exception: leaving its task group raises it again, and
\* stop() cleans up nothing.
StopRaises ==
    /\ phase = "cancelling"
    /\ reaping = "dead"
    /\ phase' = "aborted"
    /\ UNCHANGED <<poolVars, sessionVars, taskVars, mode, reaping, opHeld, intruded, botched,
                   cut>>

\* The drain returns: the reservations are forgotten and every pipeline the
\* manager tracks is released, whatever the release of another raises.
Stopped ==
    /\ phase = "stopping"
    /\ Pool!LoopDone(Main)
    /\ phase' = "stopped"
    /\ warmOf' = [s \in Sessions |-> NoSlot]
    /\ vncOf' = [s \in Sessions |-> FALSE]
    /\ vncLive' = {s \in vncLive : ~vncOf[s]}
    /\ opHeld' = [t \in Operators |-> {}]
    /\ intruded' = {}
    /\ botched' = {}
    /\ UNCHANGED <<mode, status, endpoint, browserOf, active, idle, taskVars, reaping, cut>>

\* start() after stop(): the pool builds its slots anew.
StartAgain ==
    /\ Restartable
    /\ phase = "stopped"
    /\ Pool!CallStart(Main)
    /\ phase' = "starting"
    /\ UNCHANGED <<sessionVars, taskVars, mode, reaping, opHeld, intruded, botched, cut>>

-----------------------------------------------------------------------------
Create(t) ==
    \/ \E s \in Sessions, v, f \in BOOLEAN : CreateBegin(t, s, v, f)
    \/ CreateReserve(t)
    \/ CreateReserved(t)
    \/ CreateCold(t)
    \/ CreateBuild(t)
    \/ CreateNotMarked(t)
    \/ CreateCancel(t)
    \/ CreateCancelled(t)
    \/ \E st \in {"LIVE", "DEAD"} : CreateStore(t, st)
    \/ PublishCreated(t)
    \/ PublishCreatedFails(t)
    \/ CreateUndone(t)

FinishUpdate(t) ==
    \/ UpdateRelease(t)
    \/ UpdateReleased(t)
    \/ PublishUpdate(t)
    \/ PublishUpdateFails(t)

Reap == ReapCollect \/ \E s \in Sessions : ReapOne(s)

ReaperStops == ReaperCancelled \/ \E s \in Sessions : ReaperCut(s)

Next ==
    \/ \E t \in Requests : Create(t)
    \/ \E t \in Requests, s \in Sessions, p \in Payloads : UpdateRequest(t, s, p)
    \/ \E t \in Managers : FinishUpdate(t)
    \/ Reap
    \/ \E s \in Sessions : TTLPasses(s)
    \/ \E t \in Operators : OperatorBegins(t) \/ OperatorReturns(t)
    \/ \E t \in Clients : PoolWorks(t)
    \/ Started
    \/ StopBegin
    \/ ReaperStops
    \/ StopCleansUp
    \/ StopRaises
    \/ Stopped
    \/ StartAgain

Spec == Init /\ [][Next]_vars

\* What a task does once it has begun; only the reaper begins by itself.
Proceeds(t) ==
    \/ t \in Requests /\ mpc[t] # "idle" /\ Create(t)
    \/ t \in Managers /\ FinishUpdate(t)
    \/ t = Reaper /\ Reap
    \/ t \in Operators /\ OperatorReturns(t)
    \/ t = Main /\ (Started \/ ReaperStops \/ StopCleansUp \/ StopRaises \/ Stopped)
    \/ PoolWorks(t)

\* Every await under the locks ends and both kinds of lock wake their waiters in
\* order; requests, operators, time and shutdown are the environment's.
Fairness == \A t \in Clients : SF_vars(Proceeds(t))

FairSpec == Spec /\ Fairness

-----------------------------------------------------------------------------
(***************************************************************************)
(* Properties.                                                             *)
(***************************************************************************)

\* Types of the manager's fields and of a task's place in a method.
TypeOK ==
    /\ mode \in Modes
    /\ status \in [Sessions -> {"none", "LIVE", "DEAD"}]
    /\ endpoint \in [Sessions -> BOOLEAN]
    /\ browserOf \in [Sessions -> Browsers \cup {NoBrowser}]
    /\ warmOf \in [Sessions -> Slots \cup {NoSlot}]
    /\ vncOf \in [Sessions -> BOOLEAN]
    /\ vncLive \subseteq Sessions
    /\ active \in Nat
    /\ idle \in [Sessions -> BOOLEAN]
    /\ mlock \in Managers \cup {NoClient}
    /\ mpc \in [Managers -> {"idle", "cold", "reserve", "reserving", "build", "marking",
            "cancel", "cancelling", "created", "undoing", "release", "releasing",
            "publish", "sweep"}]
    /\ cur \in [Managers -> Sessions \cup {NoSession}]
    /\ hold \in [Managers -> Slots \cup {NoSlot}]
    /\ inHand \in [Managers -> Browsers \cup {NoBrowser}]
    /\ phase \in {"starting", "serving", "cancelling", "stopping", "stopped", "aborted"}
    /\ reaping \in {"off", "on", "dead"}
    /\ expired \subseteq Sessions
    /\ opHeld \in [Operators -> SUBSET Slots]
    /\ intruded \subseteq Slots
    /\ botched \subseteq Sessions
    /\ cut \subseteq Sessions

\* slots.active of /health is the number of sessions that are not DEAD, through
\* failed publications, rollbacks, repeated ends and revivals.
ActiveCountExact == active = Cardinality(LiveSessions)

\* Every running browser is a slot's, a session's, or in the hands of the task
\* that launched it, whichever step of a create, an update or a stop() fails: the
\* only browsers without an owner are those that launch_browser itself lost.
NoLeakedBrowser ==
    \A b \in live \ lost :
        \/ \E w \in Slots : handle[w] = b
        \/ \E c \in Clients : launched[c] = b
        \/ \E s \in Sessions : browserOf[s] = b
        \/ \E t \in Managers : inHand[t] = b

\* VNC helper processes run for a session that tracks them, for the one the lock's
\* holder is creating, or for one whose end stop() cut off.
NoLeakedVnc ==
    \A s \in Sessions :
        /\ vncOf[s] => s \in vncLive
        /\ s \in vncLive =>
               vncOf[s] \/ s \in cut \/ \E t \in Managers : mlock = t /\ cur[t] = s

\* Between two holders of the lock, a session that is dead or was never stored has
\* no browser, no workstation and no VNC pipeline left - unless the release of its
\* pipeline raised, which leaves it the workstation, or stop() cut its end off.
GoneHoldsNothing ==
    mlock = NoClient =>
        \A s \in Sessions \ LiveSessions :
            /\ browserOf[s] = NoBrowser
            /\ warmOf[s] # NoSlot => s \in botched \cup cut
            /\ s \in vncLive => s \in cut

\* While the runner serves, and until an operator takes on a slot it has not reserved,
\* a session's workstation is busy with the browser the session was given, and
\* belongs to no other session and no operator - dead sessions that were left their
\* workstation included.
WorkstationExclusive ==
    phase = "serving" =>
        \A s \in Sessions :
            warmOf[s] \in Slots \ intruded =>
                /\ state[warmOf[s]] = "BUSY"
                /\ browserOf[s] \in {NoBrowser, handle[warmOf[s]]}
                /\ \A x \in Sessions \ {s} : warmOf[x] # warmOf[s]
                /\ \A t \in Operators : warmOf[s] \notin opHeld[t]

\* No reservation is lost: a reserved or busy slot has a session, a create under
\* way, an operator, or a call that is about to give it back, until an operator
\* takes on a slot it has not reserved.
ReservationHasOwner ==
    \A w \in Slots \ intruded :
        state[w] \in {"RESERVED", "BUSY"} =>
            \/ \E s \in Sessions : warmOf[s] = w
            \/ \E t \in Managers : hold[t] = w
            \/ \E t \in Operators : w \in opHeld[t]
            \/ \E c \in Clients : target[c] = w /\ op[c] = "release"

\* When stop() has returned no browser runs but those the launch lost, and no VNC
\* helper but those of a session whose end it cut off.
StopLeavesNothing == phase = "stopped" => live \subseteq lost /\ vncLive \subseteq cut

\* With everything the runner does around its pool - cold browsers, rollbacks, the
\* reaper, operators, stop() and start() again - workstations live as SlotLifecycle says.
Life == INSTANCE SlotLifecycle WITH browser <- handle
ImplementsLifecycle == Life!Spec

\* A session whose idle TTL has passed is ended or used again, as long as the
\* reaper has not died.
IdleSessionEnds ==
    \A s \in Sessions :
        (status[s] = "LIVE" /\ idle[s]) ~> (status[s] # "LIVE" \/ ~idle[s] \/ reaping # "on")

\* A sweep ends sessions that are idle when it ends them.
SweepEndsIdleSessions ==
    [][\A s \in Sessions :
          status[s] = "LIVE" /\ status'[s] = "DEAD" /\ s \in expired \ expired' => idle[s]]_vars

\* An idle session ends while the runner serves, whatever happened to another.
ExpiredSessionEnds ==
    \A s \in Sessions :
        (status[s] = "LIVE" /\ idle[s]) ~> (status[s] # "LIVE" \/ ~idle[s] \/ phase # "serving")

\* The manager's lock is always given back: no create or update waits for ever on
\* a slot's lock that an operator's or its own recycle holds.
LockReleased == mlock # NoClient ~> mlock = NoClient

\* Every call of the pool returns, whoever makes it: a request under the
\* manager's lock, the reaper, an operator, the application's start and stop.
SlotCallsReturn == Pool!CallsReturn

\* And no workstation recycles for ever, unless its directory factory failed.
SlotRecyclingEnds == Pool!RecyclingEnds
=============================================================================
