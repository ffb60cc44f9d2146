------------------------------ MODULE WarmPool ------------------------------
(***************************************************************************)
(* The runner's pool of pre-started browsers, WarmPoolManager of           *)
(* services/runner/app/warm_pool.py.                                       *)
(*                                                                         *)
(* Every workstation of the configuration is a slot with a state, the      *)
(* handle of the browser it owns and an asyncio.Lock.  A client is a task  *)
(* that is inside one method of the manager; methods interleave at their   *)
(* awaits.  A method that finds its slot's lock taken waits (pc "wait");   *)
(* reserving, marking busy and cancelling never await under the lock and   *)
(* are one step, recycling and draining keep the lock over the awaits of   *)
(* the browser's death, launch and prewarm navigation.                     *)
(*                                                                         *)
(* Abstracted: fingerprints, proxies, launch environments, temporary       *)
(* directories (only the factory's failure is kept), metrics and the       *)
(* workstation events, which are published after the lock is released and  *)
(* whose in-memory publisher cannot fail.                                  *)
(***************************************************************************)
EXTENDS Naturals, FiniteSets

CONSTANTS
    Slots,       \* the workstations of the configuration
    Clients,     \* the tasks that call the manager
    Starter,     \* the client that runs start(): the FastAPI startup hook
    Browsers,    \* names for browser processes
    NoBrowser, NoClient, NoSlot,
    MaxRetries   \* launch attempts per provisioning (max_retries)

ASSUME WarmPoolAssumption ==
    /\ Starter \in Clients
    /\ NoBrowser \notin Browsers
    /\ NoClient \notin Clients
    /\ NoSlot \notin Slots
    /\ MaxRetries \in Nat \ {0}

VARIABLES
    state,      \* slot.state
    handle,     \* slot.handle
    lock,       \* holder of slot.lock
    draining,   \* WarmPoolManager._draining
    live,       \* browser processes that are running
    op,         \* the method a client is in
    pc,         \* where in the method it is
    target,     \* the slot the method works on
    launched,   \* a browser launched but not yet stored in the slot
    attempt,    \* attempts of _attempt_launch that have failed so far
    todo,       \* slots a loop over all slots has still to visit
    used,       \* history: browsers that have served a busy slot
    stranded,   \* history: slots whose recycle died in the directory factory
    drained,    \* history: a drain() has returned
    reenabled,  \* history: slots enabled again after drain() took them
    lost        \* history: running browsers whose launch raised without killing them

slotVars == <<state, handle, lock, draining, live>>
callVars == <<op, pc, target, launched, attempt, todo>>
historyVars == <<used, stranded, drained, reenabled, lost>>
vars == <<slotVars, callVars, historyVars>>

States == {"IDLE", "RESERVED", "BUSY", "RECYCLING", "DRAINING", "ERROR"}
Switches == {"reserve", "busy", "cancel"}
Recycles == {"release", "enable", "restart"}
SlotOps == Switches \cup Recycles \cup {"drain_slot"}
Loops == {"start", "drain"}

\* Fault: cancel_reservation takes a busy slot too.
AcceptsCancelBusy(o, st) ==
    \/ o = "reserve" /\ st = "IDLE"
    \/ o = "busy" /\ st = "RESERVED"
    \/ o \in {"cancel", "release"} /\ st \in {"BUSY", "RESERVED"}
    \/ o \in {"restart", "drain_slot"} /\ st \in {"IDLE", "ERROR"}
    \/ o = "enable" /\ st \in {"DRAINING", "ERROR"}
    \/ o = "drain"

\* The states in which a method, with the slot's lock, accepts the slot; drain()
\* looks at no state.
Accepts(o, st) ==
    \/ o = "reserve" /\ st = "IDLE"
    \/ o \in {"busy", "cancel"} /\ st = "RESERVED"
    \/ o = "release" /\ st \in {"BUSY", "RESERVED"}
    \/ o \in {"restart", "drain_slot"} /\ st \in {"IDLE", "ERROR"}
    \/ o = "enable" /\ st \in {"DRAINING", "ERROR"}
    \/ o = "drain"

\* The state a method sets before its first await.
SetsState(o) ==
    IF o = "reserve" THEN "RESERVED"
    ELSE IF o = "busy" THEN "BUSY"
    ELSE IF o = "cancel" THEN "IDLE"
    ELSE IF o \in Recycles THEN "RECYCLING"
    ELSE "DRAINING"

Serving == op[Starter] # "start"
Fresh == Browsers \ (live \cup {handle[s] : s \in Slots}
                          \cup {launched[c] : c \in Clients})

-----------------------------------------------------------------------------
(***************************************************************************)
(* __init__ and the entry of start(): all slots are built in RECYCLING,    *)
(* without a browser.                                                      *)
(***************************************************************************)
Init ==
    /\ state = [s \in Slots |-> "RECYCLING"]
    /\ handle = [s \in Slots |-> NoBrowser]
    /\ lock = [s \in Slots |-> NoClient]
    /\ draining = FALSE
    /\ live = {}
    /\ op = [c \in Clients |-> IF c = Starter THEN "start" ELSE "none"]
    /\ pc = [c \in Clients |-> IF c = Starter THEN "next" ELSE "idle"]
    /\ target = [c \in Clients |-> NoSlot]
    /\ launched = [c \in Clients |-> NoBrowser]
    /\ attempt = [c \in Clients |-> 0]
    /\ todo = [c \in Clients |-> IF c = Starter THEN Slots ELSE {}]
    /\ used = {}
    /\ stranded = {}
    /\ drained = FALSE
    /\ reenabled = {}
    /\ lost = {}

Return(c) ==
    /\ op' = [op EXCEPT ![c] = "none"]
    /\ pc' = [pc EXCEPT ![c] = "idle"]
    /\ target' = [target EXCEPT ![c] = NoSlot]

\* Calls of the methods that work on one slot, which _require_slot looks up.
Call(c, o, s) ==
    /\ pc[c] = "idle"
    /\ o \in SlotOps \ {"reserve"}
    /\ op' = [op EXCEPT ![c] = o]
    /\ pc' = [pc EXCEPT ![c] = "wait"]
    /\ target' = [target EXCEPT ![c] = s]
    /\ UNCHANGED <<slotVars, launched, attempt, todo, historyVars>>

\* reserve_slot up to its lock: the pool must not drain and _select_idle_slot
\* must find an idle slot (the requested one, or any).
CallReserve(c, s) ==
    /\ pc[c] = "idle"
    /\ ~draining
    /\ state[s] = "IDLE"
    /\ op' = [op EXCEPT ![c] = "reserve"]
    /\ pc' = [pc EXCEPT ![c] = "wait"]
    /\ target' = [target EXCEPT ![c] = s]
    /\ UNCHANGED <<slotVars, launched, attempt, todo, historyVars>>

\* ... and its refusal before the lock, for a caller that asks for one of the
\* candidates (any slot, the requested one, or none when it is unknown).
ReserveRefused(candidates) ==
    draining \/ \A s \in candidates : state[s] # "IDLE"

\* Fault: only the slots that are idle when drain() begins are drained.
CallDrainIdleOnly(c) ==
    /\ pc[c] = "idle"
    /\ draining' = TRUE
    /\ op' = [op EXCEPT ![c] = "drain"]
    /\ pc' = [pc EXCEPT ![c] = "next"]
    /\ todo' = [todo EXCEPT ![c] = {s \in Slots : state[s] = "IDLE"}]
    /\ UNCHANGED <<state, handle, lock, live, target, launched, attempt, historyVars>>

\* drain() refuses new reservations first, then visits every slot.
CallDrain(c) ==
    /\ pc[c] = "idle"
    /\ draining' = TRUE
    /\ op' = [op EXCEPT ![c] = "drain"]
    /\ pc' = [pc EXCEPT ![c] = "next"]
    /\ todo' = [todo EXCEPT ![c] = Slots]
    /\ UNCHANGED <<state, handle, lock, live, target, launched, attempt, historyVars>>

\* start() on a manager whose drain() has returned: new slots replace the old,
\* and the draining flag stays as drain() left it.
CallStart(c) ==
    /\ pc[c] = "idle"
    /\ drained
    /\ state' = [s \in Slots |-> "RECYCLING"]
    /\ handle' = [s \in Slots |-> NoBrowser]
    /\ lock' = [s \in Slots |-> NoClient]
    /\ op' = [op EXCEPT ![c] = "start"]
    /\ pc' = [pc EXCEPT ![c] = "next"]
    /\ todo' = [todo EXCEPT ![c] = Slots]
    /\ stranded' = {}
    /\ drained' = FALSE
    /\ reenabled' = {}
    /\ UNCHANGED <<draining, live, target, launched, attempt, used, lost>>

-----------------------------------------------------------------------------
\* The loops of start() and drain(): start() provisions without the lock.
NextSlot(c, s) ==
    /\ pc[c] = "next"
    /\ s \in todo[c]
    /\ todo' = [todo EXCEPT ![c] = @ \ {s}]
    /\ target' = [target EXCEPT ![c] = s]
    /\ pc' = [pc EXCEPT ![c] = IF op[c] = "start" THEN "spawn" ELSE "wait"]
    /\ UNCHANGED <<slotVars, op, launched, attempt, historyVars>>

\* In start() the directory of a slot is made outside the handler of its loop:
\* mkdtemp raises, start() ends, and no slot that is left is ever built.
StartFails(c) ==
    /\ pc[c] = "next"
    /\ op[c] = "start"
    /\ todo[c] # {}
    /\ pc' = [pc EXCEPT ![c] = "failed"]
    /\ stranded' = stranded \cup todo[c]
    /\ UNCHANGED <<slotVars, op, target, launched, attempt, todo, used, drained,
                   reenabled, lost>>

LoopDone(c) ==
    /\ pc[c] = "next"
    /\ todo[c] = {}
    /\ drained' = (drained \/ op[c] = "drain")
    /\ Return(c)
    /\ UNCHANGED <<slotVars, launched, attempt, todo, used, stranded, reenabled, lost>>

\* Fault: reserve_slot trusts what it saw before it waited for the lock.
AcceptedUnchecked(c) ==
    op[c] = "reserve" \/ Accepts(op[c], state[target[c]])

\* The lock is acquired and the slot checked again; reserve_slot wants a handle too.
Accepted(c) ==
    /\ Accepts(op[c], state[target[c]])
    /\ op[c] = "reserve" => handle[target[c]] # NoBrowser

Refuse(c) ==
    /\ pc[c] = "wait"
    /\ lock[target[c]] = NoClient
    /\ ~Accepted(c)
    /\ Return(c)
    /\ UNCHANGED <<slotVars, launched, attempt, todo, historyVars>>

\* reserve_slot, mark_busy, cancel_reservation: no await under the lock.
Switch(c) ==
    /\ pc[c] = "wait"
    /\ op[c] \in Switches
    /\ lock[target[c]] = NoClient
    /\ Accepted(c)
    /\ state' = [state EXCEPT ![target[c]] = SetsState(op[c])]
    /\ used' = IF op[c] = "busy" THEN used \cup {handle[target[c]]} ELSE used
    /\ Return(c)
    /\ UNCHANGED <<handle, lock, draining, live, launched, attempt, todo,
                   stranded, drained, reenabled, lost>>

\* release_slot, enable_slot, restart_slot, drain_slot, drain: keep the lock.
Enter(c) ==
    /\ pc[c] = "wait"
    /\ op[c] \notin Switches
    /\ lock[target[c]] = NoClient
    /\ Accepted(c)
    /\ state' = [state EXCEPT ![target[c]] = SetsState(op[c])]
    /\ lock' = [lock EXCEPT ![target[c]] = c]
    /\ pc' = [pc EXCEPT ![c] = "teardown"]
    /\ stranded' = stranded \ {target[c]}
    /\ reenabled' = IF op[c] = "enable" /\ draining
                    THEN reenabled \cup {target[c]} ELSE reenabled
    /\ UNCHANGED <<handle, draining, live, op, target, launched, attempt, todo,
                   used, drained, lost>>

\* Fault: the drains return without the lock's release.
TeardownKeepsLock(c) ==
    /\ pc[c] = "teardown"
    /\ live' = live \ {handle[target[c]]}
    /\ handle' = [handle EXCEPT ![target[c]] = NoBrowser]
    /\ IF op[c] = "drain_slot"
       THEN Return(c)
       ELSE /\ pc' = [pc EXCEPT ![c] = IF op[c] = "drain" THEN "next" ELSE "directory"]
            /\ UNCHANGED <<op, target>>
    /\ UNCHANGED <<state, lock, draining, launched, attempt, todo, historyVars>>

\* _teardown_slot: the browser is killed and forgotten.  The drains end here.
Teardown(c) ==
    /\ pc[c] = "teardown"
    /\ live' = live \ {handle[target[c]]}
    /\ handle' = [handle EXCEPT ![target[c]] = NoBrowser]
    /\ reenabled' = IF op[c] = "drain" THEN reenabled \ {target[c]} ELSE reenabled
    /\ \/ /\ op[c] \in Recycles
          /\ pc' = [pc EXCEPT ![c] = "directory"]
          /\ UNCHANGED <<lock, op, target>>
       \/ /\ op[c] = "drain_slot"
          /\ lock' = [lock EXCEPT ![target[c]] = NoClient]
          /\ Return(c)
       \/ /\ op[c] = "drain"
          /\ lock' = [lock EXCEPT ![target[c]] = NoClient]
          /\ pc' = [pc EXCEPT ![c] = "next"]
          /\ target' = [target EXCEPT ![c] = NoSlot]
          /\ UNCHANGED op
    /\ UNCHANGED <<state, draining, launched, attempt, todo, used, stranded, drained,
                   lost>>

\* The recycles make a new temporary directory before they provision.
MakeDirectory(c) ==
    /\ pc[c] = "directory"
    /\ pc' = [pc EXCEPT ![c] = "spawn"]
    /\ UNCHANGED <<slotVars, op, target, launched, attempt, todo, historyVars>>

\* mkdtemp raises OSError: nothing catches it, the slot stays RECYCLING.
DirectoryFails(c) ==
    /\ pc[c] = "directory"
    /\ lock' = [lock EXCEPT ![target[c]] = NoClient]
    /\ stranded' = stranded \cup {target[c]}
    /\ Return(c)
    /\ UNCHANGED <<state, handle, draining, live, launched, attempt, todo,
                   used, drained, reenabled, lost>>

-----------------------------------------------------------------------------
\* _provision_slot ends with state st: the recycles return, start() goes on.
Provisioned(c, st) ==
    /\ state' = [state EXCEPT ![target[c]] = st]
    /\ attempt' = [attempt EXCEPT ![c] = 0]
    /\ IF op[c] = "start"
       THEN /\ pc' = [pc EXCEPT ![c] = "next"]
            /\ target' = [target EXCEPT ![c] = NoSlot]
            /\ UNCHANGED <<lock, op>>
       ELSE /\ lock' = [lock EXCEPT ![target[c]] = NoClient]
            /\ Return(c)

\* Fault: one attempt more than max_retries.
AttemptFailedOffByOne(c) ==
    \/ /\ attempt[c] < MaxRetries
       /\ attempt' = [attempt EXCEPT ![c] = @ + 1]
       /\ pc' = [pc EXCEPT ![c] = "spawn"]
       /\ UNCHANGED <<state, lock, op, target>>
    \/ /\ attempt[c] >= MaxRetries
       /\ Provisioned(c, "ERROR")

\* Fault: failed attempts are not counted.
AttemptFailedForever(c) ==
    /\ pc' = [pc EXCEPT ![c] = "spawn"]
    /\ UNCHANGED <<state, lock, op, target, attempt>>

\* Fault: giving up does not set the slot's state.
AttemptFailedKeepsState(c) ==
    \/ /\ attempt[c] + 1 < MaxRetries
       /\ attempt' = [attempt EXCEPT ![c] = @ + 1]
       /\ pc' = [pc EXCEPT ![c] = "spawn"]
       /\ UNCHANGED <<state, lock, op, target>>
    \/ /\ attempt[c] + 1 >= MaxRetries
       /\ Provisioned(c, state[target[c]])

\* _attempt_launch: an attempt has failed; back off and retry, or give up.
AttemptFailed(c) ==
    \/ /\ attempt[c] + 1 < MaxRetries
       /\ attempt' = [attempt EXCEPT ![c] = @ + 1]
       /\ pc' = [pc EXCEPT ![c] = "spawn"]
       /\ UNCHANGED <<state, lock, op, target>>
    \/ /\ attempt[c] + 1 >= MaxRetries
       /\ Provisioned(c, "ERROR")

\* _spawn_browser: a browser process starts and reports its endpoint ...
Spawn(c, b) ==
    /\ pc[c] = "spawn"
    /\ b \in Fresh
    /\ live' = live \cup {b}
    /\ launched' = [launched EXCEPT ![c] = b]
    /\ used' = used \ {b}
    /\ pc' = [pc EXCEPT ![c] = "prewarm"]
    /\ UNCHANGED <<state, handle, lock, draining, op, target, attempt, todo,
                   stranded, drained, reenabled, lost>>

\* ... or does not: launch_browser kills what it started before it raises
\* BrowserLaunchError ...
SpawnFails(c) ==
    /\ pc[c] = "spawn"
    /\ AttemptFailed(c)
    /\ UNCHANGED <<handle, draining, live, launched, todo, historyVars>>

\* ... but the ValueError of readline(), for a first line beyond the stream's
\* limit, passes it by: the process runs on and nobody has its handle.
SpawnLoses(c, b) ==
    /\ pc[c] = "spawn"
    /\ b \in Fresh
    /\ live' = live \cup {b}
    /\ lost' = lost \cup {b}
    /\ AttemptFailed(c)
    /\ UNCHANGED <<handle, draining, launched, todo, used, stranded, drained, reenabled>>

\* _maybe_prewarm succeeds (or is not configured): the slot gets the browser.
Prewarm(c) ==
    /\ pc[c] = "prewarm"
    /\ handle' = [handle EXCEPT ![target[c]] = launched[c]]
    /\ launched' = [launched EXCEPT ![c] = NoBrowser]
    /\ Provisioned(c, "IDLE")
    /\ UNCHANGED <<draining, live, todo, historyVars>>

\* Fault: the browser that failed to navigate is not shut down.
PrewarmFailsLeaks(c) ==
    /\ pc[c] = "prewarm"
    /\ launched' = [launched EXCEPT ![c] = NoBrowser]
    /\ AttemptFailed(c)
    /\ UNCHANGED <<handle, draining, live, todo, historyVars>>

\* The navigation raises: the new browser is shut down, the attempt has failed.
PrewarmFails(c) ==
    /\ pc[c] = "prewarm"
    /\ live' = live \ {launched[c]}
    /\ launched' = [launched EXCEPT ![c] = NoBrowser]
    /\ AttemptFailed(c)
    /\ UNCHANGED <<handle, draining, todo, historyVars>>

\* A browser process exits by itself; nothing in the runner notices.
BrowserExits(b) ==
    /\ b \in live
    /\ live' = live \ {b}
    /\ lost' = lost \ {b}
    /\ UNCHANGED <<state, handle, lock, draining, callVars, used, stranded, drained,
                   reenabled>>

-----------------------------------------------------------------------------
Begin(c) ==
    /\ Serving
    /\ \/ \E o \in SlotOps, s \in Slots : Call(c, o, s)
       \/ \E s \in Slots : CallReserve(c, s)
       \/ CallDrain(c)

Step(c) ==
    \/ \E s \in Slots : NextSlot(c, s)
    \/ StartFails(c)
    \/ LoopDone(c)
    \/ Refuse(c)
    \/ Switch(c)
    \/ Enter(c)
    \/ Teardown(c)
    \/ MakeDirectory(c)
    \/ DirectoryFails(c)
    \/ \E b \in Browsers : Spawn(c, b)
    \/ SpawnFails(c)
    \/ \E b \in Browsers : SpawnLoses(c, b)
    \/ Prewarm(c)
    \/ PrewarmFails(c)

Next ==
    \/ \E c \in Clients : Begin(c) \/ Step(c)
    \/ \E b \in Browsers : BrowserExits(b)

Spec == Init /\ [][Next]_vars

-----------------------------------------------------------------------------
(***************************************************************************)
(* Properties.                                                             *)
(***************************************************************************)

\* The types of the pool's fields and of a task's place in a method.
TypeOK ==
    /\ state \in [Slots -> States]
    /\ handle \in [Slots -> Browsers \cup {NoBrowser}]
    /\ lock \in [Slots -> Clients \cup {NoClient}]
    /\ draining \in BOOLEAN
    /\ live \subseteq Browsers
    /\ op \in [Clients -> SlotOps \cup Loops \cup {"none"}]
    /\ pc \in [Clients -> {"idle", "next", "wait", "teardown", "directory",
                            "spawn", "prewarm", "failed"}]
    /\ target \in [Clients -> Slots \cup {NoSlot}]
    /\ launched \in [Clients -> Browsers \cup {NoBrowser}]
    /\ attempt \in [Clients -> 0 .. MaxRetries - 1]
    /\ todo \in [Clients -> SUBSET Slots]
    /\ used \subseteq Browsers \cup {NoBrowser}
    /\ stranded \subseteq Slots
    /\ drained \in BOOLEAN
    /\ reenabled \subseteq Slots
    /\ lost \subseteq Browsers

\* The pool orphans no browser process: whatever launch, prewarm or teardown
\* does, each running browser is a slot's handle or in the hands of the task that
\* is provisioning (_attempt_launch, _teardown_slot), except those launch_browser
\* itself lost - and these nobody has, so nothing but their own exit ends them.
BrowserOwned ==
    \A b \in live :
        b \notin lost <=> \/ \E s \in Slots : handle[s] = b
                         \/ \E c \in Clients : launched[c] = b

\* A slot that can be reserved, or is, has a browser, and no other slot has it:
\* two sessions on two workstations never drive the same process.
OfferedHasOwnBrowser ==
    \A s \in Slots :
        state[s] \in {"IDLE", "RESERVED", "BUSY"} =>
            /\ handle[s] # NoBrowser
            /\ \A t \in Slots \ {s} : handle[t] # handle[s]

\* A browser that served a busy slot is never offered again: release, drain,
\* cancel and restart in any order put a new process between two tenants.
TenantIsolation ==
    \A s \in Slots : state[s] \in {"IDLE", "RESERVED"} => handle[s] \notin used

\* A RECYCLING slot, which no method accepts, has a task working on it that
\* holds its lock, or start() is still running, or the recycle died in the
\* directory factory (the one error release, enable and restart do not catch;
\* in start() it leaves start() unfinished for good).
RecyclingHasWorker ==
    \A s \in Slots :
        state[s] = "RECYCLING" =>
            \/ lock[s] # NoClient
            \/ ~Serving
            \/ s \in stranded

\* When drain() has returned, a slot has a browser only if somebody enabled the
\* slot after drain() took it, whatever recycles were under way.
DrainLeavesNothing ==
    drained => \A s \in Slots : handle[s] # NoBrowser => s \in reenabled

\* A slot lives as SlotLifecycle says, whatever methods are interleaved and fail:
\* reserve, busy, cancel and the recycles are each one change of one slot, and a
\* slot that was taken comes back only with a new process that is its own.
Life == INSTANCE SlotLifecycle WITH browser <- handle
ImplementsLifecycle == Life!Spec

\* Every call of the manager returns, or start() has raised: the per-slot locks
\* are always given back.
CallsReturn ==
    \A c \in Clients : op[c] # "none" ~> (op[c] = "none" \/ pc[c] = "failed")

\* A recycle ends: its slot becomes idle, failed or drained, or is stranded.
RecyclingEnds ==
    \A s \in Slots :
        state[s] = "RECYCLING" ~> (state[s] # "RECYCLING" \/ s \in stranded)
=============================================================================
